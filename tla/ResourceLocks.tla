---------------------------- MODULE ResourceLocks ----------------------------
(***************************************************************************)
(* What the LRS promises its clients about drives and media (spec 4.1 and  *)
(* 5), with no drive, medium or queue mechanics: a client takes the lock   *)
(* of one drive and of one medium in a single step, only when both are    *)
(* free; it may then be granted the pair, uses it and hands it back, after *)
(* which both locks are freed together.  A lock taken for a job that ends *)
(* without a grant (a format, a device fault, a cancelled request) is     *)
(* dropped as a pair as well.  No lock ever passes from one client to     *)
(* another, and a pair in use is never taken away.                        *)
(***************************************************************************)
CONSTANTS Devices, Media, Clients, NoOwner

VARIABLES
    devLock,   \* holder of each drive lock, or NoOwner
    medLock,   \* holder of each medium lock, or NoOwner
    stage      \* "free" | "locked" | "granted" | "returned", per client

avars == <<devLock, medLock, stage>>

ALTypeOK ==
    /\ devLock \in [Devices -> Clients \cup {NoOwner}]
    /\ medLock \in [Media -> Clients \cup {NoOwner}]
    /\ stage \in [Clients -> {"free", "locked", "granted", "returned"}]

ALInit ==
    /\ devLock = [d \in Devices |-> NoOwner]
    /\ medLock = [m \in Media |-> NoOwner]
    /\ stage = [c \in Clients |-> "free"]

Lock(c, d, m) ==
    /\ stage[c] = "free"
    /\ devLock[d] = NoOwner /\ medLock[m] = NoOwner
    /\ devLock' = [devLock EXCEPT ![d] = c]
    /\ medLock' = [medLock EXCEPT ![m] = c]
    /\ stage' = [stage EXCEPT ![c] = "locked"]

Grant(c) ==
    /\ stage[c] = "locked"
    /\ stage' = [stage EXCEPT ![c] = "granted"]
    /\ UNCHANGED <<devLock, medLock>>

Return(c) ==
    /\ stage[c] = "granted"
    /\ stage' = [stage EXCEPT ![c] = "returned"]
    /\ UNCHANGED <<devLock, medLock>>

(* Both locks of the pair c holds are freed in one step.                   *)
Unlock(c, d, m) ==
    /\ devLock[d] = c /\ medLock[m] = c
    /\ devLock' = [devLock EXCEPT ![d] = NoOwner]
    /\ medLock' = [medLock EXCEPT ![m] = NoOwner]
    /\ stage' = [stage EXCEPT ![c] = "free"]

Release(c, d, m) == stage[c] = "returned" /\ Unlock(c, d, m)

Abandon(c, d, m) == stage[c] = "locked" /\ Unlock(c, d, m)

ALNext ==
    \E c \in Clients :
        \/ Grant(c) \/ Return(c)
        \/ \E d \in Devices, m \in Media : Lock(c, d, m) \/ Release(c, d, m) \/ Abandon(c, d, m)

(* A client holding locks eventually gets its grant or loses the job, uses *)
(* what it was granted, and hands it back; a returned pair is freed.       *)
ALFairness ==
    \A c \in Clients :
        /\ WF_avars(Grant(c) \/ \E d \in Devices, m \in Media : Abandon(c, d, m))
        /\ WF_avars(Return(c))
        /\ WF_avars(\E d \in Devices, m \in Media : Release(c, d, m))

ALSafeSpec == ALInit /\ [][ALNext]_avars

ALSpec == ALSafeSpec /\ ALFairness

=============================================================================
