----------------------------- MODULE LrsCatalog -----------------------------
(***************************************************************************)
(* The LRS of pho_lrs.h is a library: each client process runs it on its  *)
(* own DSS handle (li_dss), and the processes share the catalog only.       *)
(* lrs_write_prepare reads the record of a medium with room, takes the     *)
(* catalog lock on it ("lock if unlocked", atomic) and re-reads the record  *)
(* once it holds the lock; the process then writes its intent_size bytes  *)
(* on the medium, and lrs_done mirrors the medium's new free space and fs   *)
(* status into its catalog record, then unlocks the medium.                *)
(***************************************************************************)
EXTENDS Naturals

CONSTANTS
    Procs,        \* client processes, each running the LRS library
    Media,        \* medium records of the catalog
    Capacity,     \* bytes a formatted medium holds
    Sizes,        \* intent sizes a process may ask to write
    MaxIntents,   \* write intents of each process in a behaviour
    NoOwner       \* lock holder of an unlocked medium

ASSUME Capacity \in Nat \ {0} /\ Sizes \subseteq 1..Capacity /\ MaxIntents \in Nat
ASSUME NoOwner \notin Procs

VARIABLES
    cat,      \* catalog record of each medium: [free, fs]
    lock,     \* catalog lock of each medium
    pc,       \* "idle" | "read" | "locked" | "written" | "mirrored"
    intent,   \* the process's intent: [medium, size, rec (its copy of the record), wrote]
    done,     \* intents each process has finished
    used      \* bytes really written on each medium (history, for the properties)

vars == <<cat, lock, pc, intent, done, used>>

Record == [free: 0..Capacity, fs: {"formatted", "full"}]
NoIntent == [medium |-> NoOwner, size |-> 0, rec |-> [free |-> 0, fs |-> "full"], wrote |-> 0]

LcTypeOK ==
    /\ cat \in [Media -> Record]
    /\ lock \in [Media -> Procs \cup {NoOwner}]
    /\ pc \in [Procs -> {"idle", "read", "locked", "written", "mirrored"}]
    /\ intent \in [Procs -> {NoIntent} \cup [medium: Media, size: Sizes, rec: Record,
                                                wrote: 0..Capacity]]
    /\ done \in [Procs -> 0..MaxIntents]
    /\ used \in [Media -> Nat]

LcInit ==
    /\ cat = [m \in Media |-> [free |-> Capacity, fs |-> "formatted"]]
    /\ lock = [m \in Media |-> NoOwner]
    /\ pc = [p \in Procs |-> "idle"]
    /\ intent = [p \in Procs |-> NoIntent]
    /\ done = [p \in Procs |-> 0]
    /\ used = [m \in Media |-> 0]

(* A medium whose record offers room for an intent of size s.             *)
HasRoom(rec, s) == rec.fs = "formatted" /\ rec.free >= s

(* lrs_write_prepare, first step: read, with its lock state, the record of *)
(* an unlocked medium with room for the whole intent_size.                 *)
MediaGet(p) ==
    /\ pc[p] = "idle"
    /\ done[p] < MaxIntents
    /\ \E m \in Media, s \in Sizes :
          /\ HasRoom(cat[m], s) /\ lock[m] = NoOwner
          /\ intent' = [intent EXCEPT ![p] = [medium |-> m, size |-> s, rec |-> cat[m], wrote |-> 0]]
    /\ pc' = [pc EXCEPT ![p] = "read"]
    /\ UNCHANGED <<cat, lock, done, used>>

(* lrs_write_prepare, NoMedium: no unlocked medium has room for the      *)
(* intent_size; the error is not retryable and the intent ends unwritten. *)
NoMedium(p) ==
    /\ pc[p] = "idle"
    /\ done[p] < MaxIntents
    /\ \E s \in Sizes : ~\E m \in Media : HasRoom(cat[m], s) /\ lock[m] = NoOwner
    /\ done' = [done EXCEPT ![p] = @ + 1]
    /\ UNCHANGED <<cat, lock, pc, intent, used>>

(* Mutant of MediaLock: the record read before the lock is kept.          *)
MediaLockNoRevalidate(p) ==
    LET m == intent[p].medium IN
    /\ pc[p] = "read"
    /\ \/ /\ lock[m] = NoOwner
          /\ lock' = [lock EXCEPT ![m] = p]
          /\ pc' = [pc EXCEPT ![p] = "locked"]
          /\ UNCHANGED intent
       \/ /\ lock[m] # NoOwner
          /\ pc' = [pc EXCEPT ![p] = "idle"]
          /\ UNCHANGED <<lock, intent>>
    /\ UNCHANGED <<cat, done, used>>

(* Mutant of MediaLock: the re-read only checks that the medium is not     *)
(* full, not that it still has room for the intent.                        *)
MediaLockNotFull(p) ==
    LET m == intent[p].medium IN
    /\ pc[p] = "read"
    /\ \/ /\ lock[m] = NoOwner /\ HasRoom(cat[m], 1)
          /\ lock' = [lock EXCEPT ![m] = p]
          /\ intent' = [intent EXCEPT ![p].rec = cat[m]]
          /\ pc' = [pc EXCEPT ![p] = "locked"]
       \/ /\ lock[m] # NoOwner \/ ~HasRoom(cat[m], 1)
          /\ pc' = [pc EXCEPT ![p] = "idle"]
          /\ UNCHANGED <<lock, intent>>
    /\ UNCHANGED <<cat, done, used>>

(* lrs_write_prepare, second step: lock the medium if it is unlocked (the  *)
(* catalog does it atomically) and re-read its record; the intent goes on  *)
(* if the medium still has room for it.  A medium locked meanwhile, or     *)
(* without room by now, sends the process back to choose again (Busy).    *)
MediaLock(p) ==
    LET m == intent[p].medium IN
    /\ pc[p] = "read"
    /\ \/ /\ lock[m] = NoOwner /\ HasRoom(cat[m], intent[p].size)
          /\ lock' = [lock EXCEPT ![m] = p]
          /\ intent' = [intent EXCEPT ![p].rec = cat[m]]
          /\ pc' = [pc EXCEPT ![p] = "locked"]
       \/ /\ lock[m] # NoOwner \/ ~HasRoom(cat[m], intent[p].size)
          /\ pc' = [pc EXCEPT ![p] = "idle"]
          /\ UNCHANGED <<lock, intent>>
    /\ UNCHANGED <<cat, done, used>>

(* The process writes its intent_size bytes on the medium the intent     *)
(* hands it.                                                               *)
IntentWrite(p) ==
    LET i == intent[p] IN
    /\ pc[p] = "locked"
    /\ intent' = [intent EXCEPT ![p].wrote = i.size]
    /\ used' = [used EXCEPT ![i.medium] = @ + i.size]
    /\ pc' = [pc EXCEPT ![p] = "written"]
    /\ UNCHANGED <<cat, lock, done>>

(* The stats fields of the record after w more bytes, set from the copy.  *)
MediaStats(rec, w) ==
    [free |-> rec.free - w, fs |-> IF rec.free - w = 0 THEN "full" ELSE rec.fs]

(* lrs_done, first step: write the medium's stats back to its record; the *)
(* medium is still locked.                                                 *)
MediaSetStats(p) ==
    LET i == intent[p] IN
    /\ pc[p] = "written"
    /\ cat' = [cat EXCEPT ![i.medium] = MediaStats(i.rec, i.wrote)]
    /\ pc' = [pc EXCEPT ![p] = "mirrored"]
    /\ UNCHANGED <<lock, intent, done, used>>

(* lrs_done, second step: unlock the medium; the intent is finished.      *)
MediaUnlock(p) ==
    LET i == intent[p] IN
    /\ pc[p] = "mirrored"
    /\ lock' = [lock EXCEPT ![i.medium] = NoOwner]
    /\ intent' = [intent EXCEPT ![p] = NoIntent]
    /\ done' = [done EXCEPT ![p] = @ + 1]
    /\ pc' = [pc EXCEPT ![p] = "idle"]
    /\ UNCHANGED <<cat, used>>

LcNext ==
    \E p \in Procs : MediaGet(p) \/ NoMedium(p) \/ MediaLock(p) \/ IntentWrite(p)
             \/ MediaSetStats(p) \/ MediaUnlock(p)

LcSpec == LcInit /\ [][LcNext]_vars

-----------------------------------------------------------------------------
(* Spec 2.3 and 5 (check, lock atomically, re-validate): however the       *)
(* processes' reads, locks and lrs_done calls interleave, no medium takes   *)
(* more bytes than it holds, and the record of every unlocked medium says   *)
(* exactly how much is left on it and whether it is full.  A process that  *)
(* used the record it read before locking would write over another's       *)
(* bytes or write back stale free space.                                    *)
StatsMirrored ==
    \A m \in Media :
        /\ used[m] <= Capacity
        /\ lock[m] = NoOwner => cat[m] = MediaStats([free |-> Capacity, fs |-> "formatted"], used[m])

=============================================================================
