--------------------------------- MODULE Lrs ---------------------------------
(***************************************************************************)
(* The Local Resource Scheduler: the sole owner of drive and medium state. *)
(* Clients (encoders) place requests in req[c]; write and format requests  *)
(* wait in the arrival queue until the dispatch pass can bind them to an   *)
(* idle device and a medium (lrs_write_prepare / lrs_format of pho_lrs.h), *)
(* after which the device's worker unloads, loads (retrying once on a load *)
(* error), mounts or formats, and answers in resp[c].  A release request   *)
(* (lrs_done) accounts the written bytes, unlocks and answers "released".  *)
(***************************************************************************)
EXTENDS Integers, Sequences, SequencesExt, FiniteSets

CONSTANTS
    Devices,          \* drives of the (single) family
    Media,            \* media of that family
    Clients,          \* encoders / admin callers talking to the LRS
    Capacity,         \* bytes a formatted medium holds
    NoOwner,          \* lock holder of an unlocked resource
    NoMedium,         \* devMedium of an empty drive
    MaxLoadRetries,   \* retries of a failed load before DeviceFault
    MaxLoadFaults     \* bound on adapter load failures in a behaviour

ASSUME NoOwner \notin Clients /\ NoMedium \notin Media
ASSUME Capacity \in Nat \ {0} /\ MaxLoadRetries \in Nat /\ MaxLoadFaults \in Nat

NoReq == [kind |-> "none"]
NoResp == [kind |-> "none"]
NoJob == [op |-> "none"]
NoData == <<>>                 \* content of a byte never written since format
Offsets == 0..(Capacity - 1)   \* byte positions on a medium

Errors == {"NoDevice", "NoMedium", "DeviceFault", "Timeout"}

Requests ==
    {NoReq}
    \cup [kind: {"write"}, size: 1..(Capacity * Cardinality(Media))]
    \cup [kind: {"format", "read"}, medium: Media]
    \cup [kind: {"release"}, device: Devices, medium: Media, written: 0..Capacity]

Responses ==
    {NoResp}
    \cup [kind: {"ready"}, device: Devices, medium: Media, offset: Offsets,
          avail: 0..Capacity]
    \cup [kind: {"formatted", "released"}]
    \cup [kind: {"error"}, err: Errors]

Jobs ==
    {NoJob} \cup [op: {"write", "read", "format"}, client: Clients, medium: Media,
                  size: Nat, tries: 0..MaxLoadRetries]

VARIABLES
    devStatus,   \* "empty" | "loaded" | "mounted" | "failed"
    devMedium,   \* medium in the drive, or NoMedium
    devOwner,    \* device lock holder
    devJob,      \* work bound to the device's worker, or NoJob
    medLoc,      \* "slot" or the drive holding the medium
    medFs,       \* "blank" | "formatted" | "full"
    medFree,     \* bytes left on a formatted medium
    medOwner,    \* medium lock holder
    medData,     \* each byte of each medium: <<client, extent index>> or NoData
    queue,       \* clients whose write/format request awaits dispatch
    cancelled,   \* clients whose in-flight request was aborted
    loadFaults,  \* adapter load failures so far
    req,         \* per-client request slot
    resp         \* per-client response slot

lrsVars == <<devStatus, devMedium, devOwner, devJob, medLoc, medFs, medFree,
             medOwner, medData, queue, cancelled, loadFaults>>
msgVars == <<req, resp>>
\* the scheduler's state but for its arrival queue
lrsState == <<devStatus, devMedium, devOwner, devJob, medLoc, medFs, medFree,
              medOwner, medData, cancelled, loadFaults>>

LrsTypeOK ==
    /\ devStatus \in [Devices -> {"empty", "loaded", "mounted", "failed"}]
    /\ devMedium \in [Devices -> Media \cup {NoMedium}]
    /\ devOwner \in [Devices -> Clients \cup {NoOwner}]
    /\ devJob \in [Devices -> Jobs]
    /\ medLoc \in [Media -> {"slot"} \cup Devices]
    /\ medFs \in [Media -> {"blank", "formatted", "full"}]
    /\ medFree \in [Media -> 0..Capacity]
    /\ medOwner \in [Media -> Clients \cup {NoOwner}]
    /\ medData \in [Media -> [Offsets -> (Clients \X Nat) \cup {NoData}]]
    /\ queue \in Seq(Clients)
    /\ cancelled \subseteq Clients
    /\ loadFaults \in 0..MaxLoadFaults
    /\ req \in [Clients -> Requests]
    /\ resp \in [Clients -> Responses]

(* Every medium starts in a slot, blank or formatted; drives are empty.    *)
LrsInit ==
    /\ devStatus = [d \in Devices |-> "empty"]
    /\ devMedium = [d \in Devices |-> NoMedium]
    /\ devOwner = [d \in Devices |-> NoOwner]
    /\ devJob = [d \in Devices |-> NoJob]
    /\ medLoc = [m \in Media |-> "slot"]
    /\ medFs \in [Media -> {"blank", "formatted"}]
    /\ medFree = [m \in Media |-> IF medFs[m] = "formatted" THEN Capacity ELSE 0]
    /\ medOwner = [m \in Media |-> NoOwner]
    /\ medData = [m \in Media |-> [k \in Offsets |-> NoData]]
    /\ queue = <<>>
    /\ cancelled = {}
    /\ loadFaults = 0
    /\ req = [c \in Clients |-> NoReq]
    /\ resp = [c \in Clients |-> NoResp]

-----------------------------------------------------------------------------
(* Allocation (spec 4.2).                                                    *)

IdleDev(d) ==
    /\ devOwner[d] = NoOwner
    /\ devJob[d] = NoJob
    /\ devStatus[d] # "failed"

(* A drive can take a medium from its slot, or already holds it.          *)
Reachable(d, m) == medLoc[m] \in {"slot", d}

Writable(m) ==
    /\ medFs[m] = "formatted"
    /\ medFree[m] > 0
    /\ medOwner[m] = NoOwner

WriteCandidates ==
    {p \in Devices \X Media : IdleDev(p[1]) /\ Writable(p[2]) /\ Reachable(p[1], p[2])}

(* Prefer a medium already in an idle drive with room for the whole write. *)
WriteChoices(size) ==
    LET fit == {p \in WriteCandidates : medLoc[p[2]] = p[1] /\ medFree[p[2]] >= size}
    IN IF fit # {} THEN fit ELSE WriteCandidates

FormatCandidates(m) ==
    {d \in Devices : IdleDev(d) /\ Reachable(d, m) /\ medOwner[m] = NoOwner}

(* A read names its medium (the layout's extent): any idle drive that can *)
(* reach it, preferring one that already holds it.                        *)
ReadChoices(m) ==
    LET cands == {d \in Devices : IdleDev(d) /\ Reachable(d, m) /\ medOwner[m] = NoOwner}
        loaded == {d \in cands : medLoc[m] = d}
    IN IF loaded # {} THEN loaded ELSE cands

NoLiveDevice == \A d \in Devices : devStatus[d] = "failed"

NoUsableMedium == \A m \in Media : medFs[m] # "formatted" \/ medFree[m] = 0

Bind(c, d, m, op, size) ==
    /\ devOwner' = [devOwner EXCEPT ![d] = c]
    /\ medOwner' = [medOwner EXCEPT ![m] = c]
    /\ devJob' = [devJob EXCEPT ![d] = [op |-> op, client |-> c, medium |-> m,
                                        size |-> size, tries |-> 0]]
    /\ queue' = Tail(queue)
    /\ req' = [req EXCEPT ![c] = NoReq]
    /\ UNCHANGED <<devStatus, devMedium, medLoc, medData, medFs, medFree, cancelled,
                   loadFaults, resp>>

(* Answer the head request with an error and drop it.                     *)
Reject(c, err) ==
    /\ queue' = Tail(queue)
    /\ req' = [req EXCEPT ![c] = NoReq]
    /\ resp' = [resp EXCEPT ![c] = [kind |-> "error", err |-> err]]
    /\ UNCHANGED <<devStatus, devMedium, devOwner, devJob, medLoc, medData, medFs,
                   medFree, medOwner, cancelled, loadFaults>>

DispatchWrite ==
    /\ queue # <<>>
    /\ LET c == Head(queue) IN
       /\ req[c].kind = "write"
       /\ \/ \E p \in WriteChoices(req[c].size) : Bind(c, p[1], p[2], "write", req[c].size)
          \/ NoLiveDevice /\ Reject(c, "NoDevice")
          \/ ~NoLiveDevice /\ NoUsableMedium /\ Reject(c, "NoMedium")

(* lrs_format: the caller names the medium; it is loaded into an idle      *)
(* drive that can reach it and formatted, whatever it holds.              *)
DispatchFormat ==
    /\ queue # <<>>
    /\ LET c == Head(queue)
           m == req[c].medium
       IN /\ req[c].kind = "format"
          /\ \/ \E d \in FormatCandidates(m) : Bind(c, d, m, "format", 0)
             \/ NoLiveDevice /\ Reject(c, "NoDevice")

(* Mutant of DispatchRead: the medium lock is not checked, so a medium    *)
(* another client is writing can be handed to a reader.                   *)
DispatchReadNoMediumLock ==
    /\ queue # <<>>
    /\ LET c == Head(queue)
           m == req[c].medium
       IN /\ req[c].kind = "read"
          /\ \/ \E d \in Devices : IdleDev(d) /\ Reachable(d, m) /\ Bind(c, d, m, "read", 0)
             \/ NoLiveDevice /\ Reject(c, "NoDevice")

(* Mutant of DispatchRead: only a drive already holding the medium is     *)
(* taken, so a medium in its slot is never read.                          *)
DispatchReadLoadedOnly ==
    /\ queue # <<>>
    /\ LET c == Head(queue)
           m == req[c].medium
       IN /\ req[c].kind = "read"
          /\ \/ \E d \in ReadChoices(m) : medLoc[m] = d /\ Bind(c, d, m, "read", 0)
             \/ NoLiveDevice /\ Reject(c, "NoDevice")

(* lrs_read_prepare: the medium is the one the layout names.               *)
DispatchRead ==
    /\ queue # <<>>
    /\ LET c == Head(queue)
           m == req[c].medium
       IN /\ req[c].kind = "read"
          /\ \/ \E d \in ReadChoices(m) : Bind(c, d, m, "read", 0)
             \/ NoLiveDevice /\ Reject(c, "NoDevice")

(* Mutant of DispatchTimeout: the internal Busy status leaks to the client *)
(* instead of Timeout.                                                     *)
DispatchTimeoutBusy ==
    /\ queue # <<>>
    /\ LET c == Head(queue) IN
       /\ req[c].kind = "write" => WriteCandidates = {} /\ ~NoLiveDevice /\ ~NoUsableMedium
       /\ req[c].kind = "format" => FormatCandidates(req[c].medium) = {} /\ ~NoLiveDevice
       /\ req[c].kind = "read" => ReadChoices(req[c].medium) = {} /\ ~NoLiveDevice
       /\ Reject(c, "Busy")

(* The try-lock backoff gave up: candidates exist but all are locked.     *)
DispatchTimeout ==
    /\ queue # <<>>
    /\ LET c == Head(queue) IN
       /\ req[c].kind = "write" => WriteCandidates = {} /\ ~NoLiveDevice /\ ~NoUsableMedium
       /\ req[c].kind = "format" => FormatCandidates(req[c].medium) = {} /\ ~NoLiveDevice
       /\ req[c].kind = "read" => ReadChoices(req[c].medium) = {} /\ ~NoLiveDevice
       /\ Reject(c, "Timeout")

-----------------------------------------------------------------------------
(* Device workers (spec 4.3).  Each step touches only its own drive, the  *)
(* medium bound to its job, and the job's client's response slot.         *)

Job(d) == devJob[d]

(* The drive holds some other medium: unmount and put it back in a slot.  *)
WorkerUnload(d) ==
    /\ Job(d) # NoJob
    /\ devMedium[d] \notin {NoMedium, Job(d).medium}
    /\ medLoc' = [medLoc EXCEPT ![devMedium[d]] = "slot"]
    /\ devMedium' = [devMedium EXCEPT ![d] = NoMedium]
    /\ devStatus' = [devStatus EXCEPT ![d] = "empty"]
    /\ UNCHANGED <<devOwner, devJob, medData, medFs, medFree, medOwner, queue, cancelled,
                   loadFaults, req, resp>>

WorkerLoadOk(d) ==
    /\ Job(d) # NoJob
    /\ devMedium[d] = NoMedium
    /\ devMedium' = [devMedium EXCEPT ![d] = Job(d).medium]
    /\ medLoc' = [medLoc EXCEPT ![Job(d).medium] = d]
    /\ devStatus' = [devStatus EXCEPT ![d] = "loaded"]
    /\ UNCHANGED <<devOwner, devJob, medData, medFs, medFree, medOwner, queue, cancelled,
                   loadFaults, req, resp>>

(* Mutant of EndJob: the answer is delivered even to a cancelled client.  *)
EndJobIgnoreCancel(d, status, answer) ==
    LET c == Job(d).client IN
    /\ devStatus' = [devStatus EXCEPT ![d] = status]
    /\ devOwner' = [devOwner EXCEPT ![d] = NoOwner]
    /\ medOwner' = [medOwner EXCEPT ![Job(d).medium] = NoOwner]
    /\ devJob' = [devJob EXCEPT ![d] = NoJob]
    /\ resp' = [resp EXCEPT ![c] = answer]
    /\ cancelled' = cancelled \ {c}

(* End a job: unlock the device and the medium, answer the client unless  *)
(* it cancelled, in which case the answer is dropped.                     *)
EndJob(d, status, answer) ==
    LET c == Job(d).client IN
    /\ devStatus' = [devStatus EXCEPT ![d] = status]
    /\ devOwner' = [devOwner EXCEPT ![d] = NoOwner]
    /\ medOwner' = [medOwner EXCEPT ![Job(d).medium] = NoOwner]
    /\ devJob' = [devJob EXCEPT ![d] = NoJob]
    /\ resp' = IF c \in cancelled THEN resp ELSE [resp EXCEPT ![c] = answer]
    /\ cancelled' = cancelled \ {c}

(* The load adapter call fails (EINVAL): retry the move, or after         *)
(* MaxLoadRetries give up, put the drive in Error and report DeviceFault. *)
WorkerLoadFail(d) ==
    /\ Job(d) # NoJob
    /\ devMedium[d] = NoMedium
    /\ loadFaults < MaxLoadFaults
    /\ loadFaults' = loadFaults + 1
    /\ \/ /\ Job(d).tries < MaxLoadRetries
          /\ devJob' = [devJob EXCEPT ![d].tries = @ + 1]
          /\ UNCHANGED <<devStatus, devOwner, medOwner, resp, cancelled>>
       \/ /\ Job(d).tries = MaxLoadRetries
          /\ EndJob(d, "failed", [kind |-> "error", err |-> "DeviceFault"])
    /\ UNCHANGED <<devMedium, medLoc, medData, medFs, medFree, queue, req>>

(* Mount the medium and hand the drive to the client: the device and the  *)
(* medium stay locked by it until its release.  A cancelled client gets   *)
(* nothing and the locks are dropped at once.                             *)
WorkerMount(d) ==
    LET j == Job(d)
        c == j.client
        m == j.medium
    IN
    /\ j # NoJob
    /\ j.op \in {"write", "read"}
    /\ devMedium[d] = m
    /\ devStatus' = [devStatus EXCEPT ![d] = "mounted"]
    /\ devJob' = [devJob EXCEPT ![d] = NoJob]
    /\ IF c \in cancelled
       THEN /\ devOwner' = [devOwner EXCEPT ![d] = NoOwner]
            /\ medOwner' = [medOwner EXCEPT ![m] = NoOwner]
            /\ cancelled' = cancelled \ {c}
            /\ UNCHANGED resp
       ELSE /\ resp' = [resp EXCEPT ![c] = [kind |-> "ready", device |-> d, medium |-> m,
                                            offset |-> IF j.op = "write" THEN Capacity - medFree[m] ELSE 0,
                                            avail |-> IF j.op = "write" THEN Min({j.size, medFree[m]}) ELSE 0]]
            /\ UNCHANGED <<devOwner, medOwner, cancelled>>
    /\ UNCHANGED <<devMedium, medLoc, medData, medFs, medFree, queue, loadFaults, req>>

(* Format the loaded medium (lrs_format) and release it.                  *)
WorkerFormat(d) ==
    LET m == Job(d).medium IN
    /\ Job(d) # NoJob
    /\ Job(d).op = "format"
    /\ devMedium[d] = m
    /\ medFs' = [medFs EXCEPT ![m] = "formatted"]
    /\ medFree' = [medFree EXCEPT ![m] = Capacity]
    /\ medData' = [medData EXCEPT ![m] = [k \in Offsets |-> NoData]]
    /\ EndJob(d, "loaded", [kind |-> "formatted"])
    /\ UNCHANGED <<devMedium, medLoc, queue, loadFaults, req>>

(* Mutants of LrsRelease: the written size is not accounted; the medium   *)
(* lock is left held.                                                      *)
LrsReleaseNoAccounting(c) ==
    LET r == req[c] IN
    /\ r.kind = "release"
    /\ devOwner' = [devOwner EXCEPT ![r.device] = NoOwner]
    /\ medOwner' = [medOwner EXCEPT ![r.medium] = NoOwner]
    /\ req' = [req EXCEPT ![c] = NoReq]
    /\ resp' = [resp EXCEPT ![c] = [kind |-> "released"]]
    /\ UNCHANGED <<devStatus, devMedium, devJob, medLoc, medData, medFs, medFree, queue,
                   cancelled, loadFaults>>

LrsReleaseKeepMediumLock(c) ==
    LET r == req[c] IN
    /\ r.kind = "release"
    /\ medFree' = [medFree EXCEPT ![r.medium] = @ - r.written]
    /\ medFs' = [medFs EXCEPT ![r.medium] = IF medFree'[r.medium] = 0 THEN "full" ELSE @]
    /\ devOwner' = [devOwner EXCEPT ![r.device] = NoOwner]
    /\ req' = [req EXCEPT ![c] = NoReq]
    /\ resp' = [resp EXCEPT ![c] = [kind |-> "released"]]
    /\ UNCHANGED <<devStatus, devMedium, devJob, medLoc, medData, medOwner, queue, cancelled,
                   loadFaults>>

(* lrs_done: the client is through with the drive; account the bytes it  *)
(* wrote, mark the medium full when nothing is left, unlock both.         *)
LrsRelease(c) ==
    LET r == req[c] IN
    /\ r.kind = "release"
    /\ medFree' = [medFree EXCEPT ![r.medium] = @ - r.written]
    /\ medFs' = [medFs EXCEPT ![r.medium] = IF medFree'[r.medium] = 0 THEN "full" ELSE @]
    /\ devOwner' = [devOwner EXCEPT ![r.device] = NoOwner]
    /\ medOwner' = [medOwner EXCEPT ![r.medium] = NoOwner]
    /\ req' = [req EXCEPT ![c] = NoReq]
    /\ resp' = [resp EXCEPT ![c] = [kind |-> "released"]]
    /\ UNCHANGED <<devStatus, devMedium, devJob, medLoc, medData, queue, cancelled, loadFaults>>

LrsNext ==
    \/ DispatchWrite \/ DispatchRead \/ DispatchFormat \/ DispatchTimeout
    \/ \E c \in Clients : LrsRelease(c)
    \/ \E d \in Devices :
          \/ WorkerUnload(d) \/ WorkerLoadOk(d) \/ WorkerLoadFail(d)
          \/ WorkerMount(d) \/ WorkerFormat(d)

=============================================================================
