------------------------------- MODULE Phobos -------------------------------
(***************************************************************************)
(* The LRS and its clients together: put encoders and format callers      *)
(* exchanging requests and responses with the scheduler, device workers    *)
(* moving media between slots and drives.                                 *)
(***************************************************************************)
EXTENDS Encoder

vars == <<lrsVars, msgVars, encVars>>

TypeOK == LrsTypeOK /\ EncTypeOK

Init == LrsInit /\ EncInit

Next == (LrsNext /\ UNCHANGED encVars) \/ EncNext

(* Device workers and clients keep running while they have work: weak    *)
(* fairness.  The dispatch pass retries a blocked head request for as     *)
(* long as it stays queued, so a request whose resources are free         *)
(* infinitely often is eventually bound: strong fairness.  Aborts,        *)
(* timeouts and load faults are environment choices and get no fairness.  *)
Fairness ==
    /\ SF_vars(DispatchWrite /\ UNCHANGED encVars)
    /\ SF_vars(DispatchRead /\ UNCHANGED encVars)
    /\ SF_vars(DispatchFormat /\ UNCHANGED encVars)
    /\ \A d \in Devices :
          /\ WF_vars(WorkerUnload(d) /\ UNCHANGED encVars) /\ WF_vars(WorkerLoadOk(d) /\ UNCHANGED encVars)
          /\ WF_vars(WorkerMount(d) /\ UNCHANGED encVars) /\ WF_vars(WorkerFormat(d) /\ UNCHANGED encVars)
    /\ \A c \in Clients :
          /\ WF_vars(LrsRelease(c) /\ UNCHANGED encVars)
          /\ WF_vars(EncStart(c)) /\ WF_vars(EncOnReady(c)) /\ WF_vars(DecOnReady(c))
          /\ WF_vars(EncOnReleased(c)) /\ WF_vars(EncOnFormatted(c))
          /\ WF_vars(EncOnError(c)) /\ WF_vars(EncOnAbortReleased(c))

Spec == Init /\ [][Next]_vars /\ Fairness

-----------------------------------------------------------------------------
(* Helpers for the properties.                                              *)

(* The drive a client holds: granted ("ready" not yet consumed) or in use  *)
(* until its release is processed.                                        *)
Grant(c) ==
    IF resp[c].kind = "ready" THEN {<<resp[c].device, resp[c].medium>>}
    ELSE IF req[c].kind = "release" THEN {<<req[c].device, req[c].medium>>}
    ELSE {}

ExtentsOn(m) ==
    UNION {{<<c, i>> : i \in {i \in DOMAIN extents[c] : extents[c][i].medium = m}}
           : c \in PutClients}

BytesOn(m) == MapThenSumSet(LAMBDA ci : extents[ci[1]][ci[2]].size, ExtentsOn(m))

(* Bytes written to m whose release the LRS has not yet accounted.         *)
Unreleased(m) ==
    MapThenSumSet(LAMBDA c : req[c].written,
                  {c \in Clients : req[c].kind = "release" /\ req[c].medium = m})

-----------------------------------------------------------------------------
(* Safety.                                                                  *)

(* Spec 8 (no double mount) and 5: a client that holds a drive holds the  *)
(* device and medium locks and has that medium mounted there; no two      *)
(* clients hold the same drive or medium; a medium is in at most one drive *)
(* and the drive's record agrees with the medium's location.  Breaking it  *)
(* takes a dispatch racing a worker that is still loading a medium.        *)
ExclusiveAccess ==
    /\ \A c \in Clients : \A g \in Grant(c) :
          /\ devOwner[g[1]] = c /\ medOwner[g[2]] = c
          /\ devMedium[g[1]] = g[2] /\ devStatus[g[1]] = "mounted"
    /\ \A c1, c2 \in Clients : c1 # c2 =>
          \A g1 \in Grant(c1), g2 \in Grant(c2) : g1[1] # g2[1] /\ g1[2] # g2[2]
    /\ \A d \in Devices, m \in Media : (devMedium[d] = m) <=> (medLoc[m] = d)
    /\ \A d \in Devices : devJob[d] # NoJob =>
          /\ devOwner[d] = devJob[d].client /\ medOwner[devJob[d].medium] = devJob[d].client
          /\ \A e \in Devices \ {d} : devJob[e] # NoJob => devJob[e].medium # devJob[d].medium

(* Spec 4.4 / 8: the space the LRS believes used on a medium is exactly    *)
(* what the layouts have released onto it, and the layouts never hold more *)
(* bytes on a medium than it can take, across any number of encoders,      *)
(* extents and releases.                                                  *)
SpaceAccounting ==
    \A m \in Media :
        /\ BytesOn(m) <= Capacity
        /\ medFs[m] # "blank" => Capacity - medFree[m] = BytesOn(m) - Unreleased(m)
        /\ medFs[m] = "blank" => BytesOn(m) = 0
        /\ (medFs[m] = "full") = (medFs[m] # "blank" /\ medFree[m] = 0)

(* Spec 3 and 4.4: an extent a layout records lies within its medium and  *)
(* every byte of it still holds what that extent wrote, whatever grants,   *)
(* releases, formats and aborts of other clients came in between; so no   *)
(* two extents share a byte.  It fails if a grant's offset is computed     *)
(* from stale free space or a medium holding data is formatted again.      *)
ExtentsIntact ==
    \A c \in PutClients : \A i \in DOMAIN extents[c] :
        LET e == extents[c][i] IN
        /\ e.offset + e.size <= Capacity
        /\ \A k \in e.offset..(e.offset + e.size - 1) : medData[e.medium][k] = <<c, i>>

(* The bytes of a put's object in layout order: extent i contributes its   *)
(* size of bytes written by that extent.                                   *)
ObjectBytes(p) ==
    FlattenSeq([i \in DOMAIN extents[p] |-> [k \in 1..extents[p][i].size |-> <<p, i>>]])

(* Spec 8 round trip: what a get has read so far is the start of its       *)
(* object's bytes, read extent by extent from the media the layout names;  *)
(* a get that completes has read the whole object, ObjSize bytes, in order, *)
(* however many extents and media the put used and whatever other puts,   *)
(* formats and reads ran in between.                                      *)
RoundTrip ==
    \A g \in GetClients :
        /\ IsPrefix(got[g], ObjectBytes(GetSource[g]))
        /\ encPc[g] = "done" => got[g] = ObjectBytes(GetSource[g]) /\ Len(got[g]) = ObjSize

(* layout_step returns -EINVAL for an encoder whose done flag is set, so   *)
(* the transfer loop must never be handed an LRS answer for a finished     *)
(* transfer: once an encoder is done or failed it has no response pending, *)
(* nothing queued, and any job a worker still runs for it is marked        *)
(* cancelled (and only such a job), so its answer is dropped.  It takes an *)
(* abort racing a dispatch and a worker's late answer to break it.         *)
NoStepAfterDone ==
    \A c \in Clients :
        /\ encPc[c] \in {"done", "failed"} =>
              /\ resp[c] = NoResp
              /\ ~Contains(queue, c)
              /\ \A d \in Devices : devJob[d] # NoJob /\ devJob[d].client = c => c \in cancelled
        /\ c \in cancelled => \E d \in Devices : devJob[d] # NoJob /\ devJob[d].client = c

-----------------------------------------------------------------------------
(* Refinement of the abstract lock service.                                 *)

(* Where a client stands with respect to its locks: it holds a "ready"     *)
(* response (granted), has handed the drive back in a release request not *)
(* yet processed (returned), holds locks for a job still at the worker    *)
(* (locked), or holds nothing.                                            *)
LockStage(c) ==
    IF resp[c].kind = "ready" THEN "granted"
    ELSE IF req[c].kind = "release" THEN "returned"
    ELSE IF \E d \in Devices : devOwner[d] = c THEN "locked"
    ELSE "free"

AL == INSTANCE ResourceLocks
        WITH devLock <- devOwner, medLock <- medOwner,
             stage <- [c \in Clients |-> LockStage(c)]

(* Spec 4.1 and 5: every step of the dispatch pass, the device workers,    *)
(* lrs_done and the clients is a step of the abstract lock service or      *)
(* leaves it unchanged: drive and medium locks are taken and freed only as *)
(* a pair, only from free, never pass between clients, and a drive in use *)
(* (granted, not yet handed back) is never unlocked under its client.      *)
LocksRefined == AL!ALSafeSpec

-----------------------------------------------------------------------------
(* Liveness.                                                                *)

(* Every transfer ends (done or failed) and every lock and job is then    *)
(* eventually given back, whatever aborts, timeouts and load faults        *)
(* happened on the way.                                                   *)
AllTransfersEnd ==
    <>[](/\ \A c \in Clients : encPc[c] \in {"done", "failed"}
         /\ \A d \in Devices : devOwner[d] = NoOwner /\ devJob[d] = NoJob
         /\ \A m \in Media : medOwner[m] = NoOwner)

=============================================================================
