------------------------------- MODULE DevLoad -------------------------------
(***************************************************************************)
(* The LRS device load path, dev_load / dev_unload, as the SCSI logging     *)
(* test src/tests/interns/test_scsi_logs.c drives and observes it.          *)
(*                                                                         *)
(* A device record starts as create_device builds it (op status EMPTY, no  *)
(* medium, no I/O, no sync pending) and a medium as create_medium builds   *)
(* it.  dev_load takes the caller's medium pointer and issues, in order,   *)
(* the SCSI commands the test can make fail through mock_ioctl: the       *)
(* library MODE SENSE, the four READ ELEMENT STATUS of the media lookup    *)
(* (arms, slots, import/export, drives) and the MOVE MEDIUM.  Any of them  *)
(* failing ends dev_load with -EINVAL and frees the medium (the test       *)
(* allocates it with calloc for that reason).  Every dev_load, failed or   *)
(* not, leaves exactly one DSS log entry of cause PHO_DEVICE_LOAD naming    *)
(* the device, the medium, the error and the last SCSI action.             *)
(***************************************************************************)
EXTENDS Integers, Sequences, SequencesExt

CONSTANTS
    Devices,        \* drive paths given to create_device
    Media,          \* media names given to create_medium
    NoMedium,       \* ld_dss_media_info == NULL
    MaxLogs         \* bound on dev_load calls (each adds one log)

ASSUME NoMedium \notin Media
ASSUME MaxLogs \in Nat

(* enum scsi_operation_type, in the order dev_load issues them.            *)
ScsiOps == <<"LIBRARY_LOAD", "ARMS_STATUS", "SLOTS_STATUS",
             "IMPEXP_STATUS", "DRIVES_STATUS", "LOAD_MEDIUM">>
MoveStep == Len(ScsiOps)

EINVAL == 22   \* errno value; functions return -EINVAL

(* Who owns a struct media_info: the caller, a device (passed by &medium), *)
(* or nobody because dev_load freed it on failure.                         *)
Holders == {"caller", "freed"} \cup Devices

VARIABLES
    opStatus,    \* ld_op_status: "empty" | "loaded"
    mediaInfo,   \* ld_dss_media_info: medium or NoMedium
    step,        \* 0 when no dev_load runs, else index of the next SCSI op
    medLoc,      \* physical location of each medium: "slot" or a device
    medHolder,   \* owner of each medium's media_info
    rc,          \* return code of the last dev_load of each device
    logs         \* the DSS logs table, in insertion order

vars == <<opStatus, mediaInfo, step, medLoc, medHolder, rc, logs>>

LogRec == [device: Devices, medium: Media, cause: {"PHO_DEVICE_LOAD"},
           error: {0, -EINVAL}, action: ToSet(ScsiOps)]

TypeOK ==
    /\ opStatus \in [Devices -> {"empty", "loaded"}]
    /\ mediaInfo \in [Devices -> Media \cup {NoMedium}]
    /\ step \in [Devices -> 0..MoveStep]
    /\ medLoc \in [Media -> {"slot"} \cup Devices]
    /\ medHolder \in [Media -> Holders]
    /\ rc \in [Devices -> {0, -EINVAL}]
    /\ logs \in Seq(LogRec)

(* create_device and create_medium.                                        *)
Init ==
    /\ opStatus = [d \in Devices |-> "empty"]
    /\ mediaInfo = [d \in Devices |-> NoMedium]
    /\ step = [d \in Devices |-> 0]
    /\ medLoc = [m \in Media |-> "slot"]
    /\ medHolder = [m \in Media |-> "caller"]
    /\ rc = [d \in Devices |-> 0]
    /\ logs = <<>>

LoadLog(d, err) ==
    [device |-> d, medium |-> mediaInfo[d], cause |-> "PHO_DEVICE_LOAD",
     error |-> err, action |-> ScsiOps[step[d]]]

(* dev_load(&device, &medium, ...) entered: the device takes the medium.   *)
DevLoadStart(d, m) ==
    /\ step[d] = 0
    /\ opStatus[d] = "empty"
    /\ medHolder[m] = "caller"
    /\ medLoc[m] = "slot"
    /\ Len(logs) < MaxLogs
    /\ step' = [step EXCEPT ![d] = 1]
    /\ mediaInfo' = [mediaInfo EXCEPT ![d] = m]
    /\ medHolder' = [medHolder EXCEPT ![m] = d]
    /\ UNCHANGED <<opStatus, medLoc, rc, logs>>

(* One lookup SCSI command returns good status.                            *)
ScsiLookupOk(d) ==
    /\ step[d] \in 1..(MoveStep - 1)
    /\ step' = [step EXCEPT ![d] = @ + 1]
    /\ UNCHANGED <<opStatus, mediaInfo, medLoc, medHolder, rc, logs>>

(* Mutant of ScsiFail: the error path returns (and logs) EINVAL instead   *)
(* of -EINVAL.                                                             *)
ScsiFailPositiveErrno(d) ==
    /\ step[d] \in 1..MoveStep
    /\ logs' = Append(logs, LoadLog(d, EINVAL))
    /\ medHolder' = [medHolder EXCEPT ![mediaInfo[d]] = "freed"]
    /\ \E ptr \in {NoMedium, mediaInfo[d]} : mediaInfo' = [mediaInfo EXCEPT ![d] = ptr]
    /\ rc' = [rc EXCEPT ![d] = EINVAL]
    /\ step' = [step EXCEPT ![d] = 0]
    /\ UNCHANGED <<opStatus, medLoc>>

(* The current SCSI command comes back CHECK CONDITION / ILLEGAL REQUEST   *)
(* (mock_ioctl): dev_load logs, frees the medium and returns -EINVAL.      *)
(* Whether it also clears ld_dss_media_info is not visible (dev_load's body *)
(* is not in the repository): either value is possible.                    *)
ScsiFail(d) ==
    /\ step[d] \in 1..MoveStep
    /\ logs' = Append(logs, LoadLog(d, -EINVAL))
    /\ medHolder' = [medHolder EXCEPT ![mediaInfo[d]] = "freed"]
    /\ \E ptr \in {NoMedium, mediaInfo[d]} : mediaInfo' = [mediaInfo EXCEPT ![d] = ptr]
    /\ rc' = [rc EXCEPT ![d] = -EINVAL]
    /\ step' = [step EXCEPT ![d] = 0]
    /\ UNCHANGED <<opStatus, medLoc>>

(* MOVE MEDIUM succeeds: the medium is in the drive, one log with rc 0.    *)
MoveMediumOk(d) ==
    /\ step[d] = MoveStep
    /\ logs' = Append(logs, LoadLog(d, 0))
    /\ medLoc' = [medLoc EXCEPT ![mediaInfo[d]] = d]
    /\ opStatus' = [opStatus EXCEPT ![d] = "loaded"]
    /\ rc' = [rc EXCEPT ![d] = 0]
    /\ step' = [step EXCEPT ![d] = 0]
    /\ UNCHANGED <<mediaInfo, medHolder>>

(* dev_unload: the medium goes back to a slot and its media_info back to   *)
(* the caller; the test sees no log entry for it.                          *)
DevUnload(d) ==
    /\ step[d] = 0
    /\ opStatus[d] = "loaded"
    /\ medLoc' = [medLoc EXCEPT ![mediaInfo[d]] = "slot"]
    /\ medHolder' = [medHolder EXCEPT ![mediaInfo[d]] = "caller"]
    /\ mediaInfo' = [mediaInfo EXCEPT ![d] = NoMedium]
    /\ opStatus' = [opStatus EXCEPT ![d] = "empty"]
    /\ UNCHANGED <<step, rc, logs>>

(* The caller fetches a freed medium again from the DSS (create_medium).   *)
MediumRefetch(m) ==
    /\ medHolder[m] = "freed"
    /\ medHolder' = [medHolder EXCEPT ![m] = "caller"]
    /\ UNCHANGED <<opStatus, mediaInfo, step, medLoc, rc, logs>>

(* dss_logs_delete(handle, NULL): the test empties the logs table.       *)
DssLogsDelete ==
    /\ logs # <<>>
    /\ logs' = <<>>
    /\ UNCHANGED <<opStatus, mediaInfo, step, medLoc, medHolder, rc>>

Next ==
    \/ DssLogsDelete
    \/ \E d \in Devices, m \in Media : DevLoadStart(d, m)
    \/ \E d \in Devices :
          ScsiLookupOk(d) \/ ScsiFail(d) \/ MoveMediumOk(d) \/ DevUnload(d)
    \/ \E m \in Media : MediumRefetch(m)

Spec == Init /\ [][Next]_vars

-----------------------------------------------------------------------------
(* Properties.                                                              *)

(* Spec section 4.3: every physical action on a drive is logged before it  *)
(* is surfaced, one entry per action attempted.  A step that changes what  *)
(* a drive holds (load or unload) must therefore append to the log.        *)
PhysicalActionLogged ==
    [][\A d \in Devices :
         opStatus'[d] # opStatus[d] => Len(logs') = Len(logs) + 1]_vars
=============================================================================
