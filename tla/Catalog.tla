------------------------------ MODULE Catalog ------------------------------
(***************************************************************************)
(* Updates of medium records in the catalog through dss_utils.h.  Each     *)
(* LRS thread has its own PostgreSQL connection and in-memory copies of   *)
(* the records it updates, read from the catalog before it changes one     *)
(* field of each.  Its request holds one UPDATE per medium, each built by  *)
(* update_fields from the copy with only the fields named in its           *)
(* fields_to_update bitmask; execute_and_commit_or_rollback runs the       *)
(* statements in one transaction and commits them, or, when one fails,     *)
(* sends a ROLLBACK on the same connection.  A failed request is retried  *)
(* up to MaxRetries times before the error is surfaced                     *)
(* (CatalogUnavailable).                                                   *)
(*                                                                         *)
(* PostgreSQL runs the request atomically: it is committed whole, or it    *)
(* fails and leaves the connection's transaction aborted, in which state   *)
(* it refuses every statement until a ROLLBACK.                            *)
(***************************************************************************)
EXTENDS Naturals, Sequences

CONSTANTS
    Threads,      \* LRS threads, each with its own connection
    Media,        \* medium records
    Fields,       \* columns of a medium record (stats, fs status, ...)
    Task,         \* per thread: the media its request updates, in order, and the field
    MaxRetries,   \* retries of a failed request
    MaxFaults,    \* database errors injected over a run
    NoWriter      \* the value of a field no thread has written

ASSUME Task \in [Threads -> [media: Seq(Media), field: Fields]]
ASSUME MaxRetries \in Nat /\ MaxFaults \in Nat

VARIABLES
    db,        \* committed records: the writer of each field
    copy,      \* each thread's in-memory records
    conn,      \* each connection's transaction: "idle" | "intx" | "aborted"
    stmt,      \* UPDATE statements of the current attempt already run
    pc,        \* "get" | "update" | "done" | "failed"
    tries,     \* failed attempts of each thread's request
    faults,    \* database errors so far
    commits    \* the committed requests, in commit order (threads)

vars == <<db, copy, conn, stmt, pc, tries, faults, commits>>

Value == Threads \cup {NoWriter}
Record == [Fields -> Value]

(* The media a thread's request updates.                                  *)
Targets(t) == {Task[t].media[i] : i \in DOMAIN Task[t].media}

CatTypeOK ==
    /\ db \in [Media -> Record]
    /\ copy \in [Threads -> [Media -> Record]]
    /\ conn \in [Threads -> {"idle", "intx", "aborted"}]
    /\ stmt \in [Threads -> Nat]
    /\ pc \in [Threads -> {"get", "update", "done", "failed"}]
    /\ tries \in [Threads -> 0..(MaxRetries + 1)]
    /\ faults \in 0..MaxFaults
    /\ commits \in Seq(Threads)

CatInit ==
    /\ db = [m \in Media |-> [f \in Fields |-> NoWriter]]
    /\ copy = [t \in Threads |-> db]
    /\ conn = [t \in Threads |-> "idle"]
    /\ stmt = [t \in Threads |-> 0]
    /\ pc = [t \in Threads |-> "get"]
    /\ tries = [t \in Threads |-> 0]
    /\ faults = 0
    /\ commits = <<>>

(* The thread reads the records of its media and changes its field in    *)
(* its copies (dss_media_get, then the in-memory update).                 *)
MediumGet(t) ==
    /\ pc[t] = "get"
    /\ copy' = [copy EXCEPT ![t] = [m \in Media |->
                    IF m \in Targets(t) THEN [db[m] EXCEPT ![Task[t].field] = t] ELSE db[m]]]
    /\ pc' = [pc EXCEPT ![t] = "update"]
    /\ UNCHANGED <<db, conn, stmt, tries, faults, commits>>

(* Mutant of update_fields: every field of the copy is written, whatever  *)
(* the bitmask says.                                                       *)
update_fields_all(row, resource, mask) == resource

(* update_fields: the record as the UPDATE leaves it, the fields of the   *)
(* bitmask set from the resource and the others kept.                     *)
update_fields(row, resource, mask) ==
    [f \in Fields |-> IF f \in mask THEN resource[f] ELSE row[f]]

(* The records after thread t's UPDATEs of the media in ms.               *)
Applied(t, rows, ms) ==
    [m \in Media |-> IF m \in ms THEN update_fields(rows[m], copy[t][m], {Task[t].field})
                                  ELSE rows[m]]

(* Mutant of ExecStmt: the request runs without a transaction, each      *)
(* UPDATE committed as it runs.                                           *)
ExecStmtAutocommit(t) ==
    /\ pc[t] = "update"
    /\ conn[t] \in {"idle", "intx"}
    /\ stmt[t] < Len(Task[t].media)
    /\ db' = Applied(t, db, {Task[t].media[stmt[t] + 1]})
    /\ stmt' = [stmt EXCEPT ![t] = @ + 1]
    /\ conn' = [conn EXCEPT ![t] = "intx"]
    /\ UNCHANGED <<copy, pc, tries, faults, commits>>

(* execute_and_commit_or_rollback runs the next UPDATE of the request     *)
(* inside the transaction (the first one opens it); nothing is visible to *)
(* other connections before the COMMIT.                                   *)
ExecStmt(t) ==
    /\ pc[t] = "update"
    /\ conn[t] \in {"idle", "intx"}
    /\ stmt[t] < Len(Task[t].media)
    /\ stmt' = [stmt EXCEPT ![t] = @ + 1]
    /\ conn' = [conn EXCEPT ![t] = "intx"]
    /\ UNCHANGED <<db, copy, pc, tries, faults, commits>>

(* Mutant of ExecFail: the request is attempted once more than allowed.  *)
ExecFailExtraRetry(t) ==
    /\ pc[t] = "update"
    /\ stmt[t] < Len(Task[t].media)
    /\ faults < MaxFaults \/ conn[t] = "aborted"
    /\ faults' = IF conn[t] = "aborted" THEN faults ELSE faults + 1
    /\ conn' = [conn EXCEPT ![t] = "idle"]
    /\ stmt' = [stmt EXCEPT ![t] = 0]
    /\ tries' = [tries EXCEPT ![t] = @ + 1]
    /\ pc' = [pc EXCEPT ![t] = IF tries[t] <= MaxRetries THEN "update" ELSE "failed"]
    /\ UNCHANGED <<db, copy, commits>>

(* execute_and_commit_or_rollback, failing: the next statement gets a    *)
(* database error (or any statement on a connection whose transaction is *)
(* still aborted fails); the transaction is aborted and the ROLLBACK      *)
(* discards the statements already run.  The caller retries the whole    *)
(* request, or gives up after MaxRetries.                                 *)
ExecFail(t) ==
    /\ pc[t] = "update"
    /\ stmt[t] < Len(Task[t].media)
    /\ faults < MaxFaults \/ conn[t] = "aborted"
    /\ faults' = IF conn[t] = "aborted" THEN faults ELSE faults + 1
    /\ conn' = [conn EXCEPT ![t] = "idle"]
    /\ stmt' = [stmt EXCEPT ![t] = 0]
    /\ tries' = [tries EXCEPT ![t] = @ + 1]
    /\ pc' = [pc EXCEPT ![t] = IF tries[t] < MaxRetries THEN "update" ELSE "failed"]
    /\ UNCHANGED <<db, copy, commits>>

(* execute_and_commit_or_rollback, succeeding: every UPDATE has run, the  *)
(* COMMIT makes them all visible at once.                                 *)
ExecCommit(t) ==
    /\ pc[t] = "update"
    /\ conn[t] = "intx"
    /\ stmt[t] = Len(Task[t].media)
    /\ db' = Applied(t, db, Targets(t))
    /\ commits' = Append(commits, t)
    /\ conn' = [conn EXCEPT ![t] = "idle"]
    /\ stmt' = [stmt EXCEPT ![t] = 0]
    /\ pc' = [pc EXCEPT ![t] = "done"]
    /\ UNCHANGED <<copy, tries, faults>>

(* execute_and_commit_or_rollback when the connection is lost after the  *)
(* server has committed: PostgreSQL applied the request, but the call gets *)
(* no result, sends its ROLLBACK (a no-op) and returns an error, so the    *)
(* caller counts a failed attempt and retries the request.                *)
CommitInDoubt(t) ==
    /\ pc[t] = "update"
    /\ conn[t] = "intx"
    /\ stmt[t] = Len(Task[t].media)
    /\ faults < MaxFaults
    /\ db' = Applied(t, db, Targets(t))
    /\ commits' = Append(commits, t)
    /\ faults' = faults + 1
    /\ conn' = [conn EXCEPT ![t] = "idle"]
    /\ stmt' = [stmt EXCEPT ![t] = 0]
    /\ tries' = [tries EXCEPT ![t] = @ + 1]
    /\ pc' = [pc EXCEPT ![t] = IF tries[t] < MaxRetries THEN "update" ELSE "failed"]
    /\ UNCHANGED copy

CatNext ==
    \E t \in Threads :
        MediumGet(t) \/ ExecStmt(t) \/ ExecFail(t) \/ ExecCommit(t) \/ CommitInDoubt(t)

(* Each thread runs its update to the end; database errors get no        *)
(* fairness, but a thread whose connection is idle can always commit.     *)
CatSpec ==
    /\ CatInit /\ [][CatNext]_vars
    /\ \A t \in Threads : WF_vars(MediumGet(t) \/ ExecStmt(t) \/ ExecFail(t) \/ ExecCommit(t))

-----------------------------------------------------------------------------
(* The thread whose committed request last wrote field f of medium m.      *)
LastWriter(m, f) ==
    LET w == SelectSeq(commits, LAMBDA t : m \in Targets(t) /\ Task[t].field = f)
    IN IF w = <<>> THEN NoWriter ELSE w[Len(w)]

(* update_fields' bitmask and the request's transaction: every field of  *)
(* every medium record holds what the last committed request meant to    *)
(* write there.  No thread's stale copy overwrites another's field, and a *)
(* request that failed halfway, or is still running, has left nothing    *)
(* behind on any of its media, however the threads' statements interleave. *)
NoLostUpdate ==
    \A m \in Media, f \in Fields : db[m][f] = LastWriter(m, f)

=============================================================================
