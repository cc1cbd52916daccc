# TLA+ models of the Phobos Local Resource Scheduler and its clients

This directory holds TLA+ models of the part of Phobos that schedules drives
and media (the LRS). It also models the client-side protocol that encoders
use to talk to the LRS, and the device load path as the SCSI logging test
exercises it. Every run below is checked with TLC.

## 1. Inventory

The repository ships headers, one configuration source and one test. The
scheduler and layout bodies are not in `src/`. Where the model goes beyond
what the headers, the test and `cfg_copy.c` say, it follows `spec.md`; those
definitions are marked `spec_modelled` in `PROJECT.json`.

| Component | Sources | State | Operations | Interacts with |
|---|---|---|---|---|
| Device load path | `tests/interns/test_scsi_logs.c` | drive op status, `ld_dss_media_info`, medium ownership, DSS logs table | `dev_load` (MODE SENSE, four READ ELEMENT STATUS, MOVE MEDIUM), `dev_unload`, `dss_logs_get/delete` | SCSI library adapter (shared changer), DSS logs |
| Scheduler core (LRS) | `include/pho_lrs.h`, spec 4.3/5 | drive status, loaded medium, device and medium locks, per-device job, arrival queue | `lrs_write_prepare`, `lrs_read_prepare`, `lrs_done`, `lrs_format`, device worker steps | encoders through requests and responses; device adapter; catalog |
| Allocation algorithm | spec 4.2 | none (pure) | write / format device+medium choice; NoDevice / NoMedium / Busy | read by the dispatch pass |
| Encoder/decoder protocol | `include/pho_layout.h` | `pho_encoder` (type, done, xfer, layout, last_resp) | `layout_encode/decode/delete`, `layout_step`, `layout_destroy`, `layout_locate` | LRS messages only |
| Transfer API | `include/phobos_store.h` | `pho_xfer_desc` (`xd_rc`, size, family, tags) | `phobos_put/get/getmd` with per-transfer callbacks | encoders |
| Configuration | `include/pho_cfg.h`, `cfg/cfg_copy.c` | process / local / global levels, defaults | `pho_cfg_init_local`, `_pho_cfg_get`, `pho_cfg_get_val(_from_level)`, `get_cfg_default_copy_name` | every component |
| LRS instances sharing the catalog | `include/pho_lrs.h`, `dss/dss_utils.h`, spec 2.3/5/6 | medium records (free space, fs status), catalog locks, each process's intent | `lrs_write_prepare` (read, lock, re-read), `lrs_done` (stats write-back, unlock) | other processes only through the catalog |
| DSS utilities | `dss/dss_utils.h` | PostgreSQL connection | `execute`, `execute_and_commit_or_rollback`, JSON and string accessors | catalog |

**What makes it hard.** Each drive has its own worker thread. A dispatch
pass runs alongside them and shares the drive and medium records, guarded
only by locks. A single request goes through several physical steps (unload,
load, mount). Any of these can fail, and a failed load is retried. Clients can
abort while their request is in flight, so a late grant must not leak its
locks. Requests contending for the same resources are served in arrival
order. Every physical action must be logged.

**What makes each component correct.** The device load path is correct when
each load leaves exactly one log naming the failing action, and a failed load
leaves no drive pointing at the freed medium. The LRS is correct when there
is never a double mount and locks always match grants. The space it believes
used must equal what the layouts released onto the medium, and every request
must eventually end with all its locks released. The encoder is correct when
a finished put's layout covers the object exactly and it never steps past done.
The transfer API is correct when it calls back once per transfer and returns
the first error. The configuration is correct when lookup falls back to the
default and `pho_cfg_init_local` runs first.

## 2. Modules

* `DevLoad` models `dev_load` and `dev_unload` for any number of drives.
  Its variables are `opStatus` (`ld_op_status`), `mediaInfo`
  (`ld_dss_media_info`), `step` (the next SCSI command of a running load),
  `medLoc` (where a medium physically is), `medHolder` (who owns the
  `media_info`) and `logs` (the DSS logs table). `Init` is `create_device`
  and `create_medium`. `ScsiLookupOk` and `ScsiFail` come from `mock_ioctl`
  and `op_to_mock`: any command may return CHECK CONDITION, which ends the
  load with `-EINVAL`, logs it and frees the medium. Whether the failed load
  also clears `ld_dss_media_info` is not visible, because `dev_load`'s body is
  not in the repository, so `ScsiFail` lets it be either. `MoveMediumOk` is the
  success branch of `scsi_logs_check`. `DssLogsDelete` is
  `dss_logs_delete`. The command order is the order of `enum
  scsi_operation_type` that the test's range check uses.
* `Lrs` models the scheduler. Its variables are drive records (`devStatus`,
  `devMedium`, `devOwner`, `devJob`), medium records (`medLoc`, `medFs`,
  `medFree`, `medOwner`, and `medData`, the content of each byte of each
  medium: the put extent that wrote it, or `NoData` after a format), the
  arrival `queue` (one queue for every request: all of them contend for the
  same drives of the single family, and spec 5 serves contending requests in
  arrival order), the `cancelled` set, and the
  per-client `req` and `resp` slots.
  * `DispatchWrite` is `lrs_write_prepare` with the spec 4.2 policy: prefer a
    medium already in an idle drive with room for the whole write, else any
    writable medium reachable by an idle drive. If there is none it answers
    NoDevice or NoMedium, and if everything is locked it waits (Busy).
  * `DispatchRead` is `lrs_read_prepare`: the medium is the one the layout
    names, and any idle drive that can reach it is taken, preferring one that
    already holds it. A medium locked by another client makes the read wait.
  * `DispatchFormat` is `lrs_format`: the caller names the medium, and it
    is loaded into an idle drive that can reach it and formatted, whatever
    it holds. Neither the header nor spec 4.2 refuses a medium that holds
    data (see Findings).
  * `DispatchTimeout` is the try-lock backoff giving up.
  * The device worker steps are `WorkerUnload`, `WorkerLoadOk`,
    `WorkerLoadFail` (retry `MaxLoadRetries` times, then DeviceFault and the
    drive goes to failed), `WorkerMount` (grant `min(size, free)` at offset
    `Capacity - free`; a read is granted the drive only) and
    `WorkerFormat` (which resets every byte to `NoData`).
  * `LrsRelease` is `lrs_done`: it accounts the written bytes, marks the
    medium full at zero and unlocks.
* `Encoder` (EXTENDS `Lrs`) models the clients. Put encoders follow
  `layout_encode`/`layout_step`: ask for a drive, write
  `min(remaining, avail)` at the granted offset into a new extent (also
  recorded in `medData` of the medium), release, and repeat while bytes
  remain. Format callers call `lrs_format`. `EncAbort` is `layout_destroy`
  on a transfer that is waiting: it withdraws a queued request, cancels a
  bound one, or releases a grant already received. Decoders (`layout_decode`)
  serve get transfers: a get of an object whose put has not finished fails
  at once; otherwise `DecOnReady` reads the current extent's bytes at its
  offset on the granted medium into `got`, and `EncOnReleased` asks for the
  next extent's medium until the layout is exhausted.
* `ResourceLocks` is the abstract lock service the LRS promises its
  clients (spec 4.1, 5). Its only state is the drive and medium lock holders
  and a stage per client: free, locked, granted, returned. Both locks are
  taken together (`Lock`), the client is granted the pair (`Grant`), hands it
  back (`Return`), and both locks are freed together (`Release`). A job that
  ends without a grant frees the pair too (`Abandon`). `Phobos` instantiates
  it as `AL` with `devOwner` and `medOwner` as the locks. The stage comes from
  `LockStage`: a "ready" response means granted, a pending release request
  means returned, any lock held means locked.
* `Config` models `pho_cfg.h` and its one client, `get_cfg_default_copy_name`
  of `cfg_copy.c`, keeping the source's names.
  * State: whether `pho_cfg_init_local` has run, whether the DSS is up, the
    threads that called `pho_cfg_set_thread_conn`, the value at each level
    (process, local, global, or `Unset`), and each thread's last results.
  * Lookups are operators. `pho_cfg_get_val_from_level` sees the global level
    only on a connected thread. `pho_cfg_get_val` (`FirstSet`) takes the
    first level that has the value. `_pho_cfg_get` falls back to the
    `cfg_copy` default "source", and is NULL outside the module's index range.
  * `_pho_cfg_get_int` parses the string as a C int of `IntBits` bits
    (`ParseInt`, digits accumulated left to right), or returns `fail_val`.
  * Strings are sequences of characters, so the parse is modelled by what it
    does. `GlobalSet` is another host changing the global value.
* `Phobos` composes the two components and defines the fairness and the
  properties. `MCPhobos` and `MCDevLoad` instantiate them.
* `Store` (EXTENDS `Phobos`) models the transfer API of `phobos_store.h`.
  Each `phobos_put` or `phobos_get` call is one of the `Batches` of
  transfers, and calls run at once over the shared LRS. The encoders record
  each transfer's `xd_rc`: 0, or the negative errno of the LRS error
  (`Errno`), of an abort (`-ECANCELED`) or of a get of an object not stored
  (`-ENOENT`). `Callback` is the transfer loop finding a transfer's encoder
  done: it calls the completion callback with `xd_rc` (logged in `cbLog`) and
  keeps the call's first error in `rc`. `BatchReturn` returns once every
  transfer of the call has been reported. A `phobos_getmd` call runs no
  encoder: `GetMd` reads the object's record from the catalog, which exists
  once the put of the object (`MdSource`) is done, and sets its `xd_rc`
  (`mdRc`) to 0 or `-ENOENT`. `MCStore` instantiates it with the constants of
  `MCPhobos`.
* `Catalog` models how LRS threads update medium records through
  `dss_utils.h`. Each thread has its own connection. Its request changes one
  field on one or more media (`Task`), with one UPDATE per medium, all run
  in one transaction.
  * `MediumGet` reads the records into the thread's copies and changes the
    field there.
  * `ExecStmt` runs the next UPDATE of the request inside the transaction
    (`conn` becomes `"intx"`). Nothing is visible to other connections yet.
  * `ExecCommit` is `execute_and_commit_or_rollback` succeeding once every
    statement has run. The COMMIT applies, on every target medium, the
    record that `update_fields` builds with only the thread's field in the
    bitmask.
  * `ExecFail` is the same call failing at the next statement. A database
    error (at most `MaxFaults`) aborts the transaction, and the ROLLBACK
    discards the statements already run and returns the connection to idle.
    The thread retries the whole request up to `MaxRetries` times.
  * `CommitInDoubt` is the COMMIT taking effect on the server while the
    connection drops. The call gets no result, so it rolls back (a no-op)
    and returns an error, and the thread counts a failed attempt and
    retries. It uses the same fault budget as `ExecFail`.
  * `conn` keeps PostgreSQL's rule that a connection whose transaction is
    aborted refuses every statement until a ROLLBACK. `commits` is the
    history of committed requests, which the properties read.
* `LrsCatalog` composes the LRS with the catalog across processes. The LRS
  is a library: each client process runs `lrs_write_prepare` and `lrs_done`
  on its own DSS handle, and the processes share only the medium records
  (`cat`, free space and fs status) and their catalog locks (`lock`).
  * `MediaGet` is the first step of `lrs_write_prepare`: it reads into the
    intent (`rec`) the record of an unlocked, formatted medium with room for
    the whole `intent_size` (`HasRoom`; splitting is "future", line 36). `NoMedium` is the same call finding none; the
    error is not retryable (spec 4.2), so the intent ends.
  * `MediaLock` is "lock if unlocked, atomically" and the re-validation after
    it (spec 5, 6). The process re-reads the record and goes on only if the
    medium still has room for the intent. A lock held by another process, or
    a medium without room by now, sends it back to choose again (`Busy`).
  * `IntentWrite` is the client's copy of its `intent_size` bytes to the
    medium. `used` records what was really written.
  * `lrs_done` is two steps, as spec 2.3 orders them ("mirrored back to the
    catalog before the medium is considered released"). `MediaSetStats`
    writes back the stats that `update_fields` builds from the intent's copy
    (`MediaStats`: free space less what was written, fs status full at zero)
    while the medium is still locked. `MediaUnlock` then unlocks it. Other
    processes run between the two, so an unlock before the write-back would
    let them read stale stats; `StatsMirrored` catches that order too. The
    copy's `err_code` is not modelled: the header does not say what
    `lrs_done` does with the medium after a failed copy.

## 3. Runs

| Run | Config | Checks | Shows |
|---|---|---|---|
| devload | `MCDevLoad.cfg` | TypeOK | 2 drives, 2 media, up to 3 logs between deletions, any SCSI command failing: return codes and logged errors are `-EINVAL` or 0 (never the positive errno), whether or not a failed load clears the drive's medium pointer |
| devload_audit (violation) | `MCDevLoadAudit.cfg` | PhysicalActionLogged | `dev_unload` changes what a drive holds without any log, against spec 4.3 |
| lrs_safety | `MCPhobos.cfg` | TypeOK, ExclusiveAccess, ExtentsIntact, SpaceAccounting, NoStepAfterDone, LocksRefined | 2 drives, 3 media (each blank or formatted at start), 2 put encoders of 3 bytes, capacity 2, one format caller of a medium that is blank at start (`MCAdminInit`), 2 load faults: no double mount, locks match grants, every recorded extent is still on its medium and overlaps no other, exact space accounting; a finished or aborted encoder never has an LRS answer pending (so `layout_step` never returns -EINVAL), and a worker's late answer for it is dropped; every step is a step of `ResourceLocks` (locks move only in pairs, never between clients, never from under a granted client) |
| lrs_format_used (violation) | `MCPhobosFormat.cfg` | ExtentsIntact | the same system with the format target formatted at start and no load faults: a put writes an extent on it, then `lrs_format` formats it and the extent the layout names is gone |
| lrs_liveness | `MCPhobosLive.cfg` | AllTransfersEnd | with the format caller of a blank medium, one load fault, aborts and timeouts, every transfer ends and all locks and jobs are eventually free |
| lrs_read_liveness | `MCPhobosLiveRead.cfg` | ExclusiveAccess, RoundTrip, AllTransfersEnd | two puts and a get of p1's object, no format caller, no load faults: a read is never bound to a medium a writer holds or to a drive in use; what a get has read is always a prefix of the object's bytes, and a completed get read all ObjSize bytes in layout order; a get waiting for a medium a writer holds, or in a slot, still ends. Formats racing reads are not checked: no run has a format caller and a get together |
| config | `MCConfig.cfg` | CfgTypeOK | two threads, each level holding "7", "-16", "16", "x" or nothing: every lookup returns 0, `-ENODATA` or `-EINVAL` with a level's value, NULL or the default, and every int reading is within a 5-bit int |
| store | `MCStore.cfg` | StoreTypeOK, CallbackTruthful | a `phobos_put` of p1 and p2 and, at the same time, a `phobos_get` and a `phobos_getmd` of p1's object, two drives, two media of 3 bytes, 2-byte objects, no format caller: a callback's rc is the transfer's final `xd_rc`; 0 means a put's layout holds both bytes, a get read the whole object in order, or a getmd read the record of p1 after its put completed |
| catalog | `MCCatalog.cfg` | CatTypeOK, NoLostUpdate | three threads: t1 updates field stats on m1 and m2 in one request, t2 field fs on m1, t3 field stats on m2; 1 retry, up to 3 database errors and in-doubt commits: every field holds what its last committed writer wrote, whatever the reads, statements and commits interleave, and no request that failed halfway or is still running leaves a change behind |
| lrs_catalog | `MCLrsCatalog.cfg` | LcTypeOK, StatsMirrored | three processes, two media of 3 bytes, intents of 1 or 2 bytes, two intents each: however reads, locks and both steps of `lrs_done` interleave, no medium takes more than its capacity, and the record of every unlocked medium says exactly how much is left on it and whether it is full |

**Bounds.**
* Capacity 2 with objects of 3 bytes forces every put onto at least two
  media. Two puts need 6 bytes while at most 6 exist, so NoMedium, splitting
  and the full-medium edge all happen.
* Three media across two drives force unloads.
* The format caller turns a blank medium into a usable one while puts are
  running. In the passing runs its target is blank at start, as a new tape
  is when an administrator formats it. In `lrs_format_used` its target may
  already hold data.
* MaxLoadRetries = 1 is the spec's retry-once. MaxLoadFaults bounds the
  adapter faults: 1 in the liveness run reaches a retry, and 2 in
  `MCPhobos.cfg` also reach DeviceFault and a failed drive, and with it
  NoDevice once both drives have failed.
* The config run uses a 5-bit int (INT_MIN = -16, INT_MAX = 15), so that the
  level values reach both boundaries and one past each.
* The read run leaves out load faults (covered by the other runs) to stay
  within a few minutes; the get can start before, during or after p1's put,
  so both "object not found" and reads of one, two or three extents happen,
  at offsets 0 and 1, alongside p2 writing to the same media.
* The store run leaves out the format caller, which no batch contains, so
  that the callback orders of three calls fit in the time. The safety run
  uses two media of 3 bytes and 2-byte objects: the second put still splits
  over both media (1 byte on the first, 1 on the second), and the gets read
  one or two extents. The get and the getmd can run before, during and
  after p1's put, so both fail with `-ENOENT` while the puts still run or
  succeed after.
* The catalog run has a two-medium request (t1), so a failure after its
  first UPDATE is possible. t1 and t3 write the same field of m2, so the last
  writer must win. t2 writes the other field of m1, so a stale copy of t1
  would overwrite it. Three errors with one retry let a thread fail twice
  and give up, and let an error hit each thread.
* The `lrs_catalog` run has three processes for two media, so a record
  read by one process can be changed by another's `lrs_done` before the
  first takes the lock, and a third can be refused as Busy. Six intents of
  up to 2 bytes ask for more than the 6 bytes there are, so a medium without
  room for the intent, media becoming full and `NoMedium` all happen.
* Symmetry over drives and over put encoders is sound for the safety
  invariants, as is symmetry over the processes and the media of
  `lrs_catalog`, whose constants play no other role. With a get that names p1, only drives are symmetric. The liveness run does not use symmetry.
* The runs turn off deadlock checking. They stop only when every client has
  finished, which is the system's real end. In DevLoad, the logs bound is
  paired with a `DssLogsDelete` action, so it never stops.

**Fairness.** The device workers and clients are threads that run while they
have work, so they get weak fairness. The dispatch pass re-polls a blocked
head request for as long as it stays queued (spec 5: try-lock with backoff),
so it gets strong fairness on `DispatchWrite`, `DispatchRead` and
`DispatchFormat`. Aborts,
timeouts and adapter faults are environment choices and get no fairness.
In `Store`, the transfer loop keeps polling while a transfer of its call is
unreported, so `Callback` and `BatchReturn` get weak fairness (no run checks
a `Store` liveness property: that every call returns follows from every
transfer ending, which `lrs_liveness` checks).
`LrsCatalog` is checked for safety only: nothing in the code bounds how often
a process is refused as Busy, so no process is promised its lock.

## 4. Findings

* The spec (4.3) says the audit log has one entry per physical action
  attempted. `scsi_logs_check` calls `dev_unload` after a successful load and
  then asserts that the logs table holds exactly one entry, the load. So
  unloads are not logged. Run `devload_audit` reproduces this.
* `lrs_format` (`pho_lrs.h:71-81`) loads and formats the medium its caller
  names. Neither the header nor spec 4.2 ("the caller supplies the exact
  medium") says that a medium holding extents of stored objects is refused.
  Run `lrs_format_used` shows a put's extent wiped by a later format while
  the layout still names it. The passing runs format only a medium that is
  blank at start.

## 5. Plan

Done: DevLoad, and Lrs + Encoder (writes, reads, formats, faults, aborts,
timeouts, the bytes on each medium and the get round trip) composed in Phobos,
and its refinement of the abstract `ResourceLocks` service; the Config
module; the transfer API (`Store`, with `phobos_getmd`); catalog updates
(`Catalog`, with in-doubt commits); `layout_step` never being handed an
answer for a done encoder; and LRS processes sharing the catalog (`LrsCatalog`: the record read
before the lock, the re-read after it, and `lrs_done` mirroring the stats
before the unlock).

Next, in order:
1. The stats update of `lrs_done` failing or committing in doubt, once the
   repository says what `lrs_done` does with the medium then (the header
   only returns an errno).
2. Unload faults, if the device adapter's unload failure paths become
   visible in the repository.

## 6. Not modelled

* SCSI command encoding and the JSON formatting of log messages. Only the
  failing action is kept.
* Tags, families other than one, and administrative lock status. Every
  medium is unlocked and put-capable, as `create_medium` builds it.
* `needs_sync` and `ongoing_io`. The test leaves them false, and sync is
  part of the release step.
* dlsym loading of layout modules.
* `pho_xfer_desc_destroy`, which only frees memory, and the
  `PHO_XFER_OBJ_REPLACE` flag, which only affects a get's target file.
* String helpers (`dss_char4sql`, `get_str_value`, the JSON accessors).
* `layout_delete` (the eraser). The header declares only its constructor,
  and neither the repository nor the spec says which requests an eraser
  sends or what it changes.
* `layout_locate`. It picks the host from which an object can be read and
  locks media for that host. The model has one host and one LRS, so there is
  no choice of host to check.
* `layout_get_specific_attrs` and `layout_reconstruct`. They read extent
  attributes back through the I/O adapter, and their code is not in the
  repository.
* CorruptLayout. The decoder's consistency check is not in the repository.
  The layouts the model's puts record are consistent (`ExtentsIntact`), so
  no decoder of the model can meet a corrupt one.
* The administrative reset of a failed drive (spec 4.3). A load failure in
  this model always leaves the drive empty, so a reset could only put it
  back to empty, and no property depends on that. Adding the reset left
  the liveness run's state space unchanged.
* The catalog read path (`execute`, `psql_state2errno`). The model keeps the
  read's result, the copy, and abstracts a failed read into the update's
  failure. The errno mapping only changes which negative value is reported.
