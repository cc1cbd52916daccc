------------------------------- MODULE Encoder -------------------------------
(***************************************************************************)
(* The client side of the LRS protocol: one encoder per put transfer       *)
(* (layout_encode), driven by layout_step, and one admin caller per        *)
(* lrs_format.  An encoder asks for a drive to write what is left of its   *)
(* object; on "ready" it writes as much as the medium can take, records    *)
(* that extent in its layout and sends the release; on "released" it asks  *)
(* for another medium while bytes remain, else it is done.  An encoder may *)
(* be aborted while it waits for a drive; layout_destroy then releases a   *)
(* drive it was already granted.  A decoder (layout_decode) reads the     *)
(* extents of a finished put back in layout order: one read request per    *)
(* extent, the bytes at the extent's offset appended to what it got.       *)
(***************************************************************************)
EXTENDS Lrs

CONSTANTS
    PutClients,       \* encoders of put transfers
    FormatClients,    \* callers of lrs_format
    ObjSize,          \* xd_size of every put transfer
    FormatTarget,     \* medium each format caller formats
    GetClients,       \* decoders of get transfers
    GetSource         \* the put transfer whose object each get retrieves

ASSUME /\ PutClients \cap FormatClients = {} /\ GetClients \cap (PutClients \cup FormatClients) = {}
       /\ Clients = PutClients \cup FormatClients \cup GetClients
       /\ GetSource \in [GetClients -> PutClients]
ASSUME ObjSize \in Nat \ {0} /\ FormatTarget \in [FormatClients -> Media]

VARIABLES
    encPc,       \* "init" | "alloc" | "release" | "abort" | "done" | "failed"
    remaining,   \* bytes of the object not yet written
    extents,     \* the layout built so far: <<[medium, offset, size]>> in write order
    cursor,      \* index in its layout of the extent a decoder reads
    got,         \* the bytes a decoder has read, in order
    xd_rc        \* outcome of each transfer: 0, or the error that failed it

decVars == <<cursor, got>>
encVars == <<encPc, remaining, extents, cursor, got, xd_rc>>

(* xd_rc is 0 or a negative errno: the errno of each LRS error kind, and   *)
(* those of an abort and of a get of an object that is not stored.         *)
Errno == [NoDevice |-> 19, NoMedium |-> 28, DeviceFault |-> 5, Timeout |-> 110]
ECANCELED == 125
ENOENT == 2

XferRcs == {0, -ECANCELED, -ENOENT} \cup {-Errno[e] : e \in Errors}

Extent == [medium: Media, offset: Offsets, size: 1..Capacity]

(* The type of a transfer's encoder (enc->type): a put's encoder, a get's *)
(* decoder; the format callers drive the LRS directly.                    *)
is_encoder(c) == c \in PutClients
is_decoder(c) == c \in GetClients

(* The layout a decoder is given: the one its source put recorded.        *)
Layout(g) == extents[GetSource[g]]

EncTypeOK ==
    /\ encPc \in [Clients -> {"init", "alloc", "release", "abort", "done", "failed"}]
    /\ remaining \in [Clients -> 0..ObjSize]
    /\ extents \in [Clients -> Seq(Extent)]
    /\ cursor \in [GetClients -> 0..ObjSize]
    /\ got \in [GetClients -> Seq((PutClients \X Nat) \cup {NoData})]
    /\ xd_rc \in [Clients -> XferRcs]

EncInit ==
    /\ encPc = [c \in Clients |-> "init"]
    /\ remaining = [c \in Clients |-> IF c \in PutClients THEN ObjSize ELSE 0]
    /\ extents = [c \in Clients |-> <<>>]
    /\ cursor = [g \in GetClients |-> 0]
    /\ got = [g \in GetClients |-> <<>>]
    /\ xd_rc = [c \in Clients |-> 0]

(* Queue a request with the LRS (submit).                                  *)
Submit(c, r) ==
    /\ req' = [req EXCEPT ![c] = r]
    /\ queue' = Append(queue, c)

(* First layout_step (resp == NULL): the initial allocation request.  A   *)
(* get whose object is not (yet) stored fails before any decoder exists.  *)
EncStart(c) ==
    /\ encPc[c] = "init"
    /\ \/ /\ ~is_decoder(c)
          /\ encPc' = [encPc EXCEPT ![c] = "alloc"]
          /\ Submit(c, IF is_encoder(c) THEN [kind |-> "write", size |-> remaining[c]]
                       ELSE [kind |-> "format", medium |-> FormatTarget[c]])
          /\ UNCHANGED <<cursor, xd_rc>>
       \/ /\ is_decoder(c)
          /\ encPc[GetSource[c]] = "done"
          /\ encPc' = [encPc EXCEPT ![c] = "alloc"]
          /\ cursor' = [cursor EXCEPT ![c] = 1]
          /\ Submit(c, [kind |-> "read", medium |-> Layout(c)[1].medium])
          /\ UNCHANGED xd_rc
       \/ /\ is_decoder(c)
          /\ encPc[GetSource[c]] # "done"
          /\ encPc' = [encPc EXCEPT ![c] = "failed"]
          /\ xd_rc' = [xd_rc EXCEPT ![c] = -ENOENT]
          /\ UNCHANGED <<req, queue, cursor>>
    /\ UNCHANGED <<remaining, extents, got, resp>>
    /\ UNCHANGED lrsState

(* layout_step with a "ready" response: write min(left, avail) bytes at    *)
(* the granted offset of the mounted medium, append the extent, ask for    *)
(* the release.                                                            *)
EncOnReady(c) ==
    LET r == resp[c]
        w == Min({remaining[c], r.avail})
    IN
    /\ is_encoder(c)
    /\ encPc[c] = "alloc"
    /\ r.kind = "ready"
    /\ extents' = [extents EXCEPT ![c] = Append(@, [medium |-> r.medium,
                                                     offset |-> r.offset, size |-> w])]
    /\ medData' = [medData EXCEPT ![r.medium] =
                      [k \in Offsets |-> IF r.offset <= k /\ k < r.offset + w
                                         THEN <<c, Len(extents[c]) + 1>> ELSE @[k]]]
    /\ remaining' = [remaining EXCEPT ![c] = @ - w]
    /\ req' = [req EXCEPT ![c] = [kind |-> "release", device |-> r.device,
                                  medium |-> r.medium, written |-> w]]
    /\ resp' = [resp EXCEPT ![c] = NoResp]
    /\ encPc' = [encPc EXCEPT ![c] = "release"]
    /\ UNCHANGED <<devStatus, devMedium, devOwner, devJob, medLoc, medFs, medFree,
                   medOwner, queue, cancelled, loadFaults>>
    /\ UNCHANGED <<decVars, xd_rc>>

(* Mutant of DecOnReady: the extent is read from the start of the medium  *)
(* instead of at its recorded offset.                                      *)
DecOnReadyFromStart(c) ==
    LET r == resp[c]
        e == Layout(c)[cursor[c]]
    IN
    /\ is_decoder(c)
    /\ encPc[c] = "alloc"
    /\ r.kind = "ready"
    /\ got' = [got EXCEPT ![c] = @ \o [k \in 1..e.size |-> medData[r.medium][k - 1]]]
    /\ req' = [req EXCEPT ![c] = [kind |-> "release", device |-> r.device,
                                  medium |-> r.medium, written |-> 0]]
    /\ resp' = [resp EXCEPT ![c] = NoResp]
    /\ encPc' = [encPc EXCEPT ![c] = "release"]
    /\ UNCHANGED <<remaining, extents, cursor, xd_rc>>
    /\ UNCHANGED <<lrsState, queue>>

(* A decoder's layout_step with "ready": read the current extent's bytes  *)
(* at its offset on the mounted medium, then release the drive.            *)
DecOnReady(c) ==
    LET r == resp[c]
        e == Layout(c)[cursor[c]]
    IN
    /\ is_decoder(c)
    /\ encPc[c] = "alloc"
    /\ r.kind = "ready"
    /\ got' = [got EXCEPT ![c] = @ \o [k \in 1..e.size |-> medData[r.medium][e.offset + k - 1]]]
    /\ req' = [req EXCEPT ![c] = [kind |-> "release", device |-> r.device,
                                  medium |-> r.medium, written |-> 0]]
    /\ resp' = [resp EXCEPT ![c] = NoResp]
    /\ encPc' = [encPc EXCEPT ![c] = "release"]
    /\ UNCHANGED <<remaining, extents, cursor, xd_rc>>
    /\ UNCHANGED <<lrsState, queue>>

(* layout_step with "released": an encoder with bytes left asks for       *)
(* another allocation, a decoder with extents left asks to read the next  *)
(* one; otherwise the transfer is complete.                                *)
EncOnReleased(c) ==
    LET more == IF is_encoder(c) THEN remaining[c] > 0 ELSE cursor[c] < Len(Layout(c))
    IN
    /\ encPc[c] = "release"
    /\ resp[c].kind = "released"
    /\ resp' = [resp EXCEPT ![c] = NoResp]
    /\ \/ /\ more /\ is_encoder(c)
          /\ encPc' = [encPc EXCEPT ![c] = "alloc"]
          /\ Submit(c, [kind |-> "write", size |-> remaining[c]])
          /\ UNCHANGED cursor
       \/ /\ more /\ is_decoder(c)
          /\ encPc' = [encPc EXCEPT ![c] = "alloc"]
          /\ cursor' = [cursor EXCEPT ![c] = @ + 1]
          /\ Submit(c, [kind |-> "read", medium |-> Layout(c)[cursor[c] + 1].medium])
       \/ /\ ~more
          /\ encPc' = [encPc EXCEPT ![c] = "done"]
          /\ UNCHANGED <<req, queue, cursor>>
    /\ UNCHANGED <<remaining, extents, got, xd_rc>>
    /\ UNCHANGED lrsState

EncOnFormatted(c) ==
    /\ encPc[c] = "alloc"
    /\ resp[c].kind = "formatted"
    /\ resp' = [resp EXCEPT ![c] = NoResp]
    /\ encPc' = [encPc EXCEPT ![c] = "done"]
    /\ UNCHANGED <<remaining, extents, req, xd_rc>>
    /\ UNCHANGED <<lrsVars, decVars>>

(* Mutants of EncOnError: xd_rc is left at 0; xd_rc gets the positive     *)
(* errno.                                                                  *)
EncOnErrorNoRc(c) ==
    /\ encPc[c] = "alloc"
    /\ resp[c].kind = "error"
    /\ resp' = [resp EXCEPT ![c] = NoResp]
    /\ encPc' = [encPc EXCEPT ![c] = "failed"]
    /\ UNCHANGED <<remaining, extents, req, xd_rc>>
    /\ UNCHANGED <<lrsVars, decVars>>

EncOnErrorPositiveRc(c) ==
    /\ encPc[c] = "alloc"
    /\ resp[c].kind = "error"
    /\ resp' = [resp EXCEPT ![c] = NoResp]
    /\ encPc' = [encPc EXCEPT ![c] = "failed"]
    /\ xd_rc' = [xd_rc EXCEPT ![c] = Errno[resp[c].err]]
    /\ UNCHANGED <<remaining, extents, req>>
    /\ UNCHANGED <<lrsVars, decVars>>

(* An error response fails the transfer (xd_rc set, encoder done).         *)
EncOnError(c) ==
    /\ encPc[c] = "alloc"
    /\ resp[c].kind = "error"
    /\ resp' = [resp EXCEPT ![c] = NoResp]
    /\ encPc' = [encPc EXCEPT ![c] = "failed"]
    /\ xd_rc' = [xd_rc EXCEPT ![c] = -Errno[resp[c].err]]
    /\ UNCHANGED <<remaining, extents, req>>
    /\ UNCHANGED <<lrsVars, decVars>>

(* The transfer is aborted while it waits for a drive.  A request still in *)
(* the queue is withdrawn; one already bound to a worker is marked         *)
(* cancelled; a drive already granted is released by layout_destroy.       *)
EncAbort(c) ==
    /\ encPc[c] = "alloc"
    /\ \/ /\ Contains(queue, c)
          /\ queue' = Remove(queue, c)
          /\ req' = [req EXCEPT ![c] = NoReq]
          /\ encPc' = [encPc EXCEPT ![c] = "failed"]
          /\ UNCHANGED <<cancelled, resp>>
       \/ /\ \E d \in Devices : devJob[d] # NoJob /\ devJob[d].client = c
          /\ cancelled' = cancelled \cup {c}
          /\ encPc' = [encPc EXCEPT ![c] = "failed"]
          /\ UNCHANGED <<queue, req, resp>>
       \/ /\ resp[c].kind = "ready"
          /\ req' = [req EXCEPT ![c] = [kind |-> "release", device |-> resp[c].device,
                                        medium |-> resp[c].medium, written |-> 0]]
          /\ resp' = [resp EXCEPT ![c] = NoResp]
          /\ encPc' = [encPc EXCEPT ![c] = "abort"]
          /\ UNCHANGED <<queue, cancelled>>
    /\ xd_rc' = [xd_rc EXCEPT ![c] = -ECANCELED]
    /\ UNCHANGED <<remaining, extents>>
    /\ UNCHANGED decVars
    /\ UNCHANGED <<devStatus, devMedium, devOwner, devJob, medLoc, medFs, medFree,
                   medOwner, medData, loadFaults>>

EncOnAbortReleased(c) ==
    /\ encPc[c] = "abort"
    /\ resp[c].kind = "released"
    /\ resp' = [resp EXCEPT ![c] = NoResp]
    /\ encPc' = [encPc EXCEPT ![c] = "failed"]
    /\ UNCHANGED <<remaining, extents, req, xd_rc>>
    /\ UNCHANGED <<lrsVars, decVars>>

EncNext ==
    \E c \in Clients :
        \/ EncStart(c) \/ EncOnReady(c) \/ DecOnReady(c) \/ EncOnReleased(c)
        \/ EncOnFormatted(c)
        \/ EncOnError(c) \/ EncAbort(c) \/ EncOnAbortReleased(c)

=============================================================================
