------------------------------- MODULE Store -------------------------------
(***************************************************************************)
(* The transfer API of phobos_store.h: phobos_put and phobos_get each take *)
(* a batch of transfer descriptors and run one encoder (or decoder) per    *)
(* transfer against the LRS.  Each transfer whose encoder is done, with    *)
(* success or error, is reported once through the completion callback      *)
(* with its xd_rc; the call keeps processing the other transfers, and      *)
(* returns, once every transfer has been reported, the first error it met  *)
(* or 0.  Several calls may run at once (one per caller thread), sharing    *)
(* the LRS.  phobos_getmd runs no encoder: each of its transfers reads the *)
(* object's record from the catalog, which a put stores once it is done.   *)
(***************************************************************************)
EXTENDS Phobos

CONSTANTS
    Batches,     \* the transfers of each phobos_put / phobos_get / phobos_getmd call
    MdClients,   \* transfers of phobos_getmd calls
    MdSource     \* the put transfer whose object each getmd transfer names

ASSUME /\ MdClients \cap Clients = {} /\ MdSource \in [MdClients -> PutClients]
       /\ \A b \in Batches : b # {} /\ b \subseteq PutClients \cup GetClients \cup MdClients
       /\ \A b1, b2 \in Batches : b1 # b2 => b1 \cap b2 = {}

VARIABLES
    cbLog,     \* callback invocations so far, in order: [xfer, rc]
    rc,        \* per call: the first error reported so far, or 0
    returned,  \* the calls that have returned
    mdDone,    \* the getmd transfers that have read the catalog
    mdRc       \* xd_rc of each getmd transfer

storeVars == <<cbLog, rc, returned, mdDone, mdRc>>
allVars == <<vars, storeVars>>

Xfers == UNION Batches

BatchOf(c) == CHOOSE b \in Batches : c \in b

Called(c) == \E i \in DOMAIN cbLog : cbLog[i].xfer = c

StoreTypeOK ==
    /\ TypeOK
    /\ cbLog \in Seq([xfer: Xfers, rc: XferRcs])
    /\ rc \in [Batches -> XferRcs]
    /\ returned \subseteq Batches
    /\ mdDone \subseteq MdClients
    /\ mdRc \in [MdClients -> XferRcs]

StoreInit ==
    /\ Init
    /\ cbLog = <<>>
    /\ rc = [b \in Batches |-> 0]
    /\ returned = {}
    /\ mdDone = {}
    /\ mdRc = [c \in MdClients |-> 0]

(* A transfer is finished when its encoder is done or failed, or, for      *)
(* getmd, when it has read the catalog; its xd_rc then.                    *)
Finished(c) == IF c \in MdClients THEN c \in mdDone ELSE encPc[c] \in {"done", "failed"}
Rc(c) == IF c \in MdClients THEN mdRc[c] ELSE xd_rc[c]

(* Mutant of GetMd: the object's record is visible as soon as its put has *)
(* written a first extent.                                                 *)
GetMdEarly(c) ==
    /\ c \in MdClients \ mdDone
    /\ mdDone' = mdDone \cup {c}
    /\ mdRc' = [mdRc EXCEPT ![c] = IF extents[MdSource[c]] # <<>> THEN 0 ELSE -ENOENT]
    /\ UNCHANGED <<vars, cbLog, rc, returned>>

(* phobos_getmd for one transfer: the object's metadata is read from the  *)
(* catalog, -ENOENT when no put of it has completed.                      *)
GetMd(c) ==
    /\ c \in MdClients \ mdDone
    /\ mdDone' = mdDone \cup {c}
    /\ mdRc' = [mdRc EXCEPT ![c] = IF encPc[MdSource[c]] = "done" THEN 0 ELSE -ENOENT]
    /\ UNCHANGED <<vars, cbLog, rc, returned>>

(* The transfer loop finds the encoder of c done: it invokes the          *)
(* completion callback with xd_rc and keeps the first error of the call.  *)
Callback(c) ==
    /\ c \in Xfers
    /\ Finished(c)
    /\ ~Called(c)
    /\ cbLog' = Append(cbLog, [xfer |-> c, rc |-> Rc(c)])
    /\ rc' = [rc EXCEPT ![BatchOf(c)] = IF @ = 0 THEN Rc(c) ELSE @]
    /\ UNCHANGED <<vars, returned, mdDone, mdRc>>

(* Every transfer of the call has been reported: the call returns rc.     *)
BatchReturn(b) ==
    /\ b \notin returned
    /\ \A c \in b : Called(c)
    /\ returned' = returned \cup {b}
    /\ UNCHANGED <<vars, cbLog, rc, mdDone, mdRc>>

StoreNext ==
    \/ Next /\ UNCHANGED storeVars
    \/ \E c \in MdClients : GetMd(c)
    \/ \E c \in Xfers : Callback(c)
    \/ \E b \in Batches : BatchReturn(b)

(* The loop runs while any of its transfers is unreported: weak fairness. *)
StoreSpec ==
    /\ StoreInit /\ [][StoreNext]_allVars /\ Fairness
    /\ \A c \in MdClients : WF_allVars(GetMd(c))
    /\ \A c \in Xfers : WF_allVars(Callback(c))
    /\ \A b \in Batches : WF_allVars(BatchReturn(b))

-----------------------------------------------------------------------------
(* Helpers for the properties.                                              *)

(* Bytes the layout of put p records.                                       *)
StoredSize(p) == MapThenSumSet(LAMBDA i : extents[p][i].size, DOMAIN extents[p])

(* phobos_store.h (pho_completion_cb_t, xd_rc): a callback reports the    *)
(* transfer's final outcome.  Its rc stays the transfer's xd_rc, it is 0  *)
(* exactly when the encoder finished without error, and 0 means the work  *)
(* is really done: a put's layout holds all ObjSize bytes, a get has read *)
(* the whole object in order, a getmd has read the record of an object     *)
(* whose put completed with all its bytes.  It fails if an encoder reports *)
(* done with bytes left, if an error path leaves xd_rc at 0, if a late LRS *)
(* answer changes a transfer already reported, or if a getmd racing a put  *)
(* sees the object before the put is done.                                *)
CallbackTruthful ==
    \A i \in DOMAIN cbLog :
        LET c == cbLog[i].xfer
            r == cbLog[i].rc
        IN
        /\ r = Rc(c)
        /\ c \notin MdClients => (r = 0) = (encPc[c] = "done")
        /\ r = 0 /\ c \in PutClients => StoredSize(c) = ObjSize
        /\ r = 0 /\ c \in GetClients => got[c] = ObjectBytes(GetSource[c])
                                       /\ Len(got[c]) = ObjSize
        /\ r = 0 /\ c \in MdClients => encPc[MdSource[c]] = "done"
                                      /\ StoredSize(MdSource[c]) = ObjSize

=============================================================================
