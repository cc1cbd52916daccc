------------------------------- MODULE Config -------------------------------
(***************************************************************************)
(* Phobos configuration access (pho_cfg.h) and its one client in the       *)
(* repository, the copy module's default copy name (cfg_copy.c).           *)
(*                                                                         *)
(* A parameter is looked up by section and name at three levels: the      *)
(* process (environment), the local host (the config file read by         *)
(* pho_cfg_init_local) and the global level (the DSS), which a thread sees *)
(* only after pho_cfg_set_thread_conn, and only once the DSS is up.        *)
(* _pho_cfg_get falls back to the module's default table entry;            *)
(* _pho_cfg_get_int parses the value as a C int, or returns fail_val.      *)
(* Values are strings, kept as sequences of characters so that the parse  *)
(* is modelled by what it does.                                            *)
(***************************************************************************)
EXTENDS Integers, Sequences, SequencesExt, FiniteSetsExt

CONSTANTS
    Threads,     \* threads of one phobos process
    Vals,        \* strings a level may hold for the parameter
    IntBits      \* width of a C int

ENODATA == 61
EINVAL == 22
NULL == <<"NULL">>     \* a NULL const char *, distinct from every string

Levels == <<"process", "local", "global">>   \* lookup order of pho_cfg_get_val

(* cfg_copy[]: the copy module's parameter table, indexed by               *)
(* enum pho_cfg_params_io.                                                 *)
PHO_CFG_COPY_default_copy_name == 0
PHO_CFG_COPY_FIRST == PHO_CFG_COPY_default_copy_name
PHO_CFG_COPY_LAST == PHO_CFG_COPY_default_copy_name
cfg_copy == [i \in {PHO_CFG_COPY_default_copy_name} |->
               [section |-> "copy", name |-> "default_copy_name",
                value |-> <<"s", "o", "u", "r", "c", "e">>]]

Unset == <<"unset">>   \* the parameter is absent at a level (not "")

(* The parse of _pho_cfg_get_int: the value as a decimal C int of IntBits bits, or      *)
(* fail_val when it is not one (no digits, a stray character, out of       *)
(* range).  Digits are accumulated left to right, as strtol does.          *)

DigitChars == <<"0", "1", "2", "3", "4", "5", "6", "7", "8", "9">>
Digit(ch) == CHOOSE i \in 0..9 : DigitChars[i + 1] = ch
INT_MAX == 2^(IntBits - 1) - 1
INT_MIN == -(2^(IntBits - 1))

RECURSIVE Accumulate(_, _)
Accumulate(s, acc) == IF s = <<>> THEN acc ELSE Accumulate(Tail(s), 10 * acc + Digit(Head(s)))

ParseInt(s, fail_val) ==
    LET neg == s # <<>> /\ Head(s) = "-"
        body == IF neg THEN Tail(s) ELSE s
        mag == Accumulate(body, 0)
        v == IF neg THEN -mag ELSE mag
    IN IF body = <<>> \/ ~(ToSet(body) \subseteq ToSet(DigitChars)) THEN fail_val
       ELSE IF v < INT_MIN \/ v > INT_MAX THEN fail_val
       ELSE v

VARIABLES
    initDone,    \* pho_cfg_init_local has run
    dssUp,       \* the DSS is initialized
    conn,        \* threads that called pho_cfg_set_thread_conn
    level,       \* value of the parameter at each level, or Unset
    ret,         \* what each thread's last string lookup returned: [rc, val]
    retInt       \* what each thread's last _pho_cfg_get_int returned

vars == <<initDone, dssUp, conn, level, ret, retInt>>

Results == [rc: {0, -ENODATA, -EINVAL}, val: Vals \cup {NULL} \cup {cfg_copy[0].value}]
NoCall == [rc |-> 0, val |-> NULL]

CfgTypeOK ==
    /\ initDone \in BOOLEAN /\ dssUp \in BOOLEAN
    /\ conn \subseteq Threads
    /\ level \in [ToSet(Levels) -> Vals \cup {Unset}]
    /\ ret \in [Threads -> Results]
    /\ retInt \in [Threads -> INT_MIN..INT_MAX]

Init ==
    /\ initDone = FALSE /\ dssUp = FALSE
    /\ conn = {}
    /\ level = [l \in ToSet(Levels) |-> Unset]
    /\ ret = [t \in Threads |-> NoCall]
    /\ retInt = [t \in Threads |-> 0]

pho_cfg_get_val_from_level_unset(t, l) ==
    IF l # "global" \/ t \in conn
    THEN [rc |-> 0, val |-> level[l]]
    ELSE [rc |-> -ENODATA, val |-> NULL]

(* pho_cfg_get_val_from_level: 0 and the value, or -ENODATA.               *)
pho_cfg_get_val_from_level(t, l) ==
    IF (l # "global" \/ t \in conn) /\ level[l] # Unset
    THEN [rc |-> 0, val |-> level[l]]
    ELSE [rc |-> -ENODATA, val |-> NULL]

(* pho_cfg_get_val: the first level, in order, that has the parameter.     *)
RECURSIVE FirstSet(_, _)
FirstSet(t, ls) ==
    IF ls = <<>> THEN [rc |-> -ENODATA, val |-> NULL]
    ELSE LET r == pho_cfg_get_val_from_level(t, Head(ls)) IN
         IF r.rc = 0 THEN r ELSE FirstSet(t, Tail(ls))

pho_cfg_get_val(t) == FirstSet(t, Levels)

(* _pho_cfg_get: the configured value, else the table's default; NULL if   *)
(* the index lies outside the module's range.                              *)
_pho_cfg_get(t, first, last, idx, params) ==
    IF idx < first \/ idx > last THEN NULL
    ELSE LET r == pho_cfg_get_val(t) IN IF r.rc = 0 THEN r.val ELSE params[idx].value

get_cfg_default_copy_name(t) ==
    LET v == _pho_cfg_get(t, PHO_CFG_COPY_FIRST, PHO_CFG_COPY_LAST,
                          PHO_CFG_COPY_default_copy_name, cfg_copy)
    IN IF v = NULL THEN [rc |-> -EINVAL, val |-> NULL] ELSE [rc |-> 0, val |-> v]

_pho_cfg_get_int(t, first, last, idx, params, fail_val) ==
    LET v == _pho_cfg_get(t, first, last, idx, params) IN
    IF v = NULL THEN fail_val ELSE ParseInt(v, fail_val)

-----------------------------------------------------------------------------
(* Operations.  Every pho_cfg call but pho_cfg_init_local needs it done    *)
(* first; pho_cfg_set_thread_conn needs the DSS.                          *)

(* pho_cfg_init_local: read the environment and the local config file.     *)
pho_cfg_init_local ==
    /\ ~initDone
    /\ initDone' = TRUE
    /\ \E p, f \in Vals \cup {Unset} :
          level' = [level EXCEPT !["process"] = p, !["local"] = f]
    /\ UNCHANGED <<dssUp, conn, ret, retInt>>

DssInit ==
    /\ initDone /\ ~dssUp
    /\ dssUp' = TRUE
    /\ UNCHANGED <<initDone, conn, level, ret, retInt>>

pho_cfg_set_thread_conn(t) ==
    /\ dssUp /\ t \notin conn
    /\ conn' = conn \cup {t}
    /\ UNCHANGED <<initDone, dssUp, level, ret, retInt>>

(* Another host or an admin changes the global value in the DSS.           *)
GlobalSet(v) ==
    /\ dssUp /\ level["global"] # v
    /\ level' = [level EXCEPT !["global"] = v]
    /\ UNCHANGED <<initDone, dssUp, conn, ret, retInt>>

CallDefaultCopyName(t) ==
    /\ initDone
    /\ ret' = [ret EXCEPT ![t] = get_cfg_default_copy_name(t)]
    /\ UNCHANGED <<initDone, dssUp, conn, level, retInt>>

CallGetValFromLevel(t, l) ==
    /\ initDone
    /\ ret' = [ret EXCEPT ![t] = pho_cfg_get_val_from_level(t, l)]
    /\ UNCHANGED <<initDone, dssUp, conn, level, retInt>>

(* PHO_CFG_GET_INT(cfg_copy, PHO_CFG_COPY, default_copy_name, -1).          *)
CallGetInt(t) ==
    /\ initDone
    /\ retInt' = [retInt EXCEPT ![t] =
                     _pho_cfg_get_int(t, PHO_CFG_COPY_FIRST, PHO_CFG_COPY_LAST,
                                      PHO_CFG_COPY_default_copy_name, cfg_copy, -1)]
    /\ UNCHANGED <<initDone, dssUp, conn, level, ret>>

Next ==
    \/ pho_cfg_init_local \/ DssInit \/ \E v \in Vals \cup {Unset} : GlobalSet(v)
    \/ \E t \in Threads :
          \/ pho_cfg_set_thread_conn(t) \/ CallDefaultCopyName(t) \/ CallGetInt(t)
          \/ \E l \in ToSet(Levels) : CallGetValFromLevel(t, l)

Spec == Init /\ [][Next]_vars

====
