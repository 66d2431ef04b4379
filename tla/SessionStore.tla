---------------------------- MODULE SessionStore ----------------------------
(***************************************************************************)
(* The SQLite session store of server/src/persistence/mod.rs, as the       *)
(* relation between the `sessions` and `session_removals` tables.          *)
(*                                                                         *)
(* A store is a record of two maps over session ids: `rows` holds at most  *)
(* one row per id (NoRow when there is none) and `removed` the removal     *)
(* watermark (0 when there is none).  Each method runs under the           *)
(* connection mutex, in one statement or one transaction, and is an        *)
(* operator from store to store.  Columns no property tells apart (command,*)
(* cwd, env, name...) are left out; the row keeps its incarnation and its  *)
(* two status flags.                                                       *)
(***************************************************************************)
EXTENDS Naturals

CONSTANT StoreIds

NoRow == [inc |-> 0, alive |-> FALSE, unavail |-> FALSE]

StoreType ==
    [ rows    : [StoreIds -> [inc : Nat, alive : BOOLEAN, unavail : BOOLEAN]],
      removed : [StoreIds -> Nat] ]

EmptyStore == [ rows    |-> [i \in StoreIds |-> NoRow],
                removed |-> [i \in StoreIds |-> 0] ]

\* Mutation: the update of an existing row keeps its status.
SaveSessionKeepsStatus(s, i, inc, unavail) ==
    [s EXCEPT !.rows[i] = [ inc |-> inc, alive |-> s.rows[i].inc # 0 => s.rows[i].alive,
                            unavail |-> unavail ]]

\* save_session_for_incarnation_with_target_state: an UPSERT that never
\* crosses the removal watermark and never replaces a newer incarnation.
SaveSession(s, i, inc, unavail) ==
    LET row == s.rows[i]
    IN  IF s.removed[i] # 0 /\ inc <= s.removed[i] THEN s
        ELSE [ rows    |-> IF inc < row.inc THEN s.rows
                           ELSE [s.rows EXCEPT ![i] =
                                   [ inc     |-> inc,
                                     alive   |-> TRUE,
                                     unavail |-> \/ unavail
                                                 \/ row.inc = inc /\ row.unavail ]],
               removed |-> [s.removed EXCEPT ![i] = IF @ < inc THEN 0 ELSE @] ]

\* mark_session_dead_for_incarnation
MarkSessionDead(s, i, inc) ==
    IF s.rows[i].inc = inc /\ ~s.rows[i].unavail
      THEN [s EXCEPT !.rows[i] = [@ EXCEPT !.alive = FALSE]]
      ELSE s

\* mark_session_target_unavailable_for_incarnation
MarkSessionUnavailable(s, i, inc) ==
    IF inc # 0 /\ s.rows[i].inc = inc
      THEN [s EXCEPT !.rows[i] = [@ EXCEPT !.alive = TRUE, !.unavail = TRUE]]
      ELSE s

\* delete_session_in_transaction: raise the watermark, then drop what it covers.
DeleteSession(s, i, inc) ==
    LET watermark == IF inc > s.removed[i] THEN inc ELSE s.removed[i]
    IN  [ rows    |-> [s.rows EXCEPT ![i] = IF @.inc <= watermark THEN NoRow ELSE @],
          removed |-> [s.removed EXCEPT ![i] = watermark] ]

\* The ids load_sessions returns: alive rows no removal covers.
LoadSessions(s) ==
    {i \in StoreIds : s.rows[i].alive /\ ~(s.removed[i] # 0 /\ s.removed[i] >= s.rows[i].inc)}
=============================================================================
