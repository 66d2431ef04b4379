-------------------------- MODULE PtyManagerProofs --------------------------
(***************************************************************************)
(* What the PTY manager guarantees for every set of ids and callers, every *)
(* retry limit and queue capacity and every number of incarnations and     *)
(* requests.  Five parts, each resting on the ones before it: types; the   *)
(* exclusion of the lifecycle gate; the identity of a session and its      *)
(* incarnations; the fleet tracker, the inventory and the shutdown; the    *)
(* store.                                                                  *)
(***************************************************************************)
EXTENDS PtyManager, FiniteSetTheorems, TLAPS

-----------------------------------------------------------------------------
(***************************************************************************)
(* Every action of the PTY manager keeps the types.  TypeOK alone is not   *)
(* inductive: a task that is under way must also have an id and an         *)
(* incarnation of its own (NamedTasks).  What the actions need beyond that *)
(* (a permit that is given back was counted, a reader that is started      *)
(* exists) is a premise of the lemmas here and an invariant of the next    *)
(* part.                                                                   *)
(***************************************************************************)

CrNamed ==
    \A c \in Callers :
        /\ cr[c].pc # "idle" => cr[c].id \in Ids
        /\ cr[c].pc \in {"spawn", "start", "unstart", "rekill", "finish"} => cr[c].inc \in Incs

RdNamed == \A n \in Incs : rd[n].pc \notin {"none", "done"} => rd[n].id \in Ids

SupNamed ==
    /\ sup.pc # "idle" => sup.id \in Ids
    /\ sup.pc \in {"permit", "spawn", "start", "unstart", "finish"} => sup.new \in Incs

RmNamed == \A r \in Removers : rm[r].pc # "idle" => rm[r].id \in Ids

DispNamed == disp.pc = "evict" => disp.cur \in Ids \X Incs

NamedTasks == CrNamed /\ RdNamed /\ SupNamed /\ RmNamed /\ DispNamed

TInv == TypeOK /\ NamedTasks

-----------------------------------------------------------------------------
(***************************************************************************)
(* The operators the actions are built from                                *)
(***************************************************************************)
\* A row of the sessions table; NoRow stands for none.
RowType == [inc : Nat, alive : BOOLEAN, unavail : BOOLEAN]

\* Writing one row keeps the store well typed.
LEMMA RowWrite ==
    ASSUME NEW s \in StoreType, NEW i, NEW r, i \in StoreIds => r \in RowType
    PROVE  /\ [s EXCEPT !.rows[i] = r] \in StoreType
           /\ [s.rows EXCEPT ![i] = r] \in [StoreIds -> RowType]
<1>1. s.rows \in [StoreIds -> RowType] /\ s.removed \in [StoreIds -> Nat]
  BY DEF StoreType, RowType
<1>2. [s.rows EXCEPT ![i] = r] \in [StoreIds -> RowType]
  BY <1>1
<1>3. [s EXCEPT !.rows[i] = r] = [rows |-> [s.rows EXCEPT ![i] = r], removed |-> s.removed]
  BY DEF StoreType
<1> QED
  BY <1>1, <1>2, <1>3 DEF StoreType, RowType

\* Every operation of the session store keeps it well typed.
LEMMA StoreOps ==
    ASSUME NEW s \in StoreType, NEW i, NEW n \in Nat
    PROVE  /\ \A b \in BOOLEAN : SaveSession(s, i, n, b) \in StoreType
           /\ MarkSessionDead(s, i, n) \in StoreType
           /\ MarkSessionUnavailable(s, i, n) \in StoreType
           /\ DeleteSession(s, i, n) \in StoreType
<1>0. i \in StoreIds => s.rows[i] \in RowType
  BY DEF StoreType, RowType
<1>1. ASSUME NEW b \in BOOLEAN PROVE SaveSession(s, i, n, b) \in StoreType
  BY DEF SaveSession, StoreType
<1>2. MarkSessionDead(s, i, n) \in StoreType
  <2> DEFINE r == [s.rows[i] EXCEPT !.alive = FALSE]
  <2>1. i \in StoreIds => r \in RowType
    BY <1>0 DEF RowType
  <2>2. [s EXCEPT !.rows[i] = r] \in StoreType
    BY <2>1, RowWrite
  <2> QED
    BY <2>2 DEF MarkSessionDead
<1>3. MarkSessionUnavailable(s, i, n) \in StoreType
  <2> DEFINE r == [s.rows[i] EXCEPT !.alive = TRUE, !.unavail = TRUE]
  <2>1. i \in StoreIds => r \in RowType
    BY <1>0 DEF RowType
  <2>2. [s EXCEPT !.rows[i] = r] \in StoreType
    BY <2>1, RowWrite
  <2> QED
    BY <2>2 DEF MarkSessionUnavailable
<1>4. DeleteSession(s, i, n) \in StoreType
  BY DEF DeleteSession, StoreType, NoRow
<1> QED
  BY <1>1, <1>2, <1>3, <1>4

\* The empty maps of the fleet tracker are maps.
LEMMA NoEntriesType == NoEntries \in [Ids -> Nat]
BY DEF NoEntries, NoInc

\* The initial tracker is well typed.
LEMMA NewFleetType == NewFleet \in FleetType
BY NoEntriesType, FleetAssumption DEF NewFleet, FleetType, NextGeneration, Incarnations, NoInc

\* The map of a tracker with another entry is a map, and the generation moves
\* within its width.
LEMMA FleetWrites ==
    ASSUME NEW f \in FleetType, NEW i, NEW n \in Nat
    PROVE  /\ [f EXCEPT !.live[i] = n] \in FleetType
           /\ [f EXCEPT !.creating[i] = n] \in FleetType
           /\ [f EXCEPT !.restart_pending[i] = n] \in FleetType
           /\ Publish(f) \in FleetType /\ NoInc \in Nat
<1>1. [f EXCEPT !.live[i] = n] \in FleetType
  BY DEF FleetType, Incarnations, NoInc
<1>2. [f EXCEPT !.creating[i] = n] \in FleetType
  BY DEF FleetType, Incarnations, NoInc
<1>3. [f EXCEPT !.restart_pending[i] = n] \in FleetType
  BY DEF FleetType, Incarnations, NoInc
<1>4. NextGeneration(f.generation) \in 0 .. GenModulus - 1
  BY FleetAssumption DEF FleetType, NextGeneration
<1>5. Publish(f) \in FleetType
  BY <1>4 DEF Publish, FleetType
<1> QED
  BY <1>1, <1>2, <1>3, <1>5 DEF NoInc

\* Every operation of the fleet tracker keeps it well typed.
LEMMA FleetOps ==
    ASSUME NEW f \in FleetType, NEW i, NEW n \in Nat
    PROVE  /\ BeginCreate(f, i, n) \in FleetType
           /\ PublishLive(f, i, n) \in FleetType
           /\ CancelCreate(f, i, n) \in FleetType
           /\ TransitionLiveToRestartPending(f, i, n) \in FleetType
           /\ RemoveLive(f, i, n) \in FleetType
           /\ CancelRestartPending(f, i, n) \in FleetType
           /\ RemoveAllForId(f, i) \in FleetType
           /\ \A m \in Nat : TransitionRestartPendingToCreating(f, i, m, n) \in FleetType
<1>1. BeginCreate(f, i, n) \in FleetType
  <2>1. [f EXCEPT !.restart_pending[i] = NoInc, !.creating[i] = n] \in FleetType
    BY DEF FleetType, Incarnations, NoInc
  <2> QED
    BY <2>1, FleetWrites DEF BeginCreate
<1>2. PublishLive(f, i, n) \in FleetType
  <2>1. [f EXCEPT !.creating[i] = NoInc, !.live[i] = n] \in FleetType
    BY DEF FleetType, Incarnations, NoInc
  <2>2. [f EXCEPT !.live[i] = n] \in FleetType
    BY FleetWrites
  <2>3. \A g \in FleetType : Publish(g) \in FleetType
    BY FleetWrites
  <2> QED
    BY <2>1, <2>2, <2>3 DEF PublishLive
<1>3. CancelCreate(f, i, n) \in FleetType
  <2>1. [f EXCEPT !.creating[i] = NoInc] \in FleetType
    BY FleetWrites
  <2> QED
    BY <2>1, FleetWrites DEF CancelCreate
<1>4. TransitionLiveToRestartPending(f, i, n) \in FleetType
  <2>1. [f EXCEPT !.live[i] = NoInc, !.restart_pending[i] = n] \in FleetType
    BY DEF FleetType, Incarnations, NoInc
  <2> QED
    BY <2>1, FleetWrites DEF TransitionLiveToRestartPending
<1>5. RemoveLive(f, i, n) \in FleetType
  <2>1. [f EXCEPT !.live[i] = NoInc] \in FleetType
    BY FleetWrites
  <2> QED
    BY <2>1, FleetWrites DEF RemoveLive
<1>6. CancelRestartPending(f, i, n) \in FleetType
  <2>1. [f EXCEPT !.restart_pending[i] = NoInc] \in FleetType
    BY FleetWrites
  <2> QED
    BY <2>1, FleetWrites DEF CancelRestartPending
<1>7. RemoveAllForId(f, i) \in FleetType
  <2>1. [f EXCEPT !.live[i] = NoInc, !.creating[i] = NoInc, !.restart_pending[i] = NoInc] \in FleetType
    BY DEF FleetType, Incarnations, NoInc
  <2> QED
    BY <2>1, FleetWrites DEF RemoveAllForId
<1>8. ASSUME NEW m \in Nat PROVE TransitionRestartPendingToCreating(f, i, m, n) \in FleetType
  <2>1. [f EXCEPT !.restart_pending[i] = IF @ = m THEN NoInc ELSE @, !.creating[i] = n] \in FleetType
    BY DEF FleetType, Incarnations, NoInc
  <2> QED
    BY <2>1, FleetWrites DEF TransitionRestartPendingToCreating
<1> QED
  BY <1>1, <1>2, <1>3, <1>4, <1>5, <1>6, <1>7, <1>8

\* Every change of the fleet's flags keeps it well typed.
LEMMA FleetFlagOps ==
    ASSUME NEW f \in FleetType, NEW d \in BOOLEAN
    PROVE  /\ MarkDisposing(f, d) \in FleetType
           /\ MarkClosing(f, d) \in FleetType
           /\ ClaimHandoff(f) \in FleetType
           /\ ReleaseHandoff(f) \in FleetType
<1>0. \A g \in FleetType : Publish(g) \in FleetType
  BY FleetWrites, 0 \in Nat
<1>1. MarkDisposing(f, d) \in FleetType
  <2>1. [f EXCEPT !.disposing = TRUE, !.live = NoEntries,
                  !.creating = NoEntries, !.restart_pending = NoEntries] \in FleetType
    BY NoEntriesType DEF FleetType, Incarnations, NoInc
  <2>2. [f EXCEPT !.disposing = FALSE] \in FleetType
    BY DEF FleetType
  <2> QED
    BY <1>0, <2>1, <2>2 DEF MarkDisposing
<1>2. MarkClosing(f, d) \in FleetType
  <2>1. [f EXCEPT !.closing = d] \in FleetType
    BY DEF FleetType
  <2> QED
    BY <1>0, <2>1 DEF MarkClosing
<1>3. ClaimHandoff(f) \in FleetType
  <2>1. [f EXCEPT !.handoff_active = TRUE] \in FleetType
    BY DEF FleetType
  <2> QED
    BY <1>0, <2>1 DEF ClaimHandoff
<1>4. ReleaseHandoff(f) \in FleetType
  <2>1. [f EXCEPT !.handoff_active = FALSE] \in FleetType
    BY DEF FleetType
  <2> QED
    BY <1>0, <2>1 DEF ReleaseHandoff
<1> QED
  BY <1>1, <1>2, <1>3, <1>4

\* A reader's record is replaced by one that is named.
LEMMA RdUpdate ==
    ASSUME TInv, NEW n \in Incs, NEW k \in ReaderType,
           k.pc \notin {"none", "done"} => k.id \in Ids,
           rd' = [rd EXCEPT ![n] = k]
    PROVE  rd' \in [Incs -> ReaderType] /\ RdNamed'
BY DEF TInv, TypeOK, TaskTypeOK, NamedTasks, RdNamed

\* A published reader starts to run.
LEMMA RdStart ==
    ASSUME TInv, NEW n \in Incs, rd[n].id \in Ids, rd' = [rd EXCEPT ![n].pc = "running"]
    PROVE  rd' \in [Incs -> ReaderType] /\ RdNamed'
<1> DEFINE k == [rd[n] EXCEPT !.pc = "running"]
<1>1. rd[n] \in ReaderType
  BY DEF TInv, TypeOK, TaskTypeOK
<1>2. k \in ReaderType /\ k.id \in Ids
  BY <1>1 DEF ReaderType
<1>3. rd' = [rd EXCEPT ![n] = k]
  OBVIOUS
<1> HIDE DEF k
<1> QED
  BY <1>2, <1>3, RdUpdate

\* In a well-typed state the fleet is a fleet.
LEMMA FleetTyped == TInv => fleet \in FleetType
  BY DEF TInv, TypeOK, InnerTypeOK

\* Incarnations are natural numbers, tombstones of incarnations are tombstones.
LEMMA IncFacts ==
    /\ Incs \subseteq Nat
    /\ IncType \subseteq Nat
    /\ NoInc \in IncType
    /\ \A n \in IncType, t \in BOOLEAN : Tombstone(n, t) \in DeadType
    /\ NoDead \in DeadType
    /\ NoFailed \in FailedType
<1>1. Incs \subseteq Nat /\ IncType \subseteq Nat /\ NoInc \in IncType
  BY DEF Incs, IncType, NoInc
<1>2. NoDead \in DeadType /\ NoFailed \in FailedType
  BY <1>1 DEF NoDead, DeadType, NoFailed, FailedType
<1>3. \A n \in IncType, t \in BOOLEAN : Tombstone(n, t) \in DeadType
  BY <1>2 DEF Tombstone, DeadType
<1> QED
  BY <1>1, <1>2, <1>3

\* kill_internal_impl keeps the types of everything it touches.
LEMMA KillTypes ==
    ASSUME TypeOK, NEW i \in Ids, NEW s \in BOOLEAN, KillInternalImpl(i, s)
    PROVE  /\ fleet' \in FleetType
           /\ live' \in [Ids -> IncType]
           /\ dead' \in [Ids -> DeadType]
           /\ pending' \in [Ids -> IncType]
           /\ killed' \subseteq Ids
           /\ suppress' \in [Ids -> Nat]
           /\ terminated' \subseteq Incs
           /\ stopped' \subseteq Incs
<1> USE DEF KillInternalImpl, TypeOK, InnerTypeOK
<1>1. fleet' \in FleetType
  BY FleetOps, 0 \in Nat
<1>2. live' \in [Ids -> IncType] /\ pending' \in [Ids -> IncType]
  BY IncFacts
<1>3. dead' \in [Ids -> DeadType]
  <2>1. ASSUME live[i] # NoInc PROVE Tombstone(live[i], rd[live[i]].target) \in DeadType
    <3>1. live[i] \in Incs
      BY <2>1 DEF IncType
    <3>2. rd[live[i]].target \in BOOLEAN
      BY <3>1 DEF TaskTypeOK, ReaderType
    <3> QED
      BY <3>1, <3>2, IncFacts DEF IncType
  <2> QED
    BY <2>1
<1>4. killed' \subseteq Ids /\ suppress' \in [Ids -> Nat]
  OBVIOUS
<1>5. terminated' \subseteq Incs /\ stopped' \subseteq Incs
  BY DEF Terminate, Stopped, EnvTypeOK, IncType, DeadType
<1> QED
  BY <1>1, <1>2, <1>3, <1>4, <1>5

\* finish_failed_replacement_locked keeps the types of everything it touches.
LEMMA FailedTypes ==
    ASSUME TypeOK, NEW i \in Ids, NEW inc \in Incs, NEW t \in BOOLEAN, NEW k \in BOOLEAN,
           FinishFailedReplacement(i, inc, t, k)
    PROVE  /\ fleet' \in FleetType
           /\ live' \in [Ids -> IncType]
           /\ dead' \in [Ids -> DeadType]
           /\ failed' \in [Ids -> FailedType]
           /\ pending' \in [Ids -> IncType]
           /\ terminated' \subseteq Incs
           /\ store' \in StoreType
<1> USE DEF TypeOK, InnerTypeOK
<1> inc \in Nat /\ inc \in IncType /\ dead[i] \in DeadType /\ dead[i].inc \in Nat
  BY IncFacts DEF IncType, DeadType
<1>1. fleet' \in FleetType
  BY FleetOps, 0 \in Nat DEF FinishFailedReplacement
<1>2. live' \in [Ids -> IncType] /\ pending' \in [Ids -> IncType] /\ terminated' \subseteq Incs
  BY IncFacts DEF FinishFailedReplacement, FinishReplacement, Terminate, EnvTypeOK
<1>3. dead' \in [Ids -> DeadType]
  <2>1. [Tombstone(inc, rd[inc].target) EXCEPT !.unavail = k] \in DeadType
    <3>1. Tombstone(inc, rd[inc].target) \in DeadType
      BY IncFacts DEF TaskTypeOK, ReaderType
    <3> QED
      BY <3>1 DEF DeadType
  <2>2. [dead EXCEPT ![i].unavail = @ \/ k, ![i].will_restart = FALSE] \in [Ids -> DeadType]
    BY DEF DeadType
  <2> QED
    BY <2>1, <2>2, IncFacts DEF FinishFailedReplacement
<1>4. failed' \in [Ids -> FailedType]
  BY DEF FinishFailedReplacement, FailedType
<1>5. store' \in StoreType
  <2>1. \A m \in Nat : /\ MarkSessionDead(store, i, m) \in StoreType
                       /\ MarkSessionUnavailable(store, i, m) \in StoreType
    BY StoreOps DEF TaskTypeOK
  <2>2. \A m, n \in Nat :
          /\ MarkSessionDead(MarkSessionDead(store, i, m), i, n) \in StoreType
          /\ MarkSessionUnavailable(MarkSessionDead(store, i, m), i, n) \in StoreType
    BY <2>1, StoreOps
  <2> QED
    BY <2>1, <2>2 DEF FinishFailedReplacement, TaskTypeOK
<1> QED
  BY <1>1, <1>2, <1>3, <1>4, <1>5

\* begin_replacement keeps the types of what it touches.
LEMMA BeginTypes ==
    ASSUME TypeOK, NEW i, BeginReplacement(i)
    PROVE  /\ next_inc \in Incs
           /\ next_inc' \in 1 .. MaxInc + 1
           /\ failed' \in [Ids -> FailedType]
           /\ pending' \in [Ids -> IncType]
<1> USE DEF TypeOK, InnerTypeOK, BeginReplacement
<1>1. next_inc \in Incs /\ next_inc' \in 1 .. MaxInc + 1
  BY ManagerAssumption DEF Incs
<1>2. failed' \in [Ids -> FailedType] /\ pending' \in [Ids -> IncType]
  BY <1>1, IncFacts DEF IncType
<1> QED
  BY <1>1, <1>2

\* A caller's record is replaced by one that is named.
LEMMA CrUpdate ==
    ASSUME TInv, NEW c \in Callers, NEW k \in CreateType,
           k.pc # "idle" => k.id \in Ids,
           k.pc \in {"spawn", "start", "unstart", "rekill", "finish"} => k.inc \in Incs,
           cr' = [cr EXCEPT ![c] = k]
    PROVE  cr' \in [Callers -> CreateType] /\ CrNamed'
BY DEF TInv, TypeOK, TaskTypeOK, NamedTasks, CrNamed

\* A caller moves on without changing its request.
LEMMA CrMove ==
    ASSUME TInv, NEW c \in Callers, cr[c].pc # "idle",
           NEW p \in {"evict", "reserve", "spawn", "start", "unstart", "rekill", "finish"},
           p \in {"spawn", "start", "unstart", "rekill", "finish"} => cr[c].inc \in Incs,
           cr' = [cr EXCEPT ![c].pc = p]
    PROVE  cr' \in [Callers -> CreateType] /\ CrNamed'
<1> DEFINE k == [cr[c] EXCEPT !.pc = p]
<1>1. cr[c] \in CreateType /\ cr[c].id \in Ids
  BY DEF TInv, TypeOK, TaskTypeOK, NamedTasks, CrNamed
<1>2. k \in CreateType /\ k.id = cr[c].id /\ k.inc = cr[c].inc /\ k.pc = p
  BY <1>1 DEF CreateType
<1>3. cr' = [cr EXCEPT ![c] = k]
  OBVIOUS
<1> HIDE DEF k
<1> QED
  BY <1>1, <1>2, <1>3, CrUpdate

\* A caller that returns frees its record, its permit and the gate.
LEMMA CrReturn ==
    ASSUME TInv, NEW c \in Callers, gate.active > 0, CreateReturn(c)
    PROVE  /\ cr' \in [Callers -> CreateType] /\ CrNamed'
           /\ gate' \in GateType
           /\ pgate' \in PGateType
<1>1. IdleCr \in CreateType /\ IdleCr.pc = "idle"
  BY IncFacts DEF IdleCr, CreateType, IdType, PolicyType
<1>2. cr' \in [Callers -> CreateType] /\ CrNamed'
  BY <1>1, CrUpdate DEF CreateReturn
<1>3. gate' \in GateType /\ pgate' \in PGateType
  BY DEF CreateReturn, TInv, TypeOK, TaskTypeOK, GateType, PGateType
<1> QED
  BY <1>2, <1>3

\* Every step of create keeps the types and the names.
LEMMA CreateTypes ==
    ASSUME TInv, NEW c \in Callers
    PROVE  /\ CreateBegin(c) \/ CreateEvict(c) \/ CreateStartFails(c) \/ CreateUnstart(c) => TInv'
           /\ CreateStart(c) /\ rd[cr[c].inc].id \in Ids => TInv'
           /\ gate.active > 0 /\ (\/ CreateAdmit(c) \/ CreateReserve(c) \/ CreateSpawnFails(c)
                \/ CreatePublish(c) \/ CreateRekill(c) \/ CreateFinish(c)) => TInv'
<1> USE DEF TInv
<1>1. ASSUME CreateBegin(c) PROVE TInv'
  <2>1. gate' \in GateType
    BY <1>1 DEF CreateBegin, TypeOK, TaskTypeOK, GateType
  <2>2. cr' \in [Callers -> CreateType] /\ CrNamed'
    <3>1. PICK i \in Ids, p \in Policies, t \in Targets :
            cr' = [cr EXCEPT ![c] = [IdleCr EXCEPT !.pc = "admit", !.id = i,
                                                  !.policy = p, !.target = t]]
      BY <1>1 DEF CreateBegin
    <3> DEFINE k == [IdleCr EXCEPT !.pc = "admit", !.id = i, !.policy = p, !.target = t]
    <3>2. k \in CreateType /\ k.id \in Ids /\ k.pc = "admit"
      BY ManagerAssumption DEF CreateType, IdleCr, IdType, PolicyType, IncType
    <3> HIDE DEF k
    <3> QED
      BY <3>1, <3>2, CrUpdate DEF k
  <2>3. ops' \in 0 .. MaxOps
    BY <1>1, ManagerAssumption DEF CreateBegin, Op, TypeOK, EnvTypeOK
  <2> QED
    BY <1>1, <2>1, <2>2, <2>3
       DEF CreateBegin, TInv, NamedTasks, RdNamed, SupNamed, RmNamed, DispNamed,
           TypeOK, InnerTypeOK, TaskTypeOK, EnvTypeOK, fleetVars, idVars, lockVars, procVars,
           envVars
<1>2. ASSUME gate.active > 0, CreateAdmit(c) PROVE TInv'
  <2>1. cr' \in [Callers -> CreateType] /\ CrNamed' /\ gate' \in GateType /\ pgate' \in PGateType
    BY <1>2, CrReturn, CrMove DEF CreateAdmit, TypeOK, TaskTypeOK, PGateType, GateType
  <2> QED
    BY <1>2, <2>1
       DEF CreateAdmit, TInv, NamedTasks, RdNamed, SupNamed, RmNamed, DispNamed,
           TypeOK, InnerTypeOK, TaskTypeOK, EnvTypeOK, fleetVars, idVars, lockVars, procVars,
           envVars
<1>3. ASSUME CreateEvict(c) PROVE TInv'
  <2>1. cr[c].pc # "idle" /\ cr[c].id \in Ids /\ KillInternalImpl(cr[c].id, TRUE)
    BY <1>3 DEF CreateEvict, NamedTasks, CrNamed
  <2>2. /\ fleet' \in FleetType
       /\ live' \in [Ids -> IncType]
       /\ dead' \in [Ids -> DeadType]
       /\ pending' \in [Ids -> IncType]
       /\ killed' \subseteq Ids
       /\ suppress' \in [Ids -> Nat]
       /\ terminated' \subseteq Incs
       /\ stopped' \subseteq Incs
    BY <1>3, <2>1, KillTypes
  <2>3. cr[c] \in CreateType /\ dead[cr[c].id].unavail \in BOOLEAN
    BY <1>3, <2>1 DEF TypeOK, InnerTypeOK, TaskTypeOK, DeadType, CreateType
  <2> DEFINE k == [cr[c] EXCEPT !.pc = "reserve", !.retry = dead[cr[c].id].unavail]
  <2>4. k \in CreateType /\ k.pc = "reserve" /\ k.id = cr[c].id
    BY <1>3, <2>1, <2>3 DEF CreateType
  <2>5. cr' = [cr EXCEPT ![c] = k]
    BY <1>3 DEF CreateEvict, TypeOK, TaskTypeOK
  <2> HIDE DEF k
  <2>6. cr' \in [Callers -> CreateType] /\ CrNamed'
    BY <1>3, <2>1, <2>4, <2>5, CrUpdate
  <2> QED
    BY <1>3, <2>1, <2>2, <2>3, <2>4, <2>5, <2>6
       DEF CreateEvict, TInv, NamedTasks, RdNamed, SupNamed, RmNamed, DispNamed,
           TypeOK, InnerTypeOK, TaskTypeOK, EnvTypeOK, fleetVars, idVars, lockVars, procVars,
           envVars
<1>4. ASSUME gate.active > 0, CreateReserve(c) PROVE TInv'
  <2>1. cr[c].pc # "idle" /\ cr[c].id \in Ids /\ BeginReplacement(cr[c].id)
    BY <1>4 DEF CreateReserve, NamedTasks, CrNamed
  <2>2. next_inc \in Incs /\ next_inc' \in 1 .. MaxInc + 1
       /\ failed' \in [Ids -> FailedType] /\ pending' \in [Ids -> IncType]
    BY <1>4, <2>1, BeginTypes
  <2>3. fleet' \in {fleet, BeginCreate(fleet, cr[c].id, next_inc)}
    BY <1>4 DEF CreateReserve
  <2>4. fleet' \in FleetType
    BY <2>2, <2>3, FleetOps, FleetTyped, IncFacts
  <2>5. cr[c] \in CreateType /\ next_inc \in IncType /\ generation \in Nat
    BY <1>4, <2>1, <2>2 DEF TypeOK, InnerTypeOK, TaskTypeOK, IncType
  <2> DEFINE k == [cr[c] EXCEPT !.pc = "spawn", !.inc = next_inc, !.gen = generation]
  <2>6. k \in CreateType /\ k.pc = "spawn" /\ k.id = cr[c].id /\ k.inc = next_inc
    BY <1>4, <2>1, <2>5 DEF CreateType
  <2>7. CreateReturn(c) \/ (cr' = [cr EXCEPT ![c] = k] /\ gate' = gate /\ pgate' = pgate)
    BY <1>4 DEF CreateReserve, TypeOK, TaskTypeOK, lockVars
  <2> HIDE DEF k
  <2>8. cr' \in [Callers -> CreateType] /\ CrNamed' /\ gate' \in GateType /\ pgate' \in PGateType
    BY <1>4, <2>1, <2>2, <2>6, <2>7, CrReturn, CrUpdate DEF TypeOK, TaskTypeOK
  <2> QED
    BY <1>4, <2>1, <2>2, <2>3, <2>4, <2>5, <2>6, <2>7, <2>8
       DEF CreateReserve, TInv, NamedTasks, RdNamed, SupNamed, RmNamed, DispNamed,
           TypeOK, InnerTypeOK, TaskTypeOK, EnvTypeOK, fleetVars, idVars, lockVars, procVars,
           envVars
<1>5. ASSUME gate.active > 0, CreateSpawnFails(c) PROVE TInv'
  <2>1. cr[c].pc # "idle" /\ cr[c].id \in Ids
       /\ cr[c].inc \in Incs /\ cr[c].target \in BOOLEAN /\ cr[c].retry \in BOOLEAN
    BY <1>5 DEF CreateSpawnFails, NamedTasks, CrNamed, TypeOK, TaskTypeOK, CreateType
  <2>2. /\ fleet' \in FleetType
       /\ live' \in [Ids -> IncType]
       /\ dead' \in [Ids -> DeadType]
       /\ failed' \in [Ids -> FailedType]
       /\ pending' \in [Ids -> IncType]
       /\ terminated' \subseteq Incs
       /\ store' \in StoreType
    BY <1>5, <2>1, FailedTypes DEF CreateSpawnFails
  <2>3. cr' \in [Callers -> CreateType] /\ CrNamed' /\ gate' \in GateType /\ pgate' \in PGateType
    BY <1>5, CrReturn DEF CreateSpawnFails
  <2>4. ops' \in 0 .. MaxOps
    BY <1>5, ManagerAssumption DEF CreateSpawnFails, TypeOK, EnvTypeOK, Op
  <2> QED
    BY <1>5, <2>1, <2>2, <2>3, <2>4
       DEF CreateSpawnFails, TInv, NamedTasks, RdNamed, SupNamed, RmNamed, DispNamed,
           TypeOK, InnerTypeOK, TaskTypeOK, EnvTypeOK, fleetVars, idVars, lockVars, procVars,
           envVars
<1>6. ASSUME gate.active > 0, CreatePublish(c) PROVE TInv'
  <2>1. cr[c].pc # "idle" /\ cr[c].id \in Ids /\ cr[c].inc \in Incs
    BY <1>6 DEF CreatePublish, NamedTasks, CrNamed
  <2>2. fleet' \in {CancelCreate(fleet, cr[c].id, cr[c].inc), PublishLive(fleet, cr[c].id,
  cr[c].inc)}
    BY <1>6 DEF CreatePublish
  <2>3. fleet' \in FleetType
    BY <2>1, <2>2, FleetOps, FleetTyped, IncFacts
  <2>4. live' \in [Ids -> IncType]
    BY <1>6, <2>1 DEF CreatePublish, TypeOK, InnerTypeOK, IncType
  <2>5. dead' \in [Ids -> DeadType]
    BY <1>6, IncFacts DEF CreatePublish, TypeOK, InnerTypeOK, DeadType, NoDead, Tombstone,
       IncType
  <2>6. killed' \subseteq Ids
    BY <1>6 DEF CreatePublish, TypeOK, InnerTypeOK
  <2> DEFINE r == [NoReader EXCEPT !.pc = "starting", !.id = cr[c].id, !.gen = cr[c].gen,
                                   !.policy = cr[c].policy, !.target = cr[c].target]
  <2>7. r \in ReaderType /\ r.id \in Ids
    BY <1>6, <2>1 DEF TypeOK, TaskTypeOK, CreateType, ReaderType, NoReader, IdType
  <2>8. rd' = rd \/ rd' = [rd EXCEPT ![cr[c].inc] = r]
    BY <1>6 DEF CreatePublish
  <2> HIDE DEF r
  <2>9. rd' \in [Incs -> ReaderType] /\ RdNamed'
    BY <1>6, <2>1, <2>7, <2>8 DEF TypeOK, TaskTypeOK, NamedTasks, RdNamed
  <2>10. cr' \in [Callers -> CreateType] /\ CrNamed' /\ gate' \in GateType /\ pgate' \in PGateType
    BY <1>6, <2>1, CrReturn, CrMove DEF CreatePublish, lockVars, TypeOK, TaskTypeOK
  <2>11. terminated' \subseteq Incs
    BY <1>6, <2>1 DEF CreatePublish, TypeOK, InnerTypeOK, EnvTypeOK, IncType, Terminate
  <2> QED
    BY <1>6, <2>1, <2>2, <2>3, <2>4, <2>5, <2>6, <2>7, <2>8, <2>9, <2>10, <2>11
       DEF CreatePublish, TInv, NamedTasks, SupNamed, RmNamed, DispNamed,
           TypeOK, InnerTypeOK, TaskTypeOK, EnvTypeOK, fleetVars, idVars, lockVars, procVars,
           envVars
<1>7. ASSUME rd[cr[c].inc].id \in Ids, CreateStart(c) PROVE TInv'
  <2>1. cr[c].pc # "idle" /\ cr[c].id \in Ids /\ cr[c].inc \in Incs
    BY <1>7 DEF CreateStart, NamedTasks, CrNamed
  <2>2. store' \in StoreType
    BY <1>7, <2>1, StoreOps, IncFacts DEF CreateStart, TypeOK, TaskTypeOK
  <2>3. rd' \in [Incs -> ReaderType] /\ RdNamed'
    BY <1>7, <2>1, RdStart DEF CreateStart
  <2>4. cr' \in [Callers -> CreateType] /\ CrNamed'
    BY <1>7, <2>1, CrMove DEF CreateStart
  <2> QED
    BY <1>7, <2>1, <2>2, <2>3, <2>4
       DEF CreateStart, TInv, NamedTasks, SupNamed, RmNamed, DispNamed,
           TypeOK, InnerTypeOK, TaskTypeOK, EnvTypeOK, fleetVars, idVars, lockVars, procVars,
           envVars
<1>8. ASSUME CreateStartFails(c) PROVE TInv'
  <2>1. cr[c].pc # "idle" /\ cr[c].id \in Ids /\ cr[c].inc \in Incs
    BY <1>8 DEF CreateStartFails, NamedTasks, CrNamed
  <2>2. store' \in StoreType
    BY <1>8, <2>1, StoreOps, IncFacts DEF CreateStartFails, TypeOK, TaskTypeOK
  <2>3. cr' \in [Callers -> CreateType] /\ CrNamed'
    BY <1>8, <2>1, CrMove DEF CreateStartFails
  <2>4. ops' \in 0 .. MaxOps
    BY <1>8, ManagerAssumption DEF CreateStartFails, TypeOK, EnvTypeOK, Op
  <2> QED
    BY <1>8, <2>1, <2>2, <2>3, <2>4
       DEF CreateStartFails, TInv, NamedTasks, RdNamed, SupNamed, RmNamed, DispNamed,
           TypeOK, InnerTypeOK, TaskTypeOK, EnvTypeOK, fleetVars, idVars, lockVars, procVars,
           envVars
<1>9. ASSUME CreateUnstart(c) PROVE TInv'
  <2>1. cr[c].pc # "idle" /\ cr[c].id \in Ids
       /\ cr[c].inc \in Incs /\ cr[c].target \in BOOLEAN /\ cr[c].retry \in BOOLEAN
    BY <1>9 DEF CreateUnstart, NamedTasks, CrNamed, TypeOK, TaskTypeOK, CreateType
  <2>2. /\ fleet' \in FleetType
       /\ live' \in [Ids -> IncType]
       /\ dead' \in [Ids -> DeadType]
       /\ failed' \in [Ids -> FailedType]
       /\ pending' \in [Ids -> IncType]
       /\ terminated' \subseteq Incs
       /\ store' \in StoreType
    BY <1>9, <2>1, FailedTypes DEF CreateUnstart
  <2>3. cr' \in [Callers -> CreateType] /\ CrNamed'
    BY <1>9, <2>1, CrMove DEF CreateUnstart
  <2> QED
    BY <1>9, <2>1, <2>2, <2>3
       DEF CreateUnstart, TInv, NamedTasks, RdNamed, SupNamed, RmNamed, DispNamed,
           TypeOK, InnerTypeOK, TaskTypeOK, EnvTypeOK, fleetVars, idVars, lockVars, procVars,
           envVars
<1>10. ASSUME gate.active > 0, CreateRekill(c) PROVE TInv'
  <2>1. cr[c].pc # "idle" /\ cr[c].id \in Ids /\ KillInternalImpl(cr[c].id, TRUE)
    BY <1>10 DEF CreateRekill, NamedTasks, CrNamed
  <2>2. /\ fleet' \in FleetType
       /\ live' \in [Ids -> IncType]
       /\ dead' \in [Ids -> DeadType]
       /\ pending' \in [Ids -> IncType]
       /\ killed' \subseteq Ids
       /\ suppress' \in [Ids -> Nat]
       /\ terminated' \subseteq Incs
       /\ stopped' \subseteq Incs
    BY <1>10, <2>1, KillTypes
  <2>3. rd' \in [Incs -> ReaderType] /\ RdNamed'
    BY <1>10 DEF CreateRekill, TypeOK, TaskTypeOK, ReaderType, NoReader, IdType, PolicyType,
       RdNamed, NamedTasks
  <2>4. cr' \in [Callers -> CreateType] /\ CrNamed' /\ gate' \in GateType /\ pgate' \in PGateType
    BY <1>10, CrReturn DEF CreateRekill
  <2> QED
    BY <1>10, <2>1, <2>2, <2>3, <2>4
       DEF CreateRekill, TInv, NamedTasks, SupNamed, RmNamed, DispNamed,
           TypeOK, InnerTypeOK, TaskTypeOK, EnvTypeOK, fleetVars, idVars, lockVars, procVars,
           envVars
<1>11. ASSUME gate.active > 0, CreateFinish(c) PROVE TInv'
  <2>1. pending' \in [Ids -> IncType]
    BY <1>11, IncFacts DEF CreateFinish, TypeOK, InnerTypeOK, IncType, FinishReplacement
  <2>2. cr' \in [Callers -> CreateType] /\ CrNamed' /\ gate' \in GateType /\ pgate' \in PGateType
    BY <1>11, CrReturn DEF CreateFinish
  <2> QED
    BY <1>11, <2>1, <2>2
       DEF CreateFinish, TInv, NamedTasks, RdNamed, SupNamed, RmNamed, DispNamed,
           TypeOK, InnerTypeOK, TaskTypeOK, EnvTypeOK, fleetVars, idVars, lockVars, procVars,
           envVars
<1> QED
  BY <1>1, <1>2, <1>3, <1>4, <1>5, <1>6, <1>7, <1>8, <1>9, <1>10, <1>11

\* The record of a reader that has ended.
LEMMA DoneReader ==
    LET k == [NoReader EXCEPT !.pc = "done"] IN k \in ReaderType /\ k.pc = "done"
BY DEF NoReader, ReaderType, IdType, PolicyType

\* A running reader moves on.
LEMMA RdMove ==
    ASSUME TInv, NEW n \in Incs, rd[n].pc \notin {"none", "done"},
           NEW p \in {"persist", "respawn", "cancel", "emit"},
           rd' = [rd EXCEPT ![n].pc = p]
    PROVE  rd' \in [Incs -> ReaderType] /\ RdNamed'
<1> DEFINE k == [rd[n] EXCEPT !.pc = p]
<1>1. rd[n] \in ReaderType /\ rd[n].id \in Ids
  BY DEF TInv, TypeOK, TaskTypeOK, NamedTasks, RdNamed
<1>2. k \in ReaderType /\ k.id = rd[n].id
  BY <1>1 DEF ReaderType
<1>3. rd' = [rd EXCEPT ![n] = k]
  OBVIOUS
<1> HIDE DEF k
<1> QED
  BY <1>1, <1>2, <1>3, RdUpdate

\* The exit transition keeps the types of everything it touches.
LEMMA ExitTypes ==
    ASSUME TInv, NEW n \in Incs, NEW code, ReaderExit(n, code)
    PROVE  /\ fleet' \in FleetType
           /\ live' \in [Ids -> IncType]
           /\ dead' \in [Ids -> DeadType]
           /\ suppress' \in [Ids -> Nat]
           /\ termreq' \subseteq Incs
           /\ rd' \in [Incs -> ReaderType] /\ RdNamed'
<1> DEFINE i == rd[n].id
           dies == i \in killed \/ generation # rd[n].gen \/ n \in termreq
           w == DecideRestart(rd[n].policy, code, dies, rd[n].count)
           count == IF code = 0 /\ rd[n].count > 0 THEN 0 ELSE rd[n].count
           k1 == [rd[n] EXCEPT !.pc = "persist", !.restart = w, !.count = count]
           k2 == [NoReader EXCEPT !.pc = "done"]
           k3 == [rd[n] EXCEPT !.pc = "persist"]
           k4 == [rd[n] EXCEPT !.pc = "emit"]
           t == [Tombstone(n, rd[n].target) EXCEPT !.will_restart = w]
<1>1. rd[n] \in ReaderType /\ i \in Ids /\ n \in Nat /\ n \in IncType
  BY IncFacts DEF ReaderExit, TInv, TypeOK, TaskTypeOK, NamedTasks, RdNamed, IncType
<1>2. w \in BOOLEAN
  BY DEF DecideRestart
<1>3. fleet' \in {fleet, TransitionLiveToRestartPending(fleet, i, n), RemoveLive(fleet, i, n)}
  BY DEF ReaderExit
<1>4. fleet' \in FleetType
  BY <1>1, <1>3, FleetOps, FleetTyped
<1>5. live' \in [Ids -> IncType] /\ termreq' \subseteq Incs
  BY <1>1, IncFacts DEF ReaderExit, TInv, TypeOK, InnerTypeOK
<1>6. suppress' \in [Ids -> Nat]
  BY <1>1 DEF ReaderExit, TInv, TypeOK, InnerTypeOK
<1>7. t \in DeadType
  <2>1. Tombstone(n, rd[n].target) \in DeadType
    BY <1>1, IncFacts DEF ReaderType
  <2> HIDE DEF w
  <2> QED
    BY <1>2, <2>1 DEF DeadType
<1>8. dead' = dead \/ dead' = [dead EXCEPT ![i] = t]
  BY DEF ReaderExit
<1>9. dead' \in [Ids -> DeadType]
  <2> HIDE DEF t
  <2> QED
    BY <1>7, <1>8 DEF TInv, TypeOK, InnerTypeOK
<1>10. count \in Nat
  BY <1>1 DEF ReaderType
<1>11. /\ k1 \in ReaderType /\ k1.id = i
       /\ k3 \in ReaderType /\ k3.id = i
       /\ k4 \in ReaderType /\ k4.id = i
  <2> HIDE DEF w, count
  <2> QED
    BY <1>1, <1>2, <1>10 DEF ReaderType
<1>12. \E k \in {k1, k2, k3, k4} : rd' = [rd EXCEPT ![n] = k]
  BY DEF ReaderExit
<1>13. rd' \in [Incs -> ReaderType] /\ RdNamed'
  <2> HIDE DEF k1, k3, k4
  <2> QED
    BY <1>1, <1>11, <1>12, RdUpdate, DoneReader
<1> QED
  BY <1>4, <1>5, <1>6, <1>9, <1>13

\* Every step of a reader keeps the types and the names.
LEMMA ReaderTypes ==
    ASSUME TInv, NEW n \in Incs
    PROVE  ReaderStep(n) \/ ReaderData(n) \/ NaturalExit(n) \/ ReaderWaitFails(n) => TInv'
<1> USE DEF TInv
<1>1. ASSUME ReaderData(n) PROVE TInv'
  <2>1. lastEvt' \in [Ids -> IncType]
    BY <1>1 DEF ReaderData, TypeOK, EnvTypeOK, IncType
  <2> QED
    BY <1>1, <2>1
       DEF ReaderData, TInv, NamedTasks, CrNamed, RdNamed, SupNamed, RmNamed, DispNamed,
           TypeOK, InnerTypeOK, TaskTypeOK, EnvTypeOK, fleetVars, idVars, lockVars, procVars,
           envVars
<1>2. ASSUME ReaderWaitFails(n) PROVE TInv'
  <2>1. rd' \in [Incs -> ReaderType] /\ RdNamed'
    BY <1>2, RdUpdate, DoneReader DEF ReaderWaitFails
  <2>2. ops' \in 0 .. MaxOps
    BY <1>2, ManagerAssumption DEF ReaderWaitFails, TypeOK, EnvTypeOK, Op
  <2> QED
    BY <1>2, <2>1, <2>2
       DEF ReaderWaitFails, TInv, NamedTasks, CrNamed, SupNamed, RmNamed, DispNamed,
           TypeOK, InnerTypeOK, TaskTypeOK, EnvTypeOK, fleetVars, idVars, lockVars, procVars,
           envVars
<1>3. ASSUME ReaderPersist(n) PROVE TInv'
  <2>1. store' \in {store, MarkSessionDead(store, rd[n].id, n)}
    BY <1>3 DEF ReaderPersist
  <2>2. store' \in StoreType
    BY <1>3, <2>1, StoreOps, IncFacts DEF TypeOK, TaskTypeOK
  <2>3. rd' \in [Incs -> ReaderType] /\ RdNamed'
    BY <1>3, RdMove DEF ReaderPersist
  <2> QED
    BY <1>3, <2>1, <2>2, <2>3
       DEF ReaderPersist, TInv, NamedTasks, CrNamed, SupNamed, RmNamed, DispNamed,
           TypeOK, InnerTypeOK, TaskTypeOK, EnvTypeOK, fleetVars, idVars, lockVars, procVars,
           envVars
<1>4. ASSUME ReaderRespawn(n) PROVE TInv'
  <2>1. rd[n].id \in Ids
    BY <1>4 DEF ReaderRespawn, NamedTasks, RdNamed
  <2> DEFINE m == [id |-> rd[n].id, inc |-> n, gen |-> rd[n].gen, policy |-> rd[n].policy,
                   count |-> rd[n].count, target |-> rd[n].target]
  <2>2. m \in CmdType
    BY <1>4, <2>1 DEF TypeOK, TaskTypeOK, ReaderType, CmdType
  <2>3. respawnQ' = respawnQ \/ respawnQ' = Append(respawnQ, m)
    BY <1>4 DEF ReaderRespawn
  <2> HIDE DEF m
  <2>4. respawnQ' \in Seq(CmdType)
    BY <1>4, <2>2, <2>3 DEF TypeOK, TaskTypeOK
  <2>5. rd' \in [Incs -> ReaderType] /\ RdNamed'
    BY <1>4, RdMove DEF ReaderRespawn
  <2> QED
    BY <1>4, <2>1, <2>2, <2>3, <2>4, <2>5
       DEF ReaderRespawn, TInv, NamedTasks, CrNamed, SupNamed, RmNamed, DispNamed,
           TypeOK, InnerTypeOK, TaskTypeOK, EnvTypeOK, fleetVars, idVars, lockVars, procVars,
           envVars
<1>5. ASSUME ReaderCancel(n) PROVE TInv'
  <2>1. fleet' \in FleetType
    BY <1>5, FleetOps, IncFacts DEF ReaderCancel, TypeOK, InnerTypeOK
  <2>2. rd' \in [Incs -> ReaderType] /\ RdNamed'
    BY <1>5, RdMove DEF ReaderCancel
  <2> QED
    BY <1>5, <2>1, <2>2
       DEF ReaderCancel, TInv, NamedTasks, CrNamed, SupNamed, RmNamed, DispNamed,
           TypeOK, InnerTypeOK, TaskTypeOK, EnvTypeOK, fleetVars, idVars, lockVars, procVars,
           envVars
<1>6. ASSUME ReaderEmit(n) PROVE TInv'
  <2>1. lastEvt' \in [Ids -> IncType]
    BY <1>6 DEF ReaderEmit, TypeOK, EnvTypeOK, IncType
  <2>2. rd' \in [Incs -> ReaderType] /\ RdNamed'
    BY <1>6, RdUpdate, DoneReader DEF ReaderEmit
  <2> QED
    BY <1>6, <2>1, <2>2
       DEF ReaderEmit, TInv, NamedTasks, CrNamed, SupNamed, RmNamed, DispNamed,
           TypeOK, InnerTypeOK, TaskTypeOK, EnvTypeOK, fleetVars, idVars, lockVars, procVars,
           envVars
<1>7. ASSUME KilledExit(n) PROVE TInv'
  <2>1. /\ fleet' \in FleetType
       /\ live' \in [Ids -> IncType]
       /\ dead' \in [Ids -> DeadType]
       /\ suppress' \in [Ids -> Nat]
       /\ termreq' \subseteq Incs
       /\ rd' \in [Incs -> ReaderType] /\ RdNamed'
    BY <1>7, ExitTypes DEF KilledExit
  <2> QED
    BY <1>7, <2>1
       DEF KilledExit, ReaderExit, TInv, NamedTasks, CrNamed, SupNamed, RmNamed, DispNamed,
           TypeOK, InnerTypeOK, TaskTypeOK, EnvTypeOK, fleetVars, idVars, lockVars, procVars,
           envVars
<1>8. ASSUME NaturalExit(n) PROVE TInv'
  <2>1. /\ fleet' \in FleetType
       /\ live' \in [Ids -> IncType]
       /\ dead' \in [Ids -> DeadType]
       /\ suppress' \in [Ids -> Nat]
       /\ termreq' \subseteq Incs
       /\ rd' \in [Incs -> ReaderType] /\ RdNamed'
    BY <1>8, ExitTypes DEF NaturalExit
  <2>2. ops' \in 0 .. MaxOps
    BY <1>8, ManagerAssumption DEF NaturalExit, TypeOK, EnvTypeOK, Op
  <2> QED
    BY <1>8, <2>1, <2>2
       DEF NaturalExit, ReaderExit, TInv, NamedTasks, CrNamed, SupNamed, RmNamed, DispNamed,
           TypeOK, InnerTypeOK, TaskTypeOK, EnvTypeOK, fleetVars, idVars, lockVars, procVars,
           envVars
<1> QED
  BY <1>1, <1>2, <1>3, <1>4, <1>5, <1>6, <1>7, <1>8 DEF ReaderStep

\* The head and the tail of a queue of restart commands.
LEMMA HeadTailType ==
    ASSUME NEW q \in Seq(CmdType), q # << >>
    PROVE  Head(q) \in CmdType /\ Tail(q) \in Seq(CmdType)
OBVIOUS

\* An idle supervisor is typed and needs no name.
LEMMA IdleSupType == ASSUME sup' = IdleSup PROVE sup' \in SupType /\ SupNamed'
BY IncFacts DEF IdleSup, SupType, IdType, PolicyType, SupNamed

\* The supervisor moves on with the same command.
LEMMA SupMove ==
    ASSUME sup \in SupType, sup.id \in Ids,
           NEW p \in {"validate", "spawn", "start", "unstart", "finish", "failed"},
           p \in {"validate", "failed"} \/ sup.new \in Incs,
           sup' = [sup EXCEPT !.pc = p]
    PROVE  sup' \in SupType /\ SupNamed'
BY DEF SupType, SupNamed

\* What a return of respawn_internal frees is typed.
LEMMA SupReturnTypes ==
    ASSUME TypeOK, gate.active > 0, NEW next, SupReturn(next)
    PROVE  gate' \in GateType /\ pgate' \in PGateType
BY DEF SupReturn, TypeOK, TaskTypeOK, GateType, PGateType

\* Every step of the supervisor keeps the types and the names.
LEMMA SupTypes ==
    ASSUME TInv
    PROVE  /\ (\/ SupReceive \/ SupBackoffOver \/ SupTargetFails \/ SupReserve \/ SupPermit
               \/ SupStartFails \/ SupFailed) => TInv'
           /\ SupStart /\ rd[sup.new].id \in Ids => TInv'
           /\ gate.active > 0 /\ (SupSpawnFails \/ SupPublish \/ SupUnstart \/ SupFinish) => TInv'
<1> USE DEF TInv
<1>1. ASSUME SupReceive PROVE TInv'
  <2>1. Head(respawnQ) \in CmdType /\ respawnQ' \in Seq(CmdType)
    BY <1>1, HeadTailType DEF SupReceive, TypeOK, TaskTypeOK
  <2> DEFINE m == Head(respawnQ)
             k == [IdleSup EXCEPT !.pc = "backoff", !.id = m.id, !.inc = m.inc, !.gen = m.gen,
                                  !.policy = m.policy, !.count = m.count, !.target = m.target]
  <2>2. k \in SupType /\ k.pc = "backoff" /\ k.id \in Ids
    BY <1>1, <2>1, IncFacts DEF CmdType, SupType, IdleSup, IdType, IncType, PolicyType
  <2>3. sup' = k
    BY <1>1 DEF SupReceive
  <2> HIDE DEF k
  <2>4. sup' \in SupType /\ SupNamed'
    BY <1>1, <2>2, <2>3 DEF SupNamed
  <2> QED
    BY <1>1, <2>1, <2>2, <2>3, <2>4
       DEF SupReceive, TInv, NamedTasks, CrNamed, RdNamed, RmNamed, DispNamed,
           TypeOK, InnerTypeOK, TaskTypeOK, EnvTypeOK, fleetVars, idVars, lockVars, procVars,
           envVars
<1>2. ASSUME SupBackoffOver PROVE TInv'
  <2>1. fleet' \in {fleet, CancelRestartPending(fleet, sup.id, sup.inc)}
    BY <1>2 DEF SupBackoffOver
  <2>2. sup.inc \in Nat
    BY <1>2, IncFacts DEF TypeOK, TaskTypeOK, SupType
  <2>3. fleet' \in FleetType
    BY <2>1, <2>2, FleetOps, FleetTyped, IncFacts
  <2>4. sup \in SupType /\ sup.id \in Ids
    BY <1>2 DEF SupBackoffOver, NamedTasks, SupNamed, TypeOK, TaskTypeOK
  <2>5. sup' \in SupType /\ SupNamed'
    BY <1>2, <2>4, SupMove, IdleSupType DEF SupBackoffOver
  <2> QED
    BY <1>2, <2>1, <2>2, <2>3, <2>4, <2>5
       DEF SupBackoffOver, TInv, NamedTasks, CrNamed, RdNamed, RmNamed, DispNamed,
           TypeOK, InnerTypeOK, TaskTypeOK, EnvTypeOK, fleetVars, idVars, lockVars, procVars,
           envVars
<1>3. ASSUME SupTargetFails PROVE TInv'
  <2>1. PICK lost \in BOOLEAN : sup' = [sup EXCEPT !.pc = "failed", !.lost = lost]
    BY <1>3 DEF SupTargetFails
  <2>2. sup \in SupType /\ sup.id \in Ids
    BY <1>3 DEF SupTargetFails, TypeOK, TaskTypeOK, NamedTasks, SupNamed
  <2>3. sup' \in SupType /\ SupNamed'
    BY <2>1, <2>2 DEF SupType, SupNamed
  <2>4. ops' \in 0 .. MaxOps
    BY <1>3, ManagerAssumption DEF SupTargetFails, Op, TypeOK, EnvTypeOK
  <2> QED
    BY <1>3, <2>3, <2>4
       DEF SupTargetFails, TInv, NamedTasks, CrNamed, RdNamed, RmNamed, DispNamed,
           TypeOK, InnerTypeOK, TaskTypeOK, EnvTypeOK, fleetVars, idVars, lockVars, procVars,
           envVars
<1>4. ASSUME SupReserve PROVE TInv'
  <2>1. sup \in SupType /\ sup.id \in Ids
    BY <1>4 DEF SupReserve, NamedTasks, SupNamed, TypeOK, TaskTypeOK
  <2>2. /\ next_inc' \in 1 .. MaxInc + 1
       /\ failed' \in [Ids -> FailedType]
       /\ pending' \in [Ids -> IncType]
    BY <1>4, BeginTypes DEF SupReserve, TypeOK, InnerTypeOK
  <2> DEFINE k == [sup EXCEPT !.pc = "permit", !.new = next_inc, !.keep = dead[sup.id].unavail]
  <2>3. \/ /\ fleet' \in {fleet, CancelRestartPending(fleet, sup.id, sup.inc)}
          /\ sup' = [sup EXCEPT !.pc = "failed"]
       \/ /\ next_inc \in Incs
          /\ sup' = k
          /\ fleet' = TransitionRestartPendingToCreating(fleet, sup.id, sup.inc, next_inc)
    BY <1>4, BeginTypes DEF SupReserve
  <2>4. sup.inc \in Nat
    BY <1>4, <2>1, IncFacts DEF SupType
  <2>5. /\ CancelRestartPending(fleet, sup.id, sup.inc) \in FleetType
       /\ \A n \in Nat : TransitionRestartPendingToCreating(fleet, sup.id, sup.inc, n)
                         \in FleetType
    BY <2>4, FleetOps, FleetTyped
  <2>6. fleet' \in FleetType
    BY <2>3, <2>5, FleetTyped, IncFacts
  <2>7. dead[sup.id].unavail \in BOOLEAN
    BY <1>4, <2>1 DEF TypeOK, InnerTypeOK, DeadType
  <2>8. next_inc \in Incs => k \in SupType /\ k.id = sup.id /\ k.new = next_inc /\ k.pc = "permit"
    BY <1>4, <2>1, <2>7 DEF SupType, IncType
  <2> HIDE DEF k
  <2>9. sup' \in SupType /\ SupNamed'
    BY <1>4, <2>1, <2>3, <2>8, SupMove DEF SupNamed
  <2> QED
    BY <1>4, <2>1, <2>2, <2>3, <2>4, <2>5, <2>6, <2>7, <2>8, <2>9
       DEF SupReserve, TInv, NamedTasks, CrNamed, RdNamed, RmNamed, DispNamed,
           TypeOK, InnerTypeOK, TaskTypeOK, EnvTypeOK, fleetVars, idVars, lockVars, procVars,
           envVars
<1>5. ASSUME SupPermit PROVE TInv'
  <2>1. sup \in SupType /\ sup.id \in Ids /\ sup.new \in Incs
    BY <1>5 DEF SupPermit, NamedTasks, SupNamed, TypeOK, TaskTypeOK
  <2>2. fleet' \in {fleet, CancelCreate(fleet, sup.id, sup.new)}
    BY <1>5 DEF SupPermit
  <2>3. fleet' \in FleetType
    BY <2>1, <2>2, FleetOps, FleetTyped, IncFacts
  <2>4. pending' \in [Ids -> IncType]
    BY <1>5, IncFacts DEF SupPermit, FinishReplacement, TypeOK, InnerTypeOK
  <2>5. sup' \in SupType /\ SupNamed'
    BY <1>5, <2>1, SupMove, IdleSupType DEF SupPermit
  <2>6. gate' \in GateType
    BY <1>5 DEF SupPermit, TypeOK, TaskTypeOK, GateType
  <2> QED
    BY <1>5, <2>1, <2>2, <2>3, <2>4, <2>5, <2>6
       DEF SupPermit, TInv, NamedTasks, CrNamed, RdNamed, RmNamed, DispNamed,
           TypeOK, InnerTypeOK, TaskTypeOK, EnvTypeOK, fleetVars, idVars, lockVars, procVars,
           envVars
<1>6. ASSUME gate.active > 0, SupSpawnFails PROVE TInv'
  <2>1. sup \in SupType /\ sup.id \in Ids /\ sup.new \in Incs
    BY <1>6 DEF SupSpawnFails, NamedTasks, SupNamed, TypeOK, TaskTypeOK
  <2>2. sup.keep \in BOOLEAN
    BY <1>6, <2>1 DEF SupType
  <2>3. /\ fleet' \in FleetType
       /\ live' \in [Ids -> IncType]
       /\ dead' \in [Ids -> DeadType]
       /\ failed' \in [Ids -> FailedType]
       /\ pending' \in [Ids -> IncType]
       /\ terminated' \subseteq Incs
       /\ store' \in StoreType
    BY <1>6, <2>1, <2>2, FailedTypes DEF SupSpawnFails
  <2>4. sup' \in SupType /\ SupNamed' /\ gate' \in GateType /\ pgate' \in PGateType
    BY <1>6, <2>1, SupMove, SupReturnTypes DEF SupSpawnFails, SupReturn
  <2>5. ops' \in 0 .. MaxOps
    BY <1>6, ManagerAssumption DEF SupSpawnFails, TypeOK, EnvTypeOK, Op
  <2> QED
    BY <1>6, <2>1, <2>2, <2>3, <2>4, <2>5
       DEF SupSpawnFails, TInv, NamedTasks, CrNamed, RdNamed, RmNamed, DispNamed,
           TypeOK, InnerTypeOK, TaskTypeOK, EnvTypeOK, fleetVars, idVars, lockVars, procVars,
           envVars
<1>7. ASSUME gate.active > 0, SupPublish PROVE TInv'
  <2>1. sup \in SupType /\ sup.id \in Ids /\ sup.new \in Incs
    BY <1>7 DEF SupPublish, NamedTasks, SupNamed, TypeOK, TaskTypeOK
  <2>2. fleet' \in {CancelCreate(fleet, sup.id, sup.new), PublishLive(fleet, sup.id, sup.new)}
    BY <1>7 DEF SupPublish
  <2>3. fleet' \in FleetType
    BY <2>1, <2>2, FleetOps, FleetTyped, IncFacts
  <2>4. live' \in [Ids -> IncType] /\ pending' \in [Ids -> IncType]
    BY <1>7, <2>1, IncFacts DEF SupPublish, FinishReplacement, TypeOK, InnerTypeOK, IncType
  <2>5. dead' \in [Ids -> DeadType] /\ killed' \subseteq Ids
    BY <1>7, IncFacts DEF SupPublish, TypeOK, InnerTypeOK
  <2> DEFINE r == [NoReader EXCEPT !.pc = "starting", !.id = sup.id, !.gen = sup.gen,
                                   !.policy = sup.policy, !.target = sup.target,
                                   !.count = sup.count + 1]
  <2>6. /\ sup.gen \in Nat /\ sup.policy \in PolicyType /\ sup.target \in BOOLEAN
       /\ sup.count + 1 \in Nat /\ sup.id \in IdType
    BY <1>7, <2>1 DEF SupType, IdType
  <2>7. r \in ReaderType /\ r.id \in Ids
    BY <1>7, <2>1, <2>6 DEF ReaderType, NoReader
  <2>8. rd' = rd \/ rd' = [rd EXCEPT ![sup.new] = r]
    BY <1>7 DEF SupPublish
  <2> HIDE DEF r
  <2>9. rd' \in [Incs -> ReaderType] /\ RdNamed'
    BY <1>7, <2>1, <2>7, <2>8, RdUpdate DEF TypeOK, TaskTypeOK, NamedTasks, RdNamed
  <2>10. \/ /\ sup' \in {IdleSup, [sup EXCEPT !.pc = "failed"]}
          /\ SupReturn(sup')
       \/ /\ sup' = [sup EXCEPT !.pc = "start"]
          /\ gate' = gate /\ pgate' = "supervisor"
    BY <1>7 DEF SupPublish, SupReturn
  <2>11. sup' \in SupType /\ SupNamed' /\ gate' \in GateType /\ pgate' \in PGateType
    BY <1>7, <2>1, <2>10, SupMove, IdleSupType, SupReturnTypes DEF TypeOK, TaskTypeOK, PGateType
  <2> QED
    BY <1>7, <2>1, <2>2, <2>3, <2>4, <2>5, <2>6, <2>7, <2>8, <2>9, <2>10, <2>11
       DEF SupPublish, TInv, NamedTasks, CrNamed, RmNamed, DispNamed,
           TypeOK, InnerTypeOK, TaskTypeOK, EnvTypeOK, fleetVars, idVars, lockVars, procVars,
           envVars
<1>8. ASSUME rd[sup.new].id \in Ids, SupStart PROVE TInv'
  <2>1. sup \in SupType /\ sup.id \in Ids /\ sup.new \in Incs
    BY <1>8 DEF SupStart, NamedTasks, SupNamed, TypeOK, TaskTypeOK
  <2>2. store' \in StoreType
    BY <1>8, <2>1, StoreOps, IncFacts DEF SupStart, TypeOK, TaskTypeOK
  <2>3. rd' \in [Incs -> ReaderType] /\ RdNamed'
    BY <1>8, <2>1, RdStart DEF SupStart
  <2>4. sup' \in SupType /\ SupNamed'
    BY <1>8, <2>1, SupMove DEF SupStart
  <2> QED
    BY <1>8, <2>1, <2>2, <2>3, <2>4
       DEF SupStart, TInv, NamedTasks, CrNamed, RmNamed, DispNamed,
           TypeOK, InnerTypeOK, TaskTypeOK, EnvTypeOK, fleetVars, idVars, lockVars, procVars,
           envVars
<1>9. ASSUME SupStartFails PROVE TInv'
  <2>1. sup \in SupType /\ sup.id \in Ids /\ sup.new \in Incs
    BY <1>9 DEF SupStartFails, NamedTasks, SupNamed, TypeOK, TaskTypeOK
  <2>2. store' \in StoreType
    BY <1>9, <2>1, StoreOps, IncFacts DEF SupStartFails, TypeOK, TaskTypeOK
  <2>3. sup' \in SupType /\ SupNamed'
    BY <1>9, <2>1, SupMove DEF SupStartFails
  <2>4. ops' \in 0 .. MaxOps
    BY <1>9, ManagerAssumption DEF SupStartFails, TypeOK, EnvTypeOK, Op
  <2> QED
    BY <1>9, <2>1, <2>2, <2>3, <2>4
       DEF SupStartFails, TInv, NamedTasks, CrNamed, RdNamed, RmNamed, DispNamed,
           TypeOK, InnerTypeOK, TaskTypeOK, EnvTypeOK, fleetVars, idVars, lockVars, procVars,
           envVars
<1>10. ASSUME gate.active > 0, SupUnstart PROVE TInv'
  <2>1. sup \in SupType /\ sup.id \in Ids /\ sup.new \in Incs
    BY <1>10 DEF SupUnstart, NamedTasks, SupNamed, TypeOK, TaskTypeOK
  <2>2. sup.keep \in BOOLEAN
    BY <1>10, <2>1 DEF SupType
  <2>3. /\ fleet' \in FleetType
       /\ live' \in [Ids -> IncType]
       /\ dead' \in [Ids -> DeadType]
       /\ failed' \in [Ids -> FailedType]
       /\ pending' \in [Ids -> IncType]
       /\ terminated' \subseteq Incs
       /\ store' \in StoreType
    BY <1>10, <2>1, <2>2, FailedTypes DEF SupUnstart
  <2>4. rd' \in [Incs -> ReaderType] /\ RdNamed'
    BY <1>10, <2>1, RdUpdate, DoneReader DEF SupUnstart
  <2>5. sup' \in SupType /\ SupNamed' /\ gate' \in GateType /\ pgate' \in PGateType
    BY <1>10, <2>1, SupMove, SupReturnTypes DEF SupUnstart, SupReturn
  <2> QED
    BY <1>10, <2>1, <2>2, <2>3, <2>4, <2>5
       DEF SupUnstart, TInv, NamedTasks, CrNamed, RmNamed, DispNamed,
           TypeOK, InnerTypeOK, TaskTypeOK, EnvTypeOK, fleetVars, idVars, lockVars, procVars,
           envVars
<1>11. ASSUME gate.active > 0, SupFinish PROVE TInv'
  <2>1. pending' \in [Ids -> IncType]
    BY <1>11, IncFacts DEF SupFinish, FinishReplacement, TypeOK, InnerTypeOK
  <2>2. sup' \in SupType /\ SupNamed' /\ gate' \in GateType /\ pgate' \in PGateType
    BY <1>11, IdleSupType, SupReturnTypes DEF SupFinish, SupReturn
  <2> QED
    BY <1>11, <2>1, <2>2
       DEF SupFinish, TInv, NamedTasks, CrNamed, RdNamed, RmNamed, DispNamed,
           TypeOK, InnerTypeOK, TaskTypeOK, EnvTypeOK, fleetVars, idVars, lockVars, procVars,
           envVars
<1>12. ASSUME SupFailed PROVE TInv'
  <2>1. sup \in SupType /\ sup.id \in Ids
    BY <1>12 DEF SupFailed, NamedTasks, SupNamed, TypeOK, TaskTypeOK
  <2>2. sup.inc \in Nat /\ sup.lost \in BOOLEAN
    BY <1>12, <2>1, IncFacts DEF SupType
  <2>3. fleet' \in {fleet, CancelRestartPending(fleet, sup.id, sup.inc)}
    BY <1>12 DEF SupFailed
  <2>4. fleet' \in FleetType
    BY <2>1, <2>2, <2>3, FleetOps, FleetTyped, IncFacts
  <2>5. store' \in {store, MarkSessionUnavailable(store, sup.id, sup.inc),
                      MarkSessionDead(store, sup.id, sup.inc)}
    BY <1>12 DEF SupFailed
  <2>6. store' \in StoreType
    BY <1>12, <2>2, <2>5, StoreOps, IncFacts DEF TypeOK, TaskTypeOK
  <2>7. dead' \in [Ids -> DeadType]
    BY <1>12, <2>1, <2>2 DEF SupFailed, TypeOK, InnerTypeOK, DeadType
  <2>8. sup' \in SupType /\ SupNamed'
    BY <1>12, IdleSupType DEF SupFailed
  <2> QED
    BY <1>12, <2>1, <2>2, <2>3, <2>4, <2>5, <2>6, <2>7, <2>8
       DEF SupFailed, TInv, NamedTasks, CrNamed, RdNamed, RmNamed, DispNamed,
           TypeOK, InnerTypeOK, TaskTypeOK, EnvTypeOK, fleetVars, idVars, lockVars, procVars,
           envVars
<1> QED
  BY <1>1, <1>2, <1>3, <1>4, <1>5, <1>6, <1>7, <1>8, <1>9, <1>10, <1>11, <1>12

\* An idle remover is typed.
LEMMA IdleRmType == IdleRm \in RemoveType /\ IdleRm.pc = "idle"
BY IncFacts DEF IdleRm, RemoveType, IdType

\* A removal that returns leaves its record typed and idle.
LEMMA RmReturns ==
    ASSUME TInv, NEW r \in Removers, RemoveReturn(r)
    PROVE  rm' \in [Removers -> RemoveType] /\ RmNamed'
<1> DEFINE k == [IdleRm EXCEPT !.expired = rm[r].expired]
<1>1. k \in RemoveType /\ k.pc = "idle"
  BY IncFacts DEF IdleRm, RemoveType, IdType, TInv, TypeOK, TaskTypeOK
<1>2. rm' = [rm EXCEPT ![r] = k]
  BY DEF RemoveReturn
<1> HIDE DEF k
<1> QED
  BY <1>1, <1>2 DEF TInv, TypeOK, TaskTypeOK, NamedTasks, RmNamed

\* Every request, sweep and removal keeps the types and the names.
LEMMA RequestTypes ==
    ASSUME TInv
    PROVE  /\ \A i \in Ids : Kill(i) \/ MarkTargetUnavailable(i) \/ RemoveBegin(i) => TInv'
           /\ \A i \in Ids, inc \in Incs : RequestTermination(i, inc) => TInv'
           /\ SweepTick \/ SweepCheck => TInv'
           /\ \A r \in Removers : RemoveStep(r) \/ RemoveDeleteFails(r) => TInv'
<1> USE DEF TInv
<1>1. ASSUME NEW i \in Ids, Kill(i) PROVE TInv'
  <2>1. KillInternalImpl(i, FALSE)
    BY <1>1 DEF Kill
  <2>2. /\ fleet' \in FleetType
       /\ live' \in [Ids -> IncType]
       /\ dead' \in [Ids -> DeadType]
       /\ pending' \in [Ids -> IncType]
       /\ killed' \subseteq Ids
       /\ suppress' \in [Ids -> Nat]
       /\ terminated' \subseteq Incs
       /\ stopped' \subseteq Incs
    BY <1>1, <2>1, KillTypes
  <2>3. ops' \in 0 .. MaxOps
    BY <1>1, ManagerAssumption DEF Kill, TypeOK, EnvTypeOK, Op
  <2> QED
    BY <1>1, <2>1, <2>2, <2>3
       DEF Kill, TInv, NamedTasks, CrNamed, RdNamed, SupNamed, RmNamed, DispNamed,
           TypeOK, InnerTypeOK, TaskTypeOK, EnvTypeOK, fleetVars, idVars, lockVars, procVars,
           envVars
<1>2. ASSUME NEW i \in Ids, NEW inc \in Incs, RequestTermination(i, inc) PROVE TInv'
  <2>1. fleet' \in {fleet, CancelRestartPending(fleet, i, inc)}
    BY <1>2 DEF RequestTermination
  <2>2. fleet' \in FleetType
    BY <2>1, FleetOps, FleetTyped, IncFacts
  <2>3. dead' \in [Ids -> DeadType]
    BY <1>2 DEF RequestTermination, TypeOK, InnerTypeOK, DeadType
  <2>4. termreq' \subseteq Incs /\ terminated' \subseteq Incs /\ stopped' \subseteq Incs
    BY <1>2 DEF RequestTermination, Terminate, TypeOK, InnerTypeOK, EnvTypeOK
  <2>5. ops' \in 0 .. MaxOps
    BY <1>2, ManagerAssumption DEF RequestTermination, TypeOK, EnvTypeOK, Op
  <2> QED
    BY <1>2, <2>1, <2>2, <2>3, <2>4, <2>5
       DEF RequestTermination, TInv, NamedTasks, CrNamed, RdNamed, SupNamed, RmNamed, DispNamed,
           TypeOK, InnerTypeOK, TaskTypeOK, EnvTypeOK, fleetVars, idVars, lockVars, procVars,
           envVars
<1>3. ASSUME NEW i \in Ids, MarkTargetUnavailable(i) PROVE TInv'
  <2>1. dead[i].inc \in Nat /\ failed[i].inc \in Nat /\ failed[i].inc \in IncType
    BY <1>3, IncFacts DEF TypeOK, InnerTypeOK, DeadType, FailedType
  <2>2. Tombstone(failed[i].inc, TRUE) \in DeadType
    BY <1>3, <2>1, IncFacts, TRUE \in BOOLEAN
  <2> DEFINE t == [Tombstone(failed[i].inc, TRUE) EXCEPT !.unavail = TRUE]
             u == [dead EXCEPT ![i].unavail = TRUE, ![i].will_restart = FALSE]
  <2>3. t \in DeadType
    BY <1>3, <2>2 DEF DeadType
  <2>4. u \in [Ids -> DeadType]
    BY <1>3 DEF TypeOK, InnerTypeOK, DeadType
  <2>5. dead' = u \/ dead' = [dead EXCEPT ![i] = t]
    BY <1>3 DEF MarkTargetUnavailable
  <2> HIDE DEF t, u
  <2>6. dead' \in [Ids -> DeadType]
    BY <1>3, <2>3, <2>4, <2>5 DEF TypeOK, InnerTypeOK
  <2>7. failed' \in [Ids -> FailedType]
    BY <1>3, IncFacts DEF MarkTargetUnavailable, TypeOK, InnerTypeOK
  <2>8. /\ MarkSessionUnavailable(store, i, dead[i].inc) \in StoreType
       /\ SaveSession(store, i, failed[i].inc, TRUE) \in StoreType
    BY <1>3, <2>1, StoreOps, TRUE \in BOOLEAN DEF TypeOK, TaskTypeOK
  <2>9. store' \in StoreType
    BY <1>3, <2>8 DEF MarkTargetUnavailable
  <2>10. ops' \in 0 .. MaxOps
    BY <1>3, ManagerAssumption DEF MarkTargetUnavailable, TypeOK, EnvTypeOK, Op
  <2> QED
    BY <1>3, <2>1, <2>2, <2>3, <2>4, <2>5, <2>6, <2>7, <2>8, <2>9, <2>10
       DEF MarkTargetUnavailable, TInv, NamedTasks, CrNamed, RdNamed, SupNamed, RmNamed,
          DispNamed,
           TypeOK, InnerTypeOK, TaskTypeOK, EnvTypeOK, fleetVars, idVars, lockVars, procVars,
           envVars
<1>4. ASSUME NEW i \in Ids, RemoveBegin(i) PROVE TInv'
  <2>1. [IdleRm EXCEPT !.pc = "lock", !.id = i] \in RemoveType
    BY <1>4, IncFacts DEF RemoveBegin, IdleRm, RemoveType, IdType
  <2>2. rm' \in [Removers -> RemoveType] /\ RmNamed'
    BY <1>4, <2>1 DEF RemoveBegin, TypeOK, TaskTypeOK, NamedTasks, RmNamed, IdleRm
  <2>3. ops' \in 0 .. MaxOps
    BY <1>4, ManagerAssumption DEF RemoveBegin, TypeOK, EnvTypeOK, Op
  <2> QED
    BY <1>4, <2>1, <2>2, <2>3
       DEF RemoveBegin, TInv, NamedTasks, CrNamed, RdNamed, SupNamed, DispNamed,
           TypeOK, InnerTypeOK, TaskTypeOK, EnvTypeOK, fleetVars, idVars, lockVars, procVars,
           envVars
<1>5. ASSUME SweepTick PROVE TInv'
  <2>1. killed' \subseteq Ids
    BY <1>5 DEF SweepTick, TypeOK, InnerTypeOK
  <2>2. termreq' \subseteq Incs
    BY <1>5 DEF SweepTick, TypeOK, InnerTypeOK
  <2>3. ops' \in 0 .. MaxOps
    BY <1>5, ManagerAssumption DEF SweepTick, TypeOK, EnvTypeOK, Op
  <2>4. PICK S \in SUBSET Sweepable : rm' = [rm EXCEPT !["sweep"].expired = S]
    BY <1>5 DEF SweepTick
  <2> DEFINE k == [rm["sweep"] EXCEPT !.expired = S]
  <2>5. k \in RemoveType /\ k.pc = "idle"
    BY <1>5 DEF SweepTick, Sweepable, TypeOK, TaskTypeOK, RemoveType, Removers
  <2>6. rm' = [rm EXCEPT !["sweep"] = k]
    BY <2>4 DEF TypeOK, TaskTypeOK
  <2> HIDE DEF k
  <2>7. rm' \in [Removers -> RemoveType] /\ RmNamed'
    BY <2>5, <2>6 DEF TypeOK, TaskTypeOK, NamedTasks, RmNamed
  <2> QED
    BY <1>5, <2>1, <2>2, <2>3, <2>7
       DEF SweepTick, TInv, NamedTasks, CrNamed, RdNamed, SupNamed, DispNamed,
           TypeOK, InnerTypeOK, TaskTypeOK, EnvTypeOK, fleetVars, idVars, lockVars, procVars,
           envVars
<1>6. ASSUME SweepCheck PROVE TInv'
  <2> DEFINE s == rm["sweep"]
  <2>1. s \in RemoveType /\ s.pc = "idle"
    BY <1>6 DEF SweepCheck, TypeOK, TaskTypeOK, Removers
  <2>2. PICK x \in s.expired :
          rm' = [rm EXCEPT !["sweep"] =
                   IF x \in Sweepable
                     THEN [s EXCEPT !.pc = "lock", !.id = x[1], !.expected = x[2],
                                    !.expired = @ \ {x}]
                     ELSE [s EXCEPT !.expired = @ \ {x}]]
    BY <1>6 DEF SweepCheck
  <2>3. x[1] \in Ids /\ x[2] \in IncType /\ x[1] \in IdType
    BY <2>1 DEF RemoveType, IncType, IdType
  <2> DEFINE k == [s EXCEPT !.pc = "lock", !.id = x[1], !.expected = x[2], !.expired = @ \ {x}]
             l == [s EXCEPT !.expired = @ \ {x}]
  <2>4. k \in RemoveType /\ k.id \in Ids
    BY <2>1, <2>3 DEF RemoveType
  <2>5. l \in RemoveType /\ l.pc = "idle"
    BY <2>1 DEF RemoveType
  <2>6. rm' = [rm EXCEPT !["sweep"] = k] \/ rm' = [rm EXCEPT !["sweep"] = l]
    BY <2>2
  <2> HIDE DEF k, l, s
  <2>7. rm' \in [Removers -> RemoveType] /\ RmNamed'
    BY <2>4, <2>5, <2>6 DEF TypeOK, TaskTypeOK, NamedTasks, RmNamed
  <2> QED
    BY <1>6, <2>7
       DEF SweepCheck, TInv, NamedTasks, CrNamed, RdNamed, SupNamed, DispNamed,
           TypeOK, InnerTypeOK, TaskTypeOK, EnvTypeOK, fleetVars, idVars, lockVars, procVars,
           envVars
<1>7. ASSUME NEW r \in Removers, RemoveLock(r) PROVE TInv'
  <2>1. next_inc \in Incs /\ next_inc' \in 1 .. MaxInc + 1
    BY <1>7, ManagerAssumption DEF RemoveLock, TypeOK, InnerTypeOK, Incs
  <2>2. rm[r] \in RemoveType /\ rm[r].id \in Ids
    BY <1>7 DEF RemoveLock, TypeOK, TaskTypeOK, NamedTasks, RmNamed
  <2> DEFINE k == [rm[r] EXCEPT !.pc = "delete", !.inc = next_inc]
  <2>3. k \in RemoveType /\ k.id \in Ids
    BY <1>7, <2>1, <2>2 DEF RemoveType, IncType
  <2>4. RemoveReturn(r) \/ rm' = [rm EXCEPT ![r] = k]
    BY <1>7 DEF RemoveLock, TypeOK, TaskTypeOK
  <2> HIDE DEF k
  <2>5. rm' \in [Removers -> RemoveType] /\ RmNamed'
    BY <2>3, <2>4, RmReturns DEF TypeOK, TaskTypeOK, NamedTasks, RmNamed
  <2>6. pgate' \in PGateType
    BY <1>7 DEF RemoveLock, TypeOK, TaskTypeOK, PGateType
  <2> QED
    BY <1>7, <2>1, <2>2, <2>3, <2>4, <2>5, <2>6
       DEF RemoveLock, TInv, NamedTasks, CrNamed, RdNamed, SupNamed, DispNamed,
           TypeOK, InnerTypeOK, TaskTypeOK, EnvTypeOK, fleetVars, idVars, lockVars, procVars,
           envVars
<1>8. ASSUME NEW r \in Removers, RemoveDelete(r) PROVE TInv'
  <2>1. rm[r] \in RemoveType /\ rm[r].id \in Ids /\ rm[r].inc \in Nat
    BY <1>8, IncFacts DEF RemoveDelete, TypeOK, TaskTypeOK, NamedTasks, RmNamed, RemoveType
  <2>2. store' \in StoreType
    BY <1>8, <2>1, StoreOps, IncFacts DEF RemoveDelete, TypeOK, TaskTypeOK
  <2>3. rm' \in [Removers -> RemoveType] /\ RmNamed'
    BY <1>8, <2>1 DEF RemoveDelete, TypeOK, TaskTypeOK, NamedTasks, RmNamed, RemoveType
  <2> QED
    BY <1>8, <2>1, <2>2, <2>3
       DEF RemoveDelete, TInv, NamedTasks, CrNamed, RdNamed, SupNamed, DispNamed,
           TypeOK, InnerTypeOK, TaskTypeOK, EnvTypeOK, fleetVars, idVars, lockVars, procVars,
           envVars
<1>9. ASSUME NEW r \in Removers, RemoveDeleteFails(r) PROVE TInv'
  <2>1. rm' \in [Removers -> RemoveType] /\ RmNamed'
    BY <1>9, RmReturns DEF RemoveDeleteFails
  <2>2. pgate' \in PGateType
    BY <1>9 DEF RemoveDeleteFails, TypeOK, TaskTypeOK, PGateType, Removers
  <2>3. ops' \in 0 .. MaxOps
    BY <1>9, ManagerAssumption DEF RemoveDeleteFails, TypeOK, EnvTypeOK, Op
  <2> QED
    BY <1>9, <2>1, <2>2, <2>3
       DEF RemoveDeleteFails, TInv, NamedTasks, CrNamed, RdNamed, SupNamed, DispNamed,
           TypeOK, InnerTypeOK, TaskTypeOK, EnvTypeOK, fleetVars, idVars, lockVars, procVars,
           envVars
<1>10. ASSUME NEW r \in Removers, RemoveEvict(r) PROVE TInv'
  <2>1. rm[r].id \in Ids
    BY <1>10 DEF RemoveEvict, NamedTasks, RmNamed
  <2>2. fleet' \in FleetType
    BY <1>10, FleetOps, 0 \in Nat DEF RemoveEvict, TypeOK, InnerTypeOK
  <2>3. /\ live' \in [Ids -> IncType] /\ pending' \in [Ids -> IncType]
       /\ dead' \in [Ids -> DeadType] /\ failed' \in [Ids -> FailedType]
    BY <1>10, IncFacts DEF RemoveEvict, TypeOK, InnerTypeOK
  <2>4. killed' \subseteq Ids /\ terminated' \subseteq Incs /\ stopped' \subseteq Incs
    BY <1>10, <2>1 DEF RemoveEvict, Terminate, Stopped, TypeOK, InnerTypeOK, EnvTypeOK,
       IncType, DeadType
  <2>5. rm' \in [Removers -> RemoveType] /\ RmNamed'
    BY <1>10, RmReturns DEF RemoveEvict
  <2>6. pgate' \in PGateType
    BY <1>10 DEF RemoveEvict, TypeOK, TaskTypeOK, PGateType, Removers
  <2> QED
    BY <1>10, <2>1, <2>2, <2>3, <2>4, <2>5, <2>6
       DEF RemoveEvict, TInv, NamedTasks, CrNamed, RdNamed, SupNamed, DispNamed,
           TypeOK, InnerTypeOK, TaskTypeOK, EnvTypeOK, fleetVars, idVars, lockVars, procVars,
           envVars
<1> QED
  BY <1>1, <1>2, <1>3, <1>4, <1>5, <1>6, <1>7, <1>8, <1>9, <1>10 DEF RemoveStep

\* The start and the end of a disposal are typed.
LEMMA DisposeGateTypes ==
    ASSUME TypeOK, NEW final \in BOOLEAN, DisposeGate(final)
    PROVE  gate' \in GateType /\ disp' \in DisposeType /\ DispNamed'
<1>1. gate' \in GateType
  BY DEF DisposeGate, TypeOK, TaskTypeOK, GateType
<1>2. disp' \in DisposeType /\ DispNamed'
  BY IncFacts DEF DisposeGate, IdleDisp, DisposeType, DispNamed, IdType
<1> QED
  BY <1>1, <1>2

\* A disposal that returns leaves everything it held typed.
LEMMA DisposeReturnTypes ==
    ASSUME TypeOK, DisposeReturn
    PROVE  disp' \in DisposeType /\ DispNamed' /\ gate' \in GateType /\ pgate' \in PGateType
<1>1. gate' \in GateType /\ pgate' \in PGateType
  BY DEF DisposeReturn, TypeOK, TaskTypeOK, GateType, PGateType
<1>2. disp' \in DisposeType /\ DispNamed'
  BY IncFacts DEF DisposeReturn, IdleDisp, DisposeType, DispNamed, IdType
<1> QED
  BY <1>1, <1>2

\* Every step of a disposal, a handoff and a shutdown keeps the types and the
\* names.
LEMMA DisposeTypes ==
    ASSUME TInv
    PROVE  /\ DisposeBegin \/ DisposeStep \/ DisposeRemoveFails => TInv'
           /\ TryClaimHandoff \/ TryClaimForcedHandoff \/ TryClaimAgentHandoff \/ Release => TInv'
           /\ StopAll \/ Shutdown \/ JoinReaders => TInv'
<1> USE DEF TInv
<1>1. ASSUME DisposeBegin PROVE TInv'
  <2>1. gate' \in GateType /\ disp' \in DisposeType /\ DispNamed'
    BY <1>1, DisposeGateTypes, FALSE \in BOOLEAN DEF DisposeBegin
  <2>2. ops' \in 0 .. MaxOps
    BY <1>1, ManagerAssumption DEF DisposeBegin, TypeOK, EnvTypeOK, Op
  <2> QED
    BY <1>1, <2>1, <2>2
       DEF DisposeBegin, TInv, NamedTasks, CrNamed, RdNamed, SupNamed, RmNamed,
           TypeOK, InnerTypeOK, TaskTypeOK, EnvTypeOK, fleetVars, idVars, lockVars, procVars,
           envVars
<1>2. ASSUME DisposeMark PROVE TInv'
  <2>1. disp \in DisposeType /\ disp.closing \in BOOLEAN
    BY <1>2 DEF TypeOK, TaskTypeOK, DisposeType
  <2>2. fleet' \in {MarkClosing(fleet, TRUE), MarkDisposing(fleet, TRUE)}
    BY <1>2 DEF DisposeMark
  <2>3. fleet' \in FleetType
    BY <1>2, <2>2, FleetFlagOps, TRUE \in BOOLEAN DEF TypeOK, InnerTypeOK
  <2>4. generation' \in Nat /\ generation \in Nat /\ closing' \in BOOLEAN
    BY <1>2, <2>1 DEF DisposeMark, TypeOK, InnerTypeOK
  <2>5. Identities \in SUBSET (Ids \X Incs)
    BY <1>2 DEF Identities
  <2>6. disp' \in DisposeType /\ DispNamed'
    BY <1>2, <2>1, <2>4, <2>5 DEF DisposeMark, DisposeType, DispNamed
  <2>7. pgate' \in PGateType
    BY <1>2 DEF DisposeMark, TypeOK, TaskTypeOK, PGateType, Removers
  <2> QED
    BY <1>2, <2>1, <2>2, <2>3, <2>4, <2>5, <2>6, <2>7
       DEF DisposeMark, TInv, NamedTasks, CrNamed, RdNamed, SupNamed, RmNamed,
           TypeOK, InnerTypeOK, TaskTypeOK, EnvTypeOK, fleetVars, idVars, lockVars, procVars,
           envVars
<1>3. ASSUME DisposeRemove PROVE TInv'
  <2>1. PICK x \in disp.todo :
          /\ store' = DeleteSession(store, x[1], next_inc)
          /\ disp' = [disp EXCEPT !.pc = "evict", !.todo = @ \ {x}, !.cur = x]
    BY <1>3 DEF DisposeRemove
  <2>2. disp \in DisposeType /\ x \in Ids \X Incs
    BY <2>1 DEF TypeOK, TaskTypeOK, DisposeType
  <2>3. next_inc \in Nat /\ next_inc' \in 1 .. MaxInc + 1
    BY <1>3, ManagerAssumption DEF DisposeRemove, TypeOK, InnerTypeOK
  <2>4. store' \in StoreType
    BY <2>1, <2>3, StoreOps DEF TypeOK, TaskTypeOK
  <2>5. x \in IdType \X IncType
    BY <2>2 DEF IdType, IncType
  <2>6. disp' \in DisposeType /\ DispNamed'
    BY <2>1, <2>2, <2>5 DEF DisposeType, DispNamed
  <2> QED
    BY <1>3, <2>3, <2>4, <2>6
       DEF DisposeRemove, TInv, NamedTasks, CrNamed, RdNamed, SupNamed, RmNamed,
           TypeOK, InnerTypeOK, TaskTypeOK, EnvTypeOK, fleetVars, idVars, lockVars, procVars,
           envVars
<1>4. ASSUME DisposeRemoveFails PROVE TInv'
  <2>1. next_inc' \in 1 .. MaxInc + 1
    BY <1>4, ManagerAssumption DEF DisposeRemoveFails, TypeOK, InnerTypeOK
  <2>2. generation' \in Nat
    BY <1>4 DEF DisposeRemoveFails, TypeOK, InnerTypeOK, TaskTypeOK, DisposeType
  <2>3. disp' \in DisposeType /\ DispNamed' /\ gate' \in GateType /\ pgate' \in PGateType
    BY <1>4, DisposeReturnTypes DEF DisposeRemoveFails
  <2>4. ops' \in 0 .. MaxOps
    BY <1>4, ManagerAssumption DEF DisposeRemoveFails, TypeOK, EnvTypeOK, Op
  <2> QED
    BY <1>4, <2>1, <2>2, <2>3, <2>4
       DEF DisposeRemoveFails, TInv, NamedTasks, CrNamed, RdNamed, SupNamed, RmNamed,
           TypeOK, InnerTypeOK, TaskTypeOK, EnvTypeOK, fleetVars, idVars, lockVars, procVars,
           envVars
<1>5. ASSUME DisposeEvict PROVE TInv'
  <2> DEFINE i == disp.cur[1]
             inc == disp.cur[2]
  <2>1. disp \in DisposeType /\ i \in Ids /\ inc \in Incs
    BY <1>5 DEF DisposeEvict, TypeOK, TaskTypeOK, NamedTasks, DispNamed
  <2>2. fleet' \in {fleet, RemoveAllForId(fleet, i)}
    BY <1>5 DEF DisposeEvict
  <2>3. fleet' \in FleetType
    BY <2>2, FleetOps, FleetTyped, 0 \in Nat
  <2>4. /\ live' \in [Ids -> IncType] /\ pending' \in [Ids -> IncType]
       /\ dead' \in [Ids -> DeadType] /\ failed' \in [Ids -> FailedType]
    BY <1>5, IncFacts DEF DisposeEvict, TypeOK, InnerTypeOK
  <2>5. killed' \subseteq Ids /\ terminated' \subseteq Incs /\ stopped' \subseteq Incs
    BY <1>5, <2>1 DEF DisposeEvict, Terminate, TypeOK, InnerTypeOK, EnvTypeOK
  <2>6. disp' \in DisposeType /\ DispNamed'
    BY <1>5, <2>1, IncFacts DEF DisposeEvict, DisposeType, DispNamed, IdType
  <2> QED
    BY <1>5, <2>1, <2>2, <2>3, <2>4, <2>5, <2>6
       DEF DisposeEvict, TInv, NamedTasks, CrNamed, RdNamed, SupNamed, RmNamed,
           TypeOK, InnerTypeOK, TaskTypeOK, EnvTypeOK, fleetVars, idVars, lockVars, procVars,
           envVars
<1>6. ASSUME DisposeClear PROVE TInv'
  <2>1. /\ live' \in [Ids -> IncType] /\ pending' \in [Ids -> IncType]
       /\ dead' \in [Ids -> DeadType] /\ failed' \in [Ids -> FailedType]
    BY <1>6, IncFacts DEF DisposeClear, TypeOK, InnerTypeOK, NoEntries
  <2>2. /\ killed' \subseteq Ids /\ termreq' \subseteq Incs
       /\ terminated' \subseteq Incs /\ stopped' \subseteq Incs
    BY <1>6 DEF DisposeClear, Terminate, Identities, TypeOK, InnerTypeOK, EnvTypeOK, IncType
  <2>3. disp' \in DisposeType /\ DispNamed'
    BY <1>6 DEF DisposeClear, TypeOK, TaskTypeOK, DisposeType, DispNamed
  <2> QED
    BY <1>6, <2>1, <2>2, <2>3
       DEF DisposeClear, TInv, NamedTasks, CrNamed, RdNamed, SupNamed, RmNamed,
           TypeOK, InnerTypeOK, TaskTypeOK, EnvTypeOK, fleetVars, idVars, lockVars, procVars,
           envVars
<1>7. ASSUME DisposeUnmark PROVE TInv'
  <2>1. fleet' \in {fleet, MarkDisposing(fleet, FALSE)}
    BY <1>7 DEF DisposeUnmark
  <2>2. fleet' \in FleetType
    BY <1>7, <2>1, FleetFlagOps, FALSE \in BOOLEAN DEF TypeOK, InnerTypeOK
  <2>3. phase' \in PhaseType
    BY <1>7 DEF DisposeUnmark, TypeOK, TaskTypeOK, PhaseType
  <2>4. disp' \in DisposeType /\ DispNamed' /\ gate' \in GateType /\ pgate' \in PGateType
    BY <1>7, DisposeReturnTypes DEF DisposeUnmark
  <2> QED
    BY <1>7, <2>1, <2>2, <2>3, <2>4
       DEF DisposeUnmark, TInv, NamedTasks, CrNamed, RdNamed, SupNamed, RmNamed,
           TypeOK, InnerTypeOK, TaskTypeOK, EnvTypeOK, fleetVars, idVars, lockVars, procVars,
           envVars
<1>8. ASSUME TryClaimHandoff \/ TryClaimForcedHandoff \/ TryClaimAgentHandoff PROVE TInv'
  <2>1. fleet' = ClaimHandoff(fleet)
    BY <1>8 DEF TryClaimHandoff, TryClaimForcedHandoff, TryClaimAgentHandoff, Claim
  <2>2. fleet' \in FleetType
    BY <2>1, FleetFlagOps, TRUE \in BOOLEAN DEF TypeOK, InnerTypeOK
  <2>3. ops' \in 0 .. MaxOps
    BY <1>8, ManagerAssumption
       DEF TryClaimHandoff, TryClaimForcedHandoff, TryClaimAgentHandoff, Claim, Op, TypeOK,
          EnvTypeOK
  <2> QED
    BY <1>8, <2>2, <2>3
       DEF TryClaimHandoff, TryClaimForcedHandoff, TryClaimAgentHandoff, Claim, TInv,
          NamedTasks,
           CrNamed, RdNamed, SupNamed, RmNamed, DispNamed,
           TypeOK, InnerTypeOK, TaskTypeOK, EnvTypeOK, fleetVars, idVars, lockVars, procVars,
           envVars
<1>9. ASSUME Release PROVE TInv'
  <2>1. fleet' = ReleaseHandoff(fleet)
    BY <1>9 DEF Release
  <2>2. fleet' \in FleetType
    BY <1>9, <2>1, FleetFlagOps, TRUE \in BOOLEAN DEF TypeOK, InnerTypeOK
  <2> QED
    BY <1>9, <2>1, <2>2
       DEF Release, TInv, NamedTasks, CrNamed, RdNamed, SupNamed, RmNamed, DispNamed,
           TypeOK, InnerTypeOK, TaskTypeOK, EnvTypeOK, fleetVars, idVars, lockVars, procVars,
           envVars
<1>10. ASSUME StopAll PROVE TInv'
  <2>1. fleet' = MarkClosing(fleet, TRUE)
    BY <1>10 DEF StopAll
  <2>2. fleet' \in FleetType
    BY <1>10, <2>1, FleetFlagOps, TRUE \in BOOLEAN DEF TypeOK, InnerTypeOK
  <2>3. /\ pending' \in [Ids -> IncType] /\ failed' \in [Ids -> FailedType]
       /\ atStop' \in [Ids -> IncType]
    BY <1>10, IncFacts DEF StopAll, TypeOK, InnerTypeOK, NoEntries
  <2>4. \A i \in Ids : CurrentInc(i) \in IncType
    BY <1>10 DEF TypeOK, InnerTypeOK, CurrentInc, DeadType, FailedType
  <2>5. killed' \subseteq Ids /\ terminated' \subseteq Incs /\ stopped' \subseteq Incs
    BY <1>10, <2>4 DEF StopAll, Terminate, TypeOK, InnerTypeOK, EnvTypeOK, IncType
  <2>6. phase' \in PhaseType
    BY <1>10 DEF StopAll, TypeOK, TaskTypeOK, PhaseType
  <2>7. ops' \in 0 .. MaxOps
    BY <1>10, ManagerAssumption DEF StopAll, TypeOK, EnvTypeOK, Op
  <2> QED
    BY <1>10, <2>1, <2>2, <2>3, <2>4, <2>5, <2>6, <2>7
       DEF StopAll, TInv, NamedTasks, CrNamed, RdNamed, SupNamed, RmNamed, DispNamed,
           TypeOK, InnerTypeOK, TaskTypeOK, EnvTypeOK, fleetVars, idVars, lockVars, procVars,
           envVars
<1>11. ASSUME Shutdown PROVE TInv'
  <2>1. gate' \in GateType /\ disp' \in DisposeType /\ DispNamed'
    BY <1>11, DisposeGateTypes, TRUE \in BOOLEAN DEF Shutdown
  <2>2. phase' \in PhaseType
    BY <1>11 DEF Shutdown, TypeOK, TaskTypeOK, PhaseType
  <2> QED
    BY <1>11, <2>1, <2>2
       DEF Shutdown, TInv, NamedTasks, CrNamed, RdNamed, SupNamed, RmNamed,
           TypeOK, InnerTypeOK, TaskTypeOK, EnvTypeOK, fleetVars, idVars, lockVars, procVars,
           envVars
<1>12. ASSUME JoinReaders PROVE TInv'
  <2>1. phase' \in PhaseType
    BY <1>12 DEF JoinReaders, TypeOK, TaskTypeOK, PhaseType
  <2> QED
    BY <1>12, <2>1
       DEF JoinReaders, TInv, NamedTasks, CrNamed, RdNamed, SupNamed, RmNamed, DispNamed,
           TypeOK, InnerTypeOK, TaskTypeOK, EnvTypeOK, fleetVars, idVars, lockVars, procVars,
           envVars
<1> QED
  BY <1>1, <1>2, <1>3, <1>4, <1>5, <1>6, <1>7, <1>8, <1>9, <1>10, <1>11, <1>12 DEF DisposeStep

-----------------------------------------------------------------------------
(***************************************************************************)
(* The strengthening.  A permit that is given back must have been counted  *)
(* (PermitsCounted); a disposal fences the gate before it waits for the    *)
(* permits (DisposalFences), so that none is handed out once they are      *)
(* back; a session's reader exists until it is started, because nobody     *)
(* else works under the persistence gate meanwhile (GateHeld, Started).    *)
(***************************************************************************)
DisposalFences == disp.pc # "idle" => gate.disposing

\* The caller has passed CreateAdmit.
CreateIn(c) == cr[c].pc \notin {"idle", "admit"}
SupIn       == sup.pc \in {"start", "unstart", "finish"}
RemoveIn(r) == rm[r].pc \in {"delete", "evict"}
DisposeIn   == disp.pc \in {"remove", "evict", "clear", "unmark"}

\* The persistence gate names whoever works under it.
GateHeld ==
    /\ \A c \in Callers : CreateIn(c) => pgate = "create"
    /\ \A c, d \in Callers : CreateIn(c) /\ CreateIn(d) => c = d
    /\ SupIn => pgate = "supervisor"
    /\ \A r \in Removers : RemoveIn(r) => pgate = r
    /\ DisposeIn => pgate = "dispose"

\* The reader of a session that is about to start its reader thread exists.
Started ==
    /\ \A c \in Callers : cr[c].pc = "start" => rd[cr[c].inc].pc = "starting"
    /\ sup.pc = "start" => rd[sup.new].pc = "starting"

Permits == DisposalFences /\ DisposalIsExclusive

IInv == TInv /\ Permits /\ GateHeld /\ Started

-----------------------------------------------------------------------------
(***************************************************************************)
(* Counting permits                                                        *)
(***************************************************************************)
\* The permit holders are finitely many, so their number is a natural number.
LEMMA HoldersFinite ==
    IsFiniteSet(PermitHolders) /\ Cardinality(PermitHolders) \in Nat
BY FS_Subset, FS_CardinalityType, ManagerAssumption DEF PermitHolders

\* While somebody holds a permit, the gate counts at least one.
LEMMA HolderCounted ==
    ASSUME PermitsCounted,
           SupHoldsPermit \/ \E c \in Callers : CreateHoldsPermit(c)
    PROVE  gate.active > 0
<1>1. ASSUME NEW c \in Callers, CreateHoldsPermit(c) PROVE Cardinality(PermitHolders) # 0
  BY <1>1, HoldersFinite, FS_EmptySet DEF PermitHolders
<1> QED
  BY <1>1, HoldersFinite DEF PermitsCounted

\* A caller that begins or returns changes the number of holders by one; one
\* that moves on does not change it.
LEMMA HoldersChange ==
    ASSUME cr \in [Callers -> CreateType], NEW c \in Callers, NEW k,
           cr' = [cr EXCEPT ![c] = k]
    PROVE  /\ cr[c].pc # "idle" /\ k.pc # "idle" => PermitHolders' = PermitHolders
           /\ cr[c].pc = "idle" /\ k.pc # "idle" =>
                Cardinality(PermitHolders') = Cardinality(PermitHolders) + 1
           /\ cr[c].pc # "idle" /\ k.pc = "idle" =>
                Cardinality(PermitHolders') = Cardinality(PermitHolders) - 1
<1>1. \A d \in Callers : cr'[d] = IF d = c THEN k ELSE cr[d]
  OBVIOUS
<1>2. ASSUME cr[c].pc # "idle", k.pc # "idle" PROVE PermitHolders' = PermitHolders
  BY <1>1, <1>2 DEF PermitHolders, CreateHoldsPermit
<1>3. ASSUME cr[c].pc = "idle", k.pc # "idle"
      PROVE  Cardinality(PermitHolders') = Cardinality(PermitHolders) + 1
  <2>1. PermitHolders' = PermitHolders \union {c} /\ c \notin PermitHolders
    BY <1>1, <1>3 DEF PermitHolders, CreateHoldsPermit
  <2> QED
    BY <2>1, HoldersFinite, FS_AddElement
<1>4. ASSUME cr[c].pc # "idle", k.pc = "idle"
      PROVE  Cardinality(PermitHolders') = Cardinality(PermitHolders) - 1
  <2>1. PermitHolders' = PermitHolders \ {c} /\ c \in PermitHolders
    BY <1>1, <1>4 DEF PermitHolders, CreateHoldsPermit
  <2> QED
    BY <2>1, HoldersFinite, FS_RemoveElement
<1> QED
  BY <1>2, <1>3, <1>4

(***************************************************************************)
(* The three ways a caller or the supervisor takes part in the exclusion:  *)
(* it goes on, it returns, or it has nothing to do with the step           *)
(***************************************************************************)
\* A step that touches no caller, no remover, no disposal and no lock keeps the
\* exclusion, if the supervisor keeps its permit and its gate.
LEMMA OthersStep ==
    ASSUME IInv, UNCHANGED <<cr, rm, disp, gate, pgate>>,
           SupHoldsPermit' = SupHoldsPermit, SupIn' => SupIn
    PROVE  Permits' /\ GateHeld'
<1>1. PermitHolders' = PermitHolders
  BY DEF PermitHolders, CreateHoldsPermit
<1>2. Permits'
  BY <1>1 DEF IInv, Permits, DisposalFences, DisposalIsExclusive, PermitsCounted
<1>3. GateHeld'
  BY DEF IInv, GateHeld, CreateIn, RemoveIn, DisposeIn
<1> QED
  BY <1>2, <1>3

\* A caller that works under the persistence gate goes on.
LEMMA CallerMoves ==
    ASSUME IInv, NEW c \in Callers, CreateIn(c), NEW k, k.pc # "idle",
           cr' = [cr EXCEPT ![c] = k], UNCHANGED <<gate, pgate, sup, rm, disp>>
    PROVE  Permits' /\ GateHeld'
<1>1. cr[c].pc # "idle"
  BY DEF CreateIn
<1>2. PermitHolders' = PermitHolders
  BY <1>1, HoldersChange DEF IInv, TInv, TypeOK, TaskTypeOK
<1>3. Permits'
  BY <1>2 DEF IInv, Permits, DisposalFences, DisposalIsExclusive, PermitsCounted, SupHoldsPermit
<1>4. \A d \in Callers : CreateIn(d)' => CreateIn(d)
  BY DEF CreateIn, IInv, TInv, TypeOK, TaskTypeOK
<1>5. GateHeld'
  BY <1>4 DEF IInv, GateHeld, SupIn, RemoveIn, DisposeIn
<1> QED
  BY <1>3, <1>5

\* A caller returns: it held a permit, and nobody else worked under the gate.
LEMMA CallerReturns ==
    ASSUME IInv, NEW c \in Callers, CreateIn(c) \/ (cr[c].pc = "admit" /\ pgate = "free"),
           CreateReturn(c), UNCHANGED <<sup, rm, disp>>
    PROVE  Permits' /\ GateHeld'
<1>1. cr[c].pc # "idle" /\ cr \in [Callers -> CreateType] /\ gate \in GateType
  BY DEF CreateIn, IInv, TInv, TypeOK, TaskTypeOK
<1>2. Cardinality(PermitHolders') = Cardinality(PermitHolders) - 1
  <2>1. cr' = [cr EXCEPT ![c] = IdleCr] /\ IdleCr.pc = "idle"
    BY DEF CreateReturn, IdleCr
  <2> QED
    BY <1>1, <2>1, HoldersChange
<1>3. gate.active > 0
  BY <1>1, HolderCounted DEF CreateHoldsPermit, IInv, Permits, DisposalIsExclusive
<1>4. gate'.active = gate.active - 1 /\ gate'.disposing = gate.disposing /\ gate.active \in Nat
  BY <1>1 DEF CreateReturn, GateType
<1>5. Permits'
  BY <1>2, <1>3, <1>4, HoldersFinite
     DEF IInv, Permits, DisposalFences, DisposalIsExclusive, PermitsCounted, SupHoldsPermit
<1>6. /\ ~SupIn /\ ~DisposeIn
      /\ \A r \in Removers : ~RemoveIn(r)
      /\ \A d \in Callers \ {c} : ~CreateIn(d)
  BY DEF IInv, GateHeld, Removers
<1>7. \A d \in Callers : ~CreateIn(d)'
  BY <1>1, <1>6 DEF CreateIn, CreateReturn, IdleCr
<1>8. GateHeld'
  BY <1>6, <1>7 DEF GateHeld, SupIn, RemoveIn, DisposeIn
<1> QED
  BY <1>5, <1>8

\* Only a caller inside the gate can be about to start a reader, and only one
\* caller is inside.
LEMMA CallerStarts ==
    ASSUME IInv, NEW c \in Callers, CreateIn(c) \/ (cr[c].pc = "admit" /\ pgate = "free"),
           NEW k, cr' = [cr EXCEPT ![c] = k], sup' = sup,
           k.pc = "start" => rd'[k.inc].pc = "starting"
    PROVE  Started'
<1>1. sup.pc # "start" /\ \A d \in Callers \ {c} : cr[d].pc # "start"
  BY DEF IInv, GateHeld, SupIn, CreateIn
<1>2. cr'[c] = k /\ \A d \in Callers \ {c} : cr'[d] = cr[d]
  BY DEF IInv, TInv, TypeOK, TaskTypeOK
<1> QED
  BY <1>1, <1>2 DEF Started

\* A step that leaves the readers of sessions about to start alone, and no
\* caller and no supervisor newly about to start.
LEMMA StartedKept ==
    ASSUME IInv, cr' = cr, sup' = sup \/ sup'.pc # "start",
           \A n \in Incs : rd[n].pc = "starting" => rd'[n] = rd[n]
    PROVE  Started'
<1>1. \A c \in Callers : cr[c].pc = "start" => cr[c].inc \in Incs
  BY DEF IInv, TInv, NamedTasks, CrNamed
<1>2. sup.pc = "start" => sup.new \in Incs
  BY DEF IInv, TInv, NamedTasks, SupNamed
<1> QED
  BY <1>1, <1>2 DEF IInv, Started

\* The supervisor returns its permit.
LEMMA SupReturns ==
    ASSUME IInv, SupIn \/ (sup.pc = "spawn" /\ pgate = "free"), NEW next,
           next.pc \in {"idle", "failed"},
           SupReturn(next), UNCHANGED <<cr, rm, disp>>
    PROVE  Permits' /\ GateHeld'
<1>1. SupHoldsPermit /\ gate \in GateType
  BY DEF SupIn, SupHoldsPermit, IInv, TInv, TypeOK, TaskTypeOK
<1>2. gate.active > 0
  BY <1>1, HolderCounted DEF IInv, Permits, DisposalIsExclusive
<1>3. gate'.active = gate.active - 1 /\ gate'.disposing = gate.disposing /\ gate.active \in Nat
  BY <1>1 DEF SupReturn, GateType
<1>4. PermitHolders' = PermitHolders /\ ~SupHoldsPermit' /\ ~SupIn'
  BY DEF PermitHolders, CreateHoldsPermit, SupReturn, SupHoldsPermit, SupIn
<1>5. Permits'
  BY <1>1, <1>2, <1>3, <1>4, HoldersFinite
     DEF IInv, Permits, DisposalFences, DisposalIsExclusive, PermitsCounted
<1>6. /\ ~DisposeIn
      /\ \A r \in Removers : ~RemoveIn(r)
      /\ \A d \in Callers : ~CreateIn(d)
  BY DEF IInv, GateHeld, Removers
<1>7. GateHeld'
  BY <1>4, <1>6 DEF GateHeld, CreateIn, RemoveIn, DisposeIn
<1> QED
  BY <1>5, <1>7

-----------------------------------------------------------------------------
(***************************************************************************)
(* Every action keeps the strengthening                                    *)
(***************************************************************************)
\* A request takes a permit, which only an open gate hands out.
LEMMA CreateBegins ==
    ASSUME IInv, NEW c \in Callers, CreateBegin(c)
    PROVE  Permits' /\ GateHeld' /\ Started'
<1>1. PICK k : cr' = [cr EXCEPT ![c] = k] /\ k.pc = "admit"
  <2>1. PICK i \in Ids, p \in Policies, x \in Targets :
          cr' = [cr EXCEPT ![c] = [IdleCr EXCEPT !.pc = "admit", !.id = i, !.policy = p,
                                                 !.target = x]]
    BY DEF CreateBegin
  <2>2. [IdleCr EXCEPT !.pc = "admit", !.id = i, !.policy = p, !.target = x].pc = "admit"
    BY DEF IdleCr
  <2> QED
    BY <2>1, <2>2
<1>2. cr \in [Callers -> CreateType] /\ gate \in GateType
  BY DEF IInv, TInv, TypeOK, TaskTypeOK
<1>3. /\ cr[c].pc = "idle"
      /\ ~gate.disposing
      /\ UNCHANGED <<pgate, rd, sup, rm, disp>>
      /\ gate'.active = gate.active + 1 /\ gate'.disposing = gate.disposing
  BY <1>2 DEF CreateBegin, GateType
<1>4. Cardinality(PermitHolders') = Cardinality(PermitHolders) + 1
  BY <1>1, <1>2, <1>3, HoldersChange
<1>5. Permits'
  BY <1>3, <1>4, HoldersFinite
     DEF IInv, Permits, DisposalFences, DisposalIsExclusive, PermitsCounted, SupHoldsPermit
<1>6. \A d \in Callers : CreateIn(d)' <=> CreateIn(d)
  BY <1>1, <1>2, <1>3 DEF CreateIn
<1>7. GateHeld'
  BY <1>3, <1>6 DEF IInv, GateHeld, SupIn, RemoveIn, DisposeIn
<1>8. Started'
  <2>1. \A d \in Callers : cr'[d] = IF d = c THEN k ELSE cr[d]
    BY <1>1, <1>2
  <2> QED
    BY <1>1, <1>3, <2>1 DEF IInv, Started
<1> QED
  BY <1>5, <1>7, <1>8

\* A caller that is refused gives its permit back; one that is admitted takes
\* the persistence gate while nobody works under it.
LEMMA CreateAdmits ==
    ASSUME IInv, NEW c \in Callers, CreateAdmit(c)
    PROVE  Permits' /\ GateHeld' /\ Started'
<1>1. cr[c].pc = "admit" /\ pgate = "free" /\ UNCHANGED <<rd, sup, rm, disp>>
  BY DEF CreateAdmit
<1>2. cr \in [Callers -> CreateType]
  BY DEF IInv, TInv, TypeOK, TaskTypeOK
<1>3. CASE CreateReturn(c)
  <2>1. Permits' /\ GateHeld'
    BY <1>1, <1>3, CallerReturns
  <2>2. cr' = [cr EXCEPT ![c] = IdleCr] /\ IdleCr.pc # "start"
    BY <1>3 DEF CreateReturn, IdleCr
  <2>3. Started'
    BY <1>1, <2>2, CallerStarts
  <2> QED
    BY <2>1, <2>3
<1>4. CASE cr' = [cr EXCEPT ![c].pc = "evict"] /\ pgate' = "create" /\ gate' = gate
  <2> DEFINE k == [cr[c] EXCEPT !.pc = "evict"]
  <2>1. cr' = [cr EXCEPT ![c] = k] /\ k.pc = "evict"
    BY <1>2, <1>4 DEF CreateType
  <2> HIDE DEF k
  <2>2. PermitHolders' = PermitHolders
    BY <1>1, <1>2, <2>1, HoldersChange
  <2>3. Permits'
    BY <1>1, <1>4, <2>2
       DEF IInv, Permits, DisposalFences, DisposalIsExclusive, PermitsCounted, SupHoldsPermit
  <2>4. /\ ~SupIn /\ ~DisposeIn
        /\ \A r \in Removers : ~RemoveIn(r)
        /\ \A d \in Callers : ~CreateIn(d)
    BY <1>1 DEF IInv, GateHeld, Removers
  <2>5. \A d \in Callers : CreateIn(d)' => d = c
    BY <1>2, <2>1, <2>4 DEF CreateIn
  <2>6. GateHeld'
    BY <1>1, <1>4, <2>4, <2>5 DEF GateHeld, SupIn, RemoveIn, DisposeIn
  <2>7. Started'
    BY <1>1, <2>1, CallerStarts
  <2> QED
    BY <2>3, <2>6, <2>7
<1> QED
  BY <1>3, <1>4 DEF CreateAdmit

\* A caller under the gate, on its way to a place other than the start of the
\* reader thread.
LEMMA CallerGoesOn ==
    ASSUME IInv, NEW c \in Callers, CreateIn(c), NEW k, k.pc \notin {"idle", "start"},
           cr' = [cr EXCEPT ![c] = k], UNCHANGED <<gate, pgate, sup, rm, disp>>
    PROVE  Permits' /\ GateHeld' /\ Started'
BY CallerMoves, CallerStarts

\* A caller under the gate returns.
LEMMA CallerLeaves ==
    ASSUME IInv, NEW c \in Callers, CreateIn(c), CreateReturn(c), UNCHANGED <<sup, rm, disp>>
    PROVE  Permits' /\ GateHeld' /\ Started'
<1>1. cr' = [cr EXCEPT ![c] = IdleCr] /\ IdleCr.pc # "start"
  BY DEF CreateReturn, IdleCr
<1> QED
  BY <1>1, CallerReturns, CallerStarts

\* Every step of a caller under the gate.
LEMMA CreateControl ==
    ASSUME IInv, NEW c \in Callers,
           \/ CreateEvict(c) \/ CreateReserve(c) \/ CreateSpawnFails(c) \/ CreatePublish(c)
           \/ CreateStart(c) \/ CreateStartFails(c) \/ CreateUnstart(c) \/ CreateRekill(c)
           \/ CreateFinish(c)
    PROVE  Permits' /\ GateHeld' /\ Started'
<1> cr \in [Callers -> CreateType] /\ rd \in [Incs -> ReaderType]
  BY DEF IInv, TInv, TypeOK, TaskTypeOK
<1> DEFINE Goal == Permits' /\ GateHeld' /\ Started'
<1>1. ASSUME CreateEvict(c) PROVE Goal
  <2>1. /\ CreateIn(c)
        /\ UNCHANGED <<gate, pgate, sup, rm, disp>>
        /\ cr' = [cr EXCEPT ![c] = [cr[c] EXCEPT !.pc = "reserve", !.retry = dead[cr[c].id].unavail]]
    BY <1>1 DEF CreateEvict, CreateIn, lockVars
  <2>2. [cr[c] EXCEPT !.pc = "reserve", !.retry = dead[cr[c].id].unavail].pc = "reserve"
    BY DEF CreateType
  <2> QED
    BY <2>1, <2>2, CallerGoesOn
<1>2. ASSUME CreateReserve(c) PROVE Goal
  <2>1. CreateIn(c) /\ UNCHANGED <<sup, rm, disp>>
    BY <1>2 DEF CreateReserve, CreateIn
  <2>2. CASE CreateReturn(c)
    BY <2>1, <2>2, CallerLeaves
  <2>3. CASE UNCHANGED lockVars /\ cr' = [cr EXCEPT ![c].pc = "spawn", ![c].inc = next_inc,
                                                    ![c].gen = generation]
    <3>1. cr' = [cr EXCEPT ![c] = [cr[c] EXCEPT !.pc = "spawn", !.inc = next_inc,
                                                !.gen = generation]]
      BY <2>3
    <3>2. [cr[c] EXCEPT !.pc = "spawn", !.inc = next_inc, !.gen = generation].pc = "spawn"
      BY DEF CreateType
    <3> QED
      BY <2>1, <2>3, <3>1, <3>2, CallerGoesOn DEF lockVars
  <2> QED
    BY <1>2, <2>2, <2>3 DEF CreateReserve
<1>3. ASSUME CreateSpawnFails(c) PROVE Goal
  BY <1>3, CallerLeaves DEF CreateSpawnFails, CreateIn
<1>4. ASSUME CreatePublish(c) PROVE Goal
  <2>1. CreateIn(c) /\ UNCHANGED <<sup, rm, disp>> /\ cr[c].inc \in Incs
    BY <1>4 DEF CreatePublish, CreateIn, IInv, TInv, NamedTasks, CrNamed
  <2>2. CASE CreateReturn(c)
    BY <2>1, <2>2, CallerLeaves
  <2>3. CASE /\ UNCHANGED lockVars
             /\ cr' = [cr EXCEPT ![c].pc = "start"]
             /\ rd' = [rd EXCEPT ![cr[c].inc] =
                         [NoReader EXCEPT !.pc = "starting", !.id = cr[c].id, !.gen = cr[c].gen,
                                          !.policy = cr[c].policy, !.target = cr[c].target]]
    <3> DEFINE k == [cr[c] EXCEPT !.pc = "start"]
    <3>1. cr' = [cr EXCEPT ![c] = k] /\ k.pc = "start" /\ k.inc = cr[c].inc
      BY <2>3 DEF CreateType
    <3>2. rd'[cr[c].inc].pc = "starting"
      BY <2>1, <2>3 DEF NoReader
    <3> HIDE DEF k
    <3>3. Permits' /\ GateHeld'
      BY <2>1, <2>3, <3>1, CallerMoves DEF lockVars
    <3>4. Started'
      BY <2>1, <3>1, <3>2, CallerStarts
    <3> QED
      BY <3>3, <3>4
  <2> QED
    BY <1>4, <2>2, <2>3 DEF CreatePublish
<1>5. ASSUME CreateStart(c) PROVE Goal
  <2>1. /\ CreateIn(c) /\ UNCHANGED <<gate, pgate, sup, rm, disp>>
        /\ cr' = [cr EXCEPT ![c] = [cr[c] EXCEPT !.pc = "finish"]]
        /\ [cr[c] EXCEPT !.pc = "finish"].pc = "finish"
    BY <1>5 DEF CreateStart, CreateIn, lockVars, CreateType
  <2> QED
    BY <2>1, CallerGoesOn
<1>6. ASSUME CreateStartFails(c) PROVE Goal
  <2>1. /\ CreateIn(c) /\ UNCHANGED <<gate, pgate, sup, rm, disp>>
        /\ cr' = [cr EXCEPT ![c] = [cr[c] EXCEPT !.pc = "unstart"]]
        /\ [cr[c] EXCEPT !.pc = "unstart"].pc = "unstart"
    BY <1>6 DEF CreateStartFails, CreateIn, lockVars, CreateType
  <2> QED
    BY <2>1, CallerGoesOn
<1>7. ASSUME CreateUnstart(c) PROVE Goal
  <2>1. /\ CreateIn(c) /\ UNCHANGED <<gate, pgate, sup, rm, disp>>
        /\ cr' = [cr EXCEPT ![c] = [cr[c] EXCEPT !.pc = "rekill"]]
        /\ [cr[c] EXCEPT !.pc = "rekill"].pc = "rekill"
    BY <1>7 DEF CreateUnstart, CreateIn, lockVars, CreateType
  <2> QED
    BY <2>1, CallerGoesOn
<1>8. ASSUME CreateRekill(c) PROVE Goal
  BY <1>8, CallerLeaves DEF CreateRekill, CreateIn
<1>9. ASSUME CreateFinish(c) PROVE Goal
  BY <1>9, CallerLeaves DEF CreateFinish, CreateIn
<1> QED
  BY <1>1, <1>2, <1>3, <1>4, <1>5, <1>6, <1>7, <1>8, <1>9

\* A reader's step changes nobody else, and it is not a reader yet to start.
LEMMA ReaderControl ==
    ASSUME IInv, NEW n \in Incs,
           ReaderStep(n) \/ ReaderData(n) \/ NaturalExit(n) \/ ReaderWaitFails(n)
    PROVE  Permits' /\ GateHeld' /\ Started'
<1> rd \in [Incs -> ReaderType]
  BY DEF IInv, TInv, TypeOK, TaskTypeOK
<1> DEFINE Alone == /\ UNCHANGED <<cr, sup, rm, disp, gate, pgate>>
                    /\ rd' = rd \/ (rd[n].pc # "starting" /\ \E r : rd' = [rd EXCEPT ![n] = r])
<1>1. ASSUME NEW code, ReaderExit(n, code) PROVE Alone
  BY <1>1 DEF ReaderExit, lockVars
<1>2. ASSUME KilledExit(n) PROVE Alone
  BY <1>1, <1>2 DEF KilledExit
<1>3. ASSUME NaturalExit(n) PROVE Alone
  BY <1>1, <1>3 DEF NaturalExit
<1>4. ASSUME ReaderData(n) PROVE Alone
  BY <1>4 DEF ReaderData, lockVars, procVars
<1>5. ASSUME ReaderWaitFails(n) PROVE Alone
  BY <1>5 DEF ReaderWaitFails, lockVars
<1>6. ASSUME ReaderPersist(n) PROVE Alone
  BY <1>6 DEF ReaderPersist, lockVars
<1>7. ASSUME ReaderRespawn(n) PROVE Alone
  BY <1>7 DEF ReaderRespawn, lockVars
<1>8. ASSUME ReaderCancel(n) PROVE Alone
  BY <1>8 DEF ReaderCancel, lockVars
<1>9. ASSUME ReaderEmit(n) PROVE Alone
  BY <1>9 DEF ReaderEmit, lockVars
<1>10. Alone
  BY <1>2, <1>3, <1>4, <1>5, <1>6, <1>7, <1>8, <1>9 DEF ReaderStep
<1>11. Permits' /\ GateHeld'
  BY <1>10, OthersStep DEF SupHoldsPermit, SupIn
<1>12. \A m \in Incs : rd[m].pc = "starting" => rd'[m] = rd[m]
  BY <1>10
<1>13. Started'
  BY <1>10, <1>12, StartedKept
<1> QED
  BY <1>11, <1>13

\* Before it holds a permit, the supervisor touches neither gate nor readers.
LEMMA SupQuiet ==
    ASSUME IInv, ~SupHoldsPermit, ~SupHoldsPermit', UNCHANGED <<cr, rd, rm, disp, gate, pgate>>
    PROVE  Permits' /\ GateHeld' /\ Started'
<1>1. ~SupIn' /\ sup'.pc # "start" /\ (SupHoldsPermit' = SupHoldsPermit)
  BY DEF SupHoldsPermit, SupIn
<1>2. Permits' /\ GateHeld'
  BY <1>1, OthersStep
<1>3. Started'
  BY <1>1, StartedKept
<1> QED
  BY <1>2, <1>3

\* Under the gate, the supervisor goes on to a place other than the start.
LEMMA SupGoesOn ==
    ASSUME IInv, SupIn, sup'.pc \in {"unstart", "finish"}, UNCHANGED <<cr, rm, disp, gate, pgate>>
    PROVE  Permits' /\ GateHeld' /\ Started'
<1>1. SupHoldsPermit /\ SupHoldsPermit' /\ SupIn' /\ sup'.pc # "start"
  BY DEF SupIn, SupHoldsPermit
<1>2. \A c \in Callers : cr[c].pc # "start"
  BY DEF IInv, GateHeld, CreateIn
<1>3. Started'
  BY <1>1, <1>2 DEF Started
<1> QED
  BY <1>1, <1>3, OthersStep

\* The supervisor gives its permit back.
LEMMA SupLeaves ==
    ASSUME IInv, SupIn \/ (sup.pc = "spawn" /\ pgate = "free"), NEW next,
           next.pc \in {"idle", "failed"},
           SupReturn(next), UNCHANGED <<cr, rm, disp>>
    PROVE  Permits' /\ GateHeld' /\ Started'
<1>1. Permits' /\ GateHeld'
  BY SupReturns
<1>2. sup'.pc # "start" /\ \A c \in Callers : cr[c].pc # "start"
  BY DEF SupReturn, IInv, GateHeld, CreateIn
<1> QED
  BY <1>1, <1>2 DEF Started

\* Every step of the supervisor.
LEMMA SupControl ==
    ASSUME IInv, SupStep \/ SupTargetFails \/ SupSpawnFails \/ SupStartFails
    PROVE  Permits' /\ GateHeld' /\ Started'
<1> sup \in SupType /\ rd \in [Incs -> ReaderType] /\ gate \in GateType
  BY DEF IInv, TInv, TypeOK, TaskTypeOK
<1> IdleSup.pc = "idle"
  BY DEF IdleSup
<1>0. ASSUME NEW p PROVE [sup EXCEPT !.pc = p].pc = p
  BY DEF SupType
<1> DEFINE Goal == Permits' /\ GateHeld' /\ Started'
<1>1. ASSUME SupReceive PROVE Goal
  <2>1. sup'.pc = "backoff" /\ UNCHANGED <<cr, rd, rm, disp, gate, pgate>> /\ sup.pc = "idle"
    BY <1>1 DEF SupReceive, IdleSup, lockVars
  <2> QED
    BY <2>1, SupQuiet DEF SupHoldsPermit
<1>2. ASSUME SupBackoffOver PROVE Goal
  <2>1. sup'.pc \in {"idle", "validate"} /\ UNCHANGED <<cr, rd, rm, disp, gate, pgate>>
    BY <1>0, <1>2 DEF SupBackoffOver, lockVars
  <2> QED
    BY <1>2, <2>1, SupQuiet DEF SupHoldsPermit, SupBackoffOver
<1>3. ASSUME SupTargetFails PROVE Goal
  <2>1. sup'.pc = "failed" /\ UNCHANGED <<cr, rd, rm, disp, gate, pgate>>
    BY <1>3 DEF SupTargetFails, lockVars, SupType
  <2> QED
    BY <1>3, <2>1, SupQuiet DEF SupHoldsPermit, SupTargetFails
<1>4. ASSUME SupReserve PROVE Goal
  <2>1. sup'.pc \in {"failed", "permit"} /\ UNCHANGED <<cr, rd, rm, disp, gate, pgate>>
    BY <1>4 DEF SupReserve, lockVars, SupType
  <2> QED
    BY <1>4, <2>1, SupQuiet DEF SupHoldsPermit, SupReserve
<1>5. ASSUME SupPermit PROVE Goal
  <2>1. sup.pc = "permit" /\ UNCHANGED <<cr, rd, rm, disp, pgate>>
    BY <1>5 DEF SupPermit
  <2>2. CASE sup' = IdleSup /\ gate' = gate
    BY <2>1, <2>2, SupQuiet DEF SupHoldsPermit
  <2>3. CASE /\ ~gate.disposing
             /\ gate' = [gate EXCEPT !.active = @ + 1]
             /\ sup' = [sup EXCEPT !.pc = "spawn"]
    <3>1. gate'.active = gate.active + 1 /\ gate'.disposing = gate.disposing /\ gate.active \in Nat
      BY <2>3 DEF GateType
    <3>2. /\ ~SupHoldsPermit /\ SupHoldsPermit' /\ ~SupIn' /\ sup'.pc # "start"
          /\ PermitHolders' = PermitHolders
      BY <1>0, <2>1, <2>3 DEF SupHoldsPermit, SupIn, PermitHolders, CreateHoldsPermit
    <3>3. Permits'
      BY <2>1, <2>3, <3>1, <3>2, HoldersFinite
         DEF IInv, Permits, DisposalFences, DisposalIsExclusive, PermitsCounted
    <3>4. GateHeld'
      BY <2>1, <3>2 DEF IInv, GateHeld, CreateIn, RemoveIn, DisposeIn
    <3>5. Started'
      BY <2>1, <3>2, StartedKept
    <3> QED
      BY <3>3, <3>4, <3>5
  <2> QED
    BY <1>5, <2>2, <2>3 DEF SupPermit
<1>6. ASSUME SupSpawnFails PROVE Goal
  <2>1. /\ sup.pc = "spawn" /\ pgate = "free"
        /\ SupReturn([sup EXCEPT !.pc = "failed"])
        /\ UNCHANGED <<cr, rm, disp>>
    BY <1>6 DEF SupSpawnFails
  <2>2. PICK next : next = [sup EXCEPT !.pc = "failed"]
    OBVIOUS
  <2>3. next.pc = "failed" /\ SupReturn(next)
    BY <1>0, <2>1, <2>2
  <2> QED
    BY <2>1, <2>3, SupLeaves
<1>7. ASSUME SupPublish PROVE Goal
  <2>1. sup.pc = "spawn" /\ pgate = "free" /\ UNCHANGED <<cr, rm, disp>> /\ sup.new \in Incs
    BY <1>7 DEF SupPublish, IInv, TInv, NamedTasks, SupNamed
  <2>2. ASSUME NEW next \in {IdleSup, [sup EXCEPT !.pc = "failed"]}, SupReturn(next) PROVE Goal
    <3>1. next.pc \in {"idle", "failed"}
      BY <1>0, <2>2
    <3> QED
      BY <2>1, <2>2, <3>1, SupLeaves
  <2>3. CASE /\ sup' = [sup EXCEPT !.pc = "start"]
             /\ pgate' = "supervisor"
             /\ gate' = gate
             /\ rd' = [rd EXCEPT ![sup.new] =
                         [NoReader EXCEPT !.pc = "starting", !.id = sup.id, !.gen = sup.gen,
                                          !.policy = sup.policy, !.target = sup.target,
                                          !.count = sup.count + 1]]
    <3>1. sup'.pc = "start" /\ sup'.new = sup.new /\ rd'[sup.new].pc = "starting"
      BY <2>1, <2>3 DEF SupType, NoReader
    <3>2. /\ ~DisposeIn
          /\ \A r \in Removers : ~RemoveIn(r)
          /\ \A d \in Callers : ~CreateIn(d)
      BY <2>1 DEF IInv, GateHeld, Removers
    <3>3. SupHoldsPermit /\ SupHoldsPermit' /\ PermitHolders' = PermitHolders
      BY <2>1, <3>1 DEF SupHoldsPermit, PermitHolders, CreateHoldsPermit
    <3>4. Permits'
      BY <2>1, <2>3, <3>3
         DEF IInv, Permits, DisposalFences, DisposalIsExclusive, PermitsCounted
    <3>5. GateHeld'
      BY <2>1, <2>3, <3>2 DEF GateHeld, CreateIn, RemoveIn, DisposeIn
    <3>6. Started'
      BY <2>1, <3>1, <3>2 DEF Started, CreateIn
    <3> QED
      BY <3>4, <3>5, <3>6
  <2> QED
    BY <1>7, <2>2, <2>3 DEF SupPublish
<1>8. ASSUME SupStart PROVE Goal
  <2>1. SupIn /\ sup'.pc = "finish" /\ UNCHANGED <<cr, rm, disp, gate, pgate>>
    BY <1>0, <1>8 DEF SupStart, SupIn, lockVars
  <2> QED
    BY <2>1, SupGoesOn
<1>9. ASSUME SupStartFails PROVE Goal
  <2>1. SupIn /\ sup'.pc = "unstart" /\ UNCHANGED <<cr, rm, disp, gate, pgate>>
    BY <1>0, <1>9 DEF SupStartFails, SupIn, lockVars
  <2> QED
    BY <2>1, SupGoesOn
<1>10. ASSUME SupUnstart PROVE Goal
  <2>1. /\ SupIn
        /\ SupReturn([sup EXCEPT !.pc = "failed"])
        /\ UNCHANGED <<cr, rm, disp>>
    BY <1>10 DEF SupUnstart, SupIn
  <2>2. PICK next : next = [sup EXCEPT !.pc = "failed"]
    OBVIOUS
  <2>3. next.pc = "failed" /\ SupReturn(next)
    BY <1>0, <2>1, <2>2
  <2> QED
    BY <2>1, <2>3, SupLeaves
<1>11. ASSUME SupFinish PROVE Goal
  <2>1. SupIn /\ SupReturn(IdleSup) /\ UNCHANGED <<cr, rm, disp>>
    BY <1>11 DEF SupFinish, SupIn
  <2> QED
    BY <2>1, SupLeaves
<1>12. ASSUME SupFailed PROVE Goal
  <2>1. sup'.pc = "idle" /\ UNCHANGED <<cr, rd, rm, disp, gate, pgate>>
    BY <1>12 DEF SupFailed, lockVars
  <2> QED
    BY <1>12, <2>1, SupQuiet DEF SupHoldsPermit, SupFailed
<1> QED
  BY <1>1, <1>2, <1>3, <1>4, <1>5, <1>6, <1>7, <1>8, <1>9, <1>10, <1>11, <1>12 DEF SupStep

\* Requests touch no permit; a removal works under the gate it has taken.
LEMMA RequestControl ==
    ASSUME IInv,
           \/ \E i \in Ids : Kill(i) \/ MarkTargetUnavailable(i) \/ RemoveBegin(i)
           \/ \E i \in Ids, inc \in Incs : RequestTermination(i, inc)
           \/ SweepTick \/ SweepCheck
           \/ \E r \in Removers : RemoveStep(r) \/ RemoveDeleteFails(r)
    PROVE  Permits' /\ GateHeld' /\ Started'
<1> rm \in [Removers -> RemoveType]
  BY DEF IInv, TInv, TypeOK, TaskTypeOK
<1> DEFINE Goal == Permits' /\ GateHeld' /\ Started'
<1>1. ASSUME UNCHANGED <<cr, rd, sup, disp, gate>>, GateHeld' PROVE Goal
  <2>1. PermitHolders' = PermitHolders
    BY <1>1 DEF PermitHolders, CreateHoldsPermit
  <2>2. Permits'
    BY <1>1, <2>1
       DEF IInv, Permits, DisposalFences, DisposalIsExclusive, PermitsCounted, SupHoldsPermit
  <2>3. Started'
    BY <1>1, StartedKept
  <2> QED
    BY <1>1, <2>2, <2>3
<1>2. ASSUME UNCHANGED <<cr, rd, sup, rm, disp, gate, pgate>> PROVE Goal
  BY <1>1, <1>2 DEF IInv, GateHeld, CreateIn, SupIn, RemoveIn, DisposeIn
<1>3. ASSUME NEW i \in Ids, Kill(i) PROVE Goal
  BY <1>2, <1>3 DEF Kill, lockVars, procVars
<1>4. ASSUME NEW i \in Ids, MarkTargetUnavailable(i) PROVE Goal
  BY <1>2, <1>4 DEF MarkTargetUnavailable, lockVars, procVars
<1>5. ASSUME NEW i \in Ids, NEW inc \in Incs, RequestTermination(i, inc) PROVE Goal
  BY <1>2, <1>5 DEF RequestTermination, lockVars, procVars
<1>6. ASSUME UNCHANGED <<cr, rd, sup, disp, gate, pgate>>,
             \A r \in Removers : RemoveIn(r)' => RemoveIn(r)
      PROVE  Goal
  BY <1>1, <1>6 DEF IInv, GateHeld, CreateIn, SupIn, DisposeIn
<1>7. ASSUME NEW i \in Ids, RemoveBegin(i) PROVE Goal
  <2>1. UNCHANGED <<cr, rd, sup, disp, gate, pgate>>
    BY <1>7 DEF RemoveBegin, lockVars
  <2>2. \A r \in Removers : rm'[r].pc \in {rm[r].pc, "lock"}
    BY <1>7 DEF RemoveBegin, IdleRm
  <2> QED
    BY <1>6, <2>1, <2>2 DEF RemoveIn
<1>8. ASSUME SweepTick PROVE Goal
  <2>1. UNCHANGED <<cr, rd, sup, disp, gate, pgate>>
    BY <1>8 DEF SweepTick, lockVars
  <2>2. \A r \in Removers : rm'[r].pc = rm[r].pc
    BY <1>8 DEF SweepTick, RemoveType
  <2> QED
    BY <1>6, <2>1, <2>2 DEF RemoveIn
<1>9. ASSUME SweepCheck PROVE Goal
  <2>1. UNCHANGED <<cr, rd, sup, disp, gate, pgate>>
    BY <1>9 DEF SweepCheck, lockVars
  <2>2. \A r \in Removers : rm'[r].pc \in {rm[r].pc, "lock"}
    BY <1>9 DEF SweepCheck, RemoveType
  <2> QED
    BY <1>6, <2>1, <2>2 DEF RemoveIn
<1>10. ASSUME NEW r \in Removers, RemoveLock(r) PROVE Goal
  <2>1. pgate = "free" /\ UNCHANGED <<cr, rd, sup, disp, gate>>
    BY <1>10 DEF RemoveLock
  <2>2. /\ ~SupIn /\ ~DisposeIn
        /\ \A s \in Removers : ~RemoveIn(s)
        /\ \A d \in Callers : ~CreateIn(d)
    BY <2>1 DEF IInv, GateHeld, Removers
  <2>3. \A s \in Removers : RemoveIn(s)' => pgate' = s
    BY <1>10, <2>2 DEF RemoveLock, RemoveIn, RemoveReturn, IdleRm
  <2> QED
    BY <1>1, <2>1, <2>2, <2>3 DEF GateHeld, CreateIn, SupIn, DisposeIn
<1>11. ASSUME NEW r \in Removers, RemoveDelete(r) PROVE Goal
  <2>1. UNCHANGED <<cr, rd, sup, disp, gate, pgate>>
    BY <1>11 DEF RemoveDelete, lockVars
  <2>2. \A s \in Removers : RemoveIn(s)' => RemoveIn(s)
    BY <1>11 DEF RemoveDelete, RemoveIn, RemoveType
  <2> QED
    BY <1>6, <2>1, <2>2
<1>12. ASSUME NEW r \in Removers, RemoveIn(r), RemoveReturn(r), pgate' = "free",
              UNCHANGED <<cr, rd, sup, disp, gate>>
       PROVE  Goal
  <2>1. /\ ~SupIn /\ ~DisposeIn
        /\ \A s \in Removers \ {r} : ~RemoveIn(s)
        /\ \A d \in Callers : ~CreateIn(d)
    BY <1>12 DEF IInv, GateHeld, Removers
  <2>2. \A s \in Removers : ~RemoveIn(s)'
    BY <1>12, <2>1 DEF RemoveIn, RemoveReturn, IdleRm
  <2> QED
    BY <1>1, <1>12, <2>1, <2>2 DEF GateHeld, CreateIn, SupIn, DisposeIn
<1>13. ASSUME NEW r \in Removers, RemoveEvict(r) PROVE Goal
  BY <1>12, <1>13 DEF RemoveEvict, RemoveIn
<1>14. ASSUME NEW r \in Removers, RemoveDeleteFails(r) PROVE Goal
  BY <1>12, <1>14 DEF RemoveDeleteFails, RemoveIn
<1> QED
  BY <1>3, <1>4, <1>5, <1>9, <1>7, <1>8, <1>10, <1>11, <1>13, <1>14 DEF RemoveStep

\* A disposal fences the gate, waits for the permits and works under the
\* persistence gate; claims and the phases of a shutdown touch neither.
LEMMA DisposeControl ==
    ASSUME IInv,
           \/ DisposeBegin \/ DisposeStep \/ DisposeRemoveFails
           \/ TryClaimHandoff \/ TryClaimForcedHandoff \/ TryClaimAgentHandoff \/ Release
           \/ StopAll \/ Shutdown \/ JoinReaders
    PROVE  Permits' /\ GateHeld' /\ Started'
<1> gate \in GateType /\ disp \in DisposeType
  BY DEF IInv, TInv, TypeOK, TaskTypeOK
<1> DEFINE Goal == Permits' /\ GateHeld' /\ Started'
<1>1. ASSUME UNCHANGED <<cr, rd, sup, rm>>, gate'.active = gate.active,
             DisposalFences', DisposeIn' => gate.active = 0, GateHeld'
      PROVE  Goal
  <2>1. PermitHolders' = PermitHolders
    BY <1>1 DEF PermitHolders, CreateHoldsPermit
  <2>2. Permits'
    BY <1>1, <2>1 DEF IInv, Permits, DisposalIsExclusive, PermitsCounted, SupHoldsPermit, DisposeIn
  <2>3. Started'
    BY <1>1, StartedKept
  <2> QED
    BY <1>1, <2>2, <2>3
<1>2. ASSUME UNCHANGED <<cr, rd, sup, rm, gate, pgate>>,
             disp'.pc = disp.pc \/ (DisposeIn /\ DisposeIn')
      PROVE  Goal
  <2>1. DisposalFences' /\ (DisposeIn' => gate.active = 0)
    BY <1>2 DEF IInv, Permits, DisposalFences, DisposalIsExclusive, DisposeIn
  <2>2. GateHeld'
    BY <1>2 DEF IInv, GateHeld, CreateIn, SupIn, RemoveIn, DisposeIn
  <2> QED
    BY <1>1, <1>2, <2>1, <2>2
<1>3. ASSUME NEW final \in BOOLEAN, DisposeGate(final), UNCHANGED <<cr, rd, sup, rm, pgate>>
      PROVE  Goal
  <2>1. gate'.active = gate.active /\ gate'.disposing /\ disp'.pc = "drain"
    BY <1>3 DEF DisposeGate, GateType, IdleDisp
  <2>2. GateHeld'
    BY <1>3, <2>1 DEF IInv, GateHeld, CreateIn, SupIn, RemoveIn, DisposeIn
  <2> QED
    BY <1>1, <1>3, <2>1, <2>2 DEF DisposalFences, DisposeIn
<1>4. ASSUME DisposeIn, DisposeReturn, UNCHANGED <<cr, rd, sup, rm>> PROVE Goal
  <2>1. gate'.active = gate.active /\ disp'.pc = "idle"
    BY <1>4 DEF DisposeReturn, GateType, IdleDisp
  <2>2. /\ ~SupIn
        /\ \A r \in Removers : ~RemoveIn(r)
        /\ \A d \in Callers : ~CreateIn(d)
    BY <1>4 DEF IInv, GateHeld, Removers
  <2>3. GateHeld'
    BY <1>4, <2>1, <2>2 DEF GateHeld, CreateIn, SupIn, RemoveIn, DisposeIn
  <2> QED
    BY <1>1, <1>4, <2>1, <2>3 DEF DisposalFences, DisposeIn
<1>5. ASSUME DisposeBegin PROVE Goal
  BY <1>3, <1>5 DEF DisposeBegin
<1>6. ASSUME Shutdown PROVE Goal
  BY <1>3, <1>6 DEF Shutdown
<1>7. ASSUME DisposeMark PROVE Goal
  <2>1. /\ pgate = "free" /\ pgate' = "dispose" /\ gate.active = 0 /\ disp.pc = "drain"
        /\ disp'.pc \in {"clear", "remove"}
        /\ UNCHANGED <<cr, rd, sup, rm, gate>>
    BY <1>7 DEF DisposeMark, DisposeType
  <2>2. /\ ~SupIn
        /\ \A r \in Removers : ~RemoveIn(r)
        /\ \A d \in Callers : ~CreateIn(d)
    BY <2>1 DEF IInv, GateHeld, Removers
  <2>3. GateHeld'
    BY <2>1, <2>2 DEF GateHeld, CreateIn, SupIn, RemoveIn, DisposeIn
  <2>4. DisposalFences'
    BY <2>1 DEF DisposalFences, IInv, Permits
  <2> QED
    BY <1>1, <2>1, <2>3, <2>4
<1>8. ASSUME DisposeRemove PROVE Goal
  <2>1. PICK x \in disp.todo : disp' = [disp EXCEPT !.pc = "evict", !.todo = @ \ {x}, !.cur = x]
    BY <1>8 DEF DisposeRemove
  <2>2. DisposeIn /\ DisposeIn' /\ UNCHANGED <<cr, rd, sup, rm, gate, pgate>>
    BY <1>8, <2>1 DEF DisposeRemove, DisposeIn, DisposeType, lockVars
  <2> QED
    BY <1>2, <2>2
<1>9. ASSUME DisposeRemoveFails PROVE Goal
  BY <1>4, <1>9 DEF DisposeRemoveFails, DisposeIn
<1>10. ASSUME DisposeEvict PROVE Goal
  <2>1. DisposeIn /\ DisposeIn' /\ UNCHANGED <<cr, rd, sup, rm, gate, pgate>>
    BY <1>10 DEF DisposeEvict, DisposeIn, DisposeType, lockVars
  <2> QED
    BY <1>2, <2>1
<1>11. ASSUME DisposeClear PROVE Goal
  <2>1. DisposeIn /\ DisposeIn' /\ UNCHANGED <<cr, rd, sup, rm, gate, pgate>>
    BY <1>11 DEF DisposeClear, DisposeIn, DisposeType, lockVars
  <2> QED
    BY <1>2, <2>1
<1>12. ASSUME DisposeUnmark PROVE Goal
  BY <1>4, <1>12 DEF DisposeUnmark, DisposeIn
<1>13. ASSUME UNCHANGED <<cr, rd, sup, rm, gate, pgate, disp>> PROVE Goal
  BY <1>2, <1>13
<1>14. ASSUME TryClaimHandoff \/ TryClaimForcedHandoff \/ TryClaimAgentHandoff PROVE Goal
  BY <1>13, <1>14 DEF TryClaimHandoff, TryClaimForcedHandoff, TryClaimAgentHandoff, Claim,
                      lockVars, procVars
<1>15. ASSUME Release PROVE Goal
  BY <1>13, <1>15 DEF Release, lockVars, procVars
<1>16. ASSUME StopAll PROVE Goal
  BY <1>13, <1>16 DEF StopAll, lockVars
<1>17. ASSUME JoinReaders PROVE Goal
  BY <1>13, <1>17 DEF JoinReaders, lockVars
<1> QED
  BY <1>5, <1>6, <1>7, <1>8, <1>9, <1>10, <1>11, <1>12, <1>14, <1>15, <1>16, <1>17
     DEF DisposeStep

-----------------------------------------------------------------------------
(***************************************************************************)
(* The inductive invariant                                                 *)
(***************************************************************************)
\* The manager starts with nothing running and nobody in.
LEMMA InitIInv == Init => IInv
<1> SUFFICES ASSUME Init PROVE IInv
  OBVIOUS
<1>1. InnerTypeOK
  <2>1. NoEntries \in [Ids -> IncType]
    BY IncFacts DEF NoEntries
  <2>2. next_inc \in 1 .. MaxInc + 1
    BY ManagerAssumption DEF Init
  <2>3. fleet \in FleetType
    BY NewFleetType DEF Init
  <2> QED
    BY <2>1, <2>2, <2>3, IncFacts DEF Init, InnerTypeOK
<1>2. TaskTypeOK
  <2>1. IdleCr \in CreateType /\ IdleSup \in SupType /\ NoReader \in ReaderType
    BY IncFacts
       DEF IdleCr, CreateType, IdleSup, SupType, NoReader, ReaderType, IdType, PolicyType
  <2>2. IdleDisp \in DisposeType
    BY IncFacts DEF IdleDisp, DisposeType, IdType
  <2>3. EmptyStore \in StoreType
    BY ManagerAssumption DEF EmptyStore, StoreType, NoRow
  <2> QED
    BY <2>1, <2>2, <2>3, IdleRmType
       DEF Init, TaskTypeOK, GateType, PGateType, PhaseType
<1>3. EnvTypeOK
  BY NoEntriesType, IncFacts, ManagerAssumption DEF Init, EnvTypeOK, NoEntries, IncType
<1>4. NamedTasks
  BY DEF Init, NamedTasks, CrNamed, RdNamed, SupNamed, RmNamed, DispNamed, IdleCr, NoReader,
         IdleSup, IdleRm, IdleDisp
<1>5. Permits
  <2>1. PermitHolders = {} /\ ~SupHoldsPermit
    BY DEF Init, PermitHolders, CreateHoldsPermit, SupHoldsPermit, IdleCr, IdleSup
  <2> QED
    BY <2>1, FS_EmptySet
       DEF Init, Permits, DisposalFences, DisposalIsExclusive, PermitsCounted, IdleDisp
<1>6. GateHeld /\ Started
  BY DEF Init, GateHeld, Started, CreateIn, SupIn, RemoveIn, DisposeIn, IdleCr, IdleSup, IdleRm,
         IdleDisp
<1> QED
  BY <1>1, <1>2, <1>3, <1>4, <1>5, <1>6 DEF IInv, TInv, TypeOK

\* Every step keeps the invariant.
LEMMA NextIInv == IInv /\ [Next]_vars => IInv'
<1> SUFFICES ASSUME IInv, [Next]_vars PROVE IInv'
  OBVIOUS
<1> USE DEF IInv
<1>1. ASSUME NEW c \in Callers, CreateHoldsPermit(c) PROVE gate.active > 0
  BY <1>1, HolderCounted DEF Permits, DisposalIsExclusive
<1>2. ASSUME SupHoldsPermit PROVE gate.active > 0
  BY <1>2, HolderCounted DEF Permits, DisposalIsExclusive
<1>3. ASSUME NEW c \in Callers,
             CreateBegin(c) \/ CreateStep(c) \/ CreateSpawnFails(c) \/ CreateStartFails(c)
      PROVE  IInv'
  <2>1. Permits' /\ GateHeld' /\ Started'
    BY <1>3, CreateBegins, CreateAdmits, CreateControl DEF CreateStep
  <2>2. CASE CreateBegin(c) \/ CreateEvict(c) \/ CreateStartFails(c) \/ CreateUnstart(c)
    BY <2>1, <2>2, CreateTypes
  <2>3. CASE CreateStart(c)
    <3>1. cr[c].pc = "start"
      BY <2>3 DEF CreateStart
    <3>2. rd[cr[c].inc].id \in Ids
      BY <3>1 DEF Started, TInv, NamedTasks, CrNamed, RdNamed
    <3> QED
      BY <2>1, <2>3, <3>2, CreateTypes
  <2>4. CASE \/ CreateAdmit(c) \/ CreateReserve(c) \/ CreateSpawnFails(c)
             \/ CreatePublish(c) \/ CreateRekill(c) \/ CreateFinish(c)
    <3>1. CreateHoldsPermit(c)
      BY <2>4 DEF CreateAdmit, CreateReserve, CreateSpawnFails, CreatePublish, CreateRekill,
                  CreateFinish, CreateHoldsPermit
    <3> QED
      BY <1>1, <2>1, <2>4, <3>1, CreateTypes
  <2> QED
    BY <1>3, <2>2, <2>3, <2>4 DEF CreateStep
<1>4. ASSUME NEW n \in Incs,
             ReaderStep(n) \/ ReaderData(n) \/ NaturalExit(n) \/ ReaderWaitFails(n)
      PROVE  IInv'
  BY <1>4, ReaderTypes, ReaderControl
<1>5. ASSUME SupStep \/ SupTargetFails \/ SupSpawnFails \/ SupStartFails PROVE IInv'
  <2>1. Permits' /\ GateHeld' /\ Started'
    BY <1>5, SupControl
  <2>2. CASE \/ SupReceive \/ SupBackoffOver \/ SupTargetFails \/ SupReserve \/ SupPermit
             \/ SupStartFails \/ SupFailed
    BY <2>1, <2>2, SupTypes
  <2>3. CASE SupStart
    <3>1. sup.pc = "start"
      BY <2>3 DEF SupStart
    <3>2. rd[sup.new].id \in Ids
      BY <3>1 DEF Started, TInv, NamedTasks, SupNamed, RdNamed
    <3> QED
      BY <2>1, <2>3, <3>2, SupTypes
  <2>4. CASE SupSpawnFails \/ SupPublish \/ SupUnstart \/ SupFinish
    <3>1. SupHoldsPermit
      BY <2>4 DEF SupSpawnFails, SupPublish, SupUnstart, SupFinish, SupHoldsPermit
    <3> QED
      BY <1>2, <2>1, <2>4, <3>1, SupTypes
  <2> QED
    BY <1>5, <2>2, <2>3, <2>4 DEF SupStep
<1>6. ASSUME \/ \E i \in Ids : Kill(i) \/ MarkTargetUnavailable(i) \/ RemoveBegin(i)
             \/ \E i \in Ids, inc \in Incs : RequestTermination(i, inc)
             \/ SweepTick \/ SweepCheck
             \/ \E r \in Removers : RemoveStep(r) \/ RemoveDeleteFails(r)
      PROVE  IInv'
  <2>1. Permits' /\ GateHeld' /\ Started'
    BY <1>6, RequestControl
  <2>2. TInv'
    BY <1>6, RequestTypes
  <2> QED
    BY <2>1, <2>2
<1>7. ASSUME \/ DisposeBegin \/ DisposeStep \/ DisposeRemoveFails
             \/ TryClaimHandoff \/ TryClaimForcedHandoff \/ TryClaimAgentHandoff \/ Release
             \/ StopAll \/ Shutdown \/ JoinReaders
      PROVE  IInv'
  <2>1. Permits' /\ GateHeld' /\ Started'
    BY <1>7, DisposeControl
  <2>2. TInv'
    BY <1>7, DisposeTypes
  <2> QED
    BY <2>1, <2>2
<1>8. ASSUME UNCHANGED vars PROVE IInv'
  <2>1. UNCHANGED <<fleetVars, idVars, lockVars, procVars, envVars, store>>
    BY <1>8 DEF vars
  <2>2. TInv'
    BY <2>1 DEF fleetVars, idVars, lockVars, procVars, envVars, TInv, TypeOK, InnerTypeOK,
                TaskTypeOK, EnvTypeOK, NamedTasks, CrNamed, RdNamed, SupNamed, RmNamed, DispNamed
  <2>3. UNCHANGED <<cr, rd, sup, rm, disp, gate, pgate>>
    BY <2>1 DEF lockVars, procVars
  <2>4. SupHoldsPermit' = SupHoldsPermit /\ (SupIn' => SupIn)
    BY <2>3 DEF SupHoldsPermit, SupIn
  <2> QED
    BY <2>2, <2>3, <2>4, OthersStep, StartedKept
<1> QED
  BY <1>3, <1>4, <1>5, <1>6, <1>7, <1>8 DEF Next

\* Every behaviour of the manager keeps its types: every map holds
\* incarnations, every task is at a place the code has, and the number of
\* permits out never falls below zero.
THEOREM TypeCorrect == Spec => []TypeOK
<1>1. IInv => TypeOK
  BY DEF IInv, TInv
<1> QED
  BY <1>1, InitIInv, NextIInv, PTL DEF Spec

\* The lifecycle gate counts exactly the creates and respawns that hold a
\* permit, and a disposal evicts sessions only while there are none.
THEOREM DisposalExcludes == Spec => []DisposalIsExclusive
<1>1. IInv => DisposalIsExclusive
  BY DEF IInv, Permits
<1> QED
  BY <1>1, InitIInv, NextIInv, PTL DEF Spec

\* At most one create, respawn publication, removal or disposal works under
\* the persistence gate, and the gate names it.
THEOREM GateExcludes == Spec => []GateHeld
<1>1. IInv => GateHeld
  BY DEF IInv
<1> QED
  BY <1>1, InitIInv, NextIInv, PTL DEF Spec

-----------------------------------------------------------------------------
(***************************************************************************)
(* What becomes of an id and of the incarnations under it, for every set   *)
(* of ids and callers and every number of incarnations and requests.       *)
(*                                                                         *)
(* The 55 actions of the manager change the identity of a session (live    *)
(* entry, tombstone, failed replacement, reservation) in 14 ways, the      *)
(* moves below.  Every action is shown to be a move once; each invariant   *)
(* is then shown to be kept by every move.                                 *)
(***************************************************************************)

\* A session that failed to start has its reader until somebody is done with it.
Begun ==
    /\ \A c \in Callers : cr[c].pc \in {"unstart", "rekill"} => rd[cr[c].inc].pc # "none"
    /\ sup.pc = "unstart" => rd[sup.new].pc # "none"

-----------------------------------------------------------------------------
(***************************************************************************)
(* The tasks that have reserved an incarnation and not published it        *)
(***************************************************************************)
CrKept(c) ==
    cr'[c].pc \in {"reserve", "spawn"} =>
        cr[c].pc = cr'[c].pc /\ cr[c].id = cr'[c].id /\ cr[c].inc = cr'[c].inc

SupWaits == sup.pc \in {"permit", "spawn"}

SupKept ==
    SupWaits' => SupWaits /\ sup'.id = sup.id /\ sup'.inc = sup.inc /\ sup'.new = sup.new

TasksKept == SupKept /\ \A c \in Callers : CrKept(c)

\* Reservation n of i is settled by the caller or by the supervisor that holds
\* it, at one of the places P.
SettledByCaller(i, n, P) ==
    /\ SupKept
    /\ \E c \in Callers :
         /\ cr[c].pc \in P /\ cr[c].id = i /\ cr[c].inc = n
         /\ cr'[c].pc \notin {"reserve", "spawn"}
         /\ \A d \in Callers \ {c} : CrKept(d)

SettledBySup(i, n, P) ==
    sup.pc \in P /\ sup.id = i /\ sup.new = n /\ ~SupWaits' /\ cr' = cr

\* A reader stays the reader of its session until it is done.
ReaderKept(n) ==
    /\ rd'[n].pc = "none" <=> rd[n].pc = "none"
    /\ rd'[n].pc # "done" => rd[n].pc # "done" /\ rd'[n].id = rd[n].id

ReadersKept == \A n \in Incs : ReaderKept(n)

(***************************************************************************)
(* The moves                                                               *)
(***************************************************************************)
\* At most the incarnation counter moves.
Rests ==
    /\ next_inc' \in {next_inc, next_inc + 1}
    /\ UNCHANGED <<live, dead, failed, pending, killed, stopped, termreq, lastEvt>>
    /\ TasksKept /\ ReadersKept

\* The reader of n delivers an event of i.
Reports(i, n) ==
    /\ EventIsCurrent(i, n)
    /\ lastEvt' = [lastEvt EXCEPT ![i] = n]
    /\ UNCHANGED <<live, dead, failed, pending, killed, stopped, termreq, next_inc>>
    /\ TasksKept /\ ReadersKept

\* A reservation is given up or done with.
Finishes(i, n) ==
    /\ pending' = FinishReplacement(i, n)
    /\ UNCHANGED <<live, dead, failed, killed, stopped, termreq, lastEvt, next_inc>>
    /\ TasksKept /\ ReadersKept

\* Whatever runs under i is killed, perhaps by the create that comes next.
Kills(i) ==
    /\ \E s \in BOOLEAN : KillInternalImpl(i, s)
    /\ UNCHANGED <<failed, termreq, lastEvt, next_inc>>
    /\ SupKept /\ \A c \in Callers : CrKept(c) \/ (cr'[c].pc = "reserve" /\ cr'[c].id = i)
    /\ ReadersKept

\* i is reserved for the next incarnation, by a create or by the supervisor
\* for the restart its tombstone waits for; or the fleet refuses it.
Reserves(i) ==
    /\ BeginReplacement(i)
    /\ UNCHANGED <<live, dead, killed, stopped, termreq, lastEvt>>
    /\ ReadersKept
    /\ \/ /\ SupKept
          /\ \E c \in Callers :
               /\ CreateIn(c) /\ cr[c].pc = "reserve" /\ cr[c].id = i
               /\ cr'[c].pc # "reserve"
               /\ cr'[c].pc = "spawn" => cr'[c].id = i /\ cr'[c].inc = next_inc
               /\ \A d \in Callers \ {c} : CrKept(d)
       \/ /\ cr' = cr /\ sup.id = i
          /\ sup.pc = "validate" /\ sup'.pc \in {"permit", "failed"}
          /\ RespawnAdmissionIsCurrent(i, sup.inc)
          /\ SupWaits' => sup'.id = i /\ sup'.inc = sup.inc /\ sup'.new = next_inc

\* Reservation n of i failed.
Fails(i, n) ==
    /\ \E t, k \in BOOLEAN : FinishFailedReplacement(i, n, t, k)
    /\ UNCHANGED <<killed, stopped, termreq, lastEvt, next_inc>>
    /\ LET P == {"spawn", "unstart"} IN SettledByCaller(i, n, P) \/ SettledBySup(i, n, P)
    /\ ReadersKept

\* The process of reservation n of i is published.
Publishes(i, n) ==
    /\ ReplacementIsCurrent(i, n)
    /\ live' = [live EXCEPT ![i] = n]
    /\ dead' = [dead EXCEPT ![i] = NoDead]
    /\ killed' = killed \ {i}
    /\ UNCHANGED <<failed, pending, stopped, termreq, lastEvt, next_inc>>
    /\ \/ SettledByCaller(i, n, {"spawn"})
       \/ /\ SettledBySup(i, n, {"spawn"})
          /\ RespawnReplacementIsCurrent(i, sup.inc, n)
          /\ \A c \in Callers : ~CreateIn(c)
    /\ rd'[n].pc = "starting" /\ rd'[n].id = i
    /\ \A m \in Incs \ {n} : ReaderKept(m)

\* The running process n of i exits; its tombstone may ask for a restart.
Exits(i, n) ==
    /\ live[i] = n /\ rd[n].pc = "running" /\ rd[n].id = i
    /\ live' = [live EXCEPT ![i] = NoInc]
    /\ \E w \in BOOLEAN :
         /\ w => i \notin killed /\ n \notin termreq
         /\ dead' = [dead EXCEPT ![i] = [Tombstone(n, rd[n].target) EXCEPT !.will_restart = w]]
    /\ UNCHANGED <<failed, pending, killed, stopped, termreq, lastEvt, next_inc>>
    /\ TasksKept /\ ReadersKept

\* The process of a reader that i has outlived exits.
ExitsLate(i, n) ==
    /\ rd[n].pc = "running" /\ rd[n].id = i /\ live[i] # n
    /\ termreq' = termreq \ {n}
    /\ UNCHANGED <<live, dead, failed, pending, killed, stopped, lastEvt, next_inc>>
    /\ TasksKept /\ ReadersKept

\* The tombstone of i no longer waits for a restart, perhaps because somebody
\* stopped it.
Settles(i) ==
    /\ \E d \in DeadType :
         /\ d.inc = dead[i].inc /\ ~d.will_restart
         /\ d.cancelled => dead[i].cancelled \/ d.inc # NoInc
         /\ dead' = [dead EXCEPT ![i] = d]
    /\ \/ stopped' = stopped
       \/ /\ live[i] = NoInc /\ pending[i] = NoInc
          /\ stopped' = stopped \union {dead[i].inc}
    /\ UNCHANGED <<live, failed, pending, killed, termreq, lastEvt, next_inc>>
    /\ TasksKept /\ ReadersKept

\* The live session of i is asked to terminate.
Signals(i) ==
    /\ live[i] # NoInc
    /\ termreq' = termreq \union {live[i]}
    /\ stopped' = stopped \union {live[i]}
    /\ UNCHANGED <<live, dead, failed, pending, killed, lastEvt, next_inc>>
    /\ TasksKept /\ ReadersKept

\* The failed replacement of i becomes an unavailable identity.
Retains(i) ==
    /\ live[i] = NoInc /\ pending[i] = NoInc /\ dead[i].inc = NoInc /\ failed[i].inc # NoInc
    /\ \A c \in Callers : ~CreateIn(c)
    /\ dead' = [dead EXCEPT ![i] = [Tombstone(failed[i].inc, TRUE) EXCEPT !.unavail = TRUE]]
    /\ failed' = [failed EXCEPT ![i] = NoFailed]
    /\ UNCHANGED <<live, pending, killed, stopped, termreq, lastEvt, next_inc>>
    /\ TasksKept /\ ReadersKept

\* Sessions are removed, disposed of or stopped for good.
Held(i) == {live[i], dead[i].inc, failed[i].inc} \ {NoInc}
Evicts ==
    /\ \A i \in Ids :
         /\ live'[i] \in {live[i], NoInc} /\ dead'[i] \in {dead[i], NoDead}
         /\ failed'[i] \in {failed[i], NoFailed} /\ pending'[i] \in {pending[i], NoInc}
         /\ live'[i] # live[i] \/ dead'[i] # dead[i] => pending'[i] = NoInc
    /\ killed \subseteq killed' /\ stopped \subseteq stopped'
    /\ \A n \in stopped' \ stopped : \E i \in Ids :
         /\ n \in Held(i) /\ pending'[i] = NoInc
         /\ n \in {live'[i], dead'[i].inc} => i \in killed'
    /\ termreq' \subseteq termreq /\ \A n \in termreq \ termreq' : \A i \in Ids : live'[i] # n
    /\ UNCHANGED <<lastEvt, next_inc>>
    /\ TasksKept /\ ReadersKept

\* The sweeper forgets markers nobody needs.
Prunes ==
    /\ killed' \subseteq killed
    /\ \A i \in killed \ killed' : CurrentInc(i) = NoInc /\ pending[i] = NoInc
    /\ termreq' \subseteq termreq /\ \A n \in termreq \ termreq' : \A i \in Ids : live[i] # n
    /\ UNCHANGED <<live, dead, failed, pending, stopped, lastEvt, next_inc>>
    /\ TasksKept /\ ReadersKept

Moves ==
    \/ Rests \/ Evicts \/ Prunes
    \/ \E i \in Ids : Kills(i) \/ Reserves(i) \/ Settles(i) \/ Signals(i) \/ Retains(i)
    \/ \E i \in Ids, n \in Incs :
         \/ Reports(i, n) \/ Finishes(i, n) \/ Fails(i, n) \/ Publishes(i, n)
         \/ Exits(i, n) \/ ExitsLate(i, n)

-----------------------------------------------------------------------------
(***************************************************************************)
(* Every action is a move                                                  *)
(***************************************************************************)
\* What the types say of the variables the moves are about.
LEMMA TypesHere ==
    ASSUME IInv
    PROVE  /\ cr \in [Callers -> CreateType] /\ rd \in [Incs -> ReaderType] /\ sup \in SupType
           /\ live \in [Ids -> IncType] /\ pending \in [Ids -> IncType]
           /\ dead \in [Ids -> DeadType] /\ failed \in [Ids -> FailedType]
           /\ lastEvt \in [Ids -> IncType] /\ next_inc \in Nat
           /\ killed \subseteq Ids /\ stopped \subseteq Incs /\ termreq \subseteq Incs
BY DEF IInv, TInv, TypeOK, InnerTypeOK, TaskTypeOK, EnvTypeOK

\* A caller that does not come to hold a reservation leaves the tasks alone.
LEMMA CallerKept ==
    ASSUME IInv, NEW c \in Callers, NEW k, cr' = [cr EXCEPT ![c] = k]
    PROVE  /\ cr'[c] = k
           /\ \A d \in Callers \ {c} : cr'[d] = cr[d] /\ CrKept(d)
           /\ k.pc \notin {"reserve", "spawn"} => \A d \in Callers : CrKept(d)
BY TypesHere DEF CrKept

\* A supervisor that does not move, or does not come to hold a reservation.
LEMMA SupervisorKept ==
    ASSUME sup' = sup \/ sup'.pc \notin {"permit", "spawn"}
    PROVE  SupKept
BY DEF SupKept, SupWaits

\* Steps that leave the sessions, their tasks and their readers alone.
LEMMA QuietMoves ==
    ASSUME UNCHANGED <<live, dead, failed, pending, killed, stopped, termreq, lastEvt>>,
           next_inc' \in {next_inc, next_inc + 1},
           TasksKept, ReadersKept
    PROVE  Moves
BY DEF Moves, Rests

\* Creates.
LEMMA CreateMoves ==
    ASSUME IInv, Begun, NEW c \in Callers,
           CreateBegin(c) \/ CreateStep(c) \/ CreateSpawnFails(c) \/ CreateStartFails(c)
    PROVE  Moves
<1> cr \in [Callers -> CreateType] /\ rd \in [Incs -> ReaderType]
  BY TypesHere
<1> IdleCr.pc = "idle" /\ NoReader.pc = "none"
  BY DEF IdleCr, NoReader
<1>0. ASSUME cr[c].pc # "idle" PROVE cr[c].id \in Ids
  BY <1>0 DEF IInv, TInv, NamedTasks, CrNamed
<1>01. ASSUME cr[c].pc \in {"spawn", "start", "unstart", "rekill", "finish"} PROVE cr[c].inc \in Incs
  BY <1>01 DEF IInv, TInv, NamedTasks, CrNamed
<1>02. ASSUME CreateReturn(c) PROVE cr'[c] = IdleCr /\ \A d \in Callers : CrKept(d)
  BY <1>02, CallerKept DEF CreateReturn
<1>03. ASSUME rd' = rd PROVE ReadersKept
  BY <1>03 DEF ReadersKept, ReaderKept
<1>1. ASSUME CreateBegin(c) PROVE Moves
  <2>1. PICK k : cr' = [cr EXCEPT ![c] = k] /\ k.pc = "admit"
    <3>1. PICK i \in Ids, p \in Policies, x \in Targets :
          cr' = [cr EXCEPT ![c] = [IdleCr EXCEPT !.pc = "admit", !.id = i, !.policy = p,
                                                 !.target = x]]
      BY <1>1 DEF CreateBegin
    <3>2. [IdleCr EXCEPT !.pc = "admit", !.id = i, !.policy = p, !.target = x].pc = "admit"
      BY DEF IdleCr
    <3> QED
      BY <3>1, <3>2
  <2>2. TasksKept
    BY <1>1, <2>1, CallerKept, SupervisorKept DEF TasksKept, CreateBegin
  <2> QED
    BY <1>1, <1>03, <2>2, QuietMoves DEF CreateBegin, idVars
<1>2. ASSUME CreateAdmit(c) PROVE Moves
  <2>1. \A d \in Callers : CrKept(d)
    <3>1. CASE CreateReturn(c)
      BY <1>02, <3>1
    <3>2. CASE cr' = [cr EXCEPT ![c].pc = "evict"]
      BY <3>2 DEF CreateType, CrKept
    <3> QED
      BY <1>2, <3>1, <3>2 DEF CreateAdmit
  <2>2. TasksKept
    BY <1>2, <2>1, SupervisorKept DEF TasksKept, CreateAdmit
  <2> QED
    BY <1>2, <1>03, <2>2, QuietMoves DEF CreateAdmit, idVars, envVars
<1>3. ASSUME CreateEvict(c) PROVE Moves
  <2>1. cr[c].id \in Ids /\ cr[c].pc = "evict"
    BY <1>0, <1>3 DEF CreateEvict
  <2>2. cr'[c].pc = "reserve" /\ cr'[c].id = cr[c].id /\ \A d \in Callers \ {c} : CrKept(d)
    BY <1>3 DEF CreateEvict, CreateType, CrKept
  <2>3. Kills(cr[c].id)
    BY <1>3, <1>03, <2>2, SupervisorKept DEF CreateEvict, Kills
  <2> QED
    BY <2>1, <2>3 DEF Moves
<1>4. ASSUME CreateReserve(c) PROVE Moves
  <2>1. cr[c].id \in Ids /\ CreateIn(c) /\ cr[c].pc = "reserve"
    BY <1>0, <1>4 DEF CreateReserve, CreateIn
  <2>2. /\ cr'[c].pc # "reserve"
        /\ cr'[c].pc = "spawn" => cr'[c].id = cr[c].id /\ cr'[c].inc = next_inc
        /\ \A d \in Callers \ {c} : CrKept(d)
    <3>1. CASE CreateReturn(c)
      BY <1>02, <3>1
    <3>2. CASE cr' = [cr EXCEPT ![c].pc = "spawn", ![c].inc = next_inc, ![c].gen = generation]
      BY <3>2 DEF CreateType, CrKept
    <3> QED
      BY <1>4, <3>1, <3>2 DEF CreateReserve
  <2>3. Reserves(cr[c].id)
    BY <1>4, <1>03, <2>1, <2>2, SupervisorKept DEF CreateReserve, Reserves, envVars
  <2> QED
    BY <2>1, <2>3 DEF Moves
<1>5. ASSUME CreateSpawnFails(c) PROVE Moves
  <2>1. cr[c].id \in Ids /\ cr[c].inc \in Incs /\ cr[c].pc = "spawn"
        /\ cr[c].target \in BOOLEAN /\ cr[c].retry \in BOOLEAN
    BY <1>0, <1>01, <1>5 DEF CreateSpawnFails, CreateType
  <2>2. SettledByCaller(cr[c].id, cr[c].inc, {"spawn", "unstart"})
    BY <1>5, <1>02, <2>1, SupervisorKept DEF SettledByCaller, CreateSpawnFails
  <2>3. Fails(cr[c].id, cr[c].inc)
    BY <1>5, <1>03, <2>1, <2>2 DEF Fails, CreateSpawnFails
  <2> QED
    BY <2>1, <2>3 DEF Moves
<1>6. ASSUME CreatePublish(c) PROVE Moves
  <2>1. cr[c].id \in Ids /\ cr[c].inc \in Incs /\ cr[c].pc = "spawn" /\ sup' = sup
    BY <1>0, <1>01, <1>6 DEF CreatePublish
  <2>2. CASE CreateReturn(c) /\ UNCHANGED <<live, dead, killed, rd, terminated>>
    BY <1>02, <1>03, <1>6, <2>1, <2>2, SupervisorKept, QuietMoves DEF CreatePublish, TasksKept
  <2>3. CASE /\ ReplacementIsCurrent(cr[c].id, cr[c].inc)
             /\ live' = [live EXCEPT ![cr[c].id] = cr[c].inc]
             /\ dead' = [dead EXCEPT ![cr[c].id] = NoDead]
             /\ killed' = killed \ {cr[c].id}
             /\ rd' = [rd EXCEPT ![cr[c].inc] =
                          [NoReader EXCEPT !.pc = "starting", !.id = cr[c].id, !.gen = cr[c].gen,
                                           !.policy = cr[c].policy, !.target = cr[c].target]]
             /\ cr' = [cr EXCEPT ![c].pc = "start"]
    <3>1. cr'[c].pc = "start" /\ \A d \in Callers \ {c} : CrKept(d)
      BY <2>3 DEF CreateType, CrKept
    <3>2. SettledByCaller(cr[c].id, cr[c].inc, {"spawn"})
      BY <2>1, <3>1, SupervisorKept DEF SettledByCaller
    <3>3. rd'[cr[c].inc].pc = "starting" /\ rd'[cr[c].inc].id = cr[c].id
          /\ \A m \in Incs \ {cr[c].inc} : ReaderKept(m)
      BY <2>1, <2>3 DEF NoReader, ReadersKept, ReaderKept
    <3>4. Publishes(cr[c].id, cr[c].inc)
      BY <1>6, <2>1, <2>3, <3>2, <3>3 DEF Publishes, CreatePublish, SupWaits
    <3> QED
      BY <2>1, <3>4 DEF Moves
  <2> QED
    BY <1>6, <2>2, <2>3 DEF CreatePublish
<1>7. ASSUME CreateStart(c) PROVE Moves
  <2>1. cr[c].pc = "start" /\ cr[c].inc \in Incs /\ rd[cr[c].inc].pc = "starting"
    BY <1>01, <1>7 DEF CreateStart, IInv, Started
  <2>2. ReadersKept
    BY <1>7, <2>1 DEF CreateStart, ReadersKept, ReaderKept, ReaderType
  <2>3. TasksKept
    BY <1>7, SupervisorKept DEF CreateStart, CreateType, CrKept, TasksKept
  <2> QED
    BY <1>7, <2>2, <2>3, QuietMoves DEF CreateStart, idVars, envVars
<1>8. ASSUME CreateStartFails(c) PROVE Moves
  <2>1. TasksKept
    BY <1>8, SupervisorKept DEF CreateStartFails, CreateType, CrKept, TasksKept
  <2> QED
    BY <1>03, <1>8, <2>1, QuietMoves DEF CreateStartFails, idVars
<1>9. ASSUME CreateUnstart(c) PROVE Moves
  <2>1. cr[c].id \in Ids /\ cr[c].inc \in Incs /\ cr[c].pc = "unstart"
        /\ cr[c].target \in BOOLEAN /\ cr[c].retry \in BOOLEAN
    BY <1>0, <1>01, <1>9 DEF CreateUnstart, CreateType
  <2>2. cr'[c].pc = "rekill" /\ \A d \in Callers \ {c} : CrKept(d)
    BY <1>9 DEF CreateUnstart, CreateType, CrKept
  <2>3. SettledByCaller(cr[c].id, cr[c].inc, {"spawn", "unstart"})
    BY <1>9, <2>1, <2>2, SupervisorKept DEF SettledByCaller, CreateUnstart
  <2>4. Fails(cr[c].id, cr[c].inc)
    BY <1>9, <1>03, <2>1, <2>3 DEF Fails, CreateUnstart
  <2> QED
    BY <2>1, <2>4 DEF Moves
<1>10. ASSUME CreateRekill(c) PROVE Moves
  <2>1. cr[c].id \in Ids /\ cr[c].inc \in Incs /\ cr[c].pc = "rekill"
        /\ rd[cr[c].inc].pc # "none"
    BY <1>0, <1>01, <1>10 DEF CreateRekill, Begun
  <2>2. ReadersKept
    BY <1>10, <2>1 DEF CreateRekill, NoReader, ReadersKept, ReaderKept
  <2>3. Kills(cr[c].id)
    BY <1>10, <1>02, <2>2, SupervisorKept DEF CreateRekill, Kills
  <2> QED
    BY <2>1, <2>3 DEF Moves
<1>11. ASSUME CreateFinish(c) PROVE Moves
  <2>1. cr[c].id \in Ids /\ cr[c].inc \in Incs
    BY <1>0, <1>01, <1>11 DEF CreateFinish
  <2>2. Finishes(cr[c].id, cr[c].inc)
    BY <1>11, <1>02, <1>03, SupervisorKept DEF CreateFinish, Finishes, TasksKept, envVars
  <2> QED
    BY <2>1, <2>2 DEF Moves
<1> QED
  BY <1>1, <1>2, <1>3, <1>4, <1>5, <1>6, <1>7, <1>8, <1>9, <1>10, <1>11 DEF CreateStep

\* Every step of a reader thread is a move.
LEMMA ReaderMoves ==
    ASSUME IInv, NEW n \in Incs,
           ReaderStep(n) \/ ReaderData(n) \/ NaturalExit(n) \/ ReaderWaitFails(n)
    PROVE  Moves
<1> rd \in [Incs -> ReaderType] /\ lastEvt \in [Ids -> IncType]
  BY TypesHere
<1> NoReader.pc = "none"
  BY DEF NoReader
<1>0. ASSUME rd[n].pc \notin {"none", "done"} PROVE rd[n].id \in Ids
  BY <1>0 DEF IInv, TInv, NamedTasks, RdNamed
<1>01. ASSUME UNCHANGED <<cr, sup>> PROVE TasksKept
  BY <1>01 DEF TasksKept, SupKept, SupWaits, CrKept
<1>1. ASSUME NEW code, ReaderExit(n, code) PROVE Moves
  <2> DEFINE i == rd[n].id
  <2>1. rd[n].pc = "running" /\ i \in Ids /\ TasksKept
    BY <1>0, <1>01, <1>1 DEF ReaderExit
  <2>2. ReadersKept
    <3> rd[n] \in ReaderType
      OBVIOUS
    <3>0. \A p, b, k : /\ [rd[n] EXCEPT !.pc = p, !.restart = b, !.count = k].pc = p
                       /\ [rd[n] EXCEPT !.pc = p, !.restart = b, !.count = k].id = i
                       /\ [rd[n] EXCEPT !.pc = p].pc = p /\ [rd[n] EXCEPT !.pc = p].id = i
      BY DEF ReaderType
    <3>1. ASSUME live[i] = n PROVE rd'[n].pc = "persist" /\ rd'[n].id = i
      <4> DEFINE w == DecideRestart(rd[n].policy, code,
                                    i \in killed \/ generation # rd[n].gen \/ n \in termreq,
                                    rd[n].count)
                 k == IF code = 0 /\ rd[n].count > 0 THEN 0 ELSE rd[n].count
      <4>1. rd' = [rd EXCEPT ![n] = [rd[n] EXCEPT !.pc = "persist", !.restart = w, !.count = k]]
        BY <1>1, <3>1 DEF ReaderExit, Incs, NoInc
      <4> HIDE DEF w, k
      <4>2. rd'[n] = [rd[n] EXCEPT !.pc = "persist", !.restart = w, !.count = k]
        BY <4>1
      <4> QED
        BY <3>0, <4>2
    <3>2. ASSUME live[i] \notin {NoInc, n} PROVE rd'[n].pc = "done"
      BY <1>1, <3>2 DEF ReaderExit, NoReader
    <3>3. ASSUME live[i] = NoInc
          PROVE  rd'[n].pc \in {"done", "persist", "emit"} /\ (rd'[n].pc # "done" => rd'[n].id = i)
      <4>1. rd' = [rd EXCEPT ![n] =
                     IF suppress[i] > 0 THEN [NoReader EXCEPT !.pc = "done"]
                     ELSE [rd[n] EXCEPT !.pc = IF dead[i].inc = n THEN "persist" ELSE "emit"]]
        BY <1>1, <3>3 DEF ReaderExit, Incs, NoInc
      <4>2. CASE suppress[i] > 0
        BY <4>1, <4>2 DEF NoReader
      <4>3. CASE ~(suppress[i] > 0)
        <5>1. PICK p \in {"persist", "emit"} : rd'[n] = [rd[n] EXCEPT !.pc = p]
          BY <4>1, <4>3
        <5> QED
          BY <3>0, <5>1
      <4> QED
        BY <4>2, <4>3
    <3>4. \A m \in Incs \ {n} : rd'[m] = rd[m]
      BY <1>1 DEF ReaderExit
    <3> QED
      BY <2>1, <3>1, <3>2, <3>3, <3>4 DEF ReadersKept, ReaderKept
  <2>3. UNCHANGED <<failed, pending, killed, next_inc, stopped, lastEvt>>
    BY <1>1 DEF ReaderExit
  <2>4. CASE live[i] = n
    <3>1. PICK w \in BOOLEAN :
            /\ w => i \notin killed /\ n \notin termreq
            /\ dead' = [dead EXCEPT ![i] = [Tombstone(n, rd[n].target) EXCEPT !.will_restart = w]]
      <4> DEFINE w == DecideRestart(rd[n].policy, code,
                                    i \in killed \/ generation # rd[n].gen \/ n \in termreq,
                                    rd[n].count)
      <4>1. w \in BOOLEAN /\ (w => i \notin killed /\ n \notin termreq)
        BY DEF DecideRestart
      <4>2. dead' = [dead EXCEPT ![i] = [Tombstone(n, rd[n].target) EXCEPT !.will_restart = w]]
        BY <1>1, <2>4, IncFacts DEF ReaderExit, Incs, NoInc
      <4> QED
        BY <4>1, <4>2
    <3>2. live' = [live EXCEPT ![i] = NoInc] /\ termreq' = termreq
      BY <1>1, <2>4 DEF ReaderExit, Incs, NoInc
    <3>3. Exits(i, n)
      BY <2>1, <2>2, <2>3, <2>4, <3>1, <3>2 DEF Exits
    <3> QED
      BY <2>1, <3>3 DEF Moves
  <2>5. CASE live[i] \notin {NoInc, n}
    <3>1. termreq' = termreq \ {n} /\ UNCHANGED <<live, dead>>
      BY <1>1, <2>5 DEF ReaderExit
    <3>2. ExitsLate(i, n)
      BY <2>1, <2>2, <2>3, <2>5, <3>1 DEF ExitsLate
    <3> QED
      BY <2>1, <3>2 DEF Moves
  <2>6. CASE live[i] = NoInc
    <3>1. UNCHANGED <<live, dead, termreq>>
      BY <1>1, <2>6 DEF ReaderExit, Incs, NoInc
    <3> QED
      BY <2>1, <2>2, <2>3, <3>1, QuietMoves
  <2> QED
    BY <2>4, <2>5, <2>6
<1>2. ASSUME UNCHANGED <<live, dead, failed, pending, killed, stopped, termreq, next_inc, cr, sup>>,
             rd[n].pc \notin {"none", "done"}, ReadersKept,
             lastEvt' = [lastEvt EXCEPT ![rd[n].id] = IF EventIsCurrent(rd[n].id, n) THEN n ELSE @]
      PROVE  Moves
  <2>1. CASE EventIsCurrent(rd[n].id, n)
    BY <1>0, <1>01, <1>2, <2>1 DEF Moves, Reports
  <2>2. CASE ~EventIsCurrent(rd[n].id, n)
    <3>1. lastEvt' = lastEvt
      BY <1>2, <2>2
    <3> QED
      BY <1>01, <1>2, <3>1, QuietMoves
  <2> QED
    BY <2>1, <2>2
<1>3. ASSUME KilledExit(n) \/ NaturalExit(n) PROVE Moves
  BY <1>1, <1>3 DEF KilledExit, NaturalExit
<1>4. ASSUME ReaderData(n) PROVE Moves
  <2>1. ReadersKept
    BY <1>4 DEF ReaderData, procVars, ReadersKept, ReaderKept
  <2> QED
    BY <1>2, <1>4, <2>1 DEF ReaderData, idVars, procVars
<1>5. ASSUME ReaderEmit(n) PROVE Moves
  <2>1. ReadersKept
    BY <1>5 DEF ReaderEmit, ReadersKept, ReaderKept, NoReader
  <2> QED
    BY <1>2, <1>5, <2>1 DEF ReaderEmit, idVars
<1>6. ASSUME UNCHANGED <<idVars, cr, sup, stopped, lastEvt>>, ReadersKept PROVE Moves
  BY <1>01, <1>6, QuietMoves DEF idVars
<1>7. ASSUME ReaderWaitFails(n) PROVE Moves
  <2>1. ReadersKept
    BY <1>7 DEF ReaderWaitFails, ReadersKept, ReaderKept, NoReader
  <2> QED
    BY <1>6, <1>7, <2>1 DEF ReaderWaitFails
<1>8. ASSUME ReaderPersist(n) PROVE Moves
  <2>1. ReadersKept
    BY <1>8 DEF ReaderPersist, ReadersKept, ReaderKept, ReaderType
  <2> QED
    BY <1>6, <1>8, <2>1 DEF ReaderPersist, envVars
<1>9. ASSUME ReaderRespawn(n) PROVE Moves
  <2>1. ReadersKept
    BY <1>9 DEF ReaderRespawn, ReadersKept, ReaderKept, ReaderType
  <2> QED
    BY <1>6, <1>9, <2>1 DEF ReaderRespawn, envVars
<1>10. ASSUME ReaderCancel(n) PROVE Moves
  <2>1. ReadersKept
    BY <1>10 DEF ReaderCancel, ReadersKept, ReaderKept, ReaderType
  <2> QED
    BY <1>6, <1>10, <2>1 DEF ReaderCancel, envVars
<1> QED
  BY <1>3, <1>4, <1>5, <1>7, <1>8, <1>9, <1>10 DEF ReaderStep

\* Every step of the supervisor is a move.
LEMMA SupMoves ==
    ASSUME IInv, Begun, SupStep \/ SupTargetFails \/ SupSpawnFails \/ SupStartFails
    PROVE  Moves
<1> sup \in SupType /\ rd \in [Incs -> ReaderType]
  BY TypesHere
<1> IdleSup.pc = "idle" /\ NoReader.pc = "none"
  BY DEF IdleSup, NoReader
<1>0. ASSUME sup.pc # "idle" PROVE sup.id \in Ids
  BY <1>0 DEF IInv, TInv, NamedTasks, SupNamed
<1>01. ASSUME sup.pc \in {"permit", "spawn", "start", "unstart", "finish"} PROVE sup.new \in Incs
  BY <1>01 DEF IInv, TInv, NamedTasks, SupNamed
<1>02. ASSUME UNCHANGED cr, SupKept PROVE TasksKept
  BY <1>02 DEF TasksKept, CrKept
<1>03. ASSUME rd' = rd PROVE ReadersKept
  BY <1>03 DEF ReadersKept, ReaderKept
<1>04. \A p : [sup EXCEPT !.pc = p].pc = p
  BY DEF SupType
<1>05. ASSUME UNCHANGED <<idVars, cr, stopped, lastEvt>>, ReadersKept, SupKept PROVE Moves
  BY <1>02, <1>05, QuietMoves DEF idVars
<1>1. ASSUME SupReceive PROVE Moves
  <2>1. sup'.pc = "backoff"
    BY <1>1 DEF SupReceive, IdleSup
  <2> QED
    BY <1>1, <1>03, <1>05, <2>1, SupervisorKept DEF SupReceive, envVars
<1>2. ASSUME SupBackoffOver PROVE Moves
  <2>1. sup'.pc \in {"idle", "validate"}
    BY <1>2, <1>04 DEF SupBackoffOver
  <2> QED
    BY <1>2, <1>03, <1>05, <2>1, SupervisorKept DEF SupBackoffOver, envVars
<1>3. ASSUME SupTargetFails PROVE Moves
  <2>1. sup'.pc = "failed"
    BY <1>3 DEF SupTargetFails, SupType
  <2> QED
    BY <1>3, <1>03, <1>05, <2>1, SupervisorKept DEF SupTargetFails
<1>4. ASSUME SupReserve PROVE Moves
  <2>1. CASE sup'.pc = "failed" /\ UNCHANGED <<next_inc, failed, pending>>
    BY <1>4, <1>02, <1>03, <2>1, SupervisorKept, QuietMoves DEF SupReserve, envVars
  <2>2. CASE RespawnAdmissionIsCurrent(sup.id, sup.inc) /\ BeginReplacement(sup.id)
    <3>1. SupWaits' => sup'.id = sup.id /\ sup'.inc = sup.inc /\ sup'.new = next_inc
      BY <1>4, <2>2 DEF SupReserve, SupWaits, SupType
    <3>2. sup.pc = "validate" /\ sup'.pc \in {"permit", "failed"}
      BY <1>4, <2>2 DEF SupReserve, SupType
    <3>3. Reserves(sup.id)
      BY <1>4, <1>03, <2>2, <3>1, <3>2 DEF SupReserve, Reserves, envVars
    <3> QED
      BY <1>0, <1>4, <3>3 DEF SupReserve, Moves
  <2> QED
    BY <1>4, <1>04, <2>1, <2>2 DEF SupReserve
<1>5. ASSUME SupPermit PROVE Moves
  <2>1. sup.id \in Ids /\ sup.new \in Incs /\ ReadersKept
    BY <1>0, <1>01, <1>03, <1>5 DEF SupPermit
  <2>2. CASE pending' = FinishReplacement(sup.id, sup.new) /\ sup' = IdleSup
    <3>1. Finishes(sup.id, sup.new)
      BY <1>5, <1>02, <2>1, <2>2, SupervisorKept DEF SupPermit, Finishes, envVars
    <3> QED
      BY <2>1, <3>1 DEF Moves
  <2>3. CASE sup' = [sup EXCEPT !.pc = "spawn"] /\ UNCHANGED pending
    <3>1. SupKept
      BY <1>5, <2>3 DEF SupPermit, SupKept, SupWaits, SupType
    <3> QED
      BY <1>5, <1>02, <2>1, <2>3, <3>1, QuietMoves DEF SupPermit, envVars
  <2> QED
    BY <1>5, <2>2, <2>3 DEF SupPermit
<1>6. ASSUME SupSpawnFails PROVE Moves
  <2>1. sup.id \in Ids /\ sup.new \in Incs /\ sup.keep \in BOOLEAN /\ sup.pc = "spawn"
    BY <1>0, <1>01, <1>6 DEF SupSpawnFails, SupType
  <2>2. SettledBySup(sup.id, sup.new, {"spawn", "unstart"})
    BY <1>6, <1>04, <2>1 DEF SupSpawnFails, SupReturn, SettledBySup, SupWaits
  <2>3. Fails(sup.id, sup.new)
    BY <1>6, <1>03, <2>1, <2>2 DEF SupSpawnFails, Fails
  <2> QED
    BY <2>1, <2>3 DEF Moves
<1>7. ASSUME SupPublish PROVE Moves
  <2>1. sup.id \in Ids /\ sup.new \in Incs /\ sup.pc = "spawn" /\ cr' = cr
    BY <1>0, <1>01, <1>7 DEF SupPublish
  <2>2. CASE /\ pending' = FinishReplacement(sup.id, sup.new)
             /\ sup'.pc \in {"idle", "failed"}
             /\ UNCHANGED <<live, dead, killed, rd>>
    <3>1. Finishes(sup.id, sup.new)
      BY <1>7, <1>02, <1>03, <2>2, SupervisorKept DEF SupPublish, Finishes, envVars
    <3> QED
      BY <2>1, <3>1 DEF Moves
  <2>3. CASE /\ RespawnReplacementIsCurrent(sup.id, sup.inc, sup.new)
             /\ killed' = killed \ {sup.id}
             /\ dead' = [dead EXCEPT ![sup.id] = NoDead]
             /\ live' = [live EXCEPT ![sup.id] = sup.new]
             /\ rd' = [rd EXCEPT ![sup.new] =
                         [NoReader EXCEPT !.pc = "starting", !.id = sup.id, !.gen = sup.gen,
                                          !.policy = sup.policy, !.target = sup.target,
                                          !.count = sup.count + 1]]
             /\ sup' = [sup EXCEPT !.pc = "start"]
             /\ UNCHANGED pending
    <3>1. SettledBySup(sup.id, sup.new, {"spawn"})
      BY <1>04, <2>1, <2>3 DEF SettledBySup, SupWaits
    <3>2. rd'[sup.new].pc = "starting" /\ rd'[sup.new].id = sup.id
          /\ \A m \in Incs \ {sup.new} : ReaderKept(m)
      BY <2>1, <2>3 DEF ReadersKept, ReaderKept, NoReader
    <3>3. \A c \in Callers : ~CreateIn(c)
      BY <1>7 DEF SupPublish, IInv, GateHeld
    <3>4. Publishes(sup.id, sup.new)
      BY <1>7, <2>1, <2>3, <3>1, <3>2, <3>3
         DEF Publishes, SupPublish, RespawnReplacementIsCurrent, envVars
    <3> QED
      BY <2>1, <3>4 DEF Moves
  <2> QED
    BY <1>7, <1>04, <2>2, <2>3 DEF SupPublish, SupReturn
<1>8. ASSUME SupStart PROVE Moves
  <2>1. sup.new \in Incs /\ rd[sup.new].pc = "starting"
    BY <1>01, <1>8 DEF SupStart, IInv, Started
  <2>2. ReadersKept
    BY <1>8, <2>1 DEF SupStart, ReadersKept, ReaderKept, ReaderType
  <2>3. sup'.pc = "finish"
    BY <1>8, <1>04 DEF SupStart
  <2> QED
    BY <1>8, <1>05, <2>2, <2>3, SupervisorKept DEF SupStart, envVars
<1>9. ASSUME SupStartFails PROVE Moves
  <2>1. sup'.pc = "unstart"
    BY <1>9, <1>04 DEF SupStartFails
  <2> QED
    BY <1>9, <1>03, <1>05, <2>1, SupervisorKept DEF SupStartFails
<1>10. ASSUME SupUnstart PROVE Moves
  <2>1. /\ sup.id \in Ids /\ sup.new \in Incs /\ sup.keep \in BOOLEAN /\ sup.pc = "unstart"
        /\ rd[sup.new].pc # "none"
    BY <1>0, <1>01, <1>10 DEF SupUnstart, SupType, Begun
  <2>2. SettledBySup(sup.id, sup.new, {"spawn", "unstart"})
    BY <1>10, <1>04, <2>1 DEF SupUnstart, SupReturn, SettledBySup, SupWaits
  <2>3. ReadersKept
    BY <1>10, <2>1 DEF SupUnstart, ReadersKept, ReaderKept, NoReader
  <2>4. Fails(sup.id, sup.new)
    BY <1>10, <2>1, <2>2, <2>3 DEF SupUnstart, Fails
  <2> QED
    BY <2>1, <2>4 DEF Moves
<1>11. ASSUME SupFinish PROVE Moves
  <2>1. sup.id \in Ids /\ sup.new \in Incs /\ sup' = IdleSup
    BY <1>0, <1>01, <1>11 DEF SupFinish, SupReturn
  <2>2. Finishes(sup.id, sup.new)
    BY <1>11, <1>02, <1>03, <2>1, SupervisorKept DEF SupFinish, Finishes, envVars
  <2> QED
    BY <2>1, <2>2 DEF Moves
<1>12. ASSUME SupFailed PROVE Moves
  <2>1. sup.id \in Ids /\ sup' = IdleSup /\ dead \in [Ids -> DeadType]
    BY <1>0, <1>12, TypesHere DEF SupFailed
  <2>2. UNCHANGED <<live, failed, pending, killed, stopped, termreq, lastEvt, next_inc>> /\ TasksKept
    BY <1>12, <1>02, <2>1, SupervisorKept DEF SupFailed, envVars
  <2>3. CASE dead' = dead
    BY <1>12, <1>03, <2>2, <2>3, QuietMoves DEF SupFailed
  <2>4. CASE dead' = [dead EXCEPT ![sup.id].unavail = dead[sup.id].unavail \/ sup.lost,
                                  ![sup.id].will_restart = FALSE]
    <3> DEFINE d == [dead[sup.id] EXCEPT !.unavail = dead[sup.id].unavail \/ sup.lost,
                                         !.will_restart = FALSE]
    <3>1. d \in DeadType /\ d.inc = dead[sup.id].inc /\ ~d.will_restart
          /\ d.cancelled = dead[sup.id].cancelled
      BY <2>1 DEF DeadType
    <3>2. dead' = [dead EXCEPT ![sup.id] = d]
      BY <2>1, <2>4
    <3> HIDE DEF d
    <3>3. Settles(sup.id)
      BY <1>12, <1>03, <2>2, <3>1, <3>2 DEF Settles, SupFailed
    <3> QED
      BY <2>1, <3>3 DEF Moves
  <2> QED
    BY <1>12, <2>3, <2>4 DEF SupFailed
<1> QED
  BY <1>1, <1>2, <1>3, <1>4, <1>5, <1>6, <1>7, <1>8, <1>9, <1>10, <1>11, <1>12 DEF SupStep

\* Every request, removal and sweep is a move.
LEMMA RequestMoves ==
    ASSUME IInv,
           \/ \E i \in Ids : Kill(i) \/ MarkTargetUnavailable(i) \/ RemoveBegin(i)
           \/ \E i \in Ids, inc \in Incs : RequestTermination(i, inc)
           \/ SweepTick \/ SweepCheck
           \/ \E r \in Removers : RemoveStep(r) \/ RemoveDeleteFails(r)
    PROVE  Moves
<1> /\ live \in [Ids -> IncType] /\ pending \in [Ids -> IncType]
    /\ dead \in [Ids -> DeadType] /\ failed \in [Ids -> FailedType]
  BY TypesHere
<1>0. ASSUME UNCHANGED <<cr, sup, rd>> PROVE TasksKept /\ ReadersKept
  BY <1>0 DEF TasksKept, SupKept, SupWaits, CrKept, ReadersKept, ReaderKept
<1>1. ASSUME NEW i \in Ids, Kill(i) PROVE Moves
  <2>1. Kills(i)
    BY <1>0, <1>1 DEF Kill, Kills, TasksKept, procVars
  <2> QED
    BY <2>1 DEF Moves
<1>2. ASSUME NEW i \in Ids, MarkTargetUnavailable(i) PROVE Moves
  <2>1. /\ TasksKept /\ ReadersKept /\ live[i] = NoInc /\ pending[i] = NoInc
        /\ UNCHANGED <<live, pending, killed, stopped, termreq, lastEvt, next_inc>>
    BY <1>0, <1>2 DEF MarkTargetUnavailable, procVars
  <2>2. CASE dead' = [dead EXCEPT ![i].unavail = TRUE, ![i].will_restart = FALSE] /\ failed' = failed
    <3> DEFINE d == [dead[i] EXCEPT !.unavail = TRUE, !.will_restart = FALSE]
    <3>1. d \in DeadType /\ d.inc = dead[i].inc /\ ~d.will_restart
          /\ d.cancelled = dead[i].cancelled
      BY DEF DeadType
    <3>2. dead' = [dead EXCEPT ![i] = d]
      BY <2>2
    <3> HIDE DEF d
    <3> QED
      BY <2>1, <2>2, <3>1, <3>2 DEF Settles, Moves
  <2>3. CASE /\ dead[i].inc = NoInc /\ failed[i].inc # NoInc
             /\ dead' = [dead EXCEPT ![i] = [Tombstone(failed[i].inc, TRUE) EXCEPT !.unavail = TRUE]]
             /\ failed' = [failed EXCEPT ![i] = NoFailed]
    <3>1. \A c \in Callers : ~CreateIn(c)
      BY <1>2 DEF MarkTargetUnavailable, IInv, GateHeld
    <3>2. Retains(i)
      BY <2>1, <2>3, <3>1 DEF Retains
    <3> QED
      BY <3>2 DEF Moves
  <2> QED
    BY <1>2, <2>2, <2>3 DEF MarkTargetUnavailable
<1>3. ASSUME UNCHANGED <<live, dead, failed, pending, killed, stopped, termreq, lastEvt>>,
             next_inc' \in {next_inc, next_inc + 1}, UNCHANGED <<cr, sup, rd>>
      PROVE  Moves
  BY <1>0, <1>3, QuietMoves
<1>4. ASSUME NEW i \in Ids, RemoveBegin(i) PROVE Moves
  BY <1>3, <1>4 DEF RemoveBegin, idVars
<1>5. ASSUME NEW i \in Ids, NEW inc \in Incs, RequestTermination(i, inc) PROVE Moves
  <2>1. /\ UNCHANGED <<live, failed, pending, killed, lastEvt, next_inc>>
        /\ stopped' = stopped \union {inc} /\ pending[i] = NoInc
        /\ inc = IF live[i] # NoInc THEN live[i] ELSE dead[i].inc
    BY <1>5 DEF RequestTermination
  <2>2. TasksKept /\ ReadersKept
    BY <1>0, <1>5 DEF RequestTermination, procVars
  <2>3. CASE live[i] = inc /\ termreq' = termreq \union {inc} /\ dead' = dead
    <3>1. Signals(i)
      BY <2>1, <2>2, <2>3 DEF Signals, Incs, NoInc
    <3> QED
      BY <3>1 DEF Moves
  <2>4. CASE /\ live[i] = NoInc /\ termreq' = termreq
             /\ dead' = [dead EXCEPT ![i].will_restart = FALSE, ![i].cancelled = TRUE]
    <3> DEFINE d == [dead[i] EXCEPT !.will_restart = FALSE, !.cancelled = TRUE]
    <3>1. d \in DeadType /\ d.inc = dead[i].inc /\ ~d.will_restart
      BY DEF DeadType
    <3>3. d.inc # NoInc
      BY <2>1, <2>4, <3>1 DEF Incs, NoInc
    <3>2. dead' = [dead EXCEPT ![i] = d]
      BY <2>4
    <3> HIDE DEF d
    <3> QED
      BY <2>1, <2>2, <2>4, <3>1, <3>2, <3>3 DEF Settles, Moves
  <2> QED
    BY <1>5, <2>3, <2>4 DEF RequestTermination
<1>6. ASSUME SweepTick PROVE Moves
  <2>1. TasksKept /\ ReadersKept
    BY <1>0, <1>6 DEF SweepTick
  <2>2. Prunes
    BY <1>6, <2>1 DEF SweepTick, Prunes
  <2> QED
    BY <2>2 DEF Moves
<1>7. ASSUME SweepCheck PROVE Moves
  BY <1>3, <1>7 DEF SweepCheck, idVars, envVars
<1>8. ASSUME NEW r \in Removers, RemoveLock(r) PROVE Moves
  BY <1>3, <1>8 DEF RemoveLock, envVars
<1>9. ASSUME NEW r \in Removers, RemoveDelete(r) PROVE Moves
  BY <1>3, <1>9 DEF RemoveDelete, idVars, envVars
<1>10. ASSUME NEW r \in Removers, RemoveDeleteFails(r) PROVE Moves
  BY <1>3, <1>10 DEF RemoveDeleteFails, idVars
<1>11. ASSUME NEW r \in Removers, RemoveEvict(r) PROVE Moves
  <2> DEFINE i == rm[r].id
  <2>1. i \in Ids /\ TasksKept /\ ReadersKept
    BY <1>0, <1>11 DEF RemoveEvict, IInv, TInv, NamedTasks, RmNamed
  <2>2. \A j \in Ids :
         /\ live'[j] = IF j = i THEN NoInc ELSE live[j]
         /\ dead'[j] = IF j = i THEN NoDead ELSE dead[j]
         /\ failed'[j] = IF j = i THEN NoFailed ELSE failed[j]
         /\ pending'[j] = IF j = i THEN NoInc ELSE pending[j]
    BY <1>11 DEF RemoveEvict
  <2>3. /\ killed' = killed \union {i} /\ UNCHANGED <<termreq, lastEvt, next_inc>>
        /\ stopped' = stopped \union ({live[i], dead[i].inc} \ {NoInc})
    BY <1>11 DEF RemoveEvict, Stopped
  <2>4. \A n \in stopped' \ stopped : n \in Held(i) /\ pending'[i] = NoInc
                                      /\ n \notin {live'[i], dead'[i].inc}
    BY <2>1, <2>2, <2>3 DEF Held, NoDead
  <2>5. Evicts
    BY <2>1, <2>2, <2>3, <2>4 DEF Evicts
  <2> QED
    BY <2>5 DEF Moves
<1> QED
  BY <1>1, <1>2, <1>4, <1>5, <1>6, <1>7, <1>8, <1>9, <1>10, <1>11 DEF RemoveStep

\* Every step of a disposal, a claim or a shutdown is a move.
LEMMA DisposeMoves ==
    ASSUME IInv,
           \/ DisposeBegin \/ DisposeStep \/ DisposeRemoveFails
           \/ TryClaimHandoff \/ TryClaimForcedHandoff \/ TryClaimAgentHandoff \/ Release
           \/ StopAll \/ Shutdown \/ JoinReaders
    PROVE  Moves
<1> /\ live \in [Ids -> IncType] /\ pending \in [Ids -> IncType]
    /\ dead \in [Ids -> DeadType] /\ failed \in [Ids -> FailedType]
    /\ NoFailed.inc = NoInc /\ NoDead.inc = NoInc
  BY TypesHere DEF NoFailed, NoDead
<1>0. ASSUME UNCHANGED <<cr, sup, rd>> PROVE TasksKept /\ ReadersKept
  BY <1>0 DEF TasksKept, SupKept, SupWaits, CrKept, ReadersKept, ReaderKept
<1>1. ASSUME UNCHANGED <<live, dead, failed, pending, killed, stopped, termreq, lastEvt>>,
             next_inc' \in {next_inc, next_inc + 1}, UNCHANGED <<cr, sup, rd>>
      PROVE  Moves
  BY <1>0, <1>1, QuietMoves
<1>2. ASSUME DisposeBegin \/ Shutdown \/ DisposeMark \/ JoinReaders PROVE Moves
  BY <1>1, <1>2 DEF DisposeBegin, Shutdown, DisposeMark, JoinReaders, idVars, envVars
<1>3. ASSUME DisposeRemove \/ DisposeRemoveFails \/ DisposeUnmark PROVE Moves
  BY <1>1, <1>3 DEF DisposeRemove, DisposeRemoveFails, DisposeUnmark, idVars, envVars
<1>4. ASSUME TryClaimHandoff \/ TryClaimForcedHandoff \/ TryClaimAgentHandoff \/ Release PROVE Moves
  BY <1>1, <1>4 DEF TryClaimHandoff, TryClaimForcedHandoff, TryClaimAgentHandoff, Claim, Release,
                    idVars, procVars, envVars
<1>5. ASSUME DisposeEvict PROVE Moves
  <2> DEFINE i == disp.cur[1]
             n == disp.cur[2]
  <2>1. i \in Ids /\ n \in Incs /\ n # NoInc
    BY <1>5 DEF DisposeEvict, IInv, TInv, NamedTasks, DispNamed, Incs, NoInc
  <2>2. UNCHANGED <<cr, sup, rd, lastEvt, next_inc, termreq>>
    BY <1>5 DEF DisposeEvict
  <2>3. CASE n \notin Held(i)
    BY <1>1, <1>5, <2>1, <2>2, <2>3 DEF DisposeEvict, Held
  <2>4. CASE n \in Held(i)
    <3>1. /\ pending' = [pending EXCEPT ![i] = NoInc]
          /\ killed' = killed \union {i}
          /\ live' = IF live[i] = n THEN [live EXCEPT ![i] = NoInc] ELSE live
          /\ dead' = IF dead[i].inc = n THEN [dead EXCEPT ![i] = NoDead] ELSE dead
          /\ failed' = IF failed[i].inc = n THEN [failed EXCEPT ![i] = NoFailed] ELSE failed
          /\ stopped' = stopped \union {n}
      BY <1>5, <2>4 DEF DisposeEvict, Held
    <3>2. \A j \in Ids :
           /\ live'[j] \in {live[j], NoInc} /\ dead'[j] \in {dead[j], NoDead}
           /\ failed'[j] \in {failed[j], NoFailed} /\ pending'[j] \in {pending[j], NoInc}
      BY <2>1, <3>1
    <3>3. pending'[i] = NoInc /\ i \in killed'
      BY <2>1, <3>1
    <3>4. Evicts
      BY <1>0, <2>1, <2>2, <2>4, <3>1, <3>2, <3>3 DEF Evicts
    <3> QED
      BY <3>4 DEF Moves
  <2> QED
    BY <2>3, <2>4
<1>6. ASSUME DisposeClear PROVE Moves
  <2>1. UNCHANGED <<cr, sup, rd, lastEvt, next_inc>> /\ termreq' = {} /\ killed \subseteq killed'
    BY <1>6 DEF DisposeClear
  <2>2. \A j \in Ids : live'[j] = NoInc /\ dead'[j] = NoDead /\ failed'[j] = NoFailed
                       /\ pending'[j] = NoInc
    BY <1>6 DEF DisposeClear, NoEntries
  <2>3. stopped' = stopped \union {x[2] : x \in Identities}
    BY <1>6 DEF DisposeClear
  <2>4. \A n \in stopped' \ stopped : \E i \in Ids : n \in Held(i) /\ n # NoInc
    BY <2>3 DEF Identities, Held, Incs, NoInc
  <2>5. \A n \in stopped' \ stopped : \E i \in Ids :
          /\ n \in Held(i) /\ pending'[i] = NoInc
          /\ n \in {live'[i], dead'[i].inc} => i \in killed'
    BY <2>2, <2>4
  <2>6. \A n \in termreq \ termreq' : \A i \in Ids : live'[i] # n
    BY <2>2, TypesHere DEF Incs, NoInc
  <2>7. Evicts
    BY <1>0, <2>1, <2>2, <2>3, <2>5, <2>6 DEF Evicts
  <2> QED
    BY <2>7 DEF Moves
<1>7. ASSUME StopAll PROVE Moves
  <2>1. UNCHANGED <<cr, sup, rd, lastEvt, next_inc, live, dead, termreq>>
    BY <1>7 DEF StopAll
  <2>2. \A j \in Ids : failed'[j] = NoFailed /\ pending'[j] = NoInc
    BY <1>7 DEF StopAll, NoEntries
  <2>3. /\ killed' = killed \union {i \in Ids : live[i] # NoInc \/ dead[i].inc # NoInc}
        /\ stopped' = stopped \union ({CurrentInc(i) : i \in Ids} \ {NoInc})
    BY <1>7 DEF StopAll
  <2>4. \A n \in stopped' \ stopped : \E i \in Ids : n \in Held(i) /\ n # NoInc
    BY <2>3 DEF CurrentInc, Held
  <2>5. \A n \in stopped' \ stopped : \E i \in Ids :
          /\ n \in Held(i) /\ pending'[i] = NoInc
          /\ n \in {live'[i], dead'[i].inc} => i \in killed'
    BY <2>1, <2>2, <2>3, <2>4
  <2>6. Evicts
    BY <1>0, <2>1, <2>2, <2>3, <2>5 DEF Evicts
  <2> QED
    BY <2>6 DEF Moves
<1> QED
  BY <1>2, <1>3, <1>4, <1>5, <1>6, <1>7 DEF DisposeStep

\* Every step of the manager is a move.
LEMMA NextMoves ==
    ASSUME IInv, Begun, [Next]_vars
    PROVE  Moves
<1>1. ASSUME UNCHANGED vars PROVE Moves
  <2>1. UNCHANGED <<live, dead, failed, pending, killed, stopped, termreq, lastEvt, next_inc,
                    cr, sup, rd>>
    BY <1>1 DEF vars, idVars, procVars, envVars
  <2>2. TasksKept /\ ReadersKept
    BY <2>1 DEF TasksKept, SupKept, SupWaits, CrKept, ReadersKept, ReaderKept
  <2> QED
    BY <2>1, <2>2, QuietMoves
<1> QED
  BY <1>1, CreateMoves, ReaderMoves, SupMoves, RequestMoves, DisposeMoves DEF Next

-----------------------------------------------------------------------------
(***************************************************************************)
(* The identity of an id                                                   *)
(***************************************************************************)
\* The incarnations by which the manager knows i, and the one it has reserved.
Known(i) == {live[i], dead[i].inc, failed[i].inc, pending[i]} \ {NoInc}

\* What is alone: a live session, a tombstone, a failed replacement; and a
\* reservation drops the record of an earlier failure.
Alone(i) ==
    /\ live[i] # NoInc => dead[i].inc = NoInc /\ failed[i].inc = NoInc
    /\ dead[i].inc # NoInc => failed[i].inc = NoInc
    /\ pending[i] # NoInc => failed[i].inc = NoInc

\* Incarnations are handed out in order, and no event is newer than its session.
Ordered(i) == lastEvt[i] < next_inc /\ \A n \in Known(i) : n < next_inc /\ lastEvt[i] <= n

\* No incarnation belongs to two ids.
Apart == \A i, j \in Ids : i # j => Known(i) \intersect Known(j) = {}

Identity == Apart /\ \A i \in Ids : Alone(i) /\ Ordered(i)

\* Steps after which no id is known by an incarnation it was not known by.
LEMMA KnownKept ==
    ASSUME IInv, Identity, lastEvt' = lastEvt, next_inc' \in {next_inc, next_inc + 1},
           \A i \in Ids : Known(i)' \subseteq Known(i) /\ Alone(i)'
    PROVE  Identity'
<1>1. Apart'
  BY DEF Identity, Apart
<1>2. ASSUME NEW i \in Ids PROVE Ordered(i)'
  <2>1. /\ lastEvt[i] \in IncType /\ next_inc \in Nat /\ live[i] \in IncType
        /\ dead[i].inc \in IncType /\ failed[i].inc \in IncType /\ pending[i] \in IncType
    BY TypesHere DEF DeadType, FailedType
  <2>2. lastEvt[i] \in Nat /\ Known(i) \subseteq Nat
    BY <2>1, IncFacts DEF Known
  <2> QED
    BY <2>1, <2>2 DEF Identity, Ordered
<1> QED
  BY <1>1, <1>2 DEF Identity

\* A step that changes the identity of one id only, and gives it no new incarnation.
LEMMA OneKept ==
    ASSUME IInv, Identity, lastEvt' = lastEvt, next_inc' \in {next_inc, next_inc + 1}, NEW i \in Ids,
           \A j \in Ids \ {i} : /\ live'[j] = live[j] /\ dead'[j].inc = dead[j].inc
                                /\ failed'[j].inc = failed[j].inc /\ pending'[j] = pending[j],
           {live'[i], dead'[i].inc, failed'[i].inc, pending'[i]} \subseteq Known(i) \union {NoInc},
           Alone(i)'
    PROVE  Identity'
<1>1. ASSUME NEW j \in Ids PROVE Known(j)' \subseteq Known(j) /\ Alone(j)'
  BY DEF Known, Identity, Alone
<1> QED
  BY <1>1, KnownKept

\* Every move keeps the identities.
LEMMA IdentityKept ==
    ASSUME IInv, Identity, Moves
    PROVE  Identity'
<1> /\ live \in [Ids -> IncType] /\ pending \in [Ids -> IncType]
    /\ dead \in [Ids -> DeadType] /\ failed \in [Ids -> FailedType]
    /\ lastEvt \in [Ids -> IncType] /\ next_inc \in Nat /\ IncType \subseteq Nat
  BY TypesHere, IncFacts
<1> \A m, x : Tombstone(m, x).inc = m
  BY DEF Tombstone, NoDead
<1> /\ \A m, x, b : [Tombstone(m, x) EXCEPT !.unavail = b].inc = m
    /\ \A m, x, b : [Tombstone(m, x) EXCEPT !.will_restart = b].inc = m
  BY DEF Tombstone, NoDead
<1> NoDead.inc = NoInc /\ NoFailed.inc = NoInc
  BY DEF NoDead, NoFailed
<1>0. \A i \in Ids : Alone(i)
  BY DEF Identity
<1>1. ASSUME Rests \/ Prunes PROVE Identity'
  <2>1. UNCHANGED <<live, dead, failed, pending, lastEvt>> /\ next_inc' \in {next_inc, next_inc + 1}
    BY <1>1 DEF Rests, Prunes
  <2> QED
    BY <1>0, <2>1, KnownKept DEF Known, Alone
<1>2. ASSUME Evicts PROVE Identity'
  <2>1. ASSUME NEW i \in Ids PROVE Known(i)' \subseteq Known(i) /\ Alone(i)'
    BY <1>0, <1>2 DEF Evicts, Known, Alone
  <2> QED
    BY <1>2, <2>1, KnownKept DEF Evicts
<1>3. ASSUME NEW i \in Ids, Kills(i) PROVE Identity'
  <2>1. /\ live' = [live EXCEPT ![i] = NoInc]
        /\ dead' = IF live[i] # NoInc
                     THEN [dead EXCEPT ![i] = Tombstone(live[i], rd[live[i]].target)] ELSE dead
        /\ pending' = [pending EXCEPT ![i] = NoInc]
        /\ failed' = failed
        /\ lastEvt' = lastEvt /\ next_inc' = next_inc
    BY <1>3 DEF Kills, KillInternalImpl
  <2>2. /\ \A j \in Ids \ {i} : live'[j] = live[j] /\ dead'[j] = dead[j] /\ pending'[j] = pending[j]
        /\ live'[i] = NoInc /\ pending'[i] = NoInc
        /\ dead'[i].inc = IF live[i] # NoInc THEN live[i] ELSE dead[i].inc
    BY <2>1
  <2>3. Alone(i)'
    BY <1>0, <2>1, <2>2 DEF Alone
  <2> QED
    BY <2>1, <2>2, <2>3, OneKept DEF Known
<1>4. ASSUME NEW i \in Ids, Settles(i) \/ Signals(i) PROVE Identity'
  <2>1. /\ \A j \in Ids : dead'[j].inc = dead[j].inc
        /\ UNCHANGED <<live, failed, pending, lastEvt, next_inc>>
    BY <1>4 DEF Settles, Signals
  <2> QED
    BY <1>0, <2>1, KnownKept DEF Known, Alone
<1>5. ASSUME NEW i \in Ids, Retains(i) PROVE Identity'
  <2>1. /\ \A j \in Ids \ {i} : dead'[j] = dead[j] /\ failed'[j] = failed[j]
        /\ dead'[i].inc = failed[i].inc /\ failed'[i].inc = NoInc
        /\ UNCHANGED <<live, pending, lastEvt, next_inc>>
        /\ live[i] = NoInc
    <3>1. [Tombstone(failed[i].inc, TRUE) EXCEPT !.unavail = TRUE].inc = failed[i].inc
      BY DEF Tombstone, NoDead
    <3> QED
      BY <1>5, <3>1 DEF Retains
  <2>2. Alone(i)'
    BY <1>0, <2>1 DEF Alone
  <2> QED
    BY <2>1, <2>2, OneKept DEF Known
<1>6. ASSUME NEW i \in Ids, NEW n \in Incs, Finishes(i, n) PROVE Identity'
  <2>1. /\ \A j \in Ids : pending'[j] \in {pending[j], NoInc}
        /\ UNCHANGED <<live, dead, failed, lastEvt, next_inc>>
    BY <1>6 DEF Finishes, FinishReplacement
  <2> QED
    BY <1>0, <2>1, KnownKept DEF Known, Alone
<1>7. ASSUME NEW i \in Ids, NEW n \in Incs, ExitsLate(i, n) PROVE Identity'
  <2>1. UNCHANGED <<live, dead, failed, pending, lastEvt, next_inc>>
    BY <1>7 DEF ExitsLate
  <2> QED
    BY <1>0, <2>1, KnownKept DEF Known, Alone
<1>8. ASSUME NEW i \in Ids, NEW n \in Incs, Exits(i, n) PROVE Identity'
  <2>1. /\ \A j \in Ids \ {i} : dead'[j] = dead[j] /\ live'[j] = live[j]
        /\ live[i] = n /\ dead'[i].inc = n /\ live'[i] = NoInc
        /\ UNCHANGED <<failed, pending, lastEvt, next_inc>>
    BY <1>8 DEF Exits
  <2>2. Alone(i)'
    BY <1>0, <2>1 DEF Alone, Incs, NoInc
  <2> QED
    BY <2>1, <2>2, OneKept DEF Known, Incs, NoInc
<1>9. ASSUME NEW i \in Ids, NEW n \in Incs, Publishes(i, n) PROVE Identity'
  <2>1. /\ \A j \in Ids \ {i} : dead'[j] = dead[j] /\ live'[j] = live[j]
        /\ pending[i] = n /\ dead'[i].inc = NoInc /\ live'[i] = n
        /\ UNCHANGED <<failed, pending, lastEvt, next_inc>>
    BY <1>9 DEF Publishes, ReplacementIsCurrent
  <2>2. Alone(i)'
    BY <1>0, <2>1 DEF Alone, Incs, NoInc
  <2> QED
    BY <2>1, <2>2, OneKept DEF Known, Incs, NoInc
<1>10. ASSUME NEW i \in Ids, NEW n \in Incs, Fails(i, n) PROVE Identity'
  <2>0. PICK t, k \in BOOLEAN : FinishFailedReplacement(i, n, t, k)
    BY <1>10 DEF Fails
  <2>1. UNCHANGED <<lastEvt, next_inc>>
    BY <1>10 DEF Fails
  <2>2. CASE UNCHANGED <<live, dead, failed, pending>>
    BY <1>0, <2>1, <2>2, KnownKept DEF Known, Alone
  <2>3. CASE /\ pending[i] = n /\ live[i] = n
             /\ live' = [live EXCEPT ![i] = NoInc]
             /\ dead' = [dead EXCEPT ![i] = [Tombstone(n, rd[n].target) EXCEPT !.unavail = k]]
             /\ pending' = FinishReplacement(i, n) /\ failed' = failed
    <3>1. /\ \A j \in Ids \ {i} : dead'[j] = dead[j] /\ live'[j] = live[j] /\ pending'[j] = pending[j]
          /\ dead'[i].inc = n /\ live'[i] = NoInc /\ pending'[i] = NoInc
      BY <2>3 DEF FinishReplacement
    <3>2. Alone(i)'
      BY <1>0, <2>3, <3>1 DEF Alone, Incs, NoInc
    <3> QED
      BY <2>1, <2>3, <3>1, <3>2, OneKept DEF Known, Incs, NoInc
  <2>4. CASE /\ pending[i] = n /\ live[i] = NoInc
             /\ pending' = FinishReplacement(i, n) /\ live' = live
             /\ \/ /\ dead' = [dead EXCEPT ![i] = NoDead]
                   /\ failed' = [failed EXCEPT ![i] = [inc |-> n, unavail |-> k]]
                \/ /\ dead' = [dead EXCEPT ![i].unavail = @ \/ k, ![i].will_restart = FALSE]
                   /\ failed' = failed
                \/ UNCHANGED <<dead, failed>>
    <3>1. /\ \A j \in Ids \ {i} : dead'[j] = dead[j] /\ failed'[j] = failed[j] /\ pending'[j] = pending[j]
          /\ pending'[i] = NoInc
          /\ \/ dead'[i].inc = NoInc /\ failed'[i].inc = n
             \/ dead'[i].inc = dead[i].inc /\ failed'[i] = failed[i]
      BY <2>4 DEF FinishReplacement, DeadType
    <3>2. Alone(i)'
      BY <1>0, <2>4, <3>1 DEF Alone, Incs, NoInc
    <3> QED
      BY <2>1, <2>4, <3>1, <3>2, OneKept DEF Known, Incs, NoInc
  <2> QED
    BY <2>0, <2>2, <2>3, <2>4 DEF FinishFailedReplacement, ReplacementIsCurrent
<1>11. ASSUME NEW i \in Ids, Reserves(i) PROVE Identity'
  <2>1. /\ UNCHANGED <<live, dead, lastEvt>> /\ next_inc' = next_inc + 1
        /\ \A j \in Ids \ {i} : failed'[j] = failed[j] /\ pending'[j] = pending[j]
        /\ failed'[i].inc = NoInc /\ pending'[i] = next_inc
    BY <1>11 DEF Reserves, BeginReplacement
  <2>2. ASSUME NEW j \in Ids PROVE Alone(j)'
    BY <1>0, <2>1 DEF Alone
  <2>3. ASSUME NEW j \in Ids PROVE Ordered(j)'
    <3>1. Known(j)' \subseteq Known(j) \union {next_inc}
      BY <2>1 DEF Known
    <3>2. lastEvt[j] \in Nat /\ Known(j) \subseteq Nat
      BY DEF Known, DeadType, FailedType
    <3> QED
      BY <2>1, <3>1, <3>2 DEF Identity, Ordered
  <2>4. Apart'
    <3>1. \A j \in Ids : next_inc \notin Known(j)
      BY DEF Identity, Ordered
    <3>3. \A j \in Ids \ {i} : Known(j)' = Known(j)
      BY <2>1 DEF Known
    <3>2. Known(i)' \subseteq Known(i) \union {next_inc}
      BY <2>1 DEF Known
    <3> QED
      BY <3>1, <3>2, <3>3 DEF Apart, Identity
  <2> QED
    BY <2>2, <2>3, <2>4 DEF Identity
<1>12. ASSUME NEW i \in Ids, NEW n \in Incs, Reports(i, n) PROVE Identity'
  <2>1. /\ UNCHANGED <<live, dead, failed, pending, next_inc>> /\ EventIsCurrent(i, n)
        /\ \A j \in Ids \ {i} : lastEvt'[j] = lastEvt[j]
        /\ lastEvt'[i] = n
    BY <1>12 DEF Reports
  <2>2. \A j \in Ids : Known(j)' = Known(j) /\ (Alone(j)' <=> Alone(j))
    BY <2>1 DEF Known, Alone
  <2>3. Known(i) = {n}
    BY <1>0, <2>1 DEF EventIsCurrent, Known, Alone, Incs, NoInc
  <2>4. ASSUME NEW j \in Ids PROVE Ordered(j)'
    BY <2>1, <2>2, <2>3 DEF Identity, Ordered, Incs
  <2> QED
    BY <1>0, <2>2, <2>4 DEF Identity, Apart
<1> QED
  BY <1>1, <1>2, <1>3, <1>4, <1>5, <1>6, <1>7, <1>8, <1>9, <1>10, <1>11, <1>12 DEF Moves

-----------------------------------------------------------------------------
(***************************************************************************)
(* Where a task can come from                                              *)
(***************************************************************************)
\* A caller fails to start only what it was about to start.
CrAdvances(c) ==
    cr'[c].pc \in {"unstart", "rekill"} =>
        cr[c].pc \in {"start", "unstart", "rekill"} /\ cr'[c].inc = cr[c].inc

\* So does the supervisor, and it starts only what it publishes.
SupAdvances ==
    /\ sup'.pc = "unstart" => sup.pc \in {"start", "unstart"} /\ sup'.new = sup.new
    /\ sup.pc = "spawn" /\ sup'.pc = "start" => SupPublish

\* Every step of the manager advances its tasks so.
LEMMA TasksAdvance ==
    ASSUME IInv, [Next]_vars
    PROVE  SupAdvances /\ \A c \in Callers : CrAdvances(c)
<1> cr \in [Callers -> CreateType] /\ sup \in SupType
  BY TypesHere
<1> IdleCr.pc = "idle" /\ IdleSup.pc = "idle"
  BY DEF IdleCr, IdleSup
<1>0. ASSUME sup' = sup PROVE SupAdvances
  BY <1>0 DEF SupAdvances
<1>01. ASSUME cr' = cr PROVE \A c \in Callers : CrAdvances(c)
  BY <1>01 DEF CrAdvances
<1>1. ASSUME NEW c \in Callers,
             CreateBegin(c) \/ CreateStep(c) \/ CreateSpawnFails(c) \/ CreateStartFails(c)
      PROVE  sup' = sup /\ \A d \in Callers : CrAdvances(d)
  <2>1. sup' = sup
    BY <1>1 DEF CreateStep, CreateBegin, CreateAdmit, CreateEvict, CreateReserve, CreatePublish,
                CreateStart, CreateUnstart, CreateRekill, CreateFinish, CreateSpawnFails,
                CreateStartFails
  <2>2. ASSUME NEW k, cr' = [cr EXCEPT ![c] = k], k.pc \notin {"unstart", "rekill"}
        PROVE  \A d \in Callers : CrAdvances(d)
    BY <2>2 DEF CrAdvances
  <2>3. ASSUME CreateReturn(c) PROVE \A d \in Callers : CrAdvances(d)
    BY <2>2, <2>3 DEF CreateReturn
  <2>4. CASE CreateBegin(c)
    BY <2>1, <2>4 DEF CreateBegin, CrAdvances, IdleCr
  <2>5. CASE CreateAdmit(c) \/ CreateEvict(c)
    BY <2>1, <2>3, <2>5 DEF CreateAdmit, CreateEvict, CrAdvances, CreateType
  <2>6. ASSUME NEW p, cr' = [cr EXCEPT ![c].pc = p], p \in {"unstart", "rekill"} => cr[c].pc \in {"start", "unstart"}
        PROVE  \A d \in Callers : CrAdvances(d)
    <3>1. cr'[c].pc = p /\ cr'[c].inc = cr[c].inc /\ \A d \in Callers \ {c} : cr'[d] = cr[d]
      BY <2>6 DEF CreateType
    <3> QED
      BY <2>6, <3>1 DEF CrAdvances
  <2>7. CASE CreateReserve(c)
    <3>1. CASE cr' = [cr EXCEPT ![c].pc = "spawn", ![c].inc = next_inc, ![c].gen = generation]
      BY <2>1, <3>1 DEF CrAdvances, CreateType
    <3> QED
      BY <2>1, <2>3, <2>7, <3>1 DEF CreateReserve
  <2>9. CASE CreatePublish(c) \/ CreateStart(c)
    BY <2>1, <2>3, <2>6, <2>9 DEF CreatePublish, CreateStart
  <2>10. CASE CreateStartFails(c) \/ CreateUnstart(c)
    BY <2>1, <2>6, <2>10 DEF CreateStartFails, CreateUnstart
  <2>8. CASE CreateSpawnFails(c) \/ CreateRekill(c) \/ CreateFinish(c)
    BY <2>1, <2>3, <2>8 DEF CreateSpawnFails, CreateRekill, CreateFinish
  <2> QED
    BY <1>1, <2>1, <2>4, <2>5, <2>7, <2>8, <2>9, <2>10 DEF CreateStep
<1>2. ASSUME NEW n \in Incs,
             ReaderStep(n) \/ ReaderData(n) \/ NaturalExit(n) \/ ReaderWaitFails(n)
      PROVE  UNCHANGED <<cr, sup>>
  BY <1>2 DEF ReaderStep, KilledExit, NaturalExit, ReaderExit, ReaderPersist, ReaderRespawn,
              ReaderCancel, ReaderEmit, ReaderData, ReaderWaitFails, procVars
<1>3. ASSUME SupStep \/ SupTargetFails \/ SupSpawnFails \/ SupStartFails
      PROVE  cr' = cr /\ SupAdvances
  <2>0. \A p : [sup EXCEPT !.pc = p].pc = p /\ [sup EXCEPT !.pc = p].new = sup.new
    BY DEF SupType
  <2>1. cr' = cr
    BY <1>3 DEF SupStep, SupReceive, SupBackoffOver, SupTargetFails, SupReserve, SupPermit,
                SupSpawnFails, SupPublish, SupStart, SupStartFails, SupUnstart, SupFinish, SupFailed
  <2>2. ASSUME sup.pc # "spawn", sup'.pc # "unstart" PROVE SupAdvances
    BY <2>2 DEF SupAdvances
  <2>3. CASE SupReceive \/ SupBackoffOver \/ SupTargetFails \/ SupFailed \/ SupFinish
    <3>1. sup.pc # "spawn" /\ sup'.pc \in {"idle", "backoff", "validate", "failed"}
      BY <2>3, <2>0 DEF SupReceive, SupBackoffOver, SupTargetFails, SupFailed, SupFinish, SupReturn,
                        IdleSup, SupType
    <3> QED
      BY <2>1, <2>2, <3>1
  <2>4. CASE SupReserve
    <3>1. sup.pc # "spawn" /\ sup'.pc \in {"failed", "permit"}
      BY <2>4 DEF SupReserve, SupType
    <3> QED
      BY <2>1, <2>2, <3>1
  <2>5. CASE SupPermit \/ SupStart \/ SupUnstart
    BY <2>1, <2>0, <2>2, <2>5 DEF SupPermit, SupStart, SupUnstart, SupReturn
  <2>6. CASE SupStartFails
    BY <2>1, <2>0, <2>6 DEF SupStartFails, SupAdvances
  <2>7. CASE SupSpawnFails
    BY <2>1, <2>0, <2>7 DEF SupSpawnFails, SupReturn, SupAdvances
  <2>8. CASE SupPublish
    BY <2>1, <2>0, <2>8 DEF SupPublish, SupReturn, SupAdvances
  <2> QED
    BY <1>3, <2>1, <2>3, <2>4, <2>5, <2>6, <2>7, <2>8 DEF SupStep
<1>4. ASSUME \/ \E i \in Ids : Kill(i) \/ MarkTargetUnavailable(i) \/ RemoveBegin(i)
             \/ \E i \in Ids, inc \in Incs : RequestTermination(i, inc)
             \/ SweepTick \/ SweepCheck
             \/ \E r \in Removers : RemoveStep(r) \/ RemoveDeleteFails(r)
      PROVE  UNCHANGED <<cr, sup>>
  BY <1>4 DEF Kill, MarkTargetUnavailable, RemoveBegin, RequestTermination, SweepTick, SweepCheck,
              RemoveStep, RemoveLock, RemoveDelete, RemoveEvict, RemoveDeleteFails, procVars
<1>5. ASSUME \/ DisposeBegin \/ DisposeStep \/ DisposeRemoveFails
             \/ TryClaimHandoff \/ TryClaimForcedHandoff \/ TryClaimAgentHandoff \/ Release
             \/ StopAll \/ Shutdown \/ JoinReaders
      PROVE  UNCHANGED <<cr, sup>>
  BY <1>5 DEF DisposeBegin, DisposeStep, DisposeMark, DisposeRemove, DisposeEvict, DisposeClear,
              DisposeUnmark, DisposeRemoveFails, TryClaimHandoff, TryClaimForcedHandoff,
              TryClaimAgentHandoff, Claim, Release, StopAll, Shutdown, JoinReaders, procVars
<1>6. ASSUME UNCHANGED vars PROVE UNCHANGED <<cr, sup>>
  BY <1>6 DEF vars, procVars
<1> QED
  BY <1>0, <1>01, <1>1, <1>2, <1>3, <1>4, <1>5, <1>6 DEF Next

\* A session that failed to start has its reader.
LEMMA BegunKept ==
    ASSUME IInv, Begun, [Next]_vars
    PROVE  Begun'
<1>1. \A n \in Incs : rd[n].pc # "none" => rd'[n].pc # "none"
  BY NextMoves, ZenonT(60) DEF Moves, Rests, Reports, Finishes, Kills, Reserves, Fails, Publishes,
       Exits, ExitsLate, Settles, Signals, Retains, Evicts, Prunes, ReadersKept, ReaderKept
<1>2. ASSUME NEW c \in Callers, cr'[c].pc \in {"unstart", "rekill"} PROVE rd'[cr'[c].inc].pc # "none"
  <2>1. cr[c].pc \in {"start", "unstart", "rekill"} /\ cr'[c].inc = cr[c].inc
    BY <1>2, TasksAdvance DEF CrAdvances
  <2>2. cr[c].inc \in Incs /\ rd[cr[c].inc].pc # "none"
    BY <2>1 DEF Begun, IInv, Started, TInv, NamedTasks, CrNamed
  <2> QED
    BY <1>1, <2>1, <2>2
<1>3. ASSUME sup'.pc = "unstart" PROVE rd'[sup'.new].pc # "none"
  <2>1. sup.pc \in {"start", "unstart"} /\ sup'.new = sup.new
    BY <1>3, TasksAdvance DEF SupAdvances
  <2>2. sup.new \in Incs /\ rd[sup.new].pc # "none"
    BY <2>1 DEF Begun, IInv, Started, TInv, NamedTasks, SupNamed
  <2> QED
    BY <1>1, <2>1, <2>2
<1> QED
  BY <1>2, <1>3 DEF Begun

-----------------------------------------------------------------------------
(***************************************************************************)
(* Incarnations nobody has used                                            *)
(***************************************************************************)
\* n has had no reader, nobody stopped it and no id is known by it.
Blank(n) == rd[n].pc = "none" /\ n \notin stopped /\ \A j \in Ids : n \notin Held(j)

\* An incarnation that is not handed out is blank, and so is one that a caller
\* or the supervisor has reserved and not yet spawned; the two never hold the
\* same; and a caller with a reservation has evicted what ran before.
Fresh ==
    /\ \A n \in Incs : n >= next_inc => Blank(n)
    /\ \A c \in Callers :
         /\ cr[c].pc = "spawn" => cr[c].inc < next_inc /\ Blank(cr[c].inc)
         /\ cr[c].pc \in {"reserve", "spawn"} => live[cr[c].id] = NoInc
    /\ SupWaits =>
         /\ sup.new < next_inc /\ Blank(sup.new)
         /\ \A c \in Callers : cr[c].pc = "spawn" => cr[c].inc # sup.new

\* A blank incarnation stays blank unless its own reservation is settled.
LEMMA BlankKept ==
    ASSUME IInv, NEW m \in Incs, Blank(m)
    PROVE  /\ Rests \/ Evicts \/ Prunes => Blank(m)'
           /\ \A i \in Ids :
                Kills(i) \/ Reserves(i) \/ Settles(i) \/ Signals(i) \/ Retains(i) => Blank(m)'
           /\ \A i \in Ids, n \in Incs :
                \/ Reports(i, n) \/ Finishes(i, n) \/ Exits(i, n) \/ ExitsLate(i, n)
                \/ n # m /\ (Fails(i, n) \/ Publishes(i, n))
                => Blank(m)'
<1> /\ live \in [Ids -> IncType] /\ dead \in [Ids -> DeadType] /\ failed \in [Ids -> FailedType]
  BY TypesHere
<1> m # NoInc
  BY DEF Incs, NoInc
<1> NoDead.inc = NoInc /\ NoFailed.inc = NoInc
  BY DEF NoDead, NoFailed
<1> /\ \A k, x : Tombstone(k, x).inc = k
    /\ \A k, x, b : [Tombstone(k, x) EXCEPT !.unavail = b].inc = k
    /\ \A k, x, b : [Tombstone(k, x) EXCEPT !.will_restart = b].inc = k
  BY DEF Tombstone, NoDead
<1>0. rd[m].pc = "none" /\ m \notin stopped
      /\ \A j \in Ids : m # live[j] /\ m # dead[j].inc /\ m # failed[j].inc
  BY DEF Blank, Held
<1>1. ASSUME ReaderKept(m), m \notin stopped',
             \A j \in Ids : m # live'[j] /\ m # dead'[j].inc /\ m # failed'[j].inc
      PROVE  Blank(m)'
  BY <1>0, <1>1 DEF Blank, Held, ReaderKept
<1>2. ASSUME Rests \/ Prunes PROVE Blank(m)'
  BY <1>0, <1>1, <1>2 DEF Rests, Prunes, ReadersKept
<1>3. ASSUME Evicts PROVE Blank(m)'
  <2>1. m \notin stopped'
    BY <1>0, <1>3 DEF Evicts, Held
  <2>2. ReaderKept(m)
    BY <1>3 DEF Evicts, ReadersKept
  <2>3. \A j \in Ids : m # live'[j] /\ m # dead'[j].inc /\ m # failed'[j].inc
    BY <1>0, <1>3 DEF Evicts
  <2> QED
    BY <1>1, <2>1, <2>2, <2>3
<1>4. ASSUME NEW i \in Ids, Kills(i) PROVE Blank(m)'
  <2>1. /\ live' = [live EXCEPT ![i] = NoInc]
        /\ dead' = IF live[i] # NoInc
                     THEN [dead EXCEPT ![i] = Tombstone(live[i], rd[live[i]].target)] ELSE dead
        /\ failed' = failed /\ ReaderKept(m)
        /\ stopped' = stopped \union ({live[i], dead[i].inc} \ {NoInc})
    BY <1>4 DEF Kills, KillInternalImpl, Stopped, ReadersKept
  <2>2. \A j \in Ids : m # live'[j] /\ m # dead'[j].inc
    BY <1>0, <2>1
  <2> QED
    BY <1>0, <1>1, <2>1, <2>2
<1>5. ASSUME NEW i \in Ids, Reserves(i) PROVE Blank(m)'
  <2>1. \A j \in Ids : failed'[j] \in {failed[j], NoFailed}
    BY <1>5 DEF Reserves, BeginReplacement
  <2>2. UNCHANGED <<live, dead, stopped>> /\ ReaderKept(m)
    BY <1>5 DEF Reserves, ReadersKept
  <2> QED
    BY <1>0, <1>1, <2>1, <2>2
<1>6. ASSUME NEW i \in Ids, Settles(i) \/ Signals(i) PROVE Blank(m)'
  <2>1. \A j \in Ids : dead'[j].inc = dead[j].inc
    BY <1>6 DEF Settles, Signals
  <2>2. UNCHANGED <<live, failed>> /\ stopped' \subseteq stopped \union {live[i], dead[i].inc}
        /\ ReaderKept(m)
    BY <1>6 DEF Settles, Signals, ReadersKept
  <2> QED
    BY <1>0, <1>1, <2>1, <2>2
<1>7. ASSUME NEW i \in Ids, Retains(i) PROVE Blank(m)'
  <2>0. [Tombstone(failed[i].inc, TRUE) EXCEPT !.unavail = TRUE].inc = failed[i].inc
    BY DEF Tombstone, NoDead
  <2>1. \A j \in Ids : dead'[j].inc \in {dead[j].inc, failed[i].inc} /\ failed'[j] \in {failed[j], NoFailed}
    BY <1>7, <2>0 DEF Retains
  <2>2. UNCHANGED <<live, stopped>> /\ ReaderKept(m)
    BY <1>7 DEF Retains, ReadersKept
  <2> QED
    BY <1>0, <1>1, <2>1, <2>2
<1>8. ASSUME NEW i \in Ids, NEW n \in Incs, Reports(i, n) \/ Finishes(i, n) \/ ExitsLate(i, n)
      PROVE  Blank(m)'
  <2>1. UNCHANGED <<live, dead, failed, stopped>> /\ ReaderKept(m)
    BY <1>8 DEF Reports, Finishes, ExitsLate, ReadersKept
  <2> QED
    BY <1>0, <1>1, <2>1
<1>9. ASSUME NEW i \in Ids, NEW n \in Incs, Exits(i, n) PROVE Blank(m)'
  <2>1. \A j \in Ids : live'[j] \in {live[j], NoInc} /\ dead'[j].inc \in {dead[j].inc, live[i]}
    BY <1>9 DEF Exits
  <2>2. UNCHANGED <<failed, stopped>> /\ ReaderKept(m)
    BY <1>9 DEF Exits, ReadersKept
  <2> QED
    BY <1>0, <1>1, <2>1, <2>2
<1>10. ASSUME NEW i \in Ids, NEW n \in Incs, n # m, Publishes(i, n) PROVE Blank(m)'
  <2>1. \A j \in Ids : live'[j] \in {live[j], n} /\ dead'[j] \in {dead[j], NoDead}
    BY <1>10 DEF Publishes
  <2>2. UNCHANGED <<failed, stopped>> /\ ReaderKept(m)
    BY <1>10 DEF Publishes
  <2> QED
    BY <1>0, <1>1, <1>10, <2>1, <2>2
<1>11. ASSUME NEW i \in Ids, NEW n \in Incs, n # m, Fails(i, n) PROVE Blank(m)'
  <2>0. PICK t, k \in BOOLEAN : FinishFailedReplacement(i, n, t, k)
    BY <1>11 DEF Fails
  <2>1. stopped' = stopped /\ ReaderKept(m)
    BY <1>11 DEF Fails, ReadersKept
  <2>2. \A j \in Ids : live'[j] \in {live[j], NoInc}
    BY <2>0 DEF FinishFailedReplacement
  <2>3. \A j \in Ids : failed'[j].inc \in {failed[j].inc, n}
    BY <2>0 DEF FinishFailedReplacement
  <2>4. \A j \in Ids : dead'[j].inc \in {dead[j].inc, n, NoInc}
    <3>1. \/ dead' = dead \/ dead' = [dead EXCEPT ![i] = NoDead]
          \/ dead' = [dead EXCEPT ![i] = [Tombstone(n, rd[n].target) EXCEPT !.unavail = k]]
          \/ dead' = [dead EXCEPT ![i].unavail = @ \/ k, ![i].will_restart = FALSE]
      BY <2>0 DEF FinishFailedReplacement
    <3>2. CASE dead' = [dead EXCEPT ![i].unavail = @ \/ k, ![i].will_restart = FALSE]
      BY <3>2 DEF DeadType
    <3>3. CASE dead' = [dead EXCEPT ![i] = [Tombstone(n, rd[n].target) EXCEPT !.unavail = k]]
      BY <3>3 DEF Tombstone, NoDead
    <3> QED
      BY <3>1, <3>2, <3>3
  <2> QED
    BY <1>0, <1>1, <1>11, <2>1, <2>2, <2>3, <2>4
<1> QED
  BY <1>2, <1>3, <1>4, <1>5, <1>6, <1>7, <1>8, <1>9, <1>10, <1>11

\* Moves that leave blank incarnations blank, start nothing and reserve nothing.
LEMMA FreshKept ==
    ASSUME IInv, Fresh, next_inc' \in {next_inc, next_inc + 1},
           \A m \in Incs : Blank(m) => Blank(m)',
           \A j \in Ids : live'[j] \in {live[j], NoInc}, SupKept,
           \A c \in Callers : CrKept(c) \/ (cr'[c].pc = "reserve" /\ live'[cr'[c].id] = NoInc)
    PROVE  Fresh'
<1> next_inc \in Nat /\ Incs \subseteq Nat
  BY TypesHere, IncFacts
<1>1. \A n \in Incs : n >= next_inc' => Blank(n)'
  BY DEF Fresh
<1>2. ASSUME NEW c \in Callers
      PROVE  /\ cr'[c].pc = "spawn" => cr'[c].inc < next_inc' /\ Blank(cr[c].inc)'
                                       /\ cr[c].pc = "spawn" /\ cr'[c].inc = cr[c].inc
             /\ cr'[c].pc \in {"reserve", "spawn"} => live'[cr'[c].id] = NoInc
  <2>1. CASE CrKept(c) /\ cr'[c].pc \in {"reserve", "spawn"}
    <3>1. cr[c].pc = cr'[c].pc /\ cr[c].id = cr'[c].id /\ cr[c].inc = cr'[c].inc /\ cr[c].id \in Ids
          /\ (cr[c].pc = "spawn" => cr[c].inc \in Incs)
      BY <2>1 DEF CrKept, IInv, TInv, NamedTasks, CrNamed
    <3>2. cr[c].pc = "spawn" => cr[c].inc < next_inc /\ Blank(cr[c].inc)
      BY DEF Fresh
    <3>3. live[cr[c].id] = NoInc
      BY <2>1, <3>1 DEF Fresh
    <3>4. cr[c].pc = "spawn" => cr[c].inc < next_inc'
      BY <3>1, <3>2 DEF Incs
    <3>5. cr'[c].pc = "spawn" => Blank(cr[c].inc)'
      BY <3>1, <3>2 DEF Blank
    <3> QED
      BY <3>1, <3>3, <3>4, <3>5
  <2> QED
    BY <2>1
<1>3. ASSUME SupWaits'
      PROVE  /\ sup'.new < next_inc' /\ Blank(sup.new)'
             /\ \A c \in Callers : cr'[c].pc = "spawn" => cr'[c].inc # sup'.new
  <2>1. SupWaits /\ sup'.new = sup.new /\ sup.new \in Incs
    BY <1>3 DEF SupKept, SupWaits, IInv, TInv, NamedTasks, SupNamed
  <2>2. sup.new < next_inc /\ Blank(sup.new) /\ \A c \in Callers : cr[c].pc = "spawn" => cr[c].inc # sup.new
    BY <2>1 DEF Fresh
  <2>3. sup.new < next_inc'
    BY <2>1, <2>2 DEF Incs
  <2>4. Blank(sup.new)'
    BY <2>1, <2>2 DEF Blank
  <2> QED
    BY <1>2, <2>1, <2>2, <2>3, <2>4
<1>4. SupWaits' => /\ sup'.new < next_inc' /\ Blank(sup.new)'
                   /\ \A c \in Callers : cr'[c].pc = "spawn" => cr'[c].inc # sup'.new
  BY <1>3
<1> QED
  BY <1>1, <1>2, <1>4 DEF Fresh

\* A reservation is settled by its holder, who is the only one to hold it.
LEMMA FreshSettled ==
    ASSUME IInv, Begun, Fresh, next_inc' = next_inc, NEW i \in Ids, NEW n \in Incs,
           LET P == {"spawn", "unstart"} IN SettledByCaller(i, n, P) \/ SettledBySup(i, n, P),
           \A m \in Incs \ {n} : Blank(m) => Blank(m)',
           \/ \A j \in Ids : live'[j] \in {live[j], NoInc}
           \/ \A c \in Callers : cr'[c].pc \notin {"reserve", "spawn"}
    PROVE  Fresh'
<1> next_inc \in Nat /\ Incs \subseteq Nat
  BY TypesHere, IncFacts
<1>0. n < next_inc
  <2>1. ~(n >= next_inc /\ rd[n].pc # "none")
    BY DEF Fresh, Blank
  <2>2. \/ \E c \in Callers : cr[c].pc \in {"spawn", "unstart"} /\ cr[c].inc = n
        \/ sup.pc \in {"spawn", "unstart"} /\ sup.new = n
    BY DEF SettledByCaller, SettledBySup
  <2> QED
    BY <2>1, <2>2 DEF Fresh, Begun, SupWaits
<1>1. \A m \in Incs : m >= next_inc' => Blank(m)'
  BY <1>0 DEF Fresh
<1>2. ASSUME NEW c \in Callers, cr'[c].pc \in {"reserve", "spawn"}
      PROVE  CrKept(c) /\ (cr[c].pc = "spawn" => cr[c].inc # n)
  <2>1. CASE SettledByCaller(i, n, {"spawn", "unstart"})
    <3>1. PICK d \in Callers : /\ cr[d].pc \in {"spawn", "unstart"} /\ cr[d].inc = n
                               /\ cr'[d].pc \notin {"reserve", "spawn"}
                               /\ \A e \in Callers \ {d} : CrKept(e)
      BY <2>1 DEF SettledByCaller
    <3>2. c # d /\ CrKept(c)
      BY <1>2, <3>1
    <3>3. CreateIn(c) /\ CreateIn(d)
      BY <1>2, <3>1, <3>2 DEF CrKept, CreateIn
    <3> QED
      BY <3>2, <3>3 DEF IInv, GateHeld
  <2>2. CASE SettledBySup(i, n, {"spawn", "unstart"})
    <3>1. cr' = cr /\ sup.new = n /\ sup.pc \in {"spawn", "unstart"}
      BY <2>2 DEF SettledBySup
    <3>2. sup.pc = "spawn" => (cr[c].pc = "spawn" => cr[c].inc # n)
      BY <3>1 DEF Fresh, SupWaits
    <3>3. sup.pc = "unstart" => rd[n].pc # "none"
      BY <3>1 DEF Begun
    <3>4. cr[c].pc = "spawn" => rd[cr[c].inc].pc = "none"
      BY DEF Fresh, Blank
    <3> QED
      BY <3>1, <3>2, <3>3, <3>4 DEF CrKept
  <2> QED
    BY <2>1, <2>2
<1>3. ASSUME NEW c \in Callers
      PROVE  /\ cr'[c].pc = "spawn" => cr'[c].inc < next_inc' /\ Blank(cr[c].inc)'
                                       /\ cr[c].pc = "spawn" /\ cr'[c].inc = cr[c].inc
             /\ cr'[c].pc \in {"reserve", "spawn"} => live'[cr'[c].id] = NoInc
  <2>1. CASE cr'[c].pc \in {"reserve", "spawn"}
    <3>1. cr[c].pc = cr'[c].pc /\ cr[c].id = cr'[c].id /\ cr[c].inc = cr'[c].inc /\ cr[c].id \in Ids
          /\ (cr[c].pc = "spawn" => cr[c].inc \in Incs /\ cr[c].inc # n)
      BY <1>2, <2>1 DEF CrKept, IInv, TInv, NamedTasks, CrNamed
    <3>2. cr[c].pc = "spawn" => cr[c].inc < next_inc /\ Blank(cr[c].inc)
      BY DEF Fresh
    <3>3. live[cr[c].id] = NoInc
      BY <2>1, <3>1 DEF Fresh
    <3>4. live'[cr[c].id] = NoInc
      BY <2>1, <3>1, <3>3
    <3>5. cr'[c].pc = "spawn" => Blank(cr[c].inc)'
      BY <3>1, <3>2 DEF Blank
    <3> QED
      BY <3>1, <3>2, <3>4, <3>5
  <2> QED
    BY <2>1
<1>4. ASSUME SupWaits'
      PROVE  /\ sup'.new < next_inc' /\ Blank(sup.new)'
             /\ \A c \in Callers : cr'[c].pc = "spawn" => cr'[c].inc # sup'.new
  <2>1. SettledByCaller(i, n, {"spawn", "unstart"})
    BY <1>4 DEF SettledBySup
  <2>2. SupWaits /\ sup'.new = sup.new /\ sup.new \in Incs
    BY <1>4, <2>1 DEF SettledByCaller, SupKept, SupWaits, IInv, TInv, NamedTasks, SupNamed
  <2>3. sup.new < next_inc /\ Blank(sup.new) /\ \A c \in Callers : cr[c].pc = "spawn" => cr[c].inc # sup.new
    BY <2>2 DEF Fresh
  <2>4. sup.new # n
    BY <2>1, <2>3 DEF SettledByCaller, Begun, Blank
  <2>5. Blank(sup.new)'
    BY <2>2, <2>3, <2>4 DEF Blank
  <2> QED
    BY <1>3, <2>2, <2>3, <2>5
<1>5. SupWaits' => /\ sup'.new < next_inc' /\ Blank(sup.new)'
                   /\ \A c \in Callers : cr'[c].pc = "spawn" => cr'[c].inc # sup'.new
  BY <1>4
<1> QED
  BY <1>1, <1>3, <1>5 DEF Fresh

\* Every move keeps unused incarnations unused.
LEMMA FreshMoves ==
    ASSUME IInv, Begun, Identity, Fresh, Moves
    PROVE  Fresh'
<1> /\ live \in [Ids -> IncType] /\ next_inc \in Nat /\ Incs \subseteq Nat
  BY TypesHere, IncFacts
<1>1. CASE Rests \/ Evicts \/ Prunes
  <2>1. \A m \in Incs : Blank(m) => Blank(m)'
    BY <1>1, BlankKept
  <2>2. /\ next_inc' \in {next_inc, next_inc + 1} /\ TasksKept
        /\ \A j \in Ids : live'[j] \in {live[j], NoInc}
    BY <1>1 DEF Rests, Evicts, Prunes
  <2> QED
    BY <2>1, <2>2, FreshKept DEF TasksKept
<1>2. ASSUME NEW i \in Ids, Kills(i) PROVE Fresh'
  <2>1. \A m \in Incs : Blank(m) => Blank(m)'
    BY <1>2, BlankKept
  <2>2. next_inc' = next_inc /\ SupKept /\ live' = [live EXCEPT ![i] = NoInc]
    BY <1>2 DEF Kills, KillInternalImpl
  <2>3. \A c \in Callers : CrKept(c) \/ (cr'[c].pc = "reserve" /\ live'[cr'[c].id] = NoInc)
    BY <1>2, <2>2 DEF Kills
  <2> QED
    BY <2>1, <2>2, <2>3, FreshKept
<1>3. ASSUME NEW i \in Ids, Settles(i) \/ Signals(i) \/ Retains(i) PROVE Fresh'
  <2>1. \A m \in Incs : Blank(m) => Blank(m)'
    BY <1>3, BlankKept
  <2>2. next_inc' = next_inc /\ TasksKept /\ live' = live
    BY <1>3 DEF Settles, Signals, Retains
  <2> QED
    BY <2>1, <2>2, FreshKept DEF TasksKept
<1>4. ASSUME NEW i \in Ids, NEW n \in Incs,
             Reports(i, n) \/ Finishes(i, n) \/ Exits(i, n) \/ ExitsLate(i, n)
      PROVE  Fresh'
  <2>1. \A m \in Incs : Blank(m) => Blank(m)'
    BY <1>4, BlankKept
  <2>2. next_inc' = next_inc /\ TasksKept /\ \A j \in Ids : live'[j] \in {live[j], NoInc}
    BY <1>4 DEF Reports, Finishes, Exits, ExitsLate
  <2> QED
    BY <2>1, <2>2, FreshKept DEF TasksKept
<1>5. ASSUME NEW i \in Ids, NEW n \in Incs, Fails(i, n) PROVE Fresh'
  <2>1. \A m \in Incs \ {n} : Blank(m) => Blank(m)'
    BY <1>5, BlankKept
  <2>2. /\ next_inc' = next_inc
        /\ LET P == {"spawn", "unstart"} IN SettledByCaller(i, n, P) \/ SettledBySup(i, n, P)
    BY <1>5 DEF Fails
  <2>3. \A j \in Ids : live'[j] \in {live[j], NoInc}
    BY <1>5 DEF Fails, FinishFailedReplacement
  <2> QED
    BY <2>1, <2>2, <2>3, FreshSettled
<1>6. ASSUME NEW i \in Ids, NEW n \in Incs, Publishes(i, n) PROVE Fresh'
  <2>1. \A m \in Incs \ {n} : Blank(m) => Blank(m)'
    BY <1>6, BlankKept
  <2>2. next_inc' = next_inc
    BY <1>6 DEF Publishes
  <2>3. /\ LET P == {"spawn", "unstart"} IN SettledByCaller(i, n, P) \/ SettledBySup(i, n, P)
        /\ \A c \in Callers : cr'[c].pc \notin {"reserve", "spawn"}
    <3>1. CASE SettledByCaller(i, n, {"spawn"})
      <4>1. PICK d \in Callers : /\ cr[d].pc = "spawn" /\ cr'[d].pc \notin {"reserve", "spawn"}
                                 /\ \A e \in Callers \ {d} : CrKept(e)
        BY <3>1 DEF SettledByCaller
      <4>2. \A e \in Callers \ {d} : ~CreateIn(e)
        BY <4>1 DEF IInv, GateHeld, CreateIn
      <4> QED
        BY <3>1, <4>1, <4>2 DEF SettledByCaller, CrKept, CreateIn
    <3>2. CASE SettledBySup(i, n, {"spawn"}) /\ \A c \in Callers : ~CreateIn(c)
      BY <3>2 DEF SettledBySup, CreateIn
    <3> QED
      BY <1>6, <3>1, <3>2 DEF Publishes
  <2> QED
    BY <2>1, <2>2, <2>3, FreshSettled
<1>7. ASSUME NEW i \in Ids, Reserves(i) PROVE Fresh'
  <2>1. \A m \in Incs : Blank(m) => Blank(m)'
    BY <1>7, BlankKept
  <2>2. next_inc \in Incs /\ next_inc' = next_inc + 1 /\ live' = live
    BY <1>7, BeginTypes DEF Reserves, BeginReplacement, IInv, TInv
  <2>3. Blank(next_inc) /\ next_inc < next_inc'
    BY <2>2 DEF Fresh
  <2>4. \A n \in Incs : n >= next_inc' => Blank(n)'
    BY <2>1, <2>2 DEF Fresh
  <2>5. ASSUME NEW c \in Callers
        PROVE  /\ cr'[c].pc = "spawn" => /\ cr'[c].inc < next_inc' /\ Blank(cr[c].inc)'
                                         /\ \/ cr[c].pc = "spawn" /\ cr'[c].inc = cr[c].inc
                                            \/ cr'[c].inc = next_inc /\ SupKept
               /\ cr'[c].pc \in {"reserve", "spawn"} => live'[cr'[c].id] = NoInc
    <3>1. CASE CrKept(c) /\ cr'[c].pc \in {"reserve", "spawn"}
      <4>1. cr[c].pc = cr'[c].pc /\ cr[c].id = cr'[c].id /\ cr[c].inc = cr'[c].inc
            /\ (cr[c].pc = "spawn" => cr[c].inc \in Incs)
        BY <3>1 DEF CrKept, IInv, TInv, NamedTasks, CrNamed
      <4>2. cr[c].pc = "spawn" => cr[c].inc < next_inc /\ Blank(cr[c].inc)
        BY DEF Fresh
      <4>3. live[cr[c].id] = NoInc
        BY <3>1, <4>1 DEF Fresh
      <4>4. cr'[c].pc = "spawn" => cr[c].inc < next_inc' /\ Blank(cr[c].inc)'
        BY <2>1, <2>2, <4>1, <4>2 DEF Blank, Incs
      <4> QED
        BY <2>2, <4>1, <4>3, <4>4
    <3>2. CASE /\ SupKept /\ cr[c].pc = "reserve" /\ cr[c].id = i /\ cr'[c].pc # "reserve"
               /\ cr'[c].pc = "spawn" => cr'[c].id = i /\ cr'[c].inc = next_inc
      <4>1. live[i] = NoInc
        BY <3>2 DEF Fresh
      <4>2. cr'[c].pc = "spawn" => Blank(cr[c].inc)'
        BY <2>1, <2>2, <2>3, <3>2 DEF Blank
      <4> QED
        BY <2>2, <2>3, <3>2, <4>1, <4>2
    <3>3. CASE cr' = cr
      BY <3>1, <3>3 DEF CrKept
    <3> QED
      BY <1>7, <3>1, <3>2, <3>3 DEF Reserves
  <2>6. ASSUME SupWaits'
        PROVE  /\ sup'.new < next_inc' /\ Blank(sup.new)'
               /\ \A c \in Callers : cr'[c].pc = "spawn" => cr'[c].inc # sup'.new
    <3>1. CASE SupKept
      <4>1. SupWaits /\ sup'.new = sup.new /\ sup.new \in Incs
        BY <2>6, <3>1 DEF SupKept, SupWaits, IInv, TInv, NamedTasks, SupNamed
      <4>2. sup.new < next_inc /\ Blank(sup.new) /\ \A c \in Callers : cr[c].pc = "spawn" => cr[c].inc # sup.new
        BY <4>1 DEF Fresh
      <4>3. Blank(sup.new)' /\ sup.new < next_inc'
        BY <2>1, <2>2, <4>1, <4>2 DEF Blank, Incs
      <4> QED
        BY <2>5, <4>1, <4>2, <4>3
    <3>2. CASE ~SupKept
      <4>1. cr' = cr /\ sup'.new = next_inc
        BY <1>7, <2>6, <3>2 DEF Reserves
      <4>2. Blank(sup.new)'
        BY <2>1, <2>2, <2>3, <4>1 DEF Blank
      <4>3. \A c \in Callers : cr[c].pc = "spawn" => cr[c].inc < next_inc
        BY DEF Fresh
      <4> QED
        BY <2>2, <2>3, <4>1, <4>2, <4>3
    <3> QED
      BY <3>1, <3>2
  <2>7. SupWaits' => /\ sup'.new < next_inc' /\ Blank(sup.new)'
                     /\ \A c \in Callers : cr'[c].pc = "spawn" => cr'[c].inc # sup'.new
    BY <2>6
  <2> QED
    BY <2>4, <2>5, <2>7 DEF Fresh
<1> QED
  BY <1>1, <1>2, <1>3, <1>4, <1>5, <1>6, <1>7 DEF Moves

-----------------------------------------------------------------------------
(***************************************************************************)
(* Nothing that was stopped comes back                                     *)
(***************************************************************************)
\* The reader of a live session is the session's own until it is done.
Owned ==
    \A j \in Ids : live[j] # NoInc =>
        /\ rd[live[j]].pc # "none"
        /\ rd[live[j]].pc # "done" => rd[live[j]].id = j

\* Every move keeps the readers of live sessions theirs.
LEMMA OwnedMoves ==
    ASSUME IInv, Identity, Owned, Moves
    PROVE  Owned'
<1> live \in [Ids -> IncType] /\ pending \in [Ids -> IncType]
  BY TypesHere
<1>0. \A j \in Ids : live[j] # NoInc => live[j] \in Incs
  BY DEF IncType
<1>1. ASSUME ReadersKept, \A j \in Ids : live'[j] \in {live[j], NoInc} PROVE Owned'
  BY <1>0, <1>1 DEF Owned, ReadersKept, ReaderKept
<1>2. ASSUME NEW i \in Ids, NEW n \in Incs, Publishes(i, n) PROVE Owned'
  <2>1. /\ \A j \in Ids : live'[j] = IF j = i THEN n ELSE live[j]
        /\ rd'[n].pc = "starting" /\ rd'[n].id = i
        /\ \A m \in Incs \ {n} : ReaderKept(m)
    BY <1>2 DEF Publishes
  <2>2. \A j \in Ids \ {i} : live[j] # n
    BY <1>2 DEF Publishes, ReplacementIsCurrent, Identity, Apart, Known, Incs, NoInc
  <2> QED
    BY <1>0, <2>1, <2>2 DEF Owned, ReaderKept
<1>3. ASSUME NEW i \in Ids, NEW n \in Incs, Fails(i, n) PROVE Owned'
  BY <1>1, <1>3 DEF Fails, FinishFailedReplacement
<1>4. ASSUME NEW i \in Ids, Kills(i) PROVE Owned'
  BY <1>1, <1>4 DEF Kills, KillInternalImpl
<1>5. ASSUME NEW i \in Ids, NEW n \in Incs, Exits(i, n) PROVE Owned'
  BY <1>1, <1>5 DEF Exits
<1> QED
  BY <1>1, <1>2, <1>3, <1>4, <1>5 DEF Moves, Rests, Evicts, Prunes, Reserves, Settles, Signals, Retains,
     Reports, Finishes, ExitsLate

\* A tombstone that waits for its restart was not stopped, unless it is marked.
WaitsUnstopped ==
    \A i \in Ids : dead[i].will_restart /\ ~dead[i].cancelled /\ i \notin killed =>
        dead[i].inc \notin stopped

\* A live session that was stopped is marked.
LiveMarked == \A i \in Ids : live[i] \in stopped => i \in killed \/ live[i] \in termreq

\* The source of the respawn that is under way was not stopped, unless it has
\* lost its reservation, its tombstone or is marked.
SourceUnstopped ==
    SupWaits /\ pending[sup.id] = sup.new =>
        /\ live[sup.id] = NoInc
        /\ dead[sup.id].inc = sup.inc /\ sup.id \notin killed => sup.inc \notin stopped

Stops == WaitsUnstopped /\ LiveMarked /\ SourceUnstopped

\* The supervisor keeps the reservation that stands, and nothing of its id is
\* stopped that was not.
LEMMA SourceKept ==
    ASSUME IInv', SourceUnstopped, SupKept,
           SupWaits /\ pending'[sup.id] = sup.new =>
               /\ pending[sup.id] = sup.new
               /\ live[sup.id] = NoInc => live'[sup.id] = NoInc
               /\ dead'[sup.id].inc = sup.inc /\ sup.inc # NoInc /\ sup.id \notin killed' =>
                    dead[sup.id].inc = sup.inc /\ sup.id \notin killed
               /\ dead[sup.id].inc = sup.inc /\ sup.inc \notin stopped => sup.inc \notin stopped'
    PROVE  SourceUnstopped'
<1>1. ASSUME SupWaits', pending'[sup'.id] = sup'.new PROVE SupWaits /\ sup'.id = sup.id
             /\ sup'.inc = sup.inc /\ sup'.new = sup.new
  BY <1>1 DEF SupKept
<1>2. NoInc \notin stopped'
  BY DEF IInv, TInv, TypeOK, InnerTypeOK, TaskTypeOK, EnvTypeOK, Incs, NoInc
<1> QED
  BY <1>1, <1>2 DEF SourceUnstopped

\* Steps that stop nothing that a tombstone or a live session of another id has.
LEMMA StoppedApart ==
    ASSUME IInv, IInv', Identity, NEW i \in Ids,
           stopped' \subseteq stopped \union {live[i], dead[i].inc, failed[i].inc},
           NEW j \in Ids, j # i
    PROVE  /\ live[j] \in stopped' => live[j] \in stopped
           /\ dead[j].inc \in stopped' => dead[j].inc \in stopped
<1> NoInc \notin stopped'
  BY DEF IInv, TInv, TypeOK, InnerTypeOK, TaskTypeOK, EnvTypeOK, Incs, NoInc
<1> Known(i) \intersect Known(j) = {}
  BY DEF Identity, Apart
<1> QED
  BY DEF Known

\* Every move keeps what was stopped stopped.
LEMMA StopsMoves ==
    ASSUME IInv, IInv', Identity, Fresh, Owned, Stops, Moves
    PROVE  Stops'
<1> /\ live \in [Ids -> IncType] /\ pending \in [Ids -> IncType] /\ dead \in [Ids -> DeadType]
    /\ failed \in [Ids -> FailedType]
    /\ next_inc \in Nat /\ stopped \subseteq Incs /\ killed \subseteq Ids
  BY TypesHere
<1> NoInc \notin stopped
  BY DEF Incs, NoInc
<1>01. NoInc \notin stopped'
  BY DEF IInv, TInv, TypeOK, InnerTypeOK, TaskTypeOK, EnvTypeOK, Incs, NoInc
<1>02. SupWaits => sup.id \in Ids /\ sup.new \in Incs /\ sup.new # NoInc
  BY DEF SupWaits, IInv, TInv, NamedTasks, SupNamed, Incs, NoInc
<1> NoDead.inc = NoInc /\ NoFailed.inc = NoInc /\ ~NoDead.will_restart
  BY DEF NoDead, NoFailed
<1> WaitsUnstopped /\ LiveMarked /\ SourceUnstopped
  BY DEF Stops
<1>1. ASSUME Rests PROVE Stops'
  <2>1. UNCHANGED <<live, dead, failed, pending, killed, stopped, termreq>> /\ SupKept
    BY <1>1 DEF Rests, TasksKept
  <2>2. SourceUnstopped'
    BY <2>1, SourceKept
  <2> QED
    BY <2>1, <2>2 DEF Stops, WaitsUnstopped, LiveMarked
<1>2. ASSUME NEW i \in Ids, NEW n \in Incs, Reports(i, n) \/ Finishes(i, n) PROVE Stops'
  <2>1. UNCHANGED <<live, dead, failed, killed, stopped, termreq>> /\ SupKept
        /\ \A j \in Ids : pending'[j] \in {pending[j], NoInc}
    BY <1>2 DEF Reports, Finishes, TasksKept, FinishReplacement
  <2>2. SourceUnstopped'
    BY <1>02, <2>1, SourceKept
  <2> QED
    BY <2>1, <2>2 DEF Stops, WaitsUnstopped, LiveMarked
<1>3. ASSUME NEW i \in Ids, NEW n \in Incs, ExitsLate(i, n) PROVE Stops'
  <2>1. UNCHANGED <<live, dead, failed, pending, killed, stopped>> /\ SupKept
        /\ termreq' = termreq \ {n} /\ rd[n].pc = "running" /\ rd[n].id = i /\ live[i] # n
    BY <1>3 DEF ExitsLate, TasksKept
  <2>2. SourceUnstopped'
    BY <2>1, SourceKept
  <2>3. \A j \in Ids : live[j] # n
    BY <2>1 DEF Owned, Incs, NoInc
  <2> QED
    BY <2>1, <2>2, <2>3 DEF Stops, WaitsUnstopped, LiveMarked
<1>4. ASSUME NEW i \in Ids, Retains(i) PROVE Stops'
  <2>0. ~[Tombstone(failed[i].inc, TRUE) EXCEPT !.unavail = TRUE].will_restart
    BY DEF Tombstone, NoDead
  <2>1. UNCHANGED <<live, pending, killed, stopped, termreq>> /\ SupKept
        /\ ~dead'[i].will_restart /\ pending[i] = NoInc /\ \A j \in Ids \ {i} : dead'[j] = dead[j]
    BY <1>4, <2>0 DEF Retains, TasksKept
  <2>2. SourceUnstopped'
    BY <1>02, <2>1, SourceKept
  <2> QED
    BY <2>1, <2>2 DEF Stops, WaitsUnstopped, LiveMarked
<1>5. ASSUME NEW i \in Ids, Settles(i) PROVE Stops'
  <2>1. UNCHANGED <<live, pending, killed, termreq>> /\ SupKept
        /\ ~dead'[i].will_restart /\ dead'[i].inc = dead[i].inc
        /\ \A j \in Ids \ {i} : dead'[j] = dead[j]
    BY <1>5 DEF Settles, TasksKept
  <2>2. \/ stopped' = stopped
        \/ /\ live[i] = NoInc /\ pending[i] = NoInc
           /\ stopped' = stopped \union {dead[i].inc}
    BY <1>5 DEF Settles
  <2>3. \A j \in Ids \ {i} : /\ live[j] \in stopped' => live[j] \in stopped
                             /\ dead[j].inc \in stopped' => dead[j].inc \in stopped
    BY <2>2, StoppedApart
  <2>4. SourceUnstopped'
    BY <1>02, <2>1, <2>2, <2>3, SourceKept
  <2> QED
    BY <1>01, <2>1, <2>2, <2>3, <2>4 DEF Stops, WaitsUnstopped, LiveMarked
<1>6. ASSUME NEW i \in Ids, Signals(i) PROVE Stops'
  <2>1. UNCHANGED <<live, dead, pending, killed>> /\ SupKept /\ live[i] # NoInc
        /\ stopped' = stopped \union {live[i]} /\ termreq' = termreq \union {live[i]}
    BY <1>6 DEF Signals, TasksKept
  <2>2. \A j \in Ids \ {i} : /\ live[j] \in stopped' => live[j] \in stopped
                             /\ dead[j].inc \in stopped' => dead[j].inc \in stopped
    BY <2>1, StoppedApart
  <2>3. dead[i].inc \notin stopped'
    BY <1>01, <2>1 DEF Identity, Alone
  <2>4. SourceUnstopped'
    BY <1>02, <2>1, <2>2, SourceKept DEF SourceUnstopped
  <2> QED
    BY <2>1, <2>2, <2>3, <2>4 DEF Stops, WaitsUnstopped, LiveMarked
<1>7. ASSUME NEW i \in Ids, Kills(i) PROVE Stops'
  <2>1. SupKept /\ termreq' = termreq /\ killed' = killed \union {i}
        /\ live'[i] = NoInc /\ pending'[i] = NoInc
        /\ stopped' = stopped \union ({live[i], dead[i].inc} \ {NoInc})
        /\ \A j \in Ids \ {i} : live'[j] = live[j] /\ dead'[j] = dead[j] /\ pending'[j] = pending[j]
    BY <1>7 DEF Kills, KillInternalImpl, Stopped
  <2>2. \A j \in Ids \ {i} : /\ live[j] \in stopped' => live[j] \in stopped
                             /\ dead[j].inc \in stopped' => dead[j].inc \in stopped
    BY <2>1, StoppedApart
  <2>3. SourceUnstopped'
    BY <1>02, <2>1, <2>2, SourceKept
  <2> QED
    BY <1>01, <2>1, <2>2, <2>3 DEF Stops, WaitsUnstopped, LiveMarked
<1>8. ASSUME NEW i \in Ids, NEW n \in Incs, Exits(i, n) PROVE Stops'
  <2>0. PICK w \in BOOLEAN :
          /\ w => i \notin killed /\ n \notin termreq
          /\ dead' = [dead EXCEPT ![i] = [Tombstone(n, rd[n].target) EXCEPT !.will_restart = w]]
    BY <1>8 DEF Exits
  <2>1. /\ UNCHANGED <<pending, killed, stopped, termreq>> /\ SupKept
        /\ live[i] = n /\ live'[i] = NoInc
        /\ \A j \in Ids \ {i} : live'[j] = live[j] /\ dead'[j] = dead[j]
    BY <1>8, <2>0 DEF Exits, TasksKept
  <2>2. dead'[i].will_restart = w /\ dead'[i].inc = n
    BY <2>0 DEF Tombstone, NoDead
  <2>3. w => n \notin stopped
    BY <2>0, <2>1 DEF LiveMarked
  <2>4. SourceUnstopped'
    BY <1>02, <2>1, SourceKept DEF SourceUnstopped, Incs, NoInc
  <2> QED
    BY <2>1, <2>2, <2>3, <2>4 DEF Stops, WaitsUnstopped, LiveMarked
<1>9. ASSUME NEW i \in Ids, NEW n \in Incs, Publishes(i, n) PROVE Stops'
  <2>1. /\ UNCHANGED <<pending, stopped, termreq>> /\ pending[i] = n
        /\ killed' = killed \ {i} /\ live'[i] = n /\ dead'[i] = NoDead
        /\ \A j \in Ids \ {i} : live'[j] = live[j] /\ dead'[j] = dead[j]
    BY <1>9 DEF Publishes, ReplacementIsCurrent
  <2>2. n \notin stopped
    BY <1>9 DEF Publishes, SettledByCaller, SettledBySup, Fresh, Blank, SupWaits
  <2>3. SupKept /\ (SupWaits' => n # sup.new)
    BY <1>9 DEF Publishes, SettledByCaller, SettledBySup, Fresh, SupKept
  <2>4. SourceUnstopped'
    <3>1. SupWaits /\ pending'[sup.id] = sup.new /\ SupWaits' => sup.id # i
      BY <2>1, <2>3
    <3>2. CASE SupWaits'
      BY <1>02, <2>1, <2>3, <3>1, <3>2, SourceKept
    <3>3. CASE ~SupWaits'
      BY <3>3 DEF SourceUnstopped
    <3> QED
      BY <3>2, <3>3
  <2> QED
    BY <2>1, <2>2, <2>4 DEF Stops, WaitsUnstopped, LiveMarked
<1>10. ASSUME NEW i \in Ids, NEW n \in Incs, Fails(i, n) PROVE Stops'
  <2>0. PICK t, k \in BOOLEAN : FinishFailedReplacement(i, n, t, k)
    BY <1>10 DEF Fails
  <2>1. UNCHANGED <<killed, stopped, termreq>> /\ SupKept
    BY <1>10 DEF Fails, SettledByCaller, SettledBySup, SupKept
  <2>2. \A j \in Ids : live'[j] \in {live[j], NoInc} /\ pending'[j] \in {pending[j], NoInc}
    BY <2>0 DEF FinishFailedReplacement, FinishReplacement
  <2>3. \A j \in Ids : dead'[j] = dead[j] \/ (~dead'[j].will_restart /\ pending'[j] = NoInc)
    <3>1. pending[i] = n => FinishReplacement(i, n)[i] = NoInc
      BY DEF FinishReplacement
    <3>2. CASE dead' = dead
      BY <3>2
    <3>3. CASE pending'[i] = NoInc /\ dead' = [dead EXCEPT ![i] = NoDead]
      BY <3>3
    <3>4. CASE /\ pending'[i] = NoInc
               /\ dead' = [dead EXCEPT ![i] = [Tombstone(n, rd[n].target) EXCEPT !.unavail = k]]
      <4>1. ~[Tombstone(n, rd[n].target) EXCEPT !.unavail = k].will_restart
        BY DEF Tombstone, NoDead
      <4> QED
        BY <3>4, <4>1
    <3>5. CASE /\ pending'[i] = NoInc
               /\ dead' = [dead EXCEPT ![i].unavail = @ \/ k, ![i].will_restart = FALSE]
      BY <3>5 DEF DeadType
    <3> QED
      BY <2>0, <3>1, <3>2, <3>3, <3>4, <3>5 DEF FinishFailedReplacement, ReplacementIsCurrent
  <2>4. SourceUnstopped'
    BY <1>02, <2>1, <2>2, <2>3, SourceKept
  <2> QED
    BY <2>1, <2>2, <2>3, <2>4 DEF Stops, WaitsUnstopped, LiveMarked
<1>11. ASSUME NEW i \in Ids, Reserves(i) PROVE Stops'
  <2>1. /\ UNCHANGED <<live, dead, killed, stopped, termreq>>
        /\ pending'[i] = next_inc /\ \A j \in Ids \ {i} : pending'[j] = pending[j]
    BY <1>11 DEF Reserves, BeginReplacement
  <2>2. SourceUnstopped'
    <3>1. CASE SupKept
      <4>1. SupWaits => sup.new # next_inc
        BY <1>02 DEF Fresh, Incs
      <4> QED
        BY <1>02, <2>1, <3>1, <4>1, SourceKept
    <3>2. CASE ~SupKept
      <4>1. /\ SupWaits' => sup'.id = i /\ sup'.inc = sup.inc
            /\ RespawnAdmissionIsCurrent(i, sup.inc)
        BY <1>11, <3>2 DEF Reserves
      <4>2. live[i] = NoInc /\ dead[i].inc = sup.inc /\ sup.inc \notin stopped
        BY <4>1 DEF RespawnAdmissionIsCurrent, RespawnSourceIsCurrent, WaitsUnstopped
      <4> QED
        BY <2>1, <4>1, <4>2 DEF SourceUnstopped
    <3> QED
      BY <3>1, <3>2
  <2> QED
    BY <2>1, <2>2 DEF Stops, WaitsUnstopped, LiveMarked
<1>12. ASSUME Prunes PROVE Stops'
  <2>1. UNCHANGED <<live, dead, pending, stopped>> /\ SupKept /\ killed' \subseteq killed
        /\ \A n \in termreq \ termreq' : \A i \in Ids : live[i] # n
    BY <1>12 DEF Prunes, TasksKept
  <2>2. \A i \in killed \ killed' : live[i] = NoInc /\ dead[i].inc = NoInc /\ pending[i] = NoInc
    BY <1>12 DEF Prunes, CurrentInc
  <2>3. SourceUnstopped'
    BY <1>02, <2>1, <2>2, SourceKept
  <2> QED
    BY <2>1, <2>2, <2>3 DEF Stops, WaitsUnstopped, LiveMarked
<1>13. ASSUME Evicts PROVE Stops'
  <2>1. /\ \A i \in Ids : /\ live'[i] \in {live[i], NoInc} /\ dead'[i] \in {dead[i], NoDead}
                          /\ pending'[i] \in {pending[i], NoInc}
        /\ SupKept /\ killed \subseteq killed' /\ stopped \subseteq stopped'
        /\ \A n \in termreq \ termreq' : \A i \in Ids : live'[i] # n
    BY <1>13 DEF Evicts, TasksKept
  <2>2. ASSUME NEW j \in Ids, NEW n \in {live[j], dead[j].inc}, n \in stopped', n \notin stopped
        PROVE  pending'[j] = NoInc /\ (n \in {live'[j], dead'[j].inc} => j \in killed')
    <3>1. PICK i \in Ids : /\ n \in Held(i) /\ pending'[i] = NoInc
                           /\ n \in {live'[i], dead'[i].inc} => i \in killed'
      BY <1>13, <2>2 DEF Evicts
    <3>2. i = j
      BY <1>01, <2>2, <3>1 DEF Held, Known, Identity, Apart
    <3> QED
      BY <3>1, <3>2
  <2>3. SourceUnstopped'
    BY <1>02, <2>1, <2>2, SourceKept
  <2>4. WaitsUnstopped'
    BY <1>01, <2>1, <2>2 DEF WaitsUnstopped
  <2>5. LiveMarked'
    BY <1>01, <2>1, <2>2 DEF LiveMarked
  <2> QED
    BY <2>3, <2>4, <2>5 DEF Stops
<1> QED
  BY <1>1, <1>2, <1>3, <1>4, <1>5, <1>6, <1>7, <1>8, <1>9, <1>10, <1>11, <1>12, <1>13 DEF Moves

-----------------------------------------------------------------------------
(***************************************************************************)
(* What holds of every session, always                                     *)
(***************************************************************************)
SessionInv == IInv /\ Begun /\ Identity /\ Fresh /\ Owned /\ Stops

\* The manager starts with no session, no reservation and nothing stopped.
LEMMA InitSession == Init => SessionInv
<1> SUFFICES ASSUME Init PROVE SessionInv
  OBVIOUS
<1>1. IInv
  BY InitIInv
<1>2. Begun
  BY DEF Init, Begun, IdleCr, IdleSup
<1>3. \A i \in Ids : live[i] = NoInc /\ pending[i] = NoInc /\ lastEvt[i] = NoInc
                     /\ dead[i].inc = NoInc /\ failed[i].inc = NoInc /\ next_inc = 1
  BY DEF Init, NoEntries, NoDead, NoFailed
<1>4. \A i \in Ids : Known(i) = {}
  BY <1>3 DEF Known
<1>5. Identity
  BY <1>3, <1>4 DEF Identity, Apart, Alone, Ordered, NoInc
<1>6. stopped = {} /\ rd = [n \in Incs |-> NoReader] /\ NoReader.pc = "none"
      /\ ~SupWaits /\ \A c \in Callers : cr[c].pc = "idle"
  BY DEF Init, NoReader, SupWaits, IdleSup, IdleCr
<1>7. Fresh
  BY <1>3, <1>6 DEF Fresh, Blank, Held
<1>8. Owned /\ Stops
  BY <1>3, <1>6 DEF Owned, Stops, WaitsUnstopped, LiveMarked, SourceUnstopped
<1> QED
  BY <1>1, <1>2, <1>5, <1>7, <1>8 DEF SessionInv

\* Every step keeps the invariant: the actions are moves, and the moves keep it.
LEMMA NextSession == SessionInv /\ [Next]_vars => SessionInv'
<1> SUFFICES ASSUME SessionInv, [Next]_vars PROVE SessionInv'
  OBVIOUS
<1>1. IInv'
  BY NextIInv DEF SessionInv
<1>2. Moves
  BY NextMoves DEF SessionInv
<1>3. Begun' /\ Identity' /\ Fresh' /\ Owned'
  BY <1>2, BegunKept, IdentityKept, FreshMoves, OwnedMoves DEF SessionInv
<1>4. Stops'
  BY <1>1, <1>2, StopsMoves DEF SessionInv
<1> QED
  BY <1>1, <1>3, <1>4 DEF SessionInv

\* Through every kill, create, exit, respawn and failure of those an id is
\* never at once a live session, a tombstone and a failed replacement.
THEOREM IdentityIsOne == Spec => []OneIdentity
<1>1. SessionInv => OneIdentity
  BY DEF SessionInv, Identity, Alone, OneIdentity
<1> QED
  BY <1>1, InitSession, NextSession, PTL DEF Spec

\* No client is told of an older incarnation after a newer one of its id.
THEOREM EventsInOrder == Spec => EventsMonotone
<1>1. ASSUME SessionInv, [Next]_vars PROVE [\A i \in Ids : lastEvt'[i] >= lastEvt[i]]_vars
  <2> \A i \in Ids : lastEvt[i] \in Nat
    BY <1>1, TypesHere, IncFacts DEF SessionInv
  <2> lastEvt \in [Ids -> IncType]
    BY <1>1, TypesHere DEF SessionInv
  <2>1. Moves
    BY <1>1, NextMoves DEF SessionInv
  <2>2. ASSUME lastEvt' = lastEvt PROVE \A i \in Ids : lastEvt'[i] >= lastEvt[i]
    BY <2>2
  <2>3. ASSUME NEW i \in Ids, NEW n \in Incs, Reports(i, n)
        PROVE  \A j \in Ids : lastEvt'[j] >= lastEvt[j]
    <3>1. n \in Known(i)
      BY <1>1, <2>3 DEF Reports, EventIsCurrent, Known, Incs, NoInc
    <3>2. lastEvt[i] <= n /\ n \in Nat
      BY <1>1, <3>1 DEF SessionInv, Identity, Ordered, Incs
    <3> QED
      BY <2>3, <3>2 DEF Reports
  <2> QED
    BY <2>1, <2>2, <2>3 DEF Moves, Rests, Finishes, Kills, Reserves, Fails, Publishes, Exits,
       ExitsLate, Settles, Signals, Retains, Evicts, Prunes
<1> QED
  BY <1>1, InitSession, NextSession, PTL DEF Spec, EventsMonotone

\* A session that somebody killed, removed, terminated or whose restart was
\* cancelled is never the source of a process that the supervisor starts.
THEOREM NothingResurrects == Spec => NeverResurrect
<1>1. ASSUME SessionInv, [Next]_vars
      PROVE  sup.pc = "spawn" /\ sup'.pc = "start" => sup.inc \notin stopped
  <2> SUFFICES ASSUME sup.pc = "spawn", sup'.pc = "start" PROVE sup.inc \notin stopped
    OBVIOUS
  <2>1. SupPublish
    BY <1>1, TasksAdvance DEF SessionInv, SupAdvances
  <2>2. RespawnReplacementIsCurrent(sup.id, sup.inc, sup.new)
    <3>1. ASSUME SupReturn(IF RespawnReplacementIsCurrent(sup.id, sup.inc, sup.new)
                             THEN IdleSup ELSE [sup EXCEPT !.pc = "failed"])
          PROVE  FALSE
      BY <1>1, <3>1, TypesHere DEF SessionInv, SupReturn, IdleSup, SupType
    <3> QED
      BY <2>1, <3>1 DEF SupPublish
  <2> QED
    BY <1>1, <2>2 DEF SessionInv, Stops, SourceUnstopped, SupWaits, RespawnReplacementIsCurrent,
       RespawnSourceIsCurrent, ReplacementIsCurrent
<1> QED
  BY <1>1, InitSession, NextSession, PTL DEF Spec, NeverResurrect

-----------------------------------------------------------------------------
(***************************************************************************)
(* The manager implements the slots                                        *)
(***************************************************************************)
Spent == {n \in Incs : rd[n].pc # "none"}

\* A publication starts an incarnation that never ran in a slot that is empty.
LEMMA PublishStarts ==
    ASSUME SessionInv, NEW i \in Ids, NEW n \in Incs, Publishes(i, n)
    PROVE  Slots!Start(i, n)
<1>1. live[i] = NoInc
  <2>1. CASE SettledByCaller(i, n, {"spawn"})
    BY <2>1 DEF SettledByCaller, SessionInv, Fresh
  <2>2. CASE RespawnReplacementIsCurrent(i, sup.inc, n)
    BY <2>2 DEF RespawnReplacementIsCurrent, RespawnSourceIsCurrent
  <2> QED
    BY <2>1, <2>2 DEF Publishes
<1>2. rd[n].pc = "none"
  BY DEF Publishes, SettledByCaller, SettledBySup, SessionInv, Fresh, Blank, SupWaits
<1>3. Spent' = Spent \union {n}
  <2>1. rd'[n].pc = "starting" /\ \A m \in Incs \ {n} : rd'[m].pc = "none" <=> rd[m].pc = "none"
    BY DEF Publishes, ReaderKept
  <2> QED
    BY <2>1 DEF Spent
<1> QED
  BY <1>1, <1>2, <1>3 DEF Slots!Start, Spent, Publishes, NoInc

\* Every other move stops sessions or leaves them alone.
LEMMA OthersStop ==
    ASSUME live \in [Ids -> IncType], live' \in [Ids -> IncType], ReadersKept,
           \A j \in Ids : live'[j] \in {live[j], NoInc}
    PROVE  \E S \in SUBSET Ids : Slots!Stop(S)
<1>1. live' = [i \in Ids |-> IF i \in {j \in Ids : live'[j] = NoInc} THEN 0 ELSE live[i]]
  BY DEF NoInc
<1>2. Spent' = Spent
  BY DEF Spent, ReadersKept, ReaderKept
<1> QED
  BY <1>1, <1>2 DEF Slots!Stop, Spent

\* A session id is a slot that runs at most one process, a process starts only
\* in an empty slot, under an incarnation that never ran, and once stopped it
\* does not come back: the manager with its threads, locks, tombstones and
\* reservations implements SessionSlots.
THEOREM ManagerImplementsSlots == Spec => ImplementsSlots
<1>1. Init => Slots!Init
  BY DEF Init, Slots!Init, NoEntries, NoReader, NoInc
<1>2. ASSUME SessionInv, [Next]_vars PROVE [Slots!Next]_<<live, {n \in Incs : rd[n].pc # "none"}>>
  <2>1. live \in [Ids -> IncType]
    BY <1>2, TypesHere DEF SessionInv
  <2>2. live' \in [Ids -> IncType]
    BY <1>2, NextIInv DEF SessionInv, IInv, TInv, TypeOK, InnerTypeOK, TaskTypeOK, EnvTypeOK
  <2>3. Moves
    BY <1>2, NextMoves DEF SessionInv
  <2>4. ASSUME ReadersKept, \A j \in Ids : live'[j] \in {live[j], NoInc}
        PROVE  Slots!Next
    BY <2>1, <2>2, <2>4, OthersStop DEF Slots!Next
  <2>5. ASSUME NEW i \in Ids, NEW n \in Incs, Publishes(i, n) PROVE Slots!Next
    BY <1>2, <2>5, PublishStarts DEF Slots!Next
  <2>6. ASSUME NEW i \in Ids, NEW n \in Incs, Fails(i, n) PROVE Slots!Next
    BY <2>1, <2>4, <2>6 DEF Fails, FinishFailedReplacement
  <2>7. ASSUME NEW i \in Ids, Kills(i) PROVE Slots!Next
    BY <2>1, <2>4, <2>7 DEF Kills, KillInternalImpl
  <2>8. ASSUME NEW i \in Ids, NEW n \in Incs, Exits(i, n) PROVE Slots!Next
    BY <2>1, <2>4, <2>8 DEF Exits
  <2> QED
    BY <2>3, <2>4, <2>5, <2>6, <2>7, <2>8 DEF Moves, Rests, Evicts, Prunes, Reserves, Settles,
       Signals, Retains, Reports, Finishes, ExitsLate
<1> QED
  BY <1>1, <1>2, InitSession, NextSession, PTL DEF Spec, ImplementsSlots, Slots!Spec

-----------------------------------------------------------------------------
(***************************************************************************)
(* What the fleet tracker, the termination inventory and the shutdown say  *)
(* of the sessions, for every set of ids and callers and every number of   *)
(* incarnations and requests.                                              *)
(***************************************************************************)

(***************************************************************************)
(* The tracker's methods, as far as live and creating go                   *)
(***************************************************************************)
\* f and g count the same live sessions and the same spawns.
SameCounts(f, g) == g.live = f.live /\ g.creating = f.creating /\ g.disposing = f.disposing

\* Methods that move only restarts and flags.
LEMMA QuietMethods ==
    ASSUME NEW f \in FleetType
    PROVE  /\ SameCounts(f, MarkClosing(f, TRUE))
           /\ SameCounts(f, ClaimHandoff(f))
           /\ SameCounts(f, ReleaseHandoff(f))
           /\ MarkDisposing(f, FALSE).live = f.live /\ MarkDisposing(f, FALSE).creating = f.creating
BY DEF FleetType, SameCounts, Publish, MarkClosing, ClaimHandoff, ReleaseHandoff, MarkDisposing

\* A restart is cancelled.
LEMMA CancelRestartMethod ==
    ASSUME NEW f \in FleetType, NEW i \in Ids, NEW n
    PROVE  SameCounts(f, CancelRestartPending(f, i, n))
BY DEF FleetType, SameCounts, Publish, CancelRestartPending

\* A live session leaves.
Leaves(f, g, i) ==
    /\ g.creating = f.creating /\ g.disposing = f.disposing
    /\ \A j \in Ids \ {i} : g.live[j] = f.live[j]

\* `remove_live` and `transition_live_to_restart_pending` take only that
\* session's live entry away.
LEMMA LeaveMethods ==
    ASSUME NEW f \in FleetType, NEW i \in Ids, NEW n
    PROVE  Leaves(f, RemoveLive(f, i, n), i) /\ Leaves(f, TransitionLiveToRestartPending(f, i, n), i)
BY DEF FleetType, Publish, RemoveLive, TransitionLiveToRestartPending, Leaves

\* Everything of an id leaves.
LEMMA RemoveMethod ==
    ASSUME NEW f \in FleetType, NEW i \in Ids, NEW g, g = RemoveAllForId(f, i)
    PROVE  /\ g.disposing = f.disposing /\ g.creating[i] = NoInc
           /\ \A j \in Ids \ {i} : g.live[j] = f.live[j] /\ g.creating[j] = f.creating[j]
BY DEF FleetType, Publish, RemoveAllForId

\* A spawn begins.
Begins(f, g, i, n) ==
    /\ g.live = f.live /\ g.disposing = f.disposing
    /\ g.creating[i] = n /\ \A j \in Ids \ {i} : g.creating[j] = f.creating[j]

\* `begin_create` and `transition_restart_pending_to_creating` set only that
\* id's creation.
LEMMA BeginMethods ==
    ASSUME NEW f \in FleetType, NEW i \in Ids, NEW n, NEW m
    PROVE  /\ Begins(f, BeginCreate(f, i, n), i, n)
           /\ Begins(f, TransitionRestartPendingToCreating(f, i, m, n), i, n)
<1>1. Begins(f, BeginCreate(f, i, n), i, n)
  BY DEF FleetType, Publish, BeginCreate, Begins
<1>2. Begins(f, TransitionRestartPendingToCreating(f, i, m, n), i, n)
  <2> DEFINE h == [f EXCEPT !.restart_pending[i] = IF @ = m THEN NoInc ELSE @, !.creating[i] = n]
             g == Publish(h)
  <2>1. /\ h.live = f.live /\ h.disposing = f.disposing
        /\ h.creating[i] = n /\ \A j \in Ids \ {i} : h.creating[j] = f.creating[j]
    BY DEF FleetType
  <2>2. g.live = h.live /\ g.disposing = h.disposing /\ g.creating = h.creating
    BY DEF Publish, FleetType
  <2> QED
    BY <2>1, <2>2 DEF TransitionRestartPendingToCreating, Begins
<1> QED
  BY <1>1, <1>2

\* A spawn is given up.
LEMMA CancelMethod ==
    ASSUME NEW f \in FleetType, NEW i \in Ids, NEW n, NEW g, g = CancelCreate(f, i, n)
    PROVE  /\ g.live = f.live /\ g.disposing = f.disposing
           /\ \A j \in Ids : g.creating[j] = f.creating[j]
                             \/ (j = i /\ f.creating[j] = n /\ g.creating[j] = NoInc)
BY DEF FleetType, Publish, CancelCreate

\* A spawn that was counted is published.
LEMMA PublishMethod ==
    ASSUME NEW f \in FleetType, NEW i \in Ids, NEW n \in Nat, f.creating[i] = n,
           NEW g, g = PublishLive(f, i, n)
    PROVE  /\ g.live[i] = n /\ g.creating[i] = NoInc /\ g.disposing = f.disposing
           /\ \A j \in Ids \ {i} : g.live[j] = f.live[j] /\ g.creating[j] = f.creating[j]
BY DEF FleetType, Publish, PublishLive

\* A disposal begins.
LEMMA DisposeMethod ==
    ASSUME NEW f \in FleetType, NEW g, g = MarkDisposing(f, TRUE)
    PROVE  g.disposing /\ \A j \in Ids : g.creating[j] \in {f.creating[j], NoInc}
BY DEF FleetType, Publish, MarkDisposing, NoEntries

-----------------------------------------------------------------------------
(***************************************************************************)
(* The tracker and the sessions                                            *)
(***************************************************************************)
\* A create that may still publish is counted as a spawn.
Reserved ==
    \A c \in Callers : cr[c].pc = "spawn" /\ pending[cr[c].id] = cr[c].inc =>
        fleet.creating[cr[c].id] = cr[c].inc

\* A live session is counted, except while the tracker is marked as disposing.
Tracked == ~fleet.disposing => \A i \in Ids : live[i] # NoInc => fleet.live[i] = live[i]

\* A disposal lifts its mark only when nothing is left.
Emptied == disp.pc = "unmark" => live = NoEntries

\* How a step changes the spawns and the live sessions that the tracker counts.
NoSpawn(n) == \A c \in Callers : cr'[c].pc = "spawn" => cr'[c].inc # n

CreatingStep(i) ==
    \/ fleet'.creating[i] = fleet.creating[i]
    \/ fleet'.creating[i] = NoInc /\ (pending'[i] = NoInc \/ NoSpawn(fleet.creating[i]))
    \/ SpawnAdmitted(fleet) /\ fleet'.creating[i] = next_inc /\ pending'[i] = next_inc

LiveStep(i) ==
    \/ live'[i] \in {NoInc, fleet'.live[i]}
    \/ live'[i] = live[i] /\ fleet'.live[i] = fleet.live[i]

FleetStep ==
    /\ \A i \in Ids : CreatingStep(i)
    /\ \A c \in Callers : cr'[c].pc = "spawn" =>
         CrKept(c) \/ fleet'.creating[cr'[c].id] = cr'[c].inc
    /\ ~fleet'.disposing =>
         /\ fleet.disposing => live' = NoEntries
         /\ \A i \in Ids : LiveStep(i)

\* Steps that the tracker does not count.
LEMMA FleetQuiet ==
    ASSUME fleet' = fleet \/ SameCounts(fleet, fleet'),
           \A i \in Ids : live'[i] \in {live[i], NoInc},
           \A c \in Callers : cr'[c].pc = "spawn" => CrKept(c)
    PROVE  FleetStep
BY DEF FleetStep, CreatingStep, LiveStep, SameCounts

\* Steps that drop everything of an id.
LEMMA FleetDrops ==
    ASSUME SessionInv, NEW i \in Ids, fleet' = RemoveAllForId(fleet, i),
           pending'[i] = NoInc, live'[i] = NoInc, \A j \in Ids \ {i} : live'[j] = live[j],
           \A c \in Callers : cr'[c].pc = "spawn" => CrKept(c)
    PROVE  FleetStep
<1>1. fleet \in FleetType
  BY DEF SessionInv, IInv, TInv, TypeOK, InnerTypeOK
<1>2. /\ fleet'.disposing = fleet.disposing /\ fleet'.creating[i] = NoInc
      /\ \A j \in Ids \ {i} : fleet'.live[j] = fleet.live[j] /\ fleet'.creating[j] = fleet.creating[j]
  BY <1>1, RemoveMethod
<1> QED
  BY <1>2 DEF FleetStep, CreatingStep, LiveStep

\* Steps that give up a spawn nobody else waits for.
LEMMA FleetCancels ==
    ASSUME SessionInv, NEW i \in Ids, NEW n \in Incs,
           fleet' \in {fleet, CancelCreate(fleet, i, n)}, NoSpawn(n),
           \A j \in Ids : live'[j] \in {live[j], NoInc},
           \A c \in Callers : cr'[c].pc = "spawn" => CrKept(c)
    PROVE  FleetStep
<1>1. fleet \in FleetType
  BY DEF SessionInv, IInv, TInv, TypeOK, InnerTypeOK
<1>2. /\ fleet'.disposing = fleet.disposing /\ fleet'.live = fleet.live
      /\ \A j \in Ids : fleet'.creating[j] = fleet.creating[j]
                        \/ (fleet.creating[j] = n /\ fleet'.creating[j] = NoInc)
  BY <1>1, CancelMethod
<1> QED
  BY <1>2 DEF FleetStep, CreatingStep, LiveStep

\* Steps that begin a spawn.
LEMMA FleetBegins ==
    ASSUME SessionInv, NEW i \in Ids, SpawnAdmitted(fleet), Begins(fleet, fleet', i, next_inc),
           pending'[i] = next_inc, live' = live,
           \A c \in Callers : cr'[c].pc = "spawn" =>
               CrKept(c) \/ (cr'[c].id = i /\ cr'[c].inc = next_inc)
    PROVE  FleetStep
BY DEF FleetStep, CreatingStep, LiveStep, Begins

\* Steps that publish a spawn that is counted.
LEMMA FleetPublishes ==
    ASSUME SessionInv, NEW i \in Ids, NEW n \in Incs, fleet.creating[i] = n,
           fleet' = PublishLive(fleet, i, n), live' = [live EXCEPT ![i] = n], NoSpawn(n),
           \A c \in Callers : cr'[c].pc = "spawn" => CrKept(c)
    PROVE  FleetStep
<1>1. fleet \in FleetType /\ n \in Nat /\ live \in [Ids -> IncType]
  BY TypesHere DEF SessionInv, IInv, TInv, TypeOK, InnerTypeOK, Incs
<1>2. /\ fleet'.live[i] = n /\ fleet'.creating[i] = NoInc /\ fleet'.disposing = fleet.disposing
      /\ \A j \in Ids \ {i} : fleet'.live[j] = fleet.live[j] /\ fleet'.creating[j] = fleet.creating[j]
  BY <1>1, PublishMethod
<1> QED
  BY <1>1, <1>2 DEF FleetStep, CreatingStep, LiveStep

\* Creates.
LEMMA CreateFleet ==
    ASSUME SessionInv, Reserved, NEW c \in Callers,
           CreateBegin(c) \/ CreateStep(c) \/ CreateSpawnFails(c) \/ CreateStartFails(c)
    PROVE  FleetStep
<1> IInv /\ cr \in [Callers -> CreateType] /\ live \in [Ids -> IncType]
    /\ pending \in [Ids -> IncType] /\ next_inc \in Nat
  BY TypesHere DEF SessionInv
<1> IdleCr.pc = "idle"
  BY DEF IdleCr
<1>0. ASSUME cr[c].pc # "idle" PROVE cr[c].id \in Ids
  BY <1>0 DEF IInv, TInv, NamedTasks, CrNamed
<1>01. ASSUME cr[c].pc \in {"spawn", "start", "unstart", "rekill", "finish"} PROVE cr[c].inc \in Incs
  BY <1>01 DEF IInv, TInv, NamedTasks, CrNamed
<1>02. ASSUME NEW k, cr' = [cr EXCEPT ![c] = k], k.pc # "spawn"
       PROVE  \A d \in Callers : cr'[d].pc = "spawn" => CrKept(d)
  BY <1>02 DEF CrKept
<1>03. ASSUME NEW k, cr' = [cr EXCEPT ![c] = k], k.pc # "spawn", CreateIn(c)
       PROVE  \A d \in Callers : cr'[d].pc # "spawn"
  BY <1>03 DEF IInv, GateHeld, CreateIn
<1>1. CASE CreateBegin(c)
  <2>1. \A d \in Callers : cr'[d].pc = "spawn" => CrKept(d)
    BY <1>1 DEF CreateBegin, CrKept, IdleCr
  <2> QED
    BY <1>1, <2>1, FleetQuiet DEF CreateBegin, idVars, fleetVars
<1>2. CASE CreateAdmit(c)
  <2>1. \A d \in Callers : cr'[d].pc = "spawn" => CrKept(d)
    BY <1>2 DEF CreateAdmit, CreateReturn, CrKept, CreateType
  <2> QED
    BY <1>2, <2>1, FleetQuiet DEF CreateAdmit, idVars, fleetVars
<1>3. CASE CreateEvict(c) \/ CreateRekill(c)
  <2>1. \A d \in Callers : cr'[d].pc = "spawn" => CrKept(d)
    BY <1>3 DEF CreateEvict, CreateRekill, CreateReturn, CrKept, CreateType
  <2>2. cr[c].id \in Ids
    BY <1>0, <1>3 DEF CreateEvict, CreateRekill
  <2> QED
    BY <1>3, <2>1, <2>2, FleetDrops DEF CreateEvict, CreateRekill, KillInternalImpl
<1>4. CASE CreateReserve(c)
  <2>1. cr[c].id \in Ids /\ live' = live /\ BeginReplacement(cr[c].id)
    BY <1>0, <1>4 DEF CreateReserve
  <2>2. CASE CreateReturn(c) /\ fleet' = fleet
    BY <1>02, <2>1, <2>2, FleetQuiet DEF CreateReturn
  <2>3. CASE /\ SpawnAdmitted(fleet)
             /\ fleet' = BeginCreate(fleet, cr[c].id, next_inc)
             /\ cr' = [cr EXCEPT ![c].pc = "spawn", ![c].inc = next_inc, ![c].gen = generation]
    <3>1. \A d \in Callers : cr'[d].pc = "spawn" =>
            CrKept(d) \/ (cr'[d].id = cr[c].id /\ cr'[d].inc = next_inc)
      BY <2>3 DEF CrKept, CreateType
    <3>2. Begins(fleet, fleet', cr[c].id, next_inc)
      BY <2>1, <2>3, BeginMethods DEF SessionInv, IInv, TInv, TypeOK, InnerTypeOK
    <3> QED
      BY <2>1, <2>3, <3>1, <3>2, FleetBegins DEF BeginReplacement
  <2> QED
    BY <1>4, <2>2, <2>3 DEF CreateReserve
<1>5. CASE CreateSpawnFails(c) \/ CreateUnstart(c)
  <2>1. cr[c].id \in Ids /\ cr[c].inc \in Incs /\ CreateIn(c)
    BY <1>0, <1>01, <1>5 DEF CreateSpawnFails, CreateUnstart, CreateIn
  <2>2. \A d \in Callers : cr'[d].pc # "spawn"
    BY <1>03, <1>5, <2>1 DEF CreateSpawnFails, CreateUnstart, CreateReturn, CreateType
  <2>3. /\ fleet' \in {fleet, CancelCreate(fleet, cr[c].id, cr[c].inc)}
        /\ \A j \in Ids : live'[j] \in {live[j], NoInc}
    BY <1>5 DEF CreateSpawnFails, CreateUnstart, FinishFailedReplacement
  <2> QED
    BY <2>1, <2>2, <2>3, FleetCancels DEF NoSpawn
<1>6. CASE CreatePublish(c)
  <2>1. cr[c].id \in Ids /\ cr[c].inc \in Incs /\ CreateIn(c) /\ cr[c].pc = "spawn"
    BY <1>0, <1>01, <1>6 DEF CreatePublish, CreateIn
  <2>2. \A d \in Callers : cr'[d].pc # "spawn"
    BY <1>03, <1>6, <2>1 DEF CreatePublish, CreateReturn, CreateType
  <2>3. CASE fleet' = CancelCreate(fleet, cr[c].id, cr[c].inc) /\ live' = live
    BY <2>1, <2>2, <2>3, FleetCancels DEF NoSpawn
  <2>4. CASE /\ ReplacementIsCurrent(cr[c].id, cr[c].inc)
             /\ live' = [live EXCEPT ![cr[c].id] = cr[c].inc]
             /\ fleet' = PublishLive(fleet, cr[c].id, cr[c].inc)
    <3>1. fleet.creating[cr[c].id] = cr[c].inc
      BY <2>1, <2>4 DEF Reserved, ReplacementIsCurrent
    <3> QED
      BY <2>1, <2>2, <2>4, <3>1, FleetPublishes DEF NoSpawn
  <2> QED
    BY <1>6, <2>3, <2>4 DEF CreatePublish
<1>7. CASE CreateStart(c) \/ CreateStartFails(c) \/ CreateFinish(c)
  <2>1. \A d \in Callers : cr'[d].pc = "spawn" => CrKept(d)
    BY <1>7 DEF CreateStart, CreateStartFails, CreateFinish, CreateReturn, CrKept, CreateType
  <2> QED
    BY <1>7, <2>1, FleetQuiet DEF CreateStart, CreateStartFails, CreateFinish, idVars, fleetVars
<1> QED
  BY <1>1, <1>2, <1>3, <1>4, <1>5, <1>6, <1>7 DEF CreateStep

\* Readers.
LEMMA ReaderFleet ==
    ASSUME SessionInv, NEW n \in Incs,
           ReaderStep(n) \/ ReaderData(n) \/ NaturalExit(n) \/ ReaderWaitFails(n)
    PROVE  FleetStep
<1> IInv /\ live \in [Ids -> IncType] /\ fleet \in FleetType
  BY TypesHere DEF SessionInv, IInv, TInv, TypeOK, InnerTypeOK
<1>1. cr' = cr
  BY DEF ReaderStep, KilledExit, NaturalExit, ReaderExit, ReaderPersist, ReaderRespawn, ReaderCancel,
         ReaderEmit, ReaderData, ReaderWaitFails, procVars
<1>2. \A d \in Callers : cr'[d].pc = "spawn" => CrKept(d)
  BY <1>1 DEF CrKept
<1>3. ASSUME fleet' = fleet, live' = live PROVE FleetStep
  BY <1>2, <1>3, FleetQuiet
<1>4. ASSUME NEW code, ReaderExit(n, code) PROVE FleetStep
  <2> DEFINE i == rd[n].id
  <2>1. i \in Ids
    BY <1>4 DEF ReaderExit, IInv, TInv, NamedTasks, RdNamed
  <2>2. CASE fleet' = fleet /\ live' = live
    BY <1>3, <2>2
  <2>3. CASE /\ live' = [live EXCEPT ![i] = NoInc]
             /\ fleet' \in {RemoveLive(fleet, i, n), TransitionLiveToRestartPending(fleet, i, n)}
    <3>1. Leaves(fleet, fleet', i)
      BY <2>1, <2>3, LeaveMethods
    <3>2. live'[i] = NoInc /\ \A j \in Ids \ {i} : live'[j] = live[j]
      BY <2>1, <2>3
    <3> QED
      BY <1>2, <3>1, <3>2 DEF FleetStep, CreatingStep, LiveStep, Leaves
  <2> QED
    BY <1>4, <2>2, <2>3 DEF ReaderExit
<1>5. CASE ReaderCancel(n)
  <2>1. rd[n].id \in Ids
    BY <1>5 DEF ReaderCancel, IInv, TInv, NamedTasks, RdNamed
  <2>2. SameCounts(fleet, fleet')
    BY <1>5, <2>1, CancelRestartMethod DEF ReaderCancel
  <2> QED
    BY <1>2, <1>5, <2>2, FleetQuiet DEF ReaderCancel, idVars
<1> QED
  BY <1>3, <1>4, <1>5 DEF ReaderStep, KilledExit, NaturalExit, ReaderPersist, ReaderRespawn,
     ReaderEmit, ReaderData, ReaderWaitFails, fleetVars, idVars

\* The supervisor.
LEMMA SupFleet ==
    ASSUME SessionInv, SupStep \/ SupTargetFails \/ SupSpawnFails \/ SupStartFails
    PROVE  FleetStep
<1> IInv /\ live \in [Ids -> IncType] /\ fleet \in FleetType /\ pending \in [Ids -> IncType]
  BY TypesHere DEF SessionInv, IInv, TInv, TypeOK, InnerTypeOK
<1>0. ASSUME sup.pc # "idle" PROVE sup.id \in Ids
  BY <1>0 DEF IInv, TInv, NamedTasks, SupNamed
<1>01. ASSUME sup.pc \in {"permit", "spawn", "start", "unstart", "finish"} PROVE sup.new \in Incs
  BY <1>01 DEF IInv, TInv, NamedTasks, SupNamed
<1>1. cr' = cr
  BY DEF SupStep, SupReceive, SupBackoffOver, SupReserve, SupPermit, SupPublish, SupStart, SupUnstart,
         SupFinish, SupFailed, SupTargetFails, SupSpawnFails, SupStartFails, procVars
<1>2. \A d \in Callers : cr'[d].pc = "spawn" => CrKept(d)
  BY <1>1 DEF CrKept
<1>3. ASSUME sup.pc \in {"permit", "spawn", "unstart"} PROVE NoSpawn(sup.new)
  <2>1. ASSUME NEW c \in Callers, cr[c].pc = "spawn" PROVE rd[cr[c].inc].pc = "none"
    BY <2>1 DEF SessionInv, Fresh, Blank
  <2>2. sup.pc = "unstart" => rd[sup.new].pc # "none"
    BY DEF SessionInv, Begun
  <2>3. SupWaits => \A c \in Callers : cr[c].pc = "spawn" => cr[c].inc # sup.new
    BY DEF SessionInv, Fresh
  <2> QED
    BY <1>1, <1>3, <2>1, <2>2, <2>3 DEF NoSpawn, SupWaits
<1>4. ASSUME sup.pc \in {"permit", "spawn", "unstart"},
             fleet' \in {fleet, CancelCreate(fleet, sup.id, sup.new)},
             \A j \in Ids : live'[j] \in {live[j], NoInc}
      PROVE  FleetStep
  BY <1>0, <1>01, <1>2, <1>3, <1>4, FleetCancels
<1>5. CASE SupReceive \/ SupTargetFails \/ SupStart \/ SupStartFails \/ SupFinish
  BY <1>2, <1>5, FleetQuiet DEF SupReceive, SupTargetFails, SupStart, SupStartFails, SupFinish,
     fleetVars, idVars
<1>6. CASE SupBackoffOver \/ SupFailed
  <2>1. sup.id \in Ids
    BY <1>0, <1>6 DEF SupBackoffOver, SupFailed
  <2>2. fleet' = fleet \/ SameCounts(fleet, fleet')
    BY <1>6, <2>1, CancelRestartMethod DEF SupBackoffOver, SupFailed
  <2>3. live' = live
    BY <1>6 DEF SupBackoffOver, SupFailed, idVars
  <2> QED
    BY <1>2, <2>2, <2>3, FleetQuiet
<1>7. CASE SupReserve
  <2>1. sup.id \in Ids /\ live' = live
    BY <1>0, <1>7 DEF SupReserve
  <2>2. CASE fleet' = fleet \/ fleet' = CancelRestartPending(fleet, sup.id, sup.inc)
    BY <1>2, <2>1, <2>2, FleetQuiet, CancelRestartMethod
  <2>3. CASE /\ BeginReplacement(sup.id) /\ SpawnAdmitted(fleet)
             /\ fleet' = TransitionRestartPendingToCreating(fleet, sup.id, sup.inc, next_inc)
    BY <1>2, <2>1, <2>3, BeginMethods, FleetBegins DEF BeginReplacement
  <2> QED
    BY <1>7, <2>2, <2>3 DEF SupReserve
<1>8. CASE SupPermit
  BY <1>4, <1>8 DEF SupPermit
<1>9. CASE SupSpawnFails \/ SupUnstart
  <2>1. /\ sup.pc \in {"permit", "spawn", "unstart"}
        /\ fleet' \in {fleet, CancelCreate(fleet, sup.id, sup.new)}
        /\ \A j \in Ids : live'[j] \in {live[j], NoInc}
    BY <1>9 DEF SupSpawnFails, SupUnstart, FinishFailedReplacement
  <2> QED
    BY <1>4, <2>1
<1>10. CASE SupPublish
  <2>1. sup.id \in Ids /\ sup.new \in Incs /\ sup.pc = "spawn"
    BY <1>0, <1>01, <1>10 DEF SupPublish
  <2>2. CASE fleet' = CancelCreate(fleet, sup.id, sup.new) /\ live' = live
    BY <1>4, <2>1, <2>2
  <2>3. CASE /\ RespawnReplacementIsCurrent(sup.id, sup.inc, sup.new)
             /\ live' = [live EXCEPT ![sup.id] = sup.new]
             /\ fleet' = PublishLive(fleet, sup.id, sup.new)
    BY <1>2, <1>3, <2>1, <2>3, FleetPublishes DEF RespawnReplacementIsCurrent, IsCreating
  <2> QED
    BY <1>10, <2>2, <2>3 DEF SupPublish
<1> QED
  BY <1>5, <1>6, <1>7, <1>8, <1>9, <1>10 DEF SupStep

\* Requests, removals and sweeps.
LEMMA RequestFleet ==
    ASSUME SessionInv,
           \/ \E i \in Ids : Kill(i) \/ MarkTargetUnavailable(i) \/ RemoveBegin(i)
           \/ \E i \in Ids, inc \in Incs : RequestTermination(i, inc)
           \/ SweepTick \/ SweepCheck
           \/ \E r \in Removers : RemoveStep(r) \/ RemoveDeleteFails(r)
    PROVE  FleetStep
<1> IInv /\ live \in [Ids -> IncType] /\ fleet \in FleetType /\ pending \in [Ids -> IncType]
  BY TypesHere DEF SessionInv, IInv, TInv, TypeOK, InnerTypeOK
<1>1. cr' = cr
  BY DEF Kill, MarkTargetUnavailable, RemoveBegin, RequestTermination, SweepTick, SweepCheck,
         RemoveStep, RemoveLock, RemoveDelete, RemoveEvict, RemoveDeleteFails, procVars
<1>2. \A d \in Callers : cr'[d].pc = "spawn" => CrKept(d)
  BY <1>1 DEF CrKept
<1>3. ASSUME NEW i \in Ids, Kill(i) PROVE FleetStep
  BY <1>2, <1>3, FleetDrops DEF Kill, KillInternalImpl
<1>4. ASSUME NEW i \in Ids, NEW inc \in Incs, RequestTermination(i, inc) PROVE FleetStep
  <2>1. fleet' = fleet \/ SameCounts(fleet, fleet')
    BY <1>4, CancelRestartMethod DEF RequestTermination
  <2> QED
    BY <1>2, <1>4, <2>1, FleetQuiet DEF RequestTermination
<1>5. ASSUME NEW r \in Removers, RemoveEvict(r) PROVE FleetStep
  <2>1. rm[r].id \in Ids
    BY <1>5 DEF RemoveEvict, IInv, TInv, NamedTasks, RmNamed
  <2> QED
    BY <1>2, <1>5, <2>1, FleetDrops DEF RemoveEvict
<1>6. ASSUME fleet' = fleet, live' = live PROVE FleetStep
  BY <1>2, <1>6, FleetQuiet
<1> QED
  BY <1>3, <1>4, <1>5, <1>6 DEF MarkTargetUnavailable, RemoveBegin, SweepTick, SweepCheck,
     RemoveStep, RemoveLock, RemoveDelete, RemoveDeleteFails, fleetVars, idVars

\* Disposals, handoffs and the shutdown.
LEMMA DisposeFleet ==
    ASSUME SessionInv, Emptied,
           \/ DisposeBegin \/ DisposeStep \/ DisposeRemoveFails
           \/ TryClaimHandoff \/ TryClaimForcedHandoff \/ TryClaimAgentHandoff \/ Release
           \/ StopAll \/ Shutdown \/ JoinReaders
    PROVE  FleetStep
<1> IInv /\ live \in [Ids -> IncType] /\ fleet \in FleetType /\ pending \in [Ids -> IncType]
    /\ dead \in [Ids -> DeadType] /\ failed \in [Ids -> FailedType] /\ disp \in DisposeType
  BY TypesHere DEF SessionInv, IInv, TInv, TypeOK, InnerTypeOK, TaskTypeOK
<1>1. cr' = cr
  BY DEF DisposeBegin, DisposeStep, DisposeMark, DisposeRemove, DisposeEvict, DisposeClear,
         DisposeUnmark, DisposeRemoveFails, TryClaimHandoff, TryClaimForcedHandoff,
         TryClaimAgentHandoff, Claim, Release, StopAll, Shutdown, JoinReaders, procVars
<1>2. \A d \in Callers : cr'[d].pc = "spawn" => CrKept(d)
  BY <1>1 DEF CrKept
<1>3. ASSUME fleet' = fleet, live' = live PROVE FleetStep
  BY <1>2, <1>3, FleetQuiet
<1>4. CASE DisposeMark
  <2>1. \A c \in Callers : cr[c].pc # "spawn"
    BY <1>4, HolderCounted DEF DisposeMark, IInv, Permits, DisposalIsExclusive, CreateHoldsPermit
  <2>2. live' = live
    BY <1>4 DEF DisposeMark, idVars
  <2>3. CASE fleet' = MarkClosing(fleet, TRUE)
    BY <1>2, <2>2, <2>3, FleetQuiet, QuietMethods
  <2>4. CASE fleet' = MarkDisposing(fleet, TRUE)
    <3>1. fleet'.disposing /\ \A j \in Ids : fleet'.creating[j] \in {fleet.creating[j], NoInc}
      BY <2>4, DisposeMethod
    <3> QED
      BY <1>1, <2>1, <3>1 DEF FleetStep, CreatingStep, NoSpawn
  <2> QED
    BY <1>4, <2>3, <2>4 DEF DisposeMark
<1>5. CASE DisposeEvict
  <2> DEFINE i == disp.cur[1]
             inc == disp.cur[2]
  <2>1. i \in Ids /\ inc \in Incs
    BY <1>5 DEF DisposeEvict, IInv, TInv, NamedTasks, DispNamed
  <2>2. CASE inc \in {live[i], dead[i].inc, failed[i].inc}
    <3>1. /\ fleet' = RemoveAllForId(fleet, i) /\ pending' = [pending EXCEPT ![i] = NoInc]
          /\ live' = IF live[i] = inc THEN [live EXCEPT ![i] = NoInc] ELSE live
      BY <1>5, <2>2 DEF DisposeEvict
    <3>2. live[i] \in {inc, NoInc}
      BY <2>1, <2>2 DEF SessionInv, Identity, Alone, Incs, NoInc
    <3>3. live'[i] = NoInc /\ \A j \in Ids \ {i} : live'[j] = live[j]
      BY <2>1, <3>1, <3>2
    <3> QED
      BY <1>2, <2>1, <3>1, <3>3, FleetDrops
  <2>3. CASE inc \notin {live[i], dead[i].inc, failed[i].inc}
    BY <1>3, <1>5, <2>3 DEF DisposeEvict
  <2> QED
    BY <2>2, <2>3
<1>6. CASE DisposeClear
  BY <1>2, <1>6, FleetQuiet DEF DisposeClear, fleetVars, NoEntries
<1>7. CASE DisposeUnmark
  <2>1. live' = live /\ live = NoEntries
    BY <1>7 DEF DisposeUnmark, idVars, Emptied
  <2>2. CASE fleet' = fleet
    BY <1>3, <2>1, <2>2
  <2>3. CASE fleet' = MarkDisposing(fleet, FALSE)
    <3>1. fleet'.live = fleet.live /\ fleet'.creating = fleet.creating
      BY <2>3, QuietMethods
    <3> QED
      BY <1>2, <2>1, <3>1 DEF FleetStep, CreatingStep, LiveStep
  <2> QED
    BY <1>7, <2>2, <2>3 DEF DisposeUnmark
<1>8. CASE TryClaimHandoff \/ TryClaimForcedHandoff \/ TryClaimAgentHandoff \/ Release
  <2>1. SameCounts(fleet, fleet') /\ live' = live
    BY <1>8, QuietMethods DEF TryClaimHandoff, TryClaimForcedHandoff, TryClaimAgentHandoff, Claim,
       Release, idVars
  <2> QED
    BY <1>2, <2>1, FleetQuiet
<1>9. CASE StopAll
  <2>1. SameCounts(fleet, fleet') /\ live' = live
    BY <1>9, QuietMethods DEF StopAll
  <2> QED
    BY <1>2, <2>1, FleetQuiet
<1> QED
  BY <1>3, <1>4, <1>5, <1>6, <1>7, <1>8, <1>9 DEF DisposeBegin, DisposeStep, DisposeRemove,
     DisposeRemoveFails, Shutdown, JoinReaders, fleetVars, idVars

\* Every step of the manager.
LEMMA NextFleet ==
    ASSUME SessionInv, Reserved, Emptied, [Next]_vars
    PROVE  FleetStep
<1>1. CASE UNCHANGED vars
  <2>1. UNCHANGED <<fleet, live, cr>>
    BY <1>1 DEF vars, fleetVars, idVars, procVars
  <2> QED
    BY <2>1, FleetQuiet DEF CrKept
<1> QED
  BY <1>1, CreateFleet, ReaderFleet, SupFleet, RequestFleet, DisposeFleet DEF Next

-----------------------------------------------------------------------------
(***************************************************************************)
(* How a step moves the disposal and the shutdown                          *)
(***************************************************************************)
StageStep ==
    /\ gate.closing => gate'.closing
    /\ \/ UNCHANGED <<disp, phase>>
       \/ disp.pc = "idle" /\ disp'.pc = "drain" /\ ~disp'.closing /\ phase' = phase
       \/ /\ disp.pc = "idle" /\ disp'.pc = "drain" /\ disp'.closing
          /\ phase' = "closing" /\ gate'.closing
       \/ /\ disp.pc # "idle" /\ disp'.closing = disp.closing /\ phase' = phase
          /\ disp'.pc \in {"remove", "evict", "clear"}
          /\ disp.closing => disp.pc \in {"remove", "evict"} \/ disp'.pc = "clear"
       \/ /\ disp.pc # "idle" /\ disp'.closing = disp.closing /\ phase' = phase
          /\ disp'.pc = "unmark" /\ live' = NoEntries
       \/ /\ disp.pc = "unmark" /\ disp'.pc = "idle" /\ live' = live
          /\ phase' = IF disp.closing THEN "joining" ELSE phase
       \/ disp.pc = "remove" /\ disp'.pc = "idle" /\ phase' = phase
       \/ disp' = disp /\ phase = "up" /\ phase' = "draining"
       \/ disp' = disp /\ phase = "joining" /\ phase' = "closed" /\ ReadersDone /\ rd' = rd

\* Only the disposal, the shutdown and the holders of permits touch them.
LEMMA StageQuiet ==
    ASSUME disp' = disp, phase' = phase, gate'.closing = gate.closing
    PROVE  StageStep
BY DEF StageStep

\* Every step takes the disposal and the shutdown at most one stage further.
LEMMA NextStages ==
    ASSUME IInv, [Next]_vars
    PROVE  StageStep
<1> gate \in GateType /\ disp \in DisposeType
  BY DEF IInv, TInv, TypeOK, TaskTypeOK
<1>0. \A k : [gate EXCEPT !.active = k].closing = gate.closing
  BY DEF GateType
<1>1. CASE UNCHANGED vars
  BY <1>1, StageQuiet DEF vars, lockVars, procVars
<1>2. ASSUME NEW c \in Callers,
             CreateBegin(c) \/ CreateStep(c) \/ CreateSpawnFails(c) \/ CreateStartFails(c)
      PROVE  StageStep
  BY <1>0, <1>2, StageQuiet
     DEF CreateBegin, CreateStep, CreateAdmit, CreateEvict, CreateReserve, CreatePublish,
         CreateStart, CreateUnstart, CreateRekill, CreateFinish, CreateSpawnFails, CreateStartFails,
         CreateReturn, lockVars
<1>3. ASSUME NEW n \in Incs, ReaderStep(n) \/ ReaderData(n) \/ NaturalExit(n) \/ ReaderWaitFails(n)
      PROVE  StageStep
  BY <1>3, StageQuiet
     DEF ReaderStep, KilledExit, NaturalExit, ReaderExit, ReaderPersist, ReaderRespawn, ReaderCancel,
         ReaderEmit, ReaderData, ReaderWaitFails, procVars, lockVars
<1>4. ASSUME SupStep \/ SupTargetFails \/ SupSpawnFails \/ SupStartFails
      PROVE  StageStep
  BY <1>0, <1>4, StageQuiet
     DEF SupStep, SupReceive, SupBackoffOver, SupReserve, SupPermit, SupPublish, SupStart,
         SupUnstart, SupFinish, SupFailed, SupTargetFails, SupSpawnFails, SupStartFails, SupReturn,
         lockVars
<1>5. ASSUME \/ \E i \in Ids : Kill(i) \/ MarkTargetUnavailable(i) \/ RemoveBegin(i)
             \/ \E i \in Ids, inc \in Incs : RequestTermination(i, inc)
             \/ SweepTick \/ SweepCheck
             \/ \E r \in Removers : RemoveStep(r) \/ RemoveDeleteFails(r)
             \/ TryClaimHandoff \/ TryClaimForcedHandoff \/ TryClaimAgentHandoff \/ Release
      PROVE  StageStep
  BY <1>5, StageQuiet
     DEF Kill, MarkTargetUnavailable, RemoveBegin, RequestTermination, SweepTick, SweepCheck,
         RemoveStep, RemoveLock, RemoveDelete, RemoveEvict, RemoveDeleteFails, procVars, lockVars,
         TryClaimHandoff, TryClaimForcedHandoff, TryClaimAgentHandoff, Claim, Release
<1>6. ASSUME NEW final \in BOOLEAN, DisposeGate(final)
      PROVE  /\ disp.pc = "idle" /\ disp'.pc = "drain" /\ disp'.closing = final
             /\ gate'.closing = (gate.closing \/ final)
  BY <1>6 DEF DisposeGate, IdleDisp, GateType
<1>7. CASE DisposeBegin \/ Shutdown
  BY <1>6, <1>7 DEF StageStep, DisposeBegin, Shutdown
<1>8. CASE DisposeMark \/ DisposeRemove \/ DisposeEvict
  BY <1>8 DEF StageStep, DisposeMark, DisposeRemove, DisposeEvict, lockVars, DisposeType
<1>9. CASE DisposeClear
  BY <1>9 DEF StageStep, DisposeClear, lockVars, DisposeType
<1>10. CASE DisposeUnmark \/ DisposeRemoveFails
  <2>1. DisposeReturn
    BY <1>10 DEF DisposeUnmark, DisposeRemoveFails
  <2>2. disp'.pc = "idle" /\ gate'.closing = gate.closing
    BY <2>1 DEF DisposeReturn, GateType, IdleDisp
  <2>3. CASE DisposeUnmark
    BY <2>2, <2>3 DEF StageStep, DisposeUnmark, idVars
  <2>4. CASE DisposeRemoveFails
    BY <2>2, <2>4 DEF StageStep, DisposeRemoveFails
  <2> QED
    BY <1>10, <2>3, <2>4
<1>11. CASE StopAll \/ JoinReaders
  BY <1>11 DEF StageStep, StopAll, JoinReaders, lockVars
<1> QED
  BY <1>1, <1>2, <1>3, <1>4, <1>5, <1>7, <1>8, <1>9, <1>10, <1>11 DEF Next, DisposeStep

-----------------------------------------------------------------------------
(***************************************************************************)
(* What the tracker and the inventory say is true                          *)
(***************************************************************************)
\* A tombstone that waits for a restart is available and nobody has asked for
\* its termination; what is cancelled is a tombstone.
Waiting ==
    \A i \in Ids :
        /\ dead[i].will_restart => ~dead[i].unavail /\ dead[i].inc \notin termreq
        /\ dead[i].inc = NoInc => ~dead[i].cancelled

FleetInv == SessionInv /\ Reserved /\ Tracked /\ Emptied /\ Waiting

\* A reservation stands, is dropped, or is the next incarnation.
LEMMA PendingMoves ==
    ASSUME IInv, Moves
    PROVE  \A i \in Ids : pending'[i] \in {pending[i], NoInc, next_inc}
<1> pending \in [Ids -> IncType]
  BY TypesHere
<1>1. ASSUME NEW i \in Ids, Kills(i) PROVE pending' = [pending EXCEPT ![i] = NoInc]
  BY <1>1 DEF Kills, KillInternalImpl
<1>2. ASSUME NEW i \in Ids, Reserves(i) PROVE pending' = [pending EXCEPT ![i] = next_inc]
  BY <1>2 DEF Reserves, BeginReplacement
<1>3. ASSUME NEW i \in Ids, NEW n \in Incs, Finishes(i, n) \/ Fails(i, n)
      PROVE  pending' \in {pending, FinishReplacement(i, n)}
  BY <1>3 DEF Finishes, Fails, FinishFailedReplacement
<1>4. ASSUME NEW i \in Ids, NEW n \in Incs, pending' \in {pending, FinishReplacement(i, n)}
      PROVE  \A j \in Ids : pending'[j] \in {pending[j], NoInc}
  BY <1>4 DEF FinishReplacement
<1> QED
  BY <1>1, <1>2, <1>3, <1>4
     DEF Moves, Rests, Evicts, Prunes, Settles, Signals, Retains, Reports, Publishes, Exits,
         ExitsLate

\* A session goes live only by being published.
LEMMA LiveMoves ==
    ASSUME IInv, Moves, NEW i \in Ids
    PROVE  live'[i] \in {live[i], NoInc} \/ \E n \in Incs : live'[i] = n /\ Publishes(i, n)
<1> live \in [Ids -> IncType]
  BY TypesHere
<1>1. ASSUME NEW j \in Ids, NEW n \in Incs, Publishes(j, n)
      PROVE  live'[i] \in {live[i], NoInc} \/ \E m \in Incs : live'[i] = m /\ Publishes(i, m)
  <2>1. live' = [live EXCEPT ![j] = n]
    BY <1>1 DEF Publishes
  <2> QED
    BY <1>1, <2>1
<1>2. ASSUME NEW j \in Ids, NEW n \in Incs, Fails(j, n) PROVE live'[i] \in {live[i], NoInc}
  BY <1>2 DEF Fails, FinishFailedReplacement
<1>3. ASSUME NEW j \in Ids, Kills(j) PROVE live'[i] \in {live[i], NoInc}
  BY <1>3 DEF Kills, KillInternalImpl
<1> QED
  BY <1>1, <1>2, <1>3
     DEF Moves, Rests, Evicts, Prunes, Reserves, Settles, Signals, Retains, Reports, Finishes,
         Exits, ExitsLate

\* What is alone and apart keeps a waiting tombstone waiting.
LEMMA WaitingMoves ==
    ASSUME SessionInv, Waiting, Moves
    PROVE  Waiting'
<1> IInv /\ Identity /\ dead \in [Ids -> DeadType] /\ live \in [Ids -> IncType]
  BY TypesHere DEF SessionInv
<1>0. ASSUME NEW i \in Ids, NEW d, dead' = [dead EXCEPT ![i] = d], termreq' \subseteq termreq,
             d.will_restart => ~d.unavail /\ d.inc \notin termreq, d.inc = NoInc => ~d.cancelled
      PROVE  Waiting'
  BY <1>0 DEF Waiting
<1>01. ASSUME \A i \in Ids : dead'[i] \in {dead[i], NoDead}, termreq' \subseteq termreq
       PROVE  Waiting'
  BY <1>01 DEF Waiting, NoDead
<1>02. \A m, x, b : /\ ~[Tombstone(m, x) EXCEPT !.unavail = b].will_restart
                    /\ ~[Tombstone(m, x) EXCEPT !.unavail = b].cancelled
                    /\ ~Tombstone(m, x).will_restart /\ ~Tombstone(m, x).cancelled
  BY DEF Tombstone, NoDead
<1>1. CASE Rests \/ Evicts \/ Prunes
  BY <1>1, <1>01 DEF Rests, Evicts, Prunes
<1>2. ASSUME NEW i \in Ids, Kills(i) PROVE Waiting'
  <2>1. /\ termreq' = termreq
        /\ \/ dead' = dead
           \/ dead' = [dead EXCEPT ![i] = Tombstone(live[i], rd[live[i]].target)]
    BY <1>2 DEF Kills, KillInternalImpl
  <2>2. CASE dead' = dead
    BY <1>01, <2>1, <2>2
  <2>3. CASE dead' = [dead EXCEPT ![i] = Tombstone(live[i], rd[live[i]].target)]
    BY <1>0, <1>02, <2>1, <2>3
  <2> QED
    BY <2>1, <2>2, <2>3
<1>3. ASSUME NEW i \in Ids, Reserves(i) PROVE Waiting'
  BY <1>3, <1>01 DEF Reserves
<1>4. ASSUME NEW i \in Ids, Settles(i) PROVE Waiting'
  <2>1. PICK d \in DeadType : /\ d.inc = dead[i].inc /\ ~d.will_restart
                              /\ d.cancelled => dead[i].cancelled \/ d.inc # NoInc
                              /\ dead' = [dead EXCEPT ![i] = d]
    BY <1>4 DEF Settles
  <2>2. d.inc = NoInc => ~d.cancelled
    BY <2>1 DEF Waiting
  <2>3. termreq' = termreq
    BY <1>4 DEF Settles
  <2> QED
    BY <1>0, <2>1, <2>2, <2>3
<1>5. ASSUME NEW i \in Ids, Signals(i) PROVE Waiting'
  <2>1. dead' = dead /\ termreq' = termreq \union {live[i]} /\ live[i] # NoInc
    BY <1>5 DEF Signals
  <2>2. \A j \in Ids : dead[j].inc # live[i]
    BY <2>1 DEF Identity, Alone, Apart, Known
  <2> QED
    BY <2>1, <2>2 DEF Waiting
<1>6. ASSUME NEW i \in Ids, Retains(i) PROVE Waiting'
  BY <1>6, <1>0, <1>02 DEF Retains
<1>7. ASSUME NEW i \in Ids, NEW n \in Incs, Reports(i, n) \/ Finishes(i, n) \/ ExitsLate(i, n)
      PROVE  Waiting'
  BY <1>7, <1>01 DEF Reports, Finishes, ExitsLate
<1>8. ASSUME NEW i \in Ids, NEW n \in Incs, Fails(i, n) PROVE Waiting'
  <2>1. termreq' = termreq
    BY <1>8 DEF Fails
  <2>2. PICK t \in BOOLEAN, k \in BOOLEAN : FinishFailedReplacement(i, n, t, k)
    BY <1>8 DEF Fails
  <2>3. CASE dead' = dead
    BY <1>01, <2>1, <2>3
  <2>4. CASE dead' = [dead EXCEPT ![i] = [Tombstone(n, rd[n].target) EXCEPT !.unavail = k]]
    BY <1>0, <1>02, <2>1, <2>4
  <2>5. CASE dead' = [dead EXCEPT ![i] = NoDead]
    BY <1>01, <2>1, <2>5
  <2>6. CASE /\ dead[i].inc # NoInc
             /\ dead' = [dead EXCEPT ![i].unavail = @ \/ k, ![i].will_restart = FALSE]
    <3> DEFINE d == [dead[i] EXCEPT !.unavail = dead[i].unavail \/ k, !.will_restart = FALSE]
    <3>1. dead[i] \in DeadType
      OBVIOUS
    <3>2. d.inc = dead[i].inc /\ ~d.will_restart
      BY <3>1 DEF DeadType
    <3>3. dead' = [dead EXCEPT ![i] = d]
      BY <2>6
    <3> HIDE DEF d
    <3> QED
      BY <1>0, <2>1, <2>6, <3>2, <3>3
  <2> QED
    BY <2>2, <2>3, <2>4, <2>5, <2>6 DEF FinishFailedReplacement
<1>9. ASSUME NEW i \in Ids, NEW n \in Incs, Publishes(i, n) PROVE Waiting'
  BY <1>9, <1>01 DEF Publishes
<1>10. ASSUME NEW i \in Ids, NEW n \in Incs, Exits(i, n) PROVE Waiting'
  <2>1. PICK w \in BOOLEAN :
          /\ w => i \notin killed /\ n \notin termreq
          /\ dead' = [dead EXCEPT ![i] = [Tombstone(n, rd[n].target) EXCEPT !.will_restart = w]]
    BY <1>10 DEF Exits
  <2>2. /\ [Tombstone(n, rd[n].target) EXCEPT !.will_restart = w].will_restart = w
        /\ ~[Tombstone(n, rd[n].target) EXCEPT !.will_restart = w].unavail
        /\ ~[Tombstone(n, rd[n].target) EXCEPT !.will_restart = w].cancelled
        /\ [Tombstone(n, rd[n].target) EXCEPT !.will_restart = w].inc = n
    BY DEF Tombstone, NoDead
  <2>3. termreq' = termreq
    BY <1>10 DEF Exits
  <2> QED
    BY <1>0, <2>1, <2>2, <2>3
<1> QED
  BY <1>1, <1>2, <1>3, <1>4, <1>5, <1>6, <1>7, <1>8, <1>9, <1>10 DEF Moves

\* The invariant holds at the start ...
LEMMA InitFleet == Init => FleetInv
<1> SUFFICES ASSUME Init PROVE FleetInv
  OBVIOUS
<1>1. SessionInv
  BY InitSession
<1>2. \A c \in Callers : cr[c].pc = "idle"
  BY DEF Init, IdleCr
<1>3. \A i \in Ids : live[i] = NoInc /\ ~dead[i].will_restart /\ ~dead[i].cancelled
  BY DEF Init, NoEntries, NoDead
<1>4. disp.pc = "idle"
  BY DEF Init, IdleDisp
<1> QED
  BY <1>1, <1>2, <1>3, <1>4 DEF FleetInv, Reserved, Tracked, Emptied, Waiting

\* ... and every step keeps it.
LEMMA NextFleetInv == FleetInv /\ [Next]_vars => FleetInv'
<1> SUFFICES ASSUME FleetInv, [Next]_vars PROVE FleetInv'
  OBVIOUS
<1> SessionInv /\ IInv /\ live \in [Ids -> IncType] /\ pending \in [Ids -> IncType]
    /\ next_inc \in Nat /\ cr \in [Callers -> CreateType]
  BY TypesHere DEF FleetInv, SessionInv
<1>1. SessionInv'
  BY NextSession
<1>2. Moves
  BY NextMoves DEF SessionInv
<1>3. FleetStep
  BY NextFleet DEF FleetInv
<1>4. Reserved'
  <2> SUFFICES ASSUME NEW c \in Callers, cr'[c].pc = "spawn", pending'[cr'[c].id] = cr'[c].inc
               PROVE  fleet'.creating[cr'[c].id] = cr'[c].inc
    BY DEF Reserved
  <2>1. CASE CrKept(c)
    <3>1. cr[c].pc = "spawn" /\ cr[c].id = cr'[c].id /\ cr[c].inc = cr'[c].inc
      BY <2>1 DEF CrKept
    <3>2. cr[c].id \in Ids /\ cr[c].inc \in Incs /\ cr[c].inc < next_inc
      BY <3>1 DEF IInv, TInv, NamedTasks, CrNamed, SessionInv, Fresh
    <3>3. cr[c].inc # NoInc /\ cr[c].inc # next_inc
      BY <3>2 DEF Incs, NoInc
    <3>4. pending[cr[c].id] = cr[c].inc
      BY <1>2, <3>1, <3>2, <3>3, PendingMoves
    <3>5. fleet.creating[cr[c].id] = cr[c].inc
      BY <3>1, <3>4 DEF FleetInv, Reserved
    <3> QED
      BY <1>3, <3>1, <3>2, <3>3, <3>5 DEF FleetStep, CreatingStep, NoSpawn
  <2> QED
    BY <1>3, <2>1 DEF FleetStep
<1>5. Tracked'
  <2> SUFFICES ASSUME ~fleet'.disposing, NEW i \in Ids, live'[i] # NoInc
               PROVE  fleet'.live[i] = live'[i]
    BY DEF Tracked
  <2>1. fleet.disposing => live' = NoEntries
    BY <1>3 DEF FleetStep
  <2>2. ~fleet.disposing
    BY <2>1 DEF NoEntries
  <2>3. LiveStep(i)
    BY <1>3 DEF FleetStep
  <2> QED
    BY <2>2, <2>3 DEF LiveStep, FleetInv, Tracked
<1>6. Emptied'
  <2> SUFFICES ASSUME disp'.pc = "unmark", live' # NoEntries PROVE FALSE
    BY DEF Emptied
  <2>1. disp.pc = "unmark"
    BY NextStages DEF StageStep
  <2>2. live = NoEntries /\ gate.active = 0
    BY <2>1 DEF FleetInv, Emptied, IInv, Permits, DisposalIsExclusive
  <2>3. ~SupHoldsPermit /\ \A c \in Callers : ~CreateHoldsPermit(c)
    BY <2>2, HolderCounted DEF IInv, Permits, DisposalIsExclusive
  <2>4. \A i \in Ids, n \in Incs : ~Publishes(i, n)
    BY <2>3 DEF Publishes, SettledByCaller, SettledBySup, SupHoldsPermit, CreateHoldsPermit
  <2>5. \A i \in Ids : live'[i] = NoInc
    BY <1>2, <2>2, <2>4, LiveMoves DEF NoEntries
  <2>6. live' \in [Ids -> IncType]
    BY <1>1 DEF SessionInv, IInv, TInv, TypeOK, InnerTypeOK
  <2> QED
    BY <2>5, <2>6 DEF NoEntries
<1>7. Waiting'
  BY <1>2, WaitingMoves DEF FleetInv
<1> QED
  BY <1>1, <1>4, <1>5, <1>6, <1>7 DEF FleetInv

\* While a suspend handoff is claimed nothing new is admitted: a session goes
\* live only if its spawn was reserved before, and no spawn is reserved.
THEOREM HandoffAdmitsNothing == Spec => HandoffFreezesFleet
<1>1. ASSUME FleetInv, [Next]_vars, fleet.handoff_active
      PROVE  \A i \in Ids : /\ live'[i] \in {live[i], NoInc, fleet.creating[i]}
                            /\ fleet'.creating[i] \in {fleet.creating[i], NoInc}
  <2> SUFFICES ASSUME NEW i \in Ids
               PROVE  /\ live'[i] \in {live[i], NoInc, fleet.creating[i]}
                      /\ fleet'.creating[i] \in {fleet.creating[i], NoInc}
    OBVIOUS
  <2>1. FleetStep
    BY <1>1, NextFleet DEF FleetInv
  <2>2. fleet'.creating[i] \in {fleet.creating[i], NoInc}
    BY <1>1, <2>1 DEF FleetStep, CreatingStep, SpawnAdmitted
  <2>3. Moves /\ IInv
    BY <1>1, NextMoves DEF FleetInv, SessionInv
  <2>4. ASSUME NEW n \in Incs, Publishes(i, n) PROVE fleet.creating[i] = n
    <3>1. CASE SettledByCaller(i, n, {"spawn"})
      BY <1>1, <2>4, <3>1 DEF Publishes, ReplacementIsCurrent, SettledByCaller, FleetInv, Reserved
    <3>2. CASE RespawnReplacementIsCurrent(i, sup.inc, n)
      BY <3>2 DEF RespawnReplacementIsCurrent, IsCreating
    <3> QED
      BY <2>4, <3>1, <3>2 DEF Publishes
  <2> QED
    BY <2>2, <2>3, <2>4, LiveMoves
<1> QED
  BY <1>1, InitFleet, NextFleetInv, PTL DEF Spec, HandoffFreezesFleet

\* The fleet looks idle only when it is.
LEMMA FleetIsIdle == FleetInv => QuiescentMeansIdle
<1> SUFFICES ASSUME FleetInv, IsQuiescent(Snapshot(fleet)) PROVE
             /\ \A i \in Ids : live[i] = NoInc
             /\ \A c \in Callers : cr[c].pc = "spawn" => ~ReplacementIsCurrent(cr[c].id, cr[c].inc)
             /\ sup.pc = "spawn" => ~RespawnReplacementIsCurrent(sup.id, sup.inc, sup.new)
  BY DEF QuiescentMeansIdle
<1> IInv
  BY DEF FleetInv, SessionInv
<1>1. Count(fleet.live) = 0 /\ Count(fleet.creating) = 0 /\ ~fleet.disposing
  BY DEF IsQuiescent, Snapshot
<1>2. ASSUME NEW m, Count(m) = 0 PROVE \A i \in Ids : m[i] = NoInc
  <2>1. IsFiniteSet({i \in Ids : m[i] # NoInc})
    BY FleetAssumption, FS_Subset
  <2>2. {i \in Ids : m[i] # NoInc} = {}
    BY <1>2, <2>1, FS_EmptySet DEF Count
  <2> QED
    BY <2>2
<1>3. \A i \in Ids : fleet.live[i] = NoInc /\ fleet.creating[i] = NoInc
  BY <1>1, <1>2
<1>4. \A i \in Ids : live[i] = NoInc
  BY <1>1, <1>3 DEF FleetInv, Tracked
<1>5. ASSUME NEW c \in Callers, cr[c].pc = "spawn"
      PROVE  ~ReplacementIsCurrent(cr[c].id, cr[c].inc)
  <2>1. cr[c].id \in Ids /\ cr[c].inc \in Incs
    BY <1>5 DEF IInv, TInv, NamedTasks, CrNamed
  <2> QED
    BY <1>3, <1>5, <2>1 DEF ReplacementIsCurrent, FleetInv, Reserved, Incs, NoInc
<1>6. ASSUME sup.pc = "spawn" PROVE ~RespawnReplacementIsCurrent(sup.id, sup.inc, sup.new)
  <2>1. sup.id \in Ids /\ sup.new \in Incs
    BY <1>6 DEF IInv, TInv, NamedTasks, SupNamed
  <2> QED
    BY <1>3, <2>1 DEF RespawnReplacementIsCurrent, IsCreating, Incs, NoInc
<1> QED
  BY <1>4, <1>5, <1>6

\* The inventory shows what a guarded termination would accept.
LEMMA InventoryIsTrue == FleetInv => InventoryAgrees
<1> SUFFICES ASSUME FleetInv, NEW i \in Ids, live[i] # NoInc \/ dead[i].inc # NoInc
             PROVE  InventoryState(i) \in {"Live", "RestartPending"} <=> TerminationAccepted(i)
  BY DEF InventoryAgrees
<1>1. /\ dead[i].will_restart => ~dead[i].unavail /\ dead[i].inc \notin termreq
      /\ dead[i].inc = NoInc => ~dead[i].cancelled
      /\ live[i] # NoInc => dead[i].inc = NoInc
  BY DEF FleetInv, Waiting, SessionInv, Identity, Alone
<1>2. CASE live[i] # NoInc
  BY <1>1, <1>2 DEF InventoryState, TerminationAccepted
<1>3. CASE live[i] = NoInc
  BY <1>1, <1>3 DEF InventoryState, TerminationAccepted
<1> QED
  BY <1>2, <1>3

-----------------------------------------------------------------------------
(***************************************************************************)
(* How a step moves the tasks, the readers and the restart queue           *)
(***************************************************************************)
\* A session that runs is not being replaced.
LivePending == \A i \in Ids : live[i] # NoInc => pending[i] \in {NoInc, live[i]}

\* Places of a create and of the supervisor between publication and return.
Settling    == {"start", "unstart", "rekill", "finish"}
SupSettling == {"start", "unstart", "finish"}

\* A published reservation is finished, failed or killed by its holder, who
\* starts its reader or is done with it before that.
CrGoes(c) ==
    /\ cr'[c].pc # "idle" => cr[c].pc # "idle" \/ ~gate.closing
    /\ cr[c].pc \in Settling =>
         \/ /\ cr'[c].pc \in Settling /\ cr'[c].inc = cr[c].inc /\ cr'[c].id = cr[c].id
            /\ cr'[c].pc = "finish" => cr[c].pc = "finish" \/ rd'[cr[c].inc].pc = "running"
         \/ cr[c].pc = "finish" /\ pending'[cr[c].id] # cr[c].inc
         \/ /\ cr[c].pc = "rekill" /\ pending'[cr[c].id] # cr[c].inc
            /\ rd'[cr[c].inc].pc = "done"

SupGoes ==
    /\ SupHoldsPermit' => SupHoldsPermit \/ ~gate.closing
    /\ sup.pc \in SupSettling =>
         \/ /\ sup'.pc \in SupSettling /\ sup'.new = sup.new /\ sup'.id = sup.id
            /\ sup'.pc = "finish" => sup.pc = "finish" \/ rd'[sup.new].pc = "running"
         \/ sup.pc = "finish" /\ pending'[sup.id] # sup.new
         \/ /\ sup.pc = "unstart" /\ pending'[sup.id] # sup.new
            /\ rd'[sup.new].pc = "done"

\* The task that publishes n goes on to start its reader.
Publisher(n) ==
    \/ \E c \in Callers : cr'[c].pc = "start" /\ cr'[c].inc = n /\ cr'[c].id \in Ids
                          /\ pending'[cr'[c].id] = n
    \/ sup'.pc = "start" /\ sup'.new = n /\ sup'.id \in Ids /\ pending'[sup'.id] = n

ReaderGoes(n) ==
    \/ rd'[n].pc = rd[n].pc
    \/ rd'[n].pc = "done" /\ rd[n].pc # "none"
    \/ rd[n].pc = "none" /\ rd'[n].pc = "starting" /\ Publisher(n)
    \/ rd[n].pc = "starting" /\ rd'[n].pc = "running"
    \/ rd[n].pc = "running" /\ rd'[n].pc \in {"persist", "emit"}
    \/ rd[n].pc = "persist" /\ pgate = "free" /\ rd'[n].pc \in {"respawn", "emit"}
    \/ rd[n].pc = "respawn" /\ rd'[n].pc \in {"cancel", "emit"}
    \/ rd[n].pc = "cancel" /\ rd'[n].pc = "emit"

\* The supervisor keeps at the restart it has received, or drops it.
SupAtRestart ==
    sup'.pc # "idle" =>
        /\ sup.pc # "idle" /\ sup'.inc = sup.inc
        /\ sup'.pc \in {"backoff", "validate"} => sup.pc \in {"backoff", "validate"}

QueueGoes ==
    \/ respawnQ' = respawnQ /\ SupAtRestart
    \/ \E n \in Incs, k \in CmdType :
         /\ rd[n].pc = "respawn" /\ rd'[n].pc = "emit" /\ sup' = sup
         /\ respawnQ' = Append(respawnQ, k) /\ k.inc = n
    \/ /\ sup.pc = "idle" /\ respawnQ # << >> /\ rd' = rd
       /\ respawnQ' = Tail(respawnQ) /\ sup'.inc = Head(respawnQ).inc

TaskStep ==
    /\ \A c \in Callers : CrGoes(c)
    /\ SupGoes /\ QueueGoes
    /\ \A n \in Incs : ReaderGoes(n)

\* Creates.
LEMMA CreateTasks ==
    ASSUME SessionInv, NEW c \in Callers,
           CreateBegin(c) \/ CreateStep(c) \/ CreateSpawnFails(c) \/ CreateStartFails(c)
    PROVE  TaskStep
<1> IInv /\ cr \in [Callers -> CreateType] /\ rd \in [Incs -> ReaderType]
    /\ pending \in [Ids -> IncType] /\ Incs \subseteq Nat \ {NoInc}
  BY TypesHere DEF SessionInv, Incs, NoInc
<1> IdleCr.pc = "idle" /\ NoReader.pc = "none"
  BY DEF IdleCr, NoReader
<1> [NoReader EXCEPT !.pc = "done"].pc = "done"
  BY DEF NoReader
<1>0. ASSUME cr[c].pc # "idle" PROVE cr[c].id \in Ids
  BY <1>0 DEF IInv, TInv, NamedTasks, CrNamed
<1>01. ASSUME cr[c].pc \in {"spawn", "start", "unstart", "rekill", "finish"} PROVE cr[c].inc \in Incs
  BY <1>01 DEF IInv, TInv, NamedTasks, CrNamed
<1>02. sup' = sup /\ respawnQ' = respawnQ
  BY DEF CreateStep, CreateBegin, CreateAdmit, CreateEvict, CreateReserve, CreatePublish,
         CreateStart, CreateUnstart, CreateRekill, CreateFinish, CreateSpawnFails, CreateStartFails
<1>03. QueueGoes
  BY <1>02 DEF QueueGoes, SupAtRestart
<1>04. SupGoes
  BY <1>02 DEF SupGoes, SupHoldsPermit
<1>05. \A k : cr' = [cr EXCEPT ![c] = k] => \A d \in Callers \ {c} : CrGoes(d)
  BY DEF CrGoes
<1>06. \E k : cr' = [cr EXCEPT ![c] = k]
  BY DEF CreateStep, CreateBegin, CreateAdmit, CreateEvict, CreateReserve, CreatePublish,
         CreateStart, CreateUnstart, CreateRekill, CreateFinish, CreateSpawnFails, CreateStartFails,
         CreateReturn
<1>07. \A d \in Callers \ {c} : CrGoes(d)
  BY <1>05, <1>06
<1>08. ASSUME rd' = rd PROVE \A n \in Incs : ReaderGoes(n)
  BY <1>08 DEF ReaderGoes
<1>1. CASE CreateBegin(c)
  <2>1. CrGoes(c)
    BY <1>1 DEF CreateBegin, CrGoes, Settling
  <2> QED
    BY <1>03, <1>04, <1>07, <1>08, <1>1, <2>1 DEF TaskStep, CreateBegin
<1>2. CASE CreateAdmit(c) \/ CreateEvict(c) \/ CreateReserve(c) \/ CreateSpawnFails(c)
  <2>1. CrGoes(c)
    BY <1>2 DEF CreateAdmit, CreateEvict, CreateReserve, CreateSpawnFails, CrGoes, Settling
  <2> QED
    BY <1>03, <1>04, <1>07, <1>08, <1>2, <2>1
       DEF TaskStep, CreateAdmit, CreateEvict, CreateReserve, CreateSpawnFails
<1>3. CASE CreatePublish(c)
  <2>1. CrGoes(c) /\ cr[c].id \in Ids /\ cr[c].inc \in Incs /\ cr[c].pc = "spawn"
    BY <1>0, <1>01, <1>3 DEF CreatePublish, CrGoes, Settling
  <2>2. CASE rd' = rd
    BY <1>03, <1>04, <1>07, <1>08, <2>1, <2>2 DEF TaskStep
  <2>3. CASE /\ ReplacementIsCurrent(cr[c].id, cr[c].inc) /\ pending' = pending
             /\ rd' = [rd EXCEPT ![cr[c].inc] =
                          [NoReader EXCEPT !.pc = "starting", !.id = cr[c].id, !.gen = cr[c].gen,
                                           !.policy = cr[c].policy, !.target = cr[c].target]]
             /\ cr' = [cr EXCEPT ![c].pc = "start"]
    <3>1. rd[cr[c].inc].pc = "none"
      BY <2>1 DEF SessionInv, Fresh, Blank
    <3>2. rd'[cr[c].inc].pc = "starting" /\ \A n \in Incs \ {cr[c].inc} : rd'[n] = rd[n]
      BY <2>1, <2>3 DEF NoReader
    <3>3. Publisher(cr[c].inc)
      BY <2>1, <2>3 DEF Publisher, ReplacementIsCurrent, CreateType
    <3>4. \A n \in Incs : ReaderGoes(n)
      BY <3>1, <3>2, <3>3 DEF ReaderGoes
    <3> QED
      BY <1>03, <1>04, <1>07, <2>1, <3>4 DEF TaskStep
  <2> QED
    BY <1>3, <2>2, <2>3 DEF CreatePublish
<1>4. CASE CreateStart(c)
  <2>1. cr[c].inc \in Incs /\ cr[c].pc = "start" /\ rd[cr[c].inc].pc = "starting"
    BY <1>01, <1>4 DEF CreateStart, IInv, Started
  <2>2. rd'[cr[c].inc].pc = "running" /\ \A n \in Incs \ {cr[c].inc} : rd'[n] = rd[n]
    BY <1>4, <2>1 DEF CreateStart, ReaderType
  <2>3. CrGoes(c)
    BY <1>4, <2>1, <2>2 DEF CreateStart, CrGoes, Settling, CreateType
  <2>4. \A n \in Incs : ReaderGoes(n)
    BY <2>1, <2>2 DEF ReaderGoes
  <2> QED
    BY <1>03, <1>04, <1>07, <2>3, <2>4 DEF TaskStep
<1>5. CASE CreateStartFails(c) \/ CreateUnstart(c)
  <2>1. ASSUME CreateStartFails(c) PROVE CrGoes(c)
    <3>1. cr[c].pc = "start" /\ cr' = [cr EXCEPT ![c].pc = "unstart"]
      BY <2>1 DEF CreateStartFails
    <3> QED
      BY <3>1 DEF CrGoes, Settling, CreateType
  <2>2. ASSUME CreateUnstart(c) PROVE CrGoes(c)
    <3>1. cr[c].pc = "unstart" /\ cr' = [cr EXCEPT ![c].pc = "rekill"]
      BY <2>2 DEF CreateUnstart
    <3> QED
      BY <3>1 DEF CrGoes, Settling, CreateType
  <2>3. CrGoes(c)
    BY <1>5, <2>1, <2>2
  <2> QED
    BY <1>03, <1>04, <1>07, <1>08, <1>5, <2>3 DEF TaskStep, CreateStartFails, CreateUnstart
<1>6. CASE CreateRekill(c)
  <2>1. cr[c].inc \in Incs /\ cr[c].pc = "rekill" /\ cr[c].id \in Ids /\ rd[cr[c].inc].pc # "none"
    BY <1>0, <1>01, <1>6 DEF CreateRekill, SessionInv, Begun
  <2>2. rd'[cr[c].inc].pc = "done" /\ \A n \in Incs \ {cr[c].inc} : rd'[n] = rd[n]
    BY <1>6, <2>1 DEF CreateRekill
  <2>3. CrGoes(c)
    BY <1>6, <2>1, <2>2 DEF CreateRekill, CreateReturn, KillInternalImpl, CrGoes, Settling
  <2>4. \A n \in Incs : ReaderGoes(n)
    BY <2>1, <2>2 DEF ReaderGoes
  <2> QED
    BY <1>03, <1>04, <1>07, <2>3, <2>4 DEF TaskStep
<1>7. CASE CreateFinish(c)
  <2>1. cr[c].inc \in Incs /\ cr[c].pc = "finish" /\ cr[c].id \in Ids
    BY <1>0, <1>01, <1>7 DEF CreateFinish
  <2>2. pending'[cr[c].id] # cr[c].inc
    BY <1>7, <2>1 DEF CreateFinish, FinishReplacement
  <2>3. CrGoes(c)
    BY <1>7, <2>1, <2>2 DEF CreateFinish, CreateReturn, CrGoes, Settling
  <2> QED
    BY <1>03, <1>04, <1>07, <1>08, <1>7, <2>3 DEF TaskStep, CreateFinish
<1> QED
  BY <1>1, <1>2, <1>3, <1>4, <1>5, <1>6, <1>7 DEF CreateStep

\* The reader whose process has exited leaves "running", and only that one.
LEMMA ReaderExits ==
    ASSUME IInv, NEW n \in Incs, NEW code, ReaderExit(n, code)
    PROVE  /\ rd[n].pc = "running" /\ rd'[n].pc \in {"persist", "emit", "done"}
           /\ \A m \in Incs \ {n} : rd'[m] = rd[m]
<1> rd \in [Incs -> ReaderType]
  BY TypesHere
<1> rd[n].pc = "running"
  BY DEF ReaderExit
<1> [NoReader EXCEPT !.pc = "done"].pc = "done"
  BY DEF NoReader
<1> DEFINE i == rd[n].id
           w == DecideRestart(rd[n].policy, code,
                              i \in killed \/ generation # rd[n].gen \/ n \in termreq,
                              rd[n].count)
           k == IF code = 0 /\ rd[n].count > 0 THEN 0 ELSE rd[n].count
<1>0. rd[n] \in ReaderType
  OBVIOUS
<1>1. \A p, b, z : [rd[n] EXCEPT !.pc = p, !.restart = b, !.count = z].pc = p
                   /\ [rd[n] EXCEPT !.pc = p].pc = p
  BY <1>0 DEF ReaderType
<1>2. CASE live[i] = n
  <2>1. rd' = [rd EXCEPT ![n] = [rd[n] EXCEPT !.pc = "persist", !.restart = w, !.count = k]]
    BY <1>2 DEF ReaderExit, Incs, NoInc
  <2> HIDE DEF w, k
  <2>2. rd'[n] = [rd[n] EXCEPT !.pc = "persist", !.restart = w, !.count = k]
    BY <2>1
  <2> QED
    BY <1>1, <2>1, <2>2
<1>3. CASE live[i] \notin {NoInc, n}
  BY <1>3 DEF ReaderExit
<1>4. CASE live[i] = NoInc
  <2>1. rd' = [rd EXCEPT ![n] =
                 IF suppress[i] > 0 THEN [NoReader EXCEPT !.pc = "done"]
                 ELSE [rd[n] EXCEPT !.pc = IF dead[i].inc = n THEN "persist" ELSE "emit"]]
    BY <1>4 DEF ReaderExit, Incs, NoInc
  <2>2. CASE suppress[i] > 0
    BY <2>1, <2>2
  <2>3. CASE ~(suppress[i] > 0)
    <3>1. PICK p \in {"persist", "emit"} : rd'[n] = [rd[n] EXCEPT !.pc = p]
      BY <2>1, <2>3
    <3> QED
      BY <1>1, <2>1, <3>1
  <2> QED
    BY <2>2, <2>3
<1> QED
  BY <1>2, <1>3, <1>4

\* Readers.
LEMMA ReaderTasks ==
    ASSUME SessionInv, NEW n \in Incs,
           ReaderStep(n) \/ ReaderData(n) \/ NaturalExit(n) \/ ReaderWaitFails(n)
    PROVE  TaskStep
<1> IInv /\ rd \in [Incs -> ReaderType]
  BY TypesHere DEF SessionInv
<1> [NoReader EXCEPT !.pc = "done"].pc = "done"
  BY DEF NoReader
<1>1. UNCHANGED <<cr, sup>>
  BY DEF ReaderStep, KilledExit, NaturalExit, ReaderExit, ReaderPersist, ReaderRespawn, ReaderCancel,
         ReaderEmit, ReaderData, ReaderWaitFails, procVars
<1>2. SupGoes /\ SupAtRestart /\ \A c \in Callers : CrGoes(c)
  BY <1>1 DEF SupGoes, SupHoldsPermit, SupAtRestart, CrGoes
<1>3. ASSUME respawnQ' = respawnQ, ReaderGoes(n), \A m \in Incs \ {n} : rd'[m] = rd[m] PROVE TaskStep
  BY <1>2, <1>3 DEF TaskStep, QueueGoes, ReaderGoes
<1>4. ASSUME NEW code, ReaderExit(n, code) PROVE TaskStep
  <2>1. respawnQ' = respawnQ
    BY <1>4 DEF ReaderExit
  <2> QED
    BY <1>3, <1>4, <2>1, ReaderExits DEF ReaderGoes
<1>5. CASE ReaderPersist(n)
  <2>1. /\ rd[n].pc = "persist" /\ pgate = "free" /\ respawnQ' = respawnQ
        /\ rd'[n].pc \in {"respawn", "emit"} /\ \A m \in Incs \ {n} : rd'[m] = rd[m]
    BY <1>5 DEF ReaderPersist, ReaderType
  <2> QED
    BY <1>3, <2>1 DEF ReaderGoes
<1>6. CASE ReaderRespawn(n)
  <2>1. rd[n].pc = "respawn" /\ \A m \in Incs \ {n} : rd'[m] = rd[m]
    BY <1>6 DEF ReaderRespawn
  <2>2. CASE respawnQ' = respawnQ /\ rd' = [rd EXCEPT ![n].pc = "cancel"]
    BY <1>3, <2>1, <2>2 DEF ReaderGoes, ReaderType
  <2>3. CASE /\ respawnQ' = Append(respawnQ, [id |-> rd[n].id, inc |-> n, gen |-> rd[n].gen,
                                              policy |-> rd[n].policy, count |-> rd[n].count,
                                              target |-> rd[n].target])
             /\ rd' = [rd EXCEPT ![n].pc = "emit"]
    <3>1. rd'[n].pc = "emit"
      BY <2>3 DEF ReaderType
    <3>2. rd[n].id \in Ids
      BY <2>1 DEF IInv, TInv, NamedTasks, RdNamed
    <3>3. [id |-> rd[n].id, inc |-> n, gen |-> rd[n].gen, policy |-> rd[n].policy,
           count |-> rd[n].count, target |-> rd[n].target] \in CmdType
      BY <3>2 DEF CmdType, ReaderType
    <3>4. QueueGoes
      BY <1>1, <2>1, <2>3, <3>1, <3>3 DEF QueueGoes
    <3>5. \A m \in Incs : ReaderGoes(m)
      BY <2>1, <3>1 DEF ReaderGoes
    <3> QED
      BY <1>2, <3>4, <3>5 DEF TaskStep
  <2> QED
    BY <1>6, <2>2, <2>3 DEF ReaderRespawn
<1>7. CASE ReaderCancel(n)
  <2>1. /\ rd[n].pc = "cancel" /\ respawnQ' = respawnQ
        /\ rd'[n].pc = "emit" /\ \A m \in Incs \ {n} : rd'[m] = rd[m]
    BY <1>7 DEF ReaderCancel, ReaderType
  <2> QED
    BY <1>3, <2>1 DEF ReaderGoes
<1>8. CASE ReaderEmit(n) \/ ReaderWaitFails(n)
  <2>1. /\ rd[n].pc # "none" /\ respawnQ' = respawnQ
        /\ rd'[n].pc = "done" /\ \A m \in Incs \ {n} : rd'[m] = rd[m]
    BY <1>8 DEF ReaderEmit, ReaderWaitFails
  <2> QED
    BY <1>3, <2>1 DEF ReaderGoes
<1>9. CASE ReaderData(n)
  BY <1>3, <1>9 DEF ReaderData, ReaderGoes, procVars
<1> QED
  BY <1>4, <1>5, <1>6, <1>7, <1>8, <1>9 DEF ReaderStep, KilledExit, NaturalExit

\* The supervisor.
LEMMA SupTasks ==
    ASSUME SessionInv, LivePending, SupStep \/ SupTargetFails \/ SupSpawnFails \/ SupStartFails
    PROVE  TaskStep
<1> IInv /\ sup \in SupType /\ rd \in [Incs -> ReaderType]
    /\ pending \in [Ids -> IncType] /\ Incs \subseteq Nat \ {NoInc}
  BY TypesHere DEF SessionInv, Incs, NoInc
<1> IdleSup.pc = "idle" /\ NoReader.pc = "none" /\ [NoReader EXCEPT !.pc = "done"].pc = "done"
  BY DEF IdleSup, NoReader
<1>0. /\ \A p : /\ [sup EXCEPT !.pc = p].pc = p /\ [sup EXCEPT !.pc = p].id = sup.id
                /\ [sup EXCEPT !.pc = p].inc = sup.inc /\ [sup EXCEPT !.pc = p].new = sup.new
      /\ \A p, b : /\ [sup EXCEPT !.pc = p, !.lost = b].pc = p
                   /\ [sup EXCEPT !.pc = p, !.lost = b].inc = sup.inc
  BY DEF SupType
<1>01. \A p, n, b : /\ [sup EXCEPT !.pc = p, !.new = n, !.keep = b].pc = p
                    /\ [sup EXCEPT !.pc = p, !.new = n, !.keep = b].inc = sup.inc
  BY DEF SupType
<1>02. ASSUME sup.pc \notin {"idle", "backoff", "validate", "failed"}
       PROVE  sup.id \in Ids /\ sup.new \in Incs
  BY <1>02 DEF IInv, TInv, NamedTasks, SupNamed, SupType
<1>03. cr' = cr /\ \A c \in Callers : CrGoes(c)
  BY DEF SupStep, SupReceive, SupBackoffOver, SupReserve, SupPermit, SupPublish, SupStart, SupUnstart,
         SupFinish, SupFailed, SupTargetFails, SupSpawnFails, SupStartFails, CrGoes
<1>04. ASSUME rd' = rd PROVE \A n \in Incs : ReaderGoes(n)
  BY <1>04 DEF ReaderGoes
<1>05. ASSUME rd' = rd, respawnQ' = respawnQ, SupGoes, SupAtRestart PROVE TaskStep
  BY <1>03, <1>04, <1>05 DEF TaskStep, QueueGoes
<1>1. CASE SupReceive
  <2>1. sup'.pc = "backoff" /\ sup'.inc = Head(respawnQ).inc
    BY <1>1 DEF SupReceive, IdleSup
  <2>2. SupGoes /\ QueueGoes
    BY <1>1, <2>1 DEF SupReceive, SupGoes, SupHoldsPermit, SupSettling, QueueGoes
  <2> QED
    BY <1>1, <1>03, <1>04, <2>2 DEF SupReceive, TaskStep
<1>2. CASE SupBackoffOver
  <2>1. sup.pc = "backoff" /\ (sup'.pc = "idle" \/ (sup'.pc = "validate" /\ sup'.inc = sup.inc))
    <3>1. CASE sup' = IdleSup
      BY <1>2, <3>1 DEF SupBackoffOver
    <3>2. CASE sup' = [sup EXCEPT !.pc = "validate"]
      BY <1>0, <1>2, <3>2 DEF SupBackoffOver
    <3> QED
      BY <1>2, <3>1, <3>2 DEF SupBackoffOver
  <2>2. SupGoes /\ SupAtRestart
    BY <2>1 DEF SupGoes, SupHoldsPermit, SupSettling, SupAtRestart
  <2> QED
    BY <1>2, <1>05, <2>2 DEF SupBackoffOver
<1>3. CASE SupTargetFails
  <2>1. sup.pc = "validate" /\ \E b : sup' = [sup EXCEPT !.pc = "failed", !.lost = b]
    BY <1>3 DEF SupTargetFails
  <2>2. SupGoes /\ SupAtRestart
    BY <1>0, <2>1 DEF SupGoes, SupHoldsPermit, SupSettling, SupAtRestart
  <2> QED
    BY <1>3, <1>05, <2>2 DEF SupTargetFails
<1>4. CASE SupReserve
  <2>1. sup.pc = "validate" /\ sup'.pc \in {"failed", "permit"} /\ sup'.inc = sup.inc
    <3>1. CASE sup' = [sup EXCEPT !.pc = "failed"]
      BY <1>0, <1>4, <3>1 DEF SupReserve
    <3>2. CASE sup' = [sup EXCEPT !.pc = "permit", !.new = next_inc, !.keep = dead[sup.id].unavail]
      BY <1>01, <1>4, <3>2 DEF SupReserve
    <3> QED
      BY <1>4, <3>1, <3>2 DEF SupReserve
  <2>2. SupGoes /\ SupAtRestart
    BY <2>1 DEF SupGoes, SupHoldsPermit, SupSettling, SupAtRestart
  <2> QED
    BY <1>4, <1>05, <2>2 DEF SupReserve
<1>5. CASE SupPermit
  <2>1. /\ sup.pc = "permit"
        /\ sup'.pc = "idle" \/ (sup'.pc = "spawn" /\ sup'.inc = sup.inc /\ ~gate.closing)
    <3>1. CASE sup' = IdleSup
      BY <1>5, <3>1 DEF SupPermit
    <3>2. CASE sup' = [sup EXCEPT !.pc = "spawn"] /\ ~gate.closing
      BY <1>0, <1>5, <3>2 DEF SupPermit
    <3> QED
      BY <1>5, <3>1, <3>2 DEF SupPermit
  <2>2. SupGoes /\ SupAtRestart
    BY <2>1 DEF SupGoes, SupHoldsPermit, SupSettling, SupAtRestart
  <2> QED
    BY <1>5, <1>05, <2>2 DEF SupPermit
<1>6. CASE SupSpawnFails
  <2>1. sup.pc = "spawn" /\ sup'.pc = "failed" /\ sup'.inc = sup.inc
    BY <1>0, <1>6 DEF SupSpawnFails, SupReturn
  <2>2. SupGoes /\ SupAtRestart
    BY <2>1 DEF SupGoes, SupHoldsPermit, SupSettling, SupAtRestart
  <2> QED
    BY <1>6, <1>05, <2>2 DEF SupSpawnFails
<1>7. CASE SupPublish
  <2>1. sup.pc = "spawn" /\ sup.id \in Ids /\ sup.new \in Incs /\ respawnQ' = respawnQ
    BY <1>02, <1>7 DEF SupPublish
  <2>2. CASE rd' = rd /\ sup' \in {IdleSup, [sup EXCEPT !.pc = "failed"]}
    <3>0. sup'.pc = "idle" \/ (sup'.pc = "failed" /\ sup'.inc = sup.inc)
      <4>1. CASE sup' = IdleSup
        BY <4>1
      <4>2. CASE sup' = [sup EXCEPT !.pc = "failed"]
        BY <1>0, <4>2
      <4> QED
        BY <2>2, <4>1, <4>2
    <3>1. SupGoes /\ SupAtRestart
      BY <2>1, <3>0 DEF SupGoes, SupHoldsPermit, SupSettling, SupAtRestart
    <3> QED
      BY <1>05, <2>1, <2>2, <3>1
  <2>3. CASE /\ RespawnReplacementIsCurrent(sup.id, sup.inc, sup.new) /\ pending' = pending
             /\ rd' = [rd EXCEPT ![sup.new] =
                          [NoReader EXCEPT !.pc = "starting", !.id = sup.id, !.gen = sup.gen,
                                           !.policy = sup.policy, !.target = sup.target,
                                           !.count = sup.count + 1]]
             /\ sup' = [sup EXCEPT !.pc = "start"]
    <3>1. rd[sup.new].pc = "none"
      BY <2>1 DEF SessionInv, Fresh, Blank, SupWaits
    <3>2. rd'[sup.new].pc = "starting" /\ \A n \in Incs \ {sup.new} : rd'[n] = rd[n]
      BY <2>1, <2>3 DEF NoReader
    <3>3. Publisher(sup.new)
      BY <1>0, <2>1, <2>3 DEF Publisher, ReplacementIsCurrent, RespawnReplacementIsCurrent
    <3>4. \A n \in Incs : ReaderGoes(n)
      BY <3>1, <3>2, <3>3 DEF ReaderGoes
    <3>5. SupGoes /\ SupAtRestart
      BY <1>0, <2>1, <2>3 DEF SupGoes, SupHoldsPermit, SupSettling, SupAtRestart
    <3> QED
      BY <1>03, <2>1, <3>4, <3>5 DEF TaskStep, QueueGoes
  <2> QED
    BY <1>7, <2>2, <2>3 DEF SupPublish, SupReturn
<1>8. CASE SupStart
  <2>1. /\ sup.pc = "start" /\ sup.new \in Incs /\ rd[sup.new].pc = "starting"
        /\ sup' = [sup EXCEPT !.pc = "finish"] /\ respawnQ' = respawnQ
    BY <1>02, <1>8 DEF SupStart, IInv, Started
  <2>2. rd'[sup.new].pc = "running" /\ \A n \in Incs \ {sup.new} : rd'[n] = rd[n]
    BY <1>8, <2>1 DEF SupStart, ReaderType
  <2>3. \A n \in Incs : ReaderGoes(n)
    BY <2>1, <2>2 DEF ReaderGoes
  <2>4. SupGoes /\ SupAtRestart
    BY <1>0, <2>1, <2>2 DEF SupGoes, SupHoldsPermit, SupSettling, SupAtRestart
  <2> QED
    BY <1>03, <2>1, <2>3, <2>4 DEF TaskStep, QueueGoes
<1>9. CASE SupStartFails
  <2>1. sup.pc = "start" /\ sup' = [sup EXCEPT !.pc = "unstart"]
    BY <1>9 DEF SupStartFails
  <2>2. SupGoes /\ SupAtRestart
    BY <1>0, <2>1 DEF SupGoes, SupHoldsPermit, SupSettling, SupAtRestart
  <2> QED
    BY <1>9, <1>05, <2>2 DEF SupStartFails
<1>10. CASE SupUnstart
  <2>1. /\ sup.pc = "unstart" /\ sup.new \in Incs /\ sup.id \in Ids /\ rd[sup.new].pc # "none"
        /\ sup' = [sup EXCEPT !.pc = "failed"] /\ respawnQ' = respawnQ
    BY <1>02, <1>10 DEF SupUnstart, SupReturn, SessionInv, Begun
  <2>2. rd'[sup.new].pc = "done" /\ \A n \in Incs \ {sup.new} : rd'[n] = rd[n]
    BY <1>10, <2>1 DEF SupUnstart
  <2>3. pending'[sup.id] # sup.new
    <3>1. FinishFailedReplacement(sup.id, sup.new, FALSE, sup.keep)
      BY <1>10 DEF SupUnstart
    <3>2. CASE pending[sup.id] # sup.new
      BY <2>1, <3>1, <3>2 DEF FinishFailedReplacement, ReplacementIsCurrent
    <3>3. CASE pending[sup.id] = sup.new
      <4>1. live[sup.id] \in {NoInc, sup.new} /\ sup.new # NoInc
        BY <2>1, <3>3 DEF LivePending
      <4>2. pending' = FinishReplacement(sup.id, sup.new)
        BY <3>1, <3>3, <4>1 DEF FinishFailedReplacement, ReplacementIsCurrent
      <4> QED
        BY <2>1, <4>1, <4>2 DEF FinishReplacement
    <3> QED
      BY <3>2, <3>3
  <2>4. \A n \in Incs : ReaderGoes(n)
    BY <2>1, <2>2 DEF ReaderGoes
  <2>5. SupGoes /\ SupAtRestart
    BY <1>0, <2>1, <2>2, <2>3 DEF SupGoes, SupHoldsPermit, SupSettling, SupAtRestart
  <2> QED
    BY <1>03, <2>1, <2>4, <2>5 DEF TaskStep, QueueGoes
<1>11. CASE SupFinish
  <2>1. /\ sup.pc = "finish" /\ sup.new \in Incs /\ sup.id \in Ids /\ sup' = IdleSup
        /\ pending' = FinishReplacement(sup.id, sup.new)
    BY <1>02, <1>11 DEF SupFinish, SupReturn
  <2>2. pending'[sup.id] # sup.new
    BY <2>1 DEF FinishReplacement
  <2>3. SupGoes /\ SupAtRestart
    BY <2>1, <2>2 DEF SupGoes, SupHoldsPermit, SupSettling, SupAtRestart
  <2> QED
    BY <1>11, <1>05, <2>3 DEF SupFinish
<1>12. CASE SupFailed
  <2>1. sup.pc = "failed" /\ sup' = IdleSup
    BY <1>12 DEF SupFailed
  <2>2. SupGoes /\ SupAtRestart
    BY <2>1 DEF SupGoes, SupHoldsPermit, SupSettling, SupAtRestart
  <2> QED
    BY <1>12, <1>05, <2>2 DEF SupFailed
<1> QED
  BY <1>1, <1>2, <1>3, <1>4, <1>5, <1>6, <1>7, <1>8, <1>9, <1>10, <1>11, <1>12 DEF SupStep

\* Requests, disposals and the shutdown move no task, reader or command.
LEMMA NextTasks ==
    ASSUME SessionInv, LivePending, [Next]_vars
    PROVE  TaskStep
<1>1. ASSUME UNCHANGED <<cr, rd, sup, respawnQ>> PROVE TaskStep
  BY <1>1 DEF TaskStep, CrGoes, SupGoes, SupHoldsPermit, QueueGoes, SupAtRestart, ReaderGoes
<1>2. CASE UNCHANGED vars
  BY <1>1, <1>2 DEF vars, procVars
<1>3. CASE \/ \E i \in Ids : Kill(i) \/ MarkTargetUnavailable(i) \/ RemoveBegin(i)
           \/ \E i \in Ids, inc \in Incs : RequestTermination(i, inc)
           \/ SweepTick \/ SweepCheck
           \/ \E r \in Removers : RemoveStep(r) \/ RemoveDeleteFails(r)
           \/ TryClaimHandoff \/ TryClaimForcedHandoff \/ TryClaimAgentHandoff \/ Release
  BY <1>1, <1>3, ZenonT(60)
     DEF Kill, MarkTargetUnavailable, RemoveBegin, RequestTermination, SweepTick, SweepCheck,
         RemoveStep, RemoveLock, RemoveDelete, RemoveEvict, RemoveDeleteFails, procVars,
         TryClaimHandoff, TryClaimForcedHandoff, TryClaimAgentHandoff, Claim, Release
<1>4. CASE DisposeBegin \/ DisposeStep \/ DisposeRemoveFails \/ StopAll \/ Shutdown \/ JoinReaders
  BY <1>1, <1>4 DEF DisposeBegin, DisposeStep, DisposeMark, DisposeRemove, DisposeEvict, DisposeClear,
     DisposeUnmark, DisposeRemoveFails, StopAll, Shutdown, JoinReaders
<1> QED
  BY <1>2, <1>3, <1>4, CreateTasks, ReaderTasks, SupTasks DEF Next

-----------------------------------------------------------------------------
(***************************************************************************)
(* Restarts that wait, readers that start, and the end                     *)
(***************************************************************************)
\* A caller that is about to reserve an id has marked what it held.
Evicted == \A c \in Callers : cr[c].pc = "reserve" =>
               cr[c].id \in killed \/ dead[cr[c].id].inc = NoInc

\* A command is sent once, by the reader that is past it, and handled once.
Past  == {"emit", "done"}
InQueue(n) == \E k \in 1 .. Len(respawnQ) : respawnQ[k].inc = n
Queue ==
    /\ \A n \in Incs : InQueue(n) => rd[n].pc \in Past
    /\ sup.pc # "idle" => sup.inc \in Incs /\ rd[sup.inc].pc \in Past /\ ~InQueue(sup.inc)
    /\ \A j, k \in 1 .. Len(respawnQ) : respawnQ[j].inc = respawnQ[k].inc => j = k

\* A restart that is asked for and still wanted is not blocked by a reservation,
\* and before that at most by its own create or respawn.
Asked(n) ==
    InQueue(n) \/ (sup.pc \in {"backoff", "validate"} /\ sup.inc = n) \/ rd[n].pc = "respawn"
Wanted(i, n) == dead[i].inc = n /\ i \notin killed
Unblocked == \A n \in Incs, i \in Ids : Asked(n) /\ Wanted(i, n) => pending[i] = NoInc
Early == {"starting", "running", "persist"}
SelfReserved ==
    \A n \in Incs, i \in Ids : rd[n].pc \in Early /\ Wanted(i, n) => pending[i] \in {NoInc, n}

\* The reservation of a published process is finished by its holder.
Unfinished ==
    \A n \in Incs, i \in Ids : pending[i] = n /\ rd[n].pc # "none" =>
        \/ \E c \in Callers : cr[c].pc \in Settling /\ cr[c].inc = n /\ cr[c].id = i
        \/ sup.pc \in SupSettling /\ sup.new = n /\ sup.id = i

\* A reader that has not started is somebody's to start.
Starters ==
    \A n \in Incs : rd[n].pc = "starting" =>
        \/ \E c \in Callers : cr[c].pc \in {"start", "unstart", "rekill"} /\ cr[c].inc = n
        \/ sup.pc \in {"start", "unstart"} /\ sup.new = n

\* The last disposal closes the gate, drains it and leaves nothing behind.
NoPermits == ~SupHoldsPermit /\ \A c \in Callers : cr[c].pc = "idle"
Shut ==
    /\ phase \in {"closing", "joining", "closed"} => gate.closing
    /\ phase = "closing" => disp.pc # "idle" /\ disp.closing
    /\ disp.pc # "idle" /\ disp.closing =>
         phase = "closing" /\ disp.pc \in {"drain", "clear", "unmark"}
    /\ phase \in {"joining", "closed"} => NoPermits /\ live = NoEntries
    /\ phase = "closed" => \A n \in Incs : rd[n].pc \in {"none", "done"}

RestartInv ==
    /\ FleetInv /\ LivePending /\ Evicted /\ Queue /\ Unblocked /\ SelfReserved /\ Unfinished
    /\ Starters /\ Shut

\* Whoever reserves an id finds no session under it.
LEMMA ReserveMoves ==
    ASSUME SessionInv, Moves, NEW i \in Ids
    PROVE  pending'[i] \in {pending[i], NoInc} \/ (Reserves(i) /\ live[i] = NoInc)
<1> IInv /\ pending \in [Ids -> IncType]
  BY TypesHere DEF SessionInv
<1>1. ASSUME NEW j \in Ids, Kills(j) PROVE pending' = [pending EXCEPT ![j] = NoInc]
  BY <1>1 DEF Kills, KillInternalImpl
<1>2. ASSUME NEW j \in Ids, Reserves(j)
      PROVE  pending' = [pending EXCEPT ![j] = next_inc] /\ live[j] = NoInc
  <2>1. pending' = [pending EXCEPT ![j] = next_inc]
    BY <1>2 DEF Reserves, BeginReplacement
  <2>2. CASE \E c \in Callers : cr[c].pc = "reserve" /\ cr[c].id = j
    BY <2>1, <2>2 DEF SessionInv, Fresh
  <2>3. CASE RespawnAdmissionIsCurrent(j, sup.inc)
    BY <2>1, <2>3 DEF RespawnAdmissionIsCurrent, RespawnSourceIsCurrent
  <2> QED
    BY <1>2, <2>2, <2>3 DEF Reserves
<1>3. ASSUME NEW j \in Ids, NEW n \in Incs, Finishes(j, n) \/ Fails(j, n)
      PROVE  pending' \in {pending, FinishReplacement(j, n)}
  BY <1>3 DEF Finishes, Fails, FinishFailedReplacement
<1>4. ASSUME NEW j \in Ids, NEW n \in Incs, pending' \in {pending, FinishReplacement(j, n)}
      PROVE  pending'[i] \in {pending[i], NoInc}
  BY <1>4 DEF FinishReplacement
<1>5. ASSUME NEW j \in Ids, Reserves(j)
      PROVE  pending'[i] \in {pending[i], NoInc} \/ (Reserves(i) /\ live[i] = NoInc)
  BY <1>2, <1>5
<1> QED
  BY <1>1, <1>3, <1>4, <1>5
     DEF Moves, Rests, Evicts, Prunes, Settles, Signals, Retains, Reports, Publishes, Exits,
         ExitsLate

\* Where a tombstone that is still wanted comes from.
LEMMA WantedMoves ==
    ASSUME SessionInv, Moves, NEW i \in Ids, NEW n \in Incs, dead'[i].inc = n, i \notin killed'
    PROVE  Wanted(i, n) \/ pending'[i] = NoInc \/ Exits(i, n)
<1> IInv /\ dead \in [Ids -> DeadType] /\ pending \in [Ids -> IncType] /\ killed \subseteq Ids
    /\ live \in [Ids -> IncType] /\ n # NoInc
  BY TypesHere DEF SessionInv, Incs, NoInc
<1>0. ASSUME dead'[i].inc = dead[i].inc, killed \subseteq killed' PROVE Wanted(i, n)
  BY <1>0 DEF Wanted
<1>00. \A m, x, b : /\ [Tombstone(m, x) EXCEPT !.unavail = b].inc = m
                    /\ [Tombstone(m, x) EXCEPT !.will_restart = b].inc = m
  BY DEF Tombstone, NoDead
<1>1. CASE Rests \/ (\E j \in Ids : Reserves(j) \/ Settles(j) \/ Signals(j))
  <2>1. dead'[i].inc = dead[i].inc /\ killed' = killed
    BY <1>1 DEF Rests, Reserves, Settles, Signals
  <2> QED
    BY <1>0, <2>1
<1>2. CASE \E j \in Ids, m \in Incs : Reports(j, m) \/ Finishes(j, m) \/ ExitsLate(j, m)
  <2>1. dead' = dead /\ killed' = killed
    BY <1>2 DEF Reports, Finishes, ExitsLate
  <2> QED
    BY <1>0, <2>1
<1>3. CASE Evicts
  BY <1>0, <1>3 DEF Evicts, NoDead
<1>4. CASE Prunes
  <2>1. dead' = dead /\ pending' = pending
    BY <1>4 DEF Prunes
  <2>2. i \in killed \ killed' => pending[i] = NoInc
    BY <1>4 DEF Prunes
  <2> QED
    BY <2>1, <2>2 DEF Wanted
<1>5. ASSUME NEW j \in Ids, Kills(j) PROVE Wanted(i, n)
  <2>1. killed' = killed \union {j} /\ (dead' = dead \/ \E d : dead' = [dead EXCEPT ![j] = d])
    BY <1>5 DEF Kills, KillInternalImpl
  <2> QED
    BY <1>0, <2>1
<1>6. ASSUME NEW j \in Ids, Retains(j) PROVE Wanted(i, n) \/ pending'[i] = NoInc
  <2>1. /\ pending[j] = NoInc /\ pending' = pending /\ killed' = killed
        /\ \E d : dead' = [dead EXCEPT ![j] = d]
    BY <1>6 DEF Retains
  <2> QED
    BY <1>0, <2>1
<1>7. ASSUME NEW j \in Ids, NEW m \in Incs, Publishes(j, m) PROVE Wanted(i, n)
  <2>1. dead' = [dead EXCEPT ![j] = NoDead] /\ killed' = killed \ {j}
    BY <1>7 DEF Publishes
  <2> QED
    BY <2>1 DEF Wanted, NoDead
<1>8. ASSUME NEW j \in Ids, NEW m \in Incs, Exits(j, m) PROVE Wanted(i, n) \/ Exits(i, n)
  <2>1. PICK w \in BOOLEAN :
          dead' = [dead EXCEPT ![j] = [Tombstone(m, rd[m].target) EXCEPT !.will_restart = w]]
    BY <1>8 DEF Exits
  <2>2. killed' = killed
    BY <1>8 DEF Exits
  <2>3. CASE i = j
    <3>1. dead'[i].inc = m
      BY <1>00, <2>1, <2>3
    <3> QED
      BY <1>8, <2>3, <3>1
  <2>4. CASE i # j
    BY <1>0, <2>1, <2>2, <2>4
  <2> QED
    BY <2>3, <2>4
<1>9. ASSUME NEW j \in Ids, NEW m \in Incs, Fails(j, m) PROVE Wanted(i, n) \/ pending'[i] = NoInc
  <2>1. killed' = killed
    BY <1>9 DEF Fails
  <2>2. PICK t \in BOOLEAN, k \in BOOLEAN : FinishFailedReplacement(j, m, t, k)
    BY <1>9 DEF Fails
  <2>3. CASE dead' = dead
    BY <1>0, <2>1, <2>3
  <2>4. CASE pending[j] = m /\ pending' = FinishReplacement(j, m) /\ \E d : dead' = [dead EXCEPT ![j] = d]
    BY <1>0, <2>1, <2>4 DEF FinishReplacement
  <2> QED
    <3>1. \/ dead' = dead
          \/ /\ pending[j] = m /\ pending' = FinishReplacement(j, m)
             /\ \/ dead' = [dead EXCEPT ![j] = [Tombstone(m, rd[m].target) EXCEPT !.unavail = k]]
                \/ dead' = [dead EXCEPT ![j] = NoDead]
                \/ dead' = [dead EXCEPT ![j].unavail = @ \/ k, ![j].will_restart = FALSE]
      BY <2>2 DEF FinishFailedReplacement, ReplacementIsCurrent
    <3>2. dead' = [dead EXCEPT ![j].unavail = @ \/ k, ![j].will_restart = FALSE] =>
            dead' = [dead EXCEPT ![j] =
                       [dead[j] EXCEPT !.unavail = dead[j].unavail \/ k, !.will_restart = FALSE]]
      OBVIOUS
    <3> QED
      BY <2>3, <2>4, <3>1, <3>2
<1> QED
  BY <1>1, <1>2, <1>3, <1>4, <1>5, <1>6, <1>7, <1>8, <1>9 DEF Moves

\* A caller that waits to reserve keeps what it has marked.
LEMMA EvictedMoves ==
    ASSUME SessionInv, Evicted, Moves
    PROVE  Evicted'
<1> IInv /\ Fresh /\ dead \in [Ids -> DeadType] /\ killed \subseteq Ids /\ live \in [Ids -> IncType]
  BY TypesHere DEF SessionInv
<1> SUFFICES ASSUME NEW c \in Callers, cr'[c].pc = "reserve"
             PROVE  cr'[c].id \in killed' \/ dead'[cr'[c].id].inc = NoInc
  BY DEF Evicted
<1>0. ASSUME CrKept(c)
      PROVE  /\ cr'[c].id = cr[c].id /\ cr[c].id \in Ids /\ live[cr[c].id] = NoInc /\ CreateIn(c)
             /\ cr[c].id \in killed \/ dead[cr[c].id].inc = NoInc
  BY <1>0 DEF CrKept, Evicted, Fresh, CreateIn, IInv, TInv, NamedTasks, CrNamed
<1>00. ASSUME CrKept(c), \A j \in Ids : dead'[j].inc \in {dead[j].inc, NoInc}, killed \subseteq killed'
       PROVE  cr'[c].id \in killed' \/ dead'[cr'[c].id].inc = NoInc
  BY <1>0, <1>00
<1>1. CASE Rests \/ Evicts
  BY <1>1, <1>00 DEF Rests, Evicts, TasksKept, NoDead
<1>2. CASE Prunes
  <2>1. CrKept(c) /\ dead' = dead
    BY <1>2 DEF Prunes, TasksKept
  <2>2. \A i \in killed \ killed' : dead[i].inc = NoInc
    BY <1>2 DEF Prunes, CurrentInc
  <2> QED
    BY <1>0, <2>1, <2>2
<1>3. ASSUME NEW i \in Ids, Kills(i) PROVE cr'[c].id \in killed' \/ dead'[cr'[c].id].inc = NoInc
  <2>1. killed' = killed \union {i} /\ (dead' = dead \/ \E d : dead' = [dead EXCEPT ![i] = d])
    BY <1>3 DEF Kills, KillInternalImpl
  <2>2. CrKept(c) \/ cr'[c].id = i
    BY <1>3 DEF Kills
  <2> QED
    BY <1>0, <2>1, <2>2
<1>4. ASSUME NEW i \in Ids, Reserves(i) PROVE cr'[c].id \in killed' \/ dead'[cr'[c].id].inc = NoInc
  <2>1. CrKept(c)
    BY <1>4 DEF Reserves, CrKept
  <2> QED
    BY <1>00, <1>4, <2>1 DEF Reserves
<1>5. ASSUME NEW i \in Ids, Settles(i) \/ Signals(i)
      PROVE  cr'[c].id \in killed' \/ dead'[cr'[c].id].inc = NoInc
  <2>1. CrKept(c) /\ killed' = killed /\ \A j \in Ids : dead'[j].inc = dead[j].inc
    BY <1>5 DEF Settles, Signals, TasksKept
  <2> QED
    BY <1>00, <2>1
<1>6. ASSUME NEW i \in Ids, Retains(i) PROVE cr'[c].id \in killed' \/ dead'[cr'[c].id].inc = NoInc
  BY <1>0, <1>6 DEF Retains, TasksKept
<1>7. ASSUME NEW i \in Ids, NEW n \in Incs, Reports(i, n) \/ Finishes(i, n) \/ ExitsLate(i, n)
      PROVE  cr'[c].id \in killed' \/ dead'[cr'[c].id].inc = NoInc
  BY <1>00, <1>7 DEF Reports, Finishes, ExitsLate, TasksKept
<1>8. ASSUME NEW i \in Ids, NEW n \in Incs, Publishes(i, n)
      PROVE  cr'[c].id \in killed' \/ dead'[cr'[c].id].inc = NoInc
  <2>1. CrKept(c)
    BY <1>8 DEF Publishes, SettledByCaller, SettledBySup, CrKept
  <2>2. dead' = [dead EXCEPT ![i] = NoDead] /\ killed' = killed \ {i}
    BY <1>8 DEF Publishes
  <2> QED
    BY <1>0, <2>1, <2>2 DEF NoDead
<1>9. ASSUME NEW i \in Ids, NEW n \in Incs, Exits(i, n)
      PROVE  cr'[c].id \in killed' \/ dead'[cr'[c].id].inc = NoInc
  <2>1. CrKept(c) /\ live[i] = n /\ killed' = killed /\ n # NoInc
    BY <1>9 DEF Exits, TasksKept, Incs, NoInc
  <2>2. \E d : dead' = [dead EXCEPT ![i] = d]
    BY <1>9 DEF Exits
  <2> QED
    BY <1>0, <2>1, <2>2
<1>10. ASSUME NEW i \in Ids, NEW n \in Incs, Fails(i, n)
       PROVE  cr'[c].id \in killed' \/ dead'[cr'[c].id].inc = NoInc
  <2>1. CrKept(c) /\ killed' = killed
    BY <1>10 DEF Fails, SettledByCaller, SettledBySup, CrKept
  <2>2. PICK t \in BOOLEAN, k \in BOOLEAN : FinishFailedReplacement(i, n, t, k)
    BY <1>10 DEF Fails
  <2>3. CASE live[i] = n
    <3>1. n # NoInc /\ (dead' = dead \/ \E d : dead' = [dead EXCEPT ![i] = d])
      <4>1. \/ dead' = dead
            \/ dead' = [dead EXCEPT ![i] = [Tombstone(n, rd[n].target) EXCEPT !.unavail = k]]
        BY <2>2, <2>3 DEF FinishFailedReplacement, Incs, NoInc
      <4> QED
        BY <4>1 DEF Incs, NoInc
    <3> QED
      BY <1>0, <2>1, <2>3, <3>1
  <2>4. CASE live[i] # n
    <3>1. \/ dead' = dead
          \/ dead' = [dead EXCEPT ![i] = NoDead]
          \/ dead' = [dead EXCEPT ![i].unavail = @ \/ k, ![i].will_restart = FALSE]
      BY <2>2, <2>4 DEF FinishFailedReplacement
    <3>2. \A j \in Ids : dead'[j].inc \in {dead[j].inc, NoInc}
      BY <3>1, SMTT(30) DEF NoDead, DeadType
    <3> QED
      BY <1>00, <2>1, <3>2
  <2> QED
    BY <2>3, <2>4
<1> QED
  BY <1>1, <1>2, <1>3, <1>4, <1>5, <1>6, <1>7, <1>8, <1>9, <1>10 DEF Moves

\* A reservation is never beside a live session of another incarnation.
LEMMA LivePendingMoves ==
    ASSUME SessionInv, LivePending, Moves
    PROVE  LivePending'
<1> IInv
  BY DEF SessionInv
<1> SUFFICES ASSUME NEW i \in Ids, live'[i] # NoInc PROVE pending'[i] \in {NoInc, live'[i]}
  BY DEF LivePending
<1>1. CASE live'[i] = live[i]
  BY <1>1, ReserveMoves DEF LivePending
<1>2. ASSUME NEW n \in Incs, live'[i] = n, Publishes(i, n) PROVE pending'[i] = live'[i]
  BY <1>2 DEF Publishes, ReplacementIsCurrent
<1> QED
  BY <1>1, <1>2, LiveMoves

\* Readers, the supervisor and the queue hand each command on once.
LEMMA QueueKept ==
    ASSUME SessionInv, Queue, TaskStep
    PROVE  Queue'
<1> IInv /\ respawnQ \in Seq(CmdType) /\ Incs \subseteq Nat
  BY DEF SessionInv, IInv, TInv, TypeOK, TaskTypeOK, Incs
<1>0. Len(respawnQ) \in Nat /\ \A k \in 1 .. Len(respawnQ) : respawnQ[k].inc \in Incs
  <2>1. Len(respawnQ) \in Nat /\ \A k \in 1 .. Len(respawnQ) : respawnQ[k] \in CmdType
    OBVIOUS
  <2>2. \A x \in CmdType : x.inc \in Incs
    BY DEF CmdType
  <2> QED
    BY <2>1, <2>2
<1>1. \A n \in Incs : rd[n].pc \in Past => rd'[n].pc \in Past
  BY DEF TaskStep, ReaderGoes, Past
<1>2. CASE respawnQ' = respawnQ /\ SupAtRestart
  <2>1. \A n : InQueue(n)' <=> InQueue(n)
    BY <1>2 DEF InQueue
  <2>2. \A n \in Incs : InQueue(n)' => rd'[n].pc \in Past
    BY <1>1, <2>1 DEF Queue
  <2>3. sup'.pc # "idle" => sup'.inc \in Incs /\ rd'[sup'.inc].pc \in Past /\ ~InQueue(sup.inc)
    BY <1>1, <1>2 DEF Queue, SupAtRestart
  <2>4. sup'.pc # "idle" => sup'.inc = sup.inc
    BY <1>2 DEF SupAtRestart
  <2>5. sup'.pc # "idle" => \A k \in 1 .. Len(respawnQ') : respawnQ'[k].inc # sup'.inc
    BY <1>2, <2>3, <2>4 DEF InQueue
  <2> QED
    BY <1>2, <2>2, <2>3, <2>5 DEF Queue, InQueue
<1>3. ASSUME NEW n \in Incs, NEW k \in CmdType,
             rd[n].pc = "respawn", rd'[n].pc = "emit", sup' = sup,
             respawnQ' = Append(respawnQ, k), k.inc = n
      PROVE  Queue'
  <2>1. /\ Len(respawnQ') = Len(respawnQ) + 1
        /\ \A j \in 1 .. Len(respawnQ) : respawnQ'[j] = respawnQ[j]
        /\ respawnQ'[Len(respawnQ) + 1] = k
    BY <1>3
  <2>2. ~InQueue(n) /\ (sup.pc # "idle" => sup.inc # n)
    BY <1>3 DEF Queue, Past
  <2>3. \A j \in 1 .. Len(respawnQ) : respawnQ[j].inc # n /\ rd[respawnQ[j].inc].pc \in Past
    BY <1>0, <2>2 DEF InQueue, Queue
  <2>4. \A j \in 1 .. Len(respawnQ') :
          \/ j \in 1 .. Len(respawnQ) /\ respawnQ'[j] = respawnQ[j]
          \/ j = Len(respawnQ) + 1 /\ respawnQ'[j].inc = n
    BY <1>0, <1>3, <2>1
  <2>5. \A j \in 1 .. Len(respawnQ') : rd'[respawnQ'[j].inc].pc \in Past
    BY <1>0, <1>1, <1>3, <2>3, <2>4 DEF Past
  <2>6. sup'.pc # "idle" =>
          /\ sup'.inc \in Incs /\ rd'[sup'.inc].pc \in Past
          /\ \A j \in 1 .. Len(respawnQ') : respawnQ'[j].inc # sup'.inc
    BY <1>1, <1>3, <2>2, <2>4 DEF Queue, InQueue
  <2>7. \A j, l \in 1 .. Len(respawnQ') : respawnQ'[j].inc = respawnQ'[l].inc => j = l
    BY <1>0, <2>3, <2>4 DEF Queue
  <2> QED
    BY <2>5, <2>6, <2>7 DEF Queue, InQueue
<1>4. CASE /\ sup.pc = "idle" /\ respawnQ # << >> /\ rd' = rd
           /\ respawnQ' = Tail(respawnQ) /\ sup'.inc = Head(respawnQ).inc
  <2>1. /\ Len(respawnQ) > 0 /\ Len(respawnQ') = Len(respawnQ) - 1
        /\ \A j \in 1 .. Len(respawnQ') : respawnQ'[j] = respawnQ[j + 1]
        /\ Head(respawnQ) = respawnQ[1]
    BY <1>4
  <2>2. \A j \in 1 .. Len(respawnQ') : j + 1 \in 1 .. Len(respawnQ) /\ j + 1 # 1
    BY <1>0, <2>1
  <2>3. \A j \in 1 .. Len(respawnQ) : rd[respawnQ[j].inc].pc \in Past
    BY <1>0 DEF Queue, InQueue
  <2>4. 1 \in 1 .. Len(respawnQ) /\ sup'.inc = respawnQ[1].inc
    BY <1>0, <1>4, <2>1
  <2>5. /\ sup'.inc \in Incs /\ rd'[sup'.inc].pc \in Past
        /\ \A j \in 1 .. Len(respawnQ') : respawnQ'[j].inc # sup'.inc
    BY <1>0, <1>4, <2>1, <2>2, <2>3, <2>4 DEF Queue
  <2>6. \A j \in 1 .. Len(respawnQ') : rd'[respawnQ'[j].inc].pc \in Past
    BY <1>4, <2>1, <2>2, <2>3
  <2>7. \A j, l \in 1 .. Len(respawnQ') : respawnQ'[j].inc = respawnQ'[l].inc => j = l
    <3> SUFFICES ASSUME NEW j \in 1 .. Len(respawnQ'), NEW l \in 1 .. Len(respawnQ'),
                        respawnQ'[j].inc = respawnQ'[l].inc
                 PROVE  j = l
      OBVIOUS
    <3>1. j + 1 = l + 1
      BY <2>1, <2>2 DEF Queue
    <3> QED
      BY <3>1
  <2> QED
    BY <2>5, <2>6, <2>7 DEF Queue, InQueue
<1> QED
  BY <1>2, <1>3, <1>4 DEF TaskStep, QueueGoes

\* Which restarts are asked for after a step.
LEMMA AskedTasks ==
    ASSUME SessionInv, Queue, TaskStep, NEW n \in Incs, Asked(n)'
    PROVE  Asked(n) \/ (rd[n].pc = "persist" /\ pgate = "free")
<1> IInv /\ respawnQ \in Seq(CmdType)
  BY DEF SessionInv, IInv, TInv, TypeOK, TaskTypeOK
<1>1. CASE rd'[n].pc = "respawn"
  BY <1>1 DEF TaskStep, ReaderGoes, Asked
<1>2. CASE respawnQ' = respawnQ /\ SupAtRestart
  BY <1>1, <1>2 DEF Asked, InQueue, SupAtRestart
<1>3. ASSUME NEW m \in Incs, NEW k \in CmdType, rd[m].pc = "respawn", sup' = sup,
             respawnQ' = Append(respawnQ, k), k.inc = m
      PROVE  Asked(n) \/ (rd[n].pc = "persist" /\ pgate = "free")
  <2>1. InQueue(n)' => InQueue(n) \/ n = m
    <3> SUFFICES ASSUME NEW j \in 1 .. Len(respawnQ'), respawnQ'[j].inc = n
                 PROVE  InQueue(n) \/ n = m
      BY DEF InQueue
    <3>1. /\ Len(respawnQ) \in Nat /\ Len(respawnQ') = Len(respawnQ) + 1
          /\ \A l \in 1 .. Len(respawnQ) : respawnQ'[l] = respawnQ[l]
          /\ respawnQ'[Len(respawnQ) + 1] = k
      BY <1>3
    <3>2. j \in 1 .. Len(respawnQ) \/ j = Len(respawnQ) + 1
      BY <3>1
    <3> QED
      BY <1>3, <3>1, <3>2 DEF InQueue
  <2> QED
    BY <1>1, <1>3, <2>1 DEF Asked
<1>4. CASE /\ sup.pc = "idle" /\ respawnQ # << >> /\ rd' = rd
           /\ respawnQ' = Tail(respawnQ) /\ sup'.inc = Head(respawnQ).inc
  <2>1. /\ Len(respawnQ) \in Nat \ {0} /\ Len(respawnQ') = Len(respawnQ) - 1
        /\ \A j \in 1 .. Len(respawnQ') : respawnQ'[j] = respawnQ[j + 1]
        /\ Head(respawnQ) = respawnQ[1]
    BY <1>4
  <2>2. \A j \in 1 .. Len(respawnQ') : j + 1 \in 1 .. Len(respawnQ)
    BY <2>1
  <2>3. InQueue(n)' => InQueue(n)
    BY <2>1, <2>2 DEF InQueue
  <2>4. 1 \in 1 .. Len(respawnQ)
    BY <2>1
  <2>5. sup'.inc = n => InQueue(n)
    BY <1>4, <2>1, <2>4 DEF InQueue
  <2> QED
    BY <1>1, <2>3, <2>5 DEF Asked
<1> QED
  BY <1>2, <1>3, <1>4 DEF TaskStep, QueueGoes

\* A restart that is still wanted is reserved by the supervisor alone.
LEMMA WantedReserved ==
    ASSUME SessionInv, Evicted, NEW i \in Ids, NEW n \in Incs, Wanted(i, n), Reserves(i)
    PROVE  sup.pc = "validate" /\ sup'.pc \in {"permit", "failed"} /\ sup.inc = n
<1>1. CASE \E c \in Callers : cr[c].pc = "reserve" /\ cr[c].id = i
  BY <1>1 DEF Evicted, Wanted, Incs, NoInc
<1>2. CASE sup.pc = "validate" /\ sup'.pc \in {"permit", "failed"} /\ RespawnAdmissionIsCurrent(i, sup.inc)
  BY <1>2 DEF RespawnAdmissionIsCurrent, RespawnSourceIsCurrent, Wanted
<1> QED
  BY <1>1, <1>2 DEF Reserves

\* Only a publication makes a reader.
LEMMA ReaderMade ==
    ASSUME Moves, NEW n \in Incs, rd[n].pc = "none", rd'[n].pc # "none"
    PROVE  \E i \in Ids : Publishes(i, n)
<1>1. ~ReadersKept
  BY DEF ReadersKept, ReaderKept
<1>2. ASSUME NEW i \in Ids, NEW m \in Incs, Publishes(i, m) PROVE m = n
  BY <1>2 DEF Publishes, ReaderKept
<1>3. \E i \in Ids, m \in Incs : Publishes(i, m)
  BY <1>1 DEF Moves, Rests, Evicts, Prunes, Kills, Reserves, Settles, Signals, Retains, Reports,
              Finishes, Fails, Exits, ExitsLate
<1> QED
  BY <1>2, <1>3

\* A restart's own create or respawn is the only one in its way, and not for long.
LEMMA UnblockedKept ==
    ASSUME SessionInv, LivePending, Evicted, Queue, Unblocked, SelfReserved, Unfinished,
           Moves, TaskStep
    PROVE  Unblocked' /\ SelfReserved'
<1> IInv
  BY DEF SessionInv
<1>1. ASSUME NEW n \in Incs, NEW i \in Ids, Asked(n)', Wanted(i, n)' PROVE pending'[i] = NoInc
  <2> SUFFICES ASSUME pending'[i] # NoInc PROVE FALSE
    OBVIOUS
  <2>1. Asked(n) \/ (rd[n].pc = "persist" /\ pgate = "free")
    BY <1>1, AskedTasks
  <2>2. Asked(n) => rd[n].pc \in {"respawn", "emit", "done"}
    BY DEF Asked, Queue, Past
  <2>3. ~Exits(i, n)
    BY <2>1, <2>2 DEF Exits
  <2>4. Wanted(i, n)
    BY <1>1, <2>3, WantedMoves DEF Wanted
  <2>5. pending[i] = NoInc
    <3>1. CASE Asked(n)
      BY <2>4, <3>1 DEF Unblocked
    <3>2. CASE rd[n].pc = "persist" /\ pgate = "free"
      <4>1. pending[i] \in {NoInc, n}
        BY <2>4, <3>2 DEF SelfReserved, Early
      <4>2. CASE pending[i] = n
        BY <3>2, <4>2 DEF Unfinished, Settling, SupSettling, IInv, GateHeld, CreateIn, SupIn
      <4> QED
        BY <4>1, <4>2
    <3> QED
      BY <2>1, <3>1, <3>2
  <2>6. Reserves(i)
    BY <2>5, ReserveMoves
  <2>7. sup.pc = "validate" /\ sup'.pc \in {"permit", "failed"} /\ sup.inc = n
    BY <2>4, <2>6, WantedReserved
  <2>8. rd[n].pc \in Past /\ ~InQueue(n)
    BY <2>7 DEF Queue
  <2>9. rd'[n].pc \in Past
    BY <2>8 DEF TaskStep, ReaderGoes, Past
  <2>10. respawnQ' = respawnQ
    BY <2>7 DEF TaskStep, QueueGoes
  <2>11. ~InQueue(n)'
    BY <2>8, <2>10 DEF InQueue
  <2> QED
    BY <1>1, <2>7, <2>9, <2>11 DEF Asked, Past
<1>2. ASSUME NEW n \in Incs, NEW i \in Ids, rd'[n].pc \in Early, Wanted(i, n)'
      PROVE  pending'[i] \in {NoInc, n}
  <2>1. CASE Exits(i, n)
    BY <2>1 DEF Exits, LivePending, Incs, NoInc
  <2>2. CASE Wanted(i, n)
    <3>1. rd[n].pc \in Early
      <4>1. rd[n].pc \in Early \/ rd[n].pc = "none"
        BY <1>2 DEF TaskStep, ReaderGoes, Early
      <4>2. ASSUME rd[n].pc = "none" PROVE FALSE
        <5>1. PICK j \in Ids : Publishes(j, n)
          BY <1>2, <4>2, ReaderMade DEF Early
        <5>2. pending[j] = n /\ dead' = [dead EXCEPT ![j] = NoDead]
          BY <5>1 DEF Publishes, ReplacementIsCurrent
        <5>3. n # NoInc /\ dead[i].inc = n
          BY <2>2 DEF Wanted, Incs, NoInc
        <5>4. dead \in [Ids -> DeadType]
          BY TypesHere
        <5>5. i # j
          BY <1>2, <5>2, <5>3, <5>4 DEF Wanted, NoDead
        <5> QED
          BY <5>2, <5>3, <5>5 DEF SessionInv, Identity, Apart, Known
      <4> QED
        BY <4>1, <4>2
    <3>2. pending[i] \in {NoInc, n}
      BY <2>2, <3>1 DEF SelfReserved
    <3>3. ~Reserves(i)
      <4> SUFFICES ASSUME Reserves(i) PROVE FALSE
        OBVIOUS
      <4>1. sup.pc = "validate" /\ sup.inc = n
        BY <2>2, WantedReserved
      <4> QED
        BY <3>1, <4>1 DEF Queue, Past, Early
    <3> QED
      BY <3>2, <3>3, ReserveMoves
  <2> QED
    BY <1>2, <2>1, <2>2, WantedMoves DEF Wanted
<1> QED
  BY <1>1, <1>2 DEF Unblocked, SelfReserved, Wanted

\* Whoever publishes a process finishes its reservation and starts its reader.
LEMMA UnfinishedKept ==
    ASSUME SessionInv, SessionInv', Unfinished, Starters, Moves, TaskStep
    PROVE  Unfinished' /\ Starters'
<1> IInv /\ next_inc \in Nat
  BY TypesHere DEF SessionInv
<1>1. ASSUME NEW n \in Incs, NEW i \in Ids, pending'[i] = n, rd'[n].pc # "none"
      PROVE  \/ \E c \in Callers : cr'[c].pc \in Settling /\ cr'[c].inc = n /\ cr'[c].id = i
             \/ sup'.pc \in SupSettling /\ sup'.new = n /\ sup'.id = i
  <2>1. n # NoInc
    BY DEF Incs, NoInc
  <2>2. CASE rd[n].pc = "none"
    <3>1. Publisher(n)
      BY <1>1, <2>2 DEF TaskStep, ReaderGoes
    <3>2. \A j \in Ids : pending'[j] = n => j = i
      BY <1>1, <2>1 DEF SessionInv, Identity, Apart, Known
    <3> QED
      BY <3>1, <3>2 DEF Publisher, Settling, SupSettling
  <2>3. CASE rd[n].pc # "none"
    <3>1. n # next_inc
      BY <2>3 DEF SessionInv, Fresh, Blank, Incs
    <3>2. pending[i] = n
      BY <1>1, <2>1, <3>1, PendingMoves
    <3>3. CASE \E c \in Callers : cr[c].pc \in Settling /\ cr[c].inc = n /\ cr[c].id = i
      BY <1>1, <3>3 DEF TaskStep, CrGoes
    <3>4. CASE sup.pc \in SupSettling /\ sup.new = n /\ sup.id = i
      BY <1>1, <3>4 DEF TaskStep, SupGoes
    <3> QED
      BY <2>3, <3>2, <3>3, <3>4 DEF Unfinished
  <2> QED
    BY <2>2, <2>3
<1>2. ASSUME NEW n \in Incs, rd'[n].pc = "starting"
      PROVE  \/ \E c \in Callers : cr'[c].pc \in {"start", "unstart", "rekill"} /\ cr'[c].inc = n
             \/ sup'.pc \in {"start", "unstart"} /\ sup'.new = n
  <2>1. CASE rd[n].pc = "none"
    BY <1>2, <2>1 DEF TaskStep, ReaderGoes, Publisher
  <2>2. CASE rd[n].pc # "none"
    <3>1. rd[n].pc = "starting"
      BY <1>2, <2>2 DEF TaskStep, ReaderGoes
    <3>2. CASE \E c \in Callers : cr[c].pc \in {"start", "unstart", "rekill"} /\ cr[c].inc = n
      BY <1>2, <3>2 DEF TaskStep, CrGoes, Settling
    <3>3. CASE sup.pc \in {"start", "unstart"} /\ sup.new = n
      BY <1>2, <3>3 DEF TaskStep, SupGoes, SupSettling
    <3> QED
      BY <3>1, <3>2, <3>3 DEF Starters
  <2> QED
    BY <2>1, <2>2
<1> QED
  BY <1>1, <1>2 DEF Unfinished, Starters

\* The shutdown goes through its phases and comes to its end with nothing left.
LEMMA ShutKept ==
    ASSUME FleetInv, FleetInv', Starters, Shut, Moves, TaskStep, StageStep
    PROVE  Shut'
<1> SessionInv /\ IInv /\ phase \in PhaseType
  BY DEF FleetInv, SessionInv, IInv, TInv, TypeOK, TaskTypeOK
<1>1. phase' \in {"closing", "joining", "closed"} => gate'.closing
  BY DEF Shut, StageStep
<1>2. phase' = "closing" => disp'.pc # "idle" /\ disp'.closing
  BY DEF Shut, StageStep
<1>3. disp'.pc # "idle" /\ disp'.closing => phase' = "closing" /\ disp'.pc \in {"drain", "clear", "unmark"}
  BY DEF Shut, StageStep
<1>4. ASSUME phase' \in {"joining", "closed"} PROVE NoPermits' /\ live' = NoEntries
  <2>1. phase \in {"joining", "closed"} \/ (phase = "closing" /\ disp.pc = "unmark")
    BY <1>4 DEF Shut, StageStep
  <2>2. gate.closing
    BY <2>1 DEF Shut
  <2>3. NoPermits
    <3>1. CASE disp.pc = "unmark"
      <4>1. gate.active = 0 /\ PermitsCounted
        BY <3>1 DEF IInv, Permits, DisposalIsExclusive
      <4> QED
        BY <4>1, HolderCounted DEF NoPermits, CreateHoldsPermit
    <3> QED
      BY <2>1, <3>1 DEF Shut
  <2>4. live = NoEntries
    BY <2>1 DEF Shut, FleetInv, Emptied
  <2>5. NoPermits'
    BY <2>2, <2>3 DEF NoPermits, TaskStep, CrGoes, SupGoes
  <2>6. \A i \in Ids, n \in Incs : ~Publishes(i, n)
    BY <2>3 DEF NoPermits, Publishes, SettledByCaller, SettledBySup, SupHoldsPermit
  <2>7. \A i \in Ids : live'[i] = NoInc
    BY <2>4, <2>6, LiveMoves DEF NoEntries
  <2>8. live' \in [Ids -> IncType]
    BY DEF FleetInv, SessionInv, IInv, TInv, TypeOK, InnerTypeOK
  <2> QED
    BY <2>5, <2>7, <2>8 DEF NoEntries
<1>5. ASSUME phase' = "closed", NEW n \in Incs PROVE rd'[n].pc \in {"none", "done"}
  <2>1. NoPermits' /\ (phase = "closed" \/ (phase = "joining" /\ ReadersDone /\ rd' = rd))
    BY <1>4, <1>5 DEF StageStep
  <2>2. CASE phase = "closed"
    <3>1. rd[n].pc \in {"none", "done"} /\ ~Publisher(n)
      BY <2>1, <2>2 DEF Shut, NoPermits, Publisher, SupHoldsPermit
    <3> QED
      BY <3>1 DEF TaskStep, ReaderGoes
  <2>3. CASE phase = "joining" /\ ReadersDone /\ rd' = rd
    <3>1. rd[n].pc # "starting"
      BY <2>3 DEF Shut, Starters, NoPermits, SupHoldsPermit
    <3> QED
      BY <2>3, <3>1 DEF ReadersDone
  <2> QED
    BY <2>1, <2>2, <2>3
<1> QED
  BY <1>1, <1>2, <1>3, <1>4, <1>5 DEF Shut

\* The invariant holds at the start ...
LEMMA InitRestarts == Init => RestartInv
<1> SUFFICES ASSUME Init PROVE RestartInv
  OBVIOUS
<1>1. FleetInv
  BY InitFleet
<1>2. sup.pc = "idle" /\ disp.pc = "idle" /\ phase = "up" /\ \A c \in Callers : cr[c].pc = "idle"
  BY DEF Init, IdleCr, IdleSup, IdleDisp
<1>3. \A i \in Ids : live[i] = NoInc /\ pending[i] = NoInc
  BY DEF Init, NoEntries
<1>4. \A n \in Incs : rd[n].pc = "none"
  BY DEF Init, NoReader
<1>5. Len(respawnQ) = 0
  BY DEF Init
<1>6. LivePending /\ Evicted /\ Unblocked /\ SelfReserved /\ Unfinished /\ Starters /\ Shut
  BY <1>2, <1>3, <1>4 DEF LivePending, Evicted, Unblocked, SelfReserved, Unfinished, Starters, Shut
<1>7. Queue
  BY <1>2, <1>5 DEF Queue, InQueue
<1> QED
  BY <1>1, <1>6, <1>7 DEF RestartInv

\* ... and every step keeps it.
LEMMA NextRestarts == RestartInv /\ [Next]_vars => RestartInv'
<1> SUFFICES ASSUME RestartInv, [Next]_vars PROVE RestartInv'
  OBVIOUS
<1> FleetInv /\ SessionInv /\ IInv
  BY DEF RestartInv, FleetInv, SessionInv
<1>1. FleetInv' /\ SessionInv'
  BY NextFleetInv DEF FleetInv
<1>2. Moves
  BY NextMoves DEF SessionInv
<1>3. TaskStep /\ StageStep
  BY NextTasks, NextStages DEF RestartInv
<1>4. LivePending' /\ Evicted' /\ Queue'
  BY <1>2, <1>3, LivePendingMoves, EvictedMoves, QueueKept DEF RestartInv
<1>5. Unblocked' /\ SelfReserved'
  BY <1>2, <1>3, UnblockedKept DEF RestartInv
<1>6. Unfinished' /\ Starters'
  BY <1>1, <1>2, <1>3, UnfinishedKept DEF RestartInv
<1>7. Shut'
  BY <1>1, <1>2, <1>3, ShutKept DEF RestartInv
<1> QED
  BY <1>1, <1>4, <1>5, <1>6, <1>7 DEF RestartInv

\* What others are told of the sessions is true in every state: the fleet looks
\* idle to the suspend coordinator only when it is, the inventory shows exactly
\* what a guarded termination would accept, no queued restart waits for the
\* create or respawn it came from, and a closed manager has no session and no
\* reader left.
THEOREM ReportsAreTrue == Spec => []SessionsAgree
<1>1. RestartInv => QuiescentMeansIdle /\ InventoryAgrees
  BY FleetIsIdle, InventoryIsTrue DEF RestartInv
<1>2. ASSUME RestartInv PROVE RestartNotSelfBlocked
  <2> SUFFICES ASSUME NEW q \in QueuedRestarts, dead[q.id].inc = q.inc, q.id \notin killed
               PROVE  pending[q.id] = NoInc
    BY DEF RestartNotSelfBlocked
  <2>1. IInv /\ respawnQ \in Seq(CmdType)
    BY <1>2 DEF RestartInv, FleetInv, SessionInv, IInv, TInv, TypeOK, TaskTypeOK
  <2>2. q.inc \in Incs /\ q.id \in Ids /\ Asked(q.inc)
    <3>1. CASE \E k \in DOMAIN respawnQ : q = [id |-> respawnQ[k].id, inc |-> respawnQ[k].inc]
      <4>1. PICK k \in 1 .. Len(respawnQ) : q = [id |-> respawnQ[k].id, inc |-> respawnQ[k].inc]
        BY <2>1, <3>1
      <4>2. respawnQ[k] \in CmdType
        BY <2>1
      <4>3. q.id = respawnQ[k].id /\ q.inc = respawnQ[k].inc
        BY <4>1
      <4> QED
        BY <4>2, <4>3 DEF CmdType, Asked, InQueue
    <3>2. CASE sup.pc \in {"backoff", "validate"} /\ q = [id |-> sup.id, inc |-> sup.inc]
      <4>1. q.id = sup.id /\ q.inc = sup.inc
        BY <3>2
      <4> QED
        BY <1>2, <2>1, <3>2, <4>1 DEF RestartInv, Queue, Asked, IInv, TInv, NamedTasks, SupNamed
    <3> QED
      BY <3>1, <3>2 DEF QueuedRestarts
  <2> QED
    BY <1>2, <2>2 DEF RestartInv, Unblocked, Wanted
<1>3. RestartInv => ClosedStaysEmpty
  BY DEF RestartInv, Shut, ClosedStaysEmpty
<1>4. RestartInv => SessionsAgree
  BY <1>1, <1>2, <1>3 DEF SessionsAgree
<1> QED
  BY <1>4, InitRestarts, NextRestarts, PTL DEF Spec

-----------------------------------------------------------------------------
(***************************************************************************)
(* What the database holds while sessions run, for every set of ids and    *)
(* callers and every number of incarnations and requests: a crash of the   *)
(* server at any moment restores the sessions that were running.           *)
(***************************************************************************)

-----------------------------------------------------------------------------
(***************************************************************************)
(* What the operations of the store do to rows and watermarks              *)
(***************************************************************************)
\* s and t agree but for the row and the watermark of i.
SameBut(s, t, i) ==
    \A j \in Ids \ {i} : t.rows[j] = s.rows[j] /\ t.removed[j] = s.removed[j]

\* A save under an incarnation that neither row nor watermark is above writes
\* the row, alive, and takes the watermark away.
LEMMA SaveEffect ==
    ASSUME NEW s \in StoreType, NEW i \in Ids, NEW n \in Nat, NEW b \in BOOLEAN,
           NEW t, t = SaveSession(s, i, n, b)
    PROVE  /\ SameBut(s, t, i)
           /\ t.rows[i].inc \in {s.rows[i].inc, n} /\ t.removed[i] \in {s.removed[i], 0}
           /\ s.rows[i].inc <= n /\ s.removed[i] < n =>
                t.rows[i].inc = n /\ t.rows[i].alive /\ t.removed[i] = 0
<1> /\ StoreIds = Ids /\ s.removed \in [Ids -> Nat] /\ s.rows \in [Ids -> RowType]
    /\ s.rows[i].inc \in Nat /\ s.removed[i] \in Nat
  BY ManagerAssumption DEF StoreType, RowType
<1>1. CASE s.removed[i] # 0 /\ n <= s.removed[i]
  BY <1>1 DEF SaveSession, SameBut
<1>2. CASE ~(s.removed[i] # 0 /\ n <= s.removed[i])
  <2> DEFINE row == [inc |-> n, alive |-> TRUE, unavail |-> b \/ (s.rows[i].inc = n /\ s.rows[i].unavail)]
             rows == IF n < s.rows[i].inc THEN s.rows ELSE [s.rows EXCEPT ![i] = row]
             removed == [s.removed EXCEPT ![i] = IF @ < n THEN 0 ELSE @]
  <2>0. SaveSession(s, i, n, b) =
          IF s.removed[i] # 0 /\ n <= s.removed[i] THEN s ELSE [rows |-> rows, removed |-> removed]
    BY Zenon DEF SaveSession
  <2>1. t = [rows |-> rows, removed |-> removed]
    BY <1>2, <2>0
  <2>2. row.inc = n /\ row.alive
    OBVIOUS
  <2>3. t.rows = rows /\ t.removed = removed
    BY <2>1
  <2> HIDE DEF row
  <2>4. /\ \A j \in Ids \ {i} : rows[j] = s.rows[j] /\ removed[j] = s.removed[j]
        /\ rows[i] = IF n < s.rows[i].inc THEN s.rows[i] ELSE row
        /\ removed[i] = IF s.removed[i] < n THEN 0 ELSE s.removed[i]
    OBVIOUS
  <2> HIDE DEF rows, removed
  <2> QED
    BY <2>2, <2>3, <2>4 DEF SameBut
<1> QED
  BY <1>1, <1>2

\* Marking a row dead or unavailable leaves its incarnation and every other row.
LEMMA MarkEffect ==
    ASSUME NEW s \in StoreType, NEW i \in Ids, NEW n, NEW t,
           t = MarkSessionDead(s, i, n) \/ t = MarkSessionUnavailable(s, i, n)
    PROVE  SameBut(s, t, i) /\ t.removed = s.removed /\ t.rows[i].inc = s.rows[i].inc
           /\ t \in StoreType
<1> /\ StoreIds = Ids /\ s.rows \in [Ids -> RowType] /\ s.rows[i] \in RowType
  BY ManagerAssumption DEF StoreType, RowType
<1>1. ASSUME NEW r \in RowType, r.inc = s.rows[i].inc, t = [s EXCEPT !.rows[i] = r]
      PROVE  SameBut(s, t, i) /\ t.removed = s.removed /\ t.rows[i].inc = s.rows[i].inc
             /\ t \in StoreType
  <2>1. t.rows = [s.rows EXCEPT ![i] = r] /\ t.removed = s.removed
    BY <1>1 DEF StoreType
  <2>2. t \in StoreType
    BY <1>1, RowWrite
  <2> QED
    BY <1>1, <2>1, <2>2 DEF SameBut
<1>2. CASE t = s
  BY <1>2 DEF SameBut
<1>3. /\ [s.rows[i] EXCEPT !.alive = FALSE] \in RowType
      /\ [s.rows[i] EXCEPT !.alive = FALSE].inc = s.rows[i].inc
      /\ [s.rows[i] EXCEPT !.alive = TRUE, !.unavail = TRUE] \in RowType
      /\ [s.rows[i] EXCEPT !.alive = TRUE, !.unavail = TRUE].inc = s.rows[i].inc
  BY DEF RowType
<1>4. t = s \/ t = [s EXCEPT !.rows[i] = [s.rows[i] EXCEPT !.alive = FALSE]]
            \/ t = [s EXCEPT !.rows[i] = [s.rows[i] EXCEPT !.alive = TRUE, !.unavail = TRUE]]
  BY DEF MarkSessionDead, MarkSessionUnavailable
<1> QED
  BY <1>1, <1>2, <1>3, <1>4

\* A deletion raises the watermark to the one it names at most, and no row.
LEMMA DeleteEffect ==
    ASSUME NEW s \in StoreType, NEW i \in Ids, NEW n \in Nat, NEW t, t = DeleteSession(s, i, n)
    PROVE  /\ SameBut(s, t, i)
           /\ t.rows[i].inc \in {s.rows[i].inc, 0} /\ t.removed[i] \in {s.removed[i], n}
<1> StoreIds = Ids /\ s.removed \in [Ids -> Nat] /\ s.rows \in [Ids -> RowType] /\ NoRow.inc = 0
  BY ManagerAssumption DEF StoreType, RowType, NoRow
<1> DEFINE w == IF n > s.removed[i] THEN n ELSE s.removed[i]
           rows == [s.rows EXCEPT ![i] = IF @.inc <= w THEN NoRow ELSE @]
           removed == [s.removed EXCEPT ![i] = w]
<1>1. t.rows = rows /\ t.removed = removed
  BY DEF DeleteSession
<1>2. w \in {s.removed[i], n}
  OBVIOUS
<1> HIDE DEF w
<1>3. /\ \A j \in Ids \ {i} : rows[j] = s.rows[j] /\ removed[j] = s.removed[j]
      /\ rows[i] \in {s.rows[i], NoRow} /\ removed[i] = w
  OBVIOUS
<1> HIDE DEF rows, removed
<1> QED
  BY <1>1, <1>2, <1>3 DEF SameBut

-----------------------------------------------------------------------------
(***************************************************************************)
(* The strengthening.  A row is saved by the create or the respawn that    *)
(* has published the session, and the save is void if the table is past    *)
(* it (Ready); what stands between is that no row and no watermark is      *)
(* above a reservation that stands, unless its id is being removed         *)
(* (Standing), when the reservation will be dropped (Doomed).              *)
(***************************************************************************)
\* Row and watermark of i let the session n be saved.
Savable(i, n) == store.rows[i].inc <= n /\ store.removed[i] < n

\* Rows and watermarks, and the removals under way, name incarnations that
\* were handed out.
Below ==
    /\ \A i \in Ids : store.rows[i].inc < next_inc /\ store.removed[i] < next_inc
    /\ \A r \in Removers : RemoveIn(r) => rm[r].inc < next_inc

Standing ==
    \A i \in Ids : pending[i] # NoInc =>
        /\ store.rows[i].inc <= pending[i]
        /\ store.removed[i] < pending[i] \/ BeingRemoved(i)

\* Whoever is about to save session n of i finds it live.
Ready ==
    /\ \A c \in Callers : cr[c].pc = "start" =>
         live[cr[c].id] = cr[c].inc /\ Savable(cr[c].id, cr[c].inc)
    /\ sup.pc = "start" => live[sup.id] = sup.new /\ Savable(sup.id, sup.new)

\* What a disposal has listed is still there, or there is nothing to evict.
Due(x) == x[2] \in Held(x[1]) \/ (Held(x[1]) = {} /\ pending[x[1]] = NoInc)
Removing == disp.pc \in {"remove", "evict"}
Doomed ==
    /\ Removing => \A x \in disp.todo : Due(x)
    /\ disp.pc = "evict" => Due(disp.cur)

StoreInv == RestartInv /\ Below /\ Standing /\ Ready /\ Doomed /\ LiveIsDurable

-----------------------------------------------------------------------------
(***************************************************************************)
(* How a step changes the database                                         *)
(***************************************************************************)
\* No reader starts to run, but perhaps that of n.
NoneStarts(n) == \A m \in Incs \ {n} : rd'[m].pc = "running" => rd[m].pc = "running"

\* The task that published session n of i saves it.
Saves(i, n) ==
    /\ \/ \E c \in Callers : cr[c].pc = "start" /\ cr[c].id = i /\ cr[c].inc = n
       \/ sup.pc = "start" /\ sup.id = i /\ sup.new = n
    /\ store' = SaveSession(store, i, n, FALSE)
    /\ UNCHANGED <<live, pending, next_inc>>
    /\ NoneStarts(n)

\* The failed replacement of i is saved as an unavailable identity.
Restores(i) ==
    /\ live[i] = NoInc /\ pending[i] = NoInc /\ failed[i].inc # NoInc
    /\ store' = SaveSession(store, i, failed[i].inc, TRUE)
    /\ UNCHANGED <<live, pending, next_inc>>
    /\ NoneStarts(NoInc)

\* The row of i, whose session is no longer live, changes its status.
Marks(i) ==
    /\ live'[i] = NoInc
    /\ SameBut(store, store', i) /\ store'.removed = store.removed
    /\ store'.rows[i].inc = store.rows[i].inc

\* The row of i is deleted under the watermark n, by somebody who evicts i next.
Deletes(i, n) ==
    /\ store' = DeleteSession(store, i, n) /\ n < next_inc'
    /\ BeingRemoved(i)'
    /\ UNCHANGED <<live, pending>>
    /\ NoneStarts(NoInc)

StoreStep ==
    \/ NoneStarts(NoInc) /\ (store' = store \/ \E i \in Ids : Marks(i))
    \/ \E i \in Ids : Restores(i)
    \/ \E i \in Ids, n \in IncType : Saves(i, n) \/ Deletes(i, n)

\* A failed replacement leaves a row that is no longer of a live session.
LEMMA FailedStore ==
    ASSUME IInv, NEW i \in Ids, NEW n \in Incs, NEW t \in BOOLEAN, NEW k \in BOOLEAN,
           FinishFailedReplacement(i, n, t, k)
    PROVE  store' = store \/ Marks(i)
<1> store \in StoreType /\ live \in [Ids -> IncType] /\ NoInc # n
  BY DEF IInv, TInv, TypeOK, InnerTypeOK, TaskTypeOK, Incs, NoInc
<1>1. ASSUME NEW m, live'[i] = NoInc,
             store' = MarkSessionDead(store, i, m) \/ store' = MarkSessionUnavailable(store, i, m)
      PROVE  Marks(i)
  BY <1>1, MarkEffect DEF Marks
<1>2. CASE live[i] = n /\ live' = [live EXCEPT ![i] = NoInc]
           /\ store' = IF k THEN MarkSessionUnavailable(store, i, n) ELSE MarkSessionDead(store, i, n)
  BY <1>1, <1>2
<1>3. ASSUME NEW s, live' = live, live[i] = NoInc, s \in {store, MarkSessionDead(store, i, dead[i].inc)},
             store' = IF k THEN MarkSessionUnavailable(s, i, n) ELSE MarkSessionDead(s, i, n)
      PROVE  Marks(i)
  <2>1. SameBut(store, s, i) /\ s.removed = store.removed /\ s.rows[i].inc = store.rows[i].inc
        /\ s \in StoreType
    BY <1>3, MarkEffect DEF SameBut
  <2>2. SameBut(s, store', i) /\ store'.removed = s.removed /\ store'.rows[i].inc = s.rows[i].inc
    BY <1>3, <2>1, MarkEffect
  <2> QED
    BY <1>3, <2>1, <2>2 DEF Marks, SameBut
<1>4. CASE live' = live /\ live[i] = NoInc
           /\ store' = IF dead[i].unavail \/ k THEN MarkSessionUnavailable(store, i, dead[i].inc)
                                               ELSE MarkSessionDead(store, i, dead[i].inc)
  BY <1>1, <1>4
<1> QED
  BY <1>2, <1>3, <1>4 DEF FinishFailedReplacement

\* Readers of which at most one changes its place, and not to "running".
LEMMA NobodyStarts ==
    ASSUME IInv, NEW n \in Incs, NEW r, r.pc # "running", rd' = rd \/ rd' = [rd EXCEPT ![n] = r]
    PROVE  NoneStarts(NoInc)
BY TypesHere DEF NoneStarts

\* Creates.
LEMMA CreateStore ==
    ASSUME IInv, NEW c \in Callers,
           CreateBegin(c) \/ CreateStep(c) \/ CreateSpawnFails(c) \/ CreateStartFails(c)
    PROVE  StoreStep
<1> /\ cr \in [Callers -> CreateType] /\ rd \in [Incs -> ReaderType]
    /\ \A n \in Incs : rd[n] \in ReaderType
  BY TypesHere
<1>1. CASE CreateBegin(c) \/ CreateAdmit(c) \/ CreateEvict(c) \/ CreateReserve(c) \/ CreateFinish(c)
  <2>1. store' = store /\ rd' = rd
    BY <1>1 DEF CreateBegin, CreateAdmit, CreateEvict, CreateReserve, CreateFinish
  <2> QED
    BY <2>1 DEF StoreStep, NoneStarts
<1>2. ASSUME cr[c].pc \in {"spawn", "start", "unstart", "rekill", "finish"}
      PROVE  cr[c].id \in Ids /\ cr[c].inc \in Incs
  BY <1>2 DEF IInv, TInv, NamedTasks, CrNamed
<1>3. CASE CreatePublish(c)
  <2>1. cr[c].inc \in Incs
    BY <1>2, <1>3 DEF CreatePublish
  <2>2. PICK r : r.pc = "starting" /\ (rd' = rd \/ rd' = [rd EXCEPT ![cr[c].inc] = r])
    <3> DEFINE r == [NoReader EXCEPT !.pc = "starting", !.id = cr[c].id, !.gen = cr[c].gen,
                                     !.policy = cr[c].policy, !.target = cr[c].target]
    <3>1. r.pc = "starting"
      BY DEF NoReader
    <3>2. rd' = rd \/ rd' = [rd EXCEPT ![cr[c].inc] = r]
      BY <1>3 DEF CreatePublish
    <3> QED
      BY <3>1, <3>2
  <2>3. NoneStarts(NoInc)
    BY <2>1, <2>2, NobodyStarts
  <2> QED
    BY <1>3, <2>3 DEF StoreStep, CreatePublish
<1>4. CASE CreateStart(c) \/ CreateStartFails(c)
  <2>1. cr[c].id \in Ids /\ cr[c].inc \in Incs /\ cr[c].pc = "start"
    BY <1>2, <1>4 DEF CreateStart, CreateStartFails
  <2>2. NoneStarts(cr[c].inc)
    BY <1>4, <2>1 DEF CreateStart, CreateStartFails, NoneStarts
  <2>3. Saves(cr[c].id, cr[c].inc)
    BY <1>4, <2>1, <2>2 DEF Saves, CreateStart, CreateStartFails, idVars
  <2> QED
    BY <2>1, <2>3 DEF StoreStep, IncType
<1>5. CASE CreateSpawnFails(c) \/ CreateUnstart(c)
  <2>1. /\ cr[c].id \in Ids /\ cr[c].inc \in Incs /\ cr[c].target \in BOOLEAN
        /\ cr[c].retry \in BOOLEAN /\ rd' = rd
        /\ FinishFailedReplacement(cr[c].id, cr[c].inc, cr[c].target, cr[c].retry)
    BY <1>2, <1>5 DEF CreateSpawnFails, CreateUnstart, CreateType
  <2> QED
    BY <2>1, FailedStore DEF StoreStep, NoneStarts
<1>6. CASE CreateRekill(c)
  <2>1. cr[c].inc \in Incs /\ [NoReader EXCEPT !.pc = "done"].pc = "done"
    BY <1>2, <1>6 DEF CreateRekill, NoReader
  <2>2. NoneStarts(NoInc)
    BY <1>6, <2>1, NobodyStarts DEF CreateRekill
  <2> QED
    BY <1>6, <2>2 DEF StoreStep, CreateRekill
<1> QED
  BY <1>1, <1>3, <1>4, <1>5, <1>6 DEF CreateStep

\* Readers.
LEMMA ReaderStore ==
    ASSUME IInv, Identity, NEW n \in Incs,
           ReaderStep(n) \/ ReaderData(n) \/ NaturalExit(n) \/ ReaderWaitFails(n)
    PROVE  StoreStep
<1> /\ rd \in [Incs -> ReaderType] /\ rd[n] \in ReaderType /\ live \in [Ids -> IncType]
    /\ n # NoInc /\ store \in StoreType
  BY TypesHere DEF Incs, NoInc, IInv, TInv, TypeOK, TaskTypeOK
<1>1. CASE ReaderData(n)
  BY <1>1 DEF ReaderData, procVars, StoreStep, NoneStarts
<1>2. [NoReader EXCEPT !.pc = "done"].pc = "done"
  BY DEF NoReader
<1>3. \A p : [rd[n] EXCEPT !.pc = p].pc = p
  BY DEF ReaderType
<1>4. ASSUME KilledExit(n) \/ NaturalExit(n) PROVE NoneStarts(NoInc) /\ store' = store
  <2>1. PICK code \in {0, 1} : ReaderExit(n, code)
    BY <1>4 DEF KilledExit, NaturalExit
  <2> QED
    BY <2>1, ReaderExits DEF ReaderExit, NoneStarts
<1>5. CASE ReaderWaitFails(n) \/ ReaderEmit(n)
  BY <1>2, <1>5, NobodyStarts DEF ReaderWaitFails, ReaderEmit, StoreStep
<1>6. CASE ReaderRespawn(n) \/ ReaderCancel(n)
  BY <1>3, <1>6, NobodyStarts DEF ReaderRespawn, ReaderCancel, StoreStep
<1>7. CASE ReaderPersist(n)
  <2>1. NoneStarts(NoInc)
    BY <1>3, <1>7, NobodyStarts DEF ReaderPersist
  <2>2. rd[n].id \in Ids /\ live' = live
    BY <1>7 DEF ReaderPersist, idVars, IInv, TInv, NamedTasks, RdNamed
  <2>3. CASE dead[rd[n].id].inc = n
    <3>1. live[rd[n].id] = NoInc
      BY <2>2, <2>3 DEF Identity, Alone
    <3>2. store' = MarkSessionDead(store, rd[n].id, n)
      BY <1>7, <2>3 DEF ReaderPersist
    <3>3. Marks(rd[n].id)
      BY <2>2, <3>1, <3>2, MarkEffect DEF Marks
    <3> QED
      BY <2>1, <2>2, <3>3 DEF StoreStep
  <2>4. CASE dead[rd[n].id].inc # n
    BY <1>7, <2>1, <2>4 DEF ReaderPersist, StoreStep
  <2> QED
    BY <2>3, <2>4
<1> QED
  BY <1>1, <1>4, <1>5, <1>6, <1>7 DEF ReaderStep, StoreStep

\* The supervisor.
LEMMA SupStore ==
    ASSUME IInv, Identity, Queue, SupStep \/ SupTargetFails \/ SupSpawnFails \/ SupStartFails
    PROVE  StoreStep
<1> /\ rd \in [Incs -> ReaderType] /\ sup \in SupType /\ live \in [Ids -> IncType]
    /\ store \in StoreType
  BY TypesHere DEF IInv, TInv, TypeOK, TaskTypeOK
<1>1. CASE SupReceive \/ SupBackoffOver \/ SupReserve \/ SupPermit \/ SupFinish \/ SupTargetFails
  <2>1. store' = store /\ rd' = rd
    BY <1>1 DEF SupReceive, SupBackoffOver, SupReserve, SupPermit, SupFinish, SupTargetFails
  <2> QED
    BY <2>1 DEF StoreStep, NoneStarts
<1>2. ASSUME sup.pc \in {"permit", "spawn", "start", "unstart", "finish"}
      PROVE  sup.id \in Ids /\ sup.new \in Incs
  BY <1>2 DEF IInv, TInv, NamedTasks, SupNamed
<1>3. CASE SupPublish
  <2>1. sup.new \in Incs
    BY <1>2, <1>3 DEF SupPublish
  <2>2. PICK r : r.pc = "starting" /\ (rd' = rd \/ rd' = [rd EXCEPT ![sup.new] = r])
    <3> DEFINE r == [NoReader EXCEPT !.pc = "starting", !.id = sup.id, !.gen = sup.gen,
                                     !.policy = sup.policy, !.target = sup.target,
                                     !.count = sup.count + 1]
    <3>1. r.pc = "starting"
      BY DEF NoReader
    <3>2. rd' = rd \/ rd' = [rd EXCEPT ![sup.new] = r]
      BY <1>3 DEF SupPublish
    <3> QED
      BY <3>1, <3>2
  <2>3. NoneStarts(NoInc)
    BY <2>1, <2>2, NobodyStarts
  <2> QED
    BY <1>3, <2>3 DEF StoreStep, SupPublish
<1>4. CASE SupStart \/ SupStartFails
  <2>1. sup.id \in Ids /\ sup.new \in Incs /\ sup.pc = "start"
    BY <1>2, <1>4 DEF SupStart, SupStartFails
  <2>2. NoneStarts(sup.new)
    BY <1>4, <2>1 DEF SupStart, SupStartFails, NoneStarts
  <2>3. Saves(sup.id, sup.new)
    BY <1>4, <2>1, <2>2 DEF Saves, SupStart, SupStartFails, idVars
  <2> QED
    BY <2>1, <2>3 DEF StoreStep, IncType
<1>5. CASE SupSpawnFails \/ SupUnstart
  <2>1. /\ sup.id \in Ids /\ sup.new \in Incs /\ sup.keep \in BOOLEAN
        /\ FinishFailedReplacement(sup.id, sup.new, FALSE, sup.keep)
    BY <1>2, <1>5 DEF SupSpawnFails, SupUnstart, SupType
  <2>2. [NoReader EXCEPT !.pc = "done"].pc = "done"
    BY DEF NoReader
  <2>3. NoneStarts(NoInc)
    BY <1>5, <2>1, <2>2, NobodyStarts DEF SupSpawnFails, SupUnstart
  <2>4. store' = store \/ Marks(sup.id)
    BY <2>1, FailedStore
  <2> QED
    BY <2>1, <2>3, <2>4 DEF StoreStep
<1>6. CASE SupFailed
  <2>1. sup.id \in Ids /\ sup.inc \in Incs /\ NoInc \notin Incs /\ rd' = rd /\ live' = live
    BY <1>6 DEF SupFailed, IInv, TInv, NamedTasks, SupNamed, Queue, Incs, NoInc
  <2>2. NoneStarts(NoInc)
    BY <2>1 DEF NoneStarts
  <2>3. CASE dead[sup.id].inc = sup.inc
    <3>1. live[sup.id] = NoInc
      BY <2>1, <2>3 DEF Identity, Alone
    <3>2. store' = store \/ store' = MarkSessionDead(store, sup.id, sup.inc)
          \/ store' = MarkSessionUnavailable(store, sup.id, sup.inc)
      BY <1>6 DEF SupFailed
    <3>3. store' = store \/ Marks(sup.id)
      BY <2>1, <3>1, <3>2, MarkEffect DEF Marks
    <3> QED
      BY <2>1, <2>2, <3>3 DEF StoreStep
  <2>4. CASE dead[sup.id].inc # sup.inc
    BY <1>6, <2>2, <2>4 DEF SupFailed, StoreStep
  <2> QED
    BY <2>3, <2>4
<1> QED
  BY <1>1, <1>3, <1>4, <1>5, <1>6 DEF SupStep

\* Requests, removals and disposals.
LEMMA RequestStore ==
    ASSUME IInv, Identity, Below,
           \/ \E i \in Ids : Kill(i) \/ MarkTargetUnavailable(i) \/ RemoveBegin(i)
           \/ \E i \in Ids, inc \in Incs : RequestTermination(i, inc)
           \/ SweepTick \/ SweepCheck
           \/ \E r \in Removers : RemoveStep(r) \/ RemoveDeleteFails(r)
           \/ DisposeBegin \/ DisposeStep \/ DisposeRemoveFails
           \/ TryClaimHandoff \/ TryClaimForcedHandoff \/ TryClaimAgentHandoff \/ Release
           \/ StopAll \/ Shutdown \/ JoinReaders
    PROVE  StoreStep
<1> /\ store \in StoreType /\ live \in [Ids -> IncType] /\ rm \in [Removers -> RemoveType]
    /\ disp \in DisposeType /\ next_inc \in Nat
  BY TypesHere DEF IInv, TInv, TypeOK, TaskTypeOK
<1>0. rd' = rd
  BY DEF Kill, MarkTargetUnavailable, RemoveBegin, RequestTermination, SweepTick, SweepCheck, RemoveStep,
     RemoveLock, RemoveDelete, RemoveEvict, RemoveDeleteFails, DisposeBegin, DisposeStep, DisposeMark,
     DisposeRemove, DisposeEvict, DisposeClear, DisposeUnmark, DisposeRemoveFails, TryClaimHandoff,
     TryClaimForcedHandoff, TryClaimAgentHandoff, Claim, Release, StopAll, Shutdown, JoinReaders, procVars
<1>1. NoneStarts(NoInc)
  BY <1>0 DEF NoneStarts
<1>2. CASE store' = store
  BY <1>1, <1>2 DEF StoreStep
<1>3. ASSUME NEW i \in Ids, MarkTargetUnavailable(i) PROVE StoreStep
  <2>1. live[i] = NoInc /\ pending[i] = NoInc /\ UNCHANGED <<live, pending, next_inc>>
    BY <1>3 DEF MarkTargetUnavailable
  <2>2. CASE store' = MarkSessionUnavailable(store, i, dead[i].inc)
    BY <1>1, <2>1, <2>2, MarkEffect DEF StoreStep, Marks
  <2>3. CASE failed[i].inc # NoInc /\ store' = SaveSession(store, i, failed[i].inc, TRUE)
    BY <1>1, <2>1, <2>3 DEF StoreStep, Restores
  <2> QED
    BY <1>3, <2>2, <2>3 DEF MarkTargetUnavailable
<1>4. ASSUME NEW r \in Removers, RemoveDelete(r) PROVE StoreStep
  <2>1. /\ rm[r].pc = "delete" /\ rm[r] \in RemoveType /\ rm[r].id \in Ids
        /\ rm' = [rm EXCEPT ![r] = [rm[r] EXCEPT !.pc = "evict"]]
        /\ UNCHANGED <<live, pending, next_inc>>
        /\ store' = DeleteSession(store, rm[r].id, rm[r].inc)
    BY <1>4 DEF RemoveDelete, idVars, IInv, TInv, NamedTasks, RmNamed
  <2>2. rm'[r].pc = "evict" /\ rm'[r].id = rm[r].id
    BY <2>1 DEF RemoveType
  <2>3. rm[r].inc < next_inc /\ rm[r].inc \in IncType
    BY <2>1 DEF Below, RemoveIn, RemoveType
  <2>4. BeingRemoved(rm[r].id)'
    BY <2>2 DEF BeingRemoved
  <2>5. Deletes(rm[r].id, rm[r].inc)
    BY <1>1, <2>1, <2>3, <2>4 DEF Deletes
  <2> QED
    BY <2>1, <2>3, <2>5 DEF StoreStep
<1>5. CASE DisposeRemove
  <2>1. PICK x \in disp.todo :
          /\ store' = DeleteSession(store, x[1], next_inc)
          /\ disp' = [disp EXCEPT !.pc = "evict", !.todo = @ \ {x}, !.cur = x]
    BY <1>5 DEF DisposeRemove
  <2>2. x[1] \in Ids /\ next_inc \in IncType /\ next_inc < next_inc' /\ UNCHANGED <<live, pending>>
    <3>1. disp.todo \subseteq Ids \X Incs
      BY DEF DisposeType
    <3>2. next_inc <= MaxInc /\ next_inc' = next_inc + 1 /\ UNCHANGED <<live, pending>>
      BY <1>5 DEF DisposeRemove
    <3>3. next_inc \in 1 .. MaxInc + 1 /\ MaxInc \in Nat
      BY ManagerAssumption DEF IInv, TInv, TypeOK, InnerTypeOK
    <3> QED
      BY <3>1, <3>2, <3>3 DEF IncType, Incs
  <2>3. disp'.pc = "evict" /\ disp'.cur = x
    BY <2>1 DEF DisposeType
  <2>4. BeingRemoved(x[1])'
    BY <2>3 DEF BeingRemoved
  <2>5. Deletes(x[1], next_inc)
    BY <1>1, <2>1, <2>2, <2>4 DEF Deletes
  <2> QED
    BY <2>2, <2>5 DEF StoreStep
<1> QED
  BY <1>2, <1>3, <1>4, <1>5
     DEF Kill, RemoveBegin, RequestTermination, SweepTick, SweepCheck, RemoveStep, RemoveLock,
     RemoveEvict, RemoveDeleteFails, DisposeBegin, DisposeStep, DisposeMark, DisposeEvict, DisposeClear,
     DisposeUnmark, DisposeRemoveFails, TryClaimHandoff, TryClaimForcedHandoff, TryClaimAgentHandoff,
     Claim, Release, StopAll, Shutdown, JoinReaders

\* Every step is one of these.
LEMMA NextStore ==
    ASSUME RestartInv, Below, [Next]_vars
    PROVE  StoreStep
<1> IInv /\ Identity /\ Queue
  BY DEF RestartInv, FleetInv, SessionInv
<1>1. CASE UNCHANGED vars
  BY <1>1 DEF vars, procVars, StoreStep, NoneStarts
<1> QED
  BY <1>1, CreateStore, ReaderStore, SupStore, RequestStore DEF Next

-----------------------------------------------------------------------------
(***************************************************************************)
(* Who works under the persistence gate                                    *)
(***************************************************************************)
\* Only the holder of the gate writes to the database, and nothing else ends a
\* live session than its holder or the exit of its process.
GateStep ==
    \/ pgate = "free"
    \/ \E c \in Callers : CreateIn(c) /\ cr'[c].pc # cr[c].pc
    \/ SupIn /\ sup'.pc # sup.pc
    \/ \E r \in Removers : RemoveIn(r)
    \/ DisposeIn
    \/ store' = store /\ \A i \in Ids : live'[i] = live[i] \/ rd[live[i]].pc = "running"

\* Every step respects the gate.
LEMMA NextGate ==
    ASSUME IInv, [Next]_vars
    PROVE  GateStep
<1> /\ cr \in [Callers -> CreateType] /\ sup \in SupType /\ live \in [Ids -> IncType]
  BY TypesHere
<1>0. \A c \in Callers : cr[c] \in CreateType
  OBVIOUS
<1>1. CASE store' = store /\ live' = live
  BY <1>1 DEF GateStep
<1>2. ASSUME NEW c \in Callers, CreateIn(c), NEW k, cr' = [cr EXCEPT ![c] = k], k.pc # cr[c].pc
      PROVE  GateStep
  BY <1>2 DEF GateStep
<1>3. ASSUME NEW c \in Callers,
             CreateBegin(c) \/ CreateStep(c) \/ CreateSpawnFails(c) \/ CreateStartFails(c)
      PROVE  GateStep
  <2>1. CASE CreateBegin(c) \/ CreateAdmit(c) \/ CreateReserve(c) \/ CreateFinish(c)
    BY <1>1, <2>1 DEF CreateBegin, CreateAdmit, CreateReserve, CreateFinish, idVars
  <2>2. /\ \A p : [cr[c] EXCEPT !.pc = p].pc = p
        /\ \A p, b : [cr[c] EXCEPT !.pc = p, !.retry = b].pc = p
        /\ IdleCr.pc = "idle"
    BY <1>0 DEF CreateType, IdleCr
  <2>3. CASE CreateEvict(c) \/ CreateUnstart(c) \/ CreateStart(c) \/ CreateStartFails(c)
    <3>1. CASE CreateEvict(c)
      BY <1>0, <3>1 DEF CreateEvict, CreateIn, CreateType, GateStep
    <3>2. CASE CreateUnstart(c)
      BY <1>0, <3>2 DEF CreateUnstart, CreateIn, CreateType, GateStep
    <3>3. CASE CreateStart(c)
      BY <1>0, <3>3 DEF CreateStart, CreateIn, CreateType, GateStep
    <3>4. CASE CreateStartFails(c)
      BY <1>0, <3>4 DEF CreateStartFails, CreateIn, CreateType, GateStep
    <3> QED
      BY <2>3, <3>1, <3>2, <3>3, <3>4
  <2>4. CASE CreateRekill(c) \/ CreateSpawnFails(c)
    BY <1>2, <2>2, <2>4 DEF CreateRekill, CreateSpawnFails, CreateReturn, CreateIn
  <2>5. CASE CreatePublish(c)
    <3>1. cr[c].pc = "spawn" /\ \E k : cr' = [cr EXCEPT ![c] = k] /\ k.pc \in {"idle", "start"}
      BY <2>2, <2>5 DEF CreatePublish, CreateReturn
    <3> QED
      BY <1>2, <3>1 DEF CreateIn
  <2> QED
    BY <1>3, <2>1, <2>3, <2>4, <2>5 DEF CreateStep
<1>4. ASSUME NEW n \in Incs, ReaderStep(n) \/ ReaderData(n) \/ NaturalExit(n) \/ ReaderWaitFails(n)
      PROVE  GateStep
  <2>1. CASE \/ ReaderPersist(n) \/ ReaderRespawn(n) \/ ReaderCancel(n) \/ ReaderEmit(n)
             \/ ReaderData(n) \/ ReaderWaitFails(n)
    BY <1>1, <2>1 DEF GateStep, ReaderPersist, ReaderRespawn, ReaderCancel, ReaderEmit, ReaderData,
       ReaderWaitFails, idVars
  <2>2. CASE KilledExit(n) \/ NaturalExit(n)
    <3>1. PICK code : ReaderExit(n, code)
      BY <2>2 DEF KilledExit, NaturalExit
    <3>2. rd[n].pc = "running" /\ store' = store
      BY <3>1 DEF ReaderExit
    <3>3. live' = live \/ (live[rd[n].id] = n /\ live' = [live EXCEPT ![rd[n].id] = NoInc])
      BY <3>1 DEF ReaderExit
    <3> QED
      BY <3>2, <3>3 DEF GateStep
  <2> QED
    BY <1>4, <2>1, <2>2 DEF ReaderStep
<1>5. ASSUME SupStep \/ SupTargetFails \/ SupSpawnFails \/ SupStartFails
      PROVE  GateStep
  <2>1. CASE \/ SupReceive \/ SupBackoffOver \/ SupReserve \/ SupPermit \/ SupFinish \/ SupTargetFails
             \/ SupSpawnFails \/ SupPublish \/ SupFailed
    BY <1>1, <2>1 DEF GateStep, SupReceive, SupBackoffOver, SupReserve, SupPermit, SupFinish,
       SupTargetFails, SupSpawnFails, SupPublish, SupFailed, idVars
  <2>2. CASE SupStart \/ SupStartFails \/ SupUnstart
    BY <2>2 DEF GateStep, SupStart, SupStartFails, SupUnstart, SupReturn, SupIn, SupType
  <2> QED
    BY <1>5, <2>1, <2>2 DEF SupStep
<1>6. ASSUME \/ \E i \in Ids : Kill(i) \/ MarkTargetUnavailable(i) \/ RemoveBegin(i)
             \/ \E i \in Ids, inc \in Incs : RequestTermination(i, inc)
             \/ SweepTick \/ SweepCheck
             \/ TryClaimHandoff \/ TryClaimForcedHandoff \/ TryClaimAgentHandoff \/ Release
             \/ DisposeBegin \/ StopAll \/ Shutdown \/ JoinReaders
      PROVE  GateStep
  BY <1>1, <1>6 DEF GateStep, Kill, MarkTargetUnavailable, RemoveBegin, RequestTermination, SweepTick,
     SweepCheck, TryClaimHandoff, TryClaimForcedHandoff, TryClaimAgentHandoff, Claim, Release,
     DisposeBegin, StopAll, Shutdown, JoinReaders, idVars
<1>7. ASSUME NEW r \in Removers, RemoveStep(r) \/ RemoveDeleteFails(r) PROVE GateStep
  BY <1>1, <1>7 DEF GateStep, RemoveStep, RemoveLock, RemoveDelete, RemoveEvict, RemoveDeleteFails,
     RemoveIn
<1>8. CASE DisposeStep \/ DisposeRemoveFails
  BY <1>1, <1>8 DEF GateStep, DisposeStep, DisposeMark, DisposeRemove, DisposeEvict, DisposeClear,
     DisposeUnmark, DisposeRemoveFails, DisposeIn
<1>9. CASE UNCHANGED vars
  BY <1>1, <1>9 DEF vars, idVars
<1> QED
  BY <1>3, <1>4, <1>5, <1>6, <1>7, <1>8, <1>9 DEF Next

\* Whoever comes to save session n of i has just published it.
StartsNow(i, n) == ReplacementIsCurrent(i, n) /\ live'[i] = n /\ store' = store
StartStep ==
    /\ \A c \in Callers : cr'[c].pc = "start" =>
         /\ cr'[c].id = cr[c].id /\ cr'[c].inc = cr[c].inc
         /\ cr[c].pc = "start" \/ (cr[c].pc = "spawn" /\ StartsNow(cr[c].id, cr[c].inc))
    /\ sup'.pc = "start" =>
         /\ sup'.id = sup.id /\ sup'.new = sup.new
         /\ sup.pc = "start" \/ (sup.pc = "spawn" /\ pgate = "free" /\ StartsNow(sup.id, sup.new))

\* Only a publication takes a task to the save, and only its own.
LEMMA NextStart ==
    ASSUME IInv, [Next]_vars
    PROVE  StartStep
<1> /\ cr \in [Callers -> CreateType] /\ sup \in SupType /\ live \in [Ids -> IncType]
  BY TypesHere
<1>0. (\A c \in Callers : cr[c] \in CreateType) /\ IdleCr.pc = "idle" /\ IdleSup.pc = "idle"
  BY DEF IdleCr, IdleSup
<1>1. CASE UNCHANGED <<cr, sup>>
  BY <1>1 DEF StartStep
<1>2. ASSUME NEW c \in Callers,
             CreateBegin(c) \/ CreateStep(c) \/ CreateSpawnFails(c) \/ CreateStartFails(c)
      PROVE  StartStep
  <2>1. ASSUME cr'[c].pc # "start", \A d \in Callers : cr'[d] = cr[d] \/ d = c, sup' = sup
        PROVE  StartStep
    BY <2>1 DEF StartStep
  <2>2. CASE CreateBegin(c)
    <3>1. \A i, p, t : [IdleCr EXCEPT !.pc = "admit", !.id = i, !.policy = p, !.target = t].pc = "admit"
      BY DEF IdleCr
    <3>2. cr'[c].pc # "start" /\ sup' = sup /\ \A d \in Callers : cr'[d] = cr[d] \/ d = c
      BY <2>2, <3>1 DEF CreateBegin
    <3> QED
      BY <2>1, <3>2
  <2>3. CASE CreateAdmit(c)
    <3>1. cr'[c].pc # "start" /\ sup' = sup /\ \A d \in Callers : cr'[d] = cr[d] \/ d = c
      BY <1>0, <2>3 DEF CreateAdmit, CreateReturn, CreateType
    <3> QED
      BY <2>1, <3>1
  <2>4. CASE CreateEvict(c)
    <3>1. cr'[c].pc # "start" /\ sup' = sup /\ \A d \in Callers : cr'[d] = cr[d] \/ d = c
      BY <1>0, <2>4 DEF CreateEvict, CreateType
    <3> QED
      BY <2>1, <3>1
  <2>5. CASE CreateReserve(c)
    <3>1. cr'[c].pc # "start" /\ sup' = sup /\ \A d \in Callers : cr'[d] = cr[d] \/ d = c
      BY <1>0, <2>5 DEF CreateReserve, CreateReturn, CreateType
    <3> QED
      BY <2>1, <3>1
  <2>6. CASE CreateSpawnFails(c) \/ CreateRekill(c) \/ CreateFinish(c)
    <3>1. cr'[c].pc # "start" /\ sup' = sup /\ \A d \in Callers : cr'[d] = cr[d] \/ d = c
      BY <1>0, <2>6 DEF CreateSpawnFails, CreateRekill, CreateFinish, CreateReturn
    <3> QED
      BY <2>1, <3>1
  <2>7. CASE CreateStart(c) \/ CreateStartFails(c)
    <3>1. cr'[c].pc # "start" /\ sup' = sup /\ \A d \in Callers : cr'[d] = cr[d] \/ d = c
      BY <1>0, <2>7 DEF CreateStart, CreateStartFails, CreateType
    <3> QED
      BY <2>1, <3>1
  <2>8. CASE CreateUnstart(c)
    <3>1. cr'[c].pc # "start" /\ sup' = sup /\ \A d \in Callers : cr'[d] = cr[d] \/ d = c
      BY <1>0, <2>8 DEF CreateUnstart, CreateType
    <3> QED
      BY <2>1, <3>1
  <2>9. CASE CreatePublish(c)
    <3>1. CASE cr' = [cr EXCEPT ![c] = IdleCr]
      BY <1>0, <2>1, <2>9, <3>1 DEF CreatePublish
    <3>2. CASE /\ cr' = [cr EXCEPT ![c].pc = "start"] /\ live' = [live EXCEPT ![cr[c].id] = cr[c].inc]
               /\ ReplacementIsCurrent(cr[c].id, cr[c].inc)
      <4>1. cr[c].pc = "spawn" /\ cr[c].id \in Ids /\ store' = store /\ sup' = sup
        BY <2>9 DEF CreatePublish, IInv, TInv, NamedTasks, CrNamed
      <4>2. StartsNow(cr[c].id, cr[c].inc)
        BY <3>2, <4>1 DEF StartsNow
      <4>3. /\ cr'[c].id = cr[c].id /\ cr'[c].inc = cr[c].inc
            /\ \A d \in Callers \ {c} : cr'[d] = cr[d]
        BY <1>0, <3>2 DEF CreateType
      <4> QED
        BY <4>1, <4>2, <4>3 DEF StartStep
    <3> QED
      BY <2>9, <3>1, <3>2 DEF CreatePublish, CreateReturn
  <2> QED
    BY <1>2, <2>2, <2>3, <2>4, <2>5, <2>6, <2>7, <2>8, <2>9 DEF CreateStep
<1>3. ASSUME SupStep \/ SupTargetFails \/ SupSpawnFails \/ SupStartFails
      PROVE  StartStep
  <2>1. CASE cr' = cr /\ sup'.pc # "start"
    BY <2>1 DEF StartStep
  <2>2. CASE SupReceive
    <3>1. sup'.pc = "backoff"
      BY <2>2 DEF SupReceive, IdleSup
    <3> QED
      BY <2>1, <2>2, <3>1 DEF SupReceive
  <2>3. CASE \/ SupBackoffOver \/ SupReserve \/ SupPermit \/ SupTargetFails
    BY <1>0, <2>1, <2>3 DEF SupBackoffOver, SupReserve, SupPermit, SupTargetFails, SupType
  <2>4. CASE \/ SupFinish \/ SupSpawnFails \/ SupFailed \/ SupStart \/ SupStartFails \/ SupUnstart
    BY <1>0, <2>1, <2>4 DEF SupFinish, SupSpawnFails, SupFailed, SupStart, SupStartFails, SupUnstart,
       SupReturn, SupType
  <2>5. CASE SupPublish
    <3>1. CASE sup' \in {IdleSup, [sup EXCEPT !.pc = "failed"]}
      BY <1>0, <2>1, <2>5, <3>1 DEF SupPublish, SupType
    <3>2. CASE /\ sup' = [sup EXCEPT !.pc = "start"] /\ live' = [live EXCEPT ![sup.id] = sup.new]
               /\ RespawnReplacementIsCurrent(sup.id, sup.inc, sup.new)
      <4>1. sup.pc = "spawn" /\ pgate = "free" /\ sup.id \in Ids /\ store' = store /\ cr' = cr
        BY <2>5 DEF SupPublish, IInv, TInv, NamedTasks, SupNamed
      <4>2. StartsNow(sup.id, sup.new)
        BY <3>2, <4>1 DEF StartsNow, RespawnReplacementIsCurrent
      <4>3. sup'.id = sup.id /\ sup'.new = sup.new
        BY <3>2 DEF SupType
      <4> QED
        BY <4>1, <4>2, <4>3 DEF StartStep
    <3> QED
      BY <2>5, <3>1, <3>2 DEF SupPublish, SupReturn
  <2> QED
    BY <1>3, <2>2, <2>3, <2>4, <2>5 DEF SupStep
<1>4. ASSUME NEW n \in Incs, ReaderStep(n) \/ ReaderData(n) \/ NaturalExit(n) \/ ReaderWaitFails(n)
      PROVE  UNCHANGED <<cr, sup>>
  BY <1>4 DEF ReaderStep, KilledExit, NaturalExit, ReaderExit, ReaderPersist, ReaderRespawn,
     ReaderCancel, ReaderEmit, ReaderData, ReaderWaitFails, procVars
<1>5. ASSUME \/ \E i \in Ids : Kill(i) \/ MarkTargetUnavailable(i) \/ RemoveBegin(i)
             \/ \E i \in Ids, inc \in Incs : RequestTermination(i, inc)
             \/ SweepTick \/ SweepCheck
             \/ \E r \in Removers : RemoveStep(r) \/ RemoveDeleteFails(r)
             \/ DisposeBegin \/ DisposeStep \/ DisposeRemoveFails
             \/ TryClaimHandoff \/ TryClaimForcedHandoff \/ TryClaimAgentHandoff \/ Release
             \/ StopAll \/ Shutdown \/ JoinReaders
      PROVE  UNCHANGED <<cr, sup>>
  BY <1>5 DEF Kill, MarkTargetUnavailable, RemoveBegin, RequestTermination, SweepTick, SweepCheck,
     RemoveStep, RemoveLock, RemoveDelete, RemoveEvict, RemoveDeleteFails, DisposeBegin, DisposeStep,
     DisposeMark, DisposeRemove, DisposeEvict, DisposeClear, DisposeUnmark, DisposeRemoveFails,
     TryClaimHandoff, TryClaimForcedHandoff, TryClaimAgentHandoff, Claim, Release, StopAll, Shutdown,
     JoinReaders, procVars
<1>6. CASE UNCHANGED vars
  BY <1>1, <1>6 DEF vars, procVars
<1> QED
  BY <1>1, <1>2, <1>3, <1>4, <1>5, <1>6 DEF Next

\* How a step moves the removals and the disposal.
RemovalStep ==
    /\ \A r \in Removers :
         /\ rm[r].pc = "evict" =>
              rm'[r] = rm[r] \/ (live'[rm[r].id] = NoInc /\ pending'[rm[r].id] = NoInc)
         /\ RemoveIn(r)' =>
              \/ RemoveIn(r) /\ rm'[r].inc = rm[r].inc
              \/ rm'[r].inc = next_inc /\ next_inc' = next_inc + 1
    /\ disp.pc = "evict" => disp' = disp \/ DisposeEvict
    /\ Removing' =>
         \/ disp' = disp
         \/ disp'.pc = "remove" /\ disp'.todo = Identities /\ UNCHANGED <<live, dead, failed>>
         \/ /\ Removing /\ disp'.todo \subseteq disp.todo
            /\ disp'.pc = "evict" => disp'.cur \in disp.todo

\* Removals and disposals go one step at a time; nobody else touches them.
LEMMA NextRemovals ==
    ASSUME IInv, [Next]_vars
    PROVE  RemovalStep
<1> /\ rm \in [Removers -> RemoveType] /\ disp \in DisposeType
    /\ live \in [Ids -> IncType] /\ pending \in [Ids -> IncType]
  BY TypesHere DEF IInv, TInv, TypeOK, TaskTypeOK
<1>0. (\A r \in Removers : rm[r] \in RemoveType) /\ IdleRm.pc = "idle" /\ IdleDisp.pc = "idle"
      /\ \A s : [IdleRm EXCEPT !.expired = s].pc = "idle"
  BY DEF IdleRm, IdleDisp
<1>1. CASE UNCHANGED <<rm, disp>>
  BY <1>1 DEF RemovalStep, RemoveIn, Removing
<1>2. ASSUME NEW r \in Removers, NEW k, rm' = [rm EXCEPT ![r] = k], disp' = disp,
             \/ rm[r].pc # "evict"
             \/ live'[rm[r].id] = NoInc /\ pending'[rm[r].id] = NoInc,
             \/ k.pc \notin {"delete", "evict"}
             \/ RemoveIn(r) /\ k.inc = rm[r].inc
             \/ k.inc = next_inc /\ next_inc' = next_inc + 1
      PROVE  RemovalStep
  <2>1. rm'[r] = k /\ \A q \in Removers \ {r} : rm'[q] = rm[q]
    BY <1>2
  <2> QED
    BY <1>2, <2>1 DEF RemovalStep, RemoveIn, Removing
<1>3. ASSUME NEW i \in Ids, RemoveBegin(i) PROVE RemovalStep
  <2>1. [IdleRm EXCEPT !.pc = "lock", !.id = i].pc = "lock" /\ "api" \in Removers
    BY DEF IdleRm, Removers
  <2> QED
    BY <1>2, <1>3, <2>1 DEF RemoveBegin
<1>4. CASE SweepTick
  <2>1. \A S : [rm["sweep"] EXCEPT !.expired = S].pc = rm["sweep"].pc /\ "sweep" \in Removers
    BY <1>0 DEF RemoveType, Removers
  <2> QED
    BY <1>2, <1>4, <2>1 DEF SweepTick
<1>5. CASE SweepCheck
  <2>1. "sweep" \in Removers
    BY DEF Removers
  <2>2. \A S, i, e :
          /\ [rm["sweep"] EXCEPT !.pc = "lock", !.id = i, !.expected = e, !.expired = S].pc = "lock"
          /\ [rm["sweep"] EXCEPT !.expired = S].pc = rm["sweep"].pc
    BY <1>0, <2>1 DEF RemoveType
  <2>3. PICK x : rm' = [rm EXCEPT !["sweep"] =
                          IF x \in Sweepable
                            THEN [rm["sweep"] EXCEPT !.pc = "lock", !.id = x[1], !.expected = x[2],
                                                     !.expired = @ \ {x}]
                            ELSE [rm["sweep"] EXCEPT !.expired = @ \ {x}]]
    BY <1>5 DEF SweepCheck
  <2>4. rm["sweep"].pc = "idle" /\ disp' = disp
    BY <1>5 DEF SweepCheck
  <2>5. \E k : rm' = [rm EXCEPT !["sweep"] = k] /\ k.pc \in {"idle", "lock"}
    <3> DEFINE gone == rm["sweep"].expired \ {x}
               k == IF x \in Sweepable
                      THEN [rm["sweep"] EXCEPT !.pc = "lock", !.id = x[1], !.expected = x[2],
                                               !.expired = gone]
                      ELSE [rm["sweep"] EXCEPT !.expired = gone]
    <3>1. rm' = [rm EXCEPT !["sweep"] = k]
      BY <2>3
    <3> HIDE DEF gone
    <3>2. k.pc \in {"idle", "lock"}
      BY <2>2, <2>4
    <3> QED
      BY <3>1, <3>2
  <2> QED
    BY <1>2, <2>1, <2>4, <2>5
<1>6. ASSUME NEW r \in Removers, RemoveStep(r) \/ RemoveDeleteFails(r) PROVE RemovalStep
  <2>1. CASE RemoveDeleteFails(r)
    BY <1>0, <1>2, <2>1 DEF RemoveDeleteFails, RemoveReturn
  <2>2. CASE RemoveEvict(r)
    <3>1. rm[r].pc = "evict" /\ rm[r].id \in Ids
      BY <2>2 DEF RemoveEvict, IInv, TInv, NamedTasks, RmNamed
    <3>2. live'[rm[r].id] = NoInc /\ pending'[rm[r].id] = NoInc
      BY <2>2, <3>1 DEF RemoveEvict
    <3> QED
      BY <1>0, <1>2, <2>2, <3>2 DEF RemoveEvict, RemoveReturn
  <2>3. CASE RemoveDelete(r)
    <3>1. [rm[r] EXCEPT !.pc = "evict"].inc = rm[r].inc /\ rm[r].pc = "delete"
      BY <1>0, <2>3 DEF RemoveType, RemoveDelete
    <3> QED
      BY <1>2, <2>3, <3>1 DEF RemoveDelete, RemoveIn
  <2>4. CASE RemoveLock(r)
    <3>1. [rm[r] EXCEPT !.pc = "delete", !.inc = next_inc].inc = next_inc
      BY <1>0 DEF RemoveType
    <3>2. rm[r].pc = "lock" /\ next_inc' = next_inc + 1 /\ disp' = disp
      BY <2>4 DEF RemoveLock
    <3>3. \/ rm' = [rm EXCEPT ![r] = [IdleRm EXCEPT !.expired = rm[r].expired]]
          \/ rm' = [rm EXCEPT ![r] = [rm[r] EXCEPT !.pc = "delete", !.inc = next_inc]]
      BY <2>4 DEF RemoveLock, RemoveReturn
    <3> QED
      BY <1>0, <1>2, <3>1, <3>2, <3>3
  <2> QED
    BY <1>6, <2>1, <2>2, <2>3, <2>4 DEF RemoveStep
<1>7. ASSUME rm' = rm, disp.pc = "evict" => DisposeEvict,
             \/ disp'.pc \notin {"remove", "evict"}
             \/ disp'.pc = "remove" /\ disp'.todo = Identities /\ UNCHANGED <<live, dead, failed>>
             \/ /\ Removing /\ disp'.todo \subseteq disp.todo
                /\ disp'.pc = "evict" => disp'.cur \in disp.todo
      PROVE  RemovalStep
  BY <1>7 DEF RemovalStep, RemoveIn, Removing
<1>8. CASE DisposeBegin \/ Shutdown
  <2>1. disp.pc = "idle" /\ disp'.pc = "drain" /\ rm' = rm
    BY <1>8 DEF DisposeBegin, Shutdown, DisposeGate, IdleDisp
  <2> QED
    BY <1>7, <2>1
<1>9. CASE DisposeMark
  <2>1. /\ disp.pc = "drain" /\ rm' = rm /\ disp'.todo = Identities /\ disp'.pc \in {"clear", "remove"}
        /\ UNCHANGED <<live, dead, failed>>
    BY <1>9 DEF DisposeMark, DisposeType, idVars
  <2> QED
    BY <1>7, <2>1
<1>10. CASE DisposeRemove
  <2>1. PICK x \in disp.todo : disp' = [disp EXCEPT !.pc = "evict", !.todo = @ \ {x}, !.cur = x]
    BY <1>10 DEF DisposeRemove
  <2>2. disp.pc = "remove" /\ rm' = rm
    BY <1>10 DEF DisposeRemove
  <2>3. disp'.pc = "evict" /\ disp'.todo \subseteq disp.todo /\ disp'.cur \in disp.todo
    BY <2>1 DEF DisposeType
  <2> QED
    BY <1>7, <2>2, <2>3 DEF Removing
<1>11. CASE DisposeEvict
  <2>1. disp.pc = "evict" /\ disp'.pc = "remove" /\ disp'.todo = disp.todo /\ rm' = rm
    BY <1>11 DEF DisposeEvict, DisposeType
  <2> QED
    BY <1>7, <1>11, <2>1 DEF Removing
<1>12. CASE DisposeClear \/ DisposeUnmark \/ DisposeRemoveFails
  <2>1. disp.pc # "evict" /\ disp'.pc \notin {"remove", "evict"} /\ rm' = rm
    BY <1>0, <1>12 DEF DisposeClear, DisposeUnmark, DisposeRemoveFails, DisposeReturn, DisposeType
  <2> QED
    BY <1>7, <2>1
<1>13. ASSUME NEW c \in Callers,
              CreateBegin(c) \/ CreateStep(c) \/ CreateSpawnFails(c) \/ CreateStartFails(c)
       PROVE  UNCHANGED <<rm, disp>>
  BY <1>13 DEF CreateBegin, CreateStep, CreateAdmit, CreateEvict, CreateReserve, CreatePublish,
     CreateStart, CreateUnstart, CreateRekill, CreateFinish, CreateSpawnFails, CreateStartFails
<1>14. ASSUME NEW n \in Incs, ReaderStep(n) \/ ReaderData(n) \/ NaturalExit(n) \/ ReaderWaitFails(n)
       PROVE  UNCHANGED <<rm, disp>>
  BY <1>14 DEF ReaderStep, KilledExit, NaturalExit, ReaderExit, ReaderPersist, ReaderRespawn,
     ReaderCancel, ReaderEmit, ReaderData, ReaderWaitFails, procVars
<1>15. ASSUME SupStep \/ SupTargetFails \/ SupSpawnFails \/ SupStartFails
       PROVE  UNCHANGED <<rm, disp>>
  BY <1>15 DEF SupStep, SupReceive, SupBackoffOver, SupReserve, SupPermit, SupPublish, SupStart,
     SupUnstart, SupFinish, SupFailed, SupTargetFails, SupSpawnFails, SupStartFails
<1>16. ASSUME \/ \E i \in Ids : Kill(i) \/ MarkTargetUnavailable(i)
              \/ \E i \in Ids, inc \in Incs : RequestTermination(i, inc)
              \/ TryClaimHandoff \/ TryClaimForcedHandoff \/ TryClaimAgentHandoff \/ Release
              \/ StopAll \/ JoinReaders \/ UNCHANGED vars
       PROVE  UNCHANGED <<rm, disp>>
  BY <1>16 DEF Kill, MarkTargetUnavailable, RequestTermination, TryClaimHandoff,
     TryClaimForcedHandoff, TryClaimAgentHandoff, Claim, Release, StopAll, JoinReaders, procVars, vars
<1> QED
  BY <1>1, <1>3, <1>4, <1>5, <1>6, <1>8, <1>9, <1>10, <1>11, <1>12, <1>13, <1>14, <1>15, <1>16
     DEF Next, DisposeStep

-----------------------------------------------------------------------------
(***************************************************************************)
(* What a disposal has listed                                              *)
(***************************************************************************)
\* While nobody holds a permit, what is due stays due: only a publication or a
\* failed one would put another incarnation in its place.
LEMMA DueKept ==
    ASSUME SessionInv, Queue, Moves, NoPermits, NEW x \in Ids \X Incs, Due(x)
    PROVE  Due(x)'
<1> DEFINE j == x[1]
           n == x[2]
<1>0. /\ IInv /\ Identity /\ j \in Ids /\ n \in Incs /\ NoInc \notin Incs
      /\ live \in [Ids -> IncType] /\ pending \in [Ids -> IncType]
      /\ dead \in [Ids -> DeadType] /\ failed \in [Ids -> FailedType]
  BY TypesHere DEF SessionInv, Incs, NoInc
<1>1. Alone(j) /\ NoDead.inc = NoInc /\ NoFailed.inc = NoInc
  BY <1>0 DEF Identity, NoDead, NoFailed
<1>2. ASSUME live'[j] = live[j], dead'[j].inc = dead[j].inc, failed'[j].inc = failed[j].inc,
             pending'[j] \in {pending[j], NoInc}
      PROVE  Due(x)'
  BY <1>2 DEF Due, Held
<1>3. ASSUME NEW i \in Ids, NEW m \in Incs, Finishes(i, m) PROVE Due(x)'
  BY <1>0, <1>2, <1>3 DEF Finishes, FinishReplacement
<1>4. ASSUME live[j] # NoInc, live'[j] = NoInc, dead'[j].inc = live[j] PROVE Due(x)'
  BY <1>0, <1>1, <1>4 DEF Due, Held, Alone
<1>5. ASSUME NEW i \in Ids, Kills(i) PROVE Due(x)'
  <2>1. /\ live' = [live EXCEPT ![i] = NoInc] /\ failed' = failed
        /\ pending' = [pending EXCEPT ![i] = NoInc]
        /\ dead' = IF live[i] # NoInc
                     THEN [dead EXCEPT ![i] = Tombstone(live[i], rd[live[i]].target)] ELSE dead
    BY <1>5 DEF Kills, KillInternalImpl
  <2>2. CASE i # j \/ live[i] = NoInc
    <3>1. live'[j] = live[j] /\ dead'[j] = dead[j] /\ pending'[j] \in {pending[j], NoInc}
      BY <1>0, <2>1, <2>2
    <3> QED
      BY <1>2, <2>1, <3>1
  <2>3. CASE i = j /\ live[i] # NoInc
    <3>1. \A t : Tombstone(live[i], t).inc = live[i]
      BY DEF Tombstone, NoDead
    <3>2. dead'[j] = Tombstone(live[j], rd[live[j]].target) /\ live'[j] = NoInc
      BY <1>0, <2>1, <2>3
    <3> QED
      BY <1>4, <2>3, <3>1, <3>2
  <2> QED
    BY <2>2, <2>3
<1>6. ASSUME NEW i \in Ids, NEW m \in Incs, Exits(i, m) PROVE Due(x)'
  <2>1. PICK d : d.inc = m /\ dead' = [dead EXCEPT ![i] = d]
    <3>1. \A t, w : [Tombstone(m, t) EXCEPT !.will_restart = w].inc = m
      BY DEF Tombstone, NoDead
    <3> QED
      BY <1>6, <3>1 DEF Exits
  <2>2. live[i] = m /\ live' = [live EXCEPT ![i] = NoInc] /\ UNCHANGED <<failed, pending>>
    BY <1>6 DEF Exits
  <2> QED
    BY <1>0, <1>2, <1>4, <2>1, <2>2
<1>7. ASSUME NEW i \in Ids, Settles(i) PROVE Due(x)'
  <2>1. PICK d \in DeadType : d.inc = dead[i].inc /\ dead' = [dead EXCEPT ![i] = d]
    BY <1>7 DEF Settles
  <2>2. UNCHANGED <<live, failed, pending>>
    BY <1>7 DEF Settles
  <2> QED
    BY <1>0, <1>2, <2>1, <2>2
<1>8. ASSUME NEW i \in Ids, Retains(i) PROVE Due(x)'
  <2>1. /\ failed[i].inc # NoInc /\ UNCHANGED <<live, pending>>
        /\ dead' = [dead EXCEPT ![i] = [Tombstone(failed[i].inc, TRUE) EXCEPT !.unavail = TRUE]]
        /\ failed' = [failed EXCEPT ![i] = NoFailed] /\ dead[i].inc = NoInc /\ live[i] = NoInc
    BY <1>8 DEF Retains
  <2>2. CASE i # j
    BY <1>0, <1>2, <2>1, <2>2
  <2>3. CASE i = j
    <3>1. [Tombstone(failed[i].inc, TRUE) EXCEPT !.unavail = TRUE].inc = failed[i].inc
      BY DEF Tombstone, NoDead
    <3>2. dead'[j] = [Tombstone(failed[i].inc, TRUE) EXCEPT !.unavail = TRUE]
      BY <1>0, <2>1, <2>3
    <3>3. n = failed[j].inc
      BY <1>0, <2>1, <2>3 DEF Due, Held
    <3> QED
      BY <1>0, <2>3, <3>1, <3>2, <3>3 DEF Due, Held
  <2> QED
    BY <2>2, <2>3
<1>9. ASSUME NEW i \in Ids, Reserves(i) PROVE Due(x)'
  <2>1. /\ UNCHANGED <<live, dead>> /\ failed' = [failed EXCEPT ![i] = NoFailed]
        /\ pending' = [pending EXCEPT ![i] = next_inc]
    BY <1>9 DEF Reserves, BeginReplacement
  <2>2. CASE i # j
    BY <1>0, <1>2, <2>1, <2>2
  <2>3. CASE i = j
    <3>1. sup.pc = "validate" /\ RespawnAdmissionIsCurrent(j, sup.inc)
      BY <1>9, <2>3 DEF Reserves, NoPermits, CreateIn
    <3>2. dead[j].inc = sup.inc /\ sup.inc \in Incs
      BY <3>1 DEF Queue, RespawnAdmissionIsCurrent, RespawnSourceIsCurrent
    <3>3. dead[j].inc \in Held(j) /\ live[j] = NoInc /\ failed[j].inc = NoInc
      BY <1>0, <1>1, <3>1, <3>2 DEF Held, Alone, RespawnAdmissionIsCurrent, RespawnSourceIsCurrent
    <3>4. n = dead[j].inc
      BY <1>0, <3>3 DEF Due, Held
    <3> QED
      BY <1>0, <2>1, <3>4 DEF Due, Held
  <2> QED
    BY <2>2, <2>3
<1>10. ASSUME NEW i \in Ids, NEW m \in Incs, Fails(i, m) \/ Publishes(i, m) PROVE FALSE
  BY <1>10 DEF Fails, Publishes, SettledByCaller, SettledBySup, NoPermits, SupHoldsPermit
<1>11. CASE Evicts
  <2>1. /\ live'[j] \in {live[j], NoInc} /\ dead'[j] \in {dead[j], NoDead}
        /\ failed'[j] \in {failed[j], NoFailed} /\ pending'[j] \in {pending[j], NoInc}
        /\ live'[j] # live[j] \/ dead'[j] # dead[j] => pending'[j] = NoInc
    BY <1>0, <1>11 DEF Evicts
  <2>2. CASE Held(j) = {}
    BY <1>0, <1>1, <2>1, <2>2 DEF Due, Held
  <2>3. CASE n = live[j]
    BY <1>0, <1>1, <2>1, <2>3 DEF Due, Held, Alone
  <2>4. CASE n = dead[j].inc
    BY <1>0, <1>1, <2>1, <2>4 DEF Due, Held, Alone
  <2>5. CASE n = failed[j].inc
    BY <1>0, <1>1, <2>1, <2>5 DEF Due, Held, Alone
  <2> QED
    BY <2>2, <2>3, <2>4, <2>5 DEF Due, Held
<1>12. CASE \/ Rests \/ Prunes \/ \E i \in Ids : Signals(i)
            \/ \E i \in Ids, m \in Incs : Reports(i, m) \/ ExitsLate(i, m)
  <2>1. UNCHANGED <<live, dead, failed, pending>>
    BY <1>12 DEF Rests, Prunes, Signals, Reports, ExitsLate
  <2> QED
    BY <1>2, <2>1
<1> QED
  BY <1>3, <1>5, <1>6, <1>7, <1>8, <1>9, <1>10, <1>11, <1>12 DEF Moves

\* A disposal that removes sessions runs alone.
LEMMA RemovingAlone ==
    ASSUME IInv, Removing
    PROVE  NoPermits
<1>1. gate.active = 0 /\ PermitsCounted
  BY DEF Removing, IInv, Permits, DisposalIsExclusive
<1> QED
  BY <1>1, HolderCounted DEF NoPermits, CreateHoldsPermit

\* A disposal evicts what it has listed, and finds it.
LEMMA DoomedKept ==
    ASSUME RestartInv, Doomed, Moves, RemovalStep
    PROVE  Doomed'
<1> SessionInv /\ IInv /\ Queue /\ Identity /\ disp \in DisposeType /\ DispNamed
  BY DEF RestartInv, FleetInv, SessionInv, IInv, TInv, TypeOK, TaskTypeOK, NamedTasks
<1>1. disp.todo \subseteq Ids \X Incs
  BY DEF DisposeType
<1>2. ASSUME Removing, NEW x \in disp.todo PROVE Due(x)'
  BY <1>1, <1>2, RemovingAlone, DueKept DEF Doomed
<1>3. ASSUME disp.pc = "evict" PROVE Due(disp.cur)' \/ disp' # disp
  <2>1. Due(disp.cur) /\ disp.cur \in Ids \X Incs /\ Removing
    BY <1>3 DEF Doomed, DispNamed, Removing
  <2>2. \A x \in Ids \X Incs : Due(x) => Due(x)'
    BY <2>1, RemovingAlone, DueKept
  <2>3. SUFFICES ASSUME disp' = disp PROVE Due(disp.cur)'
    OBVIOUS
  <2>4. \A x \in Ids \X Incs : x = disp'.cur /\ Due(x)' => Due(disp.cur)'
    BY DEF Due, Held
  <2> QED
    BY <2>1, <2>2, <2>3, <2>4
<1>4. ASSUME NEW x \in Identities, UNCHANGED <<live, dead, failed>> PROVE Due(x)'
  BY <1>4 DEF Identities, Due, Held, Incs, NoInc
<1>5. CASE disp' = disp
  BY <1>2, <1>3, <1>5 DEF Doomed, Removing
<1>6. CASE disp'.pc = "remove" /\ disp'.todo = Identities /\ UNCHANGED <<live, dead, failed>>
  BY <1>4, <1>6 DEF Doomed
<1>7. CASE Removing /\ disp'.todo \subseteq disp.todo /\ (disp'.pc = "evict" => disp'.cur \in disp.todo)
  <2>1. \A x \in disp'.todo : Due(x)'
    BY <1>2, <1>7
  <2>2. disp'.pc = "evict" => Due(disp.cur)'
    BY <1>2, <1>7 DEF Due, Held
  <2> QED
    BY <2>1, <2>2 DEF Doomed
<1>8. CASE ~Removing'
  BY <1>8 DEF Doomed, Removing
<1> QED
  BY <1>5, <1>6, <1>7, <1>8 DEF RemovalStep

-----------------------------------------------------------------------------
(***************************************************************************)
(* The invariant is kept                                                   *)
(***************************************************************************)
\* The incarnation counter does not go back.
LEMMA CounterMoves ==
    ASSUME IInv, Moves
    PROVE  next_inc' \in {next_inc, next_inc + 1}
BY DEF Moves, Rests, Evicts, Prunes, Kills, Reserves, BeginReplacement, Settles, Signals, Retains, Reports,
   Finishes, Fails, Publishes, Exits, ExitsLate

\* A removal ends with neither a session nor a reservation under its id.
LEMMA RemovalEnds ==
    ASSUME SessionInv, Doomed, RemovalStep, NEW i \in Ids, BeingRemoved(i)
    PROVE  BeingRemoved(i)' \/ (live'[i] = NoInc /\ pending'[i] = NoInc)
<1> /\ IInv /\ Identity /\ live \in [Ids -> IncType] /\ pending \in [Ids -> IncType]
    /\ dead \in [Ids -> DeadType] /\ failed \in [Ids -> FailedType]
  BY TypesHere DEF SessionInv
<1>1. ASSUME NEW r \in Removers, rm[r].pc = "evict", rm[r].id = i
      PROVE  BeingRemoved(i)' \/ (live'[i] = NoInc /\ pending'[i] = NoInc)
  BY <1>1 DEF RemovalStep, BeingRemoved
<1>2. CASE disp.pc = "evict" /\ disp.cur[1] = i
  <2>1. CASE disp' = disp
    BY <1>2, <2>1 DEF BeingRemoved
  <2>2. CASE DisposeEvict
    <3> DEFINE n == disp.cur[2]
    <3>1. Due(disp.cur) /\ n \in Incs /\ NoInc \notin Incs /\ Alone(i)
      BY <1>2 DEF Doomed, IInv, TInv, NamedTasks, DispNamed, Incs, NoInc, Identity
    <3>2. CASE n \notin {live[i], dead[i].inc, failed[i].inc}
      <4>1. Held(i) = {} /\ pending[i] = NoInc
        BY <1>2, <3>1, <3>2 DEF Due, Held
      <4>2. live[i] = NoInc /\ UNCHANGED <<live, pending>>
        BY <1>2, <2>2, <3>2, <4>1 DEF DisposeEvict, Held
      <4> QED
        BY <4>1, <4>2
    <3>3. CASE n \in {live[i], dead[i].inc, failed[i].inc}
      <4>1. /\ pending' = [pending EXCEPT ![i] = NoInc]
            /\ live' = IF live[i] = n THEN [live EXCEPT ![i] = NoInc] ELSE live
        BY <1>2, <2>2, <3>3 DEF DisposeEvict
      <4>2. live[i] \in {n, NoInc}
        BY <3>1, <3>3 DEF Alone
      <4> QED
        BY <4>1, <4>2
    <3> QED
      BY <3>2, <3>3
  <2> QED
    BY <1>2, <2>1, <2>2 DEF RemovalStep
<1> QED
  BY <1>1, <1>2 DEF BeingRemoved

\* Removals are under the gate.
LEMMA RemovedByHolder ==
    ASSUME IInv, NEW i \in Ids, BeingRemoved(i)
    PROVE  pgate \in Removers \union {"dispose"}
BY DEF IInv, GateHeld, BeingRemoved, RemoveIn, DisposeIn


\* The facts about types that the lemmas below share.
LEMMA StoreFacts ==
    ASSUME IInv
    PROVE  /\ store \in StoreType /\ next_inc \in Nat /\ NoInc = 0
           /\ Incs \subseteq Nat \ {0} /\ IncType \subseteq Nat
           /\ \A i \in Ids : /\ store.rows[i].inc \in Nat /\ store.removed[i] \in Nat
                             /\ live[i] \in IncType /\ pending[i] \in IncType
                             /\ failed[i].inc \in IncType
                             /\ live[i] # NoInc => live[i] \in Incs
<1>1. store \in StoreType /\ StoreIds = Ids /\ next_inc \in Nat
  BY TypesHere, ManagerAssumption DEF IInv, TInv, TypeOK, TaskTypeOK
<1>2. \A i \in Ids : store.rows[i].inc \in Nat /\ store.removed[i] \in Nat
  BY <1>1 DEF StoreType
<1>3. \A i \in Ids : live[i] \in IncType /\ pending[i] \in IncType /\ failed[i].inc \in IncType
  BY TypesHere DEF FailedType
<1>4. NoInc = 0 /\ Incs \subseteq Nat \ {0} /\ IncType \subseteq Nat
      /\ \A n \in IncType : n # NoInc => n \in Incs
  BY DEF NoInc, Incs, IncType
<1> QED
  BY <1>1, <1>2, <1>3, <1>4

\* The session that is saved is live, nothing in the tables is above it, and it
\* is older than the counter.
LEMMA SavedIsReady ==
    ASSUME RestartInv, Ready, NEW i \in Ids, NEW n \in IncType, Saves(i, n)
    PROVE  live[i] = n /\ Savable(i, n) /\ n \in Incs /\ n < next_inc /\ pending[i] \in {NoInc, n}
<1> IInv /\ Identity /\ LivePending
  BY DEF RestartInv, FleetInv, SessionInv
<1>1. live[i] = n /\ Savable(i, n)
  BY DEF Saves, Ready
<1>2. n \in Incs
  BY DEF Saves, IInv, TInv, NamedTasks, CrNamed, SupNamed
<1>3. n # NoInc
  BY <1>2 DEF Incs, NoInc
<1>4. n \in Known(i)
  BY <1>1, <1>3 DEF Known
<1> QED
  BY <1>1, <1>2, <1>3, <1>4 DEF Identity, Ordered, LivePending

\* What a save leaves in the tables.
LEMMA SavedRow ==
    ASSUME RestartInv, Ready, NEW i \in Ids, NEW n \in IncType, Saves(i, n)
    PROVE  /\ SameBut(store, store', i)
           /\ store'.rows[i].inc = n /\ store'.rows[i].alive /\ store'.removed[i] = 0
<1> IInv
  BY DEF RestartInv, FleetInv, SessionInv
<1>1. store \in StoreType /\ n \in Nat
  BY StoreFacts
<1>2. PICK b \in BOOLEAN : store' = SaveSession(store, i, n, b)
  BY Zenon DEF Saves
<1>3. store.rows[i].inc <= n /\ store.removed[i] < n
  BY SavedIsReady DEF Savable
<1> QED
  BY <1>1, <1>2, <1>3, SaveEffect

\* What the save of an unavailable identity leaves in the tables.
LEMMA RestoredRow ==
    ASSUME RestartInv, NEW i \in Ids, Restores(i)
    PROVE  /\ SameBut(store, store', i) /\ failed[i].inc < next_inc
           /\ store'.rows[i].inc \in {store.rows[i].inc, failed[i].inc}
           /\ store'.removed[i] \in {store.removed[i], 0}
<1> IInv /\ Identity
  BY DEF RestartInv, FleetInv, SessionInv
<1>1. store \in StoreType /\ failed[i].inc \in Nat
  BY StoreFacts
<1>2. PICK b \in BOOLEAN : store' = SaveSession(store, i, failed[i].inc, b)
  BY Zenon DEF Restores
<1>3. failed[i].inc < next_inc
  BY DEF Restores, Identity, Ordered, Known
<1> QED
  BY <1>1, <1>2, <1>3, SaveEffect

\* What a deletion leaves in the tables.
LEMMA DeletedRow ==
    ASSUME RestartInv, NEW i \in Ids, NEW n \in IncType, Deletes(i, n)
    PROVE  /\ SameBut(store, store', i)
           /\ store'.rows[i].inc \in {store.rows[i].inc, 0}
           /\ store'.removed[i] \in {store.removed[i], n}
<1> IInv
  BY DEF RestartInv, FleetInv, SessionInv
<1>1. store \in StoreType /\ n \in Nat /\ store' = DeleteSession(store, i, n)
  BY StoreFacts DEF Deletes
<1> QED
  BY <1>1, DeleteEffect

\* Rows and watermarks stay below the counter.
LEMMA BelowKept ==
    ASSUME RestartInv, RestartInv', Below, Ready, Moves, StoreStep, RemovalStep
    PROVE  Below'
<1> IInv /\ IInv'
  BY DEF RestartInv, FleetInv, SessionInv
<1>1. next_inc \in Nat /\ next_inc' \in {next_inc, next_inc + 1}
  BY StoreFacts, CounterMoves
<1>2. ASSUME NEW i \in Ids PROVE store'.rows[i].inc < next_inc' /\ store'.removed[i] < next_inc'
  <2>0. store.rows[i].inc < next_inc /\ store.removed[i] < next_inc
        /\ store.rows[i].inc \in Nat /\ store.removed[i] \in Nat
    BY StoreFacts DEF Below
  <2>1. ASSUME NEW j \in Ids, SameBut(store, store', j), j # i
        PROVE  store'.rows[i].inc < next_inc' /\ store'.removed[i] < next_inc'
    BY <1>1, <2>0, <2>1 DEF SameBut
  <2>2. CASE store' = store
    BY <1>1, <2>0, <2>2
  <2>3. ASSUME NEW j \in Ids, Marks(j)
        PROVE  store'.rows[i].inc < next_inc' /\ store'.removed[i] < next_inc'
    <3>1. store'.rows[i].inc = store.rows[i].inc /\ store'.removed[i] = store.removed[i]
      BY <2>3 DEF Marks, SameBut
    <3> QED
      BY <1>1, <2>0, <3>1
  <2>4. ASSUME NEW j \in Ids, Restores(j)
        PROVE  store'.rows[i].inc < next_inc' /\ store'.removed[i] < next_inc'
    <3>1. failed[j].inc \in Nat
      BY StoreFacts
    <3> QED
      BY <1>1, <2>0, <2>1, <2>4, <3>1, RestoredRow
  <2>5. ASSUME NEW j \in Ids, NEW n \in IncType, Saves(j, n)
        PROVE  store'.rows[i].inc < next_inc' /\ store'.removed[i] < next_inc'
    <3>1. n \in Nat /\ n < next_inc
      BY <2>5, SavedIsReady, StoreFacts
    <3> QED
      BY <1>1, <2>0, <2>1, <2>5, <3>1, SavedRow
  <2>6. ASSUME NEW j \in Ids, NEW n \in IncType, Deletes(j, n)
        PROVE  store'.rows[i].inc < next_inc' /\ store'.removed[i] < next_inc'
    <3>1. n \in Nat /\ n < next_inc'
      BY <2>6, StoreFacts DEF Deletes
    <3> QED
      BY <1>1, <2>0, <2>1, <2>6, <3>1, DeletedRow
  <2> QED
    BY <2>2, <2>3, <2>4, <2>5, <2>6 DEF StoreStep
<1>3. ASSUME NEW r \in Removers, RemoveIn(r)' PROVE rm'[r].inc < next_inc'
  <2>1. CASE RemoveIn(r) /\ rm'[r].inc = rm[r].inc
    <3>1. rm[r].inc < next_inc /\ rm[r].inc \in Nat
      BY <2>1, StoreFacts DEF Below, IInv, TInv, TypeOK, TaskTypeOK, RemoveType
    <3> QED
      BY <1>1, <2>1, <3>1
  <2>2. CASE rm'[r].inc = next_inc /\ next_inc' = next_inc + 1
    BY <1>1, <2>2
  <2> QED
    BY <1>3, <2>1, <2>2 DEF RemovalStep
<1> QED
  BY <1>2, <1>3 DEF Below

\* No row and no watermark gets above a reservation that stands, unless its id
\* is being removed.
LEMMA StandingKept ==
    ASSUME RestartInv, RestartInv', Below, Standing, Ready, Doomed, Moves, StoreStep, RemovalStep
    PROVE  Standing'
<1> IInv /\ IInv' /\ SessionInv
  BY DEF RestartInv, FleetInv, SessionInv
<1> SUFFICES ASSUME NEW i \in Ids, pending'[i] # NoInc
             PROVE  /\ store'.rows[i].inc <= pending'[i]
                    /\ store'.removed[i] < pending'[i] \/ BeingRemoved(i)'
  BY DEF Standing
<1>0. /\ store.rows[i].inc \in Nat /\ store.removed[i] \in Nat /\ pending[i] \in Nat
      /\ next_inc \in Nat /\ NoInc = 0
      /\ store.rows[i].inc < next_inc /\ store.removed[i] < next_inc
  BY StoreFacts DEF Below
<1>1. pending'[i] \in {pending[i], next_inc}
  BY PendingMoves
<1>2. CASE store'.rows[i].inc = store.rows[i].inc /\ store'.removed[i] = store.removed[i]
  <2>1. CASE pending'[i] = next_inc
    BY <1>0, <1>2, <2>1
  <2>2. CASE pending'[i] = pending[i]
    <3>1. store.rows[i].inc <= pending[i] /\ (store.removed[i] < pending[i] \/ BeingRemoved(i))
      BY <2>2 DEF Standing
    <3>2. BeingRemoved(i) => BeingRemoved(i)'
      BY RemovalEnds
    <3> QED
      BY <1>2, <2>2, <3>1, <3>2
  <2> QED
    BY <1>1, <2>1, <2>2
<1>3. ASSUME NEW j \in Ids, SameBut(store, store', j), j # i
      PROVE  store'.rows[i].inc = store.rows[i].inc /\ store'.removed[i] = store.removed[i]
  BY <1>3 DEF SameBut
<1>4. ASSUME NEW j \in Ids, Marks(j)
      PROVE  store'.rows[i].inc = store.rows[i].inc /\ store'.removed[i] = store.removed[i]
  BY <1>4 DEF Marks, SameBut
<1>5. ASSUME NEW j \in Ids, Restores(j)
      PROVE  store'.rows[i].inc = store.rows[i].inc /\ store'.removed[i] = store.removed[i]
  <2>1. pending[j] = NoInc /\ pending' = pending
    BY <1>5 DEF Restores
  <2> QED
    BY <1>3, <1>5, <2>1, RestoredRow
<1>6. ASSUME NEW j \in Ids, NEW n \in IncType, Saves(j, n), j # i
      PROVE  store'.rows[i].inc = store.rows[i].inc /\ store'.removed[i] = store.removed[i]
  BY <1>3, <1>6, SavedRow
<1>7. ASSUME NEW n \in IncType, Saves(i, n)
      PROVE  store'.rows[i].inc <= pending'[i] /\ store'.removed[i] < pending'[i]
  <2>1. pending'[i] = n /\ n \in Nat \ {0}
    <3>1. pending' = pending
      BY <1>7 DEF Saves
    <3>2. pending[i] \in {NoInc, n} /\ n \in Incs
      BY <1>7, SavedIsReady
    <3> QED
      BY <3>1, <3>2, StoreFacts
  <2>2. store'.rows[i].inc = n /\ store'.removed[i] = 0
    BY <1>7, SavedRow
  <2> QED
    BY <2>1, <2>2
<1>8. ASSUME NEW j \in Ids, NEW n \in IncType, Deletes(j, n), j # i
      PROVE  store'.rows[i].inc = store.rows[i].inc /\ store'.removed[i] = store.removed[i]
  BY <1>3, <1>8, DeletedRow
<1>9. ASSUME NEW n \in IncType, Deletes(i, n)
      PROVE  store'.rows[i].inc <= pending'[i] /\ BeingRemoved(i)'
  <2>1. pending' = pending /\ BeingRemoved(i)'
    BY <1>9 DEF Deletes
  <2>2. store.rows[i].inc <= pending[i]
    BY <2>1 DEF Standing
  <2>3. store'.rows[i].inc \in {store.rows[i].inc, 0}
    BY <1>9, DeletedRow
  <2> QED
    BY <1>0, <2>1, <2>2, <2>3
<1> QED
  BY <1>2, <1>4, <1>5, <1>6, <1>7, <1>8, <1>9 DEF StoreStep

\* A session that was published is still live, and can be saved, when its
\* publisher gets to it: the publisher has the gate.
LEMMA ReadyKept ==
    ASSUME RestartInv, Standing, Ready, GateStep, StartStep
    PROVE  Ready'
<1> IInv
  BY DEF RestartInv, FleetInv, SessionInv
<1>1. ASSUME NEW i \in Ids, NEW n \in Incs, StartsNow(i, n), ~BeingRemoved(i)
      PROVE  live'[i] = n /\ Savable(i, n)'
  <2>1. pending[i] = n /\ n # NoInc /\ live'[i] = n /\ store' = store
    BY <1>1 DEF StartsNow, ReplacementIsCurrent, Incs, NoInc
  <2>2. store.rows[i].inc <= n /\ store.removed[i] < n
    BY <1>1, <2>1 DEF Standing
  <2> QED
    BY <2>1, <2>2 DEF Savable
<1>2. ASSUME NEW i \in Ids, NEW n \in Incs, live[i] = n, Savable(i, n), rd[n].pc = "starting",
             store' = store, \A j \in Ids : live'[j] = live[j] \/ rd[live[j]].pc = "running"
      PROVE  live'[i] = n /\ Savable(i, n)'
  <2>1. live'[i] = n
    BY <1>2
  <2>2. Savable(i, n)'
    BY <1>2 DEF Savable
  <2> QED
    BY <2>1, <2>2
<1>3. ASSUME NEW c \in Callers, cr'[c].pc = "start"
      PROVE  live'[cr'[c].id] = cr'[c].inc /\ Savable(cr[c].id, cr[c].inc)'
  <2>1. /\ cr'[c].id = cr[c].id /\ cr'[c].inc = cr[c].inc /\ cr[c].pc \in {"start", "spawn"}
        /\ cr[c].pc = "start" \/ StartsNow(cr[c].id, cr[c].inc)
    BY <1>3 DEF StartStep
  <2>2. cr[c].id \in Ids /\ cr[c].inc \in Incs /\ CreateIn(c) /\ pgate = "create"
    BY <2>1 DEF IInv, TInv, NamedTasks, CrNamed, CreateIn, GateHeld
  <2>3. ~BeingRemoved(cr[c].id)
    BY <2>2, RemovedByHolder DEF Removers
  <2>4. CASE cr[c].pc = "spawn"
    BY <1>1, <2>1, <2>2, <2>3, <2>4
  <2>5. CASE cr[c].pc = "start"
    <3>1. live[cr[c].id] = cr[c].inc /\ Savable(cr[c].id, cr[c].inc) /\ rd[cr[c].inc].pc = "starting"
      BY <2>5 DEF Ready, IInv, Started
    <3>2. store' = store /\ \A j \in Ids : live'[j] = live[j] \/ rd[live[j]].pc = "running"
      <4>1. \A d \in Callers : CreateIn(d) => d = c
        BY <2>2 DEF IInv, GateHeld
      <4>2. ~SupIn /\ ~DisposeIn /\ \A r \in Removers : ~RemoveIn(r)
        BY <2>2 DEF IInv, GateHeld, Removers
      <4> QED
        BY <1>3, <2>2, <2>5, <4>1, <4>2 DEF GateStep
    <3>3. \A i \in Ids, n \in Incs : i = cr[c].id /\ n = cr[c].inc => live'[i] = n /\ Savable(i, n)'
      BY <1>2, <3>1, <3>2
    <3> QED
      BY <2>1, <2>2, <3>3
  <2> QED
    BY <2>1, <2>4, <2>5
<1>4. ASSUME sup'.pc = "start"
      PROVE  live'[sup'.id] = sup'.new /\ Savable(sup.id, sup.new)'
  <2>1. /\ sup'.id = sup.id /\ sup'.new = sup.new /\ sup.pc \in {"start", "spawn"}
        /\ sup.pc = "start" \/ (pgate = "free" /\ StartsNow(sup.id, sup.new))
    BY <1>4 DEF StartStep
  <2>2. sup.id \in Ids /\ sup.new \in Incs
    BY <2>1 DEF IInv, TInv, NamedTasks, SupNamed
  <2>3. CASE sup.pc = "spawn"
    <3>1. ~BeingRemoved(sup.id)
      BY <2>1, <2>2, <2>3, RemovedByHolder DEF Removers
    <3> QED
      BY <1>1, <2>1, <2>2, <2>3, <3>1
  <2>4. CASE sup.pc = "start"
    <3>1. live[sup.id] = sup.new /\ Savable(sup.id, sup.new) /\ rd[sup.new].pc = "starting"
      BY <2>4 DEF Ready, IInv, Started
    <3>2. store' = store /\ \A j \in Ids : live'[j] = live[j] \/ rd[live[j]].pc = "running"
      <4>1. pgate = "supervisor"
        BY <2>4 DEF IInv, GateHeld, SupIn
      <4>2. ~DisposeIn /\ (\A d \in Callers : ~CreateIn(d)) /\ \A r \in Removers : ~RemoveIn(r)
        BY <4>1 DEF IInv, GateHeld, Removers
      <4> QED
        BY <1>4, <2>4, <4>1, <4>2 DEF GateStep
    <3>3. \A i \in Ids, n \in Incs : i = sup.id /\ n = sup.new => live'[i] = n /\ Savable(i, n)'
      BY <1>2, <3>1, <3>2
    <3> QED
      BY <2>1, <2>2, <3>3
  <2> QED
    BY <2>1, <2>3, <2>4
<1> QED
  BY <1>3, <1>4 DEF Ready, Savable

\* A session that runs is in the database as long as it runs.
LEMMA DurableKept ==
    ASSUME RestartInv, RestartInv', LiveIsDurable, Ready, Doomed, Moves, StoreStep, RemovalStep
    PROVE  LiveIsDurable'
<1> IInv /\ IInv' /\ SessionInv /\ Identity
  BY DEF RestartInv, FleetInv, SessionInv
<1> SUFFICES ASSUME NEW i \in Ids, live'[i] # NoInc, rd'[live'[i]].pc = "running", ~BeingRemoved(i)'
             PROVE  i \in LoadSessions(store') /\ store'.rows[i].inc = live'[i]
  BY DEF LiveIsDurable
<1> DEFINE n == live'[i]
<1>1. n = live[i] /\ n \in Incs
  <2>1. ~\E m \in Incs : live'[i] = m /\ Publishes(i, m)
    BY DEF Publishes
  <2> QED
    BY <2>1, LiveMoves, StoreFacts
<1>2. ~BeingRemoved(i)
  BY RemovalEnds
<1>3. StoreIds = Ids
  BY ManagerAssumption
<1>4. ASSUME rd[n].pc = "running", store'.rows[i] = store.rows[i], store'.removed[i] = store.removed[i]
      PROVE  i \in LoadSessions(store') /\ store'.rows[i].inc = live'[i]
  <2>1. i \in LoadSessions(store) /\ store.rows[i].inc = n
    BY <1>1, <1>2, <1>4, StoreFacts DEF LiveIsDurable
  <2> QED
    BY <1>3, <1>4, <2>1 DEF LoadSessions
<1>5. NoneStarts(NoInc) => rd[n].pc = "running"
  BY <1>1 DEF NoneStarts, Incs, NoInc
<1>6. CASE NoneStarts(NoInc) /\ store' = store
  BY <1>4, <1>5, <1>6
<1>7. ASSUME NoneStarts(NoInc), NEW j \in Ids, Marks(j)
      PROVE  i \in LoadSessions(store') /\ store'.rows[i].inc = live'[i]
  <2>1. j # i
    BY <1>7 DEF Marks
  <2>2. store'.rows[i] = store.rows[i] /\ store'.removed[i] = store.removed[i]
    BY <1>7, <2>1 DEF Marks, SameBut
  <2> QED
    BY <1>4, <1>5, <1>7, <2>2
<1>8. ASSUME NEW j \in Ids, Restores(j)
      PROVE  i \in LoadSessions(store') /\ store'.rows[i].inc = live'[i]
  <2>1. j # i /\ NoneStarts(NoInc)
    BY <1>1, <1>8 DEF Restores
  <2>2. store'.rows[i] = store.rows[i] /\ store'.removed[i] = store.removed[i]
    BY <1>8, <2>1, RestoredRow DEF SameBut
  <2> QED
    BY <1>4, <1>5, <2>1, <2>2
<1>9. ASSUME NEW j \in Ids, NEW m \in IncType, Deletes(j, m)
      PROVE  i \in LoadSessions(store') /\ store'.rows[i].inc = live'[i]
  <2>1. j # i /\ NoneStarts(NoInc)
    BY <1>9 DEF Deletes
  <2>2. store'.rows[i] = store.rows[i] /\ store'.removed[i] = store.removed[i]
    BY <1>9, <2>1, DeletedRow DEF SameBut
  <2> QED
    BY <1>4, <1>5, <2>1, <2>2
<1>10. ASSUME NEW j \in Ids, NEW m \in IncType, Saves(j, m)
       PROVE  i \in LoadSessions(store') /\ store'.rows[i].inc = live'[i]
  <2>1. live[j] = m /\ m \in Incs
    BY <1>10, SavedIsReady
  <2>2. CASE j = i
    <3>1. store'.rows[i].inc = m /\ store'.rows[i].alive /\ store'.removed[i] = 0
      BY <1>10, <2>2, SavedRow
    <3> QED
      BY <1>1, <1>3, <2>1, <2>2, <3>1 DEF LoadSessions
  <2>3. CASE j # i
    <3>1. n # m
      <4>1. n \in Known(i) /\ m \in Known(j)
        BY <1>1, <2>1 DEF Known, Incs, NoInc
      <4> QED
        BY <2>3, <4>1 DEF Identity, Apart
    <3>2. rd[n].pc = "running"
      BY <1>1, <1>10, <3>1 DEF Saves, NoneStarts
    <3>3. store'.rows[i] = store.rows[i] /\ store'.removed[i] = store.removed[i]
      BY <1>10, <2>3, SavedRow DEF SameBut
    <3> QED
      BY <1>4, <3>2, <3>3
  <2> QED
    BY <2>2, <2>3
<1> QED
  BY <1>6, <1>7, <1>8, <1>9, <1>10 DEF StoreStep

-----------------------------------------------------------------------------
\* The invariant holds at the start ...
LEMMA InitStore == Init => StoreInv
<1> SUFFICES ASSUME Init PROVE StoreInv
  OBVIOUS
<1>1. RestartInv
  BY InitRestarts
<1>2. /\ sup.pc = "idle" /\ disp.pc = "idle" /\ \A c \in Callers : cr[c].pc = "idle"
      /\ \A r \in Removers : rm[r].pc = "idle"
  BY DEF Init, IdleCr, IdleSup, IdleDisp, IdleRm
<1>3. next_inc = 1 /\ \A i \in Ids : live[i] = NoInc /\ pending[i] = NoInc
  BY DEF Init, NoEntries
<1>4. \A i \in Ids : store.rows[i].inc = 0 /\ store.removed[i] = 0
  BY ManagerAssumption DEF Init, EmptyStore, NoRow
<1>5. Below /\ Standing /\ Ready /\ Doomed /\ LiveIsDurable
  BY <1>2, <1>3, <1>4 DEF Below, RemoveIn, Standing, Ready, Doomed, Removing, LiveIsDurable
<1> QED
  BY <1>1, <1>5 DEF StoreInv

\* ... and every step keeps it.
LEMMA NextStoreInv == StoreInv /\ [Next]_vars => StoreInv'
<1> SUFFICES ASSUME StoreInv, [Next]_vars PROVE StoreInv'
  OBVIOUS
<1> RestartInv /\ SessionInv /\ IInv
  BY DEF StoreInv, RestartInv, FleetInv, SessionInv
<1>1. RestartInv'
  BY NextRestarts
<1>2. Moves
  BY NextMoves DEF SessionInv
<1>3. StoreStep /\ GateStep /\ StartStep /\ RemovalStep
  BY NextStore, NextGate, NextStart, NextRemovals DEF StoreInv
<1>4. Below' /\ Standing'
  BY <1>1, <1>2, <1>3, BelowKept, StandingKept DEF StoreInv
<1>5. Ready' /\ Doomed'
  BY <1>2, <1>3, ReadyKept, DoomedKept DEF StoreInv
<1>6. LiveIsDurable'
  BY <1>1, <1>2, <1>3, DurableKept DEF StoreInv
<1> QED
  BY <1>1, <1>4, <1>5, <1>6 DEF StoreInv

\* A live session whose reader runs is in the database, alive and under its own
\* incarnation, whatever was created, killed, removed, disposed of or marked
\* under its id before: a crash of the server at any moment restores it.
THEOREM RunningSurvives == Spec => []LiveIsDurable
<1>1. StoreInv => LiveIsDurable
  BY DEF StoreInv
<1> QED
  BY <1>1, InitStore, NextStoreInv, PTL DEF Spec

=============================================================================
