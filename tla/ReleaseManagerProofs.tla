------------------------ MODULE ReleaseManagerProofs ------------------------
(***************************************************************************)
(* Proofs about the release manager, for every set of releases, every     *)
(* assignment of roles to them and every crash point, where the operator  *)
(* recovers an open transaction before anything else and at most one      *)
(* write of state.json fails.                                              *)
(*                                                                         *)
(* The inductive invariant has these parts: what state.json and its        *)
(* in-memory copy say at each step (Journal), what the backups hold       *)
(* (Backups), what runs and is enabled before a success is reported       *)
(* (Reports), and which releases the unit files on the host may belong to *)
(* (Owned, Blended, Boot).                                                 *)
(***************************************************************************)
EXTENDS ReleaseManager, TLAPS

Quiet == {"stop", "backup", "install", "config", "switch"}
Enabling == {"enable_api", "enable_recovery", "enable_web"}
Served == {"probe", "health", "commit"} \cup Enabling
Activation == Quiet \cup {"services"} \cup Served
Reverting == {"rollback", "restore", "verify", "verified"}

(* After a failed step the copy in memory agrees with state.json up to the *)
(* phase, unless it was the commit itself that could not be written.       *)
FailedCopy ==
    IF mem.tx = NoTx
    THEN saveFails = 1 /\ mem.active # None /\ PreflightOk(mem.active)
    ELSE mem.tx \in OpenPhases /\ mem.active = st.active /\ mem.pending = st.pending

RevertedCopy == mem.active = st.active /\ (mem.tx = NoTx => st = mem)

Journal ==
    /\ st.tx = NoTx /\ st.active # None => PreflightOk(st.active)
    /\ st.tx \in OpenPhases => st.pending \in dirs
    /\ pc \in Activation \cup {"link"} => st = mem
    /\ pc \in Quiet => st.tx = "quiesced"
    /\ pc \in {"services"} \cup Served => st.tx \in {"switched", "probing"}
    /\ pc \in {"link", "promote"} => st.tx = NoTx
    /\ pc = "link" => st.active # None
    /\ pc \in Served => PreflightOk(st.pending)
    /\ pc = "fail" => st.tx \in OpenPhases /\ FailedCopy
    /\ pc \in Reverting => st.tx # "failed"
    /\ pc \in Reverting \cup {"rollback_failed"} /\ caller = "start" => RevertedCopy
    /\ pc \in {"restore", "verify", "verified"} => st.active # None
    /\ pc = "restore" => (st.tx = NoTx => todo = {}) /\ \A u \in todo : backup.units[u] # None
    /\ pc = "verified" => PreflightOk(st.active)

Backed ==
    /\ \A u \in UnitsOf(st.active) : backup.units[u] = st.active
    /\ backup.config = st.active

Backups ==
    /\ BackupsAreActive
    /\ st.active # None =>
        /\ pc \in {"stop", "backup"} => PreflightOk(st.active)
        /\ pc = "backup" => \A u \in UnitsOf(st.active) \ todo : backup.units[u] = st.active
        /\ pc = "install" => /\ config = st.active
                             /\ \A u \in UnitsOf(st.active) : backup.units[u] = st.active
        /\ pc \in {"config", "switch"} => Backed
        /\ pc = "fail" /\ mem.tx \in {"switched", "probing"} => Backed

Serves(r) == \A u \in role[r] : running[u] = r

Reports ==
    /\ report \in {"committed", "rolled_back"} => pc = "idle"
    /\ SuccessIsServing /\ CommitDecidesBoot /\ RolledBackMeansBefore
    /\ pc \in Served => Serves(st.pending)
    /\ pc \in {"link", "verified"} => Serves(st.active)
    /\ pc \in {"enable_recovery", "enable_web"} =>
         ("api" \in enabled <=> "api" \in role[st.pending])
    /\ pc = "enable_web" => "recovery" \in enabled
    /\ pc = "commit" => enabled = UnitsOf(st.pending)
    /\ pc = "link" => enabled = UnitsOf(st.active)
    /\ saveFails = 0 /\ pc \in Activation \cup Reverting \cup {"fail", "promote"} =>
         st.active = before

(* A file is of a release that has the unit in its role. *)
Own(f) == \A u \in Units : f[u] # None => u \in UnitsOf(f[u])

(* The unit files are of the releases x and p only, the recovery unit's   *)
(* present.                                                                *)
Mixed(x, p) == /\ units["recovery"] \in {x, p}
               /\ \A u \in AppUnits : units[u] \in {None, x, p}

(* Unit files, backups and processes by role. *)
Owned ==
    /\ Own(units) /\ Own(backup.units) /\ Own(running)
    /\ pc = "install" => todo \subseteq UnitsOf(st.pending)
    /\ "web" \in enabled => "recovery" \in enabled

(* Where all releases have one role: outside a transaction the enabled    *)
(* units are of one release, inside one of the candidate and of the       *)
(* release it replaces, to which every backup belongs.                    *)
Blended ==
    OneRole =>
      /\ st.tx = NoTx /\ st.active = None =>
           enabled \cap AppUnits = {} \/ \E x \in MaybeRelease : Mixed(x, x)
      /\ st.tx \in OpenPhases /\ st.active = None =>
           enabled \cap AppUnits = {} \/ \E x \in MaybeRelease : Mixed(x, st.pending)
      /\ st.tx \in OpenPhases /\ st.active # None =>
           /\ Mixed(st.active, st.pending)
           /\ \A u \in Units : backup.units[u] \in {None, st.active}

Boot ==
    /\ pc = "boot" => queue \subseteq enabled
    /\ pc \in {"boot_ready", "boot_start"} /\ OneRole /\ st.tx # "failed" =>
         \A u, v \in queue : units[u] \in dirs /\ units[v] \in dirs => units[u] = units[v]
    /\ OneReleaseRuns

Inv == TypeOK /\ Journal /\ Backups /\ Reports /\ Owned /\ Blended /\ Boot
-----------------------------------------------------------------------------
(* The records and the file maps the manager builds. *)
LEMMA StateFields ==
    ASSUME NEW s \in States
    PROVE  /\ s.active \in MaybeRelease /\ s.previous \in MaybeRelease
           /\ s.pending \in MaybeRelease /\ s.tx \in Phases
           /\ \A x \in Phases : [s EXCEPT !.tx = x] \in States
           /\ \A x \in MaybeRelease : [s EXCEPT !.pending = x] \in States
           /\ \A x \in MaybeRelease, y \in Phases :
                 [s EXCEPT !.pending = x, !.tx = y] \in States
           /\ [s EXCEPT !.active = None, !.pending = None] \in States
           /\ Committed(s) \in States
  BY DEF States, Committed, MaybeRelease, NoTx, Phases

\* Sets of unit files.
LEMMA FileFacts ==
    /\ NoFiles \in Files
    /\ \A f \in Files, u \in Units, x \in MaybeRelease :
          f[u] \in MaybeRelease /\ [f EXCEPT ![u] = x] \in Files
    /\ None \in MaybeRelease /\ Releases \subseteq MaybeRelease
  BY DEF Files, NoFiles, MaybeRelease

\* The units of a release.
LEMMA RoleTyped ==
    ASSUME TypeOK, NEW r \in Releases
    PROVE  role[r] \subseteq AppUnits /\ role[r] \subseteq Units /\ UnitsOf(r) \subseteq Units
  BY DEF TypeOK, UnitsOf, Units, AppUnits

\* The units that run after a start.
LEMMA StartUnitsTyped ==
    ASSUME TypeOK, NEW r PROVE StartUnits(r) \in Files
  BY DEF TypeOK, StartUnits, Files

(* The two branches of recover that end without a rollback. *)
LinksEffect ==
    /\ report' \in {"recovered", "required"}
    /\ running' \in {running, NoFiles}
    /\ current' \in {current, st.active}
    /\ \/ enabled' \in {enabled, {}, enabled \ AppUnits}
       \/ /\ st.tx = NoTx /\ st.active # None /\ PreflightOk(st.active)
          /\ enabled' = UnitsOf(st.active)

\* What a recovery of the links may change.
LEMMA LinksStep ==
    ASSUME TypeOK, st.tx \notin OpenPhases, RecoverLinks(FALSE) \/ RecoverLinks(TRUE)
    PROVE  LinksEffect
<1>1. st.tx \in {NoTx, "failed"}
  BY StateFields DEF TypeOK, Phases
<1>2. ASSUME RepairActive, st.tx = NoTx, st.active # None
      PROVE  LinksEffect
  BY <1>2 DEF LinksEffect, RepairActive, EnabledFor
<1>3. ASSUME StopAndDisable
      PROVE  LinksEffect
  BY <1>3 DEF LinksEffect, StopAndDisable
<1>4. CASE st.tx = "failed"
  <2>1. RecoveryAction = "RecoveryRequired"
    BY <1>4 DEF RecoveryAction, OpenPhases, NoTx
  <2> QED BY <2>1, <1>3 DEF RecoverLinks
<1>5. CASE st.tx = NoTx /\ st.pending # None
  <2>1. RecoveryAction = "ResumePending"
    BY <1>5 DEF RecoveryAction, OpenPhases, NoTx
  <2> QED BY <2>1, <1>2, <1>5 DEF RecoverLinks, LinksEffect
<1>6. CASE st.tx = NoTx /\ st.pending = None /\ st.active # None
  <2>1. RecoveryAction = "RepairCommitted"
    BY <1>6 DEF RecoveryAction, OpenPhases, NoTx
  <2> QED BY <2>1, <1>2, <1>6 DEF RecoverLinks
<1>7. CASE st.tx = NoTx /\ st.pending = None /\ st.active = None
  <2>1. RecoveryAction = "NoAction"
    BY <1>7 DEF RecoveryAction, OpenPhases, NoTx
  <2> QED BY <2>1 DEF RecoverLinks, LinksEffect
<1> QED BY <1>1, <1>4, <1>5, <1>6, <1>7

\* A recovery restores the previous release just while a transaction is open.
LEMMA OpenAction == ASSUME TypeOK PROVE RecoveryAction = "RestorePrevious" <=> st.tx \in OpenPhases
  BY StateFields DEF RecoveryAction, OpenPhases, NoTx, TypeOK, Phases

-----------------------------------------------------------------------------
\* The initial state is well typed.
LEMMA TypeInit == Init => TypeOK
<1> SUFFICES ASSUME Init PROVE TypeOK
  OBVIOUS
<1>1. role \in [Releases -> SUBSET AppUnits \ {{}}]
  BY ReleaseAssumption DEF Init
<1>2. EmptyState \in States
  BY DEF EmptyState, States, MaybeRelease, Phases
<1>3. backup \in [units : Files, config : MaybeRelease]
  BY FileFacts DEF Init
<1>4. saveFails \in 0 .. MaxSaveFails
  BY ReleaseAssumption DEF Init
<1> QED BY <1>1, <1>2, <1>3, <1>4, FileFacts DEF Init, TypeOK

\* The count of failed writes stays within its bound.
LEMMA SaveTyped ==
    ASSUME TypeOK, SaveFails \/ UNCHANGED saveFails PROVE saveFails' \in 0 .. MaxSaveFails
  BY ReleaseAssumption DEF TypeOK, SaveFails

\* The begin of an activation is well typed.
LEMMA BeginTyped ==
    ASSUME TypeOK, BeginActivation(st)
    PROVE  /\ st' \in States /\ mem' \in States /\ saveFails' \in 0 .. MaxSaveFails
           /\ backup' \in [units : Files, config : MaybeRelease]
           /\ todo' = {} /\ before' \in MaybeRelease
<1>1. [st EXCEPT !.tx = "quiesced"] \in States
  BY StateFields DEF TypeOK, Phases, OpenPhases
<1>2. saveFails' \in 0 .. MaxSaveFails
  BY SaveTyped DEF BeginActivation, Save
<1>3. backup' \in [units : Files, config : MaybeRelease]
  BY FileFacts DEF BeginActivation, TypeOK
<1> QED BY <1>1, <1>2, <1>3, StateFields DEF BeginActivation, TypeOK, Save, SaveFails

(* Every step keeps the types. *)
LEMMA TypeStep ==
    ASSUME TypeOK, Journal, [Next]_vars PROVE TypeOK'
<1>0. UNCHANGED role
  BY DEF Next, vars
<1>1. ASSUME NEW r \in Releases, Stage(r) PROVE TypeOK'
  BY <1>0, <1>1, StateFields, FileFacts DEF TypeOK, NoTx, Phases, OpenPhases, Stage,
      MayCommand, Idle, host, cmd, hist
<1>2. ASSUME Start PROVE TypeOK'
  BY <1>2, <1>0, BeginTyped DEF TypeOK, Start
<1>3. ASSUME StartActive PROVE TypeOK'
  BY <1>0, <1>3, StateFields, FileFacts, StartUnitsTyped DEF TypeOK, NoTx, Phases,
      OpenPhases, StartActive, MayCommand, Idle, host, cmd, hist
<1>4. ASSUME Rollback PROVE TypeOK'
  BY <1>0, <1>4, StateFields, FileFacts DEF TypeOK, NoTx, Phases, OpenPhases,
      Rollback, MayCommand, Idle, host, cmd, hist
<1>5. ASSUME Recover PROVE TypeOK'
  BY <1>0, <1>5, StateFields, FileFacts, LinksStep, OpenAction DEF TypeOK, NoTx,
      Phases, OpenPhases, Recover, Idle, host, cmd, hist, LinksEffect, UnitsOf,
      PreflightOk, Units, AppUnits
<1>6. ASSUME Clean PROVE TypeOK'
  BY <1>0, <1>6, StateFields, FileFacts DEF TypeOK, NoTx, Phases, OpenPhases, Clean,
      MayCommand, Idle, host, cmd, hist
<1>7. ASSUME Promote PROVE TypeOK'
  <2>1. CASE BeginActivation(st)
    BY <1>7, <1>0, <2>1, BeginTyped DEF TypeOK, Promote
  <2>2. CASE ~BeginActivation(st)
    BY <1>7, <1>0, <2>2 DEF TypeOK, Promote, End
  <2> QED BY <2>1, <2>2
<1>8. ASSUME StopServices PROVE TypeOK'
  BY <1>0, <1>8, StateFields, FileFacts DEF TypeOK, NoTx, Phases, OpenPhases,
      StopServices, host, cmd, hist
<1>9. ASSUME NEW u \in Units, BackupUnit(u) PROVE TypeOK'
  BY <1>0, <1>9, StateFields, FileFacts DEF TypeOK, NoTx, Phases, OpenPhases,
      BackupUnit, host, cmd, hist
<1>10. ASSUME BackedUp PROVE TypeOK'
  <2>1. mem.pending \in Releases
    BY <1>10 DEF BackedUp, Journal, Activation, Quiet, OpenPhases, TypeOK
  <2> QED BY <1>10, <1>0, <2>1, RoleTyped DEF BackedUp, TypeOK, host, hist
<1>11. ASSUME NEW u \in Units, InstallUnit(u) PROVE TypeOK'
  <2>1. units' \in Files
    <3>1. mem.pending \in MaybeRelease
      BY StateFields DEF TypeOK
    <3>2. [units EXCEPT ![u] = mem.pending] \in Files
      BY <3>1, FileFacts DEF TypeOK
    <3> QED BY <1>11, <3>2 DEF InstallUnit, TypeOK
  <2> QED BY <1>11, <1>0, <2>1 DEF InstallUnit, TypeOK, hist
<1>12. ASSUME BackupConfig PROVE TypeOK'
  BY <1>0, <1>12, StateFields, FileFacts DEF TypeOK, NoTx, Phases, OpenPhases,
      BackupConfig, host, cmd, hist
<1>13. ASSUME InstallConfig PROVE TypeOK'
  BY <1>0, <1>13, StateFields, FileFacts DEF TypeOK, NoTx, Phases, OpenPhases,
      InstallConfig, host, cmd, hist
<1>14. ASSUME Switch PROVE TypeOK'
  <2>1. mem' \in States
    BY <1>14, StateFields DEF Switch, RecordPhase, TypeOK, Phases, OpenPhases
  <2>2. st' \in States /\ saveFails' \in 0 .. MaxSaveFails
    BY <1>14, <2>1, SaveTyped DEF Switch, RecordPhase, Save, SaveFails, TypeOK
  <2> QED BY <1>14, <1>0, <2>1, <2>2 DEF Switch, RecordPhase, TypeOK, host, hist
<1>15. ASSUME StartServices PROVE TypeOK'
  BY <1>0, <1>15, StateFields, FileFacts, StartUnitsTyped DEF TypeOK, NoTx, Phases,
      OpenPhases, StartServices, host, cmd, hist
<1>16. ASSUME Probe PROVE TypeOK'
  <2>1. mem' \in States
    BY <1>16, StateFields DEF Probe, RecordPhase, TypeOK, Phases, OpenPhases
  <2>2. st' \in States /\ saveFails' \in 0 .. MaxSaveFails
    BY <1>16, <2>1, SaveTyped DEF Probe, RecordPhase, Save, SaveFails, TypeOK
  <2> QED BY <1>16, <1>0, <2>1, <2>2 DEF Probe, RecordPhase, TypeOK, host, hist
<1>17. ASSUME ProbeHealth PROVE TypeOK'
  BY <1>0, <1>17, StateFields, FileFacts DEF TypeOK, NoTx, Phases, OpenPhases,
      ProbeHealth, host, cmd, hist
<1>18. ASSUME EnableUnits PROVE TypeOK'
  <2>1. enabled' \subseteq Units
    BY <1>18 DEF EnableUnits, EnableByRole, TypeOK, Units, AppUnits
  <2> QED BY <1>18, <1>0, <2>1 DEF EnableUnits, TypeOK, hist
<1>19. ASSUME Commit PROVE TypeOK'
  <2>1. mem' \in States
    BY <1>19, StateFields DEF Commit, TypeOK
  <2>2. st' \in States /\ saveFails' \in 0 .. MaxSaveFails
    BY <1>19, <2>1, SaveTyped DEF Commit, Save, SaveFails, TypeOK
  <2> QED BY <1>19, <1>0, <2>1, <2>2 DEF Commit, TypeOK, host, hist
<1>20. ASSUME LinkCurrent PROVE TypeOK'
  BY <1>0, <1>20, StateFields, FileFacts DEF TypeOK, NoTx, Phases, OpenPhases,
      LinkCurrent, End, host, cmd, hist
<1>21. ASSUME RecordFailure PROVE TypeOK'
  <2>1. st' \in States /\ saveFails' \in 0 .. MaxSaveFails
    BY <1>21, SaveTyped DEF RecordFailure, Save, SaveFails, TypeOK
  <2> QED BY <1>21, <1>0, <2>1 DEF RecordFailure, TypeOK, host, hist
<1>22. ASSUME RollbackBaseline PROVE TypeOK'
  <2>1. st' \in States /\ saveFails' \in 0 .. MaxSaveFails
    <3>1. [st EXCEPT !.tx = NoTx] \in States
      BY StateFields DEF TypeOK, Phases
    <3> QED BY <1>22, <3>1, SaveTyped DEF RollbackBaseline, Save, SaveFails, TypeOK
  <2>2. todo' \subseteq Units
    BY <1>22 DEF RollbackBaseline, End, TypeOK
  <2> QED BY <1>22, <1>0, <2>1, <2>2, FileFacts DEF RollbackBaseline, TypeOK
<1>23. ASSUME RollbackStop PROVE TypeOK'
  BY <1>0, <1>23, StateFields, FileFacts DEF TypeOK, NoTx, Phases, OpenPhases,
      RollbackStop, host, cmd, hist
<1>24. ASSUME NEW u \in Units, RestoreUnit(u) PROVE TypeOK'
  <2>1. units' \in Files
    <3>1. backup.units \in Files
      BY DEF TypeOK
    <3>2. [units EXCEPT ![u] = backup.units[u]] \in Files
      BY <3>1, FileFacts DEF TypeOK
    <3> QED BY <1>24, <3>2 DEF RestoreUnit, TypeOK
  <2> QED BY <1>24, <1>0, <2>1 DEF RestoreUnit, TypeOK, hist
<1>25. ASSUME RestoreConfig PROVE TypeOK'
  BY <1>0, <1>25, StateFields, FileFacts DEF TypeOK, NoTx, Phases, OpenPhases,
      RestoreConfig, host, cmd, hist
<1>26. ASSUME RestartActive PROVE TypeOK'
  BY <1>0, <1>26, StateFields, FileFacts, StartUnitsTyped DEF TypeOK, NoTx, Phases,
      OpenPhases, RestartActive, host, cmd, hist, Units
<1>27. ASSUME CloseRollback PROVE TypeOK'
  <2>1. st' \in States
    <3>1. \A x \in Phases : [st EXCEPT !.tx = x] \in States
      BY StateFields DEF TypeOK
    <3>2. NoTx \in Phases /\ "failed" \in Phases
      BY DEF Phases
    <3>3. (IF st.tx = NoTx THEN NoTx ELSE "failed") \in Phases
      BY <3>2
    <3> QED BY <1>27, <3>1, <3>2, <3>3 DEF CloseRollback, Save, SaveFails, TypeOK
  <2>2. saveFails' \in 0 .. MaxSaveFails
    BY <1>27, SaveTyped DEF CloseRollback, Save
  <2>3. todo' \subseteq Units /\ current' \in MaybeRelease
    BY <1>27, StateFields DEF CloseRollback, End, TypeOK
  <2> QED BY <1>27, <1>0, <2>1, <2>2, <2>3 DEF CloseRollback, TypeOK
<1>28. ASSUME RollbackFailed PROVE TypeOK'
  <2>1. st' \in States
    <3>1. \A x \in Phases : [mem EXCEPT !.tx = x] \in States
      BY StateFields DEF TypeOK
    <3>2. NoTx \in Phases /\ "failed" \in Phases
      BY DEF Phases
    <3>3. (IF mem.tx = NoTx THEN NoTx ELSE "failed") \in Phases
      BY <3>2
    <3> QED BY <1>28, <3>1, <3>3 DEF RollbackFailed, Save, SaveFails, TypeOK
  <2>2. saveFails' \in 0 .. MaxSaveFails
    BY <1>28, SaveTyped DEF RollbackFailed, Save
  <2> QED BY <1>28, <1>0, <2>1, <2>2 DEF RollbackFailed, End, TypeOK, host
<1>29. ASSUME BootRecover PROVE TypeOK'
  BY <1>0, <1>29, StateFields, FileFacts, LinksStep, OpenAction DEF TypeOK, NoTx,
      Phases, OpenPhases, BootRecover, BootRollbackStops, host, cmd, hist,
      LinksEffect, UnitsOf, PreflightOk,Units, AppUnits
<1>30. ASSUME BootStart PROVE TypeOK'
  <2>1. running' \in Files
    BY <1>30, FileFacts DEF BootStart, TypeOK, Files
  <2> QED BY <1>30, <1>0, <2>1 DEF BootStart, End, TypeOK
<1>31. ASSUME Kill PROVE TypeOK'
  BY <1>0, <1>31, StateFields, FileFacts DEF TypeOK, NoTx, Phases, OpenPhases, Kill,
      End, host, cmd, hist
<1>32. ASSUME PowerLoss PROVE TypeOK'
  BY <1>0, <1>32, StateFields, FileFacts DEF TypeOK, NoTx, Phases, OpenPhases,
      PowerLoss, host, cmd, hist
<1>33. ASSUME UNCHANGED vars PROVE TypeOK'
  BY <1>0, <1>33, StateFields, FileFacts DEF TypeOK, NoTx, Phases, OpenPhases, vars,
      host, cmd, hist
<1> QED BY <1>0, <1>1, <1>2, <1>3, <1>4, <1>5, <1>6, <1>7, <1>8, <1>9, <1>10, <1>11,
    <1>12, <1>13, <1>14, <1>15, <1>16, <1>17, <1>18, <1>19, <1>20, <1>21, <1>22,
    <1>23, <1>24, <1>25, <1>26, <1>27, <1>28, <1>29, <1>30, <1>31, <1>32, <1>33 DEF
    Next, Command, ManagerStep, ActivationStep, RollbackStep, BootStep
(* What entering a transaction writes. *)
LEMMA BeginFields ==
    ASSUME TypeOK, BeginActivation(st)
    PROVE  /\ st.pending \in dirs /\ before' = st.active /\ caller' = "start" /\ todo' = {}
           /\ backup' = IF st.tx = NoTx THEN [units |-> NoFiles, config |-> None] ELSE backup
           /\ \/ /\ pc' = "stop" /\ report' = "none" /\ st' = mem' /\ saveFails' = saveFails
                 /\ st'.tx = "quiesced" /\ st'.active = st.active /\ st'.pending = st.pending
              \/ /\ pc' = "idle" /\ report' = "failed" /\ st' = st /\ mem' = mem
                 /\ saveFails' = saveFails + 1
<1>1. /\ [st EXCEPT !.tx = "quiesced"].tx = "quiesced"
      /\ [st EXCEPT !.tx = "quiesced"].active = st.active
      /\ [st EXCEPT !.tx = "quiesced"].pending = st.pending
  BY DEF TypeOK, States
<1> QED BY <1>1 DEF BeginActivation, Save, SaveFails

(* Writing a record with another phase keeps its other fields. *)
LEMMA PhaseFields ==
    ASSUME NEW s \in States, NEW x
    PROVE  /\ [s EXCEPT !.tx = x].tx = x /\ [s EXCEPT !.tx = x].active = s.active
           /\ [s EXCEPT !.tx = x].pending = s.pending
           /\ [s EXCEPT !.tx = x].previous = s.previous
           /\ (x = s.tx => [s EXCEPT !.tx = x] = s)
  BY DEF States

(* How the rollback ends: closed, or to be reported as failed. *)
LEMMA BaselineFields ==
    ASSUME TypeOK, RollbackBaseline
    PROVE  /\ st'.active = st.active /\ st'.pending = st.pending /\ mem' = mem /\ caller' = caller
           /\ \/ /\ pc' = "idle" /\ st'.tx = NoTx /\ report' = "rolled_back"
                 /\ saveFails' = saveFails
              \/ /\ pc' = "rollback_failed" /\ st' = st /\ report' = report
                 /\ saveFails' = saveFails + 1
<1> DEFINE n == [st EXCEPT !.tx = NoTx]
<1>1. n.tx = NoTx /\ n.active = st.active /\ n.pending = st.pending
  BY PhaseFields DEF TypeOK
<1>2. st' = n \/ st' = st
  BY DEF RollbackBaseline, Save, SaveFails
<1> HIDE DEF n
<1>3. \/ st' = n /\ pc' = "idle" /\ report' = "rolled_back" /\ saveFails' = saveFails
      \/ st' = st /\ pc' = "rollback_failed" /\ report' = report /\ saveFails' = saveFails + 1
  BY DEF RollbackBaseline, Save, SaveFails, End, n
<1>4. mem' = mem /\ caller' = caller
  BY DEF RollbackBaseline
<1> QED BY <1>1, <1>3, <1>4

\* What the end of a rollback may change.
LEMMA CloseFields ==
    ASSUME TypeOK, CloseRollback
    PROVE  /\ st'.active = st.active /\ st'.pending = st.pending /\ mem' = mem /\ caller' = caller
           /\ \/ /\ pc' = "idle" /\ st'.tx = NoTx /\ report' = "rolled_back"
                 /\ saveFails' = saveFails
              \/ /\ pc' = "rollback_failed" /\ report' = report
                 /\ st' = st \/ (st.tx # NoTx /\ st'.tx = "failed")
<1> DEFINE n == [st EXCEPT !.tx = NoTx]
           f == [st EXCEPT !.tx = IF st.tx = NoTx THEN NoTx ELSE "failed"]
<1>1. n.tx = NoTx /\ n.active = st.active /\ n.pending = st.pending
  BY PhaseFields DEF TypeOK
<1>2. /\ f.active = st.active /\ f.pending = st.pending
      /\ st.tx = NoTx => f = st
      /\ st.tx # NoTx => f.tx = "failed"
  BY PhaseFields DEF TypeOK
<1>3. \/ st' = n /\ pc' = "idle" /\ report' = "rolled_back" /\ saveFails' = saveFails
      \/ st' \in {f, st} /\ pc' = "rollback_failed" /\ report' = report
  BY DEF CloseRollback, Save, SaveFails, End
<1>4. mem' = mem /\ caller' = caller
  BY DEF CloseRollback
<1> HIDE DEF n, f
<1> QED BY <1>1, <1>2, <1>3, <1>4

\* What a failed rollback may change.
LEMMA FailedFields ==
    ASSUME TypeOK, RollbackFailed, Journal
    PROVE  /\ pc' = "idle" /\ report' = "critical" /\ st'.active = st.active
           /\ st' = st \/ st'.tx = "failed"
<1> DEFINE f == [mem EXCEPT !.tx = IF mem.tx = NoTx THEN NoTx ELSE "failed"]
<1>1. /\ f.active = mem.active
      /\ mem.tx = NoTx => f = mem
      /\ mem.tx # NoTx => f.tx = "failed"
  BY PhaseFields DEF TypeOK
<1>2. /\ pc' = "idle" /\ report' = "critical"
      /\ st' = st \/ (st' = f /\ caller = "start")
  BY DEF RollbackFailed, Save, SaveFails, End
<1>3. caller = "start" => RevertedCopy
  BY DEF RollbackFailed, Journal
<1> HIDE DEF f
<1> QED BY <1>1, <1>2, <1>3 DEF RevertedCopy

(* Every step keeps the journal. *)
LEMMA JournalStep ==
    ASSUME Disciplined, MaxSaveFails <= 1, TypeOK, Journal, Backups, [Next]_vars PROVE Journal'
<1>0. UNCHANGED role
  BY DEF Next, vars
<1>1. ASSUME NEW r \in Releases, Stage(r) PROVE Journal'
  BY <1>0, <1>1, ReleaseAssumption DEF Journal, FailedCopy, RevertedCopy,
      PreflightOk, UnitsOf, Quiet, Enabling, Served, Activation, Reverting,
      OpenPhases, NoTx, Stage, MayCommand, Idle, host, cmd, hist
<1>2. ASSUME Start PROVE Journal'
  BY <1>2, <1>0, BeginFields DEF Start, MayCommand, Journal, FailedCopy, RevertedCopy, PreflightOk, UnitsOf, Quiet, Enabling, Served, Activation, Reverting,
        OpenPhases, NoTx
<1>3. ASSUME StartActive PROVE Journal'
  BY <1>0, <1>3, ReleaseAssumption DEF Journal, FailedCopy, RevertedCopy,
      PreflightOk, UnitsOf, Quiet, Enabling, Served, Activation, Reverting,
      OpenPhases, NoTx, StartActive, MayCommand, Idle, host, cmd, hist
<1>4. ASSUME Rollback PROVE Journal'
  BY <1>0, <1>4, ReleaseAssumption DEF Journal, FailedCopy, RevertedCopy,
      PreflightOk, UnitsOf, Quiet, Enabling, Served, Activation, Reverting,
      OpenPhases, NoTx, Rollback, MayCommand, Idle, host, cmd, hist
<1>5. ASSUME Recover PROVE Journal'
  <2>1. \/ UNCHANGED <<pc, caller>>
        \/ st.tx \in OpenPhases /\ pc' = "rollback" /\ caller' = "recover"
    <3>1. CASE RecoveryAction = "RestorePrevious"
      BY <1>5, <3>1, OpenAction DEF Recover
    <3>2. CASE RecoveryAction # "RestorePrevious"
      BY <1>5, <3>2 DEF Recover
    <3> QED BY <3>1, <3>2
  <2> QED BY <1>5, <1>0, <2>1 DEF Recover, Idle, Journal, FailedCopy, RevertedCopy, PreflightOk, UnitsOf, Quiet, Enabling, Served, Activation, Reverting,
        OpenPhases, NoTx
<1>6. ASSUME Clean PROVE Journal'
  BY <1>0, <1>6, ReleaseAssumption DEF Journal, FailedCopy, RevertedCopy,
      PreflightOk, UnitsOf, Quiet, Enabling, Served, Activation, Reverting,
      OpenPhases, NoTx, Clean, MayCommand, Idle, host, cmd, hist
<1>7. ASSUME Promote PROVE Journal'
  <2>1. CASE BeginActivation(st)
    BY <1>7, <1>0, <2>1, BeginFields DEF Promote, Journal, FailedCopy, RevertedCopy, PreflightOk, UnitsOf, Quiet, Enabling, Served, Activation, Reverting,
        OpenPhases, NoTx
  <2>2. CASE ~BeginActivation(st)
    BY <1>7, <1>0, <2>2 DEF Promote, End, Journal, FailedCopy, RevertedCopy, PreflightOk, UnitsOf, Quiet, Enabling, Served, Activation, Reverting,
        OpenPhases, NoTx
  <2> QED BY <2>1, <2>2
<1>8. ASSUME StopServices PROVE Journal'
  BY <1>0, <1>8, ReleaseAssumption DEF Journal, FailedCopy, RevertedCopy,
      PreflightOk, UnitsOf, Quiet, Enabling, Served, Activation, Reverting,
      OpenPhases, NoTx, StopServices, host, cmd, hist
<1>9. ASSUME NEW u \in Units, BackupUnit(u) PROVE Journal'
  BY <1>0, <1>9, ReleaseAssumption DEF Journal, FailedCopy, RevertedCopy,
      PreflightOk, UnitsOf, Quiet, Enabling, Served, Activation, Reverting,
      OpenPhases, NoTx, BackupUnit, host, cmd, hist
<1>10. ASSUME BackedUp PROVE Journal'
  BY <1>0, <1>10, ReleaseAssumption DEF Journal, FailedCopy, RevertedCopy,
      PreflightOk, UnitsOf, Quiet, Enabling, Served, Activation, Reverting,
      OpenPhases, NoTx, BackedUp, host, cmd, hist
<1>11. ASSUME NEW u \in Units, InstallUnit(u) PROVE Journal'
  BY <1>0, <1>11, ReleaseAssumption DEF Journal, FailedCopy, RevertedCopy,
      PreflightOk, UnitsOf, Quiet, Enabling, Served, Activation, Reverting,
      OpenPhases, NoTx, InstallUnit, host, cmd, hist
<1>12. ASSUME BackupConfig PROVE Journal'
  BY <1>0, <1>12, ReleaseAssumption DEF Journal, FailedCopy, RevertedCopy,
      PreflightOk, UnitsOf, Quiet, Enabling, Served, Activation, Reverting,
      OpenPhases, NoTx, BackupConfig, host, cmd, hist
<1>13. ASSUME InstallConfig PROVE Journal'
  BY <1>0, <1>13, ReleaseAssumption DEF Journal, FailedCopy, RevertedCopy,
      PreflightOk, UnitsOf, Quiet, Enabling, Served, Activation, Reverting,
      OpenPhases, NoTx, InstallConfig, host, cmd, hist
<1>14. ASSUME Switch PROVE Journal'
  <2>1. /\ mem'.active = mem.active /\ mem'.pending = mem.pending
        /\ mem'.tx = "switched"
    BY <1>14, PhaseFields DEF Switch, RecordPhase, TypeOK
  <2> QED BY <1>14, <1>0, <2>1 DEF Switch, RecordPhase, Save, SaveFails, host, hist,
        Journal, FailedCopy, RevertedCopy, PreflightOk, UnitsOf, Quiet, Enabling, Served, Activation, Reverting,
        OpenPhases, NoTx
<1>15. ASSUME StartServices PROVE Journal'
  BY <1>0, <1>15, ReleaseAssumption DEF Journal, FailedCopy, RevertedCopy,
      PreflightOk, UnitsOf, Quiet, Enabling, Served, Activation, Reverting,
      OpenPhases, NoTx, StartServices, host, cmd, hist
<1>16. ASSUME Probe PROVE Journal'
  <2>1. /\ mem'.active = mem.active /\ mem'.pending = mem.pending
        /\ mem'.tx = "probing"
    BY <1>16, PhaseFields DEF Probe, RecordPhase, TypeOK
  <2> QED BY <1>16, <1>0, <2>1 DEF Probe, RecordPhase, Save, SaveFails, host, hist,
        Journal, FailedCopy, RevertedCopy, PreflightOk, UnitsOf, Quiet, Enabling, Served, Activation, Reverting,
        OpenPhases, NoTx
<1>17. ASSUME ProbeHealth PROVE Journal'
  BY <1>0, <1>17, ReleaseAssumption DEF Journal, FailedCopy, RevertedCopy,
      PreflightOk, UnitsOf, Quiet, Enabling, Served, Activation, Reverting,
      OpenPhases, NoTx, ProbeHealth, host, cmd, hist
<1>18. ASSUME EnableUnits PROVE Journal'
  BY <1>0, <1>18, ReleaseAssumption DEF Journal, FailedCopy, RevertedCopy,
      PreflightOk, UnitsOf, Quiet, Enabling, Served, Activation, Reverting,
      OpenPhases, NoTx, EnableUnits, EnableByRole, EnabledFor, host, cmd, hist
<1>19. ASSUME Commit PROVE Journal'
  <2>1. mem'.active = mem.pending /\ mem'.pending = None /\ mem'.tx = NoTx
    BY <1>19 DEF Commit, Committed
  <2>2. SaveFails => saveFails' = 1 /\ st' = st
    BY ReleaseAssumption DEF SaveFails, TypeOK
  <2>3. mem.pending # None
    BY <1>19, ReleaseAssumption DEF Commit, Journal, PreflightOk, Activation, Served, TypeOK
  <2> QED BY <1>19, <1>0, <2>1, <2>2, <2>3 DEF Commit, Save, host, hist,
        Journal, FailedCopy, RevertedCopy, PreflightOk, UnitsOf, Quiet, Enabling, Served, Activation, Reverting,
        OpenPhases, NoTx
<1>20. ASSUME LinkCurrent PROVE Journal'
  BY <1>0, <1>20, ReleaseAssumption DEF Journal, FailedCopy, RevertedCopy,
      PreflightOk, UnitsOf, Quiet, Enabling, Served, Activation, Reverting,
      OpenPhases, NoTx, LinkCurrent, End, host, cmd, hist
<1>21. ASSUME RecordFailure PROVE Journal'
  BY <1>0, <1>21, ReleaseAssumption DEF Journal, FailedCopy, RevertedCopy,
      PreflightOk, UnitsOf, Quiet, Enabling, Served, Activation, Reverting,
      OpenPhases, NoTx, RecordFailure, Save, SaveFails, host, cmd, hist
<1>22. ASSUME RollbackBaseline PROVE Journal'
  BY <1>22, <1>0, BaselineFields DEF RollbackBaseline,
        Journal, FailedCopy, RevertedCopy, PreflightOk, UnitsOf, Quiet, Enabling, Served, Activation, Reverting,
        OpenPhases, NoTx
<1>23. ASSUME RollbackStop PROVE Journal'
  BY <1>0, <1>23, ReleaseAssumption DEF Journal, FailedCopy, RevertedCopy,
      PreflightOk, UnitsOf, Quiet, Enabling, Served, Activation, Reverting,
      OpenPhases, NoTx, RollbackStop, host, cmd, hist
<1>24. ASSUME NEW u \in Units, RestoreUnit(u) PROVE Journal'
  BY <1>0, <1>24, ReleaseAssumption DEF Journal, FailedCopy, RevertedCopy,
      PreflightOk, UnitsOf, Quiet, Enabling, Served, Activation, Reverting,
      OpenPhases, NoTx, RestoreUnit, host, cmd, hist
<1>25. ASSUME RestoreConfig PROVE Journal'
  BY <1>0, <1>25, ReleaseAssumption DEF Journal, FailedCopy, RevertedCopy,
      PreflightOk, UnitsOf, Quiet, Enabling, Served, Activation, Reverting,
      OpenPhases, NoTx, RestoreConfig, host, cmd, hist
<1>26. ASSUME RestartActive PROVE Journal'
  BY <1>0, <1>26, ReleaseAssumption DEF Journal, FailedCopy, RevertedCopy,
      PreflightOk, UnitsOf, Quiet, Enabling, Served, Activation, Reverting,
      OpenPhases, NoTx, RestartActive, host, cmd, hist
<1>27. ASSUME CloseRollback PROVE Journal'
  BY <1>27, <1>0, CloseFields DEF CloseRollback,
        Journal, FailedCopy, RevertedCopy, PreflightOk, UnitsOf, Quiet, Enabling, Served, Activation, Reverting,
        OpenPhases, NoTx
<1>28. ASSUME RollbackFailed PROVE Journal'
  BY <1>28, <1>0, FailedFields DEF RollbackFailed, host,
        Journal, FailedCopy, RevertedCopy, PreflightOk, UnitsOf, Quiet, Enabling, Served, Activation, Reverting,
        OpenPhases, NoTx
<1>29. ASSUME BootRecover PROVE Journal'
  BY <1>0, <1>29, ReleaseAssumption DEF Journal, FailedCopy, RevertedCopy,
      PreflightOk, UnitsOf, Quiet, Enabling, Served, Activation, Reverting,
      OpenPhases, NoTx, BootRecover, BootRollbackStops, host, cmd, hist
<1>30. ASSUME BootStart PROVE Journal'
  BY <1>0, <1>30, ReleaseAssumption DEF Journal, FailedCopy, RevertedCopy,
      PreflightOk, UnitsOf, Quiet, Enabling, Served, Activation, Reverting,
      OpenPhases, NoTx, BootStart, End, host, cmd, hist
<1>31. ASSUME Kill PROVE Journal'
  BY <1>0, <1>31, ReleaseAssumption DEF Journal, FailedCopy, RevertedCopy,
      PreflightOk, UnitsOf, Quiet, Enabling, Served, Activation, Reverting,
      OpenPhases, NoTx, Kill, End, host, cmd, hist
<1>32. ASSUME PowerLoss PROVE Journal'
  BY <1>0, <1>32, ReleaseAssumption DEF Journal, FailedCopy, RevertedCopy,
      PreflightOk, UnitsOf, Quiet, Enabling, Served, Activation, Reverting,
      OpenPhases, NoTx, PowerLoss, host, cmd, hist
<1>33. ASSUME UNCHANGED vars PROVE Journal'
  BY <1>0, <1>33, ReleaseAssumption DEF Journal, FailedCopy, RevertedCopy,
      PreflightOk, UnitsOf, Quiet, Enabling, Served, Activation, Reverting,
      OpenPhases, NoTx, vars, host, cmd, hist
<1> QED BY <1>0, <1>1, <1>2, <1>3, <1>4, <1>5, <1>6, <1>7, <1>8, <1>9, <1>10, <1>11,
    <1>12, <1>13, <1>14, <1>15, <1>16, <1>17, <1>18, <1>19, <1>20, <1>21, <1>22,
    <1>23, <1>24, <1>25, <1>26, <1>27, <1>28, <1>29, <1>30, <1>31, <1>32, <1>33 DEF
    Next, Command, ManagerStep, ActivationStep, RollbackStep, BootStep
(* Every step keeps the backups of the active release. *)
LEMMA BackupsStep ==
    ASSUME Disciplined, TypeOK, Journal, Backups, [Next]_vars PROVE Backups'
<1>0. UNCHANGED role
  BY DEF Next, vars
<1>1. ASSUME NEW r \in Releases, Stage(r) PROVE Backups'
  BY <1>0, <1>1, ReleaseAssumption DEF Backups, BackupsAreActive, Backed,
      PreflightOk, UnitsOf, Journal, FailedCopy, Quiet, Enabling, Served,
      Activation, OpenPhases, NoTx, Stage, MayCommand, Idle, host, cmd, hist
<1>2. ASSUME Start PROVE Backups'
  BY <1>2, <1>0, BeginFields DEF Start, MayCommand, Backups, BackupsAreActive, Backed, PreflightOk, UnitsOf, Journal,
        FailedCopy, Quiet, Enabling, Served, Activation, OpenPhases, NoTx
<1>3. ASSUME StartActive PROVE Backups'
  BY <1>0, <1>3, ReleaseAssumption DEF Backups, BackupsAreActive, Backed,
      PreflightOk, UnitsOf, Journal, FailedCopy, Quiet, Enabling, Served,
      Activation, OpenPhases, NoTx, StartActive, MayCommand, Idle, host, cmd, hist
<1>4. ASSUME Rollback PROVE Backups'
  BY <1>0, <1>4, ReleaseAssumption DEF Backups, BackupsAreActive, Backed,
      PreflightOk, UnitsOf, Journal, FailedCopy, Quiet, Enabling, Served,
      Activation, OpenPhases, NoTx, Rollback, MayCommand, Idle, host, cmd, hist
<1>5. ASSUME Recover PROVE Backups'
  <2>1. pc' \in {"idle", "rollback"}
    BY <1>5 DEF Recover, Idle
  <2> QED BY <1>5, <1>0, <2>1 DEF Recover, Backups, BackupsAreActive, Backed, PreflightOk, UnitsOf, Journal,
        FailedCopy, Quiet, Enabling, Served, Activation, OpenPhases, NoTx
<1>6. ASSUME Clean PROVE Backups'
  BY <1>0, <1>6, ReleaseAssumption DEF Backups, BackupsAreActive, Backed,
      PreflightOk, UnitsOf, Journal, FailedCopy, Quiet, Enabling, Served,
      Activation, OpenPhases, NoTx, Clean, MayCommand, Idle, host, cmd, hist
<1>7. ASSUME Promote PROVE Backups'
  <2>1. CASE BeginActivation(st)
    BY <1>7, <1>0, <2>1, BeginFields DEF Promote, Backups, BackupsAreActive, Backed, PreflightOk, UnitsOf, Journal,
        FailedCopy, Quiet, Enabling, Served, Activation, OpenPhases, NoTx
  <2>2. CASE ~BeginActivation(st)
    BY <1>7, <1>0, <2>2 DEF Promote, End, Backups, BackupsAreActive, Backed, PreflightOk, UnitsOf, Journal,
        FailedCopy, Quiet, Enabling, Served, Activation, OpenPhases, NoTx
  <2> QED BY <2>1, <2>2
<1>8. ASSUME StopServices PROVE Backups'
  BY <1>0, <1>8, ReleaseAssumption DEF Backups, BackupsAreActive, Backed,
      PreflightOk, UnitsOf, Journal, FailedCopy, Quiet, Enabling, Served,
      Activation, OpenPhases, NoTx, StopServices, host, cmd, hist, TypeOK, Files,
      Units, MaybeRelease, AppUnits
<1>9. ASSUME NEW u \in Units, BackupUnit(u) PROVE Backups'
  BY <1>0, <1>9, ReleaseAssumption DEF Backups, BackupsAreActive, Backed,
      PreflightOk, UnitsOf, Journal, FailedCopy, Quiet, Enabling, Served,
      Activation, OpenPhases, NoTx, BackupUnit, host, cmd, hist, TypeOK, Files
<1>10. ASSUME BackedUp PROVE Backups'
  BY <1>0, <1>10, ReleaseAssumption DEF Backups, BackupsAreActive, Backed,
      PreflightOk, UnitsOf, Journal, FailedCopy, Quiet, Enabling, Served,
      Activation, OpenPhases, NoTx, BackedUp, host, cmd, hist
<1>11. ASSUME NEW u \in Units, InstallUnit(u) PROVE Backups'
  BY <1>0, <1>11, ReleaseAssumption DEF Backups, BackupsAreActive, Backed,
      PreflightOk, UnitsOf, Journal, FailedCopy, Quiet, Enabling, Served,
      Activation, OpenPhases, NoTx, InstallUnit, host, cmd, hist
<1>12. ASSUME BackupConfig PROVE Backups'
  BY <1>0, <1>12, ReleaseAssumption DEF Backups, BackupsAreActive, Backed,
      PreflightOk, UnitsOf, Journal, FailedCopy, Quiet, Enabling, Served,
      Activation, OpenPhases, NoTx, BackupConfig, host, cmd, hist
<1>13. ASSUME InstallConfig PROVE Backups'
  BY <1>0, <1>13, ReleaseAssumption DEF Backups, BackupsAreActive, Backed,
      PreflightOk, UnitsOf, Journal, FailedCopy, Quiet, Enabling, Served,
      Activation, OpenPhases, NoTx, InstallConfig, host, cmd, hist
<1>14. ASSUME Switch PROVE Backups'
  <2>1. mem'.active = mem.active /\ mem'.tx = "switched"
    BY <1>14, PhaseFields DEF Switch, RecordPhase, TypeOK
  <2> QED BY <1>14, <1>0, <2>1, ZenonT(60) DEF Switch, RecordPhase, Save, SaveFails, host, hist,
        Backups, BackupsAreActive, Backed, PreflightOk, UnitsOf, Journal,
        FailedCopy, Quiet, Enabling, Served, Activation, OpenPhases, NoTx
<1>15. ASSUME StartServices PROVE Backups'
  BY <1>0, <1>15, ReleaseAssumption DEF Backups, BackupsAreActive, Backed,
      PreflightOk, UnitsOf, Journal, FailedCopy, Quiet, Enabling, Served,
      Activation, OpenPhases, NoTx, StartServices, host, cmd, hist
<1>16. ASSUME Probe PROVE Backups'
  <2>1. mem'.active = mem.active /\ mem'.tx = "probing"
    BY <1>16, PhaseFields DEF Probe, RecordPhase, TypeOK
  <2> QED BY <1>16, <1>0, <2>1, ZenonT(60) DEF Probe, RecordPhase, Save, SaveFails, host, hist,
        Backups, BackupsAreActive, Backed, PreflightOk, UnitsOf, Journal,
        FailedCopy, Quiet, Enabling, Served, Activation, OpenPhases, NoTx
<1>17. ASSUME ProbeHealth PROVE Backups'
  BY <1>0, <1>17, ReleaseAssumption DEF Backups, BackupsAreActive, Backed,
      PreflightOk, UnitsOf, Journal, FailedCopy, Quiet, Enabling, Served,
      Activation, OpenPhases, NoTx, ProbeHealth, host, cmd, hist
<1>18. ASSUME EnableUnits PROVE Backups'
  BY <1>0, <1>18, ReleaseAssumption DEF Backups, BackupsAreActive, Backed,
      PreflightOk, UnitsOf, Journal, FailedCopy, Quiet, Enabling, Served,
      Activation, OpenPhases, NoTx, EnableUnits, EnableByRole, EnabledFor, host,
      cmd, hist
<1>19. ASSUME Commit PROVE Backups'
  <2>1. mem'.tx = NoTx
    BY <1>19 DEF Commit, Committed
  <2> QED BY <1>19, <1>0, <2>1 DEF Commit, Save, SaveFails, host, hist,
        Backups, BackupsAreActive, Backed, PreflightOk, UnitsOf, Journal,
        FailedCopy, Quiet, Enabling, Served, Activation, OpenPhases, NoTx
<1>20. ASSUME LinkCurrent PROVE Backups'
  BY <1>0, <1>20, ReleaseAssumption DEF Backups, BackupsAreActive, Backed,
      PreflightOk, UnitsOf, Journal, FailedCopy, Quiet, Enabling, Served,
      Activation, OpenPhases, NoTx, LinkCurrent, End, host, cmd, hist
<1>21. ASSUME RecordFailure PROVE Backups'
  BY <1>0, <1>21, ReleaseAssumption DEF Backups, BackupsAreActive, Backed,
      PreflightOk, UnitsOf, Journal, FailedCopy, Quiet, Enabling, Served,
      Activation, OpenPhases, NoTx, RecordFailure, Save, SaveFails, host, cmd, hist
<1>22. ASSUME RollbackBaseline PROVE Backups'
  BY <1>22, <1>0, BaselineFields DEF RollbackBaseline,
        Backups, BackupsAreActive, Backed, PreflightOk, UnitsOf, Journal,
        FailedCopy, Quiet, Enabling, Served, Activation, OpenPhases, NoTx
<1>23. ASSUME RollbackStop PROVE Backups'
  BY <1>0, <1>23, ReleaseAssumption DEF Backups, BackupsAreActive, Backed,
      PreflightOk, UnitsOf, Journal, FailedCopy, Quiet, Enabling, Served,
      Activation, OpenPhases, NoTx, RollbackStop, host, cmd, hist
<1>24. ASSUME NEW u \in Units, RestoreUnit(u) PROVE Backups'
  BY <1>0, <1>24, ReleaseAssumption DEF Backups, BackupsAreActive, Backed,
      PreflightOk, UnitsOf, Journal, FailedCopy, Quiet, Enabling, Served,
      Activation, OpenPhases, NoTx, RestoreUnit, host, cmd, hist
<1>25. ASSUME RestoreConfig PROVE Backups'
  BY <1>0, <1>25, ReleaseAssumption DEF Backups, BackupsAreActive, Backed,
      PreflightOk, UnitsOf, Journal, FailedCopy, Quiet, Enabling, Served,
      Activation, OpenPhases, NoTx, RestoreConfig, host, cmd, hist
<1>26. ASSUME RestartActive PROVE Backups'
  BY <1>0, <1>26, ReleaseAssumption DEF Backups, BackupsAreActive, Backed,
      PreflightOk, UnitsOf, Journal, FailedCopy, Quiet, Enabling, Served,
      Activation, OpenPhases, NoTx, RestartActive, host, cmd, hist
<1>27. ASSUME CloseRollback PROVE Backups'
  BY <1>27, <1>0, CloseFields DEF CloseRollback,
        Backups, BackupsAreActive, Backed, PreflightOk, UnitsOf, Journal,
        FailedCopy, Quiet, Enabling, Served, Activation, OpenPhases, NoTx
<1>28. ASSUME RollbackFailed PROVE Backups'
  BY <1>28, <1>0, FailedFields DEF RollbackFailed, host,
        Backups, BackupsAreActive, Backed, PreflightOk, UnitsOf, Journal,
        FailedCopy, Quiet, Enabling, Served, Activation, OpenPhases, NoTx
<1>29. ASSUME BootRecover PROVE Backups'
  BY <1>0, <1>29, ReleaseAssumption DEF Backups, BackupsAreActive, Backed,
      PreflightOk, UnitsOf, Journal, FailedCopy, Quiet, Enabling, Served,
      Activation, OpenPhases, NoTx, BootRecover, BootRollbackStops, host, cmd, hist
<1>30. ASSUME BootStart PROVE Backups'
  BY <1>0, <1>30, ReleaseAssumption DEF Backups, BackupsAreActive, Backed,
      PreflightOk, UnitsOf, Journal, FailedCopy, Quiet, Enabling, Served,
      Activation, OpenPhases, NoTx, BootStart, End, host, cmd, hist
<1>31. ASSUME Kill PROVE Backups'
  BY <1>0, <1>31, ReleaseAssumption DEF Backups, BackupsAreActive, Backed,
      PreflightOk, UnitsOf, Journal, FailedCopy, Quiet, Enabling, Served,
      Activation, OpenPhases, NoTx, Kill, End, host, cmd, hist
<1>32. ASSUME PowerLoss PROVE Backups'
  BY <1>0, <1>32, ReleaseAssumption DEF Backups, BackupsAreActive, Backed,
      PreflightOk, UnitsOf, Journal, FailedCopy, Quiet, Enabling, Served,
      Activation, OpenPhases, NoTx, PowerLoss, host, cmd, hist
<1>33. ASSUME UNCHANGED vars PROVE Backups'
  BY <1>0, <1>33, ReleaseAssumption DEF Backups, BackupsAreActive, Backed,
      PreflightOk, UnitsOf, Journal, FailedCopy, Quiet, Enabling, Served,
      Activation, OpenPhases, NoTx, vars, host, cmd, hist
<1> QED BY <1>0, <1>1, <1>2, <1>3, <1>4, <1>5, <1>6, <1>7, <1>8, <1>9, <1>10, <1>11,
    <1>12, <1>13, <1>14, <1>15, <1>16, <1>17, <1>18, <1>19, <1>20, <1>21, <1>22,
    <1>23, <1>24, <1>25, <1>26, <1>27, <1>28, <1>29, <1>30, <1>31, <1>32, <1>33 DEF
    Next, Command, ManagerStep, ActivationStep, RollbackStep, BootStep
(* Every step keeps what the reports promise. *)
LEMMA ReportsStep ==
    ASSUME Disciplined, TypeOK, Journal, Reports, [Next]_vars PROVE Reports'
<1>0. UNCHANGED role
  BY DEF Next, vars
<1>1. ASSUME NEW r \in Releases, Stage(r) PROVE Reports'
  BY <1>0, <1>1, ReleaseAssumption DEF Reports, SuccessIsServing, CommitDecidesBoot,
      RolledBackMeansBefore, Serves, UnitsOf, Journal, FailedCopy, Quiet, Enabling,
      Served, Activation, Reverting, OpenPhases, NoTx, Stage, MayCommand, Idle,
      host, cmd, hist
<1>2. ASSUME Start PROVE Reports'
  <2>0. saveFails \in Nat
    BY ReleaseAssumption DEF TypeOK
  <2> QED BY <1>2, <1>0, <2>0, BeginFields DEF Start, MayCommand, Reports, SuccessIsServing, CommitDecidesBoot, RolledBackMeansBefore, Serves, UnitsOf,
        Journal, FailedCopy, Quiet, Enabling, Served, Activation, Reverting, OpenPhases, NoTx
<1>3. ASSUME StartActive PROVE Reports'
  BY <1>0, <1>3, ReleaseAssumption DEF Reports, SuccessIsServing, CommitDecidesBoot,
      RolledBackMeansBefore, Serves, UnitsOf, Journal, FailedCopy, Quiet, Enabling,
      Served, Activation, Reverting, OpenPhases, NoTx, StartActive, MayCommand,
      Idle, host, cmd, hist
<1>4. ASSUME Rollback PROVE Reports'
  BY <1>0, <1>4, ReleaseAssumption DEF Reports, SuccessIsServing, CommitDecidesBoot,
      RolledBackMeansBefore, Serves, UnitsOf, Journal, FailedCopy, Quiet, Enabling,
      Served, Activation, Reverting, OpenPhases, NoTx, Rollback, MayCommand, Idle,
      host, cmd, hist
<1>5. ASSUME Recover PROVE Reports'
  <2>1. \/ pc' = "idle" /\ report' \in {"recovered", "required"}
        \/ pc' = "rollback" /\ report' = "none"
    <3>1. CASE st.tx \in OpenPhases
      BY <1>5, <3>1, OpenAction DEF Recover
    <3>2. CASE st.tx \notin OpenPhases
      BY <1>5, <3>2, OpenAction, LinksStep DEF Recover, Idle, LinksEffect
    <3> QED BY <3>1, <3>2
  <2> QED BY <1>5, <1>0, <2>1 DEF Recover, Reports, SuccessIsServing, CommitDecidesBoot, RolledBackMeansBefore, Serves, UnitsOf,
        Journal, FailedCopy, Quiet, Enabling, Served, Activation, Reverting, OpenPhases, NoTx
<1>6. ASSUME Clean PROVE Reports'
  BY <1>0, <1>6, ReleaseAssumption DEF Reports, SuccessIsServing, CommitDecidesBoot,
      RolledBackMeansBefore, Serves, UnitsOf, Journal, FailedCopy, Quiet, Enabling,
      Served, Activation, Reverting, OpenPhases, NoTx, Clean, MayCommand, Idle,
      host, cmd, hist
<1>7. ASSUME Promote PROVE Reports'
  <2>0. saveFails \in Nat
    BY ReleaseAssumption DEF TypeOK
  <2>1. CASE BeginActivation(st)
    BY <1>7, <1>0, <2>0, <2>1, BeginFields DEF Promote, Reports, SuccessIsServing, CommitDecidesBoot, RolledBackMeansBefore, Serves, UnitsOf,
        Journal, FailedCopy, Quiet, Enabling, Served, Activation, Reverting, OpenPhases, NoTx
  <2>2. CASE ~BeginActivation(st)
    BY <1>7, <1>0, <2>2 DEF Promote, End, Reports, SuccessIsServing, CommitDecidesBoot, RolledBackMeansBefore, Serves, UnitsOf,
        Journal, FailedCopy, Quiet, Enabling, Served, Activation, Reverting, OpenPhases, NoTx
  <2> QED BY <2>1, <2>2
<1>8. ASSUME StopServices PROVE Reports'
  BY <1>0, <1>8, ReleaseAssumption DEF Reports, SuccessIsServing, CommitDecidesBoot,
      RolledBackMeansBefore, Serves, UnitsOf, Journal, FailedCopy, Quiet, Enabling,
      Served, Activation, Reverting, OpenPhases, NoTx, StopServices, host, cmd, hist
<1>9. ASSUME NEW u \in Units, BackupUnit(u) PROVE Reports'
  BY <1>0, <1>9, ReleaseAssumption DEF Reports, SuccessIsServing, CommitDecidesBoot,
      RolledBackMeansBefore, Serves, UnitsOf, Journal, FailedCopy, Quiet, Enabling,
      Served, Activation, Reverting, OpenPhases, NoTx, BackupUnit, host, cmd, hist
<1>10. ASSUME BackedUp PROVE Reports'
  BY <1>0, <1>10, ReleaseAssumption DEF Reports, SuccessIsServing,
      CommitDecidesBoot, RolledBackMeansBefore, Serves, UnitsOf, Journal,
      FailedCopy, Quiet, Enabling, Served, Activation, Reverting, OpenPhases, NoTx,
      BackedUp, host, cmd, hist
<1>11. ASSUME NEW u \in Units, InstallUnit(u) PROVE Reports'
  BY <1>0, <1>11, ReleaseAssumption DEF Reports, SuccessIsServing,
      CommitDecidesBoot, RolledBackMeansBefore, Serves, UnitsOf, Journal,
      FailedCopy, Quiet, Enabling, Served, Activation, Reverting, OpenPhases, NoTx,
      InstallUnit, host, cmd, hist
<1>12. ASSUME BackupConfig PROVE Reports'
  BY <1>0, <1>12, ReleaseAssumption DEF Reports, SuccessIsServing,
      CommitDecidesBoot, RolledBackMeansBefore, Serves, UnitsOf, Journal,
      FailedCopy, Quiet, Enabling, Served, Activation, Reverting, OpenPhases, NoTx,
      BackupConfig, host, cmd, hist
<1>13. ASSUME InstallConfig PROVE Reports'
  BY <1>0, <1>13, ReleaseAssumption DEF Reports, SuccessIsServing,
      CommitDecidesBoot, RolledBackMeansBefore, Serves, UnitsOf, Journal,
      FailedCopy, Quiet, Enabling, Served, Activation, Reverting, OpenPhases, NoTx,
      InstallConfig, host, cmd, hist
<1>14. ASSUME Switch PROVE Reports'
  <2>0. saveFails \in Nat
    BY ReleaseAssumption DEF TypeOK
  <2>1. mem'.active = mem.active /\ mem'.pending = mem.pending
    BY <1>14, PhaseFields DEF Switch, RecordPhase, TypeOK
  <2>2. /\ pc = "switch"
        /\ \/ st' = mem' /\ pc' = "services" /\ saveFails' = saveFails
           \/ st' = st /\ pc' = "fail" /\ saveFails' = saveFails + 1
    BY <1>14 DEF Switch, RecordPhase, Save, SaveFails
  <2>3. UNCHANGED <<enabled, running, report, before>>
    BY <1>14 DEF Switch, RecordPhase, host, hist
  <2> QED BY <1>0, <2>0, <2>1, <2>2, <2>3 DEF Reports, SuccessIsServing, CommitDecidesBoot, RolledBackMeansBefore, Serves, UnitsOf,
        Journal, FailedCopy, Quiet, Enabling, Served, Activation, Reverting, OpenPhases, NoTx
<1>15. ASSUME StartServices PROVE Reports'
  BY <1>0, <1>15, ReleaseAssumption DEF Reports, SuccessIsServing,
      CommitDecidesBoot, RolledBackMeansBefore, Serves, UnitsOf, Journal,
      FailedCopy, Quiet, Enabling, Served, Activation, Reverting, OpenPhases, NoTx,
      StartServices, host, cmd, hist, StartUnits, PreflightOk, TypeOK, Units,
      AppUnits
<1>16. ASSUME Probe PROVE Reports'
  <2>0. saveFails \in Nat
    BY ReleaseAssumption DEF TypeOK
  <2>1. mem'.active = mem.active /\ mem'.pending = mem.pending
    BY <1>16, PhaseFields DEF Probe, RecordPhase, TypeOK
  <2>2. /\ pc = "probe"
        /\ \/ st' = mem' /\ pc' = "health" /\ saveFails' = saveFails
           \/ st' = st /\ pc' = "fail" /\ saveFails' = saveFails + 1
    BY <1>16 DEF Probe, RecordPhase, Save, SaveFails
  <2>3. UNCHANGED <<enabled, running, report, before>>
    BY <1>16 DEF Probe, RecordPhase, host, hist
  <2> QED BY <1>0, <2>0, <2>1, <2>2, <2>3 DEF Reports, SuccessIsServing, CommitDecidesBoot, RolledBackMeansBefore, Serves, UnitsOf,
        Journal, FailedCopy, Quiet, Enabling, Served, Activation, Reverting, OpenPhases, NoTx
<1>17. ASSUME ProbeHealth PROVE Reports'
  BY <1>0, <1>17, ReleaseAssumption DEF Reports, SuccessIsServing,
      CommitDecidesBoot, RolledBackMeansBefore, Serves, UnitsOf, Journal,
      FailedCopy, Quiet, Enabling, Served, Activation, Reverting, OpenPhases, NoTx,
      ProbeHealth, host, cmd, hist
<1>18. ASSUME EnableUnits PROVE Reports'
  <2> DEFINE R == role[mem.pending]
  <2>1. R \subseteq AppUnits /\ UnitsOf(mem.pending) = R \cup {"recovery"} /\ st = mem
    BY <1>18, RoleTyped DEF EnableUnits, Journal, PreflightOk, UnitsOf, Served, Enabling, Activation, TypeOK
  <2>2. enabled \subseteq Units
    BY DEF TypeOK
  <2>3. UNCHANGED <<st, running, report, before, saveFails>>
    BY <1>18 DEF EnableUnits, hist
  <2>4. ASSUME pc' = "fail", pc \in Enabling PROVE Reports'
    BY <1>0, <2>3, <2>4 DEF EnableUnits, Reports, SuccessIsServing, CommitDecidesBoot, RolledBackMeansBefore, Serves, UnitsOf,
        Journal, FailedCopy, Quiet, Enabling, Served, Activation, Reverting, OpenPhases, NoTx
  <2>5. CASE pc = "enable_api" /\ EnableByRole("api", "enable_recovery")
    BY <1>0, <2>1, <2>2, <2>3, <2>4, <2>5 DEF EnableByRole, EnabledFor, Reports, SuccessIsServing, CommitDecidesBoot, RolledBackMeansBefore, Serves, UnitsOf,
        Journal, FailedCopy, Quiet, Enabling, Served, Activation, Reverting, OpenPhases, NoTx
  <2>6. CASE pc = "enable_recovery" /\ EnableByRole("recovery", "enable_web")
    BY <1>0, <2>1, <2>2, <2>3, <2>4, <2>6 DEF EnableByRole, EnabledFor, Reports, SuccessIsServing, CommitDecidesBoot, RolledBackMeansBefore, Serves, UnitsOf,
        Journal, FailedCopy, Quiet, Enabling, Served, Activation, Reverting, OpenPhases, NoTx
  <2>7. CASE pc = "enable_web" /\ EnableByRole("web", "commit")
    <3>1. pc' = "commit" => enabled' = R \cup {"recovery"}
      BY <2>1, <2>2, <2>7 DEF EnableByRole, EnabledFor, Reports, Units, AppUnits
    <3>2. pc' \in {"commit", "fail"}
      BY <2>7 DEF EnableByRole
    <3> QED BY <1>0, <2>1, <2>3, <2>4, <2>7, <3>1, <3>2 DEF Reports, SuccessIsServing, CommitDecidesBoot, RolledBackMeansBefore, Serves, UnitsOf,
        Journal, FailedCopy, Quiet, Enabling, Served, Activation, Reverting, OpenPhases, NoTx
  <2> QED BY <1>18, <2>5, <2>6, <2>7 DEF EnableUnits
<1>19. ASSUME Commit PROVE Reports'
  <2>0. saveFails \in Nat
    BY ReleaseAssumption DEF TypeOK
  <2>1. mem'.active = mem.pending
    BY <1>19 DEF Commit, Committed
  <2> QED BY <1>19, <1>0, <2>0, <2>1 DEF Commit, Save, SaveFails, host, hist,
        Reports, SuccessIsServing, CommitDecidesBoot, RolledBackMeansBefore, Serves, UnitsOf,
        Journal, FailedCopy, Quiet, Enabling, Served, Activation, Reverting, OpenPhases, NoTx
<1>20. ASSUME LinkCurrent PROVE Reports'
  BY <1>0, <1>20, ReleaseAssumption DEF Reports, SuccessIsServing,
      CommitDecidesBoot, RolledBackMeansBefore, Serves, UnitsOf, Journal,
      FailedCopy, Quiet, Enabling, Served, Activation, Reverting, OpenPhases, NoTx,
      LinkCurrent, End, host, cmd, hist
<1>21. ASSUME RecordFailure PROVE Reports'
  BY <1>0, <1>21, ReleaseAssumption DEF Reports, SuccessIsServing,
      CommitDecidesBoot, RolledBackMeansBefore, Serves, UnitsOf, Journal,
      FailedCopy, Quiet, Enabling, Served, Activation, Reverting, OpenPhases, NoTx,
      RecordFailure, Save, SaveFails, host, cmd, hist, TypeOK
<1>22. ASSUME RollbackBaseline PROVE Reports'
  <2>0. saveFails \in Nat
    BY ReleaseAssumption DEF TypeOK
  <2> QED BY <1>22, <1>0, <2>0, BaselineFields DEF RollbackBaseline,
        Reports, SuccessIsServing, CommitDecidesBoot, RolledBackMeansBefore, Serves, UnitsOf,
        Journal, FailedCopy, Quiet, Enabling, Served, Activation, Reverting, OpenPhases, NoTx
<1>23. ASSUME RollbackStop PROVE Reports'
  BY <1>0, <1>23, ReleaseAssumption DEF Reports, SuccessIsServing,
      CommitDecidesBoot, RolledBackMeansBefore, Serves, UnitsOf, Journal,
      FailedCopy, Quiet, Enabling, Served, Activation, Reverting, OpenPhases, NoTx,
      RollbackStop, host, cmd, hist
<1>24. ASSUME NEW u \in Units, RestoreUnit(u) PROVE Reports'
  BY <1>0, <1>24, ReleaseAssumption DEF Reports, SuccessIsServing,
      CommitDecidesBoot, RolledBackMeansBefore, Serves, UnitsOf, Journal,
      FailedCopy, Quiet, Enabling, Served, Activation, Reverting, OpenPhases, NoTx,
      RestoreUnit, host, cmd, hist
<1>25. ASSUME RestoreConfig PROVE Reports'
  BY <1>0, <1>25, ReleaseAssumption DEF Reports, SuccessIsServing,
      CommitDecidesBoot, RolledBackMeansBefore, Serves, UnitsOf, Journal,
      FailedCopy, Quiet, Enabling, Served, Activation, Reverting, OpenPhases, NoTx,
      RestoreConfig, host, cmd, hist
<1>26. ASSUME RestartActive PROVE Reports'
  BY <1>0, <1>26, ReleaseAssumption DEF Reports, SuccessIsServing,
      CommitDecidesBoot, RolledBackMeansBefore, Serves, UnitsOf, Journal,
      FailedCopy, Quiet, Enabling, Served, Activation, Reverting, OpenPhases, NoTx,
      RestartActive, host, cmd, hist, StartUnits, PreflightOk, TypeOK, Units,
      AppUnits
<1>27. ASSUME CloseRollback PROVE Reports'
  BY <1>27, <1>0, CloseFields DEF CloseRollback,
        Reports, SuccessIsServing, CommitDecidesBoot, RolledBackMeansBefore, Serves, UnitsOf,
        Journal, FailedCopy, Quiet, Enabling, Served, Activation, Reverting, OpenPhases, NoTx
<1>28. ASSUME RollbackFailed PROVE Reports'
  BY <1>28, <1>0, FailedFields DEF RollbackFailed, host,
        Reports, SuccessIsServing, CommitDecidesBoot, RolledBackMeansBefore, Serves, UnitsOf,
        Journal, FailedCopy, Quiet, Enabling, Served, Activation, Reverting, OpenPhases, NoTx
<1>29. ASSUME BootRecover PROVE Reports'
  <2>1. report' \in {"none", "recovered", "required"}
    <3>1. CASE st.tx \in OpenPhases
      BY <1>29, <3>1, OpenAction DEF BootRecover, BootRollbackStops
    <3>2. CASE st.tx \notin OpenPhases
      BY <1>29, <3>2, OpenAction, LinksStep DEF BootRecover, LinksEffect
    <3> QED BY <3>1, <3>2
  <2> QED BY <1>29, <1>0, <2>1 DEF BootRecover, Reports, SuccessIsServing, CommitDecidesBoot, RolledBackMeansBefore, Serves, UnitsOf,
        Journal, FailedCopy, Quiet, Enabling, Served, Activation, Reverting, OpenPhases, NoTx
<1>30. ASSUME BootStart PROVE Reports'
  BY <1>0, <1>30, ReleaseAssumption DEF Reports, SuccessIsServing,
      CommitDecidesBoot, RolledBackMeansBefore, Serves, UnitsOf, Journal,
      FailedCopy, Quiet, Enabling, Served, Activation, Reverting, OpenPhases, NoTx,
      BootStart, End, host, cmd, hist
<1>31. ASSUME Kill PROVE Reports'
  BY <1>0, <1>31, ReleaseAssumption DEF Reports, SuccessIsServing,
      CommitDecidesBoot, RolledBackMeansBefore, Serves, UnitsOf, Journal,
      FailedCopy, Quiet, Enabling, Served, Activation, Reverting, OpenPhases, NoTx,
      Kill, End, host, cmd, hist
<1>32. ASSUME PowerLoss PROVE Reports'
  BY <1>0, <1>32, ReleaseAssumption DEF Reports, SuccessIsServing,
      CommitDecidesBoot, RolledBackMeansBefore, Serves, UnitsOf, Journal,
      FailedCopy, Quiet, Enabling, Served, Activation, Reverting, OpenPhases, NoTx,
      PowerLoss, host, cmd, hist
<1>33. ASSUME UNCHANGED vars PROVE Reports'
  BY <1>0, <1>33, ReleaseAssumption DEF Reports, SuccessIsServing,
      CommitDecidesBoot, RolledBackMeansBefore, Serves, UnitsOf, Journal,
      FailedCopy, Quiet, Enabling, Served, Activation, Reverting, OpenPhases, NoTx,
      vars, host, cmd, hist
<1> QED BY <1>0, <1>1, <1>2, <1>3, <1>4, <1>5, <1>6, <1>7, <1>8, <1>9, <1>10, <1>11,
    <1>12, <1>13, <1>14, <1>15, <1>16, <1>17, <1>18, <1>19, <1>20, <1>21, <1>22,
    <1>23, <1>24, <1>25, <1>26, <1>27, <1>28, <1>29, <1>30, <1>31, <1>32, <1>33 DEF
    Next, Command, ManagerStep, ActivationStep, RollbackStep, BootStep
(* Where all releases have one role, a host whose files pass the          *)
(* preflight of a release has unit files of that release only.            *)
LEMMA WholeIsOne ==
    ASSUME TypeOK, Own(units), OneRole, NEW r, PreflightOk(r)
    PROVE  /\ \A u \in Units : units[u] \in {None, r}
           /\ Mixed(r, r) /\ r \in MaybeRelease
<1>1. r \in Releases /\ "recovery" \in UnitsOf(r)
  BY DEF PreflightOk, TypeOK, UnitsOf
<1>2. ASSUME NEW u \in Units PROVE units[u] \in {None, r}
  <2>1. CASE u \in UnitsOf(r)
    BY <2>1 DEF PreflightOk
  <2>2. CASE u \notin UnitsOf(r)
    <3>1. units[u] # None => units[u] \in Releases /\ role[units[u]] = role[r]
      BY <1>1 DEF TypeOK, Files, MaybeRelease, OneRole
    <3> QED BY <2>2, <3>1 DEF Own, UnitsOf
  <2> QED BY <2>1, <2>2
<1> QED BY <1>1, <1>2 DEF Mixed, PreflightOk, Units, MaybeRelease

(* Starting the units of a release runs files of that release, and leaves *)
(* alone what it has no unit for.                                          *)
LEMMA StartedIsOwn ==
    ASSUME TypeOK, Own(units), Own(running), NEW r, PreflightOk(r), running' = StartUnits(r),
           UNCHANGED role
    PROVE  Own(running)'
  BY DEF StartUnits, Own, UnitsOf, PreflightOk, Units, AppUnits

(* Every step keeps files and processes to the roles of their releases. *)
LEMMA OwnedStep ==
    ASSUME TypeOK, Journal, Reports, Owned, [Next]_vars PROVE Owned'
<1>0. UNCHANGED role
  BY DEF Next, vars
<1>1. ASSUME NEW r \in Releases, Stage(r) PROVE Owned'
  BY <1>0, <1>1, ReleaseAssumption DEF Owned, Own, UnitsOf, Stage, MayCommand, Idle,
      host, cmd, hist
<1>2. ASSUME Start PROVE Owned'
  BY <1>2, <1>0, BeginFields DEF Start, NoFiles, Owned, Own, UnitsOf
<1>3. ASSUME StartActive PROVE Owned'
  <2>1. Own(running)'
    <3>1. CASE running' = running
      BY <1>0, <3>1 DEF Owned, Own, UnitsOf
    <3>2. CASE PreflightOk(st.active) /\ running' = StartUnits(st.active)
      BY <1>0, <3>2, StartedIsOwn DEF Owned
    <3> QED BY <1>3, <3>1, <3>2 DEF StartActive
  <2> QED BY <1>3, <1>0, <2>1 DEF StartActive, MayCommand, Idle, cmd, Owned, Own, UnitsOf
<1>4. ASSUME Rollback PROVE Owned'
  BY <1>0, <1>4, ReleaseAssumption DEF Owned, Own, UnitsOf, Rollback, MayCommand,
      Idle, host, cmd, hist
<1>5. ASSUME Recover PROVE Owned'
  <2>1. pc' # "install"
    BY <1>5 DEF Recover, Idle
  <2>2. Own(running)' /\ ("web" \in enabled' => "recovery" \in enabled')
    <3>1. CASE st.tx \in OpenPhases
      BY <1>5, <1>0, <3>1, OpenAction DEF Recover, Owned, Own, UnitsOf
    <3>2. CASE st.tx \notin OpenPhases
      <4>1. LinksEffect
        BY <1>5, <3>2, OpenAction, LinksStep DEF Recover
      <4> QED BY <1>0, <4>1 DEF LinksEffect, NoFiles, AppUnits, Owned, Own, UnitsOf
    <3> QED BY <3>1, <3>2
  <2> QED BY <1>5, <1>0, <2>1, <2>2 DEF Recover, Owned, Own, UnitsOf
<1>6. ASSUME Clean PROVE Owned'
  BY <1>0, <1>6, ReleaseAssumption DEF Owned, Own, UnitsOf, Clean, MayCommand, Idle,
      host, cmd, hist, NoFiles
<1>7. ASSUME Promote PROVE Owned'
  <2>1. pc = "promote"
    BY <1>7 DEF Promote
  <2>2. CASE BeginActivation(st)
    BY <1>7, <1>0, <2>1, <2>2, BeginFields DEF Promote, NoFiles, Owned, Own, UnitsOf
  <2>3. CASE ~BeginActivation(st)
    BY <1>7, <1>0, <2>1, <2>3 DEF Promote, End, Owned, Own, UnitsOf
  <2> QED BY <2>2, <2>3
<1>8. ASSUME StopServices PROVE Owned'
  BY <1>0, <1>8, ReleaseAssumption DEF Owned, Own, UnitsOf, StopServices, host, cmd,
      hist, NoFiles
<1>9. ASSUME NEW u \in Units, BackupUnit(u) PROVE Owned'
  <2>1. \A v \in Units : backup'.units[v] = IF v = u THEN units[u] ELSE backup.units[v]
    BY <1>9 DEF BackupUnit, TypeOK, Files
  <2> QED BY <1>9, <1>0, <2>1 DEF BackupUnit, Owned, Own, UnitsOf
<1>10. ASSUME BackedUp PROVE Owned'
  <2>1. st = mem
    BY <1>10 DEF BackedUp, Journal, Activation, Quiet
  <2> QED BY <1>10, <1>0, <2>1 DEF BackedUp, host, Owned, Own, UnitsOf
<1>11. ASSUME NEW u \in Units, InstallUnit(u) PROVE Owned'
  <2>1. st = mem /\ u \in UnitsOf(st.pending)
    BY <1>11 DEF InstallUnit, Owned, Journal, Activation, Quiet
  <2>2. \/ \A v \in Units : units'[v] = IF v = u THEN st.pending ELSE units[v]
        \/ units' = units
    BY <1>11, <2>1 DEF InstallUnit, TypeOK, Files
  <2> QED BY <1>11, <1>0, <2>1, <2>2 DEF InstallUnit, Owned, Own, UnitsOf
<1>12. ASSUME BackupConfig PROVE Owned'
  BY <1>0, <1>12, ReleaseAssumption DEF Owned, Own, UnitsOf, BackupConfig, host,
      cmd, hist
<1>13. ASSUME InstallConfig PROVE Owned'
  BY <1>0, <1>13, ReleaseAssumption DEF Owned, Own, UnitsOf, InstallConfig, host,
      cmd, hist
<1>14. ASSUME Switch PROVE Owned'
  BY <1>0, <1>14, ReleaseAssumption DEF Owned, Own, UnitsOf, Switch, RecordPhase,
      Save, SaveFails, host, cmd, hist
<1>15. ASSUME StartServices PROVE Owned'
  <2>1. Own(running)'
    <3>1. CASE running' = running
      BY <1>0, <3>1 DEF Owned, Own, UnitsOf
    <3>2. CASE PreflightOk(mem.pending) /\ running' = StartUnits(mem.pending)
      BY <1>0, <3>2, StartedIsOwn DEF Owned
    <3> QED BY <1>15, <3>1, <3>2 DEF StartServices
  <2> QED BY <1>15, <1>0, <2>1 DEF StartServices, MayCommand, Idle, cmd, Owned, Own, UnitsOf
<1>16. ASSUME Probe PROVE Owned'
  BY <1>0, <1>16, ReleaseAssumption DEF Owned, Own, UnitsOf, Probe, RecordPhase,
      Save, SaveFails, host, cmd, hist
<1>17. ASSUME ProbeHealth PROVE Owned'
  BY <1>0, <1>17, ReleaseAssumption DEF Owned, Own, UnitsOf, ProbeHealth, host, cmd,
      hist
<1>18. ASSUME EnableUnits PROVE Owned'
  <2>1. "web" \in enabled' => "recovery" \in enabled'
    BY <1>18 DEF EnableUnits, EnableByRole, EnabledFor, UnitsOf, Owned, Reports
  <2>2. pc' # "install"
    BY <1>18 DEF EnableUnits, EnableByRole
  <2> QED BY <1>18, <1>0, <2>1, <2>2 DEF EnableUnits, Owned, Own, UnitsOf
<1>19. ASSUME Commit PROVE Owned'
  BY <1>0, <1>19, ReleaseAssumption DEF Owned, Own, UnitsOf, Commit, Save,
      SaveFails, host, cmd, hist
<1>20. ASSUME LinkCurrent PROVE Owned'
  BY <1>0, <1>20, ReleaseAssumption DEF Owned, Own, UnitsOf, LinkCurrent, End, host,
      cmd, hist
<1>21. ASSUME RecordFailure PROVE Owned'
  BY <1>0, <1>21, ReleaseAssumption DEF Owned, Own, UnitsOf, RecordFailure, Save,
      SaveFails, host, cmd, hist
<1>22. ASSUME RollbackBaseline PROVE Owned'
  BY <1>0, <1>22, ReleaseAssumption DEF Owned, Own, UnitsOf, RollbackBaseline, Save,
      SaveFails, End, host, cmd, hist, NoFiles
<1>23. ASSUME RollbackStop PROVE Owned'
  BY <1>0, <1>23, ReleaseAssumption DEF Owned, Own, UnitsOf, RollbackStop, host,
      cmd, hist, NoFiles
<1>24. ASSUME NEW u \in Units, RestoreUnit(u) PROVE Owned'
  <2>1. \/ \A v \in Units : units'[v] = IF v = u THEN backup.units[u] ELSE units[v]
        \/ units' = units
    BY <1>24 DEF RestoreUnit, TypeOK, Files
  <2> QED BY <1>24, <1>0, <2>1 DEF RestoreUnit, Owned, Own, UnitsOf
<1>25. ASSUME RestoreConfig PROVE Owned'
  BY <1>0, <1>25, ReleaseAssumption DEF Owned, Own, UnitsOf, RestoreConfig, host,
      cmd, hist
<1>26. ASSUME RestartActive PROVE Owned'
  <2>1. Own(running)'
    <3>1. CASE running' = running
      BY <1>0, <3>1 DEF Owned, Own, UnitsOf
    <3>2. CASE PreflightOk(st.active) /\ running' = StartUnits(st.active)
      BY <1>0, <3>2, StartedIsOwn DEF Owned
    <3> QED BY <1>26, <3>1, <3>2 DEF RestartActive
  <2> QED BY <1>26, <1>0, <2>1 DEF RestartActive, MayCommand, Idle, cmd, Owned, Own, UnitsOf
<1>27. ASSUME CloseRollback PROVE Owned'
  BY <1>0, <1>27, ReleaseAssumption DEF Owned, Own, UnitsOf, CloseRollback, Save,
      SaveFails, End, host, cmd, hist
<1>28. ASSUME RollbackFailed PROVE Owned'
  BY <1>0, <1>28, ReleaseAssumption DEF Owned, Own, UnitsOf, RollbackFailed, Save,
      SaveFails, End, host, cmd, hist
<1>29. ASSUME BootRecover PROVE Owned'
  <2>1. Own(running)' /\ ("web" \in enabled' => "recovery" \in enabled')
    <3>1. CASE st.tx \in OpenPhases
      BY <1>29, <1>0, <3>1, OpenAction DEF BootRecover, BootRollbackStops, AppUnits, Owned, Own, UnitsOf
    <3>2. CASE st.tx \notin OpenPhases
      <4>1. LinksEffect
        BY <1>29, <3>2, OpenAction, LinksStep DEF BootRecover
      <4> QED BY <1>0, <4>1 DEF LinksEffect, NoFiles, AppUnits, Owned, Own, UnitsOf
    <3> QED BY <3>1, <3>2
  <2> QED BY <1>29, <1>0, <2>1 DEF BootRecover, Owned, Own, UnitsOf
<1>30. ASSUME BootStart PROVE Owned'
  BY <1>0, <1>30, ReleaseAssumption DEF Owned, Own, UnitsOf, BootStart, End, host,
      cmd, hist
<1>31. ASSUME Kill PROVE Owned'
  BY <1>0, <1>31, ReleaseAssumption DEF Owned, Own, UnitsOf, Kill, End, host, cmd,
      hist
<1>32. ASSUME PowerLoss PROVE Owned'
  BY <1>0, <1>32, ReleaseAssumption DEF Owned, Own, UnitsOf, PowerLoss, host, cmd,
      hist, NoFiles
<1>33. ASSUME UNCHANGED vars PROVE Owned'
  BY <1>0, <1>33, ReleaseAssumption DEF Owned, Own, UnitsOf, vars, host, cmd, hist
<1> QED BY <1>0, <1>1, <1>2, <1>3, <1>4, <1>5, <1>6, <1>7, <1>8, <1>9, <1>10, <1>11,
    <1>12, <1>13, <1>14, <1>15, <1>16, <1>17, <1>18, <1>19, <1>20, <1>21, <1>22,
    <1>23, <1>24, <1>25, <1>26, <1>27, <1>28, <1>29, <1>30, <1>31, <1>32, <1>33 DEF
    Next, Command, ManagerStep, ActivationStep, RollbackStep, BootStep
(* A step that keeps the unit files, the backups and the releases in      *)
(* state.json, and enables no application unit, keeps Blended; so does    *)
(* one that closes the transaction over an active release, or fails.      *)
LEMMA BlendedKept ==
    ASSUME Blended, UNCHANGED <<role, units>>, backup'.units = backup.units,
           enabled' \cap AppUnits \subseteq enabled,
           st'.active = st.active, st'.pending = st.pending,
           \/ st'.tx = st.tx
           \/ st.tx \in OpenPhases /\ st'.tx \in OpenPhases
    PROVE  Blended'
  BY DEF Blended, Mixed, OneRole, OpenPhases, NoTx

\* No transaction is open, or it has failed: nothing to say of the files.
LEMMA BlendedClosed ==
    ASSUME \/ st'.tx = NoTx /\ (st'.active # None \/ enabled' = {})
           \/ st'.tx = "failed"
    PROVE  Blended'
  BY DEF Blended, OpenPhases, NoTx

(* Entering a transaction from a closed one. *)
LEMMA BlendedBegin ==
    ASSUME TypeOK, Journal, Owned, Blended, st.tx = NoTx, BeginActivation(st),
           UNCHANGED <<role, units, enabled>>
    PROVE  Blended'
<1>1. OneRole /\ st.active # None => Mixed(st.active, st.active)
  BY WholeIsOne DEF Owned, Journal
<1>2. CASE st' = st /\ pc' = "idle"
  BY <1>2, BeginFields DEF Blended, Mixed, OneRole, OpenPhases, NoTx
<1>3. CASE st'.tx = "quiesced" /\ st'.active = st.active /\ st'.pending = st.pending
  <2>1. \A u \in Units : backup'.units[u] = None
    BY BeginFields DEF NoFiles
  <2>2. OneRole' = OneRole
    BY DEF OneRole
  <2> QED BY <1>1, <1>3, <2>1, <2>2 DEF Blended, Mixed, OpenPhases, NoTx
<1> QED BY <1>2, <1>3, BeginFields

(* Every step keeps the releases on the host apart. *)
LEMMA BlendedStep ==
    ASSUME Disciplined, TypeOK, Journal, Backups, Owned, Blended, [Next]_vars PROVE Blended'
<1>0. UNCHANGED role
  BY DEF Next, vars
<1>1. ASSUME NEW r \in Releases, Stage(r) PROVE Blended'
  <2>1. st.tx = NoTx /\ st'.tx = NoTx /\ st'.active = st.active
    BY <1>1 DEF Stage, MayCommand, TypeOK, States
  <2> QED BY <1>1, <1>0, <2>1 DEF Stage, Blended, Mixed, OneRole, OpenPhases, NoTx
<1>2. ASSUME Start PROVE Blended'
  BY <1>2, <1>0, BlendedBegin DEF Start, MayCommand
<1>3. ASSUME StartActive PROVE Blended'
  BY <1>3, <1>0, BlendedKept DEF StartActive
<1>4. ASSUME Rollback PROVE Blended'
  <2>1. st.tx = NoTx /\ st'.tx = NoTx /\ st'.active = st.active
    BY <1>4 DEF Rollback, MayCommand, TypeOK, States
  <2> QED BY <1>4, <1>0, <2>1 DEF Rollback, host, Blended, Mixed, OneRole, OpenPhases, NoTx
<1>5. ASSUME Recover PROVE Blended'
  <2>1. UNCHANGED <<st, units, backup>>
    BY <1>5 DEF Recover
  <2>2. CASE st.tx \in OpenPhases
    <3>1. enabled' \cap AppUnits \subseteq enabled
      BY <1>5, <2>2, OpenAction DEF Recover
    <3> QED BY <1>0, <2>1, <3>1, BlendedKept
  <2>3. CASE st.tx \notin OpenPhases
    <3>1. LinksEffect
      BY <1>5, <2>3, OpenAction, LinksStep DEF Recover
    <3>2. CASE enabled' = UnitsOf(st.active) /\ st.tx = NoTx /\ st.active # None
      BY <2>1, <3>2, BlendedClosed
    <3>3. CASE enabled' \cap AppUnits \subseteq enabled
      BY <1>0, <2>1, <3>3, BlendedKept
    <3> QED BY <3>1, <3>2, <3>3 DEF LinksEffect
  <2> QED BY <2>2, <2>3
<1>6. ASSUME Clean PROVE Blended'
  <2>1. st.tx = NoTx /\ st'.tx = NoTx /\ st'.active = None
    BY <1>6 DEF Clean, MayCommand, TypeOK, States
  <2>2. OneRole /\ st.active # None => Mixed(st.active, st.active) /\ st.active \in MaybeRelease
    BY <2>1, WholeIsOne DEF Owned, Journal
  <2> QED BY <1>6, <1>0, <2>1, <2>2 DEF Clean, Blended, Mixed, OneRole, OpenPhases, NoTx
<1>7. ASSUME Promote PROVE Blended'
  <2>1. CASE BeginActivation(st)
    BY <1>7, <1>0, <2>1, BlendedBegin DEF Promote, Journal
  <2>2. CASE ~BeginActivation(st)
    BY <1>7, <1>0, <2>2, BlendedKept DEF Promote
  <2> QED BY <2>1, <2>2
<1>8. ASSUME StopServices PROVE Blended'
  BY <1>8, <1>0, BlendedKept DEF StopServices
<1>9. ASSUME NEW u \in Units, BackupUnit(u) PROVE Blended'
  <2>1. st = mem /\ st.tx = "quiesced"
    BY <1>9 DEF BackupUnit, Journal, Activation, Quiet
  <2>2. OneRole /\ st.active # None => units[u] \in {None, st.active}
    BY <1>9, WholeIsOne DEF BackupUnit, Owned, Backups
  <2>3. \A v \in Units : backup'.units[v] = IF v = u THEN units[u] ELSE backup.units[v]
    BY <1>9 DEF BackupUnit, TypeOK, Files
  <2> QED BY <1>9, <1>0, <2>1, <2>2, <2>3 DEF BackupUnit, Blended, Mixed, OneRole, OpenPhases, NoTx
<1>10. ASSUME BackedUp PROVE Blended'
  BY <1>10, <1>0, BlendedKept DEF BackedUp, host
<1>11. ASSUME NEW u \in Units, InstallUnit(u) PROVE Blended'
  <2>1. st = mem /\ st.tx = "quiesced"
    BY <1>11 DEF InstallUnit, Journal, Activation, Quiet
  <2>2. CASE units' = units
    BY <1>11, <1>0, <2>2, BlendedKept DEF InstallUnit
  <2>3. CASE units' = [units EXCEPT ![u] = mem.pending]
    <3>1. \A v \in Units : units'[v] = IF v = u THEN st.pending ELSE units[v]
      BY <2>1, <2>3 DEF TypeOK, Files
    <3>2. ASSUME NEW x, Mixed(x, st.pending) PROVE Mixed(x, st.pending)'
      BY <1>11, <3>1, <3>2 DEF Mixed, Units, InstallUnit
    <3>3. OneRole' = OneRole
      BY <1>0 DEF OneRole
    <3>4. UNCHANGED <<st, enabled, backup>>
      BY <1>11 DEF InstallUnit
    <3> QED BY <2>1, <3>2, <3>3, <3>4 DEF Blended, OpenPhases, NoTx
  <2> QED BY <1>11, <2>2, <2>3 DEF InstallUnit
<1>12. ASSUME BackupConfig PROVE Blended'
  <2>1. backup'.units = backup.units
    BY <1>12 DEF BackupConfig, TypeOK
  <2> QED BY <1>12, <1>0, <2>1, BlendedKept DEF BackupConfig
<1>13. ASSUME InstallConfig PROVE Blended'
  BY <1>13, <1>0, BlendedKept DEF InstallConfig
<1>14. ASSUME Switch PROVE Blended'
  <2>1. /\ mem'.active = mem.active /\ mem'.pending = mem.pending /\ mem'.tx \in OpenPhases
        /\ st = mem /\ st.tx \in OpenPhases
    BY <1>14, PhaseFields DEF Switch, RecordPhase, TypeOK, Journal, Quiet, Served, Activation, OpenPhases
  <2>2. st' = mem' \/ st' = st
    BY <1>14 DEF Switch, RecordPhase, Save, SaveFails
  <2>3. UNCHANGED <<units, backup, enabled>>
    BY <1>14 DEF Switch, RecordPhase, host
  <2> QED BY <1>0, <2>1, <2>2, <2>3, BlendedKept
<1>15. ASSUME StartServices PROVE Blended'
  BY <1>15, <1>0, BlendedKept DEF StartServices
<1>16. ASSUME Probe PROVE Blended'
  <2>1. /\ mem'.active = mem.active /\ mem'.pending = mem.pending /\ mem'.tx \in OpenPhases
        /\ st = mem /\ st.tx \in OpenPhases
    BY <1>16, PhaseFields DEF Probe, RecordPhase, TypeOK, Journal, Quiet, Served, Activation, OpenPhases
  <2>2. st' = mem' \/ st' = st
    BY <1>16 DEF Probe, RecordPhase, Save, SaveFails
  <2>3. UNCHANGED <<units, backup, enabled>>
    BY <1>16 DEF Probe, RecordPhase, host
  <2> QED BY <1>0, <2>1, <2>2, <2>3, BlendedKept
<1>17. ASSUME ProbeHealth PROVE Blended'
  BY <1>17, <1>0, BlendedKept DEF ProbeHealth, host
<1>18. ASSUME EnableUnits PROVE Blended'
  <2>1. st = mem /\ PreflightOk(st.pending) /\ st.tx \in OpenPhases
    BY <1>18 DEF EnableUnits, Journal, Served, Enabling, Activation, OpenPhases
  <2>2. UNCHANGED <<st, units, backup>>
    BY <1>18 DEF EnableUnits
  <2>3. OneRole => Mixed(st.pending, st.pending) /\ st.pending \in MaybeRelease
    BY <2>1, WholeIsOne DEF Owned
  <2> QED BY <1>0, <2>1, <2>2, <2>3 DEF Blended, Mixed, OneRole, OpenPhases, NoTx
<1>19. ASSUME Commit PROVE Blended'
  <2>1. mem'.tx = NoTx /\ mem'.active = mem.pending
    BY <1>19 DEF Commit, Committed
  <2>2. mem.pending # None
    BY <1>19, ReleaseAssumption DEF Commit, Journal, PreflightOk, Activation, Served, TypeOK
  <2>3. CASE st' = mem'
    BY <2>1, <2>2, <2>3, BlendedClosed
  <2>4. CASE st' = st
    BY <1>19, <1>0, <2>4, BlendedKept DEF Commit, host
  <2> QED BY <1>19, <2>3, <2>4 DEF Commit, Save, SaveFails
<1>20. ASSUME LinkCurrent PROVE Blended'
  BY <1>20, <1>0, BlendedKept DEF LinkCurrent
<1>21. ASSUME RecordFailure PROVE Blended'
  <2>1. CASE st' = mem /\ mem.tx = NoTx
    BY <1>21, <2>1, BlendedClosed DEF RecordFailure, Journal, FailedCopy
  <2>2. CASE st' = mem /\ mem.tx # NoTx
    BY <1>21, <1>0, <2>2, BlendedKept DEF RecordFailure, Journal, FailedCopy, host
  <2>3. CASE st' = st
    BY <1>21, <1>0, <2>3, BlendedKept DEF RecordFailure, host
  <2> QED BY <1>21, <2>1, <2>2, <2>3 DEF RecordFailure, Save, SaveFails
<1>22. ASSUME RollbackBaseline PROVE Blended'
  <2>1. CASE st' = st
    BY <1>22, <1>0, <2>1, BlendedKept DEF RollbackBaseline
  <2>2. CASE st'.tx = NoTx
    BY <1>22, <2>2, BlendedClosed DEF RollbackBaseline
  <2> QED BY <1>22, <2>1, <2>2, BaselineFields
<1>23. ASSUME RollbackStop PROVE Blended'
  BY <1>23, <1>0, BlendedKept DEF RollbackStop
<1>24. ASSUME NEW u \in Units, RestoreUnit(u) PROVE Blended'
  <2>1. CASE units' = units
    BY <1>24, <1>0, <2>1, BlendedKept DEF RestoreUnit
  <2>2. CASE units' = [units EXCEPT ![u] = backup.units[u]]
    <3>1. \A v \in Units : units'[v] = IF v = u THEN backup.units[u] ELSE units[v]
      BY <2>2 DEF TypeOK, Files
    <3>2. st.active # None /\ st.tx # NoTx /\ backup.units[u] # None
      BY <1>24 DEF RestoreUnit, Journal
    <3>3. ASSUME Mixed(st.active, st.pending), backup.units[u] = st.active
          PROVE  Mixed(st.active, st.pending)'
      BY <1>24, <3>1, <3>3 DEF Mixed, Units, RestoreUnit
    <3>4. OneRole' = OneRole
      BY <1>0 DEF OneRole
    <3>5. UNCHANGED <<st, enabled, backup>>
      BY <1>24 DEF RestoreUnit
    <3> QED BY <3>2, <3>3, <3>4, <3>5 DEF Blended
  <2> QED BY <1>24, <2>1, <2>2 DEF RestoreUnit
<1>25. ASSUME RestoreConfig PROVE Blended'
  BY <1>25, <1>0, BlendedKept DEF RestoreConfig
<1>26. ASSUME RestartActive PROVE Blended'
  <2>1. enabled' \cap AppUnits \subseteq enabled
    BY <1>26 DEF RestartActive, AppUnits
  <2> QED BY <1>26, <1>0, <2>1, BlendedKept DEF RestartActive
<1>27. ASSUME CloseRollback PROVE Blended'
  <2>1. CASE st' = st
    BY <1>27, <1>0, <2>1, BlendedKept DEF CloseRollback
  <2>2. CASE st'.tx = NoTx \/ st'.tx = "failed"
    BY <1>27, <2>2, CloseFields, BlendedClosed DEF CloseRollback, Journal
  <2> QED BY <1>27, <2>1, <2>2, CloseFields
<1>28. ASSUME RollbackFailed PROVE Blended'
  <2>1. CASE st' = st
    BY <1>28, <1>0, <2>1, BlendedKept DEF RollbackFailed, host
  <2>2. CASE st'.tx = "failed"
    BY <2>2, BlendedClosed
  <2> QED BY <1>28, <2>1, <2>2, FailedFields
<1>29. ASSUME BootRecover PROVE Blended'
  <2>1. UNCHANGED <<st, units, backup>>
    BY <1>29 DEF BootRecover
  <2>2. CASE st.tx \in OpenPhases
    <3>1. enabled' \cap AppUnits \subseteq enabled
      BY <1>29, <2>2, OpenAction DEF BootRecover, BootRollbackStops
    <3> QED BY <1>0, <2>1, <3>1, BlendedKept
  <2>3. CASE st.tx \notin OpenPhases
    <3>1. LinksEffect
      BY <1>29, <2>3, OpenAction, LinksStep DEF BootRecover
    <3>2. CASE enabled' = UnitsOf(st.active) /\ st.tx = NoTx /\ st.active # None
      BY <2>1, <3>2, BlendedClosed
    <3>3. CASE enabled' \cap AppUnits \subseteq enabled
      BY <1>0, <2>1, <3>3, BlendedKept
    <3> QED BY <3>1, <3>2, <3>3 DEF LinksEffect
  <2> QED BY <2>2, <2>3
<1>30. ASSUME BootStart PROVE Blended'
  BY <1>30, <1>0, BlendedKept DEF BootStart
<1>31. ASSUME Kill PROVE Blended'
  BY <1>31, <1>0, BlendedKept DEF Kill, host
<1>32. ASSUME PowerLoss PROVE Blended'
  BY <1>32, <1>0, BlendedKept DEF PowerLoss
<1>33. ASSUME UNCHANGED vars PROVE Blended'
  BY <1>33, <1>0, BlendedKept DEF vars, host
<1> QED BY <1>0, <1>1, <1>2, <1>3, <1>4, <1>5, <1>6, <1>7, <1>8, <1>9, <1>10, <1>11,
    <1>12, <1>13, <1>14, <1>15, <1>16, <1>17, <1>18, <1>19, <1>20, <1>21, <1>22,
    <1>23, <1>24, <1>25, <1>26, <1>27, <1>28, <1>29, <1>30, <1>31, <1>32, <1>33 DEF
    Next, Command, ManagerStep, ActivationStep, RollbackStep, BootStep
(* Two processes never belong to different releases. *)
Single(f) == \A u, v \in AppUnits : f[u] # None /\ f[v] # None => f[u] = f[v]

\* A start leaves one release running.
LEMMA StartedIsOne ==
    ASSUME TypeOK, Own(units), Own(running), OneRole, NEW r, PreflightOk(r)
    PROVE  Single(StartUnits(r))
<1>1. r \in Releases
  BY DEF PreflightOk, TypeOK
<1>2. ASSUME NEW u \in AppUnits PROVE StartUnits(r)[u] \in {None, r}
  <2>1. CASE u \in role[r]
    BY <2>1 DEF StartUnits, PreflightOk, UnitsOf, Units
  <2>2. CASE u \notin role[r]
    <3>1. running[u] # None => running[u] \in Releases /\ role[running[u]] = role[r]
      BY <1>1 DEF TypeOK, Files, MaybeRelease, OneRole, Units
    <3>2. u \in Units /\ u # "recovery"
      BY DEF Units, AppUnits
    <3>3. running[u] = None
      BY <2>2, <3>1, <3>2 DEF Own, UnitsOf
    <3> QED BY <2>2, <3>2, <3>3 DEF StartUnits
  <2> QED BY <2>1, <2>2
<1> QED BY <1>2 DEF Single

(* A step outside the boot that stops everything or leaves it running. *)
LEMMA BootKept ==
    ASSUME Boot, UNCHANGED role, pc' \notin {"boot", "boot_ready", "boot_start"},
           running' \in {running, NoFiles}, st'.tx # "failed" => st.tx # "failed"
    PROVE  Boot'
  BY DEF Boot, OneReleaseRuns, OneRole, NoFiles, Units

\* After a boot the same units run, or those of one release.
LEMMA BootRestarted ==
    ASSUME TypeOK, Owned, Boot, UNCHANGED <<role, st>>,
           pc' \notin {"boot", "boot_ready", "boot_start"},
           NEW r, \/ running' = running
                  \/ PreflightOk(r) /\ running' = StartUnits(r)
    PROVE  Boot'
<1>1. CASE running' = running
  BY <1>1, BootKept
<1>2. CASE PreflightOk(r) /\ running' = StartUnits(r)
  <2>1. OneRole => Single(running')
    BY <1>2, StartedIsOne DEF Owned
  <2>2. OneRole' = OneRole
    BY DEF OneRole
  <2> QED BY <2>1, <2>2 DEF Boot, OneReleaseRuns, Single
<1> QED BY <1>1, <1>2

(* With no transaction open, the enabled units whose release is there are *)
(* of one release.                                                         *)
LEMMA ClosedIsOne ==
    ASSUME TypeOK, Journal, Owned, Blended, OneRole, st.tx = NoTx,
           NEW u \in AppUnits \cap enabled, NEW v \in AppUnits \cap enabled,
           units[u] \in dirs, units[v] \in dirs
    PROVE  units[u] = units[v]
<1>1. PICK x : \A w \in AppUnits : units[w] \in {None, x}
  <2>1. CASE st.active # None
    BY <2>1, WholeIsOne DEF Journal, Owned, Units
  <2>2. CASE st.active = None
    BY <2>2 DEF Blended, Mixed
  <2> QED BY <2>1, <2>2
<1>2. None \notin dirs
  BY ReleaseAssumption DEF TypeOK
<1> QED BY <1>1, <1>2

(* Inside a transaction the same holds of a boot without the recovery      *)
(* unit.                                                                   *)
LEMMA OpenIsOne ==
    ASSUME TypeOK, Journal, Owned, Blended, OneRole, st.tx \in OpenPhases,
           "recovery" \notin enabled \/ units["recovery"] \notin dirs,
           NEW u \in AppUnits \cap enabled, NEW v \in AppUnits \cap enabled,
           units[u] \in dirs, units[v] \in dirs
    PROVE  units[u] = units[v]
<1>1. CASE "recovery" \notin enabled
  BY <1>1 DEF Owned, AppUnits
<1>2. CASE units["recovery"] \notin dirs
  <2>1. PICK x : Mixed(x, st.pending)
    BY DEF Blended
  <2>2. st.pending \in dirs /\ None \notin dirs
    BY ReleaseAssumption DEF Journal, TypeOK
  <2> QED BY <1>2, <2>1, <2>2 DEF Mixed
<1> QED BY <1>1, <1>2

(* Every step keeps two releases from running side by side. *)
LEMMA BootIsKept ==
    ASSUME Disciplined, TypeOK, Journal, Owned, Blended, Boot, [Next]_vars PROVE Boot'
<1>0. UNCHANGED role
  BY DEF Next, vars
<1>1. ASSUME NEW r \in Releases, Stage(r) PROVE Boot'
  BY <1>1, <1>0, BootKept DEF Stage, MayCommand, Idle, NoTx, cmd
<1>2. ASSUME Start PROVE Boot'
  BY <1>2, <1>0, BootKept, BeginFields DEF Start, MayCommand, NoTx
<1>3. ASSUME StartActive PROVE Boot'
  <2>1. UNCHANGED st /\ pc' = "idle"
    BY <1>3 DEF StartActive, MayCommand, Idle, cmd
  <2> QED BY <1>3, <1>0, <2>1, BootRestarted DEF StartActive
<1>4. ASSUME Rollback PROVE Boot'
  BY <1>4, <1>0, BootKept DEF Rollback, MayCommand, Idle, NoTx, host
<1>5. ASSUME Recover PROVE Boot'
  <2>1. pc' \in {"idle", "rollback"} /\ UNCHANGED st
    BY <1>5 DEF Recover, Idle
  <2>2. running' \in {running, NoFiles}
    <3>1. CASE st.tx \in OpenPhases
      BY <1>5, <3>1, OpenAction DEF Recover
    <3>2. CASE st.tx \notin OpenPhases
      BY <1>5, <3>2, OpenAction, LinksStep DEF Recover, LinksEffect
    <3> QED BY <3>1, <3>2
  <2> QED BY <1>0, <2>1, <2>2, BootKept
<1>6. ASSUME Clean PROVE Boot'
  BY <1>6, <1>0, BootKept DEF Clean, MayCommand, Idle, NoTx, cmd
<1>7. ASSUME Promote PROVE Boot'
  <2>1. st.tx # "failed" /\ running' = running /\ pc' \in {"idle", "stop"}
    BY <1>7, BeginFields DEF Promote, Journal, NoTx, End
  <2> QED BY <1>0, <2>1, BootKept
<1>8. ASSUME StopServices PROVE Boot'
  BY <1>8, <1>0, BootKept DEF StopServices
<1>9. ASSUME NEW u \in Units, BackupUnit(u) PROVE Boot'
  BY <1>9, <1>0, BootKept DEF BackupUnit
<1>10. ASSUME BackedUp PROVE Boot'
  BY <1>10, <1>0, BootKept DEF BackedUp, host
<1>11. ASSUME NEW u \in Units, InstallUnit(u) PROVE Boot'
  BY <1>11, <1>0, BootKept DEF InstallUnit
<1>12. ASSUME BackupConfig PROVE Boot'
  BY <1>12, <1>0, BootKept DEF BackupConfig
<1>13. ASSUME InstallConfig PROVE Boot'
  BY <1>13, <1>0, BootKept DEF InstallConfig
<1>14. ASSUME Switch PROVE Boot'
  <2>1. st.tx # "failed" /\ running' = running
    BY <1>14 DEF Switch, RecordPhase, host, Journal, Quiet, Served
  <2>2. pc' \notin {"boot", "boot_ready", "boot_start"}
    BY <1>14 DEF Switch, RecordPhase
  <2> QED BY <1>0, <2>1, <2>2, BootKept
<1>15. ASSUME StartServices PROVE Boot'
  BY <1>15, <1>0, BootRestarted DEF StartServices
<1>16. ASSUME Probe PROVE Boot'
  <2>1. st.tx # "failed" /\ running' = running
    BY <1>16 DEF Probe, RecordPhase, host, Journal, Quiet, Served
  <2>2. pc' \notin {"boot", "boot_ready", "boot_start"}
    BY <1>16 DEF Probe, RecordPhase
  <2> QED BY <1>0, <2>1, <2>2, BootKept
<1>17. ASSUME ProbeHealth PROVE Boot'
  BY <1>17, <1>0, BootKept DEF ProbeHealth, host
<1>18. ASSUME EnableUnits PROVE Boot'
  BY <1>18, <1>0, BootKept DEF EnableUnits, EnableByRole
<1>19. ASSUME Commit PROVE Boot'
  <2>1. st.tx # "failed" /\ running' = running
    BY <1>19 DEF Commit, host, Journal, Served
  <2>2. pc' \notin {"boot", "boot_ready", "boot_start"}
    BY <1>19 DEF Commit
  <2> QED BY <1>0, <2>1, <2>2, BootKept
<1>20. ASSUME LinkCurrent PROVE Boot'
  BY <1>20, <1>0, BootKept DEF LinkCurrent, End
<1>21. ASSUME RecordFailure PROVE Boot'
  BY <1>21, <1>0, BootKept DEF RecordFailure, host, Journal, OpenPhases
<1>22. ASSUME RollbackBaseline PROVE Boot'
  <2>1. st.tx # "failed" /\ running' = NoFiles
    BY <1>22 DEF RollbackBaseline, Journal, Reverting
  <2> QED BY <1>22, <1>0, <2>1, BootKept, BaselineFields
<1>23. ASSUME RollbackStop PROVE Boot'
  BY <1>23, <1>0, BootKept DEF RollbackStop
<1>24. ASSUME NEW u \in Units, RestoreUnit(u) PROVE Boot'
  BY <1>24, <1>0, BootKept DEF RestoreUnit
<1>25. ASSUME RestoreConfig PROVE Boot'
  BY <1>25, <1>0, BootKept DEF RestoreConfig
<1>26. ASSUME RestartActive PROVE Boot'
  BY <1>26, <1>0, BootRestarted DEF RestartActive
<1>27. ASSUME CloseRollback PROVE Boot'
  <2>1. st.tx # "failed" /\ running' = running
    BY <1>27 DEF CloseRollback, Journal, Reverting
  <2> QED BY <1>27, <1>0, <2>1, BootKept, CloseFields
<1>28. ASSUME RollbackFailed PROVE Boot'
  BY <1>28, <1>0, BootKept, FailedFields DEF RollbackFailed, host
<1>29. ASSUME BootRecover PROVE Boot'
  <2>1. pc' = "boot_ready" /\ UNCHANGED <<st, units, dirs>> /\ queue \subseteq enabled
    BY <1>29 DEF BootRecover, Boot
  <2>2. OneRole' = OneRole
    BY <1>0 DEF OneRole
  <2>3. CASE st.tx \in OpenPhases
    <3>1. queue' = {} /\ running' = running
      BY <1>29, <2>3, OpenAction DEF BootRecover, BootRollbackStops
    <3> QED BY <2>1, <2>2, <3>1 DEF Boot, OneReleaseRuns
  <2>4. CASE st.tx \notin OpenPhases
    <3>1. queue' = queue /\ running' \in {running, NoFiles}
      BY <1>29, <2>4, OpenAction, LinksStep DEF BootRecover, LinksEffect
    <3>2. ASSUME OneRole, st.tx # "failed", NEW u \in queue, NEW v \in queue,
                 units[u] \in dirs, units[v] \in dirs
          PROVE  units[u] = units[v]
      <4>1. st.tx = NoTx
        BY <2>4, <3>2, StateFields DEF TypeOK, Phases
      <4>2. u \in AppUnits \cap enabled /\ v \in AppUnits \cap enabled
        BY <2>1, <3>2 DEF TypeOK
      <4> QED BY <3>2, <4>1, <4>2, ClosedIsOne
    <3> QED BY <2>1, <2>2, <3>1, <3>2 DEF Boot, OneReleaseRuns, NoFiles, Units
  <2> QED BY <2>3, <2>4
<1>30. ASSUME BootStart PROVE Boot'
  <2>1. OneRole' = OneRole /\ st' = st /\ pc' = "idle"
    BY <1>30, <1>0 DEF OneRole, BootStart, End
  <2>2. ASSUME OneRole, st.tx # "failed" PROVE Single(running')
    <3>1. \A u, v \in queue : units[u] \in dirs /\ units[v] \in dirs => units[u] = units[v]
      BY <1>30, <2>2 DEF BootStart, Boot
    <3>2. \A u \in AppUnits : running'[u] # None => u \in queue /\ units[u] \in dirs /\ running'[u] = units[u]
      BY <1>30 DEF BootStart, Units
    <3> QED BY <3>1, <3>2 DEF Single
  <2> QED BY <2>1, <2>2 DEF Boot, OneReleaseRuns, Single
<1>31. ASSUME Kill PROVE Boot'
  BY <1>31, <1>0, BootKept DEF Kill, End, host
<1>32. ASSUME PowerLoss PROVE Boot'
  <2>1. /\ queue' = enabled \cap AppUnits /\ running' = NoFiles
        /\ UNCHANGED <<st, units, enabled, dirs>>
    BY <1>32 DEF PowerLoss
  <2>2. \/ pc' = "boot"
        \/ /\ pc' = "boot_start"
           /\ "recovery" \notin enabled \/ units["recovery"] \notin dirs
    BY <1>32 DEF PowerLoss
  <2>3. st.tx = NoTx \/ st.tx \in OpenPhases \/ st.tx = "failed"
    BY StateFields DEF TypeOK, Phases
  <2>4. ASSUME OneRole, st.tx # "failed", pc' = "boot_start",
               NEW u \in queue', NEW v \in queue', units[u] \in dirs, units[v] \in dirs
        PROVE  units[u] = units[v]
    <3>1. pc' # "boot"
      BY <2>4
    <3> QED BY <2>1, <2>2, <2>3, <2>4, <3>1, ClosedIsOne, OpenIsOne
  <2>5. OneRole' = OneRole
    BY <1>0 DEF OneRole
  <2> QED BY <2>1, <2>2, <2>4, <2>5 DEF Boot, OneReleaseRuns, NoFiles, Units
<1>33. ASSUME UNCHANGED vars PROVE Boot'
  BY <1>33, <1>0 DEF vars, host, cmd, Boot, OneReleaseRuns, OneRole
<1> QED BY <1>0, <1>1, <1>2, <1>3, <1>4, <1>5, <1>6, <1>7, <1>8, <1>9, <1>10, <1>11,
    <1>12, <1>13, <1>14, <1>15, <1>16, <1>17, <1>18, <1>19, <1>20, <1>21, <1>22,
    <1>23, <1>24, <1>25, <1>26, <1>27, <1>28, <1>29, <1>30, <1>31, <1>32, <1>33 DEF
    Next, Command, ManagerStep, ActivationStep, RollbackStep, BootStep
-----------------------------------------------------------------------------
\* The invariant holds initially.
LEMMA InvInit == ASSUME Init PROVE Inv
<1>1. TypeOK
  BY TypeInit
<1>2. Journal /\ Backups
  BY DEF Init, EmptyState, Journal, Backups, BackupsAreActive, Quiet, Enabling, Served,
        Activation, Reverting, OpenPhases, NoTx
<1>3. Reports
  BY DEF Init, EmptyState, Reports, SuccessIsServing, CommitDecidesBoot, RolledBackMeansBefore,
        Quiet, Enabling, Served, Activation, Reverting
<1>4. Owned /\ Blended
  BY DEF Init, EmptyState, Owned, Own, NoFiles, Blended, OpenPhases, NoTx
<1>5. Boot
  BY DEF Init, Boot, OneReleaseRuns, NoFiles, Units
<1> QED BY <1>1, <1>2, <1>3, <1>4, <1>5 DEF Inv

\* Every step keeps it.
LEMMA InvStep ==
    ASSUME Disciplined, MaxSaveFails <= 1, Inv, [Next]_vars PROVE Inv'
<1>1. TypeOK' /\ Journal' /\ Backups'
  BY TypeStep, JournalStep, BackupsStep DEF Inv
<1>2. Reports' /\ Owned' /\ Blended'
  BY ReportsStep, OwnedStep, BlendedStep DEF Inv
<1>3. Boot'
  BY BootIsKept DEF Inv
<1> QED BY <1>1, <1>2, <1>3 DEF Inv

\* It holds always.
LEMMA InvAlways ==
    ASSUME Disciplined, MaxSaveFails <= 1 PROVE Spec => []Inv
<1>1. Init => Inv
  BY InvInit
<1>2. Inv /\ [Next]_vars => Inv'
  BY InvStep
<1> QED BY <1>1, <1>2, PTL DEF Spec

(* Whatever step an activation, a rollback or a recovery is interrupted    *)
(* at, the journal never closes over a half-switched host: outside a       *)
(* transaction the installed files are those of the active release.        *)
THEOREM InstalledIsCommitted ==
    ASSUME Disciplined, MaxSaveFails <= 1 PROVE Spec => []CommittedIsInstalled
<1>1. Spec => []Inv
  BY InvAlways
<1>2. Inv => CommittedIsInstalled
  BY DEF Inv, Journal, CommittedIsInstalled
<1> QED BY <1>1, <1>2, PTL

(* The backups are those of the release a rollback returns to, success and *)
(* rollback are reported truthfully, a commit decides the next boot, and   *)
(* two releases of one role never run side by side.                        *)
THEOREM HostIsSound ==
    ASSUME Disciplined, MaxSaveFails <= 1 PROVE Spec => []HostSound
<1>1. Spec => []Inv
  BY InvAlways
<1>2. Inv => HostSound
  BY DEF Inv, Backups, Reports, Boot, HostSound
<1> QED BY <1>1, <1>2, PTL

(* Outside a commit no step changes the active release, but for stop       *)
(* --clean, which forgets it, and the failure path of a commit that could *)
(* not be written.                                                          *)
ActiveChange ==
    saveFails' = 0 /\ st'.active # st.active /\ st'.active # None =>
        /\ \A u \in role[st'.active] : running[u] = st'.active
        /\ st'.previous = st.active

\* The active release changes as ActiveChange says.
LEMMA ActiveStep ==
    ASSUME TypeOK, Journal, Reports, [Next]_vars PROVE ActiveChange
<1>0. UNCHANGED role
  BY DEF Next, vars
<1>1. ASSUME NEW r \in Releases, Stage(r) PROVE ActiveChange
  BY <1>1 DEF ActiveChange, Stage, TypeOK, States
<1>2. ASSUME Start PROVE ActiveChange
  BY <1>2, BeginFields DEF ActiveChange, Start
<1>3. ASSUME StartActive PROVE ActiveChange
  BY <1>3 DEF ActiveChange, StartActive
<1>4. ASSUME Rollback PROVE ActiveChange
  BY <1>4 DEF ActiveChange, Rollback, TypeOK, States
<1>5. ASSUME Recover PROVE ActiveChange
  BY <1>5 DEF ActiveChange, Recover
<1>6. ASSUME Clean PROVE ActiveChange
  BY <1>6 DEF ActiveChange, Clean, TypeOK, States
<1>7. ASSUME Promote PROVE ActiveChange
  BY <1>7, BeginFields DEF ActiveChange, Promote
<1>8. ASSUME StopServices PROVE ActiveChange
  BY <1>8 DEF ActiveChange, StopServices
<1>9. ASSUME NEW u \in Units, BackupUnit(u) PROVE ActiveChange
  BY <1>9 DEF ActiveChange, BackupUnit
<1>10. ASSUME BackedUp PROVE ActiveChange
  BY <1>10 DEF ActiveChange, BackedUp
<1>11. ASSUME NEW u \in Units, InstallUnit(u) PROVE ActiveChange
  BY <1>11 DEF ActiveChange, InstallUnit
<1>12. ASSUME BackupConfig PROVE ActiveChange
  BY <1>12 DEF ActiveChange, BackupConfig
<1>13. ASSUME InstallConfig PROVE ActiveChange
  BY <1>13 DEF ActiveChange, InstallConfig
<1>14. ASSUME Switch PROVE ActiveChange
  <2>1. mem'.active = mem.active /\ st = mem
    BY <1>14, PhaseFields DEF Switch, RecordPhase, TypeOK, Journal, Quiet, Served, Activation
  <2> QED BY <1>14, <2>1 DEF ActiveChange, Switch, RecordPhase, Save, SaveFails
<1>15. ASSUME StartServices PROVE ActiveChange
  BY <1>15 DEF ActiveChange, StartServices
<1>16. ASSUME Probe PROVE ActiveChange
  <2>1. mem'.active = mem.active /\ st = mem
    BY <1>16, PhaseFields DEF Probe, RecordPhase, TypeOK, Journal, Quiet, Served, Activation
  <2> QED BY <1>16, <2>1 DEF ActiveChange, Probe, RecordPhase, Save, SaveFails
<1>17. ASSUME ProbeHealth PROVE ActiveChange
  BY <1>17 DEF ActiveChange, ProbeHealth
<1>18. ASSUME EnableUnits PROVE ActiveChange
  BY <1>18 DEF ActiveChange, EnableUnits
<1>19. ASSUME Commit PROVE ActiveChange
  <2>1. /\ mem'.active = mem.pending /\ mem'.previous = mem.active
        /\ st = mem /\ Serves(mem.pending)
    BY <1>19 DEF Commit, Committed, Journal, Reports, Served, Activation
  <2> QED BY <1>19, <2>1 DEF ActiveChange, Commit, Save, SaveFails, Serves
<1>20. ASSUME LinkCurrent PROVE ActiveChange
  BY <1>20 DEF ActiveChange, LinkCurrent
<1>21. ASSUME RecordFailure PROVE ActiveChange
  BY <1>21 DEF ActiveChange, RecordFailure, Save, SaveFails, Journal, FailedCopy
<1>22. ASSUME RollbackBaseline PROVE ActiveChange
  BY <1>22, BaselineFields DEF ActiveChange
<1>23. ASSUME RollbackStop PROVE ActiveChange
  BY <1>23 DEF ActiveChange, RollbackStop
<1>24. ASSUME NEW u \in Units, RestoreUnit(u) PROVE ActiveChange
  BY <1>24 DEF ActiveChange, RestoreUnit
<1>25. ASSUME RestoreConfig PROVE ActiveChange
  BY <1>25 DEF ActiveChange, RestoreConfig
<1>26. ASSUME RestartActive PROVE ActiveChange
  BY <1>26 DEF ActiveChange, RestartActive
<1>27. ASSUME CloseRollback PROVE ActiveChange
  BY <1>27, CloseFields DEF ActiveChange
<1>28. ASSUME RollbackFailed PROVE ActiveChange
  BY <1>28, FailedFields DEF ActiveChange
<1>29. ASSUME BootRecover PROVE ActiveChange
  BY <1>29 DEF ActiveChange, BootRecover
<1>30. ASSUME BootStart PROVE ActiveChange
  BY <1>30 DEF ActiveChange, BootStart
<1>31. ASSUME Kill PROVE ActiveChange
  BY <1>31 DEF ActiveChange, Kill
<1>32. ASSUME PowerLoss PROVE ActiveChange
  BY <1>32 DEF ActiveChange, PowerLoss
<1>33. ASSUME UNCHANGED vars PROVE ActiveChange
  BY <1>33 DEF ActiveChange, vars
<1> QED BY <1>0, <1>1, <1>2, <1>3, <1>4, <1>5, <1>6, <1>7, <1>8, <1>9, <1>10, <1>11,
    <1>12, <1>13, <1>14, <1>15, <1>16, <1>17, <1>18, <1>19, <1>20, <1>21, <1>22,
    <1>23, <1>24, <1>25, <1>26, <1>27, <1>28, <1>29, <1>30, <1>31, <1>32, <1>33 DEF
    Next, Command, ManagerStep, ActivationStep, RollbackStep, BootStep

(* Where every write of state.json succeeds, a release becomes the active *)
(* one only while all its services run, and the release it replaces is     *)
(* kept as the one to go back to.                                          *)
THEOREM CommitServes ==
    ASSUME Disciplined, MaxSaveFails <= 1 PROVE Spec => CommitIsServed
<1>1. Spec => []Inv
  BY InvAlways
<1>2. Inv /\ [Next]_vars => [ActiveChange]_vars
  BY ActiveStep DEF Inv
<1>3. [ActiveChange]_vars => [saveFails' = 0 /\ st'.active # st.active /\ st'.active # None =>
         /\ \A u \in role[st'.active] : running[u] = st'.active
         /\ st'.previous = st.active]_vars
  BY DEF ActiveChange
<1> QED BY <1>1, <1>2, <1>3, PTL DEF Spec, CommitIsServed
=============================================================================
