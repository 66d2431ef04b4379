--------------------------- MODULE ReleaseManager ---------------------------
(***************************************************************************)
(* The Linux release manager: the commands install (and role set), start, *)
(* rollback, recover and stop --clean of dam-hopper-manager, which switch *)
(* the host from one release to another through several durable steps.    *)
(*                                                                         *)
(* Every command holds the deployment lock, so one runs at a time; the    *)
(* process may be killed and the machine may lose power between any two   *)
(* durable steps.  state.json, unit files, configuration, backups,        *)
(* enablement links and the `current' link survive both.                  *)
(*                                                                         *)
(* A file's content is the release it was rendered from.  The unit "api"  *)
(* stands for the API service with its helper, which the manager always   *)
(* handles next to it.  Format-2 migration, retention and the             *)
(* service-user override are left out.                                     *)
(***************************************************************************)
EXTENDS Naturals, FiniteSets

CONSTANTS
    Releases,      \* releases that can be installed
    None,          \* no release, no file
    Roles,         \* the target roles the releases may be installed for
    MaxSaveFails,  \* bound: failed writes of state.json
    Disciplined    \* the operator runs recover before anything else
                   \* whenever a transaction is open

AppUnits == {"api", "web"}
Units == AppUnits \cup {"recovery"}

ASSUME ReleaseAssumption ==
    /\ Roles \subseteq [Releases -> SUBSET AppUnits \ {{}}]
    /\ None \notin Releases
    /\ MaxSaveFails \in Nat /\ Disciplined \in BOOLEAN

VARIABLES
    role,      \* role[r]: the application units of r's target role
    st,        \* state.json: active, previous, pending, transaction phase
    units,     \* installed unit files
    config,    \* installed host configuration
    backup,    \* backups/<tx_id>: unit files and configuration
    enabled,   \* enabled units
    running,   \* the release each unit runs
    current,   \* the `current' link
    dirs,      \* releases unpacked under releases/
    pc,        \* the running command's next step
    mem,       \* the activation's copy of state.json
    todo,      \* files the step in progress still has to copy
    caller,    \* the command that runs the rollback steps
    report,    \* how the last command ended
    before,    \* the active release when it started
    queue,     \* start jobs systemd queued at boot
    saveFails  \* writes of state.json that failed

host == <<units, config, backup, enabled, running, current, dirs>>
cmd == <<pc, mem, todo, caller>>
hist == <<report, before>>
vars == <<role, st, host, cmd, hist, queue, saveFails>>

NoTx == "none"
OpenPhases == {"quiesced", "switched", "probing"}
Phases == OpenPhases \cup {NoTx, "failed"}
MaybeRelease == Releases \cup {None}
States == [active : MaybeRelease, previous : MaybeRelease,
           pending : MaybeRelease, tx : Phases]
Files == [Units -> MaybeRelease]
NoFiles == [u \in Units |-> None]
EmptyState == [active |-> None, previous |-> None, pending |-> None, tx |-> NoTx]

(* The units a release of its role installs. *)
UnitsOf(r) == role[r] \cup {"recovery"}

Init ==
    /\ role \in Roles
    /\ st = EmptyState
    /\ units = NoFiles /\ config = None
    /\ backup = [units |-> NoFiles, config |-> None]
    /\ enabled = {} /\ running = NoFiles /\ current = None /\ dirs = {}
    /\ pc = "idle" /\ mem = EmptyState /\ todo = {} /\ caller = "none"
    /\ report = "none" /\ before = None /\ queue = {} /\ saveFails = 0

(* The installed files are exactly those the release's digests name. *)
PreflightOk(r) ==
    /\ r \in dirs
    /\ config = r
    /\ \A u \in UnitsOf(r) : units[u] = r

StartUnits(r) == [u \in Units |-> IF u \in role[r] THEN units[u] ELSE running[u]]

(* Enablement by role: the recovery unit always, application units by role. *)
EnabledFor(r) == UnitsOf(r)

Idle == pc = "idle"
MayCommand == Idle /\ (Disciplined => st.tx = NoTx)

End(how) == pc' = "idle" /\ todo' = {} /\ report' = how

Save(s) == st' = s /\ UNCHANGED saveFails
SaveFails ==
    /\ saveFails < MaxSaveFails
    /\ saveFails' = saveFails + 1
    /\ UNCHANGED st

(***************************************************************************)
(* install / role set                                                      *)
(***************************************************************************)

(* Staging unpacks the bundle, renders its units and configuration apart  *)
(* from the installed ones and records the pending candidate.  Whatever   *)
(* transaction state.json held is dropped.                                 *)
Stage(r) ==
    /\ MayCommand
    /\ st' = [st EXCEPT !.pending = r, !.tx = NoTx]
    /\ dirs' = dirs \cup {r}
    /\ report' = "staged" /\ before' = st.active
    /\ UNCHANGED <<units, config, backup, enabled, running, current, cmd,
                   queue, saveFails>>

(***************************************************************************)
(* start: activation of the pending candidate                              *)
(***************************************************************************)

(* validate_transition: a transaction may enter Quiesced from no          *)
(* transaction and from Quiesced itself.                                   *)
CanQuiesce(s) == s.tx \in {NoTx, "quiesced"}

(* An existing transaction keeps its identity and its backup directory; a *)
(* new one gets an empty directory.                                        *)
BeginActivation(s) ==
    /\ s.pending \in dirs
    /\ CanQuiesce(s)
    /\ backup' = IF s.tx = NoTx THEN [units |-> NoFiles, config |-> None]
                 ELSE backup
    /\ \/ /\ Save([s EXCEPT !.tx = "quiesced"])
          /\ mem' = [s EXCEPT !.tx = "quiesced"]
          /\ pc' = "stop" /\ report' = "none"
       \/ /\ SaveFails
          /\ pc' = "idle" /\ report' = "failed"
          /\ UNCHANGED mem
    /\ before' = st.active /\ caller' = "start" /\ todo' = {}

Start ==
    /\ MayCommand
    /\ st.pending # None
    /\ BeginActivation(st)
    /\ UNCHANGED <<units, config, enabled, running, current, dirs, queue>>

(* With nothing pending, start only starts the active release.  *)
StartActive ==
    /\ MayCommand
    /\ st.pending = None /\ st.active # None
    /\ PreflightOk(st.active)
    /\ \/ running' = StartUnits(st.active) /\ report' = "started"
       \/ UNCHANGED running /\ report' = "failed"
    /\ before' = st.active
    /\ UNCHANGED <<st, units, config, backup, enabled, current, dirs, cmd,
                   queue, saveFails>>

(* Manual rollback: the previous release becomes the pending candidate,   *)
(* which is activated like any other.  The first save is a durable step   *)
(* of its own.                                                             *)
Rollback ==
    /\ MayCommand
    /\ st.previous \in dirs
    /\ st' = [st EXCEPT !.pending = st.previous]
    /\ pc' = "promote" /\ report' = "none" /\ before' = st.active
    /\ UNCHANGED <<host, mem, todo, caller, queue, saveFails>>

Promote ==
    /\ pc = "promote"
    /\ IF CanQuiesce(st) /\ st.pending \in dirs
       THEN BeginActivation(st)
       ELSE /\ End("failed")
            /\ UNCHANGED <<st, backup, mem, caller, before, saveFails>>
    /\ UNCHANGED <<units, config, enabled, running, current, dirs, queue>>

StopServices ==
    /\ pc = "stop"
    /\ \/ running' = NoFiles /\ pc' = "backup" /\ todo' = {u \in Units : units[u] # None}
       \/ pc' = "fail" /\ UNCHANGED <<running, todo>>
    /\ UNCHANGED <<st, units, config, backup, enabled, current, dirs, mem,
                   caller, hist, queue, saveFails>>

(* backup_unit_files overwrites whatever the backup directory holds. *)
BackupUnit(u) ==
    /\ pc = "backup" /\ u \in todo
    /\ backup' = [backup EXCEPT !.units[u] = units[u]]
    /\ todo' = todo \ {u}
    /\ UNCHANGED <<st, units, config, enabled, running, current, dirs, pc, mem,
                   caller, hist, queue, saveFails>>

BackedUp ==
    /\ pc = "backup" /\ todo = {}
    /\ pc' = "install" /\ todo' = UnitsOf(mem.pending)
    /\ UNCHANGED <<st, host, mem, caller, hist, queue, saveFails>>

InstallUnit(u) ==
    /\ pc = "install" /\ u \in todo
    /\ \/ /\ units' = [units EXCEPT ![u] = mem.pending]
          /\ todo' = todo \ {u} /\ UNCHANGED pc
       \/ pc' = "fail" /\ UNCHANGED <<units, todo>>
    /\ UNCHANGED <<st, config, backup, enabled, running, current, dirs, mem,
                   caller, hist, queue, saveFails>>

BackupConfig ==
    /\ pc = "install" /\ todo = {}
    /\ backup' = IF config = None THEN backup ELSE [backup EXCEPT !.config = config]
    /\ pc' = "config"
    /\ UNCHANGED <<st, units, config, enabled, running, current, dirs, mem,
                   todo, caller, hist, queue, saveFails>>

InstallConfig ==
    /\ pc = "config"
    /\ config' = mem.pending /\ pc' = "switch"
    /\ UNCHANGED <<st, units, backup, enabled, running, current, dirs, mem,
                   todo, caller, hist, queue, saveFails>>

(* record_phase: the in-memory phase changes first, so that a failed      *)
(* write leaves it ahead of state.json.                                    *)
RecordPhase(from, phase, next) ==
    /\ pc = from
    /\ mem' = [mem EXCEPT !.tx = phase]
    /\ \/ Save(mem') /\ pc' = next
       \/ SaveFails /\ pc' = "fail"
    /\ UNCHANGED <<host, todo, caller, hist, queue>>

SwitchSkipsServices == RecordPhase("switch", "switched", "enable_api")

Switch == RecordPhase("switch", "switched", "services")

StartServices ==
    /\ pc = "services"
    /\ \/ /\ PreflightOk(mem.pending)
          /\ running' = StartUnits(mem.pending) /\ pc' = "probe"
       \/ pc' = "fail" /\ UNCHANGED running
    /\ UNCHANGED <<st, units, config, backup, enabled, current, dirs, mem,
                   todo, caller, hist, queue, saveFails>>

Probe == RecordPhase("probe", "probing", "health")

ProbeHealthPromotes ==
    /\ pc = "health"
    /\ pc' \in {"enable_api", "fail"}
    /\ mem' = [mem EXCEPT !.active = mem.pending, !.previous = mem.active]
    /\ UNCHANGED <<st, host, todo, caller, hist, queue, saveFails>>

ProbeHealth ==
    /\ pc = "health"
    /\ pc' \in {"enable_api", "fail"}
    /\ UNCHANGED <<st, host, mem, todo, caller, hist, queue, saveFails>>

(* Enable or disable one unit for the candidate's role. *)
EnableByRole(u, next) ==
    /\ pc' \in {next, "fail"}
    /\ enabled' = IF pc' = "fail" THEN enabled
                  ELSE IF u \in EnabledFor(mem.pending) THEN enabled \cup {u}
                  ELSE enabled \ {u}

EnableUnits ==
    /\ \/ pc = "enable_api" /\ EnableByRole("api", "enable_recovery")
       \/ pc = "enable_recovery" /\ EnableByRole("recovery", "enable_web")
       \/ pc = "enable_web" /\ EnableByRole("web", "commit")
    /\ UNCHANGED <<st, units, config, backup, running, current, dirs, mem,
                   todo, caller, hist, queue, saveFails>>

Committed(s) == [active |-> s.pending, previous |-> s.active,
                 pending |-> None, tx |-> NoTx]

Commit ==
    /\ pc = "commit"
    /\ mem' = Committed(mem)
    /\ \/ Save(mem') /\ pc' = "link"
       \/ SaveFails /\ pc' = "fail"
    /\ UNCHANGED <<host, todo, caller, hist, queue>>

LinkCurrent ==
    /\ pc = "link"
    /\ current' = mem.active
    /\ End("committed")
    /\ UNCHANGED <<st, units, config, backup, enabled, running, dirs, mem,
                   caller, before, queue, saveFails>>

(* record_failure persists the in-memory state, then the rollback reloads *)
(* state.json; the outcome of the write is only reported.                  *)
RecordFailure ==
    /\ pc = "fail"
    /\ Save(mem) \/ SaveFails
    /\ pc' = "rollback"
    /\ UNCHANGED <<host, mem, todo, caller, hist, queue>>

(***************************************************************************)
(* rollback_activation_failure, run by a failed start and by recover       *)
(***************************************************************************)

(* First install: back to the empty baseline.  The candidate stays         *)
(* pending and its unit files stay installed, disabled.                    *)
RollbackBaseline ==
    /\ pc = "rollback" /\ st.active = None
    /\ running' = NoFiles /\ enabled' = {} /\ current' = None /\ config' = None
    /\ \/ Save([st EXCEPT !.tx = NoTx]) /\ End("rolled_back")
       \/ SaveFails /\ pc' = "rollback_failed" /\ UNCHANGED <<todo, report>>
    /\ UNCHANGED <<units, backup, dirs, mem, caller, before, queue>>

RollbackStop ==
    /\ pc = "rollback" /\ st.active # None
    /\ running' = NoFiles
    /\ pc' = "restore"
    /\ todo' = IF st.tx = NoTx THEN {} ELSE {u \in Units : backup.units[u] # None}
    /\ UNCHANGED <<st, units, config, backup, enabled, current, dirs, mem,
                   caller, hist, queue, saveFails>>

RestoreUnit(u) ==
    /\ pc = "restore" /\ u \in todo
    /\ \/ /\ units' = [units EXCEPT ![u] = backup.units[u]]
          /\ todo' = todo \ {u} /\ UNCHANGED pc
       \/ pc' = "rollback_failed" /\ UNCHANGED <<units, todo>>
    /\ UNCHANGED <<st, config, backup, enabled, running, current, dirs, mem,
                   caller, hist, queue, saveFails>>

RestoreConfig ==
    /\ pc = "restore" /\ todo = {}
    /\ config' = IF st.tx # NoTx /\ backup.config # None THEN backup.config ELSE config
    /\ pc' = "verify"
    /\ UNCHANGED <<st, units, backup, enabled, running, current, dirs, mem,
                   todo, caller, hist, queue, saveFails>>

RestartActive ==
    /\ pc = "verify"
    /\ \/ /\ PreflightOk(st.active)
          /\ enabled' = enabled \cup {"recovery"}
          /\ running' = StartUnits(st.active)
          /\ pc' = "verified"
       \/ pc' = "rollback_failed" /\ UNCHANGED <<enabled, running>>
    /\ UNCHANGED <<st, units, config, backup, current, dirs, mem, todo, caller,
                   hist, queue, saveFails>>

(* The restored release passed its health gate, or it did not and the      *)
(* transaction is marked Failed.                                           *)
CloseRollback ==
    /\ pc = "verified"
    /\ \/ /\ Save([st EXCEPT !.tx = NoTx]) /\ current' = st.active
          /\ End("rolled_back")
       \/ /\ Save([st EXCEPT !.tx = IF st.tx = NoTx THEN NoTx ELSE "failed"])
          /\ pc' = "rollback_failed" /\ UNCHANGED <<current, todo, report>>
       \/ SaveFails /\ pc' = "rollback_failed" /\ UNCHANGED <<current, todo, report>>
    /\ UNCHANGED <<units, config, backup, enabled, running, dirs, mem, caller,
                   before, queue>>

RollbackFailedForgets ==
    /\ pc = "rollback_failed"
    /\ st' = [st EXCEPT !.tx = NoTx]
    /\ End("critical")
    /\ UNCHANGED <<host, mem, caller, before, queue, saveFails>>

(* A start whose rollback failed writes its own copy of the state, marked *)
(* Failed; a recover just reports the error.                               *)
RollbackFailed ==
    /\ pc = "rollback_failed"
    /\ IF caller = "start"
       THEN \/ Save([mem EXCEPT !.tx = IF mem.tx = NoTx THEN NoTx ELSE "failed"])
            \/ SaveFails
       ELSE UNCHANGED <<st, saveFails>>
    /\ End("critical")
    /\ UNCHANGED <<host, mem, caller, before, queue>>

(***************************************************************************)
(* recover [--boot]                                                        *)
(***************************************************************************)

RecoveryAction ==
    CASE st.tx \in OpenPhases -> "RestorePrevious"
      [] st.tx = "failed" -> "RecoveryRequired"
      [] st.tx = NoTx /\ st.pending # None -> "ResumePending"
      [] st.tx = NoTx /\ st.pending = None /\ st.active # None -> "RepairCommitted"
      [] OTHER -> "NoAction"

(* ensure_active_runtime_ready then repair_active_pointers: the links and *)
(* the enablement of the active release, or every unit stopped and        *)
(* disabled when its installed files do not match.                         *)
RepairActive ==
    \/ /\ PreflightOk(st.active)
       /\ current' = st.active
       /\ enabled' = EnabledFor(st.active)
       /\ report' = "recovered"
       /\ UNCHANGED running
    \/ /\ running' = NoFiles /\ enabled' = {}
       /\ report' = "required"
       /\ UNCHANGED current

StopAndDisable ==
    running' = NoFiles /\ enabled' = {} /\ report' = "required" /\ UNCHANGED current

RecoverLinks(boot) ==
    CASE RecoveryAction = "RecoveryRequired" -> StopAndDisable
      [] RecoveryAction = "ResumePending" /\ boot /\ st.active # None -> RepairActive
      [] RecoveryAction = "ResumePending" /\ boot /\ st.active = None ->
            /\ enabled' = enabled \ AppUnits /\ report' = "recovered"
            /\ UNCHANGED <<running, current>>
      [] RecoveryAction = "RepairCommitted" -> RepairActive
      [] OTHER -> report' = "recovered" /\ UNCHANGED <<enabled, running, current>>

Recover ==
    /\ Idle
    /\ IF RecoveryAction = "RestorePrevious"
       THEN /\ pc' = "rollback" /\ caller' = "recover" /\ report' = "none"
            /\ UNCHANGED <<enabled, running, current>>
       ELSE RecoverLinks(FALSE) /\ UNCHANGED <<pc, caller>>
    /\ before' = st.active
    /\ UNCHANGED <<st, units, config, backup, dirs, mem, todo, queue, saveFails>>

(* stop --clean forgets the active release and removes its directory; the *)
(* unit files stay.  It takes no lock; here it runs alone.                 *)
Clean ==
    /\ MayCommand
    /\ running' = NoFiles /\ current' = None
    /\ dirs' = dirs \ {st.active}
    /\ st' = [st EXCEPT !.active = None, !.pending = None]
    /\ report' = "cleaned" /\ before' = st.active
    /\ UNCHANGED <<units, config, backup, enabled, cmd, queue, saveFails>>

(***************************************************************************)
(* Crashes                                                                 *)
(***************************************************************************)

Kill ==
    /\ pc \notin {"idle", "boot", "boot_start"}
    /\ End("killed")
    /\ UNCHANGED <<st, host, mem, caller, before, queue, saveFails>>

(* After a power loss systemd queues the enabled units; the recovery unit *)
(* is ordered before the application units.                                *)
PowerLoss ==
    /\ running' = NoFiles
    /\ queue' = enabled \cap AppUnits
    /\ pc' = IF "recovery" \in enabled /\ units["recovery"] \in dirs
             THEN "boot" ELSE "boot_start"
    /\ todo' = {} /\ report' = "none" /\ before' = st.active
    /\ UNCHANGED <<st, units, config, backup, enabled, current, dirs, mem,
                   caller, saveFails>>

(* rollback_activation_failure stops every service unit, the recovery     *)
(* unit among them: systemd cancels the queued application units and then *)
(* ends the process that asked, which is the recovery unit's own.  On a   *)
(* first install the application units are disabled before that.          *)
BootRollbackStops ==
    /\ queue' = {}
    /\ enabled' = IF st.active = None THEN enabled \ AppUnits ELSE enabled
    /\ report' = "none"
    /\ UNCHANGED <<running, current>>

BootRecover ==
    /\ pc = "boot"
    /\ IF RecoveryAction = "RestorePrevious" THEN BootRollbackStops
       ELSE RecoverLinks(TRUE) /\ UNCHANGED queue
    /\ pc' = "boot_ready"
    /\ UNCHANGED <<st, units, config, backup, dirs, mem, todo, caller, before,
                   saveFails>>

(* systemd starts what it queued and can still execute. *)
BootStart ==
    /\ pc \in {"boot_ready", "boot_start"}
    /\ running' = [u \in Units |-> IF u \in queue /\ units[u] \in dirs
                                   THEN units[u] ELSE None]
    /\ queue' = {}
    /\ End(IF pc = "boot_ready" THEN "booted" ELSE "killed")
    /\ UNCHANGED <<st, units, config, backup, enabled, current, dirs, mem,
                   caller, before, saveFails>>

ActivationStep ==
    \/ Promote \/ StopServices \/ BackedUp \/ BackupConfig \/ InstallConfig
    \/ \E u \in Units : BackupUnit(u) \/ InstallUnit(u)
    \/ Switch \/ StartServices \/ Probe \/ ProbeHealth \/ EnableUnits
    \/ Commit \/ LinkCurrent \/ RecordFailure

RollbackStep ==
    \/ RollbackBaseline \/ RollbackStop \/ RestoreConfig
    \/ \E u \in Units : RestoreUnit(u)
    \/ RestartActive \/ CloseRollback \/ RollbackFailed

BootStep == BootRecover \/ BootStart

ManagerStep == ActivationStep \/ RollbackStep \/ BootStep

Command ==
    \/ \E r \in Releases : Stage(r)
    \/ Start \/ StartActive \/ Rollback \/ Recover \/ Clean

Next == (Command \/ ManagerStep \/ Kill \/ PowerLoss) /\ UNCHANGED role

Spec == Init /\ [][Next]_vars

-----------------------------------------------------------------------------
(* The types of all variables. *)
TypeOK ==
    /\ role \in [Releases -> SUBSET AppUnits \ {{}}]
    /\ st \in States /\ mem \in States
    /\ units \in Files /\ running \in Files
    /\ config \in MaybeRelease /\ current \in MaybeRelease
    /\ backup \in [units : Files, config : MaybeRelease]
    /\ enabled \subseteq Units /\ queue \subseteq AppUnits /\ dirs \subseteq Releases
    /\ todo \subseteq Units /\ before \in MaybeRelease
    /\ saveFails \in 0 .. MaxSaveFails

(* When no command runs and no transaction is open, the installed files   *)
(* are those of the release state.json calls active: whatever step the    *)
(* last activation, rollback or recovery was interrupted at, the journal  *)
(* never closes over a half-switched host.                                 *)
CommittedIsInstalled ==
    Idle /\ st.tx = NoTx /\ st.active # None => PreflightOk(st.active)

(* Once the candidate is switched in, the backups hold the files of the   *)
(* active release, so the rollback can bring exactly that release back.   *)
BackupsAreActive ==
    st.tx \in {"switched", "probing"} /\ st.active # None =>
        /\ \A u \in UnitsOf(st.active) : backup.units[u] = st.active
        /\ backup.config = st.active

(* If all releases are of one role, two of them never run side by side,    *)
(* not even across a crash in the middle of the unit files, as long as no *)
(* rollback has failed.                                                    *)
OneRole == \A r, s \in Releases : role[r] = role[s]
OneReleaseRuns ==
    OneRole /\ st.tx # "failed" =>
        \A u, v \in AppUnits : running[u] # None /\ running[v] # None
                                => running[u] = running[v]

(* A start that reports success and one that reports it rolled back leave *)
(* every unit of the active release running.                               *)
SuccessIsServing ==
    report \in {"committed", "rolled_back"} /\ st.active # None =>
        \A u \in role[st.active] : running[u] = st.active

(* "Rolled back" means what it says: the active release is the one from   *)
(* before the command.  A write of state.json that fails at the commit    *)
(* point makes a commit that is reported as a rollback.                   *)
RolledBackMeansBefore == saveFails = 0 /\ report = "rolled_back" => st.active = before

(* After a commit, the next boot starts the active release: its units and *)
(* only they are enabled.                                                   *)
CommitDecidesBoot == report = "committed" => enabled = UnitsOf(st.active)

(* What the release manager keeps in every state: the backups are those of *)
(* the release a rollback returns to, a command that reports success or a *)
(* rollback tells the truth, the enabled units are those of the committed *)
(* release, and two releases never run side by side.                       *)
HostSound ==
    /\ TypeOK /\ BackupsAreActive /\ SuccessIsServing /\ CommitDecidesBoot
    /\ RolledBackMeansBefore /\ OneReleaseRuns

(* A release becomes active in state.json only while its services run and *)
(* the release it replaces is kept as the one to roll back to, where every *)
(* write of state.json succeeds.                                           *)
CommitIsServed ==
    [][saveFails' = 0 /\ st'.active # st.active /\ st'.active # None =>
         /\ \A u \in role[st'.active] : running[u] = st'.active
         /\ st'.previous = st.active]_vars

(* The boot recovery reconciles an interrupted transaction. *)
\* Does not hold (README, known deviations).
BootReconciles == report = "booted" => st.tx \notin OpenPhases

(* A boot whose recovery ends in RECOVERY_REQUIRED starts no application. *)
\* Does not hold (README, known deviations).
FailedBootIsBlocked ==
    report = "booted" /\ st.tx = "failed" => \A u \in AppUnits : running[u] = None

(* After a boot with a pending candidate the application units are        *)
(* disabled.                                                               *)
\* Does not hold (README, known deviations).
PendingBootDisables ==
    report = "booted" /\ st.tx = NoTx /\ st.pending # None =>
        enabled \cap AppUnits = {}

(* After an automatic rollback the candidate's units are disabled. *)
\* Does not hold (README, known deviations).
CandidateUnitsDisabled ==
    report = "rolled_back" /\ st.active # None => enabled \subseteq UnitsOf(st.active)

=============================================================================
