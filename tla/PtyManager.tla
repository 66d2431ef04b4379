----------------------------- MODULE PtyManager -----------------------------
(***************************************************************************)
(* The PTY session manager of server/src/pty/manager.rs.                   *)
(*                                                                         *)
(* A public session id is reusable; each process started under it gets a   *)
(* fresh incarnation.  API callers create, kill, remove and terminate      *)
(* sessions; every session has a reader thread that notices its exit; one  *)
(* supervisor task restarts sessions whose policy asks for it; a sweeper   *)
(* removes expired tombstones; a workspace switch disposes everything; the *)
(* idle-suspend coordinator claims the fleet for a host suspend; shutdown  *)
(* stops the lot.                                                          *)
(*                                                                         *)
(* Three locks order them: the `inner` mutex (each critical section of it  *)
(* is one action here), the `persistence_gate` mutex (held across several  *)
(* actions; `pgate` names its holder) and the LifecycleGate (`gate`), a    *)
(* condition variable on which disposal waits for creates and respawns to  *)
(* drain.  Persistence commands go to one FIFO worker and are only sent    *)
(* under `pgate`; `store` is the database once that queue is drained.      *)
(***************************************************************************)
EXTENDS Naturals, Sequences, PtyFleet, SessionStore

CONSTANTS
    Callers,     \* concurrent create requests
    Policies,    \* restart policies requests ask for
    Targets,     \* subset of BOOLEAN: may sessions be bound to a worktree target
    MaxRetries,  \* restart_max_retries of every session
    QueueCap,    \* capacity of the respawn queue (256 in the code)
    MaxInc,      \* bound on incarnations
    MaxOps,      \* bound on requests, spontaneous exits, sweeps, claims and faults
    Ops          \* the kinds of these that the environment performs

ASSUME ManagerAssumption ==
    /\ StoreIds = Ids
    /\ IsFiniteSet(Callers)
    /\ Policies \subseteq {"never", "on_failure", "always"}
    /\ Targets \subseteq BOOLEAN
    /\ {MaxRetries, QueueCap, MaxInc, MaxOps} \subseteq Nat

VARIABLES
    \* Inner
    fleet, live, dead, failed, next_inc, generation, closing, killed,
    suppress, pending, termreq,
    \* the other locks, the respawn channel, the database
    gate, pgate, respawnQ, store,
    \* threads and tasks
    cr, rd, sup, rm, disp, phase,
    \* the environment: processes sent SIGKILL, remaining operations
    terminated, ops,
    \* history: incarnations whose restart somebody cancelled, the last
    \* incarnation whose event was delivered per id, live at shutdown
    stopped, lastEvt, atStop

fleetVars == <<fleet, generation, closing>>
idVars    == <<live, dead, failed, pending, killed, suppress, termreq, next_inc>>
lockVars  == <<gate, pgate>>
procVars  == <<cr, rd, sup, rm, disp, phase, respawnQ>>
envVars   == <<terminated, ops, stopped, lastEvt, atStop>>
vars      == <<fleetVars, idVars, lockVars, procVars, envVars, store>>

Incs     == 1 .. MaxInc
NoId     == "none"
Removers == {"api", "sweep"}

NoDead   == [inc |-> NoInc, will_restart |-> FALSE, cancelled |-> FALSE,
             unavail |-> FALSE, target |-> FALSE]
NoFailed == [inc |-> NoInc, unavail |-> FALSE]
NoReader == [pc |-> "none", id |-> NoId, gen |-> 0, policy |-> "never",
             count |-> 0, target |-> FALSE, restart |-> FALSE]
IdleSup  == [pc |-> "idle", id |-> NoId, inc |-> NoInc, gen |-> 0,
             policy |-> "never", count |-> 0, target |-> FALSE, new |-> NoInc,
             keep |-> FALSE, lost |-> FALSE]
IdleCr   == [pc |-> "idle", id |-> NoId, inc |-> NoInc,
             policy |-> "never", target |-> FALSE, gen |-> 0, retry |-> FALSE]
IdleRm   == [pc |-> "idle", id |-> NoId, expected |-> NoInc, inc |-> NoInc, expired |-> {}]
IdleDisp == [pc |-> "idle", closing |-> FALSE, prev |-> 0, todo |-> {}, cur |-> <<NoId, NoInc>>]

\* DeadSession::killed and DeadSession::exited differ only in exit_code, which
\* the manager never reads back.
Tombstone(inc, target) == [NoDead EXCEPT !.inc = inc, !.target = target]

\* Environment operations are bounded by MaxOps and restricted to Ops.
Op(kind) == kind \in Ops /\ ops > 0 /\ ops' = ops - 1

Init ==
    /\ fleet = NewFleet
    /\ live = NoEntries
    /\ dead = [i \in Ids |-> NoDead]
    /\ failed = [i \in Ids |-> NoFailed]
    /\ next_inc = 1
    /\ generation = 0
    /\ closing = FALSE
    /\ killed = {}
    /\ suppress = [i \in Ids |-> 0]
    /\ pending = NoEntries
    /\ termreq = {}
    /\ gate = [active |-> 0, disposing |-> FALSE, closing |-> FALSE]
    /\ pgate = "free"
    /\ respawnQ = << >>
    /\ store = EmptyStore
    /\ cr = [c \in Callers |-> IdleCr]
    /\ rd = [n \in Incs |-> NoReader]
    /\ sup = IdleSup
    /\ rm = [r \in Removers |-> IdleRm]
    /\ disp = IdleDisp
    /\ phase = "up"
    /\ terminated = {}
    /\ ops = MaxOps
    /\ stopped = {}
    /\ lastEvt = NoEntries
    /\ atStop = NoEntries

(***************************************************************************)
(* Inner: the predicates and helpers the operations share                  *)
(***************************************************************************)
ReplacementIsCurrent(i, inc) == pending[i] = inc

RespawnSourceIsCurrent(i, inc) ==
    i \notin killed /\ live[i] = NoInc /\ dead[i].inc = inc

\* Mutation: a cancelled restart is admitted.
RespawnAdmissionUnchecked(i, inc) == RespawnSourceIsCurrent(i, inc) /\ pending[i] = NoInc

RespawnAdmissionIsCurrent(i, inc) ==
    /\ RespawnSourceIsCurrent(i, inc)
    /\ dead[i].will_restart /\ ~dead[i].cancelled
    /\ IsRestartPending(fleet, i, inc)
    /\ pending[i] = NoInc

RespawnReplacementIsCurrent(i, src, inc) ==
    /\ RespawnSourceIsCurrent(i, src)
    /\ ReplacementIsCurrent(i, inc)
    /\ IsCreating(fleet, i, inc)

\* Mutation: any reader speaks for an id that is not live.
EventIsCurrentIfNotLive(i, inc) == live[i] \in {NoInc, inc}

\* IncarnationEventSink::with_current: the reader of inc may still speak for i.
EventIsCurrent(i, inc) ==
    /\ pending[i] \in {NoInc, inc}
    /\ IF live[i] # NoInc THEN live[i] = inc ELSE dead[i].inc = inc

\* Mutation: the record of an earlier failed replacement is kept.
BeginReplacementKeepsFailed(i) ==
    /\ next_inc <= MaxInc
    /\ next_inc' = next_inc + 1
    /\ pending' = [pending EXCEPT ![i] = next_inc]
    /\ UNCHANGED failed

\* Mutation: the incarnation counter is not advanced.
BeginReplacementReuses(i) ==
    /\ next_inc <= MaxInc
    /\ failed' = [failed EXCEPT ![i] = NoFailed]
    /\ pending' = [pending EXCEPT ![i] = next_inc]
    /\ UNCHANGED next_inc

\* begin_replacement: allocate an incarnation and reserve the id for it.
BeginReplacement(i) ==
    /\ next_inc <= MaxInc
    /\ next_inc' = next_inc + 1
    /\ failed' = [failed EXCEPT ![i] = NoFailed]
    /\ pending' = [pending EXCEPT ![i] = next_inc]

\* The next value of pending after finish_replacement.
FinishReplacement(i, inc) == [pending EXCEPT ![i] = IF @ = inc THEN NoInc ELSE @]

\* The incarnation the manager currently knows i by.
CurrentInc(i) ==
    IF live[i] # NoInc THEN live[i]
    ELSE IF dead[i].inc # NoInc THEN dead[i].inc
    ELSE failed[i].inc

\* History: what a user-visible stop of id i stops.
Stopped(i) == stopped \union ({live[i], dead[i].inc} \ {NoInc})

Terminate(incs) == terminated' = terminated \union (incs \ {NoInc})

\* kill_internal_impl: evict the live process, leave a tombstone.
KillInternalImpl(i, suppress_exit) ==
    /\ killed' = killed \union {i}
    /\ pending' = [pending EXCEPT ![i] = NoInc]
    /\ fleet' = RemoveAllForId(fleet, i)
    /\ live' = [live EXCEPT ![i] = NoInc]
    /\ suppress' = IF suppress_exit /\ live[i] # NoInc
                     THEN [suppress EXCEPT ![i] = @ + 1] ELSE suppress
    /\ dead' = IF live[i] # NoInc
                 THEN [dead EXCEPT ![i] = Tombstone(live[i], rd[live[i]].target)] ELSE dead
    /\ Terminate({live[i]})
    /\ stopped' = Stopped(i)

(***************************************************************************)
(* finish_failed_replacement_locked: the reservation `inc` of i failed.    *)
(* Returns without effect if a newer request owns the id.  `meta_target`   *)
(* says whether the caller passed metadata bound to a worktree target,     *)
(* `preserve` that the id was unavailable before.                          *)
(***************************************************************************)
FinishFailedReplacement(i, inc, meta_target, preserve) ==
    LET current == ReplacementIsCurrent(i, inc)
    IN
    /\ fleet' = IF current THEN CancelCreate(fleet, i, inc) ELSE fleet
    /\ \/ /\ ~current \/ live[i] \notin {NoInc, inc}
          /\ UNCHANGED <<live, dead, failed, pending, terminated, store>>
       \/ /\ current /\ live[i] = inc
          /\ live' = [live EXCEPT ![i] = NoInc]
          /\ dead' = [dead EXCEPT ![i] =
                        [Tombstone(inc, rd[inc].target) EXCEPT !.unavail = preserve]]
          /\ pending' = FinishReplacement(i, inc)
          /\ Terminate({inc})
          /\ store' = IF preserve THEN MarkSessionUnavailable(store, i, inc)
                                  ELSE MarkSessionDead(store, i, inc)
          /\ UNCHANGED failed
       \/ /\ current /\ live[i] = NoInc
          /\ pending' = FinishReplacement(i, inc)
          /\ \/ /\ dead[i].inc <= inc /\ meta_target
                /\ dead' = [dead EXCEPT ![i] = NoDead]
                /\ failed' = [failed EXCEPT ![i] = [inc |-> inc, unavail |-> preserve]]
                /\ LET old == IF dead[i].inc # NoInc
                                THEN MarkSessionDead(store, i, dead[i].inc) ELSE store
                   IN  store' = IF preserve THEN MarkSessionUnavailable(old, i, inc)
                                            ELSE MarkSessionDead(old, i, inc)
             \/ /\ dead[i].inc <= inc /\ ~meta_target /\ dead[i].inc # NoInc
                /\ dead' = [dead EXCEPT ![i].unavail = @ \/ preserve,
                                        ![i].will_restart = FALSE]
                /\ store' = IF dead[i].unavail \/ preserve
                              THEN MarkSessionUnavailable(store, i, dead[i].inc)
                              ELSE MarkSessionDead(store, i, dead[i].inc)
                /\ UNCHANGED failed
             \/ /\ dead[i].inc > inc \/ (~meta_target /\ dead[i].inc = NoInc)
                /\ UNCHANGED <<dead, failed, store>>
          /\ UNCHANGED <<live, terminated>>

(***************************************************************************)
(* create_with_buffer, in the order of its critical sections.  The permit  *)
(* and, from CreateAdmit on, the persistence gate are held until it        *)
(* returns.                                                                *)
(***************************************************************************)
\* LifecycleGate::begin: waits while disposing, fails once closing.
CreateBegin(c) ==
    /\ phase = "up"
    /\ cr[c].pc = "idle"
    /\ ~gate.disposing
    /\ ~gate.closing
    /\ Op("create")
    /\ \E i \in Ids, p \in Policies, t \in Targets :
         cr' = [cr EXCEPT ![c] = [IdleCr EXCEPT !.pc = "admit", !.id = i,
                                                !.policy = p, !.target = t]]
    /\ gate' = [gate EXCEPT !.active = @ + 1]
    /\ UNCHANGED <<fleetVars, idVars, pgate, rd, sup, rm, disp, phase, respawnQ,
                   terminated, stopped, lastEvt, atStop, store>>

\* Mutation: the permit is leaked.
CreateReturnKeepsPermit(c) ==
    /\ cr' = [cr EXCEPT ![c] = IdleCr]
    /\ pgate' = "free"
    /\ UNCHANGED gate

\* Return from create: the persistence guard and the permit are dropped.
CreateReturn(c) ==
    /\ cr' = [cr EXCEPT ![c] = IdleCr]
    /\ gate' = [gate EXCEPT !.active = @ - 1]
    /\ pgate' = "free"

\* Take the persistence gate; refuse during a suspend handoff or shutdown.
CreateAdmit(c) ==
    /\ cr[c].pc = "admit"
    /\ pgate = "free"
    /\ \/ /\ fleet.handoff_active \/ closing
          /\ CreateReturn(c)
       \/ /\ ~fleet.handoff_active /\ ~closing
          /\ cr' = [cr EXCEPT ![c].pc = "evict"]
          /\ pgate' = "create"
          /\ UNCHANGED gate
    /\ UNCHANGED <<fleetVars, idVars, rd, sup, rm, disp, phase, respawnQ, envVars, store>>

\* Remember whether an unavailable identity is retried, kill the old process.
CreateEvict(c) ==
    /\ cr[c].pc = "evict"
    /\ KillInternalImpl(cr[c].id, TRUE)
    /\ cr' = [cr EXCEPT ![c].pc = "reserve", ![c].retry = dead[cr[c].id].unavail]
    /\ UNCHANGED <<generation, closing, failed, termreq, next_inc, lockVars, rd, sup, rm, disp,
                   phase, respawnQ, ops, lastEvt, atStop, store>>

\* begin_replacement, then begin_create, which a handoff or a shutdown that
\* started since CreateAdmit makes fail.
CreateReserve(c) ==
    LET i == cr[c].id
    IN  /\ cr[c].pc = "reserve"
        /\ BeginReplacement(i)
        /\ \/ /\ ~SpawnAdmitted(fleet)
              /\ CreateReturn(c)
              /\ UNCHANGED fleet
           \/ /\ SpawnAdmitted(fleet)
              /\ fleet' = BeginCreate(fleet, i, next_inc)
              /\ cr' = [cr EXCEPT ![c].pc = "spawn", ![c].inc = next_inc,
                                  ![c].gen = generation]
              /\ UNCHANGED lockVars
        /\ UNCHANGED <<generation, closing, live, dead, killed, suppress, termreq,
                       rd, sup, rm, disp, phase, respawnQ, envVars, store>>

\* openpty, spawn_command, try_clone_reader or take_writer failed.
CreateSpawnFails(c) ==
    /\ cr[c].pc = "spawn"
    /\ Op("spawn_fault")
    /\ FinishFailedReplacement(cr[c].id, cr[c].inc, cr[c].target, cr[c].retry)
    /\ CreateReturn(c)
    /\ UNCHANGED <<generation, closing, killed, suppress, termreq, next_inc,
                   rd, sup, rm, disp, phase, respawnQ, stopped, lastEvt, atStop>>

\* Publish the spawned session unless the reservation was superseded or the
\* manager is being disposed; the spawned process is then terminated unseen.
CreatePublish(c) ==
    LET i == cr[c].id
        inc == cr[c].inc
    IN  /\ cr[c].pc = "spawn"
        /\ \/ /\ \/ ~ReplacementIsCurrent(i, inc)
                 \/ gate.disposing \/ closing \/ generation # cr[c].gen
              /\ fleet' = CancelCreate(fleet, i, inc)
              /\ CreateReturn(c)
              /\ UNCHANGED <<live, dead, killed, rd, terminated>>
           \/ /\ ReplacementIsCurrent(i, inc)
              /\ ~gate.disposing /\ ~closing /\ generation = cr[c].gen
              /\ Terminate({live[i]})
              /\ live' = [live EXCEPT ![i] = inc]
              /\ dead' = [dead EXCEPT ![i] = NoDead]
              /\ killed' = killed \ {i}
              /\ fleet' = PublishLive(fleet, i, inc)
              /\ rd' = [rd EXCEPT ![inc] =
                          [NoReader EXCEPT !.pc = "starting", !.id = i, !.gen = cr[c].gen,
                                           !.policy = cr[c].policy, !.target = cr[c].target]]
              /\ cr' = [cr EXCEPT ![c].pc = "start"]
              /\ UNCHANGED lockVars
        /\ UNCHANGED <<generation, closing, failed, pending, suppress, termreq, next_inc,
                       sup, rm, disp, phase, respawnQ, ops, stopped, lastEvt, atStop, store>>

\* persist_session_created, then start the reader thread.
CreateStart(c) ==
    /\ cr[c].pc = "start"
    /\ store' = SaveSession(store, cr[c].id, cr[c].inc, FALSE)
    /\ rd' = [rd EXCEPT ![cr[c].inc].pc = "running"]
    /\ cr' = [cr EXCEPT ![c].pc = "finish"]
    /\ UNCHANGED <<fleetVars, idVars, lockVars, sup, rm, disp, phase, respawnQ, envVars>>

\* The row is written but the OS refuses the reader thread.
CreateStartFails(c) ==
    LET i == cr[c].id
    IN  /\ cr[c].pc = "start"
        /\ Op("thread_fault")
        /\ store' = SaveSession(store, i, cr[c].inc, FALSE)
        /\ cr' = [cr EXCEPT ![c].pc = "unstart"]
        /\ UNCHANGED <<fleetVars, idVars, lockVars, rd, sup, rm, disp, phase, respawnQ,
                       terminated, stopped, lastEvt, atStop>>

\* ... mark_replacement_failed ...
CreateUnstart(c) ==
    /\ cr[c].pc = "unstart"
    /\ FinishFailedReplacement(cr[c].id, cr[c].inc, cr[c].target, cr[c].retry)
    /\ cr' = [cr EXCEPT ![c].pc = "rekill"]
    /\ UNCHANGED <<generation, closing, killed, suppress, termreq, next_inc, lockVars,
                   rd, sup, rm, disp, phase, respawnQ, ops, stopped, lastEvt, atStop>>

\* ... and kill_internal_impl.
CreateRekill(c) ==
    /\ cr[c].pc = "rekill"
    /\ KillInternalImpl(cr[c].id, TRUE)
    /\ rd' = [rd EXCEPT ![cr[c].inc] = [NoReader EXCEPT !.pc = "done"]]
    /\ CreateReturn(c)
    /\ UNCHANGED <<generation, closing, failed, termreq, next_inc, sup, rm, disp,
                   phase, respawnQ, ops, lastEvt, atStop, store>>

CreateFinish(c) ==
    /\ cr[c].pc = "finish"
    /\ pending' = FinishReplacement(cr[c].id, cr[c].inc)
    /\ CreateReturn(c)
    /\ UNCHANGED <<fleetVars, live, dead, failed, killed, suppress, termreq, next_inc,
                   rd, sup, rm, disp, phase, respawnQ, envVars, store>>

CreateStep(c) ==
    \/ CreateAdmit(c) \/ CreateEvict(c) \/ CreateReserve(c) \/ CreatePublish(c)
    \/ CreateStart(c) \/ CreateUnstart(c) \/ CreateRekill(c) \/ CreateFinish(c)

(***************************************************************************)
(* reader_thread                                                           *)
(***************************************************************************)
\* Output of a running session: delivered only while the reader's incarnation
\* speaks for the id.
ReaderData(n) ==
    /\ "output" \in Ops
    /\ rd[n].pc = "running"
    /\ lastEvt' = [lastEvt EXCEPT ![rd[n].id] = IF EventIsCurrent(rd[n].id, n) THEN n ELSE @]
    /\ UNCHANGED <<fleetVars, idVars, lockVars, procVars, terminated, ops, stopped, atStop, store>>

\* decide_restart, without the delay it computes.
DecideRestart(policy, code, was_killed, count) ==
    /\ ~was_killed
    /\ policy # "never"
    /\ count < MaxRetries
    /\ policy = "on_failure" => code # 0

\* The child exited with `code`: the reader's exit transition.
ReaderExit(n, code) ==
    LET r == rd[n]
        i == r.id
        was_killed == i \in killed \/ generation # r.gen \/ n \in termreq
        will_restart == DecideRestart(r.policy, code, was_killed, r.count)
        consumed == [suppress EXCEPT ![i] = IF @ > 0 THEN @ - 1 ELSE 0]
        next_count == IF code = 0 /\ r.count > 0 THEN 0 ELSE r.count
    IN  /\ r.pc = "running"
        /\ \/ /\ live[i] = n
              /\ live' = [live EXCEPT ![i] = NoInc]
              /\ fleet' = IF will_restart THEN TransitionLiveToRestartPending(fleet, i, n)
                                          ELSE RemoveLive(fleet, i, n)
              /\ dead' = [dead EXCEPT ![i] =
                            [Tombstone(n, r.target) EXCEPT !.will_restart = will_restart]]
              /\ rd' = [rd EXCEPT ![n] = [r EXCEPT !.pc = "persist", !.restart = will_restart,
                                                   !.count = next_count]]
              /\ UNCHANGED <<suppress, termreq>>
           \/ /\ live[i] \notin {NoInc, n}
              /\ suppress' = consumed
              /\ termreq' = termreq \ {n}
              /\ rd' = [rd EXCEPT ![n] = [NoReader EXCEPT !.pc = "done"]]
              /\ UNCHANGED <<live, dead, fleet>>
           \/ /\ live[i] = NoInc
              /\ suppress' = consumed
              /\ rd' = [rd EXCEPT ![n] =
                          IF suppress[i] > 0 THEN [NoReader EXCEPT !.pc = "done"]
                          ELSE [r EXCEPT !.pc = IF dead[i].inc = n THEN "persist" ELSE "emit"]]
              /\ UNCHANGED <<live, dead, fleet, termreq>>
        /\ UNCHANGED <<generation, closing, failed, pending, killed, next_inc, lockVars,
                       cr, sup, rm, disp, phase, respawnQ, terminated, stopped,
                       lastEvt, atStop, store>>

\* A process that was sent SIGKILL exits, unless it had just ended by itself.
KilledExit(n) ==
    /\ n \in terminated
    /\ \E code \in {0, 1} : ReaderExit(n, code)
    /\ UNCHANGED ops

\* A process ends by itself, or wait() fails on an unguarded one (code 0).
NaturalExit(n) ==
    /\ n \notin terminated
    /\ Op("exit")
    /\ \E code \in {0, 1} : ReaderExit(n, code)

\* wait() fails on a guarded termination: the session stays live, unresolved.
ReaderWaitFails(n) ==
    /\ rd[n].pc = "running"
    /\ n \in termreq
    /\ Op("wait_fault")
    /\ rd' = [rd EXCEPT ![n] = [NoReader EXCEPT !.pc = "done"]]
    /\ UNCHANGED <<fleetVars, idVars, lockVars, cr, sup, rm, disp, phase, respawnQ,
                   terminated, stopped, lastEvt, atStop, store>>

\* Mutation: the reader does not wait for the persistence gate.
ReaderPersistUngated(n) ==
    LET i == rd[n].id
    IN  /\ rd[n].pc = "persist"
        /\ store' = IF dead[i].inc = n THEN MarkSessionDead(store, i, n) ELSE store
        /\ rd' = [rd EXCEPT ![n].pc = IF rd[n].restart THEN "respawn" ELSE "emit"]
        /\ UNCHANGED <<fleetVars, idVars, lockVars, cr, sup, rm, disp, phase, respawnQ, envVars>>

\* Final snapshot and SessionExited, if the tombstone is still this reader's.
ReaderPersist(n) ==
    LET i == rd[n].id
    IN  /\ rd[n].pc = "persist"
        /\ pgate = "free"
        /\ store' = IF dead[i].inc = n THEN MarkSessionDead(store, i, n) ELSE store
        /\ rd' = [rd EXCEPT ![n].pc = IF rd[n].restart THEN "respawn" ELSE "emit"]
        /\ UNCHANGED <<fleetVars, idVars, lockVars, cr, sup, rm, disp, phase, respawnQ, envVars>>

\* try_send of the RespawnCmd.
ReaderRespawn(n) ==
    LET r == rd[n]
        cmd == [id |-> r.id, inc |-> n, gen |-> r.gen, policy |-> r.policy,
                count |-> r.count, target |-> r.target]
        full == Len(respawnQ) >= QueueCap
    IN  /\ r.pc = "respawn"
        /\ respawnQ' = IF full THEN respawnQ ELSE Append(respawnQ, cmd)
        /\ rd' = [rd EXCEPT ![n].pc = IF full THEN "cancel" ELSE "emit"]
        /\ UNCHANGED <<fleetVars, idVars, lockVars, cr, sup, rm, disp, phase, envVars, store>>

\* The queue was full: this restart is dropped.
ReaderCancel(n) ==
    /\ rd[n].pc = "cancel"
    /\ fleet' = CancelRestartPending(fleet, rd[n].id, n)
    /\ rd' = [rd EXCEPT ![n].pc = "emit"]
    /\ UNCHANGED <<generation, closing, idVars, lockVars, cr, sup, rm, disp, phase, respawnQ,
                   envVars, store>>

\* The exit event, through IncarnationEventSink; then the thread ends.
ReaderEmit(n) ==
    LET i == rd[n].id
    IN  /\ rd[n].pc = "emit"
        /\ lastEvt' = [lastEvt EXCEPT ![i] = IF EventIsCurrent(i, n) THEN n ELSE @]
        /\ rd' = [rd EXCEPT ![n] = [NoReader EXCEPT !.pc = "done"]]
        /\ UNCHANGED <<fleetVars, idVars, lockVars, cr, sup, rm, disp, phase, respawnQ,
                       terminated, ops, stopped, atStop, store>>

ReaderStep(n) ==
    \/ KilledExit(n) \/ ReaderPersist(n) \/ ReaderRespawn(n) \/ ReaderCancel(n) \/ ReaderEmit(n)

(***************************************************************************)
(* supervisor_loop and respawn_internal: one command at a time             *)
(***************************************************************************)
SupReceive ==
    /\ sup.pc = "idle"
    /\ respawnQ # << >>
    /\ LET cmd == Head(respawnQ)
       IN  sup' = [IdleSup EXCEPT !.pc = "backoff", !.id = cmd.id, !.inc = cmd.inc,
                                  !.gen = cmd.gen, !.policy = cmd.policy,
                                  !.count = cmd.count, !.target = cmd.target]
    /\ respawnQ' = Tail(respawnQ)
    /\ UNCHANGED <<fleetVars, idVars, lockVars, cr, rd, rm, disp, phase, envVars, store>>

\* The backoff delay is over: is this restart still wanted?
SupBackoffOver ==
    /\ sup.pc = "backoff"
    /\ \/ /\ RespawnAdmissionIsCurrent(sup.id, sup.inc) /\ generation = sup.gen
          /\ sup' = [sup EXCEPT !.pc = "validate"]
          /\ UNCHANGED fleet
       \/ /\ ~RespawnAdmissionIsCurrent(sup.id, sup.inc) \/ generation # sup.gen
          /\ fleet' = CancelRestartPending(fleet, sup.id, sup.inc)
          /\ sup' = IdleSup
    /\ UNCHANGED <<generation, closing, idVars, lockVars, cr, rd, rm, disp, phase, respawnQ,
                   envVars, store>>

\* The worktree target of the session does not validate; `lost` when the
\* error means that it is gone (is_target_loss_error).
SupTargetFails ==
    /\ sup.pc = "validate"
    /\ sup.target
    /\ Op("target_fault")
    /\ \E lost \in BOOLEAN : sup' = [sup EXCEPT !.pc = "failed", !.lost = lost]
    /\ UNCHANGED <<fleetVars, idVars, lockVars, cr, rd, rm, disp, phase, respawnQ,
                   terminated, stopped, lastEvt, atStop, store>>

\* Reserve the replacement before the slow spawn.
SupReserve ==
    LET i == sup.id
        admitted == /\ RespawnAdmissionIsCurrent(i, sup.inc)
                    /\ ~fleet.handoff_active
                    /\ ~closing
    IN  /\ sup.pc = "validate"
        /\ \/ /\ ~admitted
              /\ fleet' = CancelRestartPending(fleet, i, sup.inc)
              /\ sup' = [sup EXCEPT !.pc = "failed"]
              /\ UNCHANGED <<next_inc, failed, pending>>
           \/ /\ admitted
              /\ BeginReplacement(i)
              /\ IF SpawnAdmitted(fleet)
                   THEN /\ fleet' = TransitionRestartPendingToCreating(fleet, i, sup.inc, next_inc)
                        /\ sup' = [sup EXCEPT !.pc = "permit", !.new = next_inc,
                                                !.keep = dead[i].unavail]
                   ELSE /\ UNCHANGED fleet
                        /\ sup' = [sup EXCEPT !.pc = "failed"]
        /\ UNCHANGED <<generation, closing, live, dead, killed, suppress, termreq, lockVars,
                       cr, rd, rm, disp, phase, respawnQ, envVars, store>>

\* LifecycleGate::try_begin, then the first staleness check: a disposal, a
\* generation change or a kill abandons the respawn without an error.
SupPermit ==
    /\ sup.pc = "permit"
    /\ \/ /\ gate.disposing \/ gate.closing \/ generation # sup.gen \/ sup.id \in killed
          /\ fleet' = CancelCreate(fleet, sup.id, sup.new)
          /\ pending' = FinishReplacement(sup.id, sup.new)
          /\ sup' = IdleSup
          /\ UNCHANGED gate
       \/ /\ ~gate.disposing /\ ~gate.closing /\ generation = sup.gen /\ sup.id \notin killed
          /\ gate' = [gate EXCEPT !.active = @ + 1]
          /\ sup' = [sup EXCEPT !.pc = "spawn"]
          /\ UNCHANGED <<fleet, pending>>
    /\ UNCHANGED <<generation, closing, live, dead, failed, killed, suppress, termreq, next_inc,
                   pgate, cr, rd, rm, disp, phase, respawnQ, envVars, store>>

\* Mutation: the permit is leaked.
SupReturnKeepsPermit(next) ==
    /\ sup' = next
    /\ pgate' = "free"
    /\ UNCHANGED gate

\* Return from respawn_internal: guards dropped, to `next` (idle or failed).
SupReturn(next) ==
    /\ sup' = next
    /\ gate' = [gate EXCEPT !.active = @ - 1]
    /\ pgate' = "free"

SupSpawnFails ==
    /\ sup.pc = "spawn"
    /\ pgate = "free"
    /\ Op("spawn_fault")
    /\ FinishFailedReplacement(sup.id, sup.new, FALSE, sup.keep)
    /\ SupReturn([sup EXCEPT !.pc = "failed"])
    /\ UNCHANGED <<generation, closing, killed, suppress, termreq, next_inc,
                   cr, rd, rm, disp, phase, respawnQ, stopped, lastEvt, atStop>>

\* Publish the replacement under the persistence gate, if source tombstone,
\* reservation and generation still stand.
SupPublish ==
    LET i == sup.id
        current == RespawnReplacementIsCurrent(i, sup.inc, sup.new)
        stale == gate.disposing \/ generation # sup.gen \/ i \in killed
    IN  /\ sup.pc = "spawn"
        /\ pgate = "free"
        /\ \/ /\ ~current \/ stale
              /\ fleet' = CancelCreate(fleet, i, sup.new)
              /\ pending' = FinishReplacement(i, sup.new)
              /\ SupReturn(IF current THEN IdleSup ELSE [sup EXCEPT !.pc = "failed"])
              /\ UNCHANGED <<live, dead, killed, rd>>
           \/ /\ current /\ ~stale
              /\ killed' = killed \ {i}
              /\ dead' = [dead EXCEPT ![i] = NoDead]
              /\ live' = [live EXCEPT ![i] = sup.new]
              /\ fleet' = PublishLive(fleet, i, sup.new)
              /\ rd' = [rd EXCEPT ![sup.new] =
                          [NoReader EXCEPT !.pc = "starting", !.id = i, !.gen = sup.gen,
                                           !.policy = sup.policy, !.target = sup.target,
                                           !.count = sup.count + 1]]
              /\ sup' = [sup EXCEPT !.pc = "start"]
              /\ pgate' = "supervisor"
              /\ UNCHANGED <<pending, gate>>
        /\ UNCHANGED <<generation, closing, failed, suppress, termreq, next_inc, cr, rm, disp,
                       phase, respawnQ, envVars, store>>

SupStart ==
    /\ sup.pc = "start"
    /\ store' = SaveSession(store, sup.id, sup.new, FALSE)
    /\ rd' = [rd EXCEPT ![sup.new].pc = "running"]
    /\ sup' = [sup EXCEPT !.pc = "finish"]
    /\ UNCHANGED <<fleetVars, idVars, lockVars, cr, rm, disp, phase, respawnQ, envVars>>

\* The row is written but the OS refuses the reader thread.
SupStartFails ==
    /\ sup.pc = "start"
    /\ Op("thread_fault")
    /\ store' = SaveSession(store, sup.id, sup.new, FALSE)
    /\ sup' = [sup EXCEPT !.pc = "unstart"]
    /\ UNCHANGED <<fleetVars, idVars, lockVars, cr, rd, rm, disp, phase, respawnQ,
                   terminated, stopped, lastEvt, atStop>>

\* ... finish_failed_replacement_locked.
SupUnstart ==
    /\ sup.pc = "unstart"
    /\ FinishFailedReplacement(sup.id, sup.new, FALSE, sup.keep)
    /\ rd' = [rd EXCEPT ![sup.new] = [NoReader EXCEPT !.pc = "done"]]
    /\ SupReturn([sup EXCEPT !.pc = "failed"])
    /\ UNCHANGED <<generation, closing, killed, suppress, termreq, next_inc,
                   cr, rm, disp, phase, respawnQ, ops, stopped, lastEvt, atStop>>

SupFinish ==
    /\ sup.pc = "finish"
    /\ pending' = FinishReplacement(sup.id, sup.new)
    /\ SupReturn(IdleSup)
    /\ UNCHANGED <<fleetVars, live, dead, failed, killed, suppress, termreq, next_inc,
                   cr, rd, rm, disp, phase, respawnQ, envVars, store>>

\* finish_respawn_source_failure: settle the source tombstone if it still
\* waits for this very restart.
SupFailed ==
    LET i == sup.id
        owns == /\ pending[i] = NoInc
                /\ IsRestartPending(fleet, i, sup.inc)
                /\ dead[i].inc = sup.inc
                /\ dead[i].will_restart /\ ~dead[i].cancelled
        unavail == dead[i].unavail \/ sup.lost
    IN  /\ sup.pc = "failed"
        /\ pgate = "free"
        /\ \/ /\ owns
              /\ dead' = [dead EXCEPT ![i].unavail = unavail, ![i].will_restart = FALSE]
              /\ fleet' = CancelRestartPending(fleet, i, sup.inc)
              /\ store' = IF unavail THEN MarkSessionUnavailable(store, i, sup.inc)
                                     ELSE MarkSessionDead(store, i, sup.inc)
           \/ /\ ~owns
              /\ UNCHANGED <<dead, fleet, store>>
        /\ sup' = IdleSup
        /\ UNCHANGED <<generation, closing, live, failed, pending, killed, suppress, termreq,
                       next_inc, lockVars, cr, rd, rm, disp, phase, respawnQ, envVars>>

SupStep ==
    \/ SupReceive \/ SupBackoffOver \/ SupReserve \/ SupPermit \/ SupPublish
    \/ SupStart \/ SupUnstart \/ SupFinish \/ SupFailed

(***************************************************************************)
(* kill, request_termination, mark_target_unavailable, remove, the sweeper *)
(***************************************************************************)
Kill(i) ==
    /\ phase = "up"
    /\ pgate = "free"
    /\ Op("kill")
    /\ KillInternalImpl(i, FALSE)
    /\ UNCHANGED <<generation, closing, failed, termreq, next_inc, lockVars, procVars,
                   lastEvt, atStop, store>>

\* The checks request_termination makes before it looks at the session.
ManagerClosing ==
    gate.disposing \/ closing \/ fleet.closing \/ fleet.disposing \/ fleet.handoff_active

\* A guarded termination by exact incarnation: SIGKILL a live session, or
\* cancel the restart a tombstone waits for.  Every refusal leaves the state
\* alone.
RequestTermination(i, inc) ==
    /\ phase = "up"
    /\ pgate = "free"
    /\ ~ManagerClosing
    /\ pending[i] = NoInc
    /\ inc # NoInc
    /\ inc = IF live[i] # NoInc THEN live[i] ELSE dead[i].inc
    /\ inc \notin termreq /\ ~dead[i].cancelled
    /\ Op("terminate")
    /\ \/ /\ live[i] = inc
          /\ termreq' = termreq \union {inc}
          /\ Terminate({inc})
          /\ UNCHANGED <<dead, fleet>>
       \/ /\ live[i] = NoInc
          /\ dead[i].will_restart
          /\ IsRestartPending(fleet, i, inc)
          /\ dead' = [dead EXCEPT ![i].will_restart = FALSE, ![i].cancelled = TRUE]
          /\ fleet' = CancelRestartPending(fleet, i, inc)
          /\ UNCHANGED <<termreq, terminated>>
    /\ stopped' = stopped \union {inc}
    /\ UNCHANGED <<generation, closing, live, failed, pending, killed, suppress, next_inc,
                   lockVars, procVars, lastEvt, atStop, store>>

\* The API found the target of a failed create gone: turn the tombstone or the
\* failed replacement into a retained unavailable identity.
MarkTargetUnavailable(i) ==
    /\ phase = "up"
    /\ pgate = "free"
    /\ live[i] = NoInc /\ pending[i] = NoInc
    /\ Op("unavailable")
    /\ \/ /\ dead[i].inc # NoInc /\ dead[i].target
          /\ dead' = [dead EXCEPT ![i].unavail = TRUE, ![i].will_restart = FALSE]
          /\ store' = MarkSessionUnavailable(store, i, dead[i].inc)
          /\ UNCHANGED failed
       \/ /\ dead[i].inc = NoInc /\ failed[i].inc # NoInc
          /\ dead' = [dead EXCEPT ![i] = [Tombstone(failed[i].inc, TRUE) EXCEPT !.unavail = TRUE]]
          /\ failed' = [failed EXCEPT ![i] = NoFailed]
          /\ store' = SaveSession(store, i, failed[i].inc, TRUE)
    /\ UNCHANGED <<fleetVars, live, pending, killed, suppress, termreq, next_inc, lockVars,
                   procVars, terminated, stopped, lastEvt, atStop>>

RemoveBegin(i) ==
    /\ phase = "up"
    /\ rm["api"].pc = "idle"
    /\ Op("remove")
    /\ rm' = [rm EXCEPT !["api"] = [IdleRm EXCEPT !.pc = "lock", !.id = i]]
    /\ UNCHANGED <<fleetVars, idVars, lockVars, cr, rd, sup, disp, phase, respawnQ,
                   terminated, stopped, lastEvt, atStop, store>>

\* What the sweeper may remove once its TTL is over: a tombstone, or the record
\* of a failed replacement, that is not a retained unavailable identity.
Sweepable ==
    {x \in Ids \X Incs :
        LET i == x[1]
        IN  IF dead[i].inc # NoInc THEN dead[i].inc = x[2] /\ ~dead[i].unavail
            ELSE failed[i].inc = x[2] /\ ~failed[i].unavail}

\* A tick of the sweeper: prune_killed_markers, then note what has expired.
SweepTick ==
    /\ rm["sweep"].pc = "idle" /\ rm["sweep"].expired = {}
    /\ Op("sweep")
    /\ killed' = {i \in killed : CurrentInc(i) # NoInc \/ pending[i] # NoInc}
    /\ termreq' = {n \in termreq : \E i \in Ids : live[i] = n}
    /\ \E S \in SUBSET Sweepable : rm' = [rm EXCEPT !["sweep"].expired = S]
    /\ UNCHANGED <<fleetVars, live, dead, failed, pending, suppress, next_inc, lockVars,
                   cr, rd, sup, disp, phase, respawnQ, terminated, stopped, lastEvt, atStop,
                   store>>

\* The next expired identity is removed if it still is what it was; this check
\* precedes the persistence gate.
SweepCheck ==
    LET s == rm["sweep"]
    IN  /\ s.pc = "idle"
        /\ \E x \in s.expired :
             rm' = [rm EXCEPT !["sweep"] =
                      IF x \in Sweepable
                        THEN [s EXCEPT !.pc = "lock", !.id = x[1], !.expected = x[2],
                                       !.expired = @ \ {x}]
                        ELSE [s EXCEPT !.expired = @ \ {x}]]
        /\ UNCHANGED <<fleetVars, idVars, lockVars, cr, rd, sup, disp, phase, respawnQ,
                       envVars, store>>

\* Return from remove_with_expected.
RemoveReturn(r) == rm' = [rm EXCEPT ![r] = [IdleRm EXCEPT !.expired = rm[r].expired]]

\* remove_with_expected: gate, identity, durable removal, eviction.
RemoveLock(r) ==
    /\ rm[r].pc = "lock"
    /\ pgate = "free"
    /\ next_inc <= MaxInc
    /\ next_inc' = next_inc + 1
    /\ IF rm[r].expected \notin {NoInc, CurrentInc(rm[r].id)}
         THEN RemoveReturn(r) /\ UNCHANGED pgate
         ELSE /\ rm' = [rm EXCEPT ![r].pc = "delete", ![r].inc = next_inc]
              /\ pgate' = r
    /\ UNCHANGED <<fleetVars, live, dead, failed, pending, killed, suppress, termreq,
                   gate, cr, rd, sup, disp, phase, respawnQ, envVars, store>>

\* The worker deletes the row and replies.
RemoveDelete(r) ==
    /\ rm[r].pc = "delete"
    /\ store' = DeleteSession(store, rm[r].id, rm[r].inc)
    /\ rm' = [rm EXCEPT ![r].pc = "evict"]
    /\ UNCHANGED <<fleetVars, idVars, lockVars, cr, rd, sup, disp, phase, respawnQ, envVars>>

\* The worker replies with an error: remove gives up, nothing is evicted.
RemoveDeleteFails(r) ==
    /\ rm[r].pc = "delete"
    /\ Op("store_fault")
    /\ RemoveReturn(r)
    /\ pgate' = "free"
    /\ UNCHANGED <<fleetVars, idVars, gate, cr, rd, sup, disp, phase, respawnQ,
                   terminated, stopped, lastEvt, atStop, store>>

RemoveEvict(r) ==
    LET i == rm[r].id
    IN  /\ rm[r].pc = "evict"
        /\ pending' = [pending EXCEPT ![i] = NoInc]
        /\ failed' = [failed EXCEPT ![i] = NoFailed]
        /\ killed' = killed \union {i}
        /\ fleet' = RemoveAllForId(fleet, i)
        /\ live' = [live EXCEPT ![i] = NoInc]
        /\ dead' = [dead EXCEPT ![i] = NoDead]
        /\ Terminate({live[i]})
        /\ stopped' = Stopped(i)
        /\ RemoveReturn(r)
        /\ pgate' = "free"
        /\ UNCHANGED <<generation, closing, suppress, termreq, next_inc, gate, cr, rd, sup,
                       disp, phase, respawnQ, ops, lastEvt, atStop, store>>

RemoveStep(r) == RemoveLock(r) \/ RemoveDelete(r) \/ RemoveEvict(r)

(***************************************************************************)
(* dispose_internal (workspace switch, and the last step of shutdown)      *)
(***************************************************************************)
\* LifecycleGate::begin_dispose up to the wait for the permits.
DisposeGate(final) ==
    /\ disp.pc = "idle"
    /\ ~gate.disposing
    /\ gate' = [gate EXCEPT !.disposing = TRUE, !.closing = @ \/ final]
    /\ disp' = [IdleDisp EXCEPT !.pc = "drain", !.closing = final]

DisposeBegin ==
    /\ phase = "up"
    /\ Op("dispose")
    /\ DisposeGate(FALSE)
    /\ UNCHANGED <<fleetVars, idVars, pgate, cr, rd, sup, rm, phase, respawnQ,
                   terminated, stopped, lastEvt, atStop, store>>

\* Every (id, incarnation) the manager retains.
Identities ==
    {x \in Ids \X Incs : x[2] \in {live[x[1]], dead[x[1]].inc, failed[x[1]].inc}}

\* All permits are back and the persistence gate is taken: fence everything.
DisposeMark ==
    /\ disp.pc = "drain"
    /\ gate.active = 0
    /\ pgate = "free"
    /\ pgate' = "dispose"
    /\ closing' = (closing \/ disp.closing)
    /\ fleet' = IF disp.closing THEN MarkClosing(fleet, TRUE) ELSE MarkDisposing(fleet, TRUE)
    /\ generation' = generation + 1
    /\ disp' = [disp EXCEPT !.pc = IF disp.closing THEN "clear" ELSE "remove",
                            !.prev = generation,
                            !.todo = Identities]
    /\ UNCHANGED <<idVars, gate, cr, rd, sup, rm, phase, respawnQ, envVars, store>>

\* Return from dispose_internal: both guards dropped.
DisposeReturn ==
    /\ disp' = IdleDisp
    /\ gate' = [gate EXCEPT !.disposing = FALSE]
    /\ pgate' = "free"

\* Durable removal of the next identity ...
DisposeRemove ==
    /\ disp.pc = "remove"
    /\ next_inc <= MaxInc
    /\ next_inc' = next_inc + 1
    /\ \E x \in disp.todo :
         /\ store' = DeleteSession(store, x[1], next_inc)
         /\ disp' = [disp EXCEPT !.pc = "evict", !.todo = @ \ {x}, !.cur = x]
    /\ UNCHANGED <<fleetVars, live, dead, failed, pending, killed, suppress, termreq, lockVars,
                   cr, rd, sup, rm, phase, respawnQ, envVars>>

\* ... or its failure, which abandons the disposal.  The generation is put
\* back when the worker reports an error, but not when the worker is gone.
DisposeRemoveFails ==
    /\ disp.pc = "remove"
    /\ disp.todo # {}
    /\ Op("store_fault")
    /\ next_inc <= MaxInc
    /\ next_inc' = next_inc + 1
    /\ generation' \in {disp.prev, generation}
    /\ DisposeReturn
    /\ UNCHANGED <<fleet, closing, live, dead, failed, pending, killed, suppress, termreq,
                   cr, rd, sup, rm, phase, respawnQ, terminated, stopped, lastEvt, atStop, store>>

\* evict_identity_after_durable_removal
DisposeEvict ==
    LET i == disp.cur[1]
        inc == disp.cur[2]
    IN  /\ disp.pc = "evict"
        /\ disp' = [disp EXCEPT !.pc = "remove", !.cur = <<NoId, NoInc>>]
        /\ IF inc \notin {live[i], dead[i].inc, failed[i].inc}
           THEN UNCHANGED <<pending, killed, fleet, live, dead, failed, terminated, stopped>>
           ELSE
              /\ pending' = [pending EXCEPT ![i] = NoInc]
              /\ killed' = killed \union {i}
              /\ fleet' = RemoveAllForId(fleet, i)
              /\ live' = IF live[i] = inc THEN [live EXCEPT ![i] = NoInc] ELSE live
              /\ dead' = IF dead[i].inc = inc THEN [dead EXCEPT ![i] = NoDead] ELSE dead
              /\ failed' = IF failed[i].inc = inc THEN [failed EXCEPT ![i] = NoFailed] ELSE failed
              /\ Terminate({live[i]} \intersect {inc})
              /\ stopped' = stopped \union {inc}
        /\ UNCHANGED <<generation, closing, suppress, termreq, next_inc, lockVars, cr, rd, sup,
                       rm, phase, respawnQ, ops, lastEvt, atStop, store>>

\* Whatever is left is killed and forgotten.
DisposeClear ==
    /\ \/ disp.pc = "clear"
       \/ disp.pc = "remove" /\ disp.todo = {}
    /\ killed' = killed \union {i \in Ids : CurrentInc(i) # NoInc}
    /\ live' = NoEntries
    /\ dead' = [i \in Ids |-> NoDead]
    /\ failed' = [i \in Ids |-> NoFailed]
    /\ pending' = NoEntries
    /\ termreq' = {}
    /\ Terminate({live[i] : i \in Ids})
    /\ stopped' = stopped \union {x[2] : x \in Identities}
    /\ disp' = [disp EXCEPT !.pc = "unmark"]
    /\ UNCHANGED <<fleetVars, suppress, next_inc, lockVars, cr, rd, sup, rm, phase, respawnQ,
                   ops, lastEvt, atStop, store>>

DisposeUnmark ==
    /\ disp.pc = "unmark"
    /\ fleet' = IF disp.closing THEN fleet ELSE MarkDisposing(fleet, FALSE)
    /\ phase' = IF disp.closing THEN "joining" ELSE phase
    /\ DisposeReturn
    /\ UNCHANGED <<generation, closing, idVars, cr, rd, sup, rm, respawnQ, envVars, store>>

DisposeStep == DisposeMark \/ DisposeRemove \/ DisposeEvict \/ DisposeClear \/ DisposeUnmark

(***************************************************************************)
(* The idle-suspend coordinator.  It claims with the generation of a       *)
(* snapshot it has seen; a claim whose generation is stale changes nothing,*)
(* so only the claims that carry the current one are steps.                *)
(***************************************************************************)
Claim(CanClaim(_, _)) ==
    /\ phase = "up"
    /\ CanClaim(fleet, fleet.generation)
    /\ Op("claim")
    /\ fleet' = ClaimHandoff(fleet)
    /\ UNCHANGED <<generation, closing, idVars, lockVars, procVars, terminated, stopped,
                   lastEvt, atStop, store>>

TryClaimHandoff       == Claim(CanClaimQuiescent)
TryClaimForcedHandoff == Claim(CanClaimForced)
TryClaimAgentHandoff  == Claim(CanClaimAgent)

Release ==
    /\ fleet.handoff_active
    /\ fleet' = ReleaseHandoff(fleet)
    /\ UNCHANGED <<generation, closing, idVars, lockVars, procVars, envVars, store>>

(***************************************************************************)
(* Graceful shutdown (main.rs): stop_all_for_shutdown, wait_for_readers,   *)
(* then shutdown.                                                          *)
(***************************************************************************)
StopAll ==
    /\ phase = "up"
    /\ Op("stop")
    /\ fleet' = MarkClosing(fleet, TRUE)
    /\ killed' = killed \union {i \in Ids : live[i] # NoInc \/ dead[i].inc # NoInc}
    /\ pending' = NoEntries
    /\ failed' = [i \in Ids |-> NoFailed]
    /\ Terminate({live[i] : i \in Ids})
    /\ stopped' = stopped \union ({CurrentInc(i) : i \in Ids} \ {NoInc})
    /\ atStop' = live
    /\ phase' = "draining"
    /\ UNCHANGED <<generation, closing, live, dead, suppress, termreq, next_inc, lockVars,
                   cr, rd, sup, rm, disp, respawnQ, lastEvt, store>>

\* active_reader_count is 0.
ReadersDone == \A n \in Incs : rd[n].pc \in {"none", "starting", "done"}

Shutdown ==
    /\ phase = "draining"
    /\ ReadersDone
    /\ DisposeGate(TRUE)
    /\ phase' = "closing"
    /\ UNCHANGED <<fleetVars, idVars, pgate, cr, rd, sup, rm, respawnQ, envVars, store>>

\* readers.join_all(); then the persistence worker is told to stop.
JoinReaders ==
    /\ phase = "joining"
    /\ ReadersDone
    /\ phase' = "closed"
    /\ UNCHANGED <<fleetVars, idVars, lockVars, cr, rd, sup, rm, disp, respawnQ, envVars, store>>

(***************************************************************************)
(* The specification                                                       *)
(***************************************************************************)
Next ==
    \/ \E c \in Callers :
         CreateBegin(c) \/ CreateStep(c) \/ CreateSpawnFails(c) \/ CreateStartFails(c)
    \/ \E n \in Incs :
         ReaderStep(n) \/ ReaderData(n) \/ NaturalExit(n) \/ ReaderWaitFails(n)
    \/ SupStep \/ SupTargetFails \/ SupSpawnFails \/ SupStartFails
    \/ \E i \in Ids :
         Kill(i) \/ MarkTargetUnavailable(i) \/ RemoveBegin(i)
    \/ \E i \in Ids, inc \in Incs : RequestTermination(i, inc)
    \/ SweepTick \/ SweepCheck
    \/ \E r \in Removers : RemoveStep(r) \/ RemoveDeleteFails(r)
    \/ DisposeBegin \/ DisposeStep \/ DisposeRemoveFails
    \/ TryClaimHandoff \/ TryClaimForcedHandoff \/ TryClaimAgentHandoff \/ Release
    \/ StopAll \/ Shutdown \/ JoinReaders

Spec == Init /\ [][Next]_vars

\* Threads and tasks that can take a step eventually do.  Requests, exits of
\* running processes, faults, sweeps and claims are the environment's choice.
Fairness ==
    /\ \A c \in Callers : WF_vars(CreateStep(c))
    /\ \A n \in Incs : WF_vars(ReaderStep(n))
    /\ WF_vars(SupStep)
    /\ \A r \in Removers : WF_vars(RemoveStep(r))
    /\ WF_vars(SweepCheck)
    /\ WF_vars(DisposeStep)
    /\ WF_vars(Shutdown \/ JoinReaders)

FairSpec == Spec /\ Fairness

(***************************************************************************)
(* Invariants                                                              *)
(***************************************************************************)
IncType    == Incs \union {NoInc}
IdType     == Ids \union {NoId}
PolicyType == {"never", "on_failure", "always"}
DeadType   == [inc : IncType, will_restart : BOOLEAN, cancelled : BOOLEAN,
               unavail : BOOLEAN, target : BOOLEAN]
FailedType == [inc : IncType, unavail : BOOLEAN]
PhaseType  == {"up", "draining", "closing", "joining", "closed"}
PGateType  == {"free", "create", "supervisor", "dispose"} \union Removers
GateType   == [active : Nat, disposing : BOOLEAN, closing : BOOLEAN]
CmdType    == [id : Ids, inc : Incs, gen : Nat, policy : PolicyType, count : Nat,
               target : BOOLEAN]
ReaderType == [pc : {"none", "starting", "running", "persist", "respawn", "cancel",
                     "emit", "done"},
               id : IdType, gen : Nat, policy : PolicyType, count : Nat,
               target : BOOLEAN, restart : BOOLEAN]
CreateType == [pc : {"idle", "admit", "evict", "reserve", "spawn", "start", "unstart",
                     "rekill", "finish"},
               id : IdType, inc : IncType, policy : PolicyType, target : BOOLEAN,
               gen : Nat, retry : BOOLEAN]
SupType    == [pc : {"idle", "backoff", "validate", "permit", "spawn", "start", "unstart",
                     "finish", "failed"},
               id : IdType, inc : IncType, gen : Nat, policy : PolicyType, count : Nat,
               target : BOOLEAN, new : IncType, keep : BOOLEAN, lost : BOOLEAN]
RemoveType == [pc : {"idle", "lock", "delete", "evict"}, id : IdType,
               expected : IncType, inc : IncType, expired : SUBSET (Ids \X Incs)]
DisposeType == [pc : {"idle", "drain", "remove", "evict", "clear", "unmark"},
                closing : BOOLEAN, prev : Nat, todo : SUBSET (Ids \X Incs),
                cur : IdType \X IncType]

InnerTypeOK ==
    /\ fleet \in FleetType
    /\ live \in [Ids -> IncType]
    /\ pending \in [Ids -> IncType]
    /\ dead \in [Ids -> DeadType]
    /\ failed \in [Ids -> FailedType]
    /\ next_inc \in 1 .. MaxInc + 1
    /\ generation \in Nat
    /\ closing \in BOOLEAN
    /\ killed \subseteq Ids
    /\ suppress \in [Ids -> Nat]
    /\ termreq \subseteq Incs

TaskTypeOK ==
    /\ gate \in GateType
    /\ pgate \in PGateType
    /\ respawnQ \in Seq(CmdType)
    /\ store \in StoreType
    /\ rd \in [Incs -> ReaderType]
    /\ cr \in [Callers -> CreateType]
    /\ sup \in SupType
    /\ rm \in [Removers -> RemoveType]
    /\ disp \in DisposeType
    /\ phase \in PhaseType

EnvTypeOK ==
    /\ terminated \subseteq Incs
    /\ ops \in 0 .. MaxOps
    /\ stopped \subseteq Incs
    /\ lastEvt \in [Ids -> IncType]
    /\ atStop \in [Ids -> IncType]

\* Every variable has its type: maps hold incarnations, tasks are at places the
\* code has, and the permits out are counted in a natural number.
TypeOK == InnerTypeOK /\ TaskTypeOK /\ EnvTypeOK

\* An id has one current identity: it is never at once a live session, a
\* tombstone and a failed replacement, through every kill, create, exit,
\* respawn and failure of those.
OneIdentity ==
    \A i \in Ids :
        /\ live[i] # NoInc => dead[i].inc = NoInc /\ failed[i].inc = NoInc
        /\ dead[i].inc # NoInc => failed[i].inc = NoInc

\* The fleet never looks idle while a session is live or while a spawn that
\* is still allowed to publish is in flight: a host suspend claimed on a
\* quiescent fleet cuts off no process the manager would keep.
QuiescentMeansIdle ==
    IsQuiescent(Snapshot(fleet)) =>
        /\ \A i \in Ids : live[i] = NoInc
        /\ \A c \in Callers : cr[c].pc = "spawn" => ~ReplacementIsCurrent(cr[c].id, cr[c].inc)
        /\ sup.pc = "spawn" => ~RespawnReplacementIsCurrent(sup.id, sup.inc, sup.new)

\* Callers and the supervisor hold exactly the permits that the lifecycle
\* gate counts, and none while a disposal evicts sessions: no create or
\* respawn publishes into a manager that is being emptied.
CreateHoldsPermit(c) == cr[c].pc # "idle"
SupHoldsPermit == sup.pc \in {"spawn", "start", "unstart", "finish"}
PermitHolders == {c \in Callers : CreateHoldsPermit(c)}
PermitsCounted ==
    gate.active = Cardinality(PermitHolders) + (IF SupHoldsPermit THEN 1 ELSE 0)
DisposalIsExclusive ==
    /\ PermitsCounted
    /\ disp.pc \in {"remove", "evict", "clear", "unmark"} => gate.active = 0

\* A removal or disposal is between its durable delete and its eviction of i.
BeingRemoved(i) ==
    \/ \E r \in Removers : rm[r].pc = "evict" /\ rm[r].id = i
    \/ disp.pc = "evict" /\ disp.cur[1] = i

\* A live session whose reader runs is in the database, alive and under its
\* own incarnation: a crash of the server at any moment restores it.
LiveIsDurable ==
    \A i \in Ids :
        live[i] # NoInc /\ rd[live[i]].pc = "running" /\ ~BeingRemoved(i) =>
            i \in LoadSessions(store) /\ store.rows[i].inc = live[i]

\* A restart that is queued, or that the supervisor has not yet reserved, is
\* never blocked by the reservation of its own create or respawn: the reader
\* queues it under the persistence gate, which that create or respawn holds
\* until its reservation is finished.
QueuedRestarts ==
    {[id |-> respawnQ[k].id, inc |-> respawnQ[k].inc] : k \in DOMAIN respawnQ} \union
    (IF sup.pc \in {"backoff", "validate"} THEN {[id |-> sup.id, inc |-> sup.inc]} ELSE {})
RestartNotSelfBlocked ==
    \A q \in QueuedRestarts :
        (dead[q.id].inc = q.inc /\ q.id \notin killed) => pending[q.id] = NoInc

(***************************************************************************)
(* termination_inventory_snapshot: the state it reports for i.             *)
(***************************************************************************)
InventoryState(i) ==
    IF live[i] # NoInc
      THEN CASE ManagerClosing \/ pending[i] # NoInc -> "Unavailable"
             [] OTHER -> IF live[i] \in termreq THEN "TerminationRequested" ELSE "Live"
      ELSE CASE ManagerClosing \/ dead[i].unavail \/ pending[i] # NoInc -> "Unavailable"
             [] OTHER -> IF dead[i].cancelled THEN "RestartCancelled"
                         ELSE IF ~dead[i].will_restart THEN "Exited"
                         ELSE IF IsRestartPending(fleet, i, dead[i].inc) THEN "RestartPending"
                         ELSE "Unavailable"

\* A guarded termination of i would be accepted now (the guard of
\* request_termination, up to the signal's own success).
TerminationAccepted(i) ==
    LET inc == IF live[i] # NoInc THEN live[i] ELSE dead[i].inc
    IN  /\ ~ManagerClosing /\ pending[i] = NoInc
        /\ inc \notin termreq /\ ~dead[i].cancelled
        /\ live[i] # NoInc \/ (dead[i].will_restart /\ IsRestartPending(fleet, i, inc))

\* The inventory shows a session as terminable exactly when a guarded
\* termination of the shown incarnation would be accepted.
InventoryAgrees ==
    \A i \in Ids : live[i] # NoInc \/ dead[i].inc # NoInc =>
        (InventoryState(i) \in {"Live", "RestartPending"} <=> TerminationAccepted(i))

(***************************************************************************)
(* Action properties                                                       *)
(***************************************************************************)
\* The supervisor never brings back a session whose kill, removal, guarded
\* termination, disposal or shutdown came before it published.
NeverResurrect == [][sup.pc = "spawn" /\ sup'.pc = "start" => sup.inc \notin stopped]_vars

\* Clients never see an event of an older incarnation after one of a newer
\* incarnation of the same id.
EventsMonotone == [][\A i \in Ids : lastEvt'[i] >= lastEvt[i]]_vars

\* During a suspend handoff nothing new is admitted: a session becomes live
\* only if its spawn was already reserved, and reservations only disappear.
HandoffFreezesFleet ==
    [][fleet.handoff_active =>
         \A i \in Ids : /\ live'[i] \in {live[i], NoInc, fleet.creating[i]}
                        /\ fleet'.creating[i] \in {fleet.creating[i], NoInc}]_vars

\* When a graceful shutdown is over no session is live and no reader thread is
\* left that would still persist or report an exit: the persistence worker,
\* which stops next, has been sent everything.
ClosedStaysEmpty ==
    phase = "closed" => live = NoEntries /\ \A n \in Incs : rd[n].pc \in {"none", "done"}

\* What others are told of the sessions is true in every state: the fleet looks
\* idle to the suspend coordinator only when it is, the inventory and the
\* guarded termination agree, a restart waits for nobody that waits for it, and
\* a closed manager has nothing left.
SessionsAgree ==
    QuiescentMeansIdle /\ InventoryAgrees /\ RestartNotSelfBlocked /\ ClosedStaysEmpty

(***************************************************************************)
(* Refinement                                                              *)
(***************************************************************************)
\* An incarnation has run once its reader record exists.
Slots == INSTANCE SessionSlots WITH
            Slots <- Ids, Names <- Incs,
            running <- live, spent <- {n \in Incs : rd[n].pc # "none"}

\* The manager implements the session slots its clients rely on: however
\* creates, exits, restarts, removals, disposals and their failures
\* interleave, a process starts only in an empty slot and under a fresh
\* incarnation.
ImplementsSlots == Slots!Spec

(***************************************************************************)
(* Liveness                                                                *)
(***************************************************************************)
\* A session awaiting restart does not keep the fleet busy for ever: while the
\* server is up its reservation is eventually taken up or cancelled.
RestartResolved ==
    \A i \in Ids : fleet.restart_pending[i] # NoInc ~>
                   (fleet.restart_pending[i] = NoInc \/ phase # "up")

\* A graceful shutdown completes.
ShutdownCompletes == phase = "draining" ~> phase = "closed"

(***************************************************************************)
(* What comments and documents of the repository say, and the code does    *)
(* not do; none of these holds (README, known deviations)                  *)
(***************************************************************************)
\* fleet_state.rs: `disposing` is "True when the PTY manager is currently
\* disposing sessions".
DisposingMeansDisposing == fleet.disposing => disp.pc \notin {"idle", "drain"}

\* manager.rs: pending_replacements is the "PTY setup currently in progress
\* for each reusable public id".
PendingMeansSetup ==
    \A i \in Ids : pending[i] # NoInc =>
        \/ \E c \in Callers : cr[c].pc # "idle" /\ cr[c].inc = pending[i]
        \/ sup.pc # "idle" /\ sup.new = pending[i]

\* fleet_state.rs: live_count is the "Authoritative count of live, running
\* PTY sessions".  While nobody works under the persistence gate, every
\* session the fleet counts as live is live.
FleetLiveIsLive ==
    pgate = "free" /\ ~fleet.closing =>
        \A i \in Ids : fleet.live[i] # NoInc => live[i] = fleet.live[i]

\* manager.rs, mark_replacement_failed and suppress_exit_counts: the row of an
\* evicted or exited session must not remain alive and be resurrected on
\* restart.  A row is restorable only while its session is live, its reader
\* has still to report the exit, or somebody works under the persistence gate.
NoGhostRow ==
    \A i \in LoadSessions(store) :
        LET row == store.rows[i]
        IN  \/ row.unavail
            \/ live[i] = row.inc
            \/ rd[row.inc].pc \notin {"none", "done", "emit"}
            \/ pgate # "free"

\* docs/configuration/server-runtime-settings.md: "On DamHopper server restart,
\* sessions that were alive are relaunched".
AliveSessionsRestored ==
    phase = "closed" => \A i \in Ids : atStop[i] # NoInc => i \in LoadSessions(store)
=============================================================================
