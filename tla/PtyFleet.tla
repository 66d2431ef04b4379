------------------------------ MODULE PtyFleet ------------------------------
(***************************************************************************)
(* The PTY fleet tracker of server/src/pty/fleet_state.rs.                 *)
(*                                                                         *)
(* PtyFleetState counts the sessions that are live, being spawned or       *)
(* waiting for an automatic restart, and decides whether an idle-suspend   *)
(* handoff of the host may be claimed.  It lives inside the PTY manager's  *)
(* inner mutex, so every method is one atomic step.  The value of the      *)
(* tracker is a record; each method is an operator from that record (and   *)
(* its arguments) to the next record.  Fallible methods come with a        *)
(* predicate that says when they return Ok.                                *)
(*                                                                         *)
(* The three maps from session id to incarnation are total functions with  *)
(* NoInc for an absent key.                                                *)
(***************************************************************************)
EXTENDS Naturals, FiniteSets

CONSTANTS
    Ids,         \* reusable public session ids
    GenModulus   \* the generation is a u64 that wraps: 2^64 in the code

ASSUME FleetAssumption == /\ IsFiniteSet(Ids)
                          /\ GenModulus \in Nat \ {0}

\* Incarnations are positive; 0 stands for "the map has no entry".
NoInc == 0

Incarnations == Nat

FleetType ==
    [ live            : [Ids -> Incarnations],
      creating        : [Ids -> Incarnations],
      restart_pending : [Ids -> Incarnations],
      generation      : 0 .. GenModulus - 1,
      disposing       : BOOLEAN,
      closing         : BOOLEAN,
      handoff_active  : BOOLEAN ]

NoEntries == [i \in Ids |-> NoInc]

\* Mutation: an addition that does not wrap.
NextGenerationUnwrapped(g) == g + 1

\* u64::wrapping_add(1).
NextGeneration(g) == IF g + 1 = GenModulus THEN 0 ELSE g + 1

NewFleet ==
    [ live |-> NoEntries, creating |-> NoEntries, restart_pending |-> NoEntries,
      generation |-> NextGeneration(0),
      disposing |-> FALSE, closing |-> FALSE, handoff_active |-> FALSE ]

\* The number of keys of one of the maps.
Count(m) == Cardinality({i \in Ids : m[i] # NoInc})

IsEmpty(m) == \A i \in Ids : m[i] = NoInc

\* The content-free snapshot sent to watchers.
Snapshot(f) ==
    [ generation            |-> f.generation,
      live_count            |-> Count(f.live),
      creating_count        |-> Count(f.creating),
      restart_pending_count |-> Count(f.restart_pending),
      disposing             |-> f.disposing,
      closing               |-> f.closing,
      handoff_active        |-> f.handoff_active ]

\* PtyFleetSnapshot::is_quiescent, evaluated on a snapshot.
IsQuiescent(s) ==
    /\ s.live_count = 0
    /\ s.creating_count = 0
    /\ s.restart_pending_count = 0
    /\ ~s.disposing
    /\ ~s.closing
    /\ ~s.handoff_active

\* publish: every change of the tracker moves the generation.
Publish(f) == [f EXCEPT !.generation = NextGeneration(@)]

(***************************************************************************)
(* Session transitions                                                     *)
(***************************************************************************)
\* Mutation: the handoff check is forgotten.
SpawnAdmittedInHandoff(f) == ~f.closing

\* begin_create and transition_restart_pending_to_creating return Ok.
SpawnAdmitted(f) == ~f.handoff_active /\ ~f.closing

BeginCreate(f, i, inc) ==
    Publish([f EXCEPT !.restart_pending[i] = NoInc, !.creating[i] = inc])

PublishLive(f, i, inc) ==
    IF f.creating[i] = inc
      THEN Publish([f EXCEPT !.creating[i] = NoInc, !.live[i] = inc])
      ELSE IF f.live[i] = NoInc /\ f.creating[i] = NoInc
             THEN Publish([f EXCEPT !.live[i] = inc])
             ELSE f

CancelCreate(f, i, inc) ==
    IF f.creating[i] = inc THEN Publish([f EXCEPT !.creating[i] = NoInc]) ELSE f

TransitionLiveToRestartPending(f, i, inc) ==
    IF f.live[i] = inc
      THEN Publish([f EXCEPT !.live[i] = NoInc, !.restart_pending[i] = inc])
      ELSE f

\* Mutation: the watchers are not told.
RemoveLiveSilently(f, i, inc) ==
    IF f.live[i] = inc THEN [f EXCEPT !.live[i] = NoInc] ELSE f

RemoveLive(f, i, inc) ==
    IF f.live[i] = inc THEN Publish([f EXCEPT !.live[i] = NoInc]) ELSE f

TransitionRestartPendingToCreating(f, i, src, inc) ==
    Publish([f EXCEPT
        !.restart_pending[i] = IF @ = src THEN NoInc ELSE @,
        !.creating[i] = inc])

\* Mutation: the cancellation is lost.
CancelRestartPendingLost(f, i, inc) == f

CancelRestartPending(f, i, inc) ==
    IF f.restart_pending[i] = inc
      THEN Publish([f EXCEPT !.restart_pending[i] = NoInc])
      ELSE f

IsRestartPending(f, i, inc) == f.restart_pending[i] = inc

IsCreating(f, i, inc) == f.creating[i] = inc

RemoveAllForId(f, i) ==
    IF f.live[i] # NoInc \/ f.creating[i] # NoInc \/ f.restart_pending[i] # NoInc
      THEN Publish([f EXCEPT !.live[i] = NoInc, !.creating[i] = NoInc,
                             !.restart_pending[i] = NoInc])
      ELSE f

(***************************************************************************)
(* Manager-wide flags and the suspend handoff                              *)
(***************************************************************************)
MarkDisposing(f, d) ==
    IF f.disposing = d THEN f
    ELSE IF d
      THEN Publish([f EXCEPT !.disposing = TRUE, !.live = NoEntries,
                             !.creating = NoEntries, !.restart_pending = NoEntries])
      ELSE Publish([f EXCEPT !.disposing = FALSE])

MarkClosing(f, c) ==
    IF f.closing = c THEN f ELSE Publish([f EXCEPT !.closing = c])

\* Mutation: the generation is not compared.
ClaimFenceUnnumbered(f, expected) == ~f.closing /\ ~f.disposing /\ ~f.handoff_active

\* check_claim_common: the fence every kind of claim passes first.
ClaimFence(f, expected) ==
    /\ ~f.closing
    /\ ~f.disposing
    /\ ~f.handoff_active
    /\ f.generation = expected

\* try_claim_handoff, try_claim_forced_handoff and try_claim_agent_handoff
\* return Ok.
CanClaimQuiescent(f, expected) == ClaimFence(f, expected) /\ IsQuiescent(Snapshot(f))

CanClaimForced(f, expected) == ClaimFence(f, expected)

CanClaimAgent(f, expected) ==
    ClaimFence(f, expected) /\ IsEmpty(f.creating) /\ IsEmpty(f.restart_pending)

ClaimHandoff(f) == Publish([f EXCEPT !.handoff_active = TRUE])

ReleaseHandoff(f) ==
    IF f.handoff_active THEN Publish([f EXCEPT !.handoff_active = FALSE]) ELSE f
=============================================================================
