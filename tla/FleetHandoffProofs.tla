------------------------- MODULE FleetHandoffProofs -------------------------
(***************************************************************************)
(* The suspend-handoff fence holds for every set of session ids, every set *)
(* of incarnations and every width of the generation counter.  First what  *)
(* every method of the fleet tracker does: it keeps the tracker well typed *)
(* and leaves it alone or moves the generation.                            *)
(***************************************************************************)
EXTENDS FleetHandoff, TLAPS

\* What a method may do to the tracker: leave it alone, or change it and move
\* the generation.
Moved(f, g) == g = f \/ g.generation = NextGeneration(f.generation)

MoveTo(f, g) == g \in FleetType /\ Moved(f, g)

USE DEF NoInc, Incarnations

-----------------------------------------------------------------------------
\* The generation has a successor of the same width.
LEMMA NextGenerationType ==
    ASSUME NEW g \in 0 .. GenModulus - 1
    PROVE  NextGeneration(g) \in 0 .. GenModulus - 1
BY FleetAssumption DEF NextGeneration

\* The empty maps are maps.
LEMMA NoEntriesType == NoEntries \in [Ids -> Nat]
BY DEF NoEntries

\* The initial tracker is well typed.
LEMMA NewFleetType == NewFleet \in FleetType
BY NoEntriesType, FleetAssumption
   DEF NewFleet, FleetType, NextGeneration

\* Publishing keeps the type and moves the generation.
LEMMA PublishMoves ==
    ASSUME NEW f \in FleetType, NEW h \in FleetType, h.generation = f.generation
    PROVE  MoveTo(f, Publish(h))
<1>1. NextGeneration(h.generation) \in 0 .. GenModulus - 1
  BY NextGenerationType DEF FleetType
<1> QED
  BY <1>1 DEF MoveTo, Moved, Publish, FleetType

\* An unchanged tracker is a move.
LEMMA StayMoves == ASSUME NEW f \in FleetType PROVE MoveTo(f, f)
BY DEF MoveTo, Moved

\* Every per-session method is a move.
LEMMA SessionMoves ==
    ASSUME NEW f \in FleetType, NEW i, NEW n \in Nat, NEW m \in Nat
    PROVE  /\ MoveTo(f, BeginCreate(f, i, n))
           /\ MoveTo(f, PublishLive(f, i, n))
           /\ MoveTo(f, CancelCreate(f, i, n))
           /\ MoveTo(f, TransitionLiveToRestartPending(f, i, n))
           /\ MoveTo(f, RemoveLive(f, i, n))
           /\ MoveTo(f, TransitionRestartPendingToCreating(f, i, m, n))
           /\ MoveTo(f, CancelRestartPending(f, i, n))
           /\ MoveTo(f, RemoveAllForId(f, i))
<1>1. MoveTo(f, BeginCreate(f, i, n))
  <2> DEFINE h == [f EXCEPT !.restart_pending[i] = NoInc, !.creating[i] = n]
  <2>1. h \in FleetType /\ h.generation = f.generation
    BY DEF FleetType
  <2> QED
    BY <2>1, PublishMoves DEF BeginCreate
<1>2. MoveTo(f, PublishLive(f, i, n))
  <2> DEFINE h == [f EXCEPT !.creating[i] = NoInc, !.live[i] = n]
             k == [f EXCEPT !.live[i] = n]
  <2>1. h \in FleetType /\ h.generation = f.generation
    BY DEF FleetType
  <2>2. k \in FleetType /\ k.generation = f.generation
    BY DEF FleetType
  <2>3. MoveTo(f, Publish(h)) /\ MoveTo(f, Publish(k)) /\ MoveTo(f, f)
    BY <2>1, <2>2, PublishMoves, StayMoves
  <2> HIDE DEF h, k
  <2>4. PublishLive(f, i, n) \in {Publish(h), Publish(k), f}
    BY DEF PublishLive, h, k
  <2> QED
    BY <2>3, <2>4
<1>3. MoveTo(f, CancelCreate(f, i, n))
  <2> DEFINE h == [f EXCEPT !.creating[i] = NoInc]
  <2>1. h \in FleetType /\ h.generation = f.generation
    BY DEF FleetType
  <2> QED
    BY <2>1, PublishMoves, StayMoves DEF CancelCreate
<1>4. MoveTo(f, TransitionLiveToRestartPending(f, i, n))
  <2> DEFINE h == [f EXCEPT !.live[i] = NoInc, !.restart_pending[i] = n]
  <2>1. h \in FleetType /\ h.generation = f.generation
    BY DEF FleetType
  <2> QED
    BY <2>1, PublishMoves, StayMoves DEF TransitionLiveToRestartPending
<1>5. MoveTo(f, RemoveLive(f, i, n))
  <2> DEFINE h == [f EXCEPT !.live[i] = NoInc]
  <2>1. h \in FleetType /\ h.generation = f.generation
    BY DEF FleetType
  <2> QED
    BY <2>1, PublishMoves, StayMoves DEF RemoveLive
<1>6. MoveTo(f, TransitionRestartPendingToCreating(f, i, m, n))
  <2> DEFINE h == [f EXCEPT !.restart_pending[i] = IF @ = m THEN NoInc ELSE @,
                            !.creating[i] = n]
  <2>1. h \in FleetType /\ h.generation = f.generation
    BY DEF FleetType
  <2> QED
    BY <2>1, PublishMoves DEF TransitionRestartPendingToCreating
<1>7. MoveTo(f, CancelRestartPending(f, i, n))
  <2> DEFINE h == [f EXCEPT !.restart_pending[i] = NoInc]
  <2>1. h \in FleetType /\ h.generation = f.generation
    BY DEF FleetType
  <2> QED
    BY <2>1, PublishMoves, StayMoves DEF CancelRestartPending
<1>8. MoveTo(f, RemoveAllForId(f, i))
  <2> DEFINE h == [f EXCEPT !.live[i] = NoInc, !.creating[i] = NoInc,
                            !.restart_pending[i] = NoInc]
  <2>1. h \in FleetType /\ h.generation = f.generation
    BY DEF FleetType
  <2> QED
    BY <2>1, PublishMoves, StayMoves DEF RemoveAllForId
<1> QED
  BY <1>1, <1>2, <1>3, <1>4, <1>5, <1>6, <1>7, <1>8

\* Every manager-wide method, and a claim, is a move.
LEMMA FlagMoves ==
    ASSUME NEW f \in FleetType, NEW d \in BOOLEAN
    PROVE  /\ MoveTo(f, MarkDisposing(f, d))
           /\ MoveTo(f, MarkClosing(f, d))
           /\ MoveTo(f, ClaimHandoff(f))
           /\ MoveTo(f, ReleaseHandoff(f))
<1>1. MoveTo(f, MarkDisposing(f, d))
  <2> DEFINE h == [f EXCEPT !.disposing = TRUE, !.live = NoEntries,
                            !.creating = NoEntries, !.restart_pending = NoEntries]
             k == [f EXCEPT !.disposing = FALSE]
  <2>1. h \in FleetType /\ h.generation = f.generation
    BY NoEntriesType DEF FleetType
  <2>2. k \in FleetType /\ k.generation = f.generation
    BY DEF FleetType
  <2>3. MoveTo(f, Publish(h)) /\ MoveTo(f, Publish(k)) /\ MoveTo(f, f)
    BY <2>1, <2>2, PublishMoves, StayMoves
  <2> HIDE DEF h, k
  <2>4. MarkDisposing(f, d) \in {Publish(h), Publish(k), f}
    BY DEF MarkDisposing, h, k
  <2> QED
    BY <2>3, <2>4
<1>2. MoveTo(f, MarkClosing(f, d))
  <2> DEFINE h == [f EXCEPT !.closing = d]
  <2>1. h \in FleetType /\ h.generation = f.generation
    BY DEF FleetType
  <2> QED
    BY <2>1, PublishMoves, StayMoves DEF MarkClosing
<1>3. MoveTo(f, ClaimHandoff(f))
  <2> DEFINE h == [f EXCEPT !.handoff_active = TRUE]
  <2>1. h \in FleetType /\ h.generation = f.generation
    BY DEF FleetType
  <2> QED
    BY <2>1, PublishMoves DEF ClaimHandoff
<1>4. MoveTo(f, ReleaseHandoff(f))
  <2> DEFINE h == [f EXCEPT !.handoff_active = FALSE]
  <2>1. h \in FleetType /\ h.generation = f.generation
    BY DEF FleetType
  <2> QED
    BY <2>1, PublishMoves, StayMoves DEF ReleaseHandoff
<1> QED
  BY <1>1, <1>2, <1>3, <1>4

-----------------------------------------------------------------------------
(* The fence *)

\* With more than one value, the generation is never its own successor.
LEMMA NextGenerationMoves ==
    ASSUME NEW g \in 0 .. GenModulus - 1
    PROVE  NextGeneration(g) # g
BY FleetAssumption, HandoffAssumption DEF NextGeneration

\* Every step is an observation or a move of the tracker.
LEMMA NextMoves ==
    ASSUME TypeOK, Next
    PROVE  Observe \/ \E f \in FleetType : Moved(fleet, f) /\ Becomes(f)
<1> fleet \in FleetType /\ IncSet \subseteq Nat
  BY HandoffAssumption DEF TypeOK
<1>1. ASSUME NEW i \in Ids, NEW n \in IncSet,
             \/ Create(i, n) \/ Live(i, n) \/ CreateFailed(i, n)
             \/ ExitToRestart(i, n) \/ Exit(i, n) \/ RestartDropped(i, n)
      PROVE  \E f \in FleetType : Moved(fleet, f) /\ Becomes(f)
  BY <1>1, SessionMoves
     DEF MoveTo, Create, Live, CreateFailed, ExitToRestart, Exit, RestartDropped
<1>2. ASSUME NEW i \in Ids, NEW m \in IncSet, NEW n \in IncSet, Restart(i, m, n)
      PROVE  \E f \in FleetType : Moved(fleet, f) /\ Becomes(f)
  BY <1>2, SessionMoves DEF MoveTo, Restart
<1>3. ASSUME NEW i \in Ids, Remove(i)
      PROVE  \E f \in FleetType : Moved(fleet, f) /\ Becomes(f)
  BY <1>3, SessionMoves, 0 \in Nat DEF MoveTo, Remove
<1>4. ASSUME NEW d \in BOOLEAN, SetDisposing(d) \/ Close \/ Claim \/ Release
      PROVE  \E f \in FleetType : Moved(fleet, f) /\ Becomes(f)
  BY <1>4, FlagMoves DEF MoveTo, SetDisposing, Close, Claim, Release
<1> QED
  BY <1>1, <1>2, <1>3, <1>4 DEF Next

-----------------------------------------------------------------------------
(***************************************************************************)
(* The inductive invariant: until the counter has gone round, the          *)
(* generation is `moves` steps past the one observed, and with no move the *)
(* tracker is the one observed.                                            *)
(***************************************************************************)
Advance(g, k) == IF g + k < GenModulus THEN g + k ELSE g + k - GenModulus

Fence ==
    moves < GenModulus =>
        /\ fleet.generation = Advance(obs.generation, moves)
        /\ moves = 0 => fleet = obs

IInv == TypeOK /\ WatchedIsCurrent /\ Fence

\* It holds initially.
LEMMA InitIInv == Init => IInv
BY NewFleetType, FleetAssumption, HandoffAssumption
   DEF Init, IInv, TypeOK, WatchedIsCurrent, Fence, Advance, FleetType

\* Every step preserves it.
LEMMA NextIInv == IInv /\ [Next]_vars => IInv'
<1> SUFFICES ASSUME IInv, [Next]_vars PROVE IInv'
  OBVIOUS
<1> USE DEF IInv
<1> GenModulus \in Nat /\ GenModulus > 1
  BY FleetAssumption, HandoffAssumption
<1>1. CASE UNCHANGED vars
  BY <1>1 DEF vars, TypeOK, WatchedIsCurrent, Fence
<1>2. CASE Observe
  BY <1>2 DEF Observe, TypeOK, WatchedIsCurrent, Fence, Advance, FleetType
<1>3. ASSUME NEW f \in FleetType, Moved(fleet, f), Becomes(f) PROVE IInv'
  <2>1. fleet' = f /\ obs' = obs /\ moves' \in 0 .. GenModulus
    BY <1>3 DEF Becomes, TypeOK
  <2>2. TypeOK'
    BY <2>1 DEF TypeOK
  <2>3. fleet.generation \in 0 .. GenModulus - 1 /\ obs.generation \in 0 .. GenModulus - 1
    BY DEF TypeOK, FleetType
  <2>4. CASE f = fleet
    BY <1>3, <2>1, <2>2, <2>4 DEF Becomes, WatchedIsCurrent, Fence
  <2>5. CASE f.generation = NextGeneration(fleet.generation)
    <3>1. f.generation # fleet.generation
      BY <2>3, <2>5, NextGenerationMoves
    <3>2. WatchedIsCurrent'
      BY <1>3, <2>1, <3>1 DEF Becomes, WatchedIsCurrent
    <3>3. moves' = IF moves < GenModulus THEN moves + 1 ELSE moves
      BY <1>3, <3>1 DEF Becomes
    <3>4. Fence'
      <4> SUFFICES ASSUME moves' < GenModulus
                   PROVE  /\ fleet'.generation = Advance(obs'.generation, moves')
                          /\ moves' # 0
        BY DEF Fence
      <4>1. moves \in Nat /\ moves' = moves + 1
        BY <3>3 DEF TypeOK
      <4>2. fleet.generation = Advance(obs.generation, moves)
        BY <4>1 DEF Fence
      <4> QED
        BY <2>1, <2>3, <2>5, <4>1, <4>2 DEF Advance, NextGeneration
    <3> QED
      BY <2>2, <3>2, <3>4
  <2> QED
    BY <1>3, <2>4, <2>5 DEF Moved
<1> QED
  BY <1>1, <1>2, <1>3, NextMoves

-----------------------------------------------------------------------------
\* The tracker stays well typed: in particular its generation never leaves
\* the width of its integer.
THEOREM TypeCorrect == Spec => []TypeOK
<1>1. IInv => TypeOK
  BY DEF IInv
<1> QED
  BY InitIInv, NextIInv, <1>1, PTL DEF Spec

\* Watchers never hold an outdated snapshot.
THEOREM WatchCurrent == Spec => []WatchedIsCurrent
<1>1. IInv => WatchedIsCurrent
  BY DEF IInv
<1> QED
  BY InitIInv, NextIInv, <1>1, PTL DEF Spec

\* A handoff claim succeeds only on the fleet that was observed.
THEOREM ClaimFenced == Spec => ClaimOnObserved
<1> DEFINE A == ~fleet.handoff_active /\ fleet'.handoff_active /\ moves < GenModulus
                  => fleet = obs
<1>1. IInv /\ [Next]_vars => [A]_vars
  <2> SUFFICES ASSUME IInv, Next, ~fleet.handoff_active, fleet'.handoff_active,
                      moves < GenModulus
               PROVE  fleet = obs
    BY DEF vars
  <2>1. fleet.generation = obs.generation
    <3>1. Claim
      <4> USE DEF Becomes, Publish
      <4> fleet \in FleetType
        BY DEF IInv, TypeOK
      <4>1. ASSUME NEW i \in Ids, NEW n \in IncSet, Create(i, n) PROVE FALSE
        BY <4>1 DEF Create, BeginCreate, FleetType
      <4>2. ASSUME NEW i \in Ids, NEW n \in IncSet, Live(i, n) PROVE FALSE
        BY <4>2 DEF Live, PublishLive, FleetType
      <4>3. ASSUME NEW i \in Ids, NEW n \in IncSet, CreateFailed(i, n) PROVE FALSE
        BY <4>3 DEF CreateFailed, CancelCreate, FleetType
      <4>4. ASSUME NEW i \in Ids, NEW n \in IncSet, ExitToRestart(i, n) PROVE FALSE
        BY <4>4 DEF ExitToRestart, TransitionLiveToRestartPending, FleetType
      <4>5. ASSUME NEW i \in Ids, NEW n \in IncSet, Exit(i, n) PROVE FALSE
        BY <4>5 DEF Exit, RemoveLive, FleetType
      <4>6. ASSUME NEW i \in Ids, NEW n \in IncSet, RestartDropped(i, n) PROVE FALSE
        BY <4>6 DEF RestartDropped, CancelRestartPending, FleetType
      <4>7. ASSUME NEW i \in Ids, NEW m \in IncSet, NEW n \in IncSet, Restart(i, m, n) PROVE FALSE
        BY <4>7 DEF Restart, TransitionRestartPendingToCreating, FleetType
      <4>8. ASSUME NEW i \in Ids, Remove(i) PROVE FALSE
        BY <4>8 DEF Remove, RemoveAllForId, FleetType
      <4>9. ASSUME NEW d \in BOOLEAN, SetDisposing(d) PROVE FALSE
        BY <4>9 DEF SetDisposing, MarkDisposing, FleetType
      <4>10. ASSUME Close PROVE FALSE
        BY <4>10 DEF Close, MarkClosing, FleetType
      <4>11. ASSUME Observe PROVE FALSE
        BY <4>11 DEF Observe, FleetType
      <4>12. ASSUME Release PROVE FALSE
        BY <4>12 DEF Release, ReleaseHandoff, FleetType
      <4> QED
        BY <4>1, <4>2, <4>3, <4>4, <4>5, <4>6, <4>7, <4>8, <4>9, <4>10, <4>11, <4>12 DEF Next
    <3> QED
      BY <3>1 DEF Claim, CanClaimQuiescent, CanClaimForced, CanClaimAgent, ClaimFence
  <2> QED
    BY <2>1, FleetAssumption, HandoffAssumption DEF IInv, TypeOK, Fence, Advance, FleetType
<1> QED
  BY InitIInv, NextIInv, <1>1, PTL DEF Spec, ClaimOnObserved
=============================================================================
