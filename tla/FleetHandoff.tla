---------------------------- MODULE FleetHandoff ----------------------------
(***************************************************************************)
(* The suspend-handoff fence of server/src/pty/fleet_state.rs: a tracker,  *)
(* its watch channel, and an idle-suspend coordinator that looks at the    *)
(* fleet, decides, and later claims the handoff with the generation it saw.*)
(*                                                                         *)
(* The manager calls the tracker's methods from many threads; here they    *)
(* happen in any order with any arguments, so what holds here holds for    *)
(* every caller.                                                           *)
(***************************************************************************)
EXTENDS PtyFleet

CONSTANT IncSet   \* the incarnations the callers pass

ASSUME HandoffAssumption == IncSet \subseteq Nat \ {NoInc} /\ GenModulus > 1

VARIABLES
    fleet,     \* the tracker
    watched,   \* the value in its watch channel
    obs,       \* history: the tracker when the coordinator last looked
    moves      \* history: publications since, counted up to GenModulus

vars == <<fleet, watched, obs, moves>>

Init ==
    /\ fleet = NewFleet
    /\ watched = Snapshot(NewFleet)
    /\ obs = NewFleet
    /\ moves = 0

\* The tracker goes from its value to f.  A publication, told by the moved
\* generation, also sends the new snapshot to the watchers; the manager keeps
\* a receiver of its own, so the channel always takes it.
Becomes(f) ==
    /\ fleet' = f
    /\ watched' = IF f.generation # fleet.generation THEN Snapshot(f) ELSE watched
    /\ moves' = IF f.generation # fleet.generation /\ moves < GenModulus THEN moves + 1 ELSE moves
    /\ UNCHANGED obs

(***************************************************************************)
(* The methods the manager calls                                           *)
(***************************************************************************)
Create(i, n)        == SpawnAdmitted(fleet) /\ Becomes(BeginCreate(fleet, i, n))
Live(i, n)          == Becomes(PublishLive(fleet, i, n))
CreateFailed(i, n)  == Becomes(CancelCreate(fleet, i, n))
ExitToRestart(i, n) == Becomes(TransitionLiveToRestartPending(fleet, i, n))
Exit(i, n)          == Becomes(RemoveLive(fleet, i, n))
Restart(i, m, n)    == SpawnAdmitted(fleet)
                       /\ Becomes(TransitionRestartPendingToCreating(fleet, i, m, n))
RestartDropped(i, n) == Becomes(CancelRestartPending(fleet, i, n))
Remove(i)           == Becomes(RemoveAllForId(fleet, i))
SetDisposing(d)     == Becomes(MarkDisposing(fleet, d))
Close               == Becomes(MarkClosing(fleet, TRUE))

(***************************************************************************)
(* The coordinator                                                         *)
(***************************************************************************)
\* It reads the current snapshot, from the channel or from the manager.
Observe ==
    /\ obs' = fleet
    /\ moves' = 0
    /\ UNCHANGED <<fleet, watched>>

\* It claims with the generation it saw, in one of three ways; a refused
\* claim changes nothing.
Claim ==
    /\ \/ CanClaimQuiescent(fleet, obs.generation)
       \/ CanClaimForced(fleet, obs.generation)
       \/ CanClaimAgent(fleet, obs.generation)
    /\ Becomes(ClaimHandoff(fleet))

Release == Becomes(ReleaseHandoff(fleet))

Next ==
    \/ \E i \in Ids, n \in IncSet :
         \/ Create(i, n) \/ Live(i, n) \/ CreateFailed(i, n)
         \/ ExitToRestart(i, n) \/ Exit(i, n) \/ RestartDropped(i, n)
    \/ \E i \in Ids, m, n \in IncSet : Restart(i, m, n)
    \/ \E i \in Ids : Remove(i)
    \/ \E d \in BOOLEAN : SetDisposing(d)
    \/ Close \/ Observe \/ Claim \/ Release

Spec == Init /\ [][Next]_vars

(***************************************************************************)
(* Properties                                                              *)
(***************************************************************************)
\* The tracker, what the coordinator saw of it and the count of moves have
\* their types; the generation stays within the width of its integer.
TypeOK ==
    /\ fleet \in FleetType
    /\ obs \in FleetType
    /\ moves \in 0 .. GenModulus

\* The watch channel never holds an outdated snapshot: no method changes a
\* map or a flag without publishing.
WatchedIsCurrent == watched = Snapshot(fleet)

\* The fence works: a claim succeeds only on the very fleet the coordinator
\* looked at, session by session and not merely count by count, unless the
\* generation went all the way round in between.
ClaimOnObserved ==
    [][~fleet.handoff_active /\ fleet'.handoff_active /\ moves < GenModulus => fleet = obs]_vars
=============================================================================
