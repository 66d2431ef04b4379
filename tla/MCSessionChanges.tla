-------------------------- MODULE MCSessionChanges --------------------------
(***************************************************************************)
(* The session-changes producer from its two sides, each while the other   *)
(* rests:                                                                  *)
(*   calls    two tool calls on one file in two sessions, or one call with *)
(*            a generation more;                                           *)
(*   chunks   one call of one session that captures two files under one    *)
(*            deadline, or has a file only its result names, with a queue  *)
(*            of one attempt, while tracking is switched off and on;       *)
(*   agents   which session the calls of subagents are routed to.          *)
(***************************************************************************)
EXTENDS CaptureFlow

CONSTANTS
    File1, File2,
    LoneSession, LoneCall, ShortQueue, ChunkGen, ChunkToggles,   \* of chunks
    Subs, Main, CallIds, MaxChild, MaxRevoked, MaxRoots, MaxPending, MaxDepth,
    ReusesIds, Agentless, MaxCalls                               \* of agents

VARIABLES agentRegistry, agentGen, regs, pend, consumed, amb, parent, home, here,
          routed, unanswered, ncalls, credit, side

Kind(cand, hidden) == [cand |-> cand, hidden |-> hidden]
OneFile == {Kind(<<File1>>, {})}
TwoFiles == {Kind(<<File1>>, {File2}), Kind(<<File1, File2>>, {})}

Chunks == INSTANCE CaptureFlow
            WITH Sessions <- {LoneSession}, Calls <- {LoneCall}, Kinds <- TwoFiles,
                 MaxQueue <- ShortQueue, MaxGen <- ChunkGen, MaxToggles <- ChunkToggles

Lineage == INSTANCE AgentLineage
             WITH r <- agentRegistry, gen <- agentGen, open <- unanswered

agentVars == <<agentRegistry, agentGen, regs, pend, consumed, amb, parent, home, here,
               routed, unanswered, ncalls, credit>>

MCInit ==
    /\ Lineage!Init
    /\ \/ side \in {"calls", "agents"} /\ Init
       \/ side = "chunks" /\ Chunks!Init

\* Nothing tells the members of S apart until they are used, so they are used
\* in one order.
UsedInOrder(S, used) ==
    LET q == SetToSeq(S) IN \A i, j \in DOMAIN q : i < j /\ q[j] \in used => q[i] \in used

Started == {c \in Calls : call[c] # Idle}

MCNext ==
    /\ UNCHANGED side
    /\ \/ /\ side = "calls" /\ Next /\ UNCHANGED agentVars
          /\ UsedInOrder(Calls, Started')
          /\ gen' = 1 => UsedInOrder(Sessions, {active'})
          /\ gen' = MaxGen => Cardinality(Started') <= 1
       \/ /\ side = "chunks" /\ Chunks!Next /\ UNCHANGED agentVars
          /\ gen' = ChunkGen => srv'.gen <= ChunkToggles
       \/ /\ side = "agents" /\ Lineage!Next /\ UNCHANGED vars
          /\ UsedInOrder(Subs, {a \in Subs : parent'[a] # None})
          /\ here = None => UsedInOrder(Sessions, {here'})

MCSpec == MCInit /\ [][MCNext]_<<vars, agentVars, side>>

-----------------------------------------------------------------------------
\* The type invariants of CaptureFlow and AgentLineage.
MCTypeOK ==
    /\ IF side = "chunks" THEN Chunks!TypeOK ELSE TypeOK
    /\ Lineage!TypeOK
\* A false original at the server is exposed or still to be taken back.
OriginalsExplained ==
    IF side = "chunks" THEN Chunks!FalseOriginalExplained ELSE FalseOriginalExplained
\* The reserved slots of a root are those of the calls still capturing on it.
SlotsHaveOwners ==
    IF side = "chunks" THEN Chunks!ReservationsHaveOwners ELSE ReservationsHaveOwners
\* What the producer counts as known has an acknowledged original.
KnownHasOriginal == IF side = "chunks" THEN Chunks!KnownIsStored ELSE KnownIsStored
\* An attempt to take back never waits on nobody.
AttemptsAreCarried ==
    IF side = "chunks" THEN Chunks!QueuedIsCarried ELSE QueuedIsCarried
\* Only the session the process is in is ever authorized.
OnlyCurrentAuthorized == Lineage!OnlyCurrentAuthorized
\* No bound subagent is out of the main agent's reach.
BoundBelowMain == Lineage!BoundBelowMain
\* No subagent is routed to two sessions.
OneSessionPerAgent == Lineage!OneSessionPerAgent
\* A result is credited to the session of its call or to none.
CreditedAtHome == Lineage!CreditedAtHome

\* The producer's books balance in every state: reserved slots have a call that
\* holds them, known paths an original at the server; only the current session
\* is authorized, every bound subagent descends from the main agent and is
\* routed to one session, which is the one its results are credited to.
BooksBalance ==
    /\ MCTypeOK /\ SlotsHaveOwners /\ KnownHasOriginal
    /\ OnlyCurrentAuthorized /\ BoundBelowMain /\ OneSessionPerAgent /\ CreditedAtHome
=============================================================================
