---------------------------- MODULE AgentLineage ----------------------------
(***************************************************************************)
(* Which session a tool call of an agent belongs to: the registry of the   *)
(* session-changes producer.  The main agent of the process registers a    *)
(* session with the server; its subagents, known by an id and the id of    *)
(* their parent, are routed to the session of the main agent; a switch     *)
(* revokes them.  Every map is bounded and forgets its oldest entry.       *)
(*                                                                         *)
(* A JavaScript Map is a sequence of <<key, value>> pairs and a Set a      *)
(* sequence, in insertion order.  What a routed call does next is the      *)
(* subject of CaptureFlow.                                                 *)
(***************************************************************************)
EXTENDS Naturals, FiniteSets, Sequences, SequencesExt, FiniteSetsExt

CONSTANTS
    Subs,        \* subagents
    Main,        \* the main agent
    Sessions,    \* sessions of the main agent
    CallIds,     \* tool call ids
    None,        \* no agent, no session
    MaxChild,    \* MAX_CHILD_ENTRIES (128)
    MaxRevoked,  \* MAX_REVOKED_ENTRIES (2048)
    MaxRoots,    \* MAX_RETAINED_ROOTS (32)
    MaxPending,  \* MAX_PENDING_CALLS (128)
    MaxDepth,    \* hops of a lineage that are followed (20)
    ReusesIds,   \* whether an agent may use a call id again
    Agentless,   \* subset of BOOLEAN: results may come without their agent
    MaxGen,      \* bound: generations
    MaxCalls     \* bound: routed and unrouted tool calls

Agents == Subs \cup {Main}

VARIABLES
    r,        \* the registry: bind, lin, origin, revoked, roots, auth, active
    gen,      \* globalGeneration
    regs,     \* registrations in flight: [s, gen]
    pend,     \* pendingCalls: [s, a, id]
    consumed, \* consumedCallKeys
    amb,      \* ambiguousCallHistory
    parent,   \* the parent of each agent that has been spawned
    home,     \* history: the session it was started in
    here,     \* history: the session the process is in
    routed,   \* history: the sessions each agent's calls were routed to
    open,     \* tool calls without a result: [a, id, s], s where it was routed
    ncalls,   \* history: number of calls
    credit    \* history: <<session of the call, session credited>>

routing == <<r, gen, regs>>
calls == <<pend, consumed, amb>>
world == <<parent, home, here>>
vars == <<routing, calls, world, routed, open, ncalls, credit>>

(***************************************************************************)
(* Bounded ordered maps                                                    *)
(***************************************************************************)

Keys(m) == {m[i][1] : i \in DOMAIN m}
Get(m, k) == IF k \in Keys(m) THEN (CHOOSE e \in Range(m) : e[1] = k)[2] ELSE None
Put(m, k, v) ==
    IF k \in Keys(m) THEN [i \in DOMAIN m |-> IF m[i][1] = k THEN <<k, v>> ELSE m[i]]
    ELSE Append(m, <<k, v>>)
Room(m, n, held) == IF Len(m) >= n /\ ~held THEN Tail(m) ELSE m
PutCapped(m, k, v, n) == Put(Room(m, n, k \in Keys(m)), k, v)
AddCapped(q, x, n) == IF x \in Range(q) THEN q ELSE Append(Room(q, n, FALSE), x)
DropKeys(m, K) == SelectSeq(m, LAMBDA e : e[1] \notin K)

(***************************************************************************)
(* The registry                                                            *)
(***************************************************************************)

(* The agent and its ancestors, as far as the registry knows and follows. *)
Line(g, a) ==
    LET up[n \in 0 .. MaxDepth - 1] == IF n = 0 THEN a ELSE Get(g.lin, up[n - 1])
    IN up

isAgentRevoked(g, a) == \E n \in 0 .. MaxDepth - 1 : Line(g, a)[n] \in Range(g.revoked)

OriginAllows(g, a, s) == a = Main \/ Get(g.origin, a) \in {None, s}

(* resolveRootSessionId: the binding of the nearest bound ancestor. *)
resolveRootSessionId(g, a) ==
    LET BoundAt(l) == {n \in DOMAIN l : l[n] \in Keys(g.bind)}
        Allowed(l, n0, s) == /\ \A n \in 0 .. n0 : ~isAgentRevoked(g, l[n])
                             /\ OriginAllows(g, l[n0], s) /\ OriginAllows(g, a, s)
        Root(l, n0, s) == IF Allowed(l, n0, s) THEN s ELSE None
        Nearest(l, n0) == Root(l, n0, Get(g.bind, l[n0]))
        From(l, at) == IF at = {} THEN None ELSE Nearest(l, Min(at))
        Up(l) == From(l, BoundAt(l))
    IN Up(Line(g, a))

(* ... which remembers the session as the agent's origin. *)
Remembered(g, a, s) ==
    IF s = None \/ a = Main \/ a \in Keys(g.origin) THEN g
    ELSE [g EXCEPT !.origin = PutCapped(@, a, s, MaxChild)]

unbindAgentUnrevoked(g, a) ==
    LET pass(found) == FoldLeft(LAMBDA acc, e :
            IF e[2] \in Range(acc) /\ e[1] \notin Range(acc) THEN Append(acc, e[1]) ELSE acc, found, g.lin)
        tree[n \in 0 .. Len(g.lin)] == IF n = 0 THEN <<a>> ELSE pass(tree[n - 1])
        gone == tree[Len(g.lin)]
    IN [g EXCEPT !.bind = DropKeys(@, Range(gone)), !.lin = DropKeys(@, Range(gone))]

(* unbindAgent: the agent and everything below it is forgotten and         *)
(* revoked, in the order the passes over the lineage find it.              *)
unbindAgent(g, a) ==
    LET pass(found) == FoldLeft(LAMBDA acc, e :
            IF e[2] \in Range(acc) /\ e[1] \notin Range(acc) THEN Append(acc, e[1]) ELSE acc, found, g.lin)
        tree[n \in 0 .. Len(g.lin)] == IF n = 0 THEN <<a>> ELSE pass(tree[n - 1])
        gone == tree[Len(g.lin)]
    IN [g EXCEPT !.bind = DropKeys(@, Range(gone)), !.lin = DropKeys(@, Range(gone)),
                 !.revoked = FoldLeft(LAMBDA acc, x : AddCapped(acc, x, MaxRevoked), @, gone)]

Evicted(g, m, a) == IF Len(m) >= MaxChild /\ a \notin Keys(m) THEN unbindAgent(g, m[1][1]) ELSE g

(* The binding of a recorded child: room is made first, and the parent may *)
(* be what goes.                                                           *)
Bind(g, a, p) ==
    LET To(g2, s) ==
            IF s = None THEN g2
            ELSE [g2 EXCEPT !.origin = IF a = Main THEN @ ELSE PutCapped(@, a, s, MaxChild),
                            !.bind = Put(@, a, s)]
        Under(g1, s) == To(Remembered(g1, p, s), s)
        WithRoom(g1) == Under(g1, resolveRootSessionId(g1, p))
    IN WithRoom(Evicted(g, g.bind, a))

(* The child's place in the lineage, for which room is made too. *)
Linked(g, a, p) ==
    LET Below(g1) == [g1 EXCEPT !.lin = Put(@, a, p)] IN Below(Evicted(g, g.lin, a))

recordChildAgent(g, a, p) ==
    LET Under(g1, s) == IF s = None THEN Linked(g1, a, p)
                        ELSE IF OriginAllows(g1, a, s) THEN Bind(Linked(g1, a, p), a, p)
                        ELSE g1
        Of(s) == Under(Remembered(g, p, s), s)
    IN IF isAgentRevoked(g, a) \/ isAgentRevoked(g, p) THEN g
       ELSE Of(resolveRootSessionId(g, p))

removeRoot(g, s) ==
    LET g1 == [g EXCEPT !.roots = SelectSeq(@, LAMBDA x : x # s), !.auth = @ \ {s},
                        !.active = IF @ = s THEN None ELSE @]
    IN FoldLeft(LAMBDA acc, e : IF Get(acc.bind, e[1]) = s THEN unbindAgent(acc, e[1]) ELSE acc, g1, g.bind)

(* registerRoot for the main agent. *)
registerRoot(g, s) ==
    LET Kept(g1) == [g1 EXCEPT !.roots = IF s \in Range(@) THEN @ ELSE Append(@, s),
                               !.active = IF @ = None THEN s ELSE @,
                               !.revoked = SelectSeq(@, LAMBDA a : a # Main),
                               !.origin = PutCapped(@, Main, s, MaxChild)]
        WithRoom(g2) == Evicted(g2, g2.bind, Main)
        Bound(g3) == [g3 EXCEPT !.bind = Put(@, Main, s), !.auth = @ \cup {s}]
        full == Len(g.roots) >= MaxRoots /\ s \notin Range(g.roots)
    IN Bound(WithRoom(Kept(IF full THEN removeRoot(g, Head(g.roots)) ELSE g)))

(* resolveRoot for agent a, after which the registry is Looked(g, a). *)
Lookup(g, a) ==
    LET p == parent[a]
        Found(h, s) == [s |-> s, g |-> Remembered(h, a, s)]
        Adopted(h) == Found(h, resolveRootSessionId(h, a))
        Below(h, s) == IF s \notin g.auth \/ ~OriginAllows(h, a, s) THEN [s |-> None, g |-> h]
                       ELSE Adopted(recordChildAgent(h, a, p))
        OfParent(s) == Below(Remembered(g, p, s), s)
        Of(s) == IF s # None \/ p = None THEN Found(g, s)
                 ELSE IF isAgentRevoked(g, p) THEN [s |-> None, g |-> g]
                 ELSE OfParent(resolveRootSessionId(g, p))
    IN IF isAgentRevoked(g, a) THEN [s |-> None, g |-> g]
       ELSE Of(resolveRootSessionId(g, a))

resolveRoot(g, a) ==
    LET Checked(l) ==
            [l EXCEPT !.s = IF @ \in l.g.auth /\ @ \in Range(g.roots) /\ OriginAllows(l.g, a, @) THEN @ ELSE None]
    IN Checked(Lookup(g, a))

(***************************************************************************)
(* Sessions and agents                                                     *)
(***************************************************************************)

Init ==
    /\ r = [bind |-> <<>>, lin |-> <<>>, origin |-> <<>>, revoked |-> <<>>,
            roots |-> <<>>, auth |-> {}, active |-> None]
    /\ gen = 0 /\ regs = {}
    /\ pend = <<>> /\ consumed = <<>> /\ amb = <<>>
    /\ parent = [a \in Agents |-> None]
    /\ home = [a \in Agents |-> None] /\ here = None
    /\ routed = [a \in Agents |-> {}]
    /\ open = {} /\ ncalls = 0 /\ credit = {}

(* registerSession by the main agent, on session_start or session_switch,  *)
(* up to its request: nothing is authorized and the agents of the old      *)
(* session are revoked.                                                    *)
RegisterStart(s) ==
    /\ gen < MaxGen
    /\ gen' = gen + 1 /\ here' = s
    /\ regs' = regs \cup {[s |-> s, gen |-> gen + 1]}
    /\ r' = unbindAgent([r EXCEPT !.active = s, !.auth = {}], Main)
    /\ UNCHANGED <<calls, parent, home, routed, open, ncalls, credit>>

Current(q) == q.gen = gen /\ r.active = q.s

(* The answer comes, in any order; that of an older generation is dropped. *)
Registered(q) ==
    /\ regs' = regs \ {q}
    /\ r' = IF Current(q) THEN registerRoot(r, q.s) ELSE r
    /\ UNCHANGED <<gen, calls, world, routed, open, ncalls, credit>>

RegisterFailed(q) ==
    /\ regs' = regs \ {q}
    /\ r' = IF Current(q) THEN [r EXCEPT !.active = None] ELSE r
    /\ UNCHANGED <<gen, calls, world, routed, open, ncalls, credit>>

(* session_shutdown *)
Shutdown(s) ==
    /\ gen < MaxGen
    /\ gen' = gen + 1
    /\ pend' = SelectSeq(pend, LAMBDA d : d.s # s)
    /\ r' = removeRoot(r, s)
    /\ UNCHANGED <<regs, consumed, amb, world, routed, open, ncalls, credit>>

(* A subagent starts, below the main agent or another one: session_start   *)
(* with a parent.                                                          *)
Spawn(a, p) ==
    /\ here # None /\ parent[a] = None
    /\ p = Main \/ (p # a /\ parent[p] # None)
    /\ parent' = [parent EXCEPT ![a] = p]
    /\ home' = [home EXCEPT ![a] = IF p = Main THEN here ELSE home[p]]
    /\ r' = recordChildAgent(r, a, p)
    /\ UNCHANGED <<gen, regs, calls, here, routed, open, ncalls, credit>>

(***************************************************************************)
(* Tool calls and their results                                            *)
(***************************************************************************)

Desc(s, a, id) == [s |-> s, a |-> a, id |-> id]
SameId(id) == {d \in Range(pend) : d.id = id}

(* The descriptor of a routed call: refused when its key is taken, noted   *)
(* as ambiguous when another call has its id.                              *)
Admit(d) ==
    IF d \in Range(pend) THEN UNCHANGED calls
    ELSE /\ pend' = Append(Room(pend, MaxPending, FALSE), d)
         /\ amb' = IF SameId(d.id) = {} THEN amb
                   ELSE AddCapped(SelectSeq(amb, LAMBDA x : x # d.id), d.id, MaxPending)
         /\ consumed' = consumed

(* tool_call of an agent, an old one of a session that was left included. *)
Call(a, id) ==
    /\ a = Main \/ parent[a] # None
    /\ here # None /\ ncalls < MaxCalls
    /\ \E l \in {resolveRoot(IF a = Main THEN r ELSE recordChildAgent(r, a, parent[a]), a)} :
          /\ IF ReusesIds THEN ~\E x \in open : x.a = a /\ x.id = id /\ x.s = l.s
             ELSE ~\E x \in open : x.a = a /\ x.id = id
          /\ r' = l.g
          /\ open' = open \cup {[a |-> a, id |-> id, s |-> l.s]}
          /\ routed' = [routed EXCEPT ![a] = IF l.s = None THEN @ ELSE @ \cup {l.s}]
          /\ IF l.s = None THEN UNCHANGED calls ELSE Admit(Desc(l.s, a, id))
    /\ ncalls' = ncalls + 1
    /\ UNCHANGED <<gen, regs, world, credit>>

(* The descriptors a result with its agent may belong to. *)
MatchesOf(a, id) == {d \in SameId(id) : d.a = a}

(* tool_result, with or without its agent: the one descriptor that fits is *)
(* consumed, and its session credited if its root still stands.            *)
Result(x, agentless) ==
    LET m == IF agentless THEN SameId(x.id) ELSE MatchesOf(x.a, x.id)
        d == CHOOSE d \in m : TRUE
    IN /\ open' = open \ {x}
       /\ IF Cardinality(m) = 1 /\ d \notin Range(consumed) /\ ~(agentless /\ x.id \in Range(amb))
          THEN /\ pend' = SelectSeq(pend, LAMBDA e : e # d)
               /\ consumed' = Append(Room(consumed, MaxPending, FALSE), d)
               /\ credit' = IF d.s \in Range(r.roots) THEN credit \cup {<<x.s, d.s>>} ELSE credit
          ELSE UNCHANGED <<pend, consumed, credit>>
       /\ UNCHANGED <<routing, amb, world, routed, ncalls>>

Next ==
    \/ \E s \in Sessions : RegisterStart(s) \/ Shutdown(s)
    \/ \E q \in regs : Registered(q) \/ RegisterFailed(q)
    \/ \E a \in Subs, p \in Agents : Spawn(a, p)
    \/ \E a \in Agents, id \in CallIds : Call(a, id)
    \/ \E x \in open, agentless \in Agentless : Result(x, agentless)

Spec == Init /\ [][Next]_vars

(***************************************************************************)
(* Properties                                                              *)
(***************************************************************************)

TypeOK ==
    /\ Keys(r.bind) \cup Keys(r.lin) \cup Keys(r.origin) \cup Range(r.revoked) \subseteq Agents
    /\ r.auth \cup Range(r.roots) \subseteq Sessions
    /\ Len(r.bind) <= MaxChild /\ Len(r.lin) <= MaxChild /\ Len(r.origin) <= MaxChild
    /\ Len(r.revoked) <= MaxRevoked /\ Len(r.roots) <= MaxRoots
    /\ Len(pend) <= MaxPending /\ Len(consumed) <= MaxPending /\ Len(amb) <= MaxPending

(* Calls are routed to the session the process is in or to none: an answer *)
(* to an older registration, in whatever order it comes, authorizes        *)
(* nothing, and neither does a failed one.                                 *)
OnlyCurrentAuthorized == r.auth \subseteq {here} /\ r.auth \subseteq Range(r.roots)

(* No orphan: a bound subagent is a descendant of the main agent through   *)
(* bound agents of the same session, so that revoking the main agent       *)
(* reaches it; evictions included.                                         *)
BoundBelowMain ==
    \A a \in Keys(r.bind) \ {Main} :
        /\ Main \in Range(Line(r, a))
        /\ \A n \in DOMAIN Line(r, a) : Line(r, a)[n] # None =>
              Get(r.bind, Line(r, a)[n]) = Get(r.bind, a)

(* A subagent whose calls were routed to a session is never routed to      *)
(* another.                                                                *)
OneSessionPerAgent == \A a \in Subs : Cardinality(routed[a]) <= 1

(* The result of a call that was routed to a session is credited to that   *)
(* session or to none.                                                     *)
CreditedAtHome == \A c \in credit : c[1] \in {None, c[2]}

(* A subagent is only ever routed to the session it was started in. *)
\* Does not hold (README, known deviations).
NoAdoption == \A a \in Subs : routed[a] \subseteq {home[a]}

(* While its session is authorized the main agent is routed to it. *)
\* Does not hold (README, known deviations).
MainStaysRouted == \A s \in r.auth : resolveRoot(r, Main).s = s
=============================================================================
