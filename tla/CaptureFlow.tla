---------------------------- MODULE CaptureFlow -----------------------------
(***************************************************************************)
(* The session-changes producer that runs inside the coding agent, with    *)
(* the server that keeps the originals and the tools that write the files. *)
(*                                                                         *)
(* Before a tool runs, the producer asks the server to capture the files   *)
(* the tool will write, one request per chunk, within one deadline; it     *)
(* lets the tool go whatever happens, marks as unproven what was not       *)
(* captured, and tells the server so, at once and again until the server   *)
(* has answered.  Requests may be lost, slow, or served after the producer *)
(* has given up on them.                                                   *)
(*                                                                         *)
(* A chunk is one path.  A root registration is an object of its own: obj  *)
(* is the generation it was made in.  Which agents of a session route to   *)
(* its root is the subject of AgentLineage.                                *)
(***************************************************************************)
EXTENDS CaptureStore, Sequences, SequencesExt

CONSTANTS
    Sessions,   \* agent sessions
    Calls,      \* tool calls
    Kinds,      \* what a tool call may be: [cand, hidden], see StartCall
    None,       \* no session
    MaxQueue,   \* timed-out attempts a root keeps (64 in the producer)
    MaxPasses,  \* drain passes of one flush (5 in the producer)
    MaxGen,     \* bound: generations
    MaxIds,     \* bound: capture ids
    MaxToggles  \* bound: times tracking is switched off and on

ASSUME FlowAssumption ==
    /\ MaxQueue \in Nat \ {0} /\ MaxPasses \in Nat \ {0}
    /\ MaxGen \in Nat /\ MaxIds \in Nat /\ MaxToggles \in Nat
    /\ None \notin Sessions

VARIABLES
    gen,      \* globalGeneration
    active,   \* activeSessionId
    live,     \* the authorized session
    reg,      \* the registration in flight: [s, gen]
    off,      \* isPermanentlyDisabled
    root,     \* the registered root of each session
    call,     \* the tool calls
    flush,    \* the flush in progress on each root
    nextId,   \* capture ids handed out so far
    net,      \* requests sent and not yet done with
    srv,      \* the server's switch and its generation
    store,    \* the server's record of each session, with its baseline
    touched,  \* history: files a declared tool of the session has written
    exposed,  \* history: files such a tool was let loose on while the
              \* producer held them neither known nor unproven, and
              \* files whose capture or mark a registration forgot
    dropped,  \* history: attempts the full queue forgot
    tried     \* history: attempts a flush has sent

registry == <<gen, active, live, reg, off>>
server == <<srv, store>>
history == <<touched, exposed, dropped, tried>>
vars == <<registry, root, call, flush, nextId, net, server, history>>

Ids == 1 .. MaxIds
NoRoot == [obj |-> 0, base |-> 0, known |-> {}, unproven |-> {}, reserved |-> {}, queue |-> <<>>]
NoReg == [s |-> None, gen |-> 0]
NoFlush == [gen |-> 0, obj |-> 0, failed |-> {}, todo |-> <<>>, cur |-> 0, pass |-> 0]
Idle == [st |-> "idle", s |-> None, gen |-> 0, obj |-> 0, base |-> 0, desc |-> FALSE,
         kind |-> [cand |-> <<>>, hidden |-> {}], rest |-> <<>>, cur |-> 0]
NoRecord == [base |-> 0, rec |-> EmptyRecord]

Init ==
    /\ gen = 0 /\ active = None /\ live = None /\ reg = NoReg /\ off = FALSE
    /\ root = [s \in Sessions |-> NoRoot]
    /\ call = [c \in Calls |-> Idle]
    /\ flush = [s \in Sessions |-> NoFlush]
    /\ nextId = 0 /\ net = {}
    /\ srv = [on |-> TRUE, gen |-> 1]
    /\ store = [s \in Sessions |-> NoRecord]
    /\ touched = [s \in Sessions |-> {}] /\ exposed = [s \in Sessions |-> {}]
    /\ dropped = {} /\ tried = {}

(***************************************************************************)
(* Requests.  A request is open while the producer waits for it.           *)
(***************************************************************************)

Request(s, base, p, id, mode, from, open) ==
    [s |-> s, base |-> base, p |-> p, id |-> id, mode |-> mode, from |-> from,
     open |-> open, at |-> "sent", seen |-> 0, orig |-> TRUE, ans |-> "none"]

Waiting(id, from) == {r \in net : r.id = id /\ r.from = from /\ r.open}
GivenUp(rs) == (net \ rs) \cup {[r EXCEPT !.open = FALSE] : r \in {x \in rs : x.at # "answered"}}

(***************************************************************************)
(* The queue of attempts the server must be told are unproven, and its     *)
(* flush                                                                   *)
(***************************************************************************)

Attempt(id, p) == [id |-> id, p |-> p]
QueueIds(q) == {q[n].id : n \in DOMAIN q}

(* recordTimedOutAttempt, once or several times: the oldest make room. *)
Queued(q, new) ==
    LET all == q \o new
    IN IF Len(all) <= MaxQueue THEN all ELSE SubSeq(all, Len(all) - MaxQueue + 1, Len(all))
Forgotten(q, new) == QueueIds(q \o new) \ QueueIds(Queued(q, new))

(* The first attempt of a batch that is still queued is sent. *)
BatchFrom(q, f, todo) ==
    LET left == SelectSeq(todo, LAMBDA id : id \in QueueIds(q))
    IN IF left = <<>> THEN [f EXCEPT !.todo = <<>>, !.cur = 0]
       ELSE [f EXCEPT !.todo = Tail(left), !.cur = Head(left)]

Unattempted(q, failed) ==
    [n \in DOMAIN SelectSeq(q, LAMBDA a : a.id \notin failed)
        |-> SelectSeq(q, LAMBDA a : a.id \notin failed)[n].id]

(* flushPendingInvalidations on a root with queue q: a flush that runs     *)
(* takes the request over, an empty one ends where it began.               *)
FlushOn(s, f, q, obj, failed, g) ==
    IF f.cur # 0 \/ Unattempted(q, failed) = <<>> THEN f
    ELSE BatchFrom(q, [NoFlush EXCEPT !.gen = g, !.obj = obj, !.failed = failed, !.pass = 1],
                   Unattempted(q, failed))

(* The request for the attempt a flush has turned to. *)
FlushRequest(s, base, q, f) ==
    {Request(s, base, a.p, a.id, "unproven", "flush", TRUE) : a \in {x \in Range(q) : x.id = f.cur}}

FlushValid(s, f) ==
    ~off /\ gen = f.gen /\ active \in {None, s} /\ root[s].obj = f.obj

(* The flush of s goes from f to f1 over queue q; its next request is sent. *)
FlushTo(s, r, f1, sent) ==
    /\ flush' = [flush EXCEPT ![s] = f1]
    /\ root' = [root EXCEPT ![s] = r]
    /\ net' = sent \cup (IF f1.cur # 0 /\ f1 # flush[s] THEN FlushRequest(s, r.base, r.queue, f1) ELSE {})
    /\ tried' = tried \cup ({f1.cur} \ {0})

AfterBatchStops(s, q, f) ==
    IF f.cur # 0 THEN f
    ELSE IF Unattempted(q, f.failed) # <<>> /\ f.pass < MaxPasses
         THEN BatchFrom(q, [f EXCEPT !.pass = @ + 1], Unattempted(q, f.failed))
         ELSE NoFlush

(* A batch done, attempts queued meanwhile make another pass; after the    *)
(* last pass the slot is released and a new flush takes over, which will   *)
(* not try again what this one failed on.                                  *)
AfterBatch(s, q, f) ==
    IF f.cur # 0 THEN f
    ELSE IF Unattempted(q, f.failed) # <<>> /\ f.pass < MaxPasses
         THEN BatchFrom(q, [f EXCEPT !.pass = @ + 1], Unattempted(q, f.failed))
         ELSE FlushOn(s, NoFlush, q, f.obj, f.failed, f.gen)

(* The server's answer to a flush request, or none in time. *)
FlushStep(s, ans, rest) ==
    LET f == flush[s]
        q == IF ans = "ack" THEN SelectSeq(root[s].queue, LAMBDA a : a.id # f.cur) ELSE root[s].queue
        failed == IF ans = "ack" THEN f.failed ELSE f.failed \cup {f.cur}
        f1 == AfterBatch(s, q, BatchFrom(q, [f EXCEPT !.failed = failed], f.todo))
    IN /\ off' = (off \/ ans = "disabled")
       /\ IF ans # "disabled" /\ FlushValid(s, f)
          THEN FlushTo(s, [root[s] EXCEPT !.queue = q], f1, rest)
          ELSE FlushTo(s, root[s], NoFlush, rest)
       /\ UNCHANGED <<gen, active, live, reg, call, nextId, server, touched, exposed, dropped>>

FlushAnswered(s) ==
    \E r \in Waiting(flush[s].cur, "flush") : r.at = "answered" /\ FlushStep(s, r.ans, net \ {r})
FlushTimesOut(s) ==
    /\ flush[s].cur # 0
    /\ FlushStep(s, "error", GivenUp(Waiting(flush[s].cur, "flush")))

(* agent_end of a settled turn flushes first. *)
AgentEnd(s) ==
    /\ live = s /\ ~off /\ flush[s].cur = 0 /\ root[s].queue # <<>>
    /\ FlushTo(s, root[s], FlushOn(s, flush[s], root[s].queue, root[s].obj, {}, gen), net)
    /\ UNCHANGED <<registry, call, nextId, server, touched, exposed, dropped>>

(***************************************************************************)
(* Sessions                                                                *)
(***************************************************************************)

(* registerSession, on session_start or session_switch: until the server   *)
(* answers no session is authorized.                                       *)
RegisterStart(s) ==
    /\ ~off /\ gen < MaxGen
    /\ gen' = gen + 1 /\ active' = s /\ live' = None /\ reg' = [s |-> s, gen |-> gen + 1]
    /\ UNCHANGED <<off, root, call, flush, nextId, net, server, history>>

Current == reg.gen = gen /\ active = reg.s

(* The server makes a record, or finds the session's; the producer keeps   *)
(* what it knew under the same baseline, and the answer to a flush of the  *)
(* old registration will find its object gone.                             *)
Registered ==
    LET s == reg.s
        fresh == store[s].base # srv.gen
        keep == root[s].obj # 0 /\ root[s].base = srv.gen
        r == IF keep THEN [root[s] EXCEPT !.obj = gen, !.reserved = {}]
             ELSE [NoRoot EXCEPT !.obj = gen, !.base = srv.gen]
        f == FlushOn(s, NoFlush, r.queue, gen, {}, gen)
    IN /\ reg # NoReg /\ Current /\ srv.on
       /\ reg' = NoReg /\ live' = s
       /\ store' = [store EXCEPT ![s] = IF fresh THEN [base |-> srv.gen, rec |-> EmptyRecord] ELSE @]
       /\ touched' = [touched EXCEPT ![s] = IF fresh THEN {} ELSE @]
       /\ exposed' = [exposed EXCEPT ![s] = IF fresh THEN {} ELSE @ \cup root[s].reserved]
       /\ FlushTo(s, r, f, GivenUp(Waiting(flush[s].cur, "flush")))
       /\ UNCHANGED <<gen, active, off, call, nextId, srv, dropped>>

(* 503 latches the producer off for good; any other failure leaves no      *)
(* active session; an answer of an older generation is dropped.            *)
RegisterFailed ==
    /\ reg # NoReg
    /\ reg' = NoReg
    /\ off' \in IF srv.on THEN {off} ELSE {off, TRUE}
    /\ active' = IF Current THEN None ELSE active
    /\ UNCHANGED <<gen, live, root, call, flush, nextId, net, server, history>>

(* session_shutdown, of any session: the generation moves on, the root, if *)
(* there is one, and the descriptors of its calls are dropped; what it     *)
(* held as unproven is known to nobody but the server.                     *)
Shutdown(s) ==
    /\ gen < MaxGen
    /\ gen' = gen + 1
    /\ active' = IF active = s THEN None ELSE active
    /\ live' = IF live = s THEN None ELSE live
    /\ root' = [root EXCEPT ![s] = NoRoot]
    /\ flush' = [flush EXCEPT ![s] = NoFlush]
    /\ net' = GivenUp(Waiting(flush[s].cur, "flush"))
    /\ call' = [c \in Calls |-> IF call[c].s = s THEN [call[c] EXCEPT !.desc = FALSE] ELSE call[c]]
    /\ exposed' = [exposed EXCEPT ![s] = @ \cup (IF root[s].base = store[s].base THEN root[s].unproven \cup root[s].reserved ELSE {})]
    /\ UNCHANGED <<reg, off, nextId, server, touched, dropped, tried>>

(***************************************************************************)
(* Tool calls                                                              *)
(***************************************************************************)

Held(r) == r.known \cup r.unproven \cup r.reserved
TrackedBy(r) == Cardinality(r.known) + Cardinality(r.unproven) + Cardinality(r.reserved)
Slots(n) == IF n >= MaxPaths THEN 0 ELSE MaxPaths - n

(* The candidates a call will have captured: those the root does not hold, *)
(* as many as there are slots.                                             *)
ToCapture(r, cand) ==
    LET new == SelectSeq(cand, LAMBDA p : p \notin Held(r))
        n == Slots(TrackedBy(r))
    IN IF Len(new) <= n THEN new ELSE SubSeq(new, 1, n)

(* The tool is let go with root r: the files it declared that r holds      *)
(* neither known nor unproven are exposed.                                 *)
Exposes(k, r) ==
    exposed' = [exposed EXCEPT ![k.s] = @ \cup
        (IF k.base = store[k.s].base THEN Range(k.kind.cand) \ (r.known \cup r.unproven) ELSE {})]

Capture(k) == Request(k.s, k.base, Head(k.rest), k.cur, "preEdit", "call", TRUE)

(* tool_call: kind.cand are the files the call declares, kind.hidden those *)
(* only its result will name.  Slots are reserved at once; with nothing to *)
(* capture the tool runs immediately, even when the file is reserved by a  *)
(* capture still in flight.                                                *)
StartCall(c, kind) ==
    LET s == live
        r == root[s]
        new == ToCapture(r, kind.cand)
        k == [st |-> IF new = <<>> THEN "released" ELSE "capturing", s |-> s, gen |-> gen, obj |-> r.obj,
              base |-> r.base, desc |-> TRUE, kind |-> kind, rest |-> new, cur |-> nextId + 1]
    IN /\ call[c] = Idle /\ live # None /\ ~off /\ nextId + Len(new) <= MaxIds
       /\ call' = [call EXCEPT ![c] = k]
       /\ nextId' = nextId + Len(new)
       /\ root' = [root EXCEPT ![s].reserved = @ \cup Range(new)]
       /\ IF new = <<>> THEN net' = net /\ Exposes(k, r)
          ELSE net' = net \cup {Capture(k)} /\ exposed' = exposed
       /\ UNCHANGED <<registry, flush, server, touched, dropped, tried>>

(* The reservations of a call are released on the root object it took them *)
(* from.                                                                   *)
Released(k) ==
    IF root[k.s].obj = k.obj THEN [root EXCEPT ![k.s].reserved = @ \ Range(k.rest)] ELSE root

Stale(k) == gen # k.gen \/ active \notin {None, k.s}

(* The answer, or its absence, came after a switch, a new registration or  *)
(* a shutdown: everything the call was doing is dropped.                   *)
Discarded(c, rest) ==
    LET k == call[c]
    IN /\ root' = Released(k)
       /\ call' = [call EXCEPT ![c].st = "released", ![c].rest = <<>>]
       /\ Exposes(k, root'[k.s])
       /\ net' = rest
       /\ UNCHANGED <<flush, nextId, dropped, tried>>

(* A capture that got no answer, or a refusal, makes its file unproven; so *)
(* does an answer without an original.  expired: the deadline has passed   *)
(* and the chunks left are given up as well, each as an attempt of its own.*)
Decided(c, ans, expired, rest) ==
    LET k == call[c]
        s == k.s
        p == Head(k.rest)
        left == Tail(k.rest)
        good == ans \in {"captured", "known"}
        bad == ans \in {"missing", "abort", "error"}
        late == IF expired THEN left ELSE <<>>
        new == (IF bad THEN <<Attempt(k.cur, p)>> ELSE <<>>)
               \o [n \in DOMAIN late |-> Attempt(k.cur + n, late[n])]
        r == [root[s] EXCEPT !.known = @ \cup (IF good THEN {p} ELSE {}),
                             !.unproven = @ \cup (IF good THEN {} ELSE {p}) \cup Range(late),
                             !.reserved = @ \ ({p} \cup Range(late)),
                             !.queue = Queued(@, new)]
        note == IF bad THEN {Request(s, k.base, p, k.cur, "unproven", "note", FALSE)} ELSE {}
        k1 == [k EXCEPT !.rest = left, !.cur = @ + 1]
    IN /\ dropped' = dropped \cup Forgotten(root[s].queue, new)
       /\ UNCHANGED nextId
       /\ IF left # <<>> /\ ~expired
          THEN /\ call' = [call EXCEPT ![c] = k1]
               /\ root' = [root EXCEPT ![s] = r]
               /\ net' = rest \cup note \cup {Capture(k1)}
               /\ UNCHANGED <<flush, exposed, tried>>
          ELSE /\ call' = [call EXCEPT ![c].st = "released", ![c].rest = <<>>]
               /\ Exposes(k, r)
               /\ FlushTo(s, r, FlushOn(s, flush[s], r.queue, r.obj, {}, gen), rest \cup note)

CaptureStep(c, ans, rest) ==
    /\ off' = (off \/ ans = "disabled")
    /\ IF Stale(call[c]) \/ ans = "disabled" THEN Discarded(c, rest)
       ELSE \E expired \in IF Len(call[c].rest) = 1 THEN {FALSE}
                            ELSE IF ans = "abort" THEN {TRUE} ELSE BOOLEAN :
                Decided(c, ans, expired, rest)
    /\ UNCHANGED <<gen, active, live, reg, server, touched>>

CaptureAnswered(c) ==
    /\ call[c].st = "capturing"
    /\ \E r \in Waiting(call[c].cur, "call") : r.at = "answered" /\ CaptureStep(c, r.ans, net \ {r})

(* The request is aborted at the deadline, or the connection fails. *)
CaptureTimesOut(c) ==
    /\ call[c].st = "capturing"
    /\ \E ans \in {"abort", "error"} : CaptureStep(c, ans, GivenUp(Waiting(call[c].cur, "call")))

(* The tool writes the files it declared. *)
ToolRuns(c) ==
    LET k == call[c]
    IN /\ k.st = "released"
       /\ call' = [call EXCEPT ![c].st = "written"]
       /\ touched' = [touched EXCEPT ![k.s] = @ \cup
              (IF k.base = store[k.s].base THEN Range(k.kind.cand) ELSE {})]
       /\ UNCHANGED <<registry, root, flush, nextId, net, server, exposed, dropped, tried>>

(* tool_result: if the registration of the call still stands, the files    *)
(* only the result names are unproven, as many as the limit allows next to *)
(* what is known and unproven already.                                     *)
ToolResult(c) ==
    LET k == call[c]
        r == root[k.s]
        open == k.kind.hidden \ (r.known \cup r.unproven)
        n == Slots(Cardinality(r.known) + Cardinality(r.unproven))
    IN /\ k.st = "written" /\ k.desc /\ ~off /\ k.kind.hidden # {}
       /\ r.obj # 0 /\ r.base = k.base
       /\ call' = [call EXCEPT ![c].desc = FALSE]
       /\ \E new \in SUBSET open :
             /\ Cardinality(new) = IF Cardinality(open) <= n THEN Cardinality(open) ELSE n
             /\ root' = [root EXCEPT ![k.s].unproven = @ \cup new]
             /\ net' = net \cup {Request(k.s, k.base, p, 0, "unproven", "note", FALSE) : p \in new}
       /\ UNCHANGED <<registry, flush, nextId, server, history>>

(***************************************************************************)
(* The server                                                              *)
(***************************************************************************)

(* Request r is answered; nobody waits for a request that is not open. *)
Answer(r, ans) ==
    net' = (net \ {r}) \cup (IF r.open THEN {[r EXCEPT !.at = "answered", !.ans = ans]} ELSE {})

(* A refusal with 503 reaches whoever sent the request. *)
Refuse(r) ==
    /\ Answer(r, "disabled")
    /\ off' = (off \/ r.from = "note")
    /\ UNCHANGED store

Record(r, rec) == store' = [store EXCEPT ![r.s].rec = rec]

(* capture_session_paths up to the probe. *)
ServerReceives(r) ==
    LET rec == store[r.s].rec
    IN /\ r.at = "sent"
       /\ IF ~srv.on THEN Refuse(r)
          ELSE /\ off' = off
               /\ IF store[r.s].base # r.base THEN Answer(r, "missing") /\ UNCHANGED store
                  ELSE IF r.mode = "unproven" THEN Answer(r, "ack") /\ Record(r, Unproven(rec, r.p, r.id))
                  ELSE /\ Record(r, Reserve(rec, r.p, r.id))
                       /\ IF ReserveAnswer(rec, r.p) = "probe"
                          THEN net' = (net \ {r}) \cup {[r EXCEPT !.at = "reserved", !.seen = srv.gen]}
                          ELSE Answer(r, ReserveAnswer(rec, r.p))
       /\ UNCHANGED <<gen, active, live, reg, root, call, flush, nextId, srv, history>>

(* The probe reads the file, in a thread of its own. *)
ServerReads(r) ==
    /\ r.at = "reserved"
    /\ net' = (net \ {r}) \cup {[r EXCEPT !.at = "read", !.orig = r.p \notin touched[r.s]]}
    /\ UNCHANGED <<registry, root, call, flush, nextId, server, history>>

(* After the probe.  The reservation is over its deadline only if the      *)
(* producer, whose deadline began earlier, no longer waits; the file may   *)
(* be unreadable, excluded, or over the storage limit.                     *)
ServerStores(r) ==
    /\ r.at = "read"
    /\ IF ~srv.on \/ srv.gen # r.seen THEN Refuse(r)
       ELSE /\ off' = off
            /\ \E late \in IF r.open THEN {FALSE} ELSE BOOLEAN, found \in BOOLEAN :
                  /\ Record(r, Adopt(store[r.s].rec, r.p, r.id, late, found, r.orig))
                  /\ Answer(r, AdoptAnswer(store[r.s].rec, r.p, r.id, late, found))
    /\ UNCHANGED <<gen, active, live, reg, root, call, flush, nextId, srv, history>>

(* A request never arrives, or the handler of an abandoned one is dropped. *)
Lost(r) ==
    /\ r.at = "sent" \/ ~r.open
    /\ net' = net \ {r}
    /\ UNCHANGED <<registry, root, call, flush, nextId, server, history>>

(* The operator switches tracking off, which purges every record, or on. *)
Toggle ==
    /\ srv.gen <= MaxToggles
    /\ srv' = [on |-> ~srv.on, gen |-> srv.gen + 1]
    /\ store' = [s \in Sessions |-> NoRecord]
    /\ UNCHANGED <<registry, root, call, flush, nextId, net, history>>

Next ==
    \/ \E s \in Sessions : RegisterStart(s) \/ Shutdown(s) \/ AgentEnd(s)
                           \/ FlushAnswered(s) \/ FlushTimesOut(s)
    \/ Registered \/ RegisterFailed
    \/ \E c \in Calls : \/ \E kind \in Kinds : StartCall(c, kind)
                         \/ CaptureAnswered(c) \/ CaptureTimesOut(c) \/ ToolRuns(c) \/ ToolResult(c)
    \/ \E r \in net : ServerReceives(r) \/ ServerReads(r) \/ ServerStores(r) \/ Lost(r)
    \/ Toggle

Spec == Init /\ [][Next]_vars

(***************************************************************************)
(* Properties                                                              *)
(***************************************************************************)

TypeOK ==
    /\ gen \in 0 .. MaxGen /\ active \in Sessions \cup {None} /\ live \in Sessions \cup {None}
    /\ \A s \in Sessions : /\ Held(root[s]) \subseteq Paths
                           /\ Len(root[s].queue) <= MaxQueue
                           /\ store[s].rec \in [Paths -> Entries]
    /\ \A r \in net : r.p \in Paths /\ r.id \in 0 .. MaxIds
    /\ nextId \in 0 .. MaxIds

(* The server shows as original what a tool of the session had written. *)
FalseOriginal(s, p) == store[s].rec[p].ack /\ ~store[s].rec[p].orig

(* A false original is either of a file a tool was let loose on with no    *)
(* mark left at the producer, or its capture is still to be taken back:    *)
(* queued, on its way, or lost with a full queue.                          *)
FalseOriginalExplained ==
    \A s \in Sessions, p \in Paths :
        FalseOriginal(s, p) =>
            \/ p \in exposed[s]
            \/ store[s].rec[p].id \in QueueIds(root[s].queue) \cup dropped
            \/ \E r \in net : r.mode = "unproven" /\ r.id = store[s].rec[p].id

(* The reserved slots of a root are those of the calls still capturing on  *)
(* it: an early return, an error or a deadline leaks none, and no two      *)
(* calls capture the same file.                                            *)
ReservationsHaveOwners ==
    \A s \in Sessions :
        LET own == {c \in Calls : call[c].st = "capturing" /\ call[c].s = s /\ call[c].obj = root[s].obj}
        IN /\ root[s].reserved = UNION {Range(call[c].rest) : c \in own}
           /\ \A c, d \in own : c # d => Range(call[c].rest) \cap Range(call[d].rest) = {}

(* A file the producer counts as known has an acknowledged original at the *)
(* server, unless a registration forgot it in between.                     *)
KnownIsStored ==
    \A s \in Sessions :
        root[s].base = store[s].base =>
            \A p \in root[s].known : store[s].rec[p].ack \/ p \in exposed[s]

(* An attempt queued on the live root that no flush has sent yet is        *)
(* carried: by a flush of this registration that will come to it, or by a  *)
(* call still capturing, which flushes when it ends.  One queued while a   *)
(* flush runs, or at its last pass, waits for no other event.              *)
QueuedIsCarried ==
    \A s \in Sessions : live = s /\ ~off =>
        \A id \in QueueIds(root[s].queue) \ tried :
            \/ flush[s].cur # 0 /\ FlushValid(s, flush[s]) /\ id \notin flush[s].failed
            \/ \E c \in Calls : call[c].st = "capturing" /\ call[c].s = s /\ ~Stale(call[c])

AtRest ==
    /\ net = {} /\ reg = NoReg
    /\ \A c \in Calls : call[c].st \in {"idle", "written"}
    /\ \A s \in Sessions : flush[s].cur = 0 /\ root[s].queue = <<>>

(* With nothing in flight and nothing queued, the server shows no file a   *)
(* tool had already written as its original.                               *)
\* Does not hold (README, known deviations).
NoFalseOriginalAtRest ==
    AtRest => \A s \in Sessions, p \in Paths : ~FalseOriginal(s, p)

(* A call of the live session on its current root is let go only with its  *)
(* files known or unproven, or being captured by another call.             *)
\* Does not hold (README, known deviations).
LiveReleaseIsMarked ==
    [][\A c \in Calls :
        LET k == call[c]
        IN (k.st = "capturing" /\ call'[c].st = "released"
            /\ live = k.s /\ root[k.s].obj = k.obj /\ ~off')
               => Range(k.kind.cand) \subseteq Held(root'[k.s])]_vars

(* A root never holds more files than the server would track. *)
\* Does not hold (README, known deviations).
TrackedWithinLimit ==
    \A s \in Sessions : TrackedBy(root[s]) <= MaxPaths
=============================================================================
