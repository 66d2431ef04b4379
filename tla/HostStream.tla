----------------------------- MODULE HostStream -----------------------------
(***************************************************************************)
(* The host-resource stream coordinator of the web client                  *)
(* (api/host-resource-stream-coordinator.ts): one SSE stream for one owner *)
(* (profile, generation) and one query client, its modes, timers, retry    *)
(* budget and latches, and the REST queries and alert events that write    *)
(* the same cache entry (api/queries.ts, hooks/use-sse.ts).                *)
(*                                                                         *)
(* JavaScript runs a handler to its end, so every handler is one step up   *)
(* to its await.  One chunk of the stream may hold several pieces; they    *)
(* are handled one after the other in one run, so nothing else happens     *)
(* while pieces are left.  streamAttemptFence and switchToken only tell    *)
(* the current attempt and frame from earlier ones: an earlier one has no  *)
(* effect, and the model keeps the current one only.  A generation of the  *)
(* REST source is kept as a flag of the query under way.                   *)
(***************************************************************************)
EXTENDS Integers, Sequences

CONSTANTS
    MaxRetry,   \* MAX_RETRY_COUNT
    MaxChunk,   \* bound: pieces in one chunk
    BadIsLast,  \* a piece that fails the attempt is the last of its chunk
    MaxRev,     \* bound: revisions of one server epoch
    MaxEpoch    \* bound: server epochs

ASSUME HostStreamAssumption ==
    /\ MaxRetry \in Nat /\ MaxChunk \in Nat \ {0}
    /\ MaxRev \in Nat \ {0} /\ MaxEpoch \in Nat \ {0}
    /\ BadIsLast \in BOOLEAN

VARIABLES
    mode,       \* the source mode
    latch,      \* [auth, rest]: authBlockedLatch and restOnlyLatch
    interest,   \* consumers that registered an interest
    visible,    \* document.visibilityState
    conn,       \* the owner's generation: "connecting", "connected", "replaced"
    disposed,   \* the coordinator's own flag
    attempt,    \* the attempt: [ph, epoch], ph "none", "opening" or "reading"
    chunk,      \* pieces of the chunk being handled
    status,     \* [ver, adjacent]: the last status frame of the attempt
    pend,       \* the frame whose cache write waits for cancelQueries
    committed,  \* the last committed frame
    timers,     \* [data, idle, stable]: deadlines armed
    retry,      \* [count, ptr, armed, tries]: retryCount, retryTimer, the
                \* timers pending, and the attempts since retryCount was 0
    rest,       \* the REST query: [ph, cur, ver]
    cache,      \* the cached snapshot: [src, ver]
    srv         \* the server's [epoch, rev]

vars == <<mode, latch, interest, visible, conn, disposed, attempt, chunk,
          status, pend, committed, timers, retry, rest, cache, srv>>

None == [epoch |-> 0, rev |-> 0]
NoRest == [ph |-> "none", cur |-> FALSE, ver |-> None]
NoTimers == [data |-> FALSE, idle |-> FALSE, stable |-> FALSE]
NoAttempt == [ph |-> "none", epoch |-> 0]
NoStatus == [ver |-> None, adjacent |-> FALSE]
Versions == [epoch : 1..MaxEpoch, rev : 1..MaxRev]
Modes == {"STOPPED", "STARTING", "LIVE", "RETRY_WAIT", "REST_ONLY", "AUTH_BLOCKED", "PAUSED"}

(* What a chunk may hold.  The server ends the stream after an error        *)
(* control, so AUTH_UNAVAILABLE is the last piece of its chunk; whether a   *)
(* piece that does not decode is one, too, depends on how the network cuts  *)
(* the stream.                                                              *)
Pieces(ver) ==
    {[kind |-> k, ver |-> None] : k \in {"comment", "bad", "auth"}}
        \cup [kind : {"status", "data"}, ver : ver]
Failing == {"auth"} \cup IF BadIsLast THEN {"bad"} ELSE {}
Chunks(ver) ==
    UNION {{c \in [1..n -> Pieces(ver)] : \A i \in 1..(n - 1) : c[i].kind \notin Failing}
           : n \in 1..MaxChunk}

Init ==
    /\ mode = "STOPPED"
    /\ latch = [auth |-> FALSE, rest |-> FALSE]
    /\ interest = 0
    /\ visible \in BOOLEAN
    /\ conn = "connecting"
    /\ disposed = FALSE
    /\ attempt = NoAttempt
    /\ chunk = <<>>
    /\ status = NoStatus
    /\ pend = None /\ committed = None
    /\ timers = NoTimers
    /\ retry = [count |-> 0, ptr |-> 0, armed |-> {}, tries |-> 0]
    /\ rest = NoRest
    /\ cache = [src |-> "none", ver |-> None]
    /\ srv = [epoch |-> 1, rev |-> 1]

(* The part of the coordinator the handlers pass to one another. *)
Coordinator == [mode |-> mode, latch |-> latch, attempt |-> attempt,
                status |-> status, pend |-> pend, timers |-> timers, retry |-> retry]

Becomes(s) ==
    /\ mode' = s.mode /\ latch' = s.latch /\ attempt' = s.attempt
    /\ status' = s.status /\ pend' = s.pend
    /\ timers' = s.timers /\ retry' = s.retry

(***************************************************************************)
(* Helpers of the class.                                                   *)
(***************************************************************************)

AtMost(n, bound) == IF n > bound THEN bound ELSE n

ClearRetryTimer(r) == [r EXCEPT !.armed = @ \ {r.ptr}, !.ptr = 0]

(* stopActiveStream: the pending frame is fenced, the deadlines go, the    *)
(* attempt is aborted; the retry timer goes only when asked.               *)
StopActiveStream(s, clearRetryTimer) ==
    [s EXCEPT !.pend = None, !.timers = NoTimers, !.attempt = NoAttempt,
              !.status = NoStatus,
              !.retry = IF clearRetryTimer THEN ClearRetryTimer(@) ELSE @]

(* startAttempt: a fresh attempt with its two deadlines.                    *)
StartAttemptNoDeadline(s) ==
    LET stopped == StopActiveStream(s, TRUE)
    IN  [stopped EXCEPT !.mode = "STARTING", !.attempt.ph = "opening",
                        !.timers.idle = TRUE,
                        !.retry.tries = AtMost(@ + 1, MaxRetry + 1)]
StartAttempt(s) ==
    LET stopped == StopActiveStream(s, TRUE)
    IN  [stopped EXCEPT !.mode = "STARTING", !.attempt.ph = "opening",
                        !.timers.data = TRUE, !.timers.idle = TRUE,
                        !.retry.tries = AtMost(@ + 1, MaxRetry + 1)]

(* scheduleRetry: the budget is charged; within it a timer is armed.       *)
(* Beyond it the count no longer matters.                                  *)
ScheduleRetry(s) ==
    LET stopped == StopActiveStream(s, FALSE)
        count == AtMost(s.retry.count + 1, MaxRetry + 1)
        timer == CHOOSE t \in 1..(MaxRetry + 1) : t \notin s.retry.armed
    IN  IF count > MaxRetry
        THEN [stopped EXCEPT !.retry.count = count,
                             !.mode = IF s.latch.auth THEN "AUTH_BLOCKED" ELSE "REST_ONLY"]
        ELSE [stopped EXCEPT !.mode = "RETRY_WAIT",
                             !.retry.count = count, !.retry.ptr = timer,
                             !.retry.armed = @ \cup {timer}]

(* evaluateLifecycle, for a coordinator whose owner is current. *)
EvaluateLifecycle(s, owner, watchers, shown) ==
    LET stopped == StopActiveStream(s, FALSE)
    IN  IF owner # "connected" \/ watchers = 0 THEN [stopped EXCEPT !.mode = "STOPPED"]
        ELSE IF ~shown THEN [stopped EXCEPT !.mode = "PAUSED"]
        ELSE IF s.latch.auth THEN [stopped EXCEPT !.mode = "AUTH_BLOCKED"]
        ELSE IF s.latch.rest THEN [stopped EXCEPT !.mode = "REST_ONLY"]
        ELSE IF s.mode \in {"STOPPED", "PAUSED"} THEN StartAttempt(s)
        ELSE s

(* The auth and REST-only latches end the attempt for this generation. *)
Block(s) == [StopActiveStream(s, TRUE) EXCEPT !.latch.auth = TRUE, !.mode = "AUTH_BLOCKED"]
FallBack(s) ==
    [StopActiveStream(s, TRUE) EXCEPT
        !.latch.rest = TRUE, !.mode = IF s.latch.auth THEN "AUTH_BLOCKED" ELSE "REST_ONLY"]

(* A change of sourceGeneration makes a query under way stale; cancelQueries *)
(* aborts it.                                                               *)
Stale(r) == [r EXCEPT !.cur = FALSE]

(* canUseResourceRest. *)
CanUseResourceRest ==
    /\ conn = "connected" /\ visible /\ interest > 0 /\ ~disposed
    /\ pend = None /\ ~latch.auth
    /\ mode \in {"STARTING", "RETRY_WAIT", "REST_ONLY"}

(* No handler runs while the pieces of a chunk are being handled. *)
Ready == chunk = <<>> /\ ~disposed

(***************************************************************************)
(* Interest, visibility, connection, disposal.                             *)
(***************************************************************************)

RegisterInterest ==
    /\ Ready /\ interest < 2
    /\ interest' = interest + 1
    /\ Becomes(EvaluateLifecycle(Coordinator, conn, interest', visible))
    /\ UNCHANGED <<visible, conn, disposed, chunk, committed, rest, cache, srv>>

DropInterest ==
    /\ Ready /\ interest > 0
    /\ interest' = interest - 1
    /\ Becomes(EvaluateLifecycle(Coordinator, conn, interest', visible))
    /\ UNCHANGED <<visible, conn, disposed, chunk, committed, rest, cache, srv>>

(* The document is hidden, or the page enters the back-forward cache. *)
Hide ==
    /\ Ready /\ visible
    /\ visible' = FALSE
    /\ Becomes(IF mode \in {"STARTING", "LIVE", "RETRY_WAIT"}
               THEN [StopActiveStream(Coordinator, FALSE) EXCEPT !.mode = "PAUSED"]
               ELSE Coordinator)
    /\ UNCHANGED <<interest, conn, disposed, chunk, committed, rest, cache, srv>>

(* The document is visible again; a page restored from the back-forward    *)
(* cache evaluates its life cycle whatever its mode.                       *)
ShowRestoredOnly(restored) ==
    /\ Ready /\ ~visible
    /\ visible' = TRUE
    /\ Becomes(IF restored
               THEN EvaluateLifecycle(Coordinator, conn, interest, visible')
               ELSE Coordinator)
    /\ UNCHANGED <<interest, conn, disposed, chunk, committed, rest, cache, srv>>
Show(restored) ==
    /\ Ready /\ ~visible
    /\ visible' = TRUE
    /\ Becomes(IF restored \/ (mode = "PAUSED" /\ interest > 0)
               THEN EvaluateLifecycle(Coordinator, conn, interest, visible')
               ELSE Coordinator)
    /\ UNCHANGED <<interest, conn, disposed, chunk, committed, rest, cache, srv>>

(* The registry announces a change: this generation connects, or another   *)
(* profile's entry changed.                                                *)
ConnectionsChanged ==
    /\ Ready /\ conn # "replaced"
    /\ conn' = "connected"
    /\ Becomes(EvaluateLifecycle(Coordinator, conn', interest, visible))
    /\ UNCHANGED <<interest, visible, disposed, chunk, committed, rest, cache, srv>>

(* dispose: the generation is replaced, the last query client of this kind *)
(* goes, or the page is left for good.                                     *)
Dispose ==
    /\ Ready
    /\ disposed' = TRUE
    /\ conn' \in {conn, "replaced"}
    /\ Becomes([StopActiveStream(Coordinator, TRUE) EXCEPT !.mode = "STOPPED"])
    /\ UNCHANGED <<interest, visible, chunk, committed, rest, cache, srv>>

(***************************************************************************)
(* The timers.  A timer callback clears the retryTimer field whichever     *)
(* timer it holds.                                                         *)
(***************************************************************************)

RetryFires(t) ==
    /\ Ready /\ t \in retry.armed
    /\ LET s == [Coordinator EXCEPT !.retry.armed = @ \ {t}, !.retry.ptr = 0]
       IN  Becomes(IF conn = "connected" /\ interest > 0 /\ visible
                   THEN StartAttempt(s) ELSE s)
    /\ UNCHANGED <<interest, visible, conn, disposed, chunk, committed, rest, cache, srv>>

(* handleStreamFailure: a live source makes way for REST, which is asked   *)
(* at once; otherwise the retry is all that happens.                       *)
HandleStreamFailure ==
    /\ Becomes(ScheduleRetry(Coordinator))
    /\ rest' = IF mode = "LIVE" THEN Stale(rest) ELSE rest
    /\ UNCHANGED <<interest, visible, conn, disposed, committed, cache, srv>>

DataDeadline ==
    /\ Ready /\ timers.data /\ HandleStreamFailure /\ UNCHANGED chunk

IdleDeadline ==
    /\ Ready /\ timers.idle /\ HandleStreamFailure /\ UNCHANGED chunk

(* The stable window of recordAdvancingRevision; it is armed by a commit,   *)
(* so revisions were committed in it.                                       *)
StableWindow ==
    /\ Ready /\ timers.stable
    /\ timers' = [timers EXCEPT !.stable = FALSE]
    /\ retry' = IF mode = "LIVE" THEN [retry EXCEPT !.count = 0, !.tries = 1] ELSE retry
    /\ UNCHANGED <<mode, latch, interest, visible, conn, disposed, attempt, chunk,
                   status, pend, committed, rest, cache, srv>>

(***************************************************************************)
(* The attempt: the answer of the request, the chunks of the body.         *)
(***************************************************************************)

(* Status 200 with a readable body. *)
OpenStream ==
    /\ Ready /\ attempt.ph = "opening"
    /\ attempt' = [ph |-> "reading", epoch |-> srv.epoch]
    /\ UNCHANGED <<mode, latch, interest, visible, conn, disposed, chunk, status, pend,
                   committed, timers, retry, rest, cache, srv>>

(* 404, 405, FRAME_TOO_LARGE, an unknown 401 or 403, or no way to stream. *)
OpenUnsupported ==
    /\ Ready /\ attempt.ph = "opening"
    /\ Becomes(FallBack(Coordinator))
    /\ UNCHANGED <<interest, visible, conn, disposed, chunk, committed, rest, cache, srv>>

(* 503 AUTH_UNAVAILABLE. *)
OpenBlocked ==
    /\ Ready /\ attempt.ph = "opening"
    /\ Becomes(Block(Coordinator))
    /\ UNCHANGED <<interest, visible, conn, disposed, chunk, committed, rest, cache, srv>>

(* 429 and the other statuses charge the budget without a source change.   *)
OpenRefused ==
    /\ Ready /\ attempt.ph = "opening"
    /\ Becomes(ScheduleRetry(Coordinator))
    /\ UNCHANGED <<interest, visible, conn, disposed, chunk, committed, rest, cache, srv>>

(* The request or the read fails, or the body ends. *)
StreamEnds ==
    /\ Ready /\ attempt.ph # "none" /\ HandleStreamFailure /\ UNCHANGED chunk

(* A 401 or an error control with a recognised code drops the connection   *)
(* in the transport before the coordinator hears of it: the generation is  *)
(* replaced and the coordinator disposes of itself.                        *)
AuthDropped ==
    /\ Ready /\ attempt.ph # "none"
    /\ disposed' = TRUE /\ conn' = "replaced"
    /\ Becomes([StopActiveStream(Coordinator, TRUE) EXCEPT !.mode = "STOPPED"])
    /\ UNCHANGED <<interest, visible, chunk, committed, rest, cache, srv>>

(* Bytes arrive: the idle deadline is armed again and the pieces handled.  *)
Receive ==
    /\ Ready /\ attempt.ph = "reading" /\ attempt.epoch = srv.epoch
    /\ chunk' \in Chunks({v \in Versions : v.epoch = srv.epoch /\ v.rev <= srv.rev})
    /\ timers' = [timers EXCEPT !.idle = TRUE]
    /\ UNCHANGED <<mode, latch, interest, visible, conn, disposed, attempt, status, pend,
                   committed, retry, rest, cache, srv>>

(***************************************************************************)
(* handleParsedPiece, one action per kind.  streamAttemptFence moves only  *)
(* when an attempt starts, so the pieces left in a chunk are handled even  *)
(* after one of them has failed the attempt.                               *)
(***************************************************************************)

Piece(kind) == chunk # <<>> /\ ~disposed /\ Head(chunk).kind = kind /\ chunk' = Tail(chunk)

PieceComment ==
    /\ Piece("comment")
    /\ status' = [status EXCEPT !.adjacent = FALSE]
    /\ UNCHANGED <<mode, latch, interest, visible, conn, disposed, attempt, pend,
                   committed, timers, retry, rest, cache, srv>>

(* A parser error, a frame that does not decode, another error control. *)
PieceBad == Piece("bad") /\ HandleStreamFailure

PieceAuth ==
    /\ Piece("auth")
    /\ Becomes(Block(Coordinator))
    /\ rest' = NoRest
    /\ UNCHANGED <<interest, visible, conn, disposed, committed, cache, srv>>

PieceStatus ==
    /\ Piece("status")
    /\ status' = [ver |-> Head(chunk).ver, adjacent |-> TRUE]
    /\ UNCHANGED <<mode, latch, interest, visible, conn, disposed, attempt, pend,
                   committed, timers, retry, rest, cache, srv>>

(* A data frame counts when its status came just before it and, within one *)
(* epoch, it goes beyond the committed one (or repeats it, before LIVE).   *)
Accepted(ver) ==
    /\ status = [ver |-> ver, adjacent |-> TRUE]
    /\ ver.epoch = committed.epoch =>
          IF mode = "LIVE" THEN ver.rev > committed.rev ELSE ver.rev >= committed.rev

(* An accepted frame disarms the data deadline, changes the source and     *)
(* waits for cancelQueries, which ends the REST query under way.           *)
PieceData ==
    /\ Piece("data")
    /\ status' = [status EXCEPT !.adjacent = FALSE]
    /\ IF Accepted(Head(chunk).ver)
       THEN /\ timers' = [timers EXCEPT !.data = FALSE]
            /\ IF conn = "connected"
               THEN pend' = Head(chunk).ver /\ rest' = NoRest
               ELSE UNCHANGED <<pend, rest>>
       ELSE UNCHANGED <<timers, pend, rest>>
    /\ UNCHANGED <<mode, latch, interest, visible, conn, disposed, attempt, committed,
                   retry, cache, srv>>

(* switchToHostResourceFrame after its await: snapshot and metrics are     *)
(* written together and the source is LIVE.                                *)
CommitFrame ==
    /\ Ready /\ pend # None
    /\ cache' = [src |-> "stream", ver |-> pend]
    /\ committed' = pend
    /\ pend' = None
    /\ mode' = "LIVE"
    /\ timers' = [timers EXCEPT !.stable = TRUE]
    /\ UNCHANGED <<latch, interest, visible, conn, disposed, attempt, chunk, status,
                   retry, rest, srv>>

(***************************************************************************)
(* The other writers of the cached snapshot.                               *)
(***************************************************************************)

(* The REST query of useHostResourceSnapshot starts: it is allowed now.    *)
StartRest ==
    /\ Ready /\ rest.ph = "none" /\ CanUseResourceRest
    /\ rest' = [ph |-> "asked", cur |-> TRUE, ver |-> None]
    /\ UNCHANGED <<mode, latch, interest, visible, conn, disposed, attempt, chunk, status,
                   pend, committed, timers, retry, cache, srv>>

(* The server answers, or the request fails. *)
RestAnswered ==
    /\ rest.ph = "asked" /\ chunk = <<>>
    /\ rest' \in {[rest EXCEPT !.ph = "answered", !.ver = srv], NoRest}
    /\ UNCHANGED <<mode, latch, interest, visible, conn, disposed, attempt, chunk, status,
                   pend, committed, timers, retry, cache, srv>>

(* Its answer is used only if the source has not changed and REST is still *)
(* allowed; otherwise the cached value is returned again.                  *)
RestDone ==
    /\ rest.ph = "answered" /\ chunk = <<>>
    /\ cache' = IF rest.cur /\ CanUseResourceRest
                THEN [src |-> "rest", ver |-> rest.ver] ELSE cache
    /\ rest' = NoRest
    /\ UNCHANGED <<mode, latch, interest, visible, conn, disposed, attempt, chunk, status,
                   pend, committed, timers, retry, srv>>

(* host:alertChanged edits the cached snapshot where REST is allowed. *)
AlertEventAlways ==
    /\ chunk = <<>> /\ cache.src # "none"
    /\ cache' = [cache EXCEPT !.src = "event"]
    /\ UNCHANGED <<mode, latch, interest, visible, conn, disposed, attempt, chunk, status,
                   pend, committed, timers, retry, rest, srv>>
AlertEvent ==
    /\ chunk = <<>> /\ cache.src # "none" /\ CanUseResourceRest
    /\ cache' = [cache EXCEPT !.src = "event"]
    /\ UNCHANGED <<mode, latch, interest, visible, conn, disposed, attempt, chunk, status,
                   pend, committed, timers, retry, rest, srv>>

(* The server publishes a revision, or restarts with a new epoch. *)
ServerAdvances ==
    /\ \/ srv.rev < MaxRev /\ srv' = [srv EXCEPT !.rev = @ + 1]
       \/ srv.epoch < MaxEpoch /\ srv' = [epoch |-> srv.epoch + 1, rev |-> 1]
    /\ UNCHANGED <<mode, latch, interest, visible, conn, disposed, attempt, chunk, status,
                   pend, committed, timers, retry, rest, cache>>

HandlePiece == PieceComment \/ PieceBad \/ PieceAuth \/ PieceStatus \/ PieceData

Next ==
    \/ RegisterInterest \/ DropInterest \/ Hide
    \/ \E restored \in BOOLEAN : Show(restored)
    \/ ConnectionsChanged \/ Dispose
    \/ \E t \in 1..(MaxRetry + 1) : RetryFires(t)
    \/ DataDeadline \/ IdleDeadline \/ StableWindow
    \/ OpenStream \/ OpenUnsupported \/ OpenBlocked \/ OpenRefused
    \/ StreamEnds \/ AuthDropped \/ Receive \/ HandlePiece
    \/ CommitFrame \/ StartRest \/ RestAnswered \/ RestDone \/ AlertEvent
    \/ ServerAdvances

Spec == Init /\ [][Next]_vars

(* The browser's queues are fair: the pieces of a chunk are handled, and   *)
(* the continuation of a commit and the timers run although chunks keep    *)
(* arriving.                                                               *)
FairSpec ==
    /\ Spec
    /\ WF_vars(HandlePiece) /\ SF_vars(CommitFrame)
    /\ SF_vars(DataDeadline)
    /\ WF_vars(\E t \in 1..(MaxRetry + 1) : RetryFires(t))

(***************************************************************************)
(* Properties.                                                             *)
(***************************************************************************)

Eligible == conn = "connected" /\ interest > 0 /\ visible /\ ~disposed

(* The state of the coordinator and of the entries it shares. *)
TypeOK ==
    /\ mode \in Modes
    /\ latch \in [auth : BOOLEAN, rest : BOOLEAN]
    /\ interest \in 0..2 /\ visible \in BOOLEAN /\ disposed \in BOOLEAN
    /\ conn \in {"connecting", "connected", "replaced"}
    /\ attempt \in [ph : {"none", "opening", "reading"}, epoch : 0..MaxEpoch]
    /\ chunk \in Seq(Pieces(Versions)) /\ Len(chunk) <= MaxChunk
    /\ status \in [ver : Versions \cup {None}, adjacent : BOOLEAN]
    /\ pend \in Versions \cup {None} /\ committed \in Versions \cup {None}
    /\ timers \in [data : BOOLEAN, idle : BOOLEAN, stable : BOOLEAN]
    /\ retry \in [count : 0..(MaxRetry + 1), ptr : 0..(MaxRetry + 1),
                  armed : SUBSET (1..(MaxRetry + 1)), tries : 0..(MaxRetry + 1)]
    /\ rest \in [ph : {"none", "asked", "answered"}, cur : BOOLEAN,
                 ver : Versions \cup {None}]
    /\ cache \in [src : {"none", "stream", "rest", "event"}, ver : Versions \cup {None}]
    /\ srv \in Versions

(* A LIVE source has a stream being read and guarded by the idle deadline, *)
(* and the cached pair is the last frame it committed: no REST answer and  *)
(* no alert event replaces it while the source says LIVE.                  *)
LiveIsPaired ==
    mode = "LIVE" => /\ attempt.ph = "reading" /\ timers.idle
                     /\ cache = [src |-> "stream", ver |-> committed]

(* A hidden, disconnected or unwatched owner has no stream, no frame on    *)
(* its way to the cache and no deadline running, whatever retry timer was  *)
(* left armed.                                                             *)
SilentWhenIneligible ==
    ~Eligible => attempt.ph = "none" /\ pend = None /\ timers = NoTimers

(* An owner that is connected, watched and visible is never left stopped   *)
(* or paused, and one that waits has a timer that will end the wait.       *)
EligibleIsServed ==
    Eligible => /\ mode \notin {"STOPPED", "PAUSED"}
                /\ mode = "RETRY_WAIT" => retry.ptr \in retry.armed

(* A retry timer is never pending beside an attempt, and never a second    *)
(* one: it cannot tear down a stream that is being opened or read.         *)
OneRetryTimer ==
    retry.armed # {} => retry.armed = {retry.ptr} /\ attempt.ph = "none"

(* The source gives up only after the first attempt and every retry of the *)
(* budget have been made.                                                  *)
BudgetIsAttempts == retry.count > MaxRetry => retry.tries > MaxRetry

(* What the coordinator keeps in every state: a source nobody may watch is *)
(* silent, one that may be watched is being served or waits for a timer,   *)
(* at most one retry is armed, and the budget counts the attempts.         *)
SourceSound ==
    /\ TypeOK /\ SilentWhenIneligible /\ EligibleIsServed
    /\ OneRetryTimer /\ BudgetIsAttempts

(* No attempt starts for ever, and no wait lasts for ever: the deadlines   *)
(* and the timers end both.                                                *)
StartingEnds == mode = "STARTING" ~> mode # "STARTING"
WaitingEnds == mode = "RETRY_WAIT" ~> mode # "RETRY_WAIT"
=============================================================================
