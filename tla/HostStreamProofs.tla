-------------------------- MODULE HostStreamProofs --------------------------
(***************************************************************************)
(* The host-resource stream coordinator, for any retry budget, any number  *)
(* of pieces per chunk and any revisions: a LIVE source is paired with its *)
(* stream, and what SourceSound says of timers, budget and silence holds,  *)
(* as long as a piece that fails the attempt is the last of its chunk.     *)
(* The README tells what happens when it is not.                           *)
(***************************************************************************)
EXTENDS HostStream, SequenceTheorems, TLAPS

Held == Versions \cup {None}
Retries == [count : 0..(MaxRetry + 1), ptr : 0..(MaxRetry + 1),
            armed : SUBSET (1..(MaxRetry + 1)), tries : 0..(MaxRetry + 1)]
Parts == [mode : Modes, latch : [auth : BOOLEAN, rest : BOOLEAN],
          attempt : [ph : {"none", "opening", "reading"}, epoch : 0..MaxEpoch],
          status : [ver : Held, adjacent : BOOLEAN], pend : Held,
          timers : [data : BOOLEAN, idle : BOOLEAN, stable : BOOLEAN],
          retry : Retries]

\* The modes in which an attempt is under way, and those in which the owner
\* is being served by the stream at all.
Busy == {"STARTING", "LIVE"}
Served == Busy \cup {"RETRY_WAIT"}

(***************************************************************************)
(* What holds of the coordinator's own part s after every handler, told    *)
(* from whether its owner may be watched.                                  *)
(***************************************************************************)

\* An attempt is under way in the busy modes and only there; it is guarded by
\* the idle deadline, and nothing is left of one that has ended.
Attempted(s) ==
    /\ s.attempt.ph # "none" <=> s.mode \in Busy
    /\ s.mode = "LIVE" => s.attempt.ph = "reading"
    /\ s.attempt.ph # "none" => s.timers.idle
    /\ s.attempt.ph = "none" => s.timers = NoTimers /\ s.pend = None
    /\ s.pend # None => s.attempt.ph = "reading"

\* At most one retry timer is pending, and none beside an attempt; a wait has
\* its timer.
Timed(s) ==
    /\ s.retry.armed # {} => s.retry.armed = {s.retry.ptr} /\ s.attempt.ph = "none"
    /\ s.mode = "RETRY_WAIT" => s.retry.ptr \in s.retry.armed

\* Every charge of the budget was an attempt; the one under way is not charged.
Charged(s) ==
    /\ s.retry.count <= s.retry.tries
    /\ s.attempt.ph # "none" => s.retry.tries = MaxRetry + 1 \/ s.retry.count < s.retry.tries

Sound(s) == Attempted(s) /\ Timed(s) /\ Charged(s)

\* How the mode follows from connection, interest and visibility.
Placed(m, c, n, v) ==
    /\ m \in Served => c = "connected" /\ n > 0 /\ v
    /\ m = "PAUSED" => c = "connected" /\ n > 0 /\ ~v
    /\ m = "STOPPED" <=> c # "connected" \/ n = 0

\* The pieces of a chunk are those of an attempt being read, and only the last
\* can fail it.
Reading ==
    /\ chunk # <<>> => attempt.ph = "reading" /\ ~disposed
    /\ \A i \in 1..(Len(chunk) - 1) : chunk[i].kind \notin {"auth", "bad"}

Inv ==
    /\ TypeOK /\ Sound(Coordinator)
    /\ IF disposed THEN mode = "STOPPED" ELSE Placed(mode, conn, interest, visible)
    /\ LiveIsPaired /\ Reading

-----------------------------------------------------------------------------
(* The handlers, as functions of the coordinator's part. *)

\* stopActiveStream leaves nothing of the attempt and touches the retry timer
\* only when asked.
LEMMA StopKeeps ==
    ASSUME NEW s \in Parts, NEW b \in BOOLEAN
    PROVE  LET r == StopActiveStream(s, b)
           IN  /\ r \in Parts /\ r.mode = s.mode /\ r.latch = s.latch
               /\ r.attempt = NoAttempt /\ r.timers = NoTimers /\ r.pend = None
               /\ r.retry = IF b THEN ClearRetryTimer(s.retry) ELSE s.retry
<1> DEFINE t == IF b THEN ClearRetryTimer(s.retry) ELSE s.retry
           r == [s EXCEPT !.pend = None, !.timers = NoTimers, !.attempt = NoAttempt,
                          !.status = NoStatus, !.retry = t]
<1>1. t \in Retries
  <2>1. s.retry \in Retries
    BY DEF Parts
  <2>2. ClearRetryTimer(s.retry) \in Retries
    <3>1. s.retry.armed \ {s.retry.ptr} \in SUBSET (1..(MaxRetry + 1)) /\ 0 \in 0..(MaxRetry + 1)
      BY <2>1, HostStreamAssumption DEF Retries
    <3> QED
      BY <2>1, <3>1 DEF ClearRetryTimer, Retries
  <2> QED
    BY <2>1, <2>2
<1> HIDE DEF t
<1>2. /\ None \in Held /\ NoTimers \in [data : BOOLEAN, idle : BOOLEAN, stable : BOOLEAN]
      /\ NoAttempt \in [ph : {"none", "opening", "reading"}, epoch : 0..MaxEpoch]
      /\ NoStatus \in [ver : Held, adjacent : BOOLEAN]
  BY HostStreamAssumption DEF Held, NoTimers, NoAttempt, NoStatus
<1>3. /\ r \in Parts /\ r.mode = s.mode /\ r.latch = s.latch
      /\ r.attempt = NoAttempt /\ r.timers = NoTimers /\ r.pend = None /\ r.retry = t
  BY <1>1, <1>2 DEF Parts
<1>4. StopActiveStream(s, b) = r
  BY DEF StopActiveStream, r, t
<1> QED
  BY <1>3, <1>4 DEF t

\* A stop that ends in a mode without stream is sound.
LEMMA StoppedSound ==
    ASSUME NEW s \in Parts, Sound(s), NEW m \in Modes \ Served, NEW b \in BOOLEAN
    PROVE  LET r == [StopActiveStream(s, b) EXCEPT !.mode = m]
           IN  r \in Parts /\ Sound(r) /\ r.mode = m
<1> DEFINE q == StopActiveStream(s, b)
           r == [q EXCEPT !.mode = m]
<1>1. /\ q \in Parts /\ q.attempt = NoAttempt /\ q.timers = NoTimers /\ q.pend = None
      /\ q.retry = IF b THEN ClearRetryTimer(s.retry) ELSE s.retry
  BY StopKeeps
<1> HIDE DEF q
<1>2. r \in Parts /\ r.mode = m /\ r.attempt.ph = "none" /\ r.timers = NoTimers /\ r.pend = None
      /\ r.retry = q.retry
  BY <1>1 DEF Parts, NoAttempt
<1>3. Attempted(r)
  BY <1>2 DEF Attempted, Served, Busy
<1>4. q.retry.armed # {} => q.retry.armed = {q.retry.ptr}
  BY <1>1 DEF Sound, Timed, Parts, Retries, ClearRetryTimer
<1>5. q.retry.count = s.retry.count /\ q.retry.tries = s.retry.tries
  BY <1>1 DEF Parts, Retries, ClearRetryTimer
<1> HIDE DEF r
<1>6. Timed(r) /\ Charged(r)
  BY <1>2, <1>4, <1>5 DEF Sound, Timed, Charged, Served
<1>7. r \in Parts /\ Sound(r) /\ r.mode = m
  BY <1>2, <1>3, <1>6 DEF Sound
<1> QED
  BY <1>7 DEF r, q

\* startAttempt begins a guarded attempt with no retry pending.
LEMMA StartSound ==
    ASSUME NEW s \in Parts, s.retry.armed # {} => s.retry.armed = {s.retry.ptr},
           s.retry.count <= s.retry.tries
    PROVE  StartAttempt(s) \in Parts /\ Sound(StartAttempt(s)) /\ StartAttempt(s).mode = "STARTING"
<1> DEFINE q == StopActiveStream(s, TRUE)
           r == [q EXCEPT !.mode = "STARTING", !.attempt.ph = "opening",
                          !.timers.data = TRUE, !.timers.idle = TRUE,
                          !.retry.tries = AtMost(@ + 1, MaxRetry + 1)]
<1>1. /\ q \in Parts /\ q.attempt = NoAttempt /\ q.timers = NoTimers /\ q.pend = None
      /\ q.retry = ClearRetryTimer(s.retry)
  BY StopKeeps
<1> HIDE DEF q
<1>2. q.retry.armed = {}
  BY <1>1 DEF ClearRetryTimer, Parts, Retries
<1>3. q.retry.count = s.retry.count /\ q.retry.tries = s.retry.tries
  BY <1>1 DEF ClearRetryTimer, Parts, Retries
<1>4. AtMost(s.retry.tries + 1, MaxRetry + 1) \in 0..(MaxRetry + 1)
      /\ \/ AtMost(s.retry.tries + 1, MaxRetry + 1) = MaxRetry + 1
         \/ AtMost(s.retry.tries + 1, MaxRetry + 1) = s.retry.tries + 1
  BY HostStreamAssumption DEF AtMost, Parts, Retries
<1>5. /\ r \in Parts /\ r.mode = "STARTING" /\ r.attempt.ph = "opening" /\ r.timers.idle
      /\ r.pend = None /\ r.retry.armed = {} /\ r.retry.count = s.retry.count
      /\ r.retry.tries = AtMost(s.retry.tries + 1, MaxRetry + 1)
  BY <1>1, <1>2, <1>3, <1>4 DEF Parts, Retries, Modes
<1> HIDE DEF r
<1>6. Sound(r)
  <2>1. Attempted(r) /\ Timed(r)
    BY <1>5 DEF Attempted, Timed, Busy
  <2>2. Charged(r)
    BY <1>4, <1>5, HostStreamAssumption DEF Charged, Parts, Retries
  <2> QED
    BY <2>1, <2>2 DEF Sound
<1> QED
  BY <1>5, <1>6 DEF StartAttempt, r, q

\* scheduleRetry ends the attempt under way: it waits with one timer, or the
\* budget is spent.
LEMMA RetrySound ==
    ASSUME NEW s \in Parts, Sound(s), s.attempt.ph # "none"
    PROVE  /\ ScheduleRetry(s) \in Parts /\ Sound(ScheduleRetry(s))
           /\ ScheduleRetry(s).mode \in {"RETRY_WAIT", "AUTH_BLOCKED", "REST_ONLY"}
<1> DEFINE q == StopActiveStream(s, FALSE)
           count == AtMost(s.retry.count + 1, MaxRetry + 1)
           timer == CHOOSE t \in 1..(MaxRetry + 1) : t \notin s.retry.armed
           spent == [q EXCEPT !.retry.count = count,
                              !.mode = IF s.latch.auth THEN "AUTH_BLOCKED" ELSE "REST_ONLY"]
           waits == [q EXCEPT !.mode = "RETRY_WAIT", !.retry.count = count, !.retry.ptr = timer,
                              !.retry.armed = @ \cup {timer}]
<1>1. /\ q \in Parts /\ q.attempt = NoAttempt /\ q.timers = NoTimers /\ q.pend = None
      /\ q.retry = s.retry
  BY StopKeeps
<1> HIDE DEF q
<1>2. s.retry.armed = {} /\ s.retry \in Retries
  BY DEF Sound, Timed, Parts
<1>3. timer \in 1..(MaxRetry + 1)
  <2>1. \E t \in 1..(MaxRetry + 1) : t \notin s.retry.armed
    BY <1>2, HostStreamAssumption
  <2> QED
    BY <2>1
<1>4. count \in 0..(MaxRetry + 1) /\ count <= s.retry.tries
  BY <1>2, HostStreamAssumption DEF Sound, Charged, AtMost, Retries
<1> HIDE DEF timer, count
<1>5. ASSUME NEW r \in {spent, waits}
      PROVE  r \in Parts /\ r.mode \in {"RETRY_WAIT", "AUTH_BLOCKED", "REST_ONLY"} /\ Sound(r)
  <2>1. /\ r \in Parts /\ r.mode \in {"RETRY_WAIT", "AUTH_BLOCKED", "REST_ONLY"}
        /\ r.attempt.ph = "none" /\ r.timers = NoTimers /\ r.pend = None
        /\ r.retry.count = count /\ r.retry.tries = s.retry.tries
    <3> DEFINE m == IF s.latch.auth THEN "AUTH_BLOCKED" ELSE "REST_ONLY"
               n == [q.retry EXCEPT !.count = count]
               w == [q.retry EXCEPT !.count = count, !.ptr = timer, !.armed = @ \cup {timer}]
    <3>1. CASE r = spent
      <4>1. r = [q EXCEPT !.mode = m, !.latch = q.latch, !.retry = n]
        BY <3>1, <1>1 DEF Parts
      <4>2. n \in Retries /\ n.count = count /\ n.tries = s.retry.tries
        BY <1>1, <1>2, <1>4 DEF Retries
      <4>3. m \in {"AUTH_BLOCKED", "REST_ONLY"} /\ m \in Modes /\ q.latch \in [auth : BOOLEAN, rest : BOOLEAN]
        BY <1>1 DEF Modes, Parts
      <4> HIDE DEF n, m, spent, waits
      <4>4. /\ r \in Parts /\ r.mode = m /\ r.retry = n /\ r.attempt = q.attempt
            /\ r.timers = q.timers /\ r.pend = q.pend
        BY <4>1, <4>2, <4>3, <1>1 DEF Parts
      <4> QED
        BY <4>2, <4>3, <4>4, <1>1 DEF NoAttempt
    <3>2. CASE r = waits
      <4>1. r = [q EXCEPT !.mode = "RETRY_WAIT", !.latch = q.latch, !.retry = w]
        BY <3>2, <1>1 DEF Parts
      <4>2. q.retry.armed \cup {timer} \in SUBSET (1..(MaxRetry + 1)) /\ timer \in 0..(MaxRetry + 1)
        BY <1>1, <1>2, <1>3, HostStreamAssumption
      <4>3. w \in Retries /\ w.count = count /\ w.tries = s.retry.tries
        BY <1>1, <1>2, <1>4, <4>2 DEF Retries
      <4>4. "RETRY_WAIT" \in Modes /\ q.latch \in [auth : BOOLEAN, rest : BOOLEAN]
        BY <1>1 DEF Modes, Parts
      <4> HIDE DEF w, spent, waits
      <4>5. /\ r \in Parts /\ r.mode = "RETRY_WAIT" /\ r.retry = w /\ r.attempt = q.attempt
            /\ r.timers = q.timers /\ r.pend = q.pend
        BY <4>1, <4>3, <4>4, <1>1 DEF Parts
      <4> QED
        BY <4>3, <4>5, <1>1 DEF NoAttempt
    <3> QED
      BY <3>1, <3>2
  <2>2. /\ r.retry.armed # {} => r.retry.armed = {r.retry.ptr}
        /\ r.mode = "RETRY_WAIT" => r.retry.ptr \in r.retry.armed
    <3>1. CASE r = spent
      BY <3>1, <1>1, <1>2 DEF Parts, Retries
    <3>2. CASE r = waits
      BY <3>2, <1>1, <1>2 DEF Parts, Retries
    <3> QED
      BY <3>1, <3>2
  <2> HIDE DEF spent, waits
  <2> QED
    BY <2>1, <2>2, <1>4 DEF Sound, Attempted, Timed, Charged, Busy
<1>6. ScheduleRetry(s) \in {spent, waits}
  BY DEF ScheduleRetry, spent, waits, q, count, timer
<1> HIDE DEF spent, waits
<1> QED
  BY <1>5, <1>6

\* evaluateLifecycle puts the mode where connection, interest and visibility
\* say.
LEMMA EvaluateSound ==
    ASSUME NEW s \in Parts, Sound(s), NEW c, NEW n \in Nat, NEW v \in BOOLEAN
    PROVE  LET r == EvaluateLifecycle(s, c, n, v)
           IN  /\ r \in Parts /\ Sound(r) /\ Placed(r.mode, c, n, v)
               /\ r.mode = "LIVE" => s.mode = "LIVE"
<1> DEFINE q(m) == [StopActiveStream(s, FALSE) EXCEPT !.mode = m]
<1>1. \A m \in Modes \ Served : q(m) \in Parts /\ Sound(q(m)) /\ q(m).mode = m
  BY StoppedSound
<1>2. StartAttempt(s) \in Parts /\ Sound(StartAttempt(s)) /\ StartAttempt(s).mode = "STARTING"
  BY StartSound DEF Sound, Timed, Charged
<1> HIDE DEF q
<1>3. CASE c # "connected" \/ n = 0
  <2>1. EvaluateLifecycle(s, c, n, v) = q("STOPPED")
    BY <1>3 DEF EvaluateLifecycle, q
  <2> QED
    BY <2>1, <1>1, <1>3 DEF Placed, Served, Busy, Modes
<1>4. CASE c = "connected" /\ n # 0 /\ ~v
  <2>1. EvaluateLifecycle(s, c, n, v) = q("PAUSED")
    BY <1>4 DEF EvaluateLifecycle, q
  <2> QED
    BY <2>1, <1>1, <1>4 DEF Placed, Served, Busy, Modes
<1>5. CASE c = "connected" /\ n # 0 /\ v
  <2>1. \/ EvaluateLifecycle(s, c, n, v) \in {q("AUTH_BLOCKED"), q("REST_ONLY"), StartAttempt(s)}
        \/ EvaluateLifecycle(s, c, n, v) = s /\ s.mode \notin {"STOPPED", "PAUSED"}
    BY <1>5 DEF EvaluateLifecycle, q
  <2>2. \A m \in Modes \ {"STOPPED", "PAUSED"} : Placed(m, c, n, v)
    BY <1>5 DEF Placed
  <2>3. ASSUME NEW m \in {"AUTH_BLOCKED", "REST_ONLY"}
        PROVE  q(m) \in Parts /\ Sound(q(m)) /\ q(m).mode = m /\ Placed(m, c, n, v)
    <3>1. m \in Modes \ Served /\ m \in Modes \ {"STOPPED", "PAUSED"}
      BY DEF Served, Busy, Modes
    <3> QED
      BY <3>1, <2>2, <1>1
  <2>4. Placed("STARTING", c, n, v)
    BY <2>2 DEF Modes
  <2>5. s.mode \in Modes
    BY DEF Parts
  <2>6. CASE EvaluateLifecycle(s, c, n, v) \in {q("AUTH_BLOCKED"), q("REST_ONLY")}
    BY <2>3, <2>6
  <2>7. CASE EvaluateLifecycle(s, c, n, v) = StartAttempt(s)
    BY <2>4, <2>7, <1>2
  <2>8. CASE EvaluateLifecycle(s, c, n, v) = s /\ s.mode \notin {"STOPPED", "PAUSED"}
    BY <2>2, <2>5, <2>8
  <2> QED
    BY <2>1, <2>6, <2>7, <2>8
<1> QED
  BY <1>3, <1>4, <1>5

\* The latches end the attempt in a mode without stream.
LEMMA LatchSound ==
    ASSUME NEW s \in Parts, Sound(s), NEW r \in {Block(s), FallBack(s)}
    PROVE  r \in Parts /\ Sound(r) /\ r.mode \in {"AUTH_BLOCKED", "REST_ONLY"}
<1> DEFINE q == StopActiveStream(s, TRUE)
<1>1. /\ q \in Parts /\ q.attempt = NoAttempt /\ q.timers = NoTimers /\ q.pend = None
      /\ q.retry = ClearRetryTimer(s.retry)
  BY StopKeeps
<1>2. r \in {[q EXCEPT !.latch.auth = TRUE, !.mode = "AUTH_BLOCKED"],
             [q EXCEPT !.latch.rest = TRUE, !.mode = IF s.latch.auth THEN "AUTH_BLOCKED" ELSE "REST_ONLY"]}
  BY DEF Block, FallBack
<1> HIDE DEF q
<1>3. /\ r \in Parts /\ r.mode \in {"AUTH_BLOCKED", "REST_ONLY"}
      /\ r.attempt.ph = "none" /\ r.timers = NoTimers /\ r.pend = None /\ r.retry = q.retry
  <2> DEFINE l == [q.latch EXCEPT !.auth = TRUE]
             k == [q.latch EXCEPT !.rest = TRUE]
  <2>1. l \in [auth : BOOLEAN, rest : BOOLEAN] /\ k \in [auth : BOOLEAN, rest : BOOLEAN]
    BY <1>1 DEF Parts
  <2>2. PICK x \in {l, k}, m \in {"AUTH_BLOCKED", "REST_ONLY"} :
                r = [q EXCEPT !.mode = m, !.latch = x, !.retry = q.retry]
    <3>1. CASE r = [q EXCEPT !.latch.auth = TRUE, !.mode = "AUTH_BLOCKED"]
      <4>1. r = [q EXCEPT !.mode = "AUTH_BLOCKED", !.latch = l, !.retry = q.retry]
        BY <3>1, <1>1 DEF Parts
      <4> QED
        BY <4>1
    <3>2. ASSUME NEW m \in {"AUTH_BLOCKED", "REST_ONLY"},
                 r = [q EXCEPT !.latch.rest = TRUE, !.mode = m]
          PROVE  r = [q EXCEPT !.mode = m, !.latch = k, !.retry = q.retry]
      BY <3>2, <1>1 DEF Parts
    <3> QED
      BY <3>1, <3>2, <1>2
  <2>3. m \in Modes /\ q.retry \in Retries
    BY <1>1 DEF Modes, Parts
  <2> HIDE DEF l, k
  <2>4. /\ r \in Parts /\ r.mode = m /\ r.retry = q.retry /\ r.attempt = q.attempt
        /\ r.timers = q.timers /\ r.pend = q.pend
    BY <2>1, <2>2, <2>3, <1>1 DEF Parts
  <2> QED
    BY <2>2, <2>4, <1>1 DEF NoAttempt
<1>4. /\ q.retry.armed # {} => q.retry.armed = {q.retry.ptr}
      /\ q.retry.count = s.retry.count /\ q.retry.tries = s.retry.tries
  BY <1>1 DEF Sound, Timed, Parts, Retries, ClearRetryTimer
<1>5. Sound(r)
  BY <1>3, <1>4 DEF Sound, Attempted, Timed, Charged, Busy
<1> QED
  BY <1>3, <1>5

-----------------------------------------------------------------------------
(* The steps. *)

Rests == [ph : {"none", "asked", "answered"}, cur : BOOLEAN, ver : Held]

\* The state of the coordinator is one of its parts.
LEMMA CoordinatorType == TypeOK => Coordinator \in Parts
  BY DEF TypeOK, Coordinator, Parts, Retries, Held

\* A handler that leaves a sound part, well placed for the new circumstances,
\* keeps the invariant.
LEMMA HandlerKeeps ==
    ASSUME Inv, NEW r \in Parts, Sound(r), Becomes(r),
           IF disposed' THEN r.mode = "STOPPED" ELSE Placed(r.mode, conn', interest', visible'),
           interest' \in 0..2, visible' \in BOOLEAN, disposed' \in BOOLEAN,
           conn' \in {"connecting", "connected", "replaced"},
           r.mode = "LIVE" => mode = "LIVE",
           chunk' = <<>>, rest' \in Rests, UNCHANGED <<committed, cache, srv>>
    PROVE  Inv'
<1>1. /\ mode' \in Modes /\ latch' \in [auth : BOOLEAN, rest : BOOLEAN]
      /\ attempt' \in [ph : {"none", "opening", "reading"}, epoch : 0..MaxEpoch]
      /\ status' \in [ver : Held, adjacent : BOOLEAN] /\ pend' \in Held
      /\ timers' \in [data : BOOLEAN, idle : BOOLEAN, stable : BOOLEAN] /\ retry' \in Retries
  BY DEF Becomes, Parts
<1>2. TypeOK'
  <2>1. chunk' \in Seq(Pieces(Versions)) /\ Len(chunk') <= MaxChunk
    BY HostStreamAssumption
  <2> QED
    BY <1>1, <2>1 DEF Inv, TypeOK, Held, Retries, Rests
<1>3. Sound(Coordinator)'
  BY DEF Becomes, Coordinator, Sound, Attempted, Timed, Charged
<1>4. mode' = "LIVE" => attempt'.ph = "reading" /\ timers'.idle
  BY DEF Becomes, Sound, Attempted, Busy
<1>5. LiveIsPaired'
  BY <1>4 DEF Inv, LiveIsPaired, Becomes
<1>6. Reading'
  BY DEF Reading
<1>7. IF disposed' THEN mode' = "STOPPED" ELSE Placed(mode, conn, interest, visible)'
  BY DEF Becomes, Placed
<1> QED
  BY <1>2, <1>3, <1>5, <1>6, <1>7 DEF Inv

\* Interest, visibility and connections keep the invariant.
LEMMA LifecycleKeeps ==
    ASSUME Inv, RegisterInterest \/ DropInterest \/ (\E restored \in BOOLEAN : Show(restored))
                \/ ConnectionsChanged
    PROVE  Inv'
<1> DEFINE r == EvaluateLifecycle(Coordinator, conn', interest', visible')
<1>1. Coordinator \in Parts /\ Sound(Coordinator) /\ Coordinator.mode = mode
  BY CoordinatorType DEF Inv, Coordinator
<1>2. /\ interest \in 0..2 /\ visible \in BOOLEAN /\ disposed \in BOOLEAN /\ rest \in Rests
      /\ conn \in {"connecting", "connected", "replaced"}
  BY DEF Inv, TypeOK, Rests, Held
<1>3. /\ interest' \in 0..2 /\ visible' \in BOOLEAN /\ ~disposed /\ disposed' = FALSE /\ rest' \in Rests
      /\ conn' \in {"connecting", "connected", "replaced"} /\ chunk' = <<>>
      /\ UNCHANGED <<committed, cache, srv>>
  <2>1. CASE RegisterInterest
    BY <2>1, <1>2 DEF RegisterInterest, Ready
  <2>2. CASE DropInterest
    BY <2>2, <1>2 DEF DropInterest, Ready
  <2>3. ASSUME NEW restored \in BOOLEAN, Show(restored)
        PROVE  <1>3
    BY <2>3, <1>2 DEF Show, Ready
  <2>4. CASE ConnectionsChanged
    BY <2>4, <1>2 DEF ConnectionsChanged, Ready
  <2> QED
    BY <2>1, <2>2, <2>3, <2>4
<1>4. \/ Becomes(r)
      \/ /\ Becomes(Coordinator) /\ ~(mode = "PAUSED" /\ interest > 0)
         /\ visible' = TRUE /\ UNCHANGED <<interest, conn>>
  BY DEF RegisterInterest, DropInterest, Show, ConnectionsChanged, Ready
<1>5. CASE Becomes(r)
  <2>1. /\ r \in Parts /\ Sound(r) /\ Placed(r.mode, conn', interest', visible')
        /\ r.mode = "LIVE" => mode = "LIVE"
    <3>1. interest' \in Nat
      BY <1>3
    <3> QED
      BY <3>1, <1>1, <1>3, EvaluateSound
  <2> HIDE DEF r
  <2> QED
    BY <2>1, <1>3, <1>5, HandlerKeeps
<1>6. CASE /\ Becomes(Coordinator) /\ ~(mode = "PAUSED" /\ interest > 0)
           /\ visible' = TRUE /\ UNCHANGED <<interest, conn>>
  <2>1. Placed(mode, conn', interest', visible')
    BY <1>2, <1>3, <1>6 DEF Inv, Placed
  <2> QED
    BY <2>1, <1>1, <1>3, <1>6, HandlerKeeps
<1> QED
  BY <1>4, <1>5, <1>6

\* The handlers that end the attempt, or the coordinator.
LEMMA EndKeeps ==
    ASSUME Inv, BadIsLast,
           \/ Hide \/ Dispose \/ AuthDropped
           \/ DataDeadline \/ IdleDeadline \/ StreamEnds \/ OpenRefused \/ PieceBad
           \/ OpenUnsupported \/ OpenBlocked \/ PieceAuth
    PROVE  Inv'
<1>1. Coordinator \in Parts /\ Sound(Coordinator) /\ Coordinator.mode = mode
      /\ Coordinator.attempt = attempt
  BY CoordinatorType DEF Inv, Coordinator
<1>2. /\ interest \in 0..2 /\ visible \in BOOLEAN /\ disposed \in BOOLEAN /\ rest \in Rests
      /\ conn \in {"connecting", "connected", "replaced"} /\ mode \in Modes
  BY DEF Inv, TypeOK, Rests, Held
<1>3. /\ timers.idle \/ timers.data => attempt.ph # "none"
      /\ attempt.ph # "none" <=> mode \in Busy
  BY DEF Inv, Sound, Attempted, Coordinator, NoTimers
<1>4. Stale(rest) \in Rests /\ NoRest \in Rests
  BY <1>2 DEF Stale, NoRest, Rests, Held
<1>5. ASSUME NEW m \in Modes \ Served, NEW b \in BOOLEAN
      PROVE  LET r == [StopActiveStream(Coordinator, b) EXCEPT !.mode = m]
             IN  r \in Parts /\ Sound(r) /\ r.mode = m
  BY <1>1, StoppedSound
<1>6. CASE Hide
  <2> DEFINE r == [StopActiveStream(Coordinator, FALSE) EXCEPT !.mode = "PAUSED"]
  <2>1. r \in Parts /\ Sound(r) /\ r.mode = "PAUSED"
    BY <1>5 DEF Modes, Served, Busy
  <2>2. /\ visible /\ visible' = FALSE /\ chunk' = <<>> /\ ~disposed
        /\ UNCHANGED <<interest, conn, disposed, rest, committed, cache, srv>>
        /\ \/ mode \in Served /\ Becomes(r)
           \/ mode \notin Served /\ Becomes(Coordinator)
    BY <1>6 DEF Hide, Ready, Served, Busy
  <2> HIDE DEF r
  <2>3. CASE mode \in Served /\ Becomes(r)
    <3>1. Placed("PAUSED", conn', interest', visible')
      BY <2>2, <2>3, <1>2 DEF Inv, Placed, Served, Busy
    <3> QED
      BY <2>1, <2>2, <2>3, <3>1, <1>2, HandlerKeeps
  <2>4. CASE mode \notin Served /\ Becomes(Coordinator)
    <3>1. Placed(mode, conn', interest', visible')
      BY <2>2, <2>4 DEF Inv, Placed
    <3> QED
      BY <2>2, <2>4, <3>1, <1>1, <1>2, HandlerKeeps
  <2> QED
    BY <2>2, <2>3, <2>4
<1>7. CASE Dispose \/ AuthDropped
  <2> DEFINE r == [StopActiveStream(Coordinator, TRUE) EXCEPT !.mode = "STOPPED"]
  <2>1. r \in Parts /\ Sound(r) /\ r.mode = "STOPPED"
    BY <1>5 DEF Modes, Served, Busy
  <2>2. /\ disposed' = TRUE /\ chunk' = <<>> /\ conn' \in {conn, "replaced"} /\ Becomes(r)
        /\ UNCHANGED <<interest, visible, rest, committed, cache, srv>>
    BY <1>7 DEF Dispose, AuthDropped, Ready
  <2> HIDE DEF r
  <2> QED
    BY <2>1, <2>2, <1>2, HandlerKeeps
<1>8. ASSUME NEW r \in Parts, Sound(r), Becomes(r), chunk' = <<>>, attempt.ph # "none", ~disposed,
             r.mode \in {"RETRY_WAIT", "AUTH_BLOCKED", "REST_ONLY"}, rest' \in Rests,
             UNCHANGED <<interest, visible, conn, disposed, committed, cache, srv>>
      PROVE  Inv'
  <2>1. Placed(r.mode, conn', interest', visible')
    BY <1>2, <1>3, <1>8 DEF Inv, Placed, Served
  <2> QED
    BY <2>1, <1>2, <1>8, HandlerKeeps
<1>9. CASE DataDeadline \/ IdleDeadline \/ StreamEnds \/ OpenRefused \/ PieceBad
  <2>1. /\ attempt.ph # "none" /\ ~disposed /\ chunk' = <<>> /\ rest' \in {rest, Stale(rest)}
        /\ Becomes(ScheduleRetry(Coordinator))
        /\ UNCHANGED <<interest, visible, conn, disposed, committed, cache, srv>>
    <3>1. CASE DataDeadline \/ IdleDeadline \/ StreamEnds \/ OpenRefused
      BY <3>1, <1>3 DEF DataDeadline, IdleDeadline, StreamEnds, OpenRefused, Ready, HandleStreamFailure
    <3>2. CASE PieceBad
      <4>1. chunk # <<>> /\ Head(chunk).kind = "bad" /\ chunk' = Tail(chunk) /\ chunk \in Seq(Pieces(Versions))
        BY <3>2 DEF PieceBad, Piece, Inv, TypeOK
      <4>2. chunk[1].kind = "bad" /\ Len(chunk) >= 1 /\ Len(chunk) \in Nat
        BY <4>1
      <4>3. Len(chunk) = 1
        <5>1. Len(chunk) # 1 => 1 \in 1..(Len(chunk) - 1)
          BY <4>2
        <5>2. \A i \in 1..(Len(chunk) - 1) : chunk[i].kind \notin {"auth", "bad"}
          BY DEF Inv, Reading
        <5> QED
          BY <4>2, <5>1, <5>2, Zenon
      <4>4. chunk' = <<>>
        BY <4>1, <4>3
      <4> QED
        BY <3>2, <4>1, <4>4 DEF PieceBad, HandleStreamFailure, Inv, Reading
    <3> QED
      BY <3>1, <3>2, <1>9
  <2>2. /\ ScheduleRetry(Coordinator) \in Parts /\ Sound(ScheduleRetry(Coordinator))
        /\ ScheduleRetry(Coordinator).mode \in {"RETRY_WAIT", "AUTH_BLOCKED", "REST_ONLY"}
    BY <1>1, <2>1, RetrySound
  <2> QED
    BY <2>1, <2>2, <1>2, <1>4, <1>8
<1>10. CASE OpenUnsupported \/ OpenBlocked \/ PieceAuth
  <2>1. /\ attempt.ph # "none" /\ ~disposed /\ chunk' = <<>> /\ rest' \in {rest, NoRest}
        /\ \E r \in {Block(Coordinator), FallBack(Coordinator)} : Becomes(r)
        /\ UNCHANGED <<interest, visible, conn, disposed, committed, cache, srv>>
    <3>1. CASE OpenUnsupported \/ OpenBlocked
      BY <3>1 DEF OpenUnsupported, OpenBlocked, Ready
    <3>2. CASE PieceAuth
      <4>1. chunk # <<>> /\ Head(chunk).kind = "auth" /\ chunk' = Tail(chunk) /\ chunk \in Seq(Pieces(Versions))
        BY <3>2 DEF PieceAuth, Piece, Inv, TypeOK
      <4>2. chunk[1].kind = "auth" /\ Len(chunk) >= 1 /\ Len(chunk) \in Nat
        BY <4>1
      <4>3. Len(chunk) = 1
        <5>1. Len(chunk) # 1 => 1 \in 1..(Len(chunk) - 1)
          BY <4>2
        <5>2. \A i \in 1..(Len(chunk) - 1) : chunk[i].kind \notin {"auth", "bad"}
          BY DEF Inv, Reading
        <5> QED
          BY <4>2, <5>1, <5>2, Zenon
      <4>4. chunk' = <<>>
        BY <4>1, <4>3
      <4> QED
        BY <3>2, <4>1, <4>4 DEF PieceAuth, Inv, Reading
    <3> QED
      BY <3>1, <3>2, <1>10
  <2>2. PICK r \in {Block(Coordinator), FallBack(Coordinator)} : Becomes(r)
    BY <2>1
  <2>3. r \in Parts /\ Sound(r) /\ r.mode \in {"AUTH_BLOCKED", "REST_ONLY"}
    BY <1>1, LatchSound
  <2> QED
    BY <2>1, <2>2, <2>3, <1>2, <1>4, <1>8
<1> QED
  BY <1>6, <1>7, <1>9, <1>10

\* The retry timer starts an attempt, or finds nobody to serve.
LEMMA RetryKeeps ==
    ASSUME Inv, NEW t \in 1..(MaxRetry + 1), RetryFires(t)
    PROVE  Inv'
<1> DEFINE n == [retry EXCEPT !.armed = @ \ {t}, !.ptr = 0]
           s == [Coordinator EXCEPT !.retry = n]
<1>1. /\ Coordinator \in Parts /\ Sound(Coordinator) /\ Coordinator.mode = mode
      /\ Coordinator.retry = retry /\ Coordinator.attempt = attempt
  BY CoordinatorType DEF Inv, Coordinator
<1>2. /\ interest \in 0..2 /\ visible \in BOOLEAN /\ disposed \in BOOLEAN /\ rest \in Rests
      /\ conn \in {"connecting", "connected", "replaced"} /\ retry \in Retries
  BY DEF Inv, TypeOK, Rests, Held, Retries
<1>3. retry.armed = {t} /\ attempt.ph = "none" /\ retry.count <= retry.tries
  BY <1>1 DEF RetryFires, Sound, Timed, Charged
<1>4. n \in Retries /\ n.armed = {} /\ n.count = retry.count /\ n.tries = retry.tries
  <2>1. 0 \in 0..(MaxRetry + 1) /\ retry.armed \ {t} = {} /\ {} \in SUBSET (1..(MaxRetry + 1))
    BY <1>3, HostStreamAssumption
  <2> QED
    BY <1>2, <2>1 DEF Retries
<1>5. /\ ~disposed /\ chunk' = <<>>
      /\ UNCHANGED <<interest, visible, conn, disposed, rest, committed, cache, srv>>
      /\ \/ conn = "connected" /\ interest > 0 /\ visible /\ Becomes(StartAttempt(s))
         \/ ~(conn = "connected" /\ interest > 0 /\ visible) /\ Becomes(s)
  <2>1. s = [Coordinator EXCEPT !.retry.armed = @ \ {t}, !.retry.ptr = 0]
    BY <1>1 DEF Parts
  <2> HIDE DEF s
  <2> QED
    BY <2>1 DEF RetryFires, Ready
<1> HIDE DEF n
<1>6. /\ s \in Parts /\ s.mode = mode /\ s.attempt = attempt /\ s.retry = n
      /\ s.pend = Coordinator.pend /\ s.timers = Coordinator.timers
  BY <1>1, <1>4 DEF Parts
<1> HIDE DEF s
<1>7. CASE conn = "connected" /\ interest > 0 /\ visible /\ Becomes(StartAttempt(s))
  <2>1. StartAttempt(s) \in Parts /\ Sound(StartAttempt(s)) /\ StartAttempt(s).mode = "STARTING"
    BY <1>3, <1>4, <1>6, StartSound
  <2>2. Placed("STARTING", conn', interest', visible')
    BY <1>2, <1>5, <1>7 DEF Placed
  <2> QED
    BY <2>1, <2>2, <1>2, <1>5, <1>7, HandlerKeeps
<1>8. CASE ~(conn = "connected" /\ interest > 0 /\ visible) /\ Becomes(s)
  <2>1. mode \notin Served /\ Placed(mode, conn', interest', visible')
    BY <1>5, <1>8 DEF Inv, Placed
  <2>2. Sound(s)
    BY <2>1, <1>1, <1>3, <1>4, <1>6 DEF Sound, Attempted, Timed, Charged, Served
  <2> QED
    BY <2>1, <2>2, <1>2, <1>5, <1>6, <1>8, HandlerKeeps
<1> QED
  BY <1>5, <1>7, <1>8

\* The steps that leave the coordinator alone.
LEMMA OthersKeep ==
    ASSUME Inv, StartRest \/ RestAnswered \/ RestDone \/ AlertEvent \/ ServerAdvances \/ UNCHANGED vars
    PROVE  Inv'
<1>1. UNCHANGED <<mode, latch, interest, visible, conn, disposed, attempt, chunk, status,
                  pend, committed, timers, retry>>
  BY DEF StartRest, RestAnswered, RestDone, AlertEvent, ServerAdvances, vars
<1>2. /\ rest \in Rests /\ srv \in Versions
      /\ cache \in [src : {"none", "stream", "rest", "event"}, ver : Held]
  BY DEF Inv, TypeOK, Rests, Held
<1>3. srv' \in Versions
  <2>1. CASE ServerAdvances
    BY <2>1, <1>2, HostStreamAssumption DEF ServerAdvances, Versions
  <2> QED
    BY <2>1, <1>2 DEF StartRest, RestAnswered, RestDone, AlertEvent, vars
<1>4. rest' \in Rests
  <2>1. CASE StartRest
    BY <2>1 DEF StartRest, Rests, Held
  <2>2. CASE RestAnswered
    <3>1. NoRest \in Rests
      BY DEF Rests, Held, NoRest
    <3>2. srv \in Held
      BY <1>2 DEF Held
    <3>3. [rest EXCEPT !.ph = "answered", !.ver = srv] \in Rests
      BY <1>2, <3>2 DEF Rests
    <3> QED
      BY <2>2, <3>1, <3>3 DEF RestAnswered
  <2>3. CASE RestDone
    BY <2>3 DEF RestDone, Rests, Held, NoRest
  <2> QED
    BY <2>1, <2>2, <2>3, <1>2 DEF AlertEvent, ServerAdvances, vars
<1>5. /\ cache' \in [src : {"none", "stream", "rest", "event"}, ver : Held]
      /\ mode = "LIVE" => cache' = cache
  <2>1. CASE RestDone
    BY <2>1, <1>2 DEF RestDone, Rests, CanUseResourceRest
  <2>2. CASE AlertEvent
    BY <2>2, <1>2 DEF AlertEvent, CanUseResourceRest
  <2> QED
    BY <2>1, <2>2, <1>2 DEF StartRest, RestAnswered, ServerAdvances, vars
<1>6. TypeOK'
  BY <1>1, <1>3, <1>4, <1>5 DEF Inv, TypeOK, Rests, Held
<1>7. Sound(Coordinator)'
  BY <1>1 DEF Inv, Sound, Attempted, Timed, Charged, Coordinator
<1>8. LiveIsPaired' /\ Reading'
  BY <1>1, <1>5 DEF Inv, LiveIsPaired, Reading
<1>9. IF disposed' THEN mode' = "STOPPED" ELSE Placed(mode, conn, interest, visible)'
  BY <1>1 DEF Inv, Placed
<1> QED
  BY <1>6, <1>7, <1>8, <1>9 DEF Inv

\* The steps of an attempt that goes on.
LEMMA AttemptKeeps ==
    ASSUME Inv, BadIsLast,
           \/ StableWindow \/ OpenStream \/ Receive
           \/ PieceComment \/ PieceStatus \/ PieceData \/ CommitFrame
    PROVE  Inv'
<1>1. /\ TypeOK /\ Sound(Coordinator) /\ LiveIsPaired /\ Reading
      /\ IF disposed THEN mode = "STOPPED" ELSE Placed(mode, conn, interest, visible)
  BY DEF Inv
<1>2. /\ timers \in [data : BOOLEAN, idle : BOOLEAN, stable : BOOLEAN] /\ retry \in Retries
      /\ chunk \in Seq(Pieces(Versions)) /\ Len(chunk) <= MaxChunk /\ srv \in Versions
      /\ status \in [ver : Held, adjacent : BOOLEAN] /\ rest \in Rests
      /\ pend \in Held /\ committed \in Held
  BY <1>1 DEF TypeOK, Retries, Held, Rests
<1>3. /\ attempt.ph # "none" <=> mode \in Busy
      /\ mode = "LIVE" => attempt.ph = "reading"
      /\ attempt.ph # "none" => timers.idle
      /\ attempt.ph = "none" => timers = NoTimers /\ pend = None
      /\ pend # None => attempt.ph = "reading"
  BY <1>1 DEF Sound, Attempted, Coordinator
<1>4. /\ retry.armed # {} => retry.armed = {retry.ptr} /\ attempt.ph = "none"
      /\ mode = "RETRY_WAIT" => retry.ptr \in retry.armed
      /\ retry.count <= retry.tries
      /\ attempt.ph # "none" => retry.tries = MaxRetry + 1 \/ retry.count < retry.tries
  BY <1>1 DEF Sound, Timed, Charged, Coordinator
<1>5. CASE StableWindow
  <2>1. attempt.ph # "none" /\ mode \in Busy
    BY <1>3, <1>5 DEF StableWindow, NoTimers
  <2>2. timers' \in [data : BOOLEAN, idle : BOOLEAN, stable : BOOLEAN] /\ timers'.idle = timers.idle
    BY <1>2, <1>5 DEF StableWindow
  <2>3. /\ retry' \in Retries /\ retry'.armed = retry.armed /\ retry'.ptr = retry.ptr
        /\ retry'.count <= retry'.tries
        /\ retry'.tries = MaxRetry + 1 \/ retry'.count < retry'.tries
    <3>1. CASE retry' = retry
      BY <3>1, <2>1, <1>2, <1>4
    <3>2. CASE retry' = [retry EXCEPT !.count = 0, !.tries = 1]
      <4>1. 0 \in 0..(MaxRetry + 1) /\ 1 \in 0..(MaxRetry + 1)
        BY HostStreamAssumption
      <4>2. retry' \in Retries /\ retry'.armed = retry.armed /\ retry'.ptr = retry.ptr
            /\ retry'.count = 0 /\ retry'.tries = 1
        BY <3>2, <4>1, <1>2 DEF Retries
      <4> QED
        BY <4>2
    <3> QED
      BY <3>1, <3>2, <1>5 DEF StableWindow
  <2>4. UNCHANGED <<mode, latch, interest, visible, conn, disposed, attempt, chunk,
                    status, pend, committed, rest, cache, srv>>
    BY <1>5 DEF StableWindow
  <2>5. TypeOK'
    BY <1>1, <2>2, <2>3, <2>4 DEF TypeOK, Retries
  <2>6. Sound(Coordinator)'
    <3>1. Attempted(Coordinator)'
      BY <1>3, <2>1, <2>2, <2>4 DEF Attempted, Coordinator
    <3>2. Timed(Coordinator)' /\ Charged(Coordinator)'
      BY <1>4, <2>1, <2>3, <2>4 DEF Timed, Charged, Coordinator
    <3> QED
      BY <3>1, <3>2 DEF Sound
  <2> QED
    BY <1>1, <2>2, <2>4, <2>5, <2>6 DEF Inv, LiveIsPaired, Reading, Placed
<1>6. CASE OpenStream
  <2>1. /\ attempt.ph = "opening" /\ attempt'.ph = "reading" /\ chunk = <<>>
        /\ attempt' \in [ph : {"none", "opening", "reading"}, epoch : 0..MaxEpoch]
        /\ UNCHANGED <<mode, latch, interest, visible, conn, disposed, chunk, status, pend,
                       committed, timers, retry, rest, cache, srv>>
    BY <1>2, <1>6, HostStreamAssumption DEF OpenStream, Ready, Versions
  <2>2. TypeOK'
    BY <1>1, <2>1 DEF TypeOK
  <2>3. Sound(Coordinator)'
    BY <1>3, <1>4, <2>1 DEF Sound, Attempted, Timed, Charged, Coordinator
  <2> QED
    BY <1>1, <2>1, <2>2, <2>3 DEF Inv, LiveIsPaired, Reading, Placed
<1>7. CASE Receive
  <2>1. /\ attempt.ph = "reading" /\ ~disposed
        /\ UNCHANGED <<mode, latch, interest, visible, conn, disposed, attempt, status, pend,
                       committed, retry, rest, cache, srv>>
        /\ timers' = [timers EXCEPT !.idle = TRUE]
    BY <1>7 DEF Receive, Ready
  <2>2. timers' \in [data : BOOLEAN, idle : BOOLEAN, stable : BOOLEAN] /\ timers'.idle
    BY <1>2, <2>1
  <2>3. PICK n \in 1..MaxChunk : /\ chunk' \in [1..n -> Pieces(Versions)]
                                 /\ \A i \in 1..(n - 1) : chunk'[i].kind \notin {"auth", "bad"}
    <3> DEFINE V == {v \in Versions : v.epoch = srv.epoch /\ v.rev <= srv.rev}
    <3>1. PICK n \in 1..MaxChunk : /\ chunk' \in [1..n -> Pieces(V)]
                                   /\ \A i \in 1..(n - 1) : chunk'[i].kind \notin Failing
      BY <1>7 DEF Receive, Chunks
    <3>2. Pieces(V) \subseteq Pieces(Versions)
      BY DEF Pieces
    <3>3. Failing = {"auth", "bad"}
      BY DEF Failing
    <3> HIDE DEF V
    <3>4. chunk' \in [1..n -> Pieces(Versions)]
      BY <3>1, <3>2
    <3> QED
      BY <3>1, <3>3, <3>4
  <2>4. chunk' \in Seq(Pieces(Versions)) /\ Len(chunk') = n
    BY <2>3, HostStreamAssumption
  <2>5. TypeOK'
    <3>1. n <= MaxChunk
      BY HostStreamAssumption
    <3> QED
      BY <1>1, <2>1, <2>2, <2>4, <3>1 DEF TypeOK
  <2>6. Sound(Coordinator)'
    BY <1>3, <1>4, <2>1, <2>2 DEF Sound, Attempted, Timed, Charged, Coordinator
  <2>7. Reading'
    BY <2>1, <2>3, <2>4 DEF Reading
  <2> QED
    BY <1>1, <2>1, <2>2, <2>5, <2>6, <2>7 DEF Inv, LiveIsPaired, Placed
<1>8. CASE PieceComment \/ PieceStatus \/ PieceData
  <2>1. /\ chunk # <<>> /\ ~disposed /\ chunk' = Tail(chunk)
        /\ UNCHANGED <<mode, latch, interest, visible, conn, disposed, attempt, committed,
                       retry, cache, srv>>
    BY <1>8 DEF PieceComment, PieceStatus, PieceData, Piece
  <2>2. attempt.ph = "reading"
    BY <1>1, <2>1 DEF Reading
  <2>3. Head(chunk) \in Pieces(Versions)
    BY <1>2, <2>1
  <2>4. Head(chunk).ver \in Held
    BY <2>3 DEF Pieces, Held
  <2>5. status' \in [ver : Held, adjacent : BOOLEAN]
    <3>1. CASE status' = [status EXCEPT !.adjacent = FALSE]
      BY <1>2, <3>1
    <3>2. CASE status' = [ver |-> Head(chunk).ver, adjacent |-> TRUE]
      BY <2>4, <3>2
    <3> QED
      BY <1>8, <3>1, <3>2 DEF PieceComment, PieceStatus, PieceData
  <2>6. /\ timers' \in [data : BOOLEAN, idle : BOOLEAN, stable : BOOLEAN] /\ timers'.idle
        /\ pend' \in Held /\ rest' \in Rests
    <3>1. NoRest \in Rests
      BY DEF NoRest, Rests, Held
    <3>2. timers' \in {timers, [timers EXCEPT !.data = FALSE]} /\ pend' \in {pend, Head(chunk).ver}
          /\ rest' \in {rest, NoRest}
      BY <1>8 DEF PieceComment, PieceStatus, PieceData
    <3> QED
      BY <1>2, <1>3, <2>2, <2>4, <3>1, <3>2
  <2>7. chunk' \in Seq(Pieces(Versions)) /\ Len(chunk') = Len(chunk) - 1 /\ Len(chunk) \in Nat
        /\ \A i \in 1..Len(chunk') : chunk'[i] = chunk[i + 1]
    BY <1>2, <2>1
  <2>8. TypeOK'
    <3>1. Len(chunk') <= MaxChunk
      BY <1>2, <2>7, HostStreamAssumption
    <3> QED
      BY <1>1, <2>1, <2>5, <2>6, <2>7, <3>1 DEF TypeOK, Held, Rests
  <2>9. Reading'
    <3>1. \A i \in 1..(Len(chunk') - 1) : i + 1 \in 1..(Len(chunk) - 1) /\ chunk'[i] = chunk[i + 1]
      BY <2>7
    <3> QED
      BY <1>1, <2>1, <2>2, <3>1 DEF Reading
  <2>10. Sound(Coordinator)'
    BY <1>3, <1>4, <2>1, <2>2, <2>6 DEF Sound, Attempted, Timed, Charged, Coordinator
  <2> QED
    BY <1>1, <2>1, <2>2, <2>6, <2>8, <2>9, <2>10 DEF Inv, LiveIsPaired, Placed
<1>9. CASE CommitFrame
  <2>1. /\ pend # None /\ chunk = <<>> /\ ~disposed
        /\ cache' = [src |-> "stream", ver |-> pend] /\ committed' = pend /\ pend' = None
        /\ mode' = "LIVE" /\ timers' = [timers EXCEPT !.stable = TRUE]
        /\ UNCHANGED <<latch, interest, visible, conn, disposed, attempt, chunk, status,
                       retry, rest, srv>>
    BY <1>9 DEF CommitFrame, Ready
  <2>2. attempt.ph = "reading" /\ mode \in Busy
    BY <1>3, <2>1
  <2>3. timers' \in [data : BOOLEAN, idle : BOOLEAN, stable : BOOLEAN] /\ timers'.idle
    BY <1>2, <1>3, <2>1, <2>2
  <2>4. TypeOK'
    <3>1. /\ cache' \in [src : {"none", "stream", "rest", "event"}, ver : Held]
          /\ mode' \in Modes /\ pend' \in Held /\ committed' \in Held
      BY <1>2, <2>1 DEF Modes, Held
    <3> QED
      BY <1>1, <2>1, <2>3, <3>1 DEF TypeOK, Held
  <2>5. Sound(Coordinator)'
    BY <1>3, <1>4, <2>1, <2>2, <2>3 DEF Sound, Attempted, Timed, Charged, Coordinator, Busy
  <2>6. Placed(mode, conn, interest, visible)'
    BY <1>1, <2>1, <2>2 DEF Placed, Served, Busy
  <2> QED
    BY <1>1, <2>1, <2>2, <2>3, <2>4, <2>5, <2>6 DEF Inv, LiveIsPaired, Reading
<1> QED
  BY <1>5, <1>6, <1>7, <1>8, <1>9

\* The invariant holds always, where a bad piece ends its chunk.
LEMMA InvIsInductive ==
    ASSUME BadIsLast
    PROVE  Spec => []Inv
<1>1. Init => Inv
  <2> SUFFICES ASSUME Init PROVE Inv
    OBVIOUS
  <2>1. TypeOK
    <3>1. srv \in Versions
      BY HostStreamAssumption DEF Init, Versions
    <3>2. chunk \in Seq(Pieces(Versions)) /\ Len(chunk) <= MaxChunk
      BY HostStreamAssumption DEF Init
    <3>3. latch \in [auth : BOOLEAN, rest : BOOLEAN] /\ interest \in 0..2
      BY DEF Init
    <3>10. visible \in BOOLEAN /\ disposed \in BOOLEAN
      BY Zenon DEF Init
    <3>9. mode \in Modes /\ conn \in {"connecting", "connected", "replaced"}
      BY DEF Init, Modes
    <3>4. attempt \in [ph : {"none", "opening", "reading"}, epoch : 0..MaxEpoch]
      BY HostStreamAssumption DEF Init, NoAttempt
    <3>5. retry \in [count : 0..(MaxRetry + 1), ptr : 0..(MaxRetry + 1),
                     armed : SUBSET (1..(MaxRetry + 1)), tries : 0..(MaxRetry + 1)]
      BY HostStreamAssumption DEF Init
    <3>6. /\ pend \in Versions \cup {None} /\ committed \in Versions \cup {None}
          /\ status \in [ver : Versions \cup {None}, adjacent : BOOLEAN]
          /\ timers \in [data : BOOLEAN, idle : BOOLEAN, stable : BOOLEAN]
      BY DEF Init, NoStatus, NoTimers
    <3>7. rest \in [ph : {"none", "asked", "answered"}, cur : BOOLEAN,
                    ver : Versions \cup {None}]
      BY DEF Init, NoRest
    <3>8. cache \in [src : {"none", "stream", "rest", "event"}, ver : Versions \cup {None}]
      BY DEF Init
    <3> QED
      BY <3>1, <3>2, <3>3, <3>4, <3>5, <3>6, <3>7, <3>8, <3>9, <3>10 DEF TypeOK
  <2>2. Sound(Coordinator)
    BY HostStreamAssumption
    DEF Init, Sound, Attempted, Timed, Charged, Coordinator, Busy, NoAttempt, NoTimers
  <2>3. Placed(mode, conn, interest, visible) /\ LiveIsPaired /\ Reading /\ disposed = FALSE
    BY DEF Init, Placed, Served, Busy, LiveIsPaired, Reading
  <2> QED
    BY <2>1, <2>2, <2>3 DEF Inv
<1>2. Inv /\ [Next]_vars => Inv'
  <2> SUFFICES ASSUME Inv, [Next]_vars PROVE Inv'
    OBVIOUS
  <2>1. ASSUME RegisterInterest \/ DropInterest \/ (\E restored \in BOOLEAN : Show(restored))
               \/ ConnectionsChanged
        PROVE  Inv'
    BY <2>1, LifecycleKeeps
  <2>2. ASSUME \/ Hide \/ Dispose \/ AuthDropped
               \/ DataDeadline \/ IdleDeadline \/ StreamEnds \/ OpenRefused \/ PieceBad
               \/ OpenUnsupported \/ OpenBlocked \/ PieceAuth
        PROVE  Inv'
    BY <2>2, EndKeeps
  <2>3. ASSUME \E t \in 1..(MaxRetry + 1) : RetryFires(t)
        PROVE  Inv'
    BY <2>3, RetryKeeps
  <2>4. ASSUME StableWindow \/ OpenStream \/ Receive \/ PieceComment \/ PieceStatus
               \/ PieceData \/ CommitFrame
        PROVE  Inv'
    BY <2>4, AttemptKeeps
  <2>5. ASSUME StartRest \/ RestAnswered \/ RestDone \/ AlertEvent \/ ServerAdvances \/ UNCHANGED vars
        PROVE  Inv'
    BY <2>5, OthersKeep
  <2> QED
    BY <2>1, <2>2, <2>3, <2>4, <2>5 DEF Next, HandlePiece
<1> QED
  BY <1>1, <1>2, PTL DEF Spec

(***************************************************************************)
(* A LIVE source reads a stream, the idle deadline guards it, and the      *)
(* cached pair is the frame it last committed (switchToHostResourceFrame   *)
(* against the REST queries and alert events that write the same entry),   *)
(* as long as a piece that fails the attempt is the last of its chunk.     *)
(***************************************************************************)
THEOREM LivePaired ==
    ASSUME BadIsLast
    PROVE  Spec => []LiveIsPaired
<1>1. Inv => LiveIsPaired
  BY DEF Inv
<1>2. Spec => []Inv
  BY InvIsInductive
<1> QED
  BY <1>1, <1>2, PTL

(***************************************************************************)
(* Under the same condition: an owner that may not be watched is silent,   *)
(* one that may is served or waits for a timer, a retry never fires beside *)
(* an attempt, and the budget is spent only by attempts (scheduleRetry,    *)
(* evaluateLifecycle, stopActiveStream).                                   *)
(***************************************************************************)
THEOREM SourceIsSound ==
    ASSUME BadIsLast
    PROVE  Spec => []SourceSound
<1>1. Inv => SourceSound
  <2> SUFFICES ASSUME Inv PROVE SourceSound
    OBVIOUS
  <2>1. /\ TypeOK /\ Attempted(Coordinator) /\ Timed(Coordinator) /\ Charged(Coordinator)
        /\ IF disposed THEN mode = "STOPPED" ELSE Placed(mode, conn, interest, visible)
    BY DEF Inv, Sound
  <2>2. SilentWhenIneligible
    <3>1. ~Eligible => mode \notin Busy
      BY <2>1 DEF Eligible, Placed, Served, Busy
    <3> QED
      BY <2>1, <3>1 DEF SilentWhenIneligible, Attempted, Coordinator
  <2>3. EligibleIsServed
    BY <2>1 DEF EligibleIsServed, Eligible, Placed, Timed, Coordinator, TypeOK
  <2>4. OneRetryTimer /\ BudgetIsAttempts
    BY <2>1, HostStreamAssumption DEF OneRetryTimer, BudgetIsAttempts, Timed, Charged, Coordinator, TypeOK
  <2> QED
    BY <2>1, <2>2, <2>3, <2>4 DEF SourceSound
<1>2. Spec => []Inv
  BY InvIsInductive
<1> QED
  BY <1>1, <1>2, PTL
=============================================================================
