--------------------------- MODULE FsTransferProofs ---------------------------
(***************************************************************************)
(* File requests over one socket, for every set of requests, any window    *)
(* and any length of a file: FilesSound.                                   *)
(***************************************************************************)
EXTENDS FsTransfer, FiniteSetTheorems, TLAPS

Requests ==
    [pc : {"idle", "resolve", "begin", "chunks", "commit", "unsettled", "done"},
     result : {"none", "ok", "error", "rejected"},
     size : 0 .. MaxChunks + 1, sent : 0 .. MaxChunks + 1,
     window : Seq(0 .. MaxChunks), waiting : SUBSET (0 .. MaxChunks),
     failed : SUBSET (0 .. MaxChunks), expect : 0 .. MaxClock, base : Nat]
Frames == [kind : {"begin", "head", "data", "commit"}, t : Transfers, seq : 0 .. MaxChunks]
Replies == [kind : {"beginOk", "fsError", "ack", "result"}, t : Transfers,
            seq : 0 .. MaxChunks, how : {"ok", "error", "conflict"}]
Payloads == Transfers \X (0 .. MaxChunks)
Jobs == [t : Chunked \union Saves, data : Seq(Payloads), checked : BOOLEAN]

Types ==
    /\ FilesTypeOK
    /\ c2s \in Seq(Frames) /\ s2c \in Seq(Replies)
    /\ clock \in 0 .. MaxClock /\ rev \in Nat
    /\ sessions \in [DOMAIN sessions -> Seq(Payloads)]
    /\ committing # Nobody => committing \in Jobs

-----------------------------------------------------------------------------
(***************************************************************************)
(* How far a request has got.  Its size is chosen when it starts and never *)
(* changes; only chunked requests have chunks and a commit of their own.   *)
(***************************************************************************)
Started(t) == req[t].pc # "idle"

Phase(t) ==
    /\ t \notin Chunked => req[t].pc \notin {"chunks", "commit"}
    /\ t \in Saves /\ Started(t) => req[t].size = 1
    /\ req[t].pc \in {"idle", "resolve", "begin"} =>
          req[t].sent = 0 /\ req[t].window = <<>> /\ req[t].result = "none"
    /\ req[t].pc \in {"chunks", "commit", "unsettled"} => req[t].result = "none"
    /\ req[t].sent <= ChunkCount(t)

(***************************************************************************)
(* The queue to the server.  A binary frame carries no name, so everything *)
(* rests on its header being the frame before it (Paired); only the close  *)
(* of the socket may cut between the two, and nothing follows then.        *)
(***************************************************************************)
Proper(m) ==
    /\ m.kind = "begin" => m.t \notin Saves
    /\ m.kind = "commit" => m.t \in Chunked
    /\ m.kind \in {"head", "data"} => m.t \in Chunked \union Saves
    /\ m.t \in Saves => m.seq = 0

Paired(q, i) ==
    q[i].kind = "head" =>
        \/ i < Len(q) /\ q[i + 1] = Frame("data", q[i].t, q[i].seq)
        \/ i = Len(q) /\ sock = "closed"

Wire == \A i \in 1 .. Len(c2s) : Started(c2s[i].t) /\ Proper(c2s[i]) /\ Paired(c2s, i)

\* Only a chunked request is told to go on with its chunks.
Replied == \A i \in 1 .. Len(s2c) : s2c[i].kind = "beginOk" => s2c[i].t \in Chunked

\* The header in the server's slot is that of the frame the loop reads next.
Slot ==
    pending # <<>> =>
        /\ \/ c2s = <<>> /\ sock = "closed"
           \/ c2s # <<>> /\ Head(c2s) = Frame("data", pending[1], pending[2])
        /\ pending[1] \in DOMAIN sessions \ Puts => pending[2] = NextSeq(pending[1])

(***************************************************************************)
(* What the server holds of a transfer is a beginning of its content, and  *)
(* what it commits is all of it.                                           *)
(***************************************************************************)
Beginning(t, s) ==
    /\ Len(s) <= req[t].size
    /\ \A i \in 1 .. Len(s) : s[i] = Payload(t, i - 1)

Content ==
    /\ \A t \in DOMAIN sessions : Started(t) /\ Beginning(t, sessions[t])
    /\ committing # Nobody =>
          Started(committing.t) /\ committing.data = Whole(committing.t)
    /\ disk.owner # Nobody => Started(disk.owner) /\ disk.data = Whole(disk.owner)

(***************************************************************************)
(* The one commit of a transfer.  It is a frame (the commit, or the binary *)
(* frame of a save), the job of the loop, an answer and a settled promise, *)
(* one after the other and never two of them at once: so nothing can reach *)
(* the file behind an answer.                                              *)
(***************************************************************************)
Final(m) == m.kind = "commit" \/ (m.kind = "data" /\ m.t \in Saves)
Unsent(t) ==
    req[t].pc \in {"idle", "resolve"} \/ (t \in Chunked /\ req[t].pc \in {"begin", "chunks"})
Queued(t) == \E i \in 1 .. Len(c2s) : Final(c2s[i]) /\ c2s[i].t = t
InLoop(t) == committing # Nobody /\ committing.t = t
Answered(t) == \E i \in 1 .. Len(s2c) : s2c[i].kind = "result" /\ s2c[i].t = t
Judged(t) == req[t].result \in {"ok", "error"}

OneCommit ==
    \A i, j \in 1 .. Len(c2s) :
        Final(c2s[i]) /\ Final(c2s[j]) /\ c2s[i].t = c2s[j].t => i = j

Stage(t) ==
    /\ Unsent(t) => ~Queued(t)
    /\ Unsent(t) \/ Queued(t) => ~InLoop(t)
    /\ Unsent(t) \/ Queued(t) \/ InLoop(t) => ~Answered(t) /\ ~Judged(t) /\ t \notin committed

AnswersTrue ==
    \A i \in 1 .. Len(s2c) :
        s2c[i].kind = "result" /\ s2c[i].t \in Chunked \union Saves =>
            /\ s2c[i].how = "ok" => s2c[i].t \in committed
            /\ s2c[i].how = "error" => s2c[i].t \notin committed

Commits == OneCommit /\ AnswersTrue /\ AnswerIsTrue /\ \A t \in Chunked \union Saves : Stage(t)

(***************************************************************************)
(* The window.  A chunk under way, as a frame or as its acknowledgement,   *)
(* is one of the last WindowSize that were sent, and there is one of it.   *)
(* While the client goes on sending it is still in the window and not      *)
(* known to be stored.                                                     *)
(***************************************************************************)
Near(t, n) ==
    /\ n < req[t].sent /\ req[t].sent <= n + WindowSize
    /\ req[t].pc = "chunks" => /\ req[t].sent <= n + Len(req[t].window)
                               /\ n \in req[t].waiting \union req[t].failed
WindowIsLast(t) ==
    req[t].pc = "chunks" =>
        /\ Len(req[t].window) <= WindowSize /\ Len(req[t].window) <= req[t].sent
        /\ \A i \in 1 .. Len(req[t].window) :
              req[t].window[i] = req[t].sent - Len(req[t].window) + i - 1
IsData(m, t) == m.kind = "data" /\ m.t = t
IsAck(m, t) == m.kind = "ack" /\ m.t = t
DataOnce(q, t) ==
    \A i, j \in 1 .. Len(q) :
        IsData(q[i], t) /\ IsData(q[j], t) /\ q[i].seq = q[j].seq => i = j
AckOnce(q, t) ==
    \A i, j \in 1 .. Len(q) :
        IsAck(q[i], t) /\ IsAck(q[j], t) /\ q[i].seq = q[j].seq => i = j
Going(t, n) == \E i \in 1 .. Len(c2s) : IsData(c2s[i], t) /\ c2s[i].seq = n
Coming(t, n) == \E i \in 1 .. Len(s2c) : IsAck(s2c[i], t) /\ s2c[i].seq = n

Flight(t) ==
    /\ WindowIsLast(t)
    /\ \A n \in 0 .. MaxChunks : /\ Going(t, n) \/ Coming(t, n) => Near(t, n)
                                 /\ ~(Going(t, n) /\ Coming(t, n))
    /\ DataOnce(c2s, t) /\ AckOnce(s2c, t)

Inv ==
    /\ Types /\ \A t \in Transfers : Phase(t)
    /\ Wire /\ Replied /\ Slot /\ Content /\ Commits
    /\ \A t \in Chunked : Flight(t)
-----------------------------------------------------------------------------
(* Queues *)

\* Taking the first element.
LEMMA TailFacts ==
    ASSUME NEW S, NEW q \in Seq(S), q # <<>>
    PROVE  /\ Tail(q) \in Seq(S) /\ Len(Tail(q)) = Len(q) - 1 /\ Len(q) \in Nat /\ Len(q) >= 1
           /\ \A i \in 1 .. Len(Tail(q)) : Tail(q)[i] = q[i + 1]
           /\ Head(q) = q[1] /\ q[1] \in S
OBVIOUS

\* Adding elements.
LEMMA ConcatFacts ==
    ASSUME NEW S, NEW q \in Seq(S), NEW r \in Seq(S)
    PROVE  /\ q \o r \in Seq(S) /\ Len(q \o r) = Len(q) + Len(r)
           /\ Len(q) \in Nat /\ Len(r) \in Nat
           /\ \A i \in 1 .. Len(q) : (q \o r)[i] = q[i]
           /\ \A i \in Len(q) + 1 .. Len(q) + Len(r) : (q \o r)[i] = r[i - Len(q)]
OBVIOUS

\* Cutting a queue.
LEMMA CutFacts ==
    ASSUME NEW S, NEW q \in Seq(S), NEW n \in 0 .. Len(q)
    PROVE  /\ SubSeq(q, 1, n) \in Seq(S) /\ Len(SubSeq(q, 1, n)) = n
           /\ \A i \in 1 .. n : SubSeq(q, 1, n)[i] = q[i]
OBVIOUS

\* Adding one element.
LEMMA AppendFacts ==
    ASSUME NEW S, NEW q \in Seq(S), NEW e \in S
    PROVE  /\ Append(q, e) \in Seq(S) /\ Len(Append(q, e)) = Len(q) + 1 /\ Len(q) \in Nat
           /\ \A i \in 1 .. Len(q) : Append(q, e)[i] = q[i]
           /\ Append(q, e)[Len(q) + 1] = e
OBVIOUS

\* The frames of some chunks: headers and binary frames in turn.
LEMMA ChunkFramesFacts ==
    ASSUME NEW t \in Transfers, NEW from \in Nat, NEW k \in Nat,
           MaxChunks \in Nat, from + k <= MaxChunks + 1
    PROVE  LET q == ChunkFrames(t, from, from + k) IN
           /\ q \in Seq(Frames) /\ Len(q) = 2 * k
           /\ \A i \in 1 .. 2 * k :
                 /\ q[i].kind \in {"head", "data"} /\ q[i].t = t
                 /\ q[i].seq \in Nat /\ from <= q[i].seq /\ q[i].seq < from + k
                 /\ q[i].kind = "head" =>
                       i < 2 * k /\ q[i + 1] = Frame("data", t, q[i].seq)
           /\ \A i, j \in 1 .. 2 * k :
                 q[i].kind = "data" /\ q[j].kind = "data" /\ q[i].seq = q[j].seq => i = j
<1> DEFINE q == ChunkFrames(t, from, from + k)
           n(i) == from + (i - 1) \div 2
<1>1. 2 * ((from + k) - from) = 2 * k
  OBVIOUS
<1>2. \A i \in 1 .. 2 * k : /\ n(i) \in Nat /\ from <= n(i) /\ n(i) < from + k
                            /\ n(i) \in 0 .. MaxChunks
  OBVIOUS
<1>3. \A i \in 1 .. 2 * k : q[i] = Frame(IF i % 2 = 1 THEN "head" ELSE "data", t, n(i))
  BY <1>1 DEF ChunkFrames
<1>4. q = [i \in 1 .. 2 * k |-> Frame(IF i % 2 = 1 THEN "head" ELSE "data", t, n(i))]
  BY <1>1 DEF ChunkFrames
<1>5. \A i \in 1 .. 2 * k : i % 2 = 1 => i + 1 \in 1 .. 2 * k /\ n(i + 1) = n(i) /\ (i + 1) % 2 # 1
  OBVIOUS
<1>6. \A i, j \in 1 .. 2 * k : i % 2 # 1 /\ j % 2 # 1 /\ n(i) = n(j) => i = j
  OBVIOUS
<1> HIDE DEF n
<1>7. \A i \in 1 .. 2 * k : Frame(IF i % 2 = 1 THEN "head" ELSE "data", t, n(i)) \in Frames
  BY <1>2 DEF Frame, Frames
<1>8. q \in Seq(Frames) /\ Len(q) = 2 * k
  BY <1>4, <1>7
<1> HIDE DEF q
<1>9. \A i \in 1 .. 2 * k : /\ q[i].kind = (IF i % 2 = 1 THEN "head" ELSE "data")
                            /\ q[i].t = t /\ q[i].seq = n(i)
  <2> SUFFICES ASSUME NEW i \in 1 .. 2 * k
               PROVE  /\ q[i].kind = (IF i % 2 = 1 THEN "head" ELSE "data")
                      /\ q[i].t = t /\ q[i].seq = n(i)
    OBVIOUS
  <2> DEFINE kind == IF i % 2 = 1 THEN "head" ELSE "data"
  <2>1. q[i] = Frame(kind, t, n(i))
    BY <1>3
  <2> HIDE DEF kind
  <2>2. q[i].kind = kind /\ q[i].t = t /\ q[i].seq = n(i)
    BY <2>1 DEF Frame
  <2> QED
    BY <2>2 DEF kind
<1>10. \A i \in 1 .. 2 * k : q[i].kind = "head" => i % 2 = 1
  BY <1>9
<1>11. \A i \in 1 .. 2 * k : q[i].kind = "data" => i % 2 # 1
  BY <1>9
<1>12. \A i \in 1 .. 2 * k :
          q[i].kind = "head" => i < 2 * k /\ q[i + 1] = Frame("data", t, q[i].seq)
  <2> SUFFICES ASSUME NEW i \in 1 .. 2 * k, q[i].kind = "head"
               PROVE  i < 2 * k /\ q[i + 1] = Frame("data", t, q[i].seq)
    OBVIOUS
  <2>1. i + 1 \in 1 .. 2 * k /\ n(i + 1) = n(i) /\ (i + 1) % 2 # 1
    BY <1>5, <1>10
  <2>2. q[i + 1] = Frame("data", t, n(i + 1))
    BY <1>3, <2>1
  <2> QED
    BY <2>1, <2>2, <1>9
<1>13. \A i \in 1 .. 2 * k :
          /\ q[i].kind \in {"head", "data"} /\ q[i].t = t
          /\ q[i].seq \in Nat /\ from <= q[i].seq /\ q[i].seq < from + k
  BY <1>2, <1>9
<1>14. \A i, j \in 1 .. 2 * k :
          q[i].kind = "data" /\ q[j].kind = "data" /\ q[i].seq = q[j].seq => i = j
  BY <1>6, <1>9, <1>11
<1> QED
  BY <1>8, <1>12, <1>13, <1>14 DEF q

-----------------------------------------------------------------------------
(* Requests *)

\* The three kinds of requests.
LEMMA Kinds ==
    ASSUME Parameters
    PROVE  /\ \A t \in Saves : t \notin Chunked /\ t \notin Ops \union Reads
           /\ \A t \in Chunked : t \notin Saves /\ t \notin Ops \union Reads
           /\ \A t \in Transfers : t # Nobody
           /\ Chunked \subseteq Transfers /\ Saves \subseteq Transfers
BY DEF Parameters, Transfers

\* The messages in the two queues.
LEMMA Queues ==
    ASSUME Types
    PROVE  /\ c2s \in Seq(Frames) /\ Len(c2s) \in Nat
           /\ s2c \in Seq(Replies) /\ Len(s2c) \in Nat
           /\ \A i \in 1 .. Len(c2s) :
                 /\ c2s[i].kind \in {"begin", "head", "data", "commit"}
                 /\ c2s[i].t \in Transfers /\ c2s[i].seq \in 0 .. MaxChunks
           /\ \A i \in 1 .. Len(s2c) :
                 /\ s2c[i].kind \in {"beginOk", "fsError", "ack", "result"}
                 /\ s2c[i].t \in Transfers /\ s2c[i].seq \in 0 .. MaxChunks
                 /\ s2c[i].how \in {"ok", "error", "conflict"}
<1>1. c2s \in Seq(Frames) /\ s2c \in Seq(Replies)
  BY DEF Types
<1>2. \A i \in 1 .. Len(c2s) : c2s[i] \in Frames
  BY <1>1
<1>3. \A i \in 1 .. Len(s2c) : s2c[i] \in Replies
  BY <1>1
<1>4. \A m \in Frames : /\ m.kind \in {"begin", "head", "data", "commit"}
                        /\ m.t \in Transfers /\ m.seq \in 0 .. MaxChunks
  BY DEF Frames
<1>5. \A m \in Replies : /\ m.kind \in {"beginOk", "fsError", "ack", "result"}
                         /\ m.t \in Transfers /\ m.seq \in 0 .. MaxChunks
                         /\ m.how \in {"ok", "error", "conflict"}
  BY DEF Replies
<1> QED
  BY <1>1, <1>2, <1>3, <1>4, <1>5

\* The request under the type invariant.
LEMMA RequestTyped ==
    ASSUME Types, NEW t \in Transfers
    PROVE  req[t] \in Requests /\ req \in [Transfers -> Requests]
BY DEF Types, FilesTypeOK, Requests

\* Ending a request.
LEMMA FinishFacts ==
    ASSUME NEW x \in Requests, NEW r \in {"ok", "error", "rejected"}
    PROVE  /\ Finish(x, r) \in Requests
           /\ Finish(x, r).pc = "done" /\ Finish(x, r).result = r
           /\ Finish(x, r).size = x.size /\ Finish(x, r).sent = x.sent
<1>1. <<>> \in Seq(0 .. MaxChunks) /\ {} \in SUBSET (0 .. MaxChunks)
  OBVIOUS
<1>2. Finish(x, r) \in Requests
  BY <1>1 DEF Finish, Requests
<1>3. /\ Finish(x, r).pc = "done" /\ Finish(x, r).result = r
      /\ Finish(x, r).size = x.size /\ Finish(x, r).sent = x.sent
  BY DEF Finish, Requests
<1> QED
  BY <1>2, <1>3

\* A file has no more chunks than the bound, and one that is empty one at most.
LEMMA ChunkCountFacts ==
    ASSUME Parameters, Types, NEW t \in Transfers
    PROVE  ChunkCount(t) \in 0 .. MaxChunks + 1
BY RequestTyped DEF ChunkCount, Parameters, Requests

\* The request after the loop has sent k chunks behind the window w.
Fed(x, w, k) ==
    [x EXCEPT !.sent = @ + k,
              !.window = w \o [i \in 1 .. k |-> x.sent + i - 1],
              !.waiting = IF sock = "open" THEN @ \union (x.sent .. x.sent + k - 1) ELSE @,
              !.failed = IF sock = "open" THEN @ ELSE @ \union (x.sent .. x.sent + k - 1)]

\* What the chunk loop does: it fails, or it drops a stored chunk from a full
\* window and sends as many as fit.
LEMMA FeedShape ==
    ASSUME Parameters, Types, NEW t \in Transfers, Phase(t), WindowIsLast(t), Feed(t)
    PROVE  /\ req[t].pc = "chunks"
           /\ \/ req' = [req EXCEPT ![t] = Finish(@, "rejected")] /\ c2s' = c2s
              \/ \E k \in Nat, w \in Seq(0 .. MaxChunks) :
                    /\ req[t].sent + k <= ChunkCount(t) /\ Len(w) + k <= WindowSize
                    /\ \/ w = req[t].window
                       \/ /\ Len(req[t].window) = WindowSize /\ w = Tail(req[t].window)
                          /\ Head(req[t].window) \notin req[t].waiting \union req[t].failed
                    /\ req' = [req EXCEPT ![t] = Fed(req[t], w, k)]
                    /\ c2s' = IF sock = "open"
                                THEN c2s \o ChunkFrames(t, req[t].sent, req[t].sent + k) ELSE c2s
<1> DEFINE x == req[t]
           full == Len(x.window) = WindowSize
           w == IF full THEN Tail(x.window) ELSE x.window
<1>1. x \in Requests /\ x.pc = "chunks" /\ (full => Head(x.window) \notin x.waiting)
  BY RequestTyped DEF Feed
<1>2. x.window \in Seq(0 .. MaxChunks) /\ Len(x.window) \in Nat /\ Len(x.window) <= WindowSize
  BY <1>1 DEF WindowIsLast, Requests
<1>3. WindowSize \in Nat /\ WindowSize >= 1
  BY DEF Parameters
<1>4. full => x.window # <<>>
  BY <1>2, <1>3
<1>5. w \in Seq(0 .. MaxChunks) /\ Len(w) \in Nat /\ Len(w) <= WindowSize
  <2> DEFINE v == x.window
  <2>1. v \in Seq(0 .. MaxChunks) /\ Len(v) \in Nat /\ Len(v) <= WindowSize
    BY <1>2
  <2>2. v # <<>> => Tail(v) \in Seq(0 .. MaxChunks) /\ Len(Tail(v)) = Len(v) - 1 /\ Len(v) >= 1
    BY <2>1, TailFacts
  <2>3. w = IF full THEN Tail(v) ELSE v
    OBVIOUS
  <2> HIDE DEF v
  <2> QED
    BY <1>3, <1>4, <2>1, <2>2, <2>3 DEF v
<1>6. ChunkCount(t) \in Nat /\ x.sent \in Nat /\ x.sent <= ChunkCount(t)
  BY <1>1, ChunkCountFacts DEF Phase, Requests, Parameters
<1>7. CASE full /\ Head(x.window) \in x.failed
  BY <1>1, <1>7 DEF Feed
<1>8. CASE ~(full /\ Head(x.window) \in x.failed)
  <2>1. PICK k \in IF t \in Writes \/ Room(t, w) = 0 THEN {Room(t, w)} ELSE 1 .. Room(t, w) :
          /\ req' = [req EXCEPT ![t] = Fed(x, w, k)]
          /\ c2s' = IF sock = "open" THEN c2s \o ChunkFrames(t, x.sent, x.sent + k) ELSE c2s
    BY <1>8 DEF Feed, Fed
  <2> HIDE DEF w
  <2>2. Room(t, w) \in Nat /\ Room(t, w) <= ChunkCount(t) - x.sent /\ Room(t, w) <= WindowSize - Len(w)
    BY <1>3, <1>5, <1>6 DEF Room
  <2>3. k \in Nat /\ k <= Room(t, w)
    BY <2>1, <2>2
  <2>4. x.sent + k <= ChunkCount(t) /\ Len(w) + k <= WindowSize
    BY <1>3, <1>5, <1>6, <2>2, <2>3
  <2>5. \/ w = x.window
        \/ full /\ w = Tail(x.window) /\ Head(x.window) \notin x.waiting \union x.failed
    BY <1>1, <1>8 DEF w
  <2> QED
    BY <1>1, <1>5, <2>1, <2>3, <2>4, <2>5
<1> QED
  BY <1>7, <1>8

\* The request the loop leaves is well typed.
LEMMA FedFacts ==
    ASSUME Parameters, Types, NEW t \in Transfers, NEW k \in Nat, NEW w \in Seq(0 .. MaxChunks),
           req[t].sent + k <= ChunkCount(t), NEW y, y = Fed(req[t], w, k)
    PROVE  /\ y \in Requests /\ y.pc = req[t].pc /\ y.result = req[t].result /\ y.size = req[t].size
           /\ y.sent = req[t].sent + k
<1> DEFINE x == req[t]
           new == [i \in 1 .. k |-> x.sent + i - 1]
           seqs == x.sent .. x.sent + k - 1
<1>1. x \in Requests /\ ChunkCount(t) \in 0 .. MaxChunks + 1 /\ MaxChunks \in Nat
  BY RequestTyped, ChunkCountFacts DEF Parameters
<1>2. x.sent \in Nat /\ x.sent + k <= MaxChunks + 1
  BY <1>1 DEF Requests
<1>3. \A i \in 1 .. k : x.sent + i - 1 \in 0 .. MaxChunks
  BY <1>1, <1>2, SMTT(30)
<1>4. new \in Seq(0 .. MaxChunks) /\ Len(new) = k /\ \A i \in 1 .. k : new[i] = x.sent + i - 1
  BY <1>3
<1>5. seqs \subseteq 0 .. MaxChunks
  BY <1>1, <1>2
<1> HIDE DEF new, seqs
<1>6. w \o new \in Seq(0 .. MaxChunks)
  BY <1>4, ConcatFacts
<1> DEFINE long == w \o new
<1>8. y = [x EXCEPT !.sent = x.sent + k, !.window = long,
                    !.waiting = IF sock = "open" THEN x.waiting \union seqs ELSE x.waiting,
                    !.failed = IF sock = "open" THEN x.failed ELSE x.failed \union seqs]
  BY <1>1 DEF Fed, new, seqs, Requests
<1> HIDE DEF long
<1>9. /\ y.pc = x.pc /\ y.result = x.result /\ y.size = x.size /\ y.sent = x.sent + k
      /\ y.window = long
      /\ y.waiting = IF sock = "open" THEN x.waiting \union seqs ELSE x.waiting
      /\ y.failed = IF sock = "open" THEN x.failed ELSE x.failed \union seqs
  BY <1>1, <1>8 DEF Requests
<1>10. long \in Seq(0 .. MaxChunks) /\ x.sent + k \in 0 .. MaxChunks + 1
  BY <1>1, <1>2, <1>6 DEF long
<1>11. y \in Requests
  <2> DEFINE waits == IF sock = "open" THEN x.waiting \union seqs ELSE x.waiting
             fails == IF sock = "open" THEN x.failed ELSE x.failed \union seqs
  <2>1. x.waiting \in SUBSET (0 .. MaxChunks) /\ x.failed \in SUBSET (0 .. MaxChunks)
    BY <1>1 DEF Requests
  <2>2. waits \in SUBSET (0 .. MaxChunks) /\ fails \in SUBSET (0 .. MaxChunks)
    BY <1>5, <2>1
  <2>3. y = [x EXCEPT !.sent = x.sent + k, !.window = long, !.waiting = waits, !.failed = fails]
    BY <1>8
  <2> HIDE DEF waits, fails
  <2> QED
    BY <1>1, <1>10, <2>2, <2>3 DEF Requests
<1> QED
  BY <1>9, <1>11

\* The window it leaves.
LEMMA FedWindow ==
    ASSUME Parameters, Types, NEW t \in Transfers, NEW k \in Nat, NEW w \in Seq(0 .. MaxChunks),
           req[t].sent + k <= ChunkCount(t), NEW y, y = Fed(req[t], w, k)
    PROVE  /\ y.pc = req[t].pc /\ y.sent = req[t].sent + k
           /\ Len(y.window) = Len(w) + k
           /\ \A i \in 1 .. Len(w) : y.window[i] = w[i]
           /\ \A i \in Len(w) + 1 .. Len(w) + k : y.window[i] = req[t].sent + (i - Len(w)) - 1
           /\ y.waiting \union y.failed =
                 req[t].waiting \union req[t].failed \union (req[t].sent .. req[t].sent + k - 1)
<1> DEFINE x == req[t]
           new == [i \in 1 .. k |-> x.sent + i - 1]
           seqs == x.sent .. x.sent + k - 1
<1>1. x \in Requests /\ ChunkCount(t) \in 0 .. MaxChunks + 1 /\ MaxChunks \in Nat
  BY RequestTyped, ChunkCountFacts DEF Parameters
<1>2. x.sent \in Nat /\ x.sent + k <= MaxChunks + 1
  BY <1>1 DEF Requests
<1>3. \A i \in 1 .. k : x.sent + i - 1 \in 0 .. MaxChunks
  BY <1>1, <1>2, SMTT(30)
<1>4. new \in Seq(0 .. MaxChunks) /\ Len(new) = k /\ \A i \in 1 .. k : new[i] = x.sent + i - 1
  BY <1>3
<1>5. seqs \subseteq 0 .. MaxChunks
  BY <1>1, <1>2
<1> HIDE DEF new, seqs
<1>6. /\ w \o new \in Seq(0 .. MaxChunks) /\ Len(w \o new) = Len(w) + k /\ Len(w) \in Nat
      /\ \A i \in 1 .. Len(w) : (w \o new)[i] = w[i]
      /\ \A i \in Len(w) + 1 .. Len(w) + k : (w \o new)[i] = new[i - Len(w)]
  BY <1>4, ConcatFacts
<1>7. \A i \in Len(w) + 1 .. Len(w) + k : (w \o new)[i] = x.sent + (i - Len(w)) - 1
  BY <1>4, <1>6
<1> DEFINE long == w \o new
<1>8. y = [x EXCEPT !.sent = x.sent + k, !.window = long,
                    !.waiting = IF sock = "open" THEN x.waiting \union seqs ELSE x.waiting,
                    !.failed = IF sock = "open" THEN x.failed ELSE x.failed \union seqs]
  BY <1>1 DEF Fed, new, seqs, Requests
<1> HIDE DEF long
<1>9. /\ y.pc = x.pc /\ y.result = x.result /\ y.size = x.size /\ y.sent = x.sent + k
      /\ y.window = long
      /\ y.waiting = IF sock = "open" THEN x.waiting \union seqs ELSE x.waiting
      /\ y.failed = IF sock = "open" THEN x.failed ELSE x.failed \union seqs
  BY <1>1, <1>8 DEF Requests
<1>10. y.waiting \union y.failed = x.waiting \union x.failed \union seqs
  BY <1>9
<1> QED
  BY <1>6, <1>7, <1>9, <1>10 DEF long, seqs

-----------------------------------------------------------------------------
(* Types *)

ClientTypes == req \in [Transfers -> Requests] /\ sock \in {"open", "closed"}
QueueTypes == c2s \in Seq(Frames) /\ s2c \in Seq(Replies)
ServerTypes ==
    /\ DOMAIN sessions \subseteq Chunked /\ sessions \in [DOMAIN sessions -> Seq(Payloads)]
    /\ pending = <<>> \/ pending \in Payloads
    /\ committing # Nobody => committing \in Jobs
FileTypes ==
    /\ clock \in 0 .. MaxClock /\ rev \in Nat
    /\ disk.owner \in Transfers \union {Nobody} /\ disk.mtime \in 0 .. MaxClock
    /\ committed \subseteq Transfers /\ unseen \subseteq Writes

\* The types by component.
LEMMA TypesSplit ==
    /\ Types <=> ClientTypes /\ QueueTypes /\ ServerTypes /\ FileTypes
    /\ Types' <=> ClientTypes' /\ QueueTypes' /\ ServerTypes' /\ FileTypes'
<1>1. Types <=> ClientTypes /\ QueueTypes /\ ServerTypes /\ FileTypes
  BY DEF Types, FilesTypeOK, ClientTypes, QueueTypes, ServerTypes, FileTypes, Requests, Payloads, Jobs
<1>2. Types' <=> ClientTypes' /\ QueueTypes' /\ ServerTypes' /\ FileTypes'
  BY DEF Types, FilesTypeOK, ClientTypes, QueueTypes, ServerTypes, FileTypes, Requests, Payloads, Jobs
<1> QED
  BY <1>1, <1>2

\* An answer is a message more, or none.
LEMMA AnswerTyped ==
    ASSUME QueueTypes, NEW m \in Replies, Answer(m)
    PROVE  s2c' \in Seq(Replies)
BY AppendFacts DEF QueueTypes, Answer

\* Replies and frames.
LEMMA MessagesTyped ==
    ASSUME Parameters, NEW t \in Transfers, NEW n \in 0 .. MaxChunks
    PROVE  /\ \A how \in {"ok", "error", "conflict"},
                 kind \in {"beginOk", "fsError", "ack", "result"} : Reply(kind, t, n, how) \in Replies
           /\ \A kind \in {"begin", "head", "data", "commit"} : Frame(kind, t, n) \in Frames
           /\ 0 \in 0 .. MaxChunks /\ <<t, n>> \in Payloads
BY DEF Parameters, Reply, Replies, Frame, Frames, Payloads

\* What a request opens with.
LEMMA OpeningTyped ==
    ASSUME Parameters, NEW t \in Transfers
    PROVE  /\ Opening(t) \in Seq(Frames)
           /\ t \notin Saves => Opening(t) = <<Frame("begin", t, 0)>>
           /\ t \in Saves => Opening(t) = ChunkFrames(t, 0, 0 + 1)
<1>1. 0 \in Nat /\ 1 \in Nat /\ MaxChunks \in Nat /\ 0 + 1 <= MaxChunks + 1 /\ 0 + 1 = 1
  BY DEF Parameters
<1>2. ChunkFrames(t, 0, 0 + 1) \in Seq(Frames)
  BY <1>1, ChunkFramesFacts
<1>3. <<Frame("begin", t, 0)>> \in Seq(Frames)
  <2>1. Frame("begin", t, 0) \in Frames
    BY <1>1 DEF Frame, Frames
  <2> QED
    BY <2>1
<1> QED
  BY <1>1, <1>2, <1>3 DEF Opening, SaveFrames, RequestFrames

\* Sending some frames, or ending the request.
LEMMA SendTyped ==
    ASSUME ClientTypes, QueueTypes, NEW t \in Transfers, NEW x \in Requests,
           NEW fs \in Seq(Frames), SendOrReject(t, x, fs), sock' = sock
    PROVE  ClientTypes' /\ c2s' \in Seq(Frames)
<1>1. Finish(req[t], "rejected") \in Requests
  BY FinishFacts DEF ClientTypes
<1>2. c2s \o fs \in Seq(Frames)
  BY ConcatFacts DEF QueueTypes
<1> QED
  BY <1>1, <1>2 DEF SendOrReject, ClientTypes, QueueTypes

\* An answer leaves a request well typed.
LEMMA OnMessageTyped ==
    ASSUME NEW x \in Requests, NEW t \in Transfers, NEW m \in Replies
    PROVE  OnMessage(x, t, m) \in Requests
<1>1. \A r \in {"ok", "error", "rejected"} : Finish(x, r) \in Requests
  BY FinishFacts
<1>2. [x EXCEPT !.pc = "chunks"] \in Requests /\ [x EXCEPT !.pc = "unsettled"] \in Requests
  BY DEF Requests
<1>3. [x EXCEPT !.waiting = @ \ {m.seq}] \in Requests
  BY DEF Requests
<1>4. m.kind \in {"beginOk", "fsError", "ack", "result"} /\ m.how \in {"ok", "error", "conflict"}
  BY DEF Replies
<1>5. CASE m.kind = "beginOk"
  BY <1>2, <1>5 DEF OnMessage
<1>6. CASE m.kind = "fsError"
  BY <1>1, <1>6 DEF OnMessage
<1>7. CASE m.kind = "ack"
  BY <1>3, <1>7 DEF OnMessage
<1>8. CASE m.kind = "result"
  BY <1>1, <1>2, <1>4, <1>8 DEF OnMessage
<1> QED
  BY <1>4, <1>5, <1>6, <1>7, <1>8

\* The steps of the client keep the types.
LEMMA ClientTyped ==
    ASSUME Parameters, Types, NEW t \in Transfers, Phase(t), WindowIsLast(t),
           Start(t) \/ ClientStep(t) \/ Timeout(t)
    PROVE  Types'
<1> USE DEF server, file, client
<1>0. ClientTypes /\ QueueTypes /\ ServerTypes /\ FileTypes /\ req[t] \in Requests
  BY TypesSplit, RequestTyped
<1>1. UNCHANGED <<sock, s2c, sessions, pending, committing, disk, rev, committed, unseen, clock>>
  BY DEF Start, ClientStep, SendBegin, Feed, Drain, Timeout
<1>2. ServerTypes' /\ FileTypes' /\ s2c' \in Seq(Replies) /\ sock' \in {"open", "closed"}
  BY <1>0, <1>1 DEF ServerTypes, FileTypes, QueueTypes, ClientTypes
<1>3. SUFFICES req' \in [Transfers -> Requests] /\ c2s' \in Seq(Frames)
  BY <1>2, TypesSplit DEF ClientTypes, QueueTypes
<1>4. CASE Start(t)
  <2>1. PICK n \in IF t \in Chunked THEN 0 .. MaxChunks ELSE {1} :
          LET x == [req[t] EXCEPT !.pc = "resolve", !.size = n,
                                  !.expect = disk.mtime, !.base = rev]
          IN  IF t \in Reads
                THEN SendOrReject(t, [x EXCEPT !.pc = "begin"], Opening(t))
                ELSE req' = [req EXCEPT ![t] = x] /\ UNCHANGED c2s
    BY <1>4 DEF Start
  <2> DEFINE x == [req[t] EXCEPT !.pc = "resolve", !.size = n, !.expect = disk.mtime, !.base = rev]
             y == [x EXCEPT !.pc = "begin"]
  <2>2. n \in 0 .. MaxChunks + 1
    BY DEF Parameters
  <2>3. x \in Requests
    BY <1>0, <2>2 DEF Requests, FileTypes
  <2>4. \/ SendOrReject(t, y, Opening(t))
        \/ req' = [req EXCEPT ![t] = x] /\ UNCHANGED c2s
    BY <2>1
  <2> HIDE DEF x
  <2>5. y \in Requests
    BY <2>3 DEF Requests
  <2> HIDE DEF y
  <2>6. Opening(t) \in Seq(Frames)
    BY OpeningTyped
  <2>7. CASE SendOrReject(t, y, Opening(t))
    <3>1. ClientTypes' /\ c2s' \in Seq(Frames)
      BY <1>0, <1>1, <2>5, <2>6, <2>7, SendTyped
    <3> QED
      BY <3>1 DEF ClientTypes
  <2>8. CASE req' = [req EXCEPT ![t] = x] /\ UNCHANGED c2s
    BY <1>0, <2>3, <2>8 DEF ClientTypes, QueueTypes
  <2> QED
    BY <2>4, <2>7, <2>8
<1>5. CASE SendBegin(t)
  <2> DEFINE y == [req[t] EXCEPT !.pc = "begin"]
  <2>1. y \in Requests
    BY <1>0 DEF Requests
  <2>2. SendOrReject(t, y, Opening(t)) /\ Opening(t) \in Seq(Frames)
    BY <1>5, OpeningTyped DEF SendBegin
  <2> HIDE DEF y
  <2>3. ClientTypes' /\ c2s' \in Seq(Frames)
    BY <1>0, <1>1, <2>1, <2>2, SendTyped
  <2> QED
    BY <2>3 DEF ClientTypes
<1>6. CASE Feed(t)
  <2>1. CASE req' = [req EXCEPT ![t] = Finish(@, "rejected")] /\ c2s' = c2s
    BY <1>0, <2>1, FinishFacts DEF ClientTypes, QueueTypes
  <2>2. ASSUME NEW k \in Nat, NEW w \in Seq(0 .. MaxChunks), req[t].sent + k <= ChunkCount(t),
               req' = [req EXCEPT ![t] = Fed(req[t], w, k)],
               c2s' = IF sock = "open"
                        THEN c2s \o ChunkFrames(t, req[t].sent, req[t].sent + k) ELSE c2s
        PROVE  req' \in [Transfers -> Requests] /\ c2s' \in Seq(Frames)
    <3>1. Fed(req[t], w, k) \in Requests
      BY <2>2, FedFacts
    <3>2. /\ req[t].sent \in Nat /\ MaxChunks \in Nat /\ ChunkCount(t) \in 0 .. MaxChunks + 1
          /\ req[t].sent + k <= MaxChunks + 1
      BY <1>0, <2>2, ChunkCountFacts DEF Requests, Parameters
    <3>3. ChunkFrames(t, req[t].sent, req[t].sent + k) \in Seq(Frames)
      BY <3>2, ChunkFramesFacts
    <3>4. c2s \o ChunkFrames(t, req[t].sent, req[t].sent + k) \in Seq(Frames)
      BY <1>0, <3>3, ConcatFacts DEF QueueTypes
    <3> QED
      BY <1>0, <2>2, <3>1, <3>4 DEF ClientTypes, QueueTypes
  <2> QED
    BY <1>6, <2>1, <2>2, FeedShape
<1>7. CASE Drain(t)
  <2> DEFINE y == [req[t] EXCEPT !.pc = "commit", !.window = <<>>]
  <2>1. y \in Requests
    <3>1. <<>> \in Seq(0 .. MaxChunks)
      OBVIOUS
    <3> QED
      BY <1>0, <3>1 DEF Requests
  <2>2. \/ req' = [req EXCEPT ![t] = Finish(@, "rejected")] /\ c2s' = c2s
        \/ SendOrReject(t, y, <<Frame("commit", t, 0)>>)
    BY <1>7 DEF Drain
  <2>3. <<Frame("commit", t, 0)>> \in Seq(Frames)
    <3>1. Frame("commit", t, 0) \in Frames
      BY DEF Frame, Frames, Parameters
    <3> QED
      BY <3>1
  <2> HIDE DEF y
  <2>4. CASE SendOrReject(t, y, <<Frame("commit", t, 0)>>)
    <3>1. ClientTypes' /\ c2s' \in Seq(Frames)
      BY <1>0, <1>1, <2>1, <2>3, <2>4, SendTyped
    <3> QED
      BY <3>1 DEF ClientTypes
  <2>5. CASE req' = [req EXCEPT ![t] = Finish(@, "rejected")] /\ c2s' = c2s
    BY <1>0, <2>5, FinishFacts DEF ClientTypes, QueueTypes
  <2> QED
    BY <2>2, <2>4, <2>5
<1>8. CASE Timeout(t)
  <2>1. c2s' = c2s
    BY <1>8 DEF Timeout
  <2>2. CASE req' = [req EXCEPT ![t] = Finish(@, "rejected")]
    BY <1>0, <2>1, <2>2, FinishFacts DEF ClientTypes, QueueTypes
  <2>3. ASSUME NEW seq \in req[t].waiting,
               req' = [req EXCEPT ![t].waiting = @ \ {seq}, ![t].failed = @ \union {seq}]
        PROVE  req' \in [Transfers -> Requests] /\ c2s' \in Seq(Frames)
    <3> DEFINE y == [req[t] EXCEPT !.waiting = @ \ {seq}, !.failed = @ \union {seq}]
    <3>1. y \in Requests
      BY <1>0 DEF Requests
    <3>2. req' = [req EXCEPT ![t] = y]
      BY <1>0, <2>3 DEF ClientTypes, Requests
    <3> HIDE DEF y
    <3> QED
      BY <1>0, <2>1, <3>1, <3>2 DEF ClientTypes, QueueTypes
  <2> QED
    BY <1>8, <2>2, <2>3 DEF Timeout
<1> QED
  BY <1>4, <1>5, <1>6, <1>7, <1>8 DEF ClientStep

\* A message that arrives, and the close of the socket, keep the types.
LEMMA SocketTyped ==
    ASSUME Parameters, Types, Receive \/ Close
    PROVE  Types'
<1> USE DEF server, file, client
<1>0. ClientTypes /\ QueueTypes /\ ServerTypes /\ FileTypes
  BY TypesSplit
<1>1. ServerTypes' /\ FileTypes'
  BY <1>0 DEF Receive, Close, ServerTypes, FileTypes
<1>2. SUFFICES ClientTypes' /\ QueueTypes'
  BY <1>1, TypesSplit
<1>3. CASE Receive
  <2> DEFINE m == Head(s2c)
  <2>1. m \in Replies /\ m.t \in Transfers /\ Tail(s2c) \in Seq(Replies)
    <3>1. s2c \in Seq(Replies) /\ s2c # <<>>
      BY <1>0, <1>3 DEF Receive, QueueTypes
    <3>2. m \in Replies /\ Tail(s2c) \in Seq(Replies)
      BY <3>1, TailFacts
    <3> QED
      BY <3>2 DEF Replies
  <2>2. req' = [req EXCEPT ![m.t] = OnMessage(req[m.t], m.t, m)]
    BY <1>0, <1>3, <2>1 DEF Receive, ClientTypes
  <2> HIDE DEF m
  <2>3. OnMessage(req[m.t], m.t, m) \in Requests
    BY <1>0, <2>1, OnMessageTyped DEF ClientTypes
  <2> QED
    BY <1>0, <1>3, <2>1, <2>2, <2>3 DEF Receive, ClientTypes, QueueTypes
<1>4. CASE Close
  <2>1. c2s' \in Seq(Frames) /\ s2c' \in Seq(Replies)
    BY <1>0, <1>4, CutFacts DEF Close, QueueTypes
  <2>2. ASSUME NEW t \in Transfers PROVE FailPending(req[t]) \in Requests
    <3>1. req[t] \in Requests
      BY <1>0 DEF ClientTypes
    <3>2. [req[t] EXCEPT !.failed = @ \union req[t].waiting, !.waiting = {}] \in Requests
      BY <3>1 DEF Requests
    <3> QED
      BY <3>1, <3>2, FinishFacts DEF FailPending
  <2> QED
    BY <1>4, <2>1, <2>2 DEF Close, ClientTypes, QueueTypes
<1> QED
  BY <1>3, <1>4

\* Dropping a session, and taking a frame.
LEMMA WithoutTyped ==
    ASSUME ServerTypes, NEW t
    PROVE  /\ DOMAIN Without(t) = DOMAIN sessions \ {t}
           /\ DOMAIN Without(t) \subseteq Chunked
           /\ Without(t) \in [DOMAIN Without(t) -> Seq(Payloads)]
           /\ \A u \in DOMAIN sessions \ {t} : Without(t)[u] = sessions[u]
BY DEF ServerTypes, Without

\* The frame the loop takes.
LEMMA TakesFacts ==
    ASSUME QueueTypes, NEW K, Takes(K)
    PROVE  /\ committing = Nobody /\ c2s # <<>>
           /\ Head(c2s) = c2s[1] /\ c2s[1] \in Frames /\ c2s[1].kind \in K
           /\ c2s' = Tail(c2s) /\ c2s' \in Seq(Frames)
           /\ Len(c2s) \in Nat /\ Len(c2s) >= 1 /\ Len(c2s') = Len(c2s) - 1
           /\ \A i \in 1 .. Len(c2s') : c2s'[i] = c2s[i + 1]
BY TailFacts DEF QueueTypes, Takes

\* The steps of the server keep the types.
LEMMA ServerTyped ==
    ASSUME Parameters, Types, ServerStep
    PROVE  Types'
<1> USE DEF server, file, client
<1>0. ClientTypes /\ QueueTypes /\ ServerTypes /\ FileTypes
  BY TypesSplit
<1>1. ClientTypes'
  BY <1>0 DEF ClientTypes, ServerStep, ServerBegin, ServerHead, ServerData, ServerCommit,
              ServerCheck, ServerRename, ServerEnd
<1>2. SUFFICES QueueTypes' /\ ServerTypes' /\ FileTypes'
  BY <1>1, TypesSplit
<1>z. 0 \in 0 .. MaxChunks /\ <<>> \in Seq(Payloads)
  BY DEF Parameters
<1>3. CASE ServerBegin
  <2>1. c2s[1] \in Frames /\ c2s' \in Seq(Frames) /\ Head(c2s) = c2s[1]
    BY <1>0, <1>3, TakesFacts DEF ServerBegin
  <2> DEFINE t == c2s[1].t
  <2>2. t \in Transfers
    BY <2>1 DEF Frames
  <2>3. \A how \in {"ok", "error", "conflict"}, kind \in {"beginOk", "fsError", "ack", "result"} :
           Reply(kind, t, 0, how) \in Replies
    BY <1>z, <2>2, MessagesTyped
  <2>4. \E m \in Replies : Answer(m)
    BY <1>3, <2>1, <2>3 DEF ServerBegin
  <2>5. s2c' \in Seq(Replies)
    BY <1>0, <2>4, AnswerTyped
  <2>6. \/ sessions' = sessions
        \/ t \in Chunked /\ sessions' = [u \in DOMAIN sessions \union {t} |-> IF u = t THEN <<>> ELSE sessions[u]]
    BY <1>3, <2>1 DEF ServerBegin
  <2>7. ServerTypes'
    BY <1>0, <1>3, <1>z, <2>6 DEF ServerBegin, ServerTypes
  <2> QED
    BY <1>0, <1>3, <2>1, <2>5, <2>7 DEF ServerBegin, QueueTypes, FileTypes
<1>4. CASE ServerHead
  <2>1. c2s[1] \in Frames /\ c2s' \in Seq(Frames) /\ Head(c2s) = c2s[1]
    BY <1>0, <1>4, TakesFacts DEF ServerHead
  <2> DEFINE m == c2s[1]
  <2>2. m.t \in Transfers /\ m.seq \in 0 .. MaxChunks
    BY <2>1 DEF Frames
  <2>3. Payload(m.t, 0) \in Payloads /\ Payload(m.t, m.seq) \in Payloads /\ Reply("fsError", m.t, 0, "error") \in Replies
    BY <1>z, <2>2 DEF Payload, Payloads, Reply, Replies
  <2>4. \/ pending' \in {pending, Payload(m.t, 0), Payload(m.t, m.seq)} /\ sessions' = sessions
        \/ pending' = pending /\ sessions' = Without(m.t)
    BY <1>4, <2>1 DEF ServerHead
  <2>5. s2c' = s2c \/ Answer(Reply("fsError", m.t, 0, "error"))
    BY <1>4, <2>1 DEF ServerHead
  <2>6. s2c' \in Seq(Replies)
    BY <1>0, <2>3, <2>5, AnswerTyped DEF QueueTypes
  <2>7. committing' = committing
    BY <1>4 DEF ServerHead
  <2> HIDE DEF m
  <2>8. ServerTypes'
    BY <1>0, <2>3, <2>4, <2>7, WithoutTyped DEF ServerTypes
  <2> QED
    BY <1>0, <1>4, <2>1, <2>6, <2>8 DEF ServerHead, QueueTypes, FileTypes
<1>5. CASE ServerData
  <2>1. c2s[1] \in Frames /\ c2s' \in Seq(Frames) /\ Head(c2s) = c2s[1]
    BY <1>0, <1>5, TakesFacts DEF ServerData
  <2> DEFINE m == c2s[1]
             payload == IF req[m.t].size = 0 THEN <<>> ELSE <<Payload(m.t, m.seq)>>
             t == IF pending = <<>> THEN Nobody ELSE pending[1]
             data == sessions[t] \o payload
  <2>2. m.t \in Transfers /\ m.seq \in 0 .. MaxChunks
    BY <2>1 DEF Frames
  <2>3. payload \in Seq(Payloads)
    <3>1. Payload(m.t, m.seq) \in Payloads
      BY <2>2 DEF Payload, Payloads
    <3> QED
      BY <1>z, <3>1
  <2>4. \/ sessions' = sessions /\ committing' = committing /\ s2c' = s2c
        \/ t \in Saves /\ committing' = [t |-> t, data |-> payload, checked |-> FALSE] /\ sessions' = sessions /\ s2c' = s2c
        \/ t \in DOMAIN sessions /\ sessions' = [sessions EXCEPT ![t] = data] /\ committing' = committing
              /\ Answer(Reply("ack", t, pending[2], "ok"))
        \/ sessions' = Without(t) /\ committing' = committing /\ s2c' = s2c
    BY <1>5, <2>1 DEF ServerData
  <2>5. t \in DOMAIN sessions => data \in Seq(Payloads)
    BY <1>0, <2>3, ConcatFacts DEF ServerTypes
  <2>6. t \in DOMAIN sessions => Reply("ack", t, pending[2], "ok") \in Replies
    <3>1. t \in DOMAIN sessions => t \in Chunked /\ t # Nobody /\ t \in Transfers
      BY <1>0, Kinds DEF ServerTypes
    <3>2. t # Nobody => pending \in Payloads
      BY <1>0 DEF ServerTypes
    <3>3. pending \in Payloads => pending[2] \in 0 .. MaxChunks
      BY DEF Payloads
    <3> HIDE DEF t
    <3> QED
      BY <3>1, <3>2, <3>3 DEF Reply, Replies
  <2> DEFINE job == [t |-> t, data |-> payload, checked |-> FALSE]
  <2>7. t \in Saves => job \in Jobs
    BY <2>3 DEF Jobs
  <2>8. pending' = <<>>
    BY <1>5 DEF ServerData
  <2> HIDE DEF m, payload, t, data
  <2>9. s2c' \in Seq(Replies)
    BY <1>0, <2>4, <2>6, AnswerTyped DEF QueueTypes
  <2>10. sessions' = sessions \/ sessions' = Without(t) \/ (t \in DOMAIN sessions /\ sessions' = [sessions EXCEPT ![t] = data])
    BY <2>4
  <2>11. committing' = committing \/ (t \in Saves /\ committing' = job)
    BY <2>4
  <2> HIDE DEF job
  <2>12. DOMAIN sessions' \subseteq Chunked /\ sessions' \in [DOMAIN sessions' -> Seq(Payloads)]
    BY <1>0, <2>5, <2>10, WithoutTyped DEF ServerTypes
  <2>13. ServerTypes'
    BY <1>0, <2>7, <2>8, <2>11, <2>12 DEF ServerTypes
  <2> QED
    BY <1>0, <1>5, <2>1, <2>9, <2>13 DEF ServerData, QueueTypes, FileTypes
<1>6. CASE ServerCommit
  <2>1. c2s[1] \in Frames /\ c2s' \in Seq(Frames) /\ Head(c2s) = c2s[1]
    BY <1>0, <1>6, TakesFacts DEF ServerCommit
  <2> DEFINE t == c2s[1].t
             job == [t |-> t, data |-> sessions[t], checked |-> FALSE]
  <2>2. t \in Transfers
    BY <2>1 DEF Frames
  <2>3. /\ \/ Answer(Reply("result", t, 0, "error")) /\ committing' = committing
           \/ s2c' = s2c /\ committing' = job /\ t \in DOMAIN sessions
        /\ sessions' = Without(t) /\ pending' = pending
    BY <1>6, <2>1 DEF ServerCommit
  <2>4. Reply("result", t, 0, "error") \in Replies
    BY <1>z, <2>2 DEF Reply, Replies
  <2>5. t \in DOMAIN sessions => job \in Jobs
    BY <1>0 DEF Jobs, ServerTypes
  <2> HIDE DEF t, job
  <2>6. s2c' \in Seq(Replies)
    BY <1>0, <2>3, <2>4, AnswerTyped DEF QueueTypes
  <2>7. ServerTypes'
    BY <1>0, <2>3, <2>5, WithoutTyped DEF ServerTypes
  <2> QED
    BY <1>0, <1>6, <2>1, <2>6, <2>7 DEF ServerCommit, QueueTypes, FileTypes
<1>7. CASE ServerCheck
  <2>1. committing \in Jobs /\ committing # Nobody
    BY <1>0, <1>7 DEF ServerCheck, ServerTypes
  <2> DEFINE t == committing.t
             job == [committing EXCEPT !.checked = TRUE]
  <2>2. t \in Transfers /\ job \in Jobs
    BY <2>1, Kinds DEF Jobs
  <2>3. \A how \in {"conflict", "error"} : Reply("result", t, 0, how) \in Replies
    BY <1>z, <2>2 DEF Reply, Replies
  <2>4. /\ c2s' = c2s /\ sessions' = sessions /\ pending' = pending
        /\ committing' \in {job, Nobody}
        /\ s2c' = s2c \/ \E how \in {"conflict", "error"} : Answer(Reply("result", t, 0, how))
    BY <1>7 DEF ServerCheck
  <2> HIDE DEF t, job
  <2>5. s2c' \in Seq(Replies)
    BY <1>0, <2>3, <2>4, AnswerTyped DEF QueueTypes
  <2>6. ServerTypes'
    BY <1>0, <2>2, <2>4 DEF ServerTypes
  <2> QED
    BY <1>0, <1>7, <2>4, <2>5, <2>6 DEF ServerCheck, QueueTypes, FileTypes
<1>8. CASE ServerRename
  <2>1. committing \in Jobs /\ committing # Nobody
    BY <1>0, <1>8 DEF ServerRename, ServerTypes
  <2> DEFINE t == committing.t
  <2>2. t \in Transfers
    BY <2>1, Kinds DEF Jobs
  <2>3. Reply("result", t, 0, "ok") \in Replies
    BY <1>z, <2>2 DEF Reply, Replies
  <2>4. s2c' \in Seq(Replies)
    BY <1>0, <1>8, <2>3, AnswerTyped DEF ServerRename
  <2>5. c2s' = c2s /\ sessions' = sessions /\ pending' = pending /\ committing' = Nobody
    BY <1>8 DEF ServerRename
  <2>6. ServerTypes'
    BY <1>0, <2>5 DEF ServerTypes
  <2>7. FileTypes'
    BY <1>0, <1>8, <2>2 DEF ServerRename, FileTypes
  <2> QED
    BY <1>0, <2>4, <2>5, <2>6, <2>7 DEF QueueTypes
<1>9. CASE ServerEnd
  BY <1>0, <1>9 DEF ServerEnd, QueueTypes, ServerTypes, FileTypes
<1> QED
  BY <1>3, <1>4, <1>5, <1>6, <1>7, <1>8, <1>9 DEF ServerStep

\* Every step keeps the types.
LEMMA TypesStep ==
    ASSUME Parameters, Types, \A t \in Transfers : Phase(t) /\ WindowIsLast(t), [FilesNext]_filesVars
    PROVE  Types'
<1> USE DEF server, file, client
<1>1. CASE ExternalChange \/ Tick \/ UNCHANGED filesVars
  <2>1. ClientTypes /\ QueueTypes /\ ServerTypes /\ FileTypes
    BY TypesSplit
  <2>2. ClientTypes' /\ QueueTypes' /\ ServerTypes'
    BY <1>1, <2>1 DEF ExternalChange, Tick, filesVars, ClientTypes, QueueTypes, ServerTypes
  <2>3. FileTypes'
    BY <1>1, <2>1 DEF ExternalChange, Tick, filesVars, FileTypes, Parameters
  <2> QED
    BY <2>2, <2>3, TypesSplit
<1> QED
  BY <1>1, ClientTyped, SocketTyped, ServerTyped DEF FilesNext

-----------------------------------------------------------------------------
(***************************************************************************)
(* The moves of the client.  y is what the step makes of the request x of  *)
(* t: it chooses a size, opens the request, gives up, sends chunks, sends  *)
(* the commit, or a chunk timed out.                                       *)
(***************************************************************************)
Chooses(t, x, y) ==
    /\ x.pc = "idle" /\ y.pc = "resolve" /\ (t \in Saves => y.size = 1)
    /\ y.result = x.result /\ y.sent = x.sent /\ y.window = x.window
    /\ c2s' = c2s

Opens(t, x, y) ==
    /\ (x.pc = "resolve" /\ y.size = x.size) \/ (x.pc = "idle" /\ t \in Reads)
    /\ y.pc = "begin"
    /\ y.result = x.result /\ y.sent = x.sent /\ y.window = x.window
    /\ sock = "open" /\ c2s' = c2s \o Opening(t)

GivesUp(t, x, y) ==
    /\ x.pc \notin {"done", "unsettled"} /\ (x.pc = "idle" => t \in Reads)
    /\ y.pc = "done" /\ y.result = "rejected" /\ y.size = x.size /\ y.sent = x.sent
    /\ c2s' = c2s

Feeds(t, x, y) ==
    /\ x.pc = "chunks"
    /\ \E k \in Nat, w \in Seq(0 .. MaxChunks) :
          /\ x.sent + k <= ChunkCount(t) /\ Len(w) + k <= WindowSize
          /\ \/ w = x.window
             \/ /\ Len(x.window) = WindowSize /\ w = Tail(x.window)
                /\ Head(x.window) \notin x.waiting \union x.failed
          /\ y = Fed(x, w, k)
          /\ c2s' = IF sock = "open" THEN c2s \o ChunkFrames(t, x.sent, x.sent + k) ELSE c2s

SendsCommit(t, x, y) ==
    /\ x.pc = "chunks" /\ y.pc = "commit"
    /\ y.result = x.result /\ y.size = x.size /\ y.sent = x.sent
    /\ sock = "open" /\ c2s' = c2s \o <<Frame("commit", t, 0)>>

Rests(x, y) ==
    /\ y.pc = x.pc /\ y.result = x.result /\ y.size = x.size /\ y.sent = x.sent
    /\ y.window = x.window /\ y.waiting \union y.failed = x.waiting \union x.failed

ClientMove(t, x, y) ==
    \/ Chooses(t, x, y) \/ Opens(t, x, y) \/ GivesUp(t, x, y) \/ Feeds(t, x, y)
    \/ SendsCommit(t, x, y) \/ (Rests(x, y) /\ c2s' = c2s)

\* Every step of the client is one of them.
LEMMA ClientMoves ==
    ASSUME Parameters, Types, NEW t \in Transfers, Phase(t), WindowIsLast(t),
           Start(t) \/ ClientStep(t) \/ Timeout(t)
    PROVE  /\ UNCHANGED <<sock, s2c, sessions, pending, committing, disk, rev, committed, unseen, clock>>
           /\ \E y \in Requests : req' = [req EXCEPT ![t] = y] /\ ClientMove(t, req[t], y)
<1> USE DEF server, file, client
<1>0. req \in [Transfers -> Requests] /\ req[t] \in Requests /\ Finish(req[t], "rejected") \in Requests
  BY RequestTyped, FinishFacts
<1>1. UNCHANGED <<sock, s2c, sessions, pending, committing, disk, rev, committed, unseen, clock>>
  BY DEF Start, ClientStep, SendBegin, Feed, Drain, Timeout
<1>2. SUFFICES \E y \in Requests : req' = [req EXCEPT ![t] = y] /\ ClientMove(t, req[t], y)
  BY <1>1
<1>r. ASSUME req[t].pc \notin {"done", "unsettled"}, req[t].pc = "idle" => t \in Reads,
             req' = [req EXCEPT ![t] = Finish(@, "rejected")], c2s' = c2s
      PROVE  \E y \in Requests : req' = [req EXCEPT ![t] = y] /\ ClientMove(t, req[t], y)
  <2>1. req' = [req EXCEPT ![t] = Finish(req[t], "rejected")]
    BY <1>0, <1>r
  <2>2. GivesUp(t, req[t], Finish(req[t], "rejected"))
    BY <1>0, <1>r, FinishFacts DEF GivesUp
  <2> QED
    BY <1>0, <2>1, <2>2 DEF ClientMove
<1>4. CASE Start(t)
  <2>0. req[t].pc = "idle"
    BY <1>4 DEF Start
  <2>1. PICK n \in IF t \in Chunked THEN 0 .. MaxChunks ELSE {1} :
          LET x == [req[t] EXCEPT !.pc = "resolve", !.size = n,
                                  !.expect = disk.mtime, !.base = rev]
          IN  IF t \in Reads
                THEN SendOrReject(t, [x EXCEPT !.pc = "begin"], Opening(t))
                ELSE req' = [req EXCEPT ![t] = x] /\ UNCHANGED c2s
    BY <1>4 DEF Start
  <2> DEFINE x == [req[t] EXCEPT !.pc = "resolve", !.size = n, !.expect = disk.mtime, !.base = rev]
             y == [x EXCEPT !.pc = "begin"]
  <2>2. n \in 0 .. MaxChunks + 1 /\ (t \in Saves => n = 1)
    BY Kinds DEF Parameters
  <2>3. x \in Requests
    BY <1>0, <2>2 DEF Requests, Types, FilesTypeOK
  <2>4. /\ x.pc = "resolve" /\ x.size = n
        /\ x.result = req[t].result /\ x.sent = req[t].sent /\ x.window = req[t].window
    BY <1>0 DEF Requests
  <2>5. \/ t \in Reads /\ SendOrReject(t, y, Opening(t))
        \/ req' = [req EXCEPT ![t] = x] /\ c2s' = c2s
    BY <2>1
  <2> HIDE DEF x
  <2>6. /\ y \in Requests /\ y.pc = "begin"
        /\ y.result = x.result /\ y.sent = x.sent /\ y.window = x.window
    BY <2>3 DEF Requests
  <2> HIDE DEF y
  <2>7. CASE req' = [req EXCEPT ![t] = x] /\ c2s' = c2s
    BY <2>0, <2>2, <2>3, <2>4, <2>7 DEF ClientMove, Chooses
  <2>8. CASE t \in Reads /\ sock = "open" /\ req' = [req EXCEPT ![t] = y] /\ c2s' = c2s \o Opening(t)
    BY <2>0, <2>4, <2>6, <2>8 DEF ClientMove, Opens
  <2>9. CASE t \in Reads /\ req' = [req EXCEPT ![t] = Finish(@, "rejected")] /\ c2s' = c2s
    BY <1>r, <2>0, <2>9
  <2> QED
    BY <2>5, <2>7, <2>8, <2>9 DEF SendOrReject
<1>5. CASE SendBegin(t)
  <2> DEFINE y == [req[t] EXCEPT !.pc = "begin"]
  <2>1. /\ y \in Requests /\ y.pc = "begin" /\ y.size = req[t].size
        /\ y.result = req[t].result /\ y.sent = req[t].sent /\ y.window = req[t].window
    BY <1>0 DEF Requests
  <2>2. SendOrReject(t, y, Opening(t)) /\ req[t].pc = "resolve"
    BY <1>5 DEF SendBegin
  <2> HIDE DEF y
  <2>3. CASE sock = "open" /\ req' = [req EXCEPT ![t] = y] /\ c2s' = c2s \o Opening(t)
    BY <2>1, <2>2, <2>3 DEF ClientMove, Opens
  <2>4. CASE req' = [req EXCEPT ![t] = Finish(@, "rejected")] /\ c2s' = c2s
    BY <1>r, <2>2, <2>4
  <2> QED
    BY <2>2, <2>3, <2>4 DEF SendOrReject
<1>6. CASE Feed(t)
  <2>1. req[t].pc = "chunks"
    BY <1>6, FeedShape
  <2>2. CASE req' = [req EXCEPT ![t] = Finish(@, "rejected")] /\ c2s' = c2s
    BY <1>r, <2>1, <2>2
  <2>3. ASSUME NEW k \in Nat, NEW w \in Seq(0 .. MaxChunks),
               req[t].sent + k <= ChunkCount(t), Len(w) + k <= WindowSize,
               \/ w = req[t].window
               \/ /\ Len(req[t].window) = WindowSize /\ w = Tail(req[t].window)
                  /\ Head(req[t].window) \notin req[t].waiting \union req[t].failed,
               req' = [req EXCEPT ![t] = Fed(req[t], w, k)],
               c2s' = IF sock = "open"
                        THEN c2s \o ChunkFrames(t, req[t].sent, req[t].sent + k) ELSE c2s
        PROVE  \E y \in Requests : req' = [req EXCEPT ![t] = y] /\ ClientMove(t, req[t], y)
    <3>1. Fed(req[t], w, k) \in Requests
      BY <2>3, FedFacts
    <3>2. Feeds(t, req[t], Fed(req[t], w, k))
      BY <2>1, <2>3 DEF Feeds
    <3> QED
      BY <2>3, <3>1, <3>2 DEF ClientMove
  <2> QED
    BY <1>6, <2>2, <2>3, FeedShape
<1>7. CASE Drain(t)
  <2> DEFINE y == [req[t] EXCEPT !.pc = "commit", !.window = <<>>]
  <2>1. y \in Requests
    <3>1. <<>> \in Seq(0 .. MaxChunks)
      OBVIOUS
    <3> QED
      BY <1>0, <3>1 DEF Requests
  <2>2. y.pc = "commit" /\ y.result = req[t].result /\ y.size = req[t].size /\ y.sent = req[t].sent
    BY <1>0 DEF Requests
  <2>3. req[t].pc = "chunks"
    BY <1>7 DEF Drain
  <2>4. \/ req' = [req EXCEPT ![t] = Finish(@, "rejected")] /\ c2s' = c2s
        \/ SendOrReject(t, y, <<Frame("commit", t, 0)>>)
    BY <1>7 DEF Drain
  <2> HIDE DEF y
  <2>5. CASE sock = "open" /\ req' = [req EXCEPT ![t] = y] /\ c2s' = c2s \o <<Frame("commit", t, 0)>>
    BY <2>1, <2>2, <2>3, <2>5 DEF ClientMove, SendsCommit
  <2>6. CASE req' = [req EXCEPT ![t] = Finish(@, "rejected")] /\ c2s' = c2s
    BY <1>r, <2>3, <2>6
  <2> QED
    BY <2>4, <2>5, <2>6 DEF SendOrReject
<1>8. CASE Timeout(t)
  <2>1. c2s' = c2s
    BY <1>8 DEF Timeout
  <2>2. CASE req[t].pc \in {"begin", "commit"} /\ req' = [req EXCEPT ![t] = Finish(@, "rejected")]
    BY <1>r, <2>1, <2>2
  <2>3. ASSUME NEW seq \in req[t].waiting,
               req' = [req EXCEPT ![t].waiting = @ \ {seq}, ![t].failed = @ \union {seq}]
        PROVE  \E y \in Requests : req' = [req EXCEPT ![t] = y] /\ ClientMove(t, req[t], y)
    <3> DEFINE y == [req[t] EXCEPT !.waiting = @ \ {seq}, !.failed = @ \union {seq}]
    <3>1. y \in Requests
      BY <1>0 DEF Requests
    <3>2. req' = [req EXCEPT ![t] = y]
      BY <1>0, <2>3 DEF Requests
    <3>3. Rests(req[t], y)
      BY <1>0 DEF Requests, Rests
    <3> HIDE DEF y
    <3> QED
      BY <2>1, <3>1, <3>2, <3>3 DEF ClientMove
  <2> QED
    BY <1>8, <2>2, <2>3 DEF Timeout
<1> QED
  BY <1>4, <1>5, <1>6, <1>7, <1>8 DEF ClientStep

\* The moves of a message that arrives.
Told(t, x, y, m) ==
    \/ y = x
    \/ /\ m.kind = "beginOk" /\ x.pc = "begin" /\ y.pc = "chunks"
       /\ y.result = x.result /\ y.size = x.size /\ y.sent = x.sent /\ y.window = x.window
    \/ /\ m.kind = "ack" /\ y.pc = x.pc
       /\ y.result = x.result /\ y.size = x.size /\ y.sent = x.sent /\ y.window = x.window
       /\ y.failed = x.failed /\ y.waiting = x.waiting \ {m.seq}
    \/ /\ m.kind = "result" \/ t \in Reads
       /\ x.pc \in {"begin", "commit"} /\ (x.pc = "begin" => t \notin Chunked)
       /\ y.size = x.size /\ y.sent = x.sent
       /\ \/ y.pc = "unsettled" /\ y.result = x.result
          \/ y.pc = "done" /\ y.result \in {"ok", "error"} /\ (t \notin Reads => y.result = m.how)

\* Every message that arrives makes one of them of its request.
LEMMA ReceiveMoves ==
    ASSUME Parameters, Types, Receive
    PROVE  /\ UNCHANGED <<sock, c2s, sessions, pending, committing, disk, rev, committed, unseen, clock>>
           /\ s2c[1] \in Replies /\ s2c[1].t \in Transfers
           /\ Len(s2c) \in Nat /\ Len(s2c) >= 1 /\ Len(s2c') = Len(s2c) - 1
           /\ \A i \in 1 .. Len(s2c') : s2c'[i] = s2c[i + 1]
           /\ \E y \in Requests : /\ req' = [req EXCEPT ![s2c[1].t] = y]
                                  /\ Told(s2c[1].t, req[s2c[1].t], y, s2c[1])
<1> USE DEF server, file, client
<1> DEFINE m == s2c[1]
           t == m.t
           x == req[t]
           y == OnMessage(x, t, m)
<1>1. s2c \in Seq(Replies) /\ s2c # <<>>
  BY DEF Receive, Types
<1>2. /\ m \in Replies /\ Head(s2c) = m
      /\ Len(s2c) \in Nat /\ Len(s2c) >= 1 /\ Len(Tail(s2c)) = Len(s2c) - 1
      /\ \A i \in 1 .. Len(Tail(s2c)) : Tail(s2c)[i] = s2c[i + 1]
  BY <1>1, TailFacts
<1>3. t \in Transfers /\ m.kind \in {"beginOk", "fsError", "ack", "result"} /\ m.how \in {"ok", "error", "conflict"}
  BY <1>2 DEF Replies
<1>4. req' = [req EXCEPT ![t] = y] /\ s2c' = Tail(s2c)
  BY <1>2, <1>3, RequestTyped DEF Receive
<1>5. UNCHANGED <<sock, c2s, sessions, pending, committing, disk, rev, committed, unseen, clock>>
  BY DEF Receive
<1>6. x \in Requests
  BY <1>3, RequestTyped
<1>7. y \in Requests
  BY <1>2, <1>3, <1>6, OnMessageTyped
<1>k. t \in Reads => t \notin Chunked
  BY Kinds
<1>8. Told(t, x, y, m)
  <2> HIDE DEF m, t, x
  <2>1. CASE m.kind = "beginOk"
    <3>1. y = x \/ (x.pc = "begin" /\ y = [x EXCEPT !.pc = "chunks"])
      BY <2>1 DEF OnMessage
    <3> QED
      BY <1>6, <2>1, <3>1 DEF Told, Requests
  <2>2. CASE m.kind = "fsError"
    <3>1. y = x \/ (x.pc = "begin" /\ t \in Reads /\ y = Finish(x, "error"))
      BY <2>2 DEF OnMessage
    <3> QED
      BY <1>6, <1>k, <2>2, <3>1, FinishFacts DEF Told
  <2>3. CASE m.kind = "ack"
    <3>1. y = [x EXCEPT !.waiting = @ \ {m.seq}]
      BY <2>3 DEF OnMessage
    <3> QED
      BY <1>6, <2>3, <3>1 DEF Told, Requests
  <2>4. CASE m.kind = "result"
    <3>1. \/ y = x
          \/ /\ x.pc = (IF t \in Chunked THEN "commit" ELSE "begin")
             /\ \/ m.how = "conflict" /\ y = [x EXCEPT !.pc = "unsettled"]
                \/ m.how \in {"ok", "error"} /\ y = Finish(x, m.how)
      BY <1>3, <2>4 DEF OnMessage
    <3>2. CASE y = x
      BY <3>2 DEF Told
    <3>3. CASE x.pc = (IF t \in Chunked THEN "commit" ELSE "begin") /\ y = [x EXCEPT !.pc = "unsettled"]
      BY <1>6, <2>4, <3>3 DEF Told, Requests
    <3>4. CASE x.pc = (IF t \in Chunked THEN "commit" ELSE "begin") /\ m.how \in {"ok", "error"} /\ y = Finish(x, m.how)
      BY <1>6, <2>4, <3>4, FinishFacts DEF Told
    <3> QED
      BY <3>1, <3>2, <3>3, <3>4
  <2> QED
    BY <1>3, <2>1, <2>2, <2>3, <2>4
<1> HIDE DEF y
<1> QED
  BY <1>2, <1>3, <1>4, <1>5, <1>7, <1>8

\* The close of the socket fails every request that waits.
Failed(x, y) ==
    \/ Rests(x, y)
    \/ /\ x.pc \in {"begin", "commit"} /\ y.pc = "done" /\ y.result = "rejected"
       /\ y.size = x.size /\ y.sent = x.sent

\* It cuts the queue to the server at its end and drops the other one.
LEMMA CloseMoves ==
    ASSUME Parameters, Types, Close
    PROVE  /\ UNCHANGED <<sessions, pending, committing, disk, rev, committed, unseen, clock>>
           /\ sock = "open" /\ sock' = "closed" /\ s2c' = <<>>
           /\ Len(c2s) \in Nat /\ Len(c2s') \in Nat /\ Len(c2s') <= Len(c2s)
           /\ \A i \in 1 .. Len(c2s') : c2s'[i] = c2s[i]
           /\ \A t \in Transfers : Failed(req[t], req'[t])
<1> USE DEF server, file, client
<1>1. /\ UNCHANGED <<sessions, pending, committing, disk, rev, committed, unseen, clock>>
      /\ sock = "open" /\ sock' = "closed" /\ s2c' = <<>>
  BY DEF Close
<1>2. PICK n \in 0 .. Len(c2s) : c2s' = SubSeq(c2s, 1, n)
  BY DEF Close
<1>3. c2s \in Seq(Frames) /\ Len(c2s) \in Nat
  BY DEF Types
<1>4. Len(c2s') = n /\ \A i \in 1 .. n : c2s'[i] = c2s[i]
  BY <1>2, <1>3, CutFacts
<1>5. ASSUME NEW t \in Transfers PROVE Failed(req[t], req'[t])
  <2>1. req[t] \in Requests /\ req'[t] = FailPending(req[t])
    BY RequestTyped DEF Close
  <2> DEFINE y == [req[t] EXCEPT !.failed = @ \union req[t].waiting, !.waiting = {}]
  <2>2. Rests(req[t], y)
    BY <2>1 DEF Rests, Requests
  <2>3. req'[t] = y \/ (req[t].pc \in {"begin", "commit"} /\ req'[t] = Finish(req[t], "rejected"))
    BY <2>1 DEF FailPending
  <2> HIDE DEF y
  <2> QED
    BY <2>1, <2>2, <2>3, FinishFacts DEF Failed
<1> QED
  BY <1>1, <1>2, <1>3, <1>4, <1>5

-----------------------------------------------------------------------------
(* Phases *)

\* The other steps leave the client alone.
LEMMA ServerMoves ==
    ASSUME ServerStep \/ ExternalChange \/ Tick \/ UNCHANGED filesVars
    PROVE  req' = req /\ sock' = sock
BY DEF ServerStep, ServerBegin, ServerHead, ServerData, ServerCommit, ServerCheck, ServerRename,
       ServerEnd, ExternalChange, Tick, filesVars, client

\* What a move makes of a request that has started: it stays started, with its size.
Fixed == \A t \in Transfers : Started(t) => Started(t)' /\ req'[t].size = req[t].size

\* Every step keeps the phases, and the sizes of what has started.
LEMMA RequestsStep ==
    ASSUME Parameters, Types, \A t \in Transfers : Phase(t) /\ WindowIsLast(t), Replied, [FilesNext]_filesVars
    PROVE  Fixed /\ \A t \in Transfers : Phase(t)'
<1>1. ASSUME NEW t \in Transfers, Start(t) \/ ClientStep(t) \/ Timeout(t)
      PROVE  Fixed /\ \A u \in Transfers : Phase(u)'
  <2>1. PICK y \in Requests : req' = [req EXCEPT ![t] = y] /\ ClientMove(t, req[t], y)
    BY <1>1, ClientMoves
  <2>2. req \in [Transfers -> Requests] /\ req[t] \in Requests
    BY RequestTyped
  <2>3. req'[t] = y /\ \A u \in Transfers \ {t} : req'[u] = req[u]
    BY <2>1, <2>2
  <2>4. \A u \in Transfers \ {t} : Phase(u)' /\ (Started(u) => Started(u)' /\ req'[u].size = req[u].size)
    BY <2>3 DEF Phase, Started, ChunkCount
  <2>5. Phase(t)' /\ (Started(t) => Started(t)' /\ req'[t].size = req[t].size)
    <3>0. t \in Reads => t \notin Saves /\ t \notin Chunked
      BY Kinds
    <3>t. req[t].sent \in Nat /\ req[t].size \in Nat /\ y.size \in Nat
      BY <2>2 DEF Requests, Parameters
    <3>1. CASE Chooses(t, req[t], y)
      BY <2>3, <3>1, <3>t DEF Chooses, Phase, Started, ChunkCount
    <3>2. CASE Opens(t, req[t], y)
      BY <2>3, <3>0, <3>2, <3>t DEF Opens, Phase, Started, ChunkCount
    <3>3. CASE GivesUp(t, req[t], y)
      BY <2>3, <3>0, <3>3 DEF GivesUp, Phase, Started, ChunkCount
    <3>4. CASE Feeds(t, req[t], y)
      <4>1. PICK k \in Nat, w \in Seq(0 .. MaxChunks) : req[t].sent + k <= ChunkCount(t) /\ y = Fed(req[t], w, k)
        BY <3>4 DEF Feeds
      <4>2. y.pc = req[t].pc /\ y.result = req[t].result /\ y.size = req[t].size /\ y.sent = req[t].sent + k
        BY <4>1, FedFacts
      <4>3. req[t].pc = "chunks"
        BY <3>4 DEF Feeds
      <4> QED
        BY <2>3, <4>1, <4>2, <4>3 DEF Phase, Started, ChunkCount
    <3>5. CASE SendsCommit(t, req[t], y)
      BY <2>3, <3>5 DEF SendsCommit, Phase, Started, ChunkCount
    <3>6. CASE Rests(req[t], y)
      BY <2>3, <3>6 DEF Rests, Phase, Started, ChunkCount
    <3> QED
      BY <2>1, <3>1, <3>2, <3>3, <3>4, <3>5, <3>6 DEF ClientMove
  <2> QED
    BY <2>4, <2>5 DEF Fixed
<1>2. CASE Receive
  <2>1. PICK r \in Transfers, y \in Requests, m \in Replies :
           /\ req' = [req EXCEPT ![r] = y] /\ Told(r, req[r], y, m)
           /\ m.kind = "beginOk" => r \in Chunked
    BY <1>2, ReceiveMoves DEF Replied
  <2>2. req'[r] = y /\ \A u \in Transfers \ {r} : req'[u] = req[u]
    BY <2>1, RequestTyped
  <2>3. \A u \in Transfers \ {r} : Phase(u)' /\ (Started(u) => Started(u)' /\ req'[u].size = req[u].size)
    BY <2>2 DEF Phase, Started, ChunkCount
  <2>4. Phase(r)' /\ (Started(r) => Started(r)' /\ req'[r].size = req[r].size)
    <3> DEFINE x == req[r]
    <3>0. Phase(r)
      OBVIOUS
    <3>1. CASE y = x
      BY <2>2, <3>0, <3>1 DEF Phase, Started, ChunkCount
    <3>2. CASE /\ m.kind = "beginOk" /\ x.pc = "begin" /\ y.pc = "chunks"
               /\ y.result = x.result /\ y.size = x.size /\ y.sent = x.sent
      BY <2>1, <2>2, <3>0, <3>2 DEF Phase, Started, ChunkCount
    <3>3. CASE /\ y.pc = x.pc /\ y.result = x.result /\ y.size = x.size /\ y.sent = x.sent
               /\ y.window = x.window
      BY <2>2, <3>0, <3>3 DEF Phase, Started, ChunkCount
    <3>4. CASE /\ x.pc \in {"begin", "commit"} /\ y.size = x.size /\ y.sent = x.sent
               /\ y.pc = "done" \/ (y.pc = "unsettled" /\ y.result = x.result)
      BY <2>2, <3>0, <3>4 DEF Phase, Started, ChunkCount
    <3> QED
      BY <2>1, <3>1, <3>2, <3>3, <3>4 DEF Told
  <2> QED
    BY <2>3, <2>4 DEF Fixed
<1>3. CASE Close
  <2>1. \A t \in Transfers : Failed(req[t], req'[t])
    BY <1>3, CloseMoves
  <2> QED
    BY <2>1 DEF Failed, Rests, Phase, Started, ChunkCount, Fixed
<1>4. CASE ServerStep \/ ExternalChange \/ Tick \/ UNCHANGED filesVars
  BY <1>4, ServerMoves DEF Phase, Started, ChunkCount, Fixed
<1> QED
  BY <1>1, <1>2, <1>3, <1>4 DEF FilesNext

-----------------------------------------------------------------------------
(* The queue to the server *)

\* A step that sends nothing: frames leave the queue at its head or, when the
\* socket closes, at its end.
Shrinks ==
    \E d \in Nat :
        /\ Len(c2s') + d <= Len(c2s)
        /\ \A i \in 1 .. Len(c2s') : c2s'[i] = c2s[i + d]
        /\ sock' = "closed" \/ (sock' = sock /\ Len(c2s') + d = Len(c2s))

\* An unchanged queue.
LEMMA SameShrinks ==
    ASSUME Types, c2s' = c2s, sock' = sock
    PROVE  Shrinks
<1>1. Len(c2s) \in Nat /\ 0 \in Nat /\ \A i \in 1 .. Len(c2s) : i + 0 = i
  BY DEF Types
<1> QED
  BY <1>1 DEF Shrinks

\* The loop takes a frame.
LEMMA TailShrinks ==
    ASSUME Types, NEW K, Takes(K), sock' = sock
    PROVE  Shrinks
<1>1. /\ Len(c2s) \in Nat /\ Len(c2s) >= 1 /\ Len(c2s') = Len(c2s) - 1
      /\ \A i \in 1 .. Len(c2s') : c2s'[i] = c2s[i + 1]
  BY TakesFacts, TypesSplit
<1> QED
  BY <1>1, 1 \in Nat DEF Shrinks

\* Only the steps of a request send.
LEMMA OthersShrink ==
    ASSUME Parameters, Types, Receive \/ Close \/ ServerStep \/ ExternalChange \/ Tick \/ UNCHANGED filesVars
    PROVE  Shrinks
<1>1. CASE Receive
  BY <1>1, ReceiveMoves, SameShrinks
<1>2. CASE Close
  <2>1. /\ sock' = "closed" /\ Len(c2s) \in Nat /\ Len(c2s') \in Nat /\ Len(c2s') <= Len(c2s)
        /\ \A i \in 1 .. Len(c2s') : c2s'[i] = c2s[i]
    BY <1>2, CloseMoves
  <2>2. 0 \in Nat /\ \A i \in 1 .. Len(c2s') : i + 0 = i
    BY <2>1
  <2> QED
    BY <2>1, <2>2 DEF Shrinks
<1>3. CASE ServerBegin \/ ServerHead \/ ServerData \/ ServerCommit
  <2>1. sock' = sock
    BY <1>3, ServerMoves DEF ServerStep
  <2> QED
    BY <1>3, <2>1, TailShrinks DEF ServerBegin, ServerHead, ServerData, ServerCommit
<1>4. CASE ServerCheck \/ ServerRename \/ ServerEnd \/ ExternalChange \/ Tick \/ UNCHANGED filesVars
  BY <1>4, SameShrinks DEF ServerCheck, ServerRename, ServerEnd, ExternalChange, Tick, filesVars, client
<1> QED
  BY <1>1, <1>2, <1>3, <1>4 DEF ServerStep

\* A shrinking queue stays well formed.
LEMMA WireShrinks ==
    ASSUME Types, Types', Wire, Fixed, Shrinks
    PROVE  Wire'
<1>1. PICK d \in Nat :
        /\ Len(c2s') + d <= Len(c2s)
        /\ \A i \in 1 .. Len(c2s') : c2s'[i] = c2s[i + d]
        /\ sock' = "closed" \/ (sock' = sock /\ Len(c2s') + d = Len(c2s))
  BY DEF Shrinks
<1>2. Len(c2s) \in Nat /\ Len(c2s') \in Nat /\ \A i \in 1 .. Len(c2s) : c2s[i].t \in Transfers
  <2>1. Len(c2s') \in Nat
    BY DEF Types
  <2> QED
    BY <2>1, Queues
<1> SUFFICES ASSUME NEW i \in 1 .. Len(c2s')
             PROVE  Started(c2s[i].t)' /\ Proper(c2s[i])' /\ Paired(c2s, i)'
  BY DEF Wire
<1>3. i + d \in 1 .. Len(c2s) /\ c2s'[i] = c2s[i + d]
  BY <1>1, <1>2
<1>4. Started(c2s[i + d].t) /\ Proper(c2s[i + d]) /\ Paired(c2s, i + d)
  BY <1>3 DEF Wire
<1>5. Started(c2s[i].t)'
  BY <1>2, <1>3, <1>4 DEF Fixed, Started
<1>6. Proper(c2s[i])'
  BY <1>3, <1>4 DEF Proper
<1>7. Paired(c2s, i)'
  <2> SUFFICES ASSUME c2s'[i].kind = "head"
               PROVE  \/ i < Len(c2s') /\ c2s'[i + 1] = Frame("data", c2s'[i].t, c2s'[i].seq)
                      \/ i = Len(c2s') /\ sock' = "closed"
    BY DEF Paired
  <2>1. \/ i + d < Len(c2s) /\ c2s[(i + d) + 1] = Frame("data", c2s[i + d].t, c2s[i + d].seq)
        \/ i + d = Len(c2s) /\ sock = "closed"
    BY <1>3, <1>4 DEF Paired
  <2>2. CASE i < Len(c2s')
    <3>1. i + 1 \in 1 .. Len(c2s') /\ (i + 1) + d = (i + d) + 1 /\ i + d < Len(c2s)
      BY <1>1, <1>2, <2>2
    <3>2. c2s'[i + 1] = c2s[(i + d) + 1]
      BY <1>1, <3>1
    <3>3. i + d # Len(c2s)
      BY <3>1, <1>2
    <3> QED
      BY <1>3, <2>1, <2>2, <3>2, <3>3
  <2>3. CASE i = Len(c2s')
    <3>1. CASE sock' = sock /\ Len(c2s') + d = Len(c2s)
      BY <1>1, <1>2, <2>1, <2>3, <3>1
    <3> QED
      BY <1>1, <2>3, <3>1
  <2> QED
    BY <1>2, <2>2, <2>3
<1> QED
  BY <1>5, <1>6, <1>7

\* Frames that the client sends together.
Batch(fs, t) ==
    \A i \in 1 .. Len(fs) :
        /\ fs[i].t = t /\ Proper(fs[i])
        /\ fs[i].kind = "head" => i < Len(fs) /\ fs[i + 1] = Frame("data", fs[i].t, fs[i].seq)

\* A batch behind a queue that is whole keeps it well formed.
LEMMA WireGrows ==
    ASSUME Types, Wire, Fixed, NEW t \in Transfers, Started(t)',
           NEW fs \in Seq(Frames), Batch(fs, t), sock = "open", sock' = sock, c2s' = c2s \o fs
    PROVE  Wire'
<1>1. c2s \in Seq(Frames) /\ \A i \in 1 .. Len(c2s) : c2s[i].t \in Transfers
  BY Queues
<1>2. /\ Len(c2s') = Len(c2s) + Len(fs) /\ Len(c2s) \in Nat /\ Len(fs) \in Nat
      /\ \A i \in 1 .. Len(c2s) : c2s'[i] = c2s[i]
      /\ \A i \in Len(c2s) + 1 .. Len(c2s) + Len(fs) : c2s'[i] = fs[i - Len(c2s)]
  BY <1>1, ConcatFacts
<1> SUFFICES ASSUME NEW i \in 1 .. Len(c2s')
             PROVE  Started(c2s[i].t)' /\ Proper(c2s[i])' /\ Paired(c2s, i)'
  BY DEF Wire
<1>3. CASE i \in 1 .. Len(c2s)
  <2>1. Started(c2s[i].t) /\ Proper(c2s[i]) /\ Paired(c2s, i) /\ c2s'[i] = c2s[i]
    BY <1>2, <1>3 DEF Wire
  <2>2. Started(c2s[i].t)' /\ Proper(c2s[i])'
    BY <1>1, <1>3, <2>1 DEF Fixed, Started, Proper
  <2>3. c2s[i].kind = "head" => i < Len(c2s) /\ c2s[i + 1] = Frame("data", c2s[i].t, c2s[i].seq)
    BY <2>1 DEF Paired
  <2>4. i < Len(c2s) => i + 1 \in 1 .. Len(c2s) /\ c2s'[i + 1] = c2s[i + 1] /\ i < Len(c2s')
    BY <1>2, <1>3
  <2> QED
    BY <2>1, <2>2, <2>3, <2>4 DEF Paired
<1>4. CASE i \in Len(c2s) + 1 .. Len(c2s) + Len(fs)
  <2> DEFINE j == i - Len(c2s)
  <2>1. j \in 1 .. Len(fs) /\ c2s'[i] = fs[j]
    BY <1>2, <1>4
  <2>2. Started(c2s[i].t)' /\ Proper(c2s[i])'
    BY <2>1 DEF Batch, Started, Proper
  <2>3. fs[j].kind = "head" => j < Len(fs) /\ fs[j + 1] = Frame("data", fs[j].t, fs[j].seq)
    BY <2>1 DEF Batch
  <2>4. j < Len(fs) => /\ i + 1 \in Len(c2s) + 1 .. Len(c2s) + Len(fs) /\ i < Len(c2s')
                       /\ (i + 1) - Len(c2s) = j + 1
    BY <1>2, <1>4
  <2>5. j < Len(fs) => c2s'[i + 1] = fs[j + 1]
    BY <1>2, <2>4
  <2> HIDE DEF j
  <2> QED
    BY <2>1, <2>2, <2>3, <2>4, <2>5 DEF Paired
<1> QED
  BY <1>2, <1>3, <1>4

\* The batches of the client.
LEMMA Batches ==
    ASSUME Parameters, Types, NEW t \in Transfers
    PROVE  /\ Batch(Opening(t), t)
           /\ t \in Chunked => Batch(<<Frame("commit", t, 0)>>, t)
           /\ \A k \in Nat : t \in Chunked /\ req[t].sent + k <= ChunkCount(t) =>
                 LET fs == ChunkFrames(t, req[t].sent, req[t].sent + k)
                 IN  fs \in Seq(Frames) /\ Batch(fs, t)
<1>0. 0 \in Nat /\ 1 \in Nat /\ MaxChunks \in Nat /\ 0 + 1 <= MaxChunks + 1
  BY DEF Parameters
<1>1. t \notin Saves => Batch(<<Frame("begin", t, 0)>>, t)
  <2> DEFINE fs == <<Frame("begin", t, 0)>>
  <2>1. Len(fs) = 1 /\ fs[1].kind = "begin" /\ fs[1].t = t /\ fs[1].seq = 0
    BY DEF Frame
  <2> HIDE DEF fs
  <2> QED
    BY <2>1 DEF Batch, Proper, fs
<1>2. t \in Chunked => Batch(<<Frame("commit", t, 0)>>, t)
  <2> DEFINE fs == <<Frame("commit", t, 0)>>
  <2>1. Len(fs) = 1 /\ fs[1].kind = "commit" /\ fs[1].t = t /\ fs[1].seq = 0
    BY DEF Frame
  <2> HIDE DEF fs
  <2> QED
    BY <2>1 DEF Batch, Proper, fs
<1>3. t \in Saves => Batch(ChunkFrames(t, 0, 0 + 1), t)
  <2>1. PICK n \in Nat, k \in Nat : n = 0 /\ k = 1
    BY <1>0
  <2>2. n + k <= MaxChunks + 1
    BY <1>0, <2>1
  <2> DEFINE fs == ChunkFrames(t, n, n + k)
  <2>3. /\ Len(fs) = 2 * k
        /\ \A i \in 1 .. 2 * k :
                 /\ fs[i].kind \in {"head", "data"} /\ fs[i].t = t
                 /\ fs[i].seq \in Nat /\ fs[i].seq < n + k
                 /\ fs[i].kind = "head" =>
                       i < 2 * k /\ fs[i + 1] = Frame("data", t, fs[i].seq)
    BY <1>0, <2>2, ChunkFramesFacts
  <2> HIDE DEF fs
  <2>4. \A i \in 1 .. 2 * k : fs[i].seq = 0
    BY <2>1, <2>3
  <2>5. t \in Saves => Batch(fs, t)
    BY <2>3, <2>4 DEF Batch, Proper
  <2> QED
    BY <2>1, <2>5 DEF fs
<1>4. ASSUME NEW k \in Nat, t \in Chunked, req[t].sent + k <= ChunkCount(t)
      PROVE  LET fs == ChunkFrames(t, req[t].sent, req[t].sent + k)
             IN  fs \in Seq(Frames) /\ Batch(fs, t)
  <2>1. PICK n \in Nat : n = req[t].sent
    BY RequestTyped DEF Requests, Parameters
  <2>2. n + k <= MaxChunks + 1
    BY <1>0, <1>4, <2>1, ChunkCountFacts
  <2> DEFINE fs == ChunkFrames(t, n, n + k)
  <2>3. /\ fs \in Seq(Frames) /\ Len(fs) = 2 * k
        /\ \A i \in 1 .. 2 * k :
                 /\ fs[i].kind \in {"head", "data"} /\ fs[i].t = t
                 /\ fs[i].kind = "head" =>
                       i < 2 * k /\ fs[i + 1] = Frame("data", t, fs[i].seq)
    BY <1>0, <2>2, ChunkFramesFacts
  <2>4. t \notin Saves
    BY <1>4, Kinds
  <2> HIDE DEF fs
  <2>5. Batch(fs, t)
    BY <1>4, <2>3, <2>4 DEF Batch, Proper
  <2> QED
    BY <2>1, <2>3, <2>5 DEF fs
<1> QED
  BY <1>1, <1>2, <1>3, <1>4, OpeningTyped

\* What a step of the client does to the queue: nothing, or it adds a batch.
LEMMA ClientQueue ==
    ASSUME Parameters, Types, NEW t \in Transfers, Phase(t), NEW y \in Requests,
           ClientMove(t, req[t], y), sock' = sock
    PROVE  \/ c2s' = c2s /\ Shrinks
           \/ /\ sock = "open" /\ y.pc # "idle"
              /\ \E fs \in Seq(Frames) : Batch(fs, t) /\ c2s' = c2s \o fs
<1>1. CASE c2s' = c2s
  BY <1>1, SameShrinks
<1>2. CASE Opens(t, req[t], y)
  BY <1>2, Batches, OpeningTyped DEF Opens
<1>3. CASE Feeds(t, req[t], y)
  <2>1. PICK k \in Nat, w \in Seq(0 .. MaxChunks) :
          /\ req[t].sent + k <= ChunkCount(t) /\ y = Fed(req[t], w, k)
          /\ c2s' = IF sock = "open" THEN c2s \o ChunkFrames(t, req[t].sent, req[t].sent + k) ELSE c2s
    BY <1>3 DEF Feeds
  <2>2. req[t].pc = "chunks" /\ t \in Chunked
    BY <1>3 DEF Feeds, Phase
  <2>3. y.pc = "chunks"
    BY <2>1, <2>2, FedFacts
  <2> QED
    BY <1>1, <2>1, <2>2, <2>3, Batches
<1>4. CASE SendsCommit(t, req[t], y)
  <2>1. t \in Chunked
    BY <1>4 DEF SendsCommit, Phase
  <2>2. <<Frame("commit", t, 0)>> \in Seq(Frames)
    <3>1. Frame("commit", t, 0) \in Frames
      BY DEF Frame, Frames, Parameters
    <3> QED
      BY <3>1
  <2> QED
    BY <1>4, <2>1, <2>2, Batches DEF SendsCommit
<1> QED
  BY <1>1, <1>2, <1>3, <1>4 DEF ClientMove, Chooses, GivesUp

\* Every step keeps the queue in order.
LEMMA WireStep ==
    ASSUME Parameters, Types, Types', \A t \in Transfers : Phase(t) /\ WindowIsLast(t),
           Wire, Fixed, [FilesNext]_filesVars
    PROVE  Wire'
<1>1. ASSUME NEW t \in Transfers, Start(t) \/ ClientStep(t) \/ Timeout(t)
      PROVE  Wire'
  <2>1. PICK y \in Requests : req' = [req EXCEPT ![t] = y] /\ ClientMove(t, req[t], y)
    BY <1>1, ClientMoves
  <2>2. sock' = sock
    BY <1>1, ClientMoves
  <2>3. req'[t] = y
    BY <2>1, RequestTyped
  <2>4. CASE Shrinks
    BY <2>4, WireShrinks
  <2>5. ASSUME sock = "open", y.pc # "idle",
               NEW fs \in Seq(Frames), Batch(fs, t), c2s' = c2s \o fs
        PROVE  Wire'
    <3>1. Started(t)'
      BY <2>3, <2>5 DEF Started
    <3> QED
      BY <2>2, <2>5, <3>1, WireGrows
  <2> QED
    BY <2>1, <2>2, <2>4, <2>5, ClientQueue
<1> QED
  BY <1>1, OthersShrink, WireShrinks DEF FilesNext

\* Every step sends "go on" to chunked requests only.
LEMMA RepliedStep ==
    ASSUME Parameters, Types, Types', \A t \in Transfers : Phase(t) /\ WindowIsLast(t),
           Replied, [FilesNext]_filesVars
    PROVE  Replied'
<1>0. s2c \in Seq(Replies) /\ Len(s2c) \in Nat
  BY Queues
<1>1. CASE s2c' = s2c
  BY <1>1 DEF Replied
<1>2. CASE Receive
  BY <1>2, ReceiveMoves DEF Replied
<1>3. CASE Close
  BY <1>3, CloseMoves DEF Replied
<1>4. ASSUME NEW m, Answer(m), m.kind = "beginOk" => m.t \in Chunked
      PROVE  Replied'
  <2>1. CASE sock = "open"
    <3>1. s2c' = Append(s2c, m)
      BY <1>4, <2>1 DEF Answer
    <3>2. /\ Len(s2c') = Len(s2c) + 1 /\ s2c'[Len(s2c) + 1] = m
          /\ \A i \in 1 .. Len(s2c) : s2c'[i] = s2c[i]
      BY <1>0, <3>1
    <3> QED
      BY <1>0, <1>4, <3>2 DEF Replied
  <2> QED
    BY <1>1, <1>4, <2>1 DEF Answer
<1>5. ASSUME NEW t \in Transfers, Start(t) \/ ClientStep(t) \/ Timeout(t)
      PROVE  Replied'
  BY <1>1, <1>5, ClientMoves
<1>6. CASE ServerStep
  <2>1. \/ s2c' = s2c
        \/ \E t, n, how : \E kind \in {"fsError", "ack", "result"} : Answer(Reply(kind, t, n, how))
        \/ \E t \in Chunked : Answer(Reply("beginOk", t, 0, "ok"))
    BY <1>6 DEF ServerStep, ServerBegin, ServerHead, ServerData, ServerCommit, ServerCheck, ServerRename, ServerEnd
  <2> QED
    BY <1>1, <1>4, <2>1 DEF Reply
<1>7. CASE ExternalChange \/ Tick \/ UNCHANGED filesVars
  BY <1>1, <1>7 DEF ExternalChange, Tick, filesVars
<1> QED
  BY <1>2, <1>3, <1>5, <1>6, <1>7 DEF FilesNext

-----------------------------------------------------------------------------
(* The header slot and the content *)

\* The slot is empty unless the next frame is a binary one.
LEMMA SlotEmpty ==
    ASSUME Types, Slot, c2s # <<>>, c2s[1].kind # "data"
    PROVE  pending = <<>>
<1>1. Head(c2s) = c2s[1]
  BY Queues, TailFacts
<1> QED
  BY <1>1 DEF Slot, Frame

\* What the server makes of a binary frame: the frame belongs to its header.
LEMMA DataMoves ==
    ASSUME Parameters, Types, \A t \in Transfers : Phase(t), Wire, Slot, ServerData
    PROVE  LET m == c2s[1]
               payload == IF req[m.t].size = 0 THEN <<>> ELSE <<Payload(m.t, m.seq)>>
           IN  /\ m.kind = "data" /\ m.t \in Transfers /\ pending' = <<>>
               /\ \/ UNCHANGED <<sessions, committing, s2c>>
                  \/ /\ m.t \in Saves /\ UNCHANGED <<sessions, s2c>>
                     /\ committing' = [t |-> m.t, data |-> <<Payload(m.t, 0)>>, checked |-> FALSE]
                     /\ req[m.t].size = 1
                  \/ /\ m.t \in DOMAIN sessions /\ m.seq = NextSeq(m.t)
                     /\ Len(sessions[m.t] \o payload) <= req[m.t].size
                     /\ sessions' = [sessions EXCEPT ![m.t] = sessions[m.t] \o payload]
                     /\ Answer(Reply("ack", m.t, m.seq, "ok")) /\ UNCHANGED committing
                  \/ sessions' = Without(m.t) /\ UNCHANGED <<committing, s2c>>
<1> DEFINE m == c2s[1]
           payload == IF req[m.t].size = 0 THEN <<>> ELSE <<Payload(m.t, m.seq)>>
           t == IF pending = <<>> THEN Nobody ELSE pending[1]
<1>1. /\ c2s # <<>> /\ Head(c2s) = m /\ m.kind = "data" /\ m.t \in Transfers /\ pending' = <<>>
      /\ 1 \in 1 .. Len(c2s)
  <2>1. Takes({"data"}) /\ pending' = <<>>
    BY DEF ServerData
  <2> QED
    BY <2>1, TakesFacts, TypesSplit, Queues
<1>2. DOMAIN sessions \subseteq Chunked /\ Nobody \notin DOMAIN sessions \union Saves
  BY TypesSplit, Kinds DEF ServerTypes
<1>3. \/ UNCHANGED <<sessions, committing, s2c>>
      \/ /\ t \in Saves /\ committing' = [t |-> t, data |-> payload, checked |-> FALSE]
         /\ UNCHANGED <<sessions, s2c>>
      \/ /\ t \in DOMAIN sessions
         /\ Len(sessions[t] \o payload) <= req[t].size /\ (t \in Puts => pending[2] = NextSeq(t))
         /\ sessions' = [sessions EXCEPT ![t] = sessions[t] \o payload]
         /\ Answer(Reply("ack", t, pending[2], "ok")) /\ UNCHANGED committing
      \/ t \in DOMAIN sessions /\ sessions' = Without(t) /\ UNCHANGED <<committing, s2c>>
  BY <1>1 DEF ServerData
<1>4. CASE UNCHANGED <<sessions, committing, s2c>>
  BY <1>1, <1>4
<1>5. CASE t \in DOMAIN sessions \union Saves
  <2>1. pending # <<>> /\ t = pending[1]
    BY <1>2, <1>5
  <2>2. m = Frame("data", pending[1], pending[2])
    BY <1>1, <2>1 DEF Slot
  <2>3. t = m.t /\ pending[2] = m.seq
    BY <2>1, <2>2 DEF Frame
  <2>4. t \in Saves => m.seq = 0 /\ req[m.t].size = 1
    BY <1>1, <2>3 DEF Wire, Proper, Phase
  <2>5. t \in DOMAIN sessions \ Puts => pending[2] = NextSeq(t)
    BY <2>1 DEF Slot
  <2>6. CASE t \in Saves /\ committing' = [t |-> t, data |-> payload, checked |-> FALSE] /\ UNCHANGED <<sessions, s2c>>
    <3>1. payload = <<Payload(m.t, 0)>>
      BY <2>4, <2>6
    <3> QED
      BY <1>1, <2>3, <2>4, <2>6, <3>1
  <2> HIDE DEF t, payload
  <2>7. CASE /\ t \in DOMAIN sessions
             /\ Len(sessions[t] \o payload) <= req[t].size /\ (t \in Puts => pending[2] = NextSeq(t))
             /\ sessions' = [sessions EXCEPT ![t] = sessions[t] \o payload]
             /\ Answer(Reply("ack", t, pending[2], "ok")) /\ UNCHANGED committing
    <3>1. m.seq = NextSeq(m.t)
      BY <2>3, <2>5, <2>7
    <3>2. /\ m.t \in DOMAIN sessions
          /\ Len(sessions[m.t] \o payload) <= req[m.t].size
          /\ sessions' = [sessions EXCEPT ![m.t] = sessions[m.t] \o payload]
          /\ Answer(Reply("ack", m.t, m.seq, "ok")) /\ UNCHANGED committing
      BY <2>3, <2>7
    <3> HIDE DEF m
    <3> QED
      BY <1>1, <3>1, <3>2 DEF payload, m
  <2>8. CASE t \in DOMAIN sessions /\ sessions' = Without(t) /\ UNCHANGED <<committing, s2c>>
    BY <1>1, <2>3, <2>8
  <2> QED
    BY <1>3, <1>4, <2>6, <2>7, <2>8
<1> QED
  BY <1>3, <1>4, <1>5

\* A step that leaves the slot alone and takes no frame keeps it.
LEMMA SlotKept ==
    ASSUME Types, Types', Content, Slot, Fixed, pending' = pending, sessions' = sessions,
           \/ c2s' = c2s /\ sock' = sock
           \/ sock' = "closed" /\ Len(c2s') <= Len(c2s) /\ \A i \in 1 .. Len(c2s') : c2s'[i] = c2s[i]
           \/ sock = "open" /\ \E fs \in Seq(Frames) : c2s' = c2s \o fs
    PROVE  Slot'
<1> SUFFICES ASSUME pending # <<>>
             PROVE  /\ \/ c2s' = <<>> /\ sock' = "closed"
                       \/ c2s' # <<>> /\ Head(c2s') = Frame("data", pending[1], pending[2])
                    /\ pending[1] \in DOMAIN sessions \ Puts => pending[2] = NextSeq(pending[1])'
  BY DEF Slot
<1>1. /\ \/ c2s = <<>> /\ sock = "closed"
         \/ c2s # <<>> /\ Head(c2s) = Frame("data", pending[1], pending[2])
      /\ pending[1] \in DOMAIN sessions \ Puts => pending[2] = NextSeq(pending[1])
  BY DEF Slot
<1>2. pending[1] \in DOMAIN sessions \ Puts => pending[2] = NextSeq(pending[1])'
  <2>1. DOMAIN sessions \subseteq Transfers
    BY TypesSplit DEF ServerTypes, Transfers
  <2>2. pending[1] \in DOMAIN sessions => req'[pending[1]].size = req[pending[1]].size
    BY <2>1 DEF Content, Fixed
  <2> QED
    BY <1>1, <2>2 DEF NextSeq
<1>3. /\ c2s \in Seq(Frames) /\ Len(c2s) \in Nat /\ (c2s # <<>> => Head(c2s) = c2s[1] /\ Len(c2s) >= 1)
      /\ c2s' \in Seq(Frames) /\ Len(c2s') \in Nat /\ (c2s' # <<>> => Head(c2s') = c2s'[1] /\ Len(c2s') >= 1)
  <2>1. c2s' \in Seq(Frames)
    BY DEF Types
  <2> QED
    BY <2>1, Queues, TailFacts
<1>4. CASE c2s' = c2s /\ sock' = sock
  BY <1>1, <1>2, <1>4
<1>5. CASE sock' = "closed" /\ Len(c2s') <= Len(c2s) /\ \A i \in 1 .. Len(c2s') : c2s'[i] = c2s[i]
  <2>1. c2s' # <<>> => c2s # <<>> /\ Head(c2s') = Head(c2s)
    BY <1>3, <1>5
  <2> QED
    BY <1>1, <1>2, <1>5, <2>1
<1>6. CASE sock = "open" /\ \E fs \in Seq(Frames) : c2s' = c2s \o fs
  <2>1. c2s # <<>>
    BY <1>1, <1>6
  <2>2. c2s'[1] = c2s[1] /\ Len(c2s') >= 1
    BY <1>3, <1>6, <2>1, ConcatFacts
  <2> QED
    BY <1>1, <1>2, <1>3, <2>1, <2>2
<1> QED
  BY <1>4, <1>5, <1>6

\* Every step keeps the slot in step with the queue.
LEMMA SlotStep ==
    ASSUME Parameters, Types, Types', \A t \in Transfers : Phase(t) /\ WindowIsLast(t),
           Wire, Slot, Content, Fixed, [FilesNext]_filesVars
    PROVE  Slot'
<1> USE DEF server, file, client
<1>1. ASSUME NEW t \in Transfers, Start(t) \/ ClientStep(t) \/ Timeout(t)
      PROVE  Slot'
  <2>1. /\ sock' = sock /\ pending' = pending /\ sessions' = sessions
        /\ \E y \in Requests : ClientMove(t, req[t], y)
    BY <1>1, ClientMoves
  <2>2. c2s' = c2s \/ (sock = "open" /\ \E fs \in Seq(Frames) : c2s' = c2s \o fs)
    BY <2>1, ClientQueue
  <2> QED
    BY <2>1, <2>2, SlotKept
<1>2. CASE Receive
  BY <1>2, ReceiveMoves, SlotKept
<1>3. CASE Close
  BY <1>3, CloseMoves, SlotKept
<1>4. CASE ServerBegin \/ ServerCommit
  <2>1. c2s # <<>> /\ c2s[1].kind \in {"begin", "commit"} /\ pending' = pending
    BY <1>4, TakesFacts, TypesSplit DEF ServerBegin, ServerCommit
  <2> QED
    BY <2>1, SlotEmpty DEF Slot
<1>5. CASE ServerHead
  <2> DEFINE m == c2s[1]
  <2>1. /\ c2s # <<>> /\ m.kind = "head" /\ Head(c2s) = m
        /\ Len(c2s) \in Nat /\ Len(c2s) >= 1 /\ Len(c2s') = Len(c2s) - 1 /\ c2s' \in Seq(Frames)
        /\ \A i \in 1 .. Len(c2s') : c2s'[i] = c2s[i + 1]
    <3>1. Takes({"head"})
      BY <1>5 DEF ServerHead
    <3> QED
      BY <3>1, TakesFacts, TypesSplit
  <2>2. pending = <<>> /\ Proper(m) /\ Paired(c2s, 1) /\ m.t \in Transfers
    BY <2>1, SlotEmpty, Queues DEF Wire
  <2>3. sock' = sock /\ req' = req
    BY <1>5 DEF ServerHead
  <2>4. \/ c2s' = <<>> /\ sock' = "closed"
        \/ c2s' # <<>> /\ Head(c2s') = Frame("data", m.t, m.seq)
    <3>0. \/ 1 < Len(c2s) /\ c2s[1 + 1] = Frame("data", m.t, m.seq)
          \/ 1 = Len(c2s) /\ sock = "closed"
      BY <2>1, <2>2 DEF Paired
    <3>1. CASE 1 < Len(c2s) /\ c2s[1 + 1] = Frame("data", m.t, m.seq)
      <4>1. Len(c2s') >= 1 /\ c2s'[1] = c2s[1 + 1]
        BY <2>1, <3>1
      <4>2. c2s' # <<>> /\ Head(c2s') = c2s'[1]
        BY <2>1, <4>1
      <4> QED
        BY <3>1, <4>1, <4>2
    <3>2. CASE 1 = Len(c2s) /\ sock = "closed"
      <4>1. Len(c2s') = 0 /\ c2s' \in Seq(Frames)
        <5>1. Len(c2s') = Len(c2s) - 1 /\ Len(c2s) = 1 /\ c2s' \in Seq(Frames)
          BY <2>1, <3>2
        <5> QED
          BY <5>1
      <4>2. c2s' = <<>>
        BY <4>1
      <4> QED
        BY <2>3, <3>2, <4>2
    <3> QED
      BY <3>0, <3>1, <3>2
  <2>5. DOMAIN sessions \subseteq Chunked
    BY TypesSplit DEF ServerTypes
  <2>6. \/ pending' = <<>>
        \/ /\ pending' = Payload(m.t, m.seq) /\ sessions' = sessions
           /\ m.t \in DOMAIN sessions \ Puts => m.seq = NextSeq(m.t)
    <3>1. CASE /\ m.t \in Saves /\ (pending' = Payload(m.t, 0) \/ UNCHANGED pending) /\ UNCHANGED sessions
      <4>1. m.seq = 0 /\ m.t \notin Chunked
        BY <2>2, <3>1, Kinds DEF Proper
      <4> QED
        BY <2>2, <2>5, <3>1, <4>1
    <3>2. CASE m.t \in Puts /\ pending' = Payload(m.t, m.seq) /\ UNCHANGED sessions
      BY <3>2
    <3>3. CASE /\ m.t \in Writes \union Uploads
               /\ IF m.t \in DOMAIN sessions /\ m.seq = NextSeq(m.t)
                     THEN pending' = Payload(m.t, m.seq) /\ UNCHANGED sessions
                     ELSE sessions' = Without(m.t) /\ UNCHANGED pending
      BY <2>2, <3>3
    <3> QED
      BY <1>5, <2>1, <3>1, <3>2, <3>3 DEF ServerHead
  <2>7. CASE /\ pending' = Payload(m.t, m.seq) /\ sessions' = sessions
             /\ m.t \in DOMAIN sessions \ Puts => m.seq = NextSeq(m.t)
    <3>1. pending'[1] = m.t /\ pending'[2] = m.seq
      BY <2>7 DEF Payload
    <3>3. pending'[1] \in DOMAIN sessions' \ Puts => pending'[2] = (IF req'[pending'[1]].size = 0 THEN 0 ELSE Len(sessions'[pending'[1]]))
      BY <2>3, <2>7, <3>1 DEF NextSeq
    <3> HIDE DEF m
    <3> QED
      BY <2>4, <3>1, <3>3 DEF Slot, NextSeq
  <2> QED
    BY <2>6, <2>7 DEF Slot
<1>6. CASE ServerData
  BY <1>6 DEF ServerData, Slot
<1>7. CASE ServerEnd
  BY <1>7 DEF ServerEnd, Slot
<1>8. CASE ServerCheck \/ ServerRename \/ ExternalChange \/ Tick \/ UNCHANGED filesVars
  <2>1. pending' = pending /\ sessions' = sessions /\ c2s' = c2s /\ sock' = sock
    BY <1>8 DEF ServerCheck, ServerRename, ExternalChange, Tick, filesVars
  <2> QED
    BY <2>1, SlotKept
<1> QED
  BY <1>1, <1>2, <1>3, <1>4, <1>5, <1>6, <1>7, <1>8 DEF FilesNext, ServerStep

\* A beginning as long as the content is the content.
LEMMA BeginningWhole ==
    ASSUME Types, NEW t \in DOMAIN sessions, Beginning(t, sessions[t]),
           Len(sessions[t]) = req[t].size
    PROVE  sessions[t] = Whole(t)
<1>1. sessions[t] \in Seq(Payloads)
  BY DEF Types
<1>2. sessions[t] = [i \in 1 .. Len(sessions[t]) |-> sessions[t][i]]
  BY <1>1
<1>3. \A i \in 1 .. Len(sessions[t]) : sessions[t][i] = Payload(t, i - 1)
  BY DEF Beginning
<1> QED
  BY <1>2, <1>3 DEF Whole

\* A chunk more is a beginning again.
LEMMA BeginningGrows ==
    ASSUME Parameters, Types, NEW t \in DOMAIN sessions, Beginning(t, sessions[t]), NEW n, n = NextSeq(t),
           NEW payload, payload = (IF req[t].size = 0 THEN <<>> ELSE <<Payload(t, n)>>),
           Len(sessions[t] \o payload) <= req[t].size
    PROVE  Beginning(t, sessions[t] \o payload)
<1>1. PICK s : s = sessions[t]
  OBVIOUS
<1>2. s \in Seq(Payloads) /\ Len(s) \in Nat
  BY <1>1 DEF Types
<1>3. t \in Transfers /\ req[t].size \in Nat
  BY TypesSplit, Kinds, RequestTyped DEF ServerTypes, Requests, Parameters
<1>4. Len(s) <= req[t].size /\ \A i \in 1 .. Len(s) : s[i] = Payload(t, i - 1)
  BY <1>1 DEF Beginning
<1>5. CASE req[t].size = 0
  <2>1. s \o payload = s
    BY <1>2, <1>5
  <2> QED
    BY <1>1, <1>4, <2>1 DEF Beginning
<1>6. CASE req[t].size # 0
  <2>1. payload = <<Payload(t, n)>> /\ n = Len(s)
    BY <1>1, <1>6 DEF NextSeq
  <2>2. /\ Len(s \o payload) = Len(s) + 1 /\ (s \o payload)[Len(s) + 1] = Payload(t, n)
        /\ \A i \in 1 .. Len(s) : (s \o payload)[i] = s[i]
    <3>1. PICK e : e = Payload(t, n)
      OBVIOUS
    <3>2. PICK S : S = Payloads \union {e}
      OBVIOUS
    <3>3. s \in Seq(S) /\ payload \in Seq(S) /\ Len(payload) = 1 /\ payload[1] = e
      <4>1. Payloads \subseteq S /\ e \in S
        BY <3>2
      <4>2. s \in Seq(S)
        BY <1>2, <4>1
      <4>3. payload = <<e>>
        BY <2>1, <3>1
      <4>4. <<e>> \in Seq(S) /\ Len(<<e>>) = 1 /\ <<e>>[1] = e
        BY <4>1
      <4> QED
        BY <4>2, <4>3, <4>4
    <3>4. (Len(s) + 1) - Len(s) = 1 /\ Len(s) + 1 \in Len(s) + 1 .. Len(s) + 1
      BY <1>2
    <3> QED
      BY <3>1, <3>3, <3>4, ConcatFacts
  <2>3. (Len(s) + 1) - 1 = n
    BY <1>2, <2>1
  <2>4. \A i \in 1 .. Len(s) + 1 : (s \o payload)[i] = Payload(t, i - 1)
    BY <1>2, <1>4, <2>2, <2>3
  <2> QED
    BY <1>1, <2>2, <2>4 DEF Beginning
<1> QED
  BY <1>5, <1>6

\* The three parts of Content.
Stored == \A t \in DOMAIN sessions : Started(t) /\ Beginning(t, sessions[t])
JobWhole == committing # Nobody => Started(committing.t) /\ committing.data = Whole(committing.t)
FileWhole == disk.owner # Nobody => Started(disk.owner) /\ disk.data = Whole(disk.owner)

\* They are all of it.
LEMMA ContentSplit ==
    (Content <=> Stored /\ JobWhole /\ FileWhole) /\ (Content' <=> Stored' /\ JobWhole' /\ FileWhole')
BY DEF Content, Stored, JobWhole, FileWhole

\* Each is kept where its variable is.
LEMMA StoredKept ==
    ASSUME Types, Stored, Fixed, sessions' = sessions PROVE Stored'
<1>1. DOMAIN sessions \subseteq Transfers
  BY TypesSplit DEF ServerTypes, Transfers
<1> QED
  BY <1>1 DEF Stored, Fixed, Beginning, Started

\* A session that is dropped leaves the others.
LEMMA StoredWithout ==
    ASSUME Types, Stored, Fixed, NEW t, sessions' = Without(t) PROVE Stored'
<1>1. DOMAIN sessions \subseteq Transfers /\ ServerTypes
  BY TypesSplit DEF ServerTypes, Transfers
<1>2. DOMAIN sessions' = DOMAIN sessions \ {t} /\ \A u \in DOMAIN sessions \ {t} : sessions'[u] = sessions[u]
  BY <1>1, WithoutTyped
<1> QED
  BY <1>1, <1>2 DEF Stored, Fixed, Beginning, Started

\* The job of the loop, with its check or gone.
LEMMA JobKept ==
    ASSUME Parameters, Types, JobWhole, Fixed, committing' # Nobody => committing # Nobody /\ committing'.t = committing.t /\ committing'.data = committing.data
    PROVE  JobWhole'
<1>1. committing # Nobody => committing.t \in Transfers
  BY Kinds DEF Types, Jobs
<1> QED
  BY <1>1 DEF JobWhole, Fixed, Whole, Started

\* The file nobody touches.
LEMMA FileKept ==
    ASSUME Parameters, Types, FileWhole, Fixed, disk' = disk PROVE FileWhole'
<1>1. disk.owner # Nobody => disk.owner \in Transfers
  BY DEF Types, FilesTypeOK
<1> QED
  BY <1>1 DEF FileWhole, Fixed, Whole, Started

\* Every step keeps the content.
LEMMA ContentStep ==
    ASSUME Parameters, Types, Types', \A t \in Transfers : Phase(t) /\ WindowIsLast(t),
           Wire, Slot, Content, Fixed, [FilesNext]_filesVars
    PROVE  Content'
<1> USE DEF server, file, client
<1>0. Stored /\ JobWhole /\ FileWhole
  BY ContentSplit
<1>1. CASE UNCHANGED <<sessions, committing, disk>>
  BY <1>0, <1>1, StoredKept, JobKept, FileKept, ContentSplit
<1>2. ASSUME NEW t \in Transfers, Start(t) \/ ClientStep(t) \/ Timeout(t)
      PROVE  Content'
  BY <1>1, <1>2, ClientMoves
<1>3. CASE Receive \/ Close
  BY <1>1, <1>3 DEF Receive, Close
<1>4. CASE ServerBegin
  <2>1. /\ c2s # <<>> /\ Head(c2s) = c2s[1] /\ 1 \in 1 .. Len(c2s) /\ c2s[1].t \in Transfers
    <3>1. Takes({"begin"})
      BY <1>4 DEF ServerBegin
    <3> QED
      BY <3>1, TakesFacts, TypesSplit, Queues
  <2>2. PICK t : t = c2s[1].t
    OBVIOUS
  <2>3. \/ sessions' = sessions
        \/ sessions' = [u \in DOMAIN sessions \union {t} |-> IF u = t THEN <<>> ELSE sessions[u]]
    BY <1>4, <2>1, <2>2 DEF ServerBegin
  <2>4. Started(t) /\ t \in Transfers /\ req' = req /\ req[t].size \in Nat
    BY <1>4, <2>1, <2>2, RequestTyped DEF Wire, ServerBegin, Requests, Parameters
  <2>5. Stored'
    <3>1. CASE sessions' = [u \in DOMAIN sessions \union {t} |-> IF u = t THEN <<>> ELSE sessions[u]]
      <4>1. \A u \in DOMAIN sessions' : u = t \/ (u \in DOMAIN sessions /\ sessions'[u] = sessions[u])
        BY <3>1
      <4>2. t \in DOMAIN sessions' /\ sessions'[t] = <<>>
        BY <3>1
      <4>3. Started(t)' /\ Beginning(t, <<>>)'
        BY <2>4 DEF Started, Beginning
      <4> QED
        BY <1>0, <2>4, <4>1, <4>2, <4>3 DEF Stored, Started, Beginning
    <3> QED
      BY <1>0, <2>3, <3>1, StoredKept
  <2>6. committing' = committing /\ disk' = disk
    BY <1>4 DEF ServerBegin
  <2> QED
    BY <1>0, <2>5, <2>6, JobKept, FileKept, ContentSplit
<1>5. CASE ServerHead
  <2>1. (sessions' = sessions \/ \E t : sessions' = Without(t)) /\ committing' = committing /\ disk' = disk
    BY <1>5 DEF ServerHead
  <2> QED
    BY <1>0, <2>1, StoredKept, StoredWithout, JobKept, FileKept, ContentSplit
<1>6. CASE ServerData
  <2>0. disk' = disk /\ req' = req
    BY <1>6 DEF ServerData
  <2>1. PICK m : m = c2s[1]
    OBVIOUS
  <2>2. PICK payload : payload = IF req[m.t].size = 0 THEN <<>> ELSE <<Payload(m.t, m.seq)>>
    OBVIOUS
  <2>3. /\ m.t \in Transfers
        /\ \/ UNCHANGED <<sessions, committing>>
           \/ /\ sessions' = sessions /\ req[m.t].size = 1
              /\ committing' = [t |-> m.t, data |-> <<Payload(m.t, 0)>>, checked |-> FALSE]
           \/ /\ m.t \in DOMAIN sessions /\ m.seq = NextSeq(m.t) /\ UNCHANGED committing
              /\ Len(sessions[m.t] \o payload) <= req[m.t].size
              /\ sessions' = [sessions EXCEPT ![m.t] = sessions[m.t] \o payload]
           \/ sessions' = Without(m.t) /\ UNCHANGED committing
    BY <1>6, <2>1, <2>2, DataMoves
  <2>4. Started(m.t)
    <3>1. Takes({"data"})
      BY <1>6 DEF ServerData
    <3>2. 1 \in 1 .. Len(c2s)
      BY <3>1, TakesFacts, TypesSplit
    <3> QED
      BY <2>1, <3>2 DEF Wire
  <2>5. CASE UNCHANGED <<sessions, committing>>
    BY <1>1, <2>0, <2>5
  <2>6. CASE /\ sessions' = sessions /\ req[m.t].size = 1
             /\ committing' = [t |-> m.t, data |-> <<Payload(m.t, 0)>>, checked |-> FALSE]
    <3>1. committing'.t = m.t /\ committing'.data = <<Payload(m.t, 0)>>
      BY <2>6
    <3>2. [i \in 1 .. 1 |-> Payload(m.t, i - 1)] = <<Payload(m.t, 0)>>
      OBVIOUS
    <3>3. JobWhole'
      BY <2>0, <2>4, <2>6, <3>1, <3>2 DEF JobWhole, Started, Whole
    <3> QED
      BY <1>0, <2>0, <2>6, <3>3, StoredKept, FileKept, ContentSplit
  <2>7. CASE /\ m.t \in DOMAIN sessions /\ m.seq = NextSeq(m.t) /\ UNCHANGED committing
             /\ Len(sessions[m.t] \o payload) <= req[m.t].size
             /\ sessions' = [sessions EXCEPT ![m.t] = sessions[m.t] \o payload]
    <3>1. Beginning(m.t, sessions[m.t] \o payload)
      BY <1>0, <2>2, <2>7, BeginningGrows DEF Stored
    <3>2. PICK s : s = sessions[m.t] \o payload
      OBVIOUS
    <3>3. DOMAIN sessions' = DOMAIN sessions /\ \A u \in DOMAIN sessions : sessions'[u] = IF u = m.t THEN s ELSE sessions[u]
      BY <2>7, <3>2
    <3>4. Stored'
      <4> SUFFICES ASSUME NEW u \in DOMAIN sessions PROVE Started(u)' /\ Beginning(u, sessions[u])'
        BY <3>3 DEF Stored
      <4>1. Started(u) /\ Beginning(u, sessions[u])
        BY <1>0 DEF Stored
      <4>2. Beginning(u, sessions'[u])
        BY <3>1, <3>2, <3>3, <4>1
      <4>3. PICK v : v = sessions'[u]
        OBVIOUS
      <4>4. Beginning(u, v)
        BY <4>2, <4>3
      <4> QED
        BY <2>0, <4>1, <4>3, <4>4 DEF Started, Beginning
    <3> QED
      BY <1>0, <2>0, <2>7, <3>4, JobKept, FileKept, ContentSplit
  <2>8. CASE sessions' = Without(m.t) /\ UNCHANGED committing
    BY <1>0, <2>0, <2>8, StoredWithout, JobKept, FileKept, ContentSplit
  <2> QED
    BY <2>3, <2>5, <2>6, <2>7, <2>8
<1>7. CASE ServerCommit
  <2>1. PICK t : t = Head(c2s).t
    OBVIOUS
  <2>2. /\ \/ committing' = committing
           \/ /\ t \in DOMAIN sessions /\ Len(sessions[t]) = req[t].size
              /\ committing' = [t |-> t, data |-> sessions[t], checked |-> FALSE]
        /\ sessions' = Without(t) /\ disk' = disk /\ req' = req
    BY <1>7, <2>1 DEF ServerCommit
  <2>3. JobWhole'
    <3>1. CASE /\ t \in DOMAIN sessions /\ Len(sessions[t]) = req[t].size
               /\ committing' = [t |-> t, data |-> sessions[t], checked |-> FALSE]
      <4>1. Started(t) /\ sessions[t] = Whole(t)
        BY <1>0, <3>1, BeginningWhole DEF Stored
      <4>2. committing'.t = t /\ committing'.data = Whole(t)
        BY <3>1, <4>1
      <4> QED
        BY <2>2, <4>1, <4>2 DEF JobWhole, Started, Whole
    <3> QED
      BY <1>0, <2>2, <3>1, JobKept
  <2> QED
    BY <1>0, <2>2, <2>3, StoredWithout, FileKept, ContentSplit
<1>8. CASE ServerCheck
  <2>1. sessions' = sessions /\ disk' = disk /\ committing # Nobody
        /\ committing' \in {Nobody, [committing EXCEPT !.checked = TRUE]}
    BY <1>8 DEF ServerCheck
  <2>2. committing' # Nobody => committing'.t = committing.t /\ committing'.data = committing.data
    BY <2>1 DEF Types, Jobs
  <2> QED
    BY <1>0, <2>1, <2>2, StoredKept, JobKept, FileKept, ContentSplit
<1>9. CASE ServerRename
  <2>1. /\ sessions' = sessions /\ committing' = Nobody /\ committing # Nobody /\ req' = req
        /\ disk'.owner = committing.t /\ disk'.data = committing.data
    BY <1>9 DEF ServerRename
  <2>2. FileWhole'
    BY <1>0, <2>1 DEF JobWhole, FileWhole, Whole, Started
  <2> QED
    BY <1>0, <2>1, <2>2, StoredKept, JobKept, ContentSplit
<1>10. CASE ServerEnd
  <2>1. DOMAIN sessions' = {} /\ committing' = committing /\ disk' = disk
    BY <1>10 DEF ServerEnd
  <2>2. Stored'
    BY <2>1 DEF Stored
  <2> QED
    BY <1>0, <2>1, <2>2, JobKept, FileKept, ContentSplit
<1>11. CASE ExternalChange
  <2>1. sessions' = sessions /\ committing' = committing /\ disk'.owner = Nobody
    BY <1>11 DEF ExternalChange
  <2>2. FileWhole'
    BY <2>1 DEF FileWhole
  <2> QED
    BY <1>0, <2>1, <2>2, StoredKept, JobKept, ContentSplit
<1>12. CASE Tick \/ UNCHANGED filesVars
  BY <1>1, <1>12 DEF Tick, filesVars
<1> QED
  BY <1>2, <1>3, <1>4, <1>5, <1>6, <1>7, <1>8, <1>9, <1>10, <1>11, <1>12 DEF FilesNext, ServerStep

-----------------------------------------------------------------------------
(* The one commit of a transfer *)

\* A step in which nothing of u goes on: each place is as it was, or left.
Quiet(u) ==
    /\ Unsent(u)' => Unsent(u)
    /\ Queued(u)' => Queued(u)
    /\ InLoop(u)' => InLoop(u)
    /\ Answered(u)' => Answered(u)
    /\ Judged(u)' => Judged(u)
    /\ u \in committed' => u \in committed

\* Such a step keeps the stage.
LEMMA QuietStage ==
    ASSUME NEW u, Stage(u), Quiet(u)
    PROVE  Stage(u)'
BY DEF Stage, Quiet

\* What depends on the request alone.
LEMMA RequestQuiet ==
    ASSUME NEW u, req'[u] = req[u]
    PROVE  (Unsent(u)' <=> Unsent(u)) /\ (Judged(u)' <=> Judged(u))
BY DEF Unsent, Judged

\* A shrinking queue.
LEMMA FinalsShrink ==
    ASSUME Types, Types', OneCommit, Shrinks
    PROVE  OneCommit' /\ \A u : Queued(u)' => Queued(u)
<1>1. PICK d \in Nat :
        /\ Len(c2s') + d <= Len(c2s)
        /\ \A i \in 1 .. Len(c2s') : c2s'[i] = c2s[i + d]
  BY DEF Shrinks
<1>2. Len(c2s) \in Nat /\ Len(c2s') \in Nat
  BY DEF Types
<1>3. \A i \in 1 .. Len(c2s') : i + d \in 1 .. Len(c2s)
  BY <1>1, <1>2
<1>4. OneCommit'
  <2> SUFFICES ASSUME NEW i \in 1 .. Len(c2s'), NEW j \in 1 .. Len(c2s'),
                      Final(c2s'[i]), Final(c2s'[j]), c2s'[i].t = c2s'[j].t
               PROVE  i = j
    BY DEF OneCommit
  <2>1. i + d = j + d
    BY <1>1, <1>3 DEF OneCommit
  <2> QED
    BY <1>2, <2>1
<1>5. ASSUME NEW u, Queued(u)' PROVE Queued(u)
  <2>1. PICK i \in 1 .. Len(c2s') : Final(c2s'[i]) /\ c2s'[i].t = u
    BY <1>5 DEF Queued
  <2> QED
    BY <1>1, <1>3, <2>1 DEF Queued
<1> QED
  BY <1>4, <1>5

\* The frame the loop took was the only one of its kind.
LEMMA FinalTaken ==
    ASSUME Types, OneCommit, NEW K, Takes(K), Final(c2s[1]), NEW t, t = c2s[1].t
    PROVE  ~Queued(t)'
<1>1. /\ Len(c2s) \in Nat /\ Len(c2s) >= 1 /\ Len(c2s') = Len(c2s) - 1
      /\ \A i \in 1 .. Len(c2s') : c2s'[i] = c2s[i + 1]
  BY TakesFacts, TypesSplit
<1>3. ASSUME NEW i \in 1 .. Len(c2s'), Final(c2s'[i]), c2s'[i].t = t PROVE FALSE
  <2>1. i + 1 \in 1 .. Len(c2s) /\ 1 \in 1 .. Len(c2s) /\ i + 1 # 1
    BY <1>1
  <2>2. Final(c2s[i + 1]) /\ c2s[i + 1].t = t
    BY <1>1, <1>3
  <2> QED
    BY <2>1, <2>2 DEF OneCommit
<1>4. ~\E i \in 1 .. Len(c2s') : Final(c2s'[i]) /\ c2s'[i].t = t
  BY <1>3
<1> QED
  BY <1>4 DEF Queued

\* A growing queue: the frames are of t and at most one of them is final.
LEMMA FinalsGrow ==
    ASSUME Types, OneCommit, NEW t, NEW fs \in Seq(Frames), c2s' = c2s \o fs,
           \A i \in 1 .. Len(fs) : fs[i].t = t,
           \/ \A i \in 1 .. Len(fs) : ~Final(fs[i])
           \/ /\ ~Queued(t)
              /\ \A i, j \in 1 .. Len(fs) : Final(fs[i]) /\ Final(fs[j]) => i = j
    PROVE  /\ OneCommit'
           /\ \A u : Queued(u)' => Queued(u) \/ (u = t /\ \E i \in 1 .. Len(fs) : Final(fs[i]))
<1>1. /\ Len(c2s') = Len(c2s) + Len(fs) /\ Len(c2s) \in Nat /\ Len(fs) \in Nat
      /\ \A i \in 1 .. Len(c2s) : c2s'[i] = c2s[i]
      /\ \A i \in Len(c2s) + 1 .. Len(c2s) + Len(fs) : c2s'[i] = fs[i - Len(c2s)]
  BY Queues, ConcatFacts
<1>2. ASSUME NEW i \in 1 .. Len(c2s')
      PROVE  \/ i \in 1 .. Len(c2s) /\ c2s'[i] = c2s[i]
             \/ i - Len(c2s) \in 1 .. Len(fs) /\ c2s'[i] = fs[i - Len(c2s)] /\ i \notin 1 .. Len(c2s)
  BY <1>1, <1>2
<1>3. ASSUME NEW u, Queued(u)'
      PROVE  Queued(u) \/ (u = t /\ \E i \in 1 .. Len(fs) : Final(fs[i]))
  <2>1. PICK i \in 1 .. Len(c2s') : Final(c2s'[i]) /\ c2s'[i].t = u
    BY <1>3 DEF Queued
  <2> QED
    BY <1>2, <2>1 DEF Queued
<1>4. OneCommit'
  <2> SUFFICES ASSUME NEW i \in 1 .. Len(c2s'), NEW j \in 1 .. Len(c2s'),
                      Final(c2s'[i]), Final(c2s'[j]), c2s'[i].t = c2s'[j].t
               PROVE  i = j
    BY DEF OneCommit
  <2>0. i \in Int /\ j \in Int /\ Len(c2s) \in Int
    BY <1>1
  <2>1. CASE i \in 1 .. Len(c2s) /\ j \in 1 .. Len(c2s)
    BY <1>1, <2>1 DEF OneCommit
  <2>2. CASE i \notin 1 .. Len(c2s) /\ j \notin 1 .. Len(c2s)
    <3>1. i - Len(c2s) = j - Len(c2s)
      BY <1>2, <2>2
    <3> QED
      BY <2>0, <3>1
  <2>3. CASE i \in 1 .. Len(c2s) /\ j \notin 1 .. Len(c2s)
    BY <1>2, <2>3 DEF Queued
  <2>4. CASE i \notin 1 .. Len(c2s) /\ j \in 1 .. Len(c2s)
    BY <1>2, <2>4 DEF Queued
  <2> QED
    BY <2>1, <2>2, <2>3, <2>4
<1> QED
  BY <1>3, <1>4

\* An answer more.
LEMMA AnswerAdds ==
    ASSUME Types, NEW m, Answer(m)
    PROVE  /\ \A i \in 1 .. Len(s2c') : s2c'[i] = m \/ \E j \in 1 .. Len(s2c) : s2c'[i] = s2c[j]
           /\ \A u : Answered(u)' => Answered(u) \/ (m.kind = "result" /\ m.t = u)
<1>1. \A i \in 1 .. Len(s2c') : s2c'[i] = m \/ \E j \in 1 .. Len(s2c) : s2c'[i] = s2c[j]
  <2>1. s2c \in Seq(Replies) /\ Len(s2c) \in Nat
    BY Queues
  <2>2. CASE sock = "open"
    <3>1. s2c' = Append(s2c, m)
      BY <2>2 DEF Answer
    <3>2. /\ Len(s2c') = Len(s2c) + 1 /\ s2c'[Len(s2c) + 1] = m
          /\ \A i \in 1 .. Len(s2c) : s2c'[i] = s2c[i]
      BY <2>1, <3>1
    <3> QED
      BY <2>1, <3>2
  <2>3. CASE sock # "open"
    <3>1. s2c' = s2c
      BY <2>3 DEF Answer
    <3> QED
      BY <3>1
  <2> QED
    BY <2>2, <2>3
<1>2. ASSUME NEW u, Answered(u)' PROVE Answered(u) \/ (m.kind = "result" /\ m.t = u)
  <2>1. PICK i \in 1 .. Len(s2c') : s2c'[i].kind = "result" /\ s2c'[i].t = u
    BY <1>2 DEF Answered
  <2> QED
    BY <1>1, <2>1 DEF Answered
<1> QED
  BY <1>1, <1>2

\* Answers stay true where nothing is committed and a new one is.
LEMMA AnswersKept ==
    ASSUME AnswersTrue, committed' = committed,
           \A i \in 1 .. Len(s2c') :
              \/ \E j \in 1 .. Len(s2c) : s2c'[i] = s2c[j]
              \/ s2c'[i].kind = "result" /\ s2c'[i].t \in Chunked \union Saves =>
                    /\ s2c'[i].how = "ok" => s2c'[i].t \in committed
                    /\ s2c'[i].how = "error" => s2c'[i].t \notin committed
    PROVE  AnswersTrue'
BY DEF AnswersTrue

\* Which frames of a batch are final.
LEMMA BatchFinals ==
    ASSUME Parameters, Types, NEW t \in Transfers
    PROVE  /\ t \notin Saves => \A i \in 1 .. Len(Opening(t)) : ~Final(Opening(t)[i])
           /\ t \in Saves => \A i, j \in 1 .. Len(Opening(t)) :
                                Final(Opening(t)[i]) /\ Final(Opening(t)[j]) => i = j
           /\ \A k \in Nat : t \in Chunked /\ req[t].sent + k <= ChunkCount(t) =>
                 LET fs == ChunkFrames(t, req[t].sent, req[t].sent + k)
                 IN  \A i \in 1 .. Len(fs) : ~Final(fs[i])
<1>0. 0 \in Nat /\ 1 \in Nat /\ MaxChunks \in Nat
  BY DEF Parameters
<1>1. ASSUME t \notin Saves PROVE \A i \in 1 .. Len(Opening(t)) : ~Final(Opening(t)[i])
  <2>1. PICK fs : fs = Opening(t)
    OBVIOUS
  <2>2. fs = <<Frame("begin", t, 0)>>
    BY <1>1, <2>1, OpeningTyped
  <2>3. Len(fs) = 1 /\ fs[1].kind = "begin"
    BY <2>2 DEF Frame
  <2> QED
    BY <2>1, <2>3 DEF Final
<1>2. ASSUME t \in Saves
      PROVE  \A i, j \in 1 .. Len(Opening(t)) : Final(Opening(t)[i]) /\ Final(Opening(t)[j]) => i = j
  <2>1. PICK n \in Nat, k \in Nat : n = 0 /\ k = 1
    BY <1>0
  <2>2. n + k <= MaxChunks + 1
    BY <1>0, <2>1
  <2>3. PICK fs : fs = ChunkFrames(t, n, n + k)
    OBVIOUS
  <2>4. /\ Len(fs) = 2 * k
        /\ \A i \in 1 .. 2 * k : fs[i].kind \in {"head", "data"} /\ fs[i].seq \in Nat /\ fs[i].seq < n + k
        /\ \A i, j \in 1 .. 2 * k :
              fs[i].kind = "data" /\ fs[j].kind = "data" /\ fs[i].seq = fs[j].seq => i = j
    BY <1>0, <2>2, <2>3, ChunkFramesFacts
  <2>5. \A i \in 1 .. 2 * k : fs[i].seq = 0 /\ (Final(fs[i]) => fs[i].kind = "data")
    BY <2>1, <2>4 DEF Final
  <2>6. Opening(t) = fs
    BY <1>2, <2>1, <2>3, OpeningTyped
  <2> QED
    BY <2>4, <2>5, <2>6
<1>3. ASSUME NEW k \in Nat, t \in Chunked, req[t].sent + k <= ChunkCount(t)
      PROVE  LET fs == ChunkFrames(t, req[t].sent, req[t].sent + k)
             IN  \A i \in 1 .. Len(fs) : ~Final(fs[i])
  <2>1. PICK n \in Nat : n = req[t].sent
    BY RequestTyped DEF Requests, Parameters
  <2>2. n + k <= MaxChunks + 1
    BY <1>0, <1>3, <2>1, ChunkCountFacts
  <2>3. PICK fs : fs = ChunkFrames(t, n, n + k)
    OBVIOUS
  <2>4. Len(fs) = 2 * k /\ \A i \in 1 .. 2 * k : fs[i].kind \in {"head", "data"} /\ fs[i].t = t
    BY <1>0, <2>2, <2>3, ChunkFramesFacts
  <2>5. t \notin Saves
    BY <1>3, Kinds
  <2> QED
    BY <2>1, <2>3, <2>4, <2>5 DEF Final
<1> QED
  BY <1>1, <1>2, <1>3

\* A step of the client: nothing of t goes on, or t sends its one commit.
LEMMA ClientStages ==
    ASSUME Parameters, Types, Types', NEW t \in Transfers, Phase(t), OneCommit,
           t \in Chunked \union Saves => Stage(t),
           NEW y \in Requests, ClientMove(t, req[t], y), req'[t] = y,
           UNCHANGED <<sock, s2c, committing, committed>>
    PROVE  /\ OneCommit' /\ \A u : u # t => (Queued(u)' => Queued(u))
           /\ t \in Chunked \union Saves => Stage(t)'
           /\ Judged(t)' => Judged(t) /\ y.result = req[t].result
<1>0. \A u : (InLoop(u)' <=> InLoop(u)) /\ (Answered(u)' <=> Answered(u)) /\ (u \in committed' <=> u \in committed)
  BY DEF InLoop, Answered
<1>1. CASE c2s' = c2s /\ (Chooses(t, req[t], y) \/ GivesUp(t, req[t], y) \/ Rests(req[t], y))
  <2>1. OneCommit' /\ \A u : Queued(u)' => Queued(u)
    BY <1>1, SameShrinks, FinalsShrink
  <2>2. Unsent(t)' => Unsent(t)
    BY <1>1 DEF Unsent, Chooses, GivesUp, Rests
  <2>3. Judged(t)' => Judged(t) /\ y.result = req[t].result
    BY <1>1 DEF Judged, Chooses, GivesUp, Rests
  <2>4. Quiet(t)
    BY <1>0, <2>1, <2>2, <2>3 DEF Quiet
  <2> QED
    BY <2>1, <2>3, <2>4, QuietStage
<1>2. CASE Feeds(t, req[t], y)
  <2>1. PICK k \in Nat, w \in Seq(0 .. MaxChunks) :
          /\ req[t].sent + k <= ChunkCount(t) /\ y = Fed(req[t], w, k)
          /\ c2s' = IF sock = "open" THEN c2s \o ChunkFrames(t, req[t].sent, req[t].sent + k) ELSE c2s
    BY <1>2 DEF Feeds
  <2>2. req[t].pc = "chunks" /\ t \in Chunked
    BY <1>2 DEF Feeds, Phase
  <2>3. y.pc = "chunks" /\ y.result = req[t].result
    BY <2>1, <2>2, FedFacts
  <2>4. PICK fs : fs = ChunkFrames(t, req[t].sent, req[t].sent + k)
    OBVIOUS
  <2>5. /\ fs \in Seq(Frames) /\ (\A i \in 1 .. Len(fs) : fs[i].t = t)
        /\ \A i \in 1 .. Len(fs) : ~Final(fs[i])
    BY <2>1, <2>2, <2>4, Batches, BatchFinals, ZenonT(60) DEF Batch
  <2>6. OneCommit' /\ \A u : Queued(u)' => Queued(u)
    <3>1. CASE c2s' = c2s
      BY <3>1, SameShrinks, FinalsShrink
    <3>2. CASE c2s' = c2s \o fs
      BY <2>5, <3>2, FinalsGrow
    <3> QED
      BY <2>1, <2>4, <3>1, <3>2
  <2>7. (Unsent(t)' <=> Unsent(t)) /\ (Judged(t)' <=> Judged(t))
    BY <2>2, <2>3 DEF Unsent, Judged
  <2>8. Quiet(t)
    BY <1>0, <2>6, <2>7 DEF Quiet
  <2> QED
    BY <2>3, <2>6, <2>7, <2>8, QuietStage
<1>3. ASSUME NEW fs \in Seq(Frames), c2s' = c2s \o fs, \A i \in 1 .. Len(fs) : fs[i].t = t,
             \A i, j \in 1 .. Len(fs) : Final(fs[i]) /\ Final(fs[j]) => i = j,
             t \in Chunked \union Saves, Unsent(t), ~Unsent(t)', y.result = req[t].result
      PROVE  /\ OneCommit' /\ \A u : u # t => (Queued(u)' => Queued(u))
             /\ t \in Chunked \union Saves => Stage(t)'
             /\ Judged(t)' => Judged(t) /\ y.result = req[t].result
  <2>1. Stage(t) /\ ~Queued(t)
    BY <1>3 DEF Stage
  <2>2. OneCommit' /\ \A u : u # t => (Queued(u)' => Queued(u))
    BY <1>3, <2>1, FinalsGrow
  <2>3. Judged(t)' <=> Judged(t)
    BY <1>3 DEF Judged
  <2>4. Stage(t)'
    BY <1>0, <1>3, <2>1, <2>3 DEF Stage
  <2> QED
    BY <1>3, <2>2, <2>3, <2>4
<1>4. CASE Opens(t, req[t], y)
  <2>1. PICK fs : fs = Opening(t)
    OBVIOUS
  <2>2. fs \in Seq(Frames) /\ (\A i \in 1 .. Len(fs) : fs[i].t = t) /\ c2s' = c2s \o fs
    BY <1>4, <2>1, Batches, OpeningTyped DEF Batch, Opens
  <2>3. y.pc = "begin" /\ y.result = req[t].result /\ req[t].pc \in {"idle", "resolve"}
    BY <1>4 DEF Opens
  <2>4. CASE t \in Saves
    <3>1. Unsent(t) /\ ~Unsent(t)'
      BY <2>3, <2>4, Kinds DEF Unsent
    <3>2. \A i, j \in 1 .. Len(fs) : Final(fs[i]) /\ Final(fs[j]) => i = j
      BY <2>1, <2>4, BatchFinals
    <3> QED
      BY <1>3, <2>2, <2>3, <2>4, <3>1, <3>2
  <2>5. CASE t \notin Saves
    <3>1. \A i \in 1 .. Len(fs) : ~Final(fs[i])
      BY <2>1, <2>5, BatchFinals
    <3>2. OneCommit' /\ \A u : Queued(u)' => Queued(u)
      BY <2>2, <3>1, FinalsGrow
    <3>3. (Unsent(t)' => Unsent(t)) /\ (Judged(t)' <=> Judged(t))
      BY <2>3 DEF Unsent, Judged
    <3>4. Quiet(t)
      BY <1>0, <3>2, <3>3 DEF Quiet
    <3> QED
      BY <2>3, <3>2, <3>3, <3>4, QuietStage
  <2> QED
    BY <2>4, <2>5
<1>5. CASE SendsCommit(t, req[t], y)
  <2>1. PICK fs : fs = <<Frame("commit", t, 0)>>
    OBVIOUS
  <2>2. req[t].pc = "chunks" /\ t \in Chunked /\ y.pc = "commit" /\ y.result = req[t].result /\ c2s' = c2s \o fs
    BY <1>5, <2>1 DEF SendsCommit, Phase
  <2>3. fs \in Seq(Frames) /\ (\A i \in 1 .. Len(fs) : fs[i].t = t) /\ Len(fs) = 1
    <3>1. Frame("commit", t, 0) \in Frames /\ Frame("commit", t, 0).t = t
      BY DEF Frame, Frames, Parameters
    <3> QED
      BY <2>1, <3>1
  <2>4. \A i, j \in 1 .. Len(fs) : i = j
    BY <2>3
  <2>5. Unsent(t) /\ ~Unsent(t)'
    BY <2>2 DEF Unsent
  <2> QED
    BY <1>3, <2>2, <2>3, <2>4, <2>5
<1> QED
  BY <1>1, <1>2, <1>4, <1>5 DEF ClientMove, Chooses, GivesUp

\* The answers after one more.
LEMMA AnswersGrow ==
    ASSUME Types, AnswersTrue, committed' = committed,
           \/ s2c' = s2c
           \/ \E m : /\ Answer(m)
                     /\ m.kind = "result" /\ m.t \in Chunked \union Saves =>
                           /\ m.how = "ok" => m.t \in committed
                           /\ m.how = "error" => m.t \notin committed
    PROVE  AnswersTrue'
<1>1. CASE s2c' = s2c
  BY <1>1 DEF AnswersTrue
<1>2. ASSUME NEW m, Answer(m),
             m.kind = "result" /\ m.t \in Chunked \union Saves =>
                /\ m.how = "ok" => m.t \in committed
                /\ m.how = "error" => m.t \notin committed
      PROVE  AnswersTrue'
  <2>1. \A i \in 1 .. Len(s2c') : s2c'[i] = m \/ \E j \in 1 .. Len(s2c) : s2c'[i] = s2c[j]
    BY <1>2, AnswerAdds
  <2> QED
    BY <1>2, <2>1, AnswersKept
<1> QED
  BY <1>1, <1>2

\* A step of the server loop that commits nothing and is about t alone.
LEMMA LoopStep ==
    ASSUME Types, Types', Commits, Shrinks, req' = req, committed' = committed, NEW t,
           \A u : u # t => (InLoop(u)' => InLoop(u)),
           \/ s2c' = s2c
           \/ \E m : /\ Answer(m)
                     /\ m.kind = "result" =>
                           /\ m.t = t
                           /\ t \in Chunked \union Saves =>
                                 /\ m.how = "ok" => t \in committed
                                 /\ m.how = "error" => t \notin committed,
           t \in Chunked \union Saves => Stage(t)'
    PROVE  Commits'
<1>1. OneCommit' /\ \A u : Queued(u)' => Queued(u)
  BY FinalsShrink DEF Commits
<1>2. AnswersTrue'
  BY AnswersGrow DEF Commits
<1>3. AnswerIsTrue'
  BY DEF Commits, AnswerIsTrue
<1>4. ASSUME NEW u \in Chunked \union Saves, u # t PROVE Stage(u)'
  <2>1. Answered(u)' => Answered(u)
    <3>1. CASE s2c' = s2c
      BY <3>1 DEF Answered
    <3>2. ASSUME NEW m, Answer(m), m.kind = "result" => m.t = t PROVE Answered(u)' => Answered(u)
      BY <1>4, <3>2, AnswerAdds
    <3> QED
      BY <3>1, <3>2
  <2>2. Unsent(u)' => Unsent(u)
    BY RequestQuiet
  <2>3. Judged(u)' => Judged(u)
    BY RequestQuiet
  <2>4. Quiet(u)
    BY <1>1, <1>4, <2>1, <2>2, <2>3 DEF Quiet
  <2>5. Stage(u)
    BY DEF Commits
  <2> QED
    BY <2>4, <2>5, QuietStage
<1>5. \A u \in Chunked \union Saves : Stage(u)'
  BY <1>4
<1> QED
  BY <1>1, <1>2, <1>3, <1>5 DEF Commits

\* A step of the server loop that commits nothing and answers no commit.
LEMMA LoopQuiet ==
    ASSUME Parameters, Types, Types', Commits, Shrinks, req' = req, committed' = committed,
           committing' = committing,
           \/ s2c' = s2c
           \/ \E m : Answer(m) /\ (m.kind = "result" => m.t \notin Chunked \union Saves)
    PROVE  Commits'
<1>1. \A u : InLoop(u)' => InLoop(u)
  BY DEF InLoop
<1>2. CASE s2c' = s2c
  <2>1. Nobody \notin Chunked \union Saves
    BY DEF Parameters
  <2> QED
    BY <1>1, <1>2, <2>1, LoopStep
<1>3. ASSUME NEW m, Answer(m), m.kind = "result" => m.t \notin Chunked \union Saves
      PROVE  Commits'
  <2>1. PICK t : t = IF m.kind = "result" THEN m.t ELSE Nobody
    OBVIOUS
  <2>2. t \notin Chunked \union Saves /\ (m.kind = "result" => m.t = t)
    BY <1>3, <2>1 DEF Parameters
  <2> QED
    BY <1>1, <1>3, <2>2, LoopStep
<1> QED
  BY <1>2, <1>3

\* A step of the client.
LEMMA ClientCommits ==
    ASSUME Parameters, Types, Types', \A u \in Transfers : Phase(u) /\ WindowIsLast(u), Commits,
           NEW t \in Transfers, Start(t) \/ ClientStep(t) \/ Timeout(t)
    PROVE  Commits'
<1>1. UNCHANGED <<sock, s2c, committing, committed>>
  BY ClientMoves
<1>2. PICK y \in Requests : req' = [req EXCEPT ![t] = y] /\ ClientMove(t, req[t], y)
  BY ClientMoves
<1>3. req'[t] = y /\ \A u \in Transfers \ {t} : req'[u] = req[u]
  BY <1>2, RequestTyped
<1>4. /\ OneCommit' /\ \A u : u # t => (Queued(u)' => Queued(u))
      /\ t \in Chunked \union Saves => Stage(t)'
      /\ Judged(t)' => Judged(t) /\ y.result = req[t].result
  BY <1>1, <1>2, <1>3, ClientStages DEF Commits
<1>5. Chunked \subseteq Transfers /\ Saves \subseteq Transfers
  BY Kinds
<1>6. AnswersTrue'
  BY <1>1 DEF Commits, AnswersTrue
<1>7. AnswerIsTrue'
  <2> SUFFICES ASSUME NEW u \in Chunked \union Saves, Judged(u)'
               PROVE  req'[u].result = req[u].result
    BY <1>1 DEF Commits, AnswerIsTrue, Judged
  <2> QED
    BY <1>3, <1>4, <1>5
<1>8. ASSUME NEW u \in Chunked \union Saves, u # t PROVE Stage(u)'
  <2>1. req'[u] = req[u]
    BY <1>3, <1>5, <1>8
  <2>2. (Unsent(u)' <=> Unsent(u)) /\ (Judged(u)' <=> Judged(u))
    BY <2>1, RequestQuiet
  <2>3. (InLoop(u)' <=> InLoop(u)) /\ (Answered(u)' <=> Answered(u)) /\ (u \in committed' <=> u \in committed)
    BY <1>1 DEF InLoop, Answered
  <2>4. Quiet(u)
    BY <1>4, <1>8, <2>2, <2>3 DEF Quiet
  <2> QED
    BY <2>4, QuietStage DEF Commits
<1> QED
  BY <1>4, <1>6, <1>7, <1>8 DEF Commits

\* A message arrives, or the socket closes.
LEMMA SocketCommits ==
    ASSUME Parameters, Types, Types', Replied, Commits, Receive \/ Close
    PROVE  Commits'
<1>0. OneCommit' /\ \A u : Queued(u)' => Queued(u)
  BY OthersShrink, FinalsShrink DEF Commits
<1>k. Chunked \subseteq Transfers /\ Saves \subseteq Transfers
  BY Kinds
<1>1. CASE Close
  <2>1. /\ UNCHANGED <<committing, committed>> /\ s2c' = <<>>
        /\ \A u \in Transfers : Failed(req[u], req'[u])
    BY <1>1, CloseMoves
  <2>2. Len(s2c') = 0
    BY <2>1
  <2>3. AnswersTrue' /\ \A u : ~Answered(u)'
    BY <2>2 DEF AnswersTrue, Answered
  <2>4. ASSUME NEW u \in Transfers PROVE (Unsent(u)' => Unsent(u)) /\ (Judged(u)' => Judged(u) /\ req'[u].result = req[u].result)
    BY <2>1 DEF Failed, Rests, Unsent, Judged
  <2>5. AnswerIsTrue'
    BY <1>k, <2>1, <2>4 DEF Commits, AnswerIsTrue, Judged
  <2>6. ASSUME NEW u \in Chunked \union Saves PROVE Stage(u)'
    <3>1. InLoop(u)' => InLoop(u)
      BY <2>1 DEF InLoop
    <3>2. Quiet(u)
      BY <1>0, <1>k, <2>1, <2>3, <2>4, <3>1 DEF Quiet
    <3> QED
      BY <3>2, QuietStage DEF Commits
  <2> QED
    BY <1>0, <2>3, <2>5, <2>6 DEF Commits
<1>2. CASE Receive
  <2>1. /\ UNCHANGED <<c2s, committing, committed>>
        /\ s2c[1] \in Replies /\ s2c[1].t \in Transfers
        /\ Len(s2c) \in Nat /\ Len(s2c) >= 1 /\ Len(s2c') = Len(s2c) - 1
        /\ \A i \in 1 .. Len(s2c') : s2c'[i] = s2c[i + 1]
    BY <1>2, ReceiveMoves
  <2>2. PICK m, t : m = s2c[1] /\ t = m.t
    OBVIOUS
  <2>3. PICK y \in Requests : req' = [req EXCEPT ![t] = y] /\ Told(t, req[t], y, m)
    BY <1>2, <2>2, ReceiveMoves
  <2>4. t \in Transfers /\ req'[t] = y /\ \A u \in Transfers \ {t} : req'[u] = req[u]
    BY <2>1, <2>2, <2>3, RequestTyped
  <2>5. 1 \in 1 .. Len(s2c) /\ \A i \in 1 .. Len(s2c') : i + 1 \in 1 .. Len(s2c)
    BY <2>1
  <2>6. \A i \in 1 .. Len(s2c') : \E j \in 1 .. Len(s2c) : s2c'[i] = s2c[j]
    BY <2>1, <2>5
  <2>7. AnswersTrue'
    BY <2>1, <2>6, AnswersKept DEF Commits
  <2>8. \A u : Answered(u)' => Answered(u)
    <3> SUFFICES ASSUME NEW u, Answered(u)' PROVE Answered(u)
      OBVIOUS
    <3>1. PICK i \in 1 .. Len(s2c') : s2c'[i].kind = "result" /\ s2c'[i].t = u
      BY DEF Answered
    <3> QED
      BY <2>6, <3>1 DEF Answered
  <2>9. \A u : InLoop(u)' => InLoop(u)
    BY <2>1 DEF InLoop
  <2>10. ASSUME NEW u \in Chunked \union Saves, Unsent(u)' => Unsent(u), Judged(u)' => Judged(u)
         PROVE  Stage(u)'
    <3>1. Quiet(u)
      BY <1>0, <2>1, <2>8, <2>9, <2>10 DEF Quiet
    <3> QED
      BY <3>1, QuietStage DEF Commits
  <2>11. ASSUME NEW u \in Chunked \union Saves, u # t PROVE Stage(u)' /\ req'[u] = req[u]
    <3>1. req'[u] = req[u]
      BY <1>k, <2>4, <2>11
    <3> QED
      BY <2>10, <3>1, RequestQuiet
  <2>12. ASSUME t \in Chunked \union Saves
         PROVE  /\ Stage(t)'
                /\ Judged(t)' => \/ y.result = req[t].result
                                 \/ m.kind = "result" /\ y.result = m.how
    <3>0. t \notin Reads
      BY <2>12, Kinds
    <3>1. CASE y = req[t]
      BY <2>4, <2>10, <2>12, <3>1, RequestQuiet
    <3>2. CASE m.kind = "beginOk" /\ req[t].pc = "begin" /\ y.pc = "chunks" /\ y.result = req[t].result
      <4>1. t \in Chunked
        BY <2>2, <2>5, <3>2 DEF Replied
      <4>2. Unsent(t) /\ (Judged(t)' => Judged(t))
        BY <2>4, <3>2, <4>1 DEF Unsent, Judged
      <4> QED
        BY <2>4, <2>10, <2>12, <3>2, <4>2
    <3>3. CASE y.pc = req[t].pc /\ y.result = req[t].result
      <4>1. (Unsent(t)' => Unsent(t)) /\ (Judged(t)' => Judged(t))
        BY <2>4, <3>3 DEF Unsent, Judged
      <4> QED
        BY <2>10, <2>12, <3>3, <4>1
    <3>4. CASE /\ m.kind = "result"
               /\ \/ y.pc = "unsettled" /\ y.result = req[t].result
                  \/ y.pc = "done" /\ y.result = m.how
      <4>1. Answered(t)
        BY <2>2, <2>5, <3>4 DEF Answered
      <4>2. Stage(t)
        BY <2>12 DEF Commits
      <4>3. ~Queued(t) /\ ~InLoop(t)
        BY <4>1, <4>2 DEF Stage
      <4>4. ~Unsent(t)'
        BY <2>4, <3>4 DEF Unsent
      <4>5. Stage(t)'
        BY <1>0, <2>9, <4>3, <4>4 DEF Stage
      <4> QED
        BY <3>4, <4>5
    <3> QED
      BY <2>3, <3>0, <3>1, <3>2, <3>3, <3>4 DEF Told
  <2>13. AnswerIsTrue'
    <3> SUFFICES ASSUME NEW u \in Chunked \union Saves
                 PROVE  /\ req'[u].result = "ok" => u \in committed
                        /\ req'[u].result = "error" => u \notin committed
      BY <2>1 DEF AnswerIsTrue
    <3>1. CASE u # t
      BY <2>11, <3>1 DEF Commits, AnswerIsTrue
    <3>2. CASE u = t /\ ~Judged(t)'
      BY <3>2 DEF Judged
    <3>3. CASE u = t /\ Judged(t)'
      <4>1. CASE y.result = req[t].result
        BY <2>4, <3>3, <4>1 DEF Commits, AnswerIsTrue
      <4>2. CASE m.kind = "result" /\ y.result = m.how
        BY <2>2, <2>4, <2>5, <3>3, <4>2 DEF Commits, AnswersTrue
      <4> QED
        BY <2>12, <3>3, <4>1, <4>2
    <3> QED
      BY <3>1, <3>2, <3>3
  <2>14. \A u \in Chunked \union Saves : Stage(u)'
    BY <2>11, <2>12
  <2> QED
    BY <1>0, <2>7, <2>13, <2>14 DEF Commits
<1> QED
  BY <1>1, <1>2

\* The loop takes the commit of t, or the binary frame of the save t, and
\* answers with an error or goes on with it.
LEMMA CommitTaken ==
    ASSUME Parameters, Types, Types', Wire, Commits, NEW K, Takes(K), Final(c2s[1]), NEW t, t = c2s[1].t,
           t \in Chunked \union Saves, req' = req, sock' = sock, committed' = committed,
           \/ committing' = committing /\ Answer(Reply("result", t, 0, "error"))
           \/ s2c' = s2c /\ committing'.t = t
    PROVE  Commits'
<1>1. Shrinks /\ committing = Nobody /\ Len(c2s) \in Nat /\ 1 \in 1 .. Len(c2s)
  BY TailShrinks, TakesFacts, TypesSplit
<1>2. ~Queued(t)'
  BY FinalTaken DEF Commits
<1>3. Queued(t) /\ Stage(t)
  BY <1>1 DEF Queued, Commits
<1>4. ~Unsent(t) /\ ~InLoop(t) /\ ~Answered(t) /\ ~Judged(t) /\ t \notin committed
  BY <1>3 DEF Stage
<1>5. ~Unsent(t)' /\ ~Judged(t)'
  BY <1>4, RequestQuiet
<1>6. CASE committing' = committing /\ Answer(Reply("result", t, 0, "error"))
  <2>1. PICK m : m = Reply("result", t, 0, "error")
    OBVIOUS
  <2>2. Answer(m) /\ m.t = t /\ m.how = "error"
    BY <1>6, <2>1 DEF Reply
  <2>3. \A u : ~InLoop(u)'
    BY <1>1, <1>6 DEF InLoop
  <2>4. Stage(t)'
    BY <1>2, <1>5, <2>3 DEF Stage
  <2> QED
    BY <1>1, <1>4, <2>2, <2>3, <2>4, LoopStep
<1>7. CASE s2c' = s2c /\ committing'.t = t
  <2>1. \A u : u # t => ~InLoop(u)'
    BY <1>7 DEF InLoop
  <2>2. ~Answered(t)'
    BY <1>4, <1>7 DEF Answered
  <2>3. Stage(t)'
    BY <1>2, <1>4, <1>5, <2>2 DEF Stage
  <2> QED
    BY <1>1, <1>7, <2>1, <2>3, LoopStep
<1> QED
  BY <1>6, <1>7

\* The commit ends: the file is replaced, and the answer says so.
LEMMA RenameCommits ==
    ASSUME Parameters, Types, Types', Commits, ServerRename
    PROVE  Commits'
<1>1. PICK t : t = committing.t
  OBVIOUS
<1>2. PICK m : m = Reply("result", t, 0, "ok")
  OBVIOUS
<1>3. /\ m.kind = "result" /\ m.t = t /\ m.how = "ok"
      /\ Answer(m) /\ committing # Nobody /\ committing' = Nobody /\ committed' = committed \union {t}
      /\ UNCHANGED <<req, sock, c2s>>
  BY <1>1, <1>2 DEF ServerRename, client, Reply
<1>4. InLoop(t) /\ t \in Chunked \union Saves
  BY <1>1, <1>3 DEF InLoop, Types, FilesTypeOK
<1>5. Stage(t)
  BY <1>4 DEF Commits
<1>6. ~Unsent(t) /\ ~Queued(t) /\ ~Answered(t) /\ ~Judged(t)
  BY <1>4, <1>5 DEF Stage
<1>7. OneCommit' /\ \A u : Queued(u)' => Queued(u)
  BY <1>3, SameShrinks, FinalsShrink DEF Commits
<1>8. AnswersTrue'
  <2> SUFFICES ASSUME NEW i \in 1 .. Len(s2c'), s2c'[i].kind = "result", s2c'[i].t \in Chunked \union Saves
               PROVE  /\ s2c'[i].how = "ok" => s2c'[i].t \in committed'
                      /\ s2c'[i].how = "error" => s2c'[i].t \notin committed'
    BY DEF AnswersTrue
  <2>1. CASE s2c'[i] = m
    BY <1>3, <2>1
  <2>2. ASSUME NEW j \in 1 .. Len(s2c), s2c'[i] = s2c[j]
        PROVE  /\ s2c'[i].how = "ok" => s2c'[i].t \in committed'
               /\ s2c'[i].how = "error" => s2c'[i].t \notin committed'
    <3>1. s2c[j].t # t
      BY <1>6, <2>2 DEF Answered
    <3> QED
      BY <1>3, <2>2, <3>1 DEF Commits, AnswersTrue
  <2> QED
    BY <1>3, <2>1, <2>2, AnswerAdds
<1>9. AnswerIsTrue'
  BY <1>3, <1>6 DEF Commits, AnswerIsTrue, Judged
<1>10. ASSUME NEW u \in Chunked \union Saves PROVE Stage(u)'
  <2>1. (Unsent(u)' <=> Unsent(u)) /\ (Judged(u)' <=> Judged(u))
    BY <1>3, RequestQuiet
  <2>2. ~InLoop(u)'
    BY <1>3 DEF InLoop
  <2>3. CASE u = t
    BY <1>6, <1>7, <2>1, <2>2, <2>3 DEF Stage
  <2>4. CASE u # t
    <3>1. Answered(u)' => Answered(u)
      BY <1>3, <2>4, AnswerAdds
    <3>2. Quiet(u)
      BY <1>3, <1>7, <2>1, <2>2, <2>4, <3>1 DEF Quiet
    <3> QED
      BY <3>2, QuietStage DEF Commits
  <2> QED
    BY <2>3, <2>4
<1> QED
  BY <1>7, <1>8, <1>9, <1>10 DEF Commits

\* Every step keeps the one commit of a transfer.
LEMMA CommitsStep ==
    ASSUME Parameters, Types, Types', \A t \in Transfers : Phase(t) /\ WindowIsLast(t),
           Wire, Replied, Slot, Commits, [FilesNext]_filesVars
    PROVE  Commits'
<1> USE DEF server, file, client
<1>1. ASSUME NEW t \in Transfers, Start(t) \/ ClientStep(t) \/ Timeout(t) PROVE Commits'
  BY <1>1, ClientCommits
<1>2. CASE Receive \/ Close
  BY <1>2, SocketCommits
<1>3. CASE ServerBegin
  <2>1. Takes({"begin"}) /\ req' = req /\ sock' = sock /\ UNCHANGED <<committing, committed>>
    BY <1>3 DEF ServerBegin
  <2>2. PICK t : t = c2s[1].t
    OBVIOUS
  <2>3. Shrinks /\ Head(c2s) = c2s[1] /\ 1 \in 1 .. Len(c2s) /\ c2s[1].kind = "begin"
    BY <2>1, TailShrinks, TakesFacts, TypesSplit
  <2>4. t \notin Saves
    BY <2>2, <2>3 DEF Wire, Proper
  <2>5. \E m : Answer(m) /\ (m.kind = "result" => m.t \notin Chunked \union Saves)
    <3>1. /\ Reply("beginOk", t, 0, "ok").kind = "beginOk" /\ Reply("fsError", t, 0, "error").kind = "fsError"
          /\ \A how : Reply("result", t, 0, how).t = t
      BY DEF Reply
    <3>2. \/ Answer(Reply("beginOk", t, 0, "ok")) \/ Answer(Reply("fsError", t, 0, "error"))
          \/ t \notin Chunked /\ \E how : Answer(Reply("result", t, 0, how))
      BY <1>3, <2>2, <2>3 DEF ServerBegin
    <3>3. CASE Answer(Reply("beginOk", t, 0, "ok"))
      BY <3>1, <3>3
    <3>4. CASE Answer(Reply("fsError", t, 0, "error"))
      BY <3>1, <3>4
    <3>5. ASSUME NEW how, t \notin Chunked, Answer(Reply("result", t, 0, how))
          PROVE  \E m : Answer(m) /\ (m.kind = "result" => m.t \notin Chunked \union Saves)
      BY <2>4, <3>1, <3>5
    <3> QED
      BY <3>2, <3>3, <3>4, <3>5
  <2> QED
    BY <2>1, <2>3, <2>5, LoopQuiet
<1>4. CASE ServerHead
  <2>1. Takes({"head"}) /\ req' = req /\ sock' = sock /\ UNCHANGED <<committing, committed>>
    BY <1>4 DEF ServerHead
  <2>2. Shrinks
    BY <2>1, TailShrinks
  <2>3. s2c' = s2c \/ \E t : Answer(Reply("fsError", t, 0, "error"))
    BY <1>4 DEF ServerHead
  <2>4. s2c' = s2c \/ \E m : Answer(m) /\ (m.kind = "result" => m.t \notin Chunked \union Saves)
    <3>1. \A t : Reply("fsError", t, 0, "error").kind = "fsError"
      BY DEF Reply
    <3> QED
      BY <2>3, <3>1
  <2> QED
    BY <2>1, <2>2, <2>4, LoopQuiet
<1>5. CASE ServerData
  <2>1. Takes({"data"}) /\ req' = req /\ sock' = sock /\ UNCHANGED committed
    BY <1>5 DEF ServerData
  <2>2. Shrinks /\ 1 \in 1 .. Len(c2s) /\ c2s[1].kind = "data"
    BY <2>1, TailShrinks, TakesFacts, TypesSplit
  <2>3. PICK t : t = c2s[1].t
    OBVIOUS
  <2>4. \/ UNCHANGED <<committing, s2c>>
        \/ /\ t \in Saves /\ UNCHANGED s2c
           /\ committing' = [t |-> t, data |-> <<Payload(t, 0)>>, checked |-> FALSE]
        \/ committing' = committing /\ Answer(Reply("ack", t, c2s[1].seq, "ok"))
    BY <1>5, <2>3, DataMoves
  <2>5. CASE UNCHANGED <<committing, s2c>>
    BY <2>1, <2>2, <2>5, LoopQuiet
  <2>6. CASE /\ t \in Saves /\ UNCHANGED s2c
             /\ committing' = [t |-> t, data |-> <<Payload(t, 0)>>, checked |-> FALSE]
    <3>1. Final(c2s[1]) /\ committing'.t = t
      BY <2>2, <2>3, <2>6 DEF Final
    <3> QED
      BY <2>1, <2>3, <2>6, <3>1, CommitTaken
  <2>7. CASE committing' = committing /\ Answer(Reply("ack", t, c2s[1].seq, "ok"))
    <3>1. PICK m : m = Reply("ack", t, c2s[1].seq, "ok")
      OBVIOUS
    <3>2. m.kind = "ack" /\ Answer(m)
      BY <2>7, <3>1 DEF Reply
    <3> QED
      BY <2>1, <2>2, <2>7, <3>2, LoopQuiet
  <2> QED
    BY <2>4, <2>5, <2>6, <2>7
<1>6. CASE ServerCommit
  <2>1. Takes({"commit"}) /\ req' = req /\ sock' = sock /\ UNCHANGED committed
    BY <1>6 DEF ServerCommit
  <2>2. PICK t : t = c2s[1].t
    OBVIOUS
  <2>3. Head(c2s) = c2s[1] /\ 1 \in 1 .. Len(c2s) /\ c2s[1].kind = "commit"
    BY <2>1, TakesFacts, TypesSplit
  <2>4. Final(c2s[1]) /\ t \in Chunked
    BY <2>2, <2>3 DEF Wire, Proper, Final
  <2>5. \/ committing' = committing /\ Answer(Reply("result", t, 0, "error"))
        \/ s2c' = s2c /\ committing' = [t |-> t, data |-> sessions[t], checked |-> FALSE]
    BY <1>6, <2>2, <2>3 DEF ServerCommit
  <2>6. \/ committing' = committing /\ Answer(Reply("result", t, 0, "error"))
        \/ s2c' = s2c /\ committing'.t = t
    BY <2>5
  <2> QED
    BY <2>1, <2>2, <2>4, <2>6, CommitTaken
<1>7. CASE ServerCheck
  <2>1. PICK t : t = committing.t
    OBVIOUS
  <2>2. /\ committing # Nobody /\ UNCHANGED <<req, sock, c2s, committed>>
        /\ \/ committing' = [committing EXCEPT !.checked = TRUE] /\ s2c' = s2c
           \/ /\ committing' = Nobody
              /\ \E how \in {"conflict", "error"} : Answer(Reply("result", t, 0, how))
    BY <1>7, <2>1 DEF ServerCheck
  <2>3. InLoop(t) /\ t \in Chunked \union Saves
    BY <2>1, <2>2 DEF InLoop, Types, FilesTypeOK
  <2>4. Stage(t)
    BY <2>3 DEF Commits
  <2>5. ~Unsent(t) /\ ~Queued(t) /\ ~Answered(t) /\ ~Judged(t) /\ t \notin committed
    BY <2>3, <2>4 DEF Stage
  <2>6. ~Unsent(t)' /\ ~Queued(t)' /\ ~Judged(t)'
    BY <2>2, <2>5, RequestQuiet DEF Queued
  <2>7. Shrinks
    BY <2>2, SameShrinks
  <2>8. CASE committing' = [committing EXCEPT !.checked = TRUE] /\ s2c' = s2c
    <3>1. committing'.t = t
      BY <2>1, <2>2, <2>8 DEF Types, Jobs
    <3>2. \A u : u # t => ~InLoop(u)'
      BY <3>1 DEF InLoop
    <3>3. ~Answered(t)'
      BY <2>5, <2>8 DEF Answered
    <3>4. Stage(t)'
      BY <2>2, <2>5, <2>6, <3>3 DEF Stage
    <3> QED
      BY <2>2, <2>7, <2>8, <3>2, <3>4, LoopStep
  <2>9. ASSUME NEW how \in {"conflict", "error"}, committing' = Nobody, Answer(Reply("result", t, 0, how))
        PROVE  Commits'
    <3>1. PICK m : m = Reply("result", t, 0, how)
      OBVIOUS
    <3>2. Answer(m) /\ m.t = t /\ m.how = how /\ how # "ok"
      BY <2>9, <3>1 DEF Reply
    <3>3. \A u : ~InLoop(u)'
      BY <2>9 DEF InLoop
    <3>4. Stage(t)'
      BY <2>6, <3>3 DEF Stage
    <3> QED
      BY <2>2, <2>5, <2>7, <3>2, <3>3, <3>4, LoopStep
  <2> QED
    BY <2>2, <2>8, <2>9
<1>8. CASE ServerRename
  BY <1>8, RenameCommits
<1>9. CASE ServerEnd \/ ExternalChange \/ Tick \/ UNCHANGED filesVars
  <2>1. UNCHANGED <<req, committed, committing, s2c>>
    BY <1>9 DEF ServerEnd, ExternalChange, Tick, filesVars
  <2>2. Shrinks
    BY <1>9, OthersShrink DEF ServerStep
  <2> QED
    BY <2>1, <2>2, LoopQuiet
<1> QED
  BY <1>1, <1>2, <1>3, <1>4, <1>5, <1>6, <1>7, <1>8, <1>9 DEF FilesNext, ServerStep

-----------------------------------------------------------------------------
(* The window *)

\* Nothing new is under way.
LEMMA FlightKept ==
    ASSUME NEW t, Flight(t), WindowIsLast(t)', DataOnce(c2s, t)', AckOnce(s2c, t)',
           \A n \in 0 .. MaxChunks :
              /\ Going(t, n)' => Going(t, n)
              /\ Coming(t, n)' => Coming(t, n)
              /\ (Going(t, n)' \/ Coming(t, n)') /\ Near(t, n) => Near(t, n)'
    PROVE  Flight(t)'
<1>1. ASSUME NEW n \in 0 .. MaxChunks
      PROVE  /\ Going(t, n)' \/ Coming(t, n)' => Near(t, n)'
             /\ ~(Going(t, n)' /\ Coming(t, n)')
  BY DEF Flight
<1> QED
  BY <1>1 DEF Flight

\* A request that goes on as it was.
LEMMA WindowRests ==
    ASSUME NEW t, Rests(req[t], req'[t])
    PROVE  (WindowIsLast(t) => WindowIsLast(t)') /\ \A n : Near(t, n) => Near(t, n)'
BY DEF Rests, WindowIsLast, Near

\* A shrinking queue.
LEMMA DataShrinks ==
    ASSUME Types, Types', Shrinks, NEW t, DataOnce(c2s, t)
    PROVE  DataOnce(c2s, t)' /\ \A n : Going(t, n)' => Going(t, n)
<1>1. PICK d \in Nat :
        /\ Len(c2s') + d <= Len(c2s)
        /\ \A i \in 1 .. Len(c2s') : c2s'[i] = c2s[i + d]
  BY DEF Shrinks
<1>2. Len(c2s) \in Nat /\ Len(c2s') \in Nat
  BY DEF Types
<1>3. \A i \in 1 .. Len(c2s') : i + d \in 1 .. Len(c2s)
  BY <1>1, <1>2
<1>4. DataOnce(c2s, t)'
  <2> SUFFICES ASSUME NEW i \in 1 .. Len(c2s'), NEW j \in 1 .. Len(c2s'),
                      IsData(c2s'[i], t), IsData(c2s'[j], t), c2s'[i].seq = c2s'[j].seq
               PROVE  i = j
    BY DEF DataOnce
  <2>1. i + d = j + d
    BY <1>1, <1>3 DEF DataOnce
  <2> QED
    BY <1>2, <2>1
<1>5. ASSUME NEW n, Going(t, n)' PROVE Going(t, n)
  <2>1. PICK i \in 1 .. Len(c2s') : IsData(c2s'[i], t) /\ c2s'[i].seq = n
    BY <1>5 DEF Going
  <2> QED
    BY <1>1, <1>3, <2>1 DEF Going
<1> QED
  BY <1>4, <1>5

\* The frame the loop took was the only one of its chunk.
LEMMA DataTaken ==
    ASSUME Types, NEW K, Takes(K), NEW t, NEW n, DataOnce(c2s, t), IsData(c2s[1], t), n = c2s[1].seq
    PROVE  ~Going(t, n)'
<1>1. /\ Len(c2s) \in Nat /\ Len(c2s) >= 1 /\ Len(c2s') = Len(c2s) - 1
      /\ \A i \in 1 .. Len(c2s') : c2s'[i] = c2s[i + 1]
  BY TakesFacts, TypesSplit
<1>2. ASSUME NEW i \in 1 .. Len(c2s'), IsData(c2s'[i], t), c2s'[i].seq = n PROVE FALSE
  <2>1. i + 1 \in 1 .. Len(c2s) /\ 1 \in 1 .. Len(c2s) /\ i + 1 # 1
    BY <1>1
  <2>2. IsData(c2s[i + 1], t) /\ c2s[i + 1].seq = n
    BY <1>1, <1>2
  <2> QED
    BY <2>1, <2>2 DEF DataOnce
<1>3. ~\E i \in 1 .. Len(c2s') : IsData(c2s'[i], t) /\ c2s'[i].seq = n
  BY <1>2
<1> QED
  BY <1>3 DEF Going

\* A growing queue: the chunks are new and there is one frame of each.
LEMMA DataGrows ==
    ASSUME Types, NEW t, DataOnce(c2s, t), NEW fs \in Seq(Frames), c2s' = c2s \o fs,
           \A i \in 1 .. Len(fs) : IsData(fs[i], t) => ~Going(t, fs[i].seq),
           \A i, j \in 1 .. Len(fs) :
              IsData(fs[i], t) /\ IsData(fs[j], t) /\ fs[i].seq = fs[j].seq => i = j
    PROVE  /\ DataOnce(c2s, t)'
           /\ \A n : Going(t, n)' =>
                 Going(t, n) \/ \E i \in 1 .. Len(fs) : IsData(fs[i], t) /\ fs[i].seq = n
<1>1. /\ Len(c2s') = Len(c2s) + Len(fs) /\ Len(c2s) \in Nat /\ Len(fs) \in Nat
      /\ \A i \in 1 .. Len(c2s) : c2s'[i] = c2s[i]
      /\ \A i \in Len(c2s) + 1 .. Len(c2s) + Len(fs) : c2s'[i] = fs[i - Len(c2s)]
  BY Queues, ConcatFacts
<1>2. ASSUME NEW i \in 1 .. Len(c2s')
      PROVE  \/ i \in 1 .. Len(c2s) /\ c2s'[i] = c2s[i]
             \/ i - Len(c2s) \in 1 .. Len(fs) /\ c2s'[i] = fs[i - Len(c2s)] /\ i \notin 1 .. Len(c2s)
  BY <1>1, <1>2
<1>3. ASSUME NEW n, Going(t, n)'
      PROVE  Going(t, n) \/ \E i \in 1 .. Len(fs) : IsData(fs[i], t) /\ fs[i].seq = n
  <2>1. PICK i \in 1 .. Len(c2s') : IsData(c2s'[i], t) /\ c2s'[i].seq = n
    BY <1>3 DEF Going
  <2> QED
    BY <1>2, <2>1 DEF Going
<1>4. DataOnce(c2s, t)'
  <2> SUFFICES ASSUME NEW i \in 1 .. Len(c2s'), NEW j \in 1 .. Len(c2s'),
                      IsData(c2s'[i], t), IsData(c2s'[j], t), c2s'[i].seq = c2s'[j].seq
               PROVE  i = j
    BY DEF DataOnce
  <2>0. i \in Int /\ j \in Int /\ Len(c2s) \in Int
    BY <1>1
  <2>1. CASE i \in 1 .. Len(c2s) /\ j \in 1 .. Len(c2s)
    BY <1>1, <2>1 DEF DataOnce
  <2>2. CASE i \notin 1 .. Len(c2s) /\ j \notin 1 .. Len(c2s)
    <3>1. i - Len(c2s) = j - Len(c2s)
      BY <1>2, <2>2
    <3> QED
      BY <2>0, <3>1
  <2>3. CASE i \in 1 .. Len(c2s) /\ j \notin 1 .. Len(c2s)
    BY <1>2, <2>3 DEF Going
  <2>4. CASE i \notin 1 .. Len(c2s) /\ j \in 1 .. Len(c2s)
    BY <1>2, <2>4 DEF Going
  <2> QED
    BY <2>1, <2>2, <2>3, <2>4
<1> QED
  BY <1>3, <1>4

\* An answer more: if it acknowledges a chunk of t, there was no such answer.
LEMMA AckAdds ==
    ASSUME Types, NEW t, AckOnce(s2c, t), NEW m, Answer(m), IsAck(m, t) => ~Coming(t, m.seq)
    PROVE  /\ AckOnce(s2c, t)'
           /\ \A n : Coming(t, n)' => Coming(t, n) \/ (IsAck(m, t) /\ m.seq = n)
<1>0. s2c \in Seq(Replies) /\ Len(s2c) \in Nat
  BY Queues
<1>1. CASE s2c' = s2c
  BY <1>1 DEF Coming
<1>2. CASE s2c' = Append(s2c, m)
  <2>1. /\ Len(s2c') = Len(s2c) + 1 /\ s2c'[Len(s2c) + 1] = m
        /\ \A i \in 1 .. Len(s2c) : s2c'[i] = s2c[i]
    BY <1>0, <1>2
  <2>2. \A i \in 1 .. Len(s2c') : i = Len(s2c) + 1 \/ i \in 1 .. Len(s2c)
    BY <1>0, <2>1
  <2>3. ASSUME NEW n, Coming(t, n)' PROVE Coming(t, n) \/ (IsAck(m, t) /\ m.seq = n)
    <3>1. PICK i \in 1 .. Len(s2c') : IsAck(s2c'[i], t) /\ s2c'[i].seq = n
      BY <2>3 DEF Coming
    <3> QED
      BY <2>1, <2>2, <3>1 DEF Coming
  <2>4. AckOnce(s2c, t)'
    <3> SUFFICES ASSUME NEW i \in 1 .. Len(s2c'), NEW j \in 1 .. Len(s2c'),
                        IsAck(s2c'[i], t), IsAck(s2c'[j], t), s2c'[i].seq = s2c'[j].seq
                 PROVE  i = j
      BY DEF AckOnce
    <3> QED
      BY <2>1, <2>2 DEF AckOnce, Coming
  <2> QED
    BY <2>3, <2>4
<1> QED
  BY <1>1, <1>2 DEF Answer

\* An answer less: if it acknowledged a chunk of t, there is no other.
LEMMA AckTaken ==
    ASSUME Parameters, Types, NEW t, AckOnce(s2c, t), Receive
    PROVE  /\ AckOnce(s2c, t)' /\ \A n : Coming(t, n)' => Coming(t, n)
           /\ \A n : IsAck(s2c[1], t) /\ s2c[1].seq = n => Coming(t, n) /\ ~Coming(t, n)'
<1>1. /\ Len(s2c) \in Nat /\ Len(s2c) >= 1 /\ Len(s2c') = Len(s2c) - 1
      /\ \A i \in 1 .. Len(s2c') : s2c'[i] = s2c[i + 1]
  BY ReceiveMoves
<1>2. 1 \in 1 .. Len(s2c) /\ \A i \in 1 .. Len(s2c') : i + 1 \in 1 .. Len(s2c) /\ i + 1 # 1
  BY <1>1
<1>3. ASSUME NEW n, Coming(t, n)' PROVE Coming(t, n) /\ ~(IsAck(s2c[1], t) /\ s2c[1].seq = n)
  <2>1. PICK i \in 1 .. Len(s2c') : IsAck(s2c'[i], t) /\ s2c'[i].seq = n
    BY <1>3 DEF Coming
  <2>2. i + 1 \in 1 .. Len(s2c) /\ IsAck(s2c[i + 1], t) /\ s2c[i + 1].seq = n
    BY <1>1, <1>2, <2>1
  <2>3. i + 1 # 1
    BY <1>2
  <2> QED
    BY <1>2, <2>2, <2>3 DEF Coming, AckOnce
<1>4. AckOnce(s2c, t)'
  <2> SUFFICES ASSUME NEW i \in 1 .. Len(s2c'), NEW j \in 1 .. Len(s2c'),
                      IsAck(s2c'[i], t), IsAck(s2c'[j], t), s2c'[i].seq = s2c'[j].seq
               PROVE  i = j
    BY DEF AckOnce
  <2>1. i + 1 = j + 1
    BY <1>1, <1>2 DEF AckOnce
  <2> QED
    BY <1>1, <2>1
<1>5. ASSUME NEW n, IsAck(s2c[1], t), s2c[1].seq = n PROVE Coming(t, n)
  BY <1>2, <1>5 DEF Coming
<1> QED
  BY <1>3, <1>4, <1>5

\* A move that puts no chunk on the wire.
LEMMA NothingSent ==
    ASSUME Types, Types', NEW t, DataOnce(c2s, t),
           \/ c2s' = c2s /\ sock' = sock
           \/ \E fs \in Seq(Frames) :
                 c2s' = c2s \o fs /\ \A i \in 1 .. Len(fs) : ~IsData(fs[i], t)
    PROVE  DataOnce(c2s, t)' /\ \A n : Going(t, n)' => Going(t, n)
<1>1. CASE c2s' = c2s /\ sock' = sock
  BY <1>1, SameShrinks, DataShrinks
<1>2. ASSUME NEW fs \in Seq(Frames), c2s' = c2s \o fs, \A i \in 1 .. Len(fs) : ~IsData(fs[i], t)
      PROVE  DataOnce(c2s, t)' /\ \A n : Going(t, n)' => Going(t, n)
  BY <1>2, DataGrows
<1> QED
  BY <1>1, <1>2

\* The chunk loop: what it drops from the window is not under way, and what
\* it sends is new.
LEMMA FeedFlight ==
    ASSUME Parameters, Types, Types', NEW t \in Chunked, Phase(t), Flight(t), NEW y \in Requests,
           req'[t] = y, Feeds(t, req[t], y), UNCHANGED <<sock, s2c>>
    PROVE  Flight(t)'
<1>0. t \in Transfers
  BY Kinds
<1> DEFINE x == req[t]
<1>1. PICK k \in Nat, w \in Seq(0 .. MaxChunks) :
          /\ x.sent + k <= ChunkCount(t) /\ Len(w) + k <= WindowSize
          /\ \/ w = x.window
             \/ /\ Len(x.window) = WindowSize /\ w = Tail(x.window)
                /\ Head(x.window) \notin x.waiting \union x.failed
          /\ y = Fed(x, w, k)
          /\ c2s' = IF sock = "open" THEN c2s \o ChunkFrames(t, x.sent, x.sent + k) ELSE c2s
  BY DEF Feeds
<1>2. /\ y.pc = x.pc /\ y.sent = x.sent + k
      /\ Len(y.window) = Len(w) + k
      /\ \A i \in 1 .. Len(w) : y.window[i] = w[i]
      /\ \A i \in Len(w) + 1 .. Len(w) + k : y.window[i] = x.sent + (i - Len(w)) - 1
      /\ y.waiting \union y.failed = x.waiting \union x.failed \union (x.sent .. x.sent + k - 1)
  BY <1>0, <1>1, FedWindow
<1>3. x.pc = "chunks" /\ x \in Requests
  BY <1>0, RequestTyped DEF Feeds
<1>4. x.sent \in Nat /\ WindowSize \in Nat /\ WindowSize >= 1 /\ Len(w) \in Nat /\ MaxChunks \in Nat
  BY <1>3 DEF Requests, Parameters
<1>5. x.window \in Seq(0 .. MaxChunks) /\ Len(x.window) \in Nat
  BY <1>3, SMTT(30) DEF Requests
<1>6. /\ Len(x.window) <= WindowSize /\ Len(x.window) <= x.sent
      /\ \A i \in 1 .. Len(x.window) : x.window[i] = x.sent - Len(x.window) + i - 1
  BY <1>3 DEF Flight, WindowIsLast
<1>7. /\ Len(w) <= WindowSize /\ Len(w) <= x.sent
      /\ \A i \in 1 .. Len(w) : w[i] = x.sent - Len(w) + i - 1
      /\ \A n \in 0 .. MaxChunks : Near(t, n) => x.sent <= n + Len(w)
  <2>1. CASE w = x.window
    BY <1>3, <1>6, <2>1 DEF Near
  <2>2. CASE /\ Len(x.window) = WindowSize /\ w = Tail(x.window)
             /\ Head(x.window) \notin x.waiting \union x.failed
    <3>1. PICK v : v = x.window
      OBVIOUS
    <3>2. v \in Seq(0 .. MaxChunks) /\ v # <<>>
      BY <1>4, <1>5, <2>2, <3>1
    <3>3. /\ Len(w) = Len(v) - 1 /\ Head(v) = v[1]
          /\ \A i \in 1 .. Len(w) : w[i] = v[i + 1]
      BY <2>2, <3>1, <3>2, TailFacts
    <3>4. Len(v) = WindowSize /\ Len(w) = WindowSize - 1 /\ WindowSize <= x.sent
      BY <1>6, <2>2, <3>1, <3>3
    <3>5. \A i \in 1 .. WindowSize : v[i] = x.sent - WindowSize + i - 1
      BY <1>6, <3>1, <3>4
    <3>6. \A i \in 1 .. Len(w) : i + 1 \in 1 .. WindowSize /\ x.sent - WindowSize + (i + 1) - 1 = x.sent - Len(w) + i - 1
      BY <1>4, <3>4
    <3>7. \A i \in 1 .. Len(w) : w[i] = x.sent - Len(w) + i - 1
      BY <3>3, <3>5, <3>6
    <3>8. v[1] = x.sent - WindowSize
      BY <1>4, <3>5
    <3>9. ASSUME NEW n \in 0 .. MaxChunks, Near(t, n) PROVE x.sent <= n + Len(w)
      <4>1. x.sent <= n + WindowSize /\ n \in x.waiting \union x.failed
        BY <1>3, <3>9 DEF Near
      <4>2. n # x.sent - WindowSize
        BY <2>2, <3>1, <3>3, <3>8, <4>1
      <4> QED
        BY <1>4, <3>4, <4>1, <4>2
    <3> QED
      BY <1>4, <3>4, <3>7, <3>9
  <2> QED
    BY <1>1, <2>1, <2>2
<1> DEFINE all == Len(w) + k
<1>8. WindowIsLast(t)'
  <2>1. all \in Nat /\ all <= WindowSize /\ all <= y.sent
    BY <1>1, <1>2, <1>4, <1>7
  <2>2. ASSUME NEW i \in 1 .. all PROVE y.window[i] = y.sent - all + i - 1
    <3>1. y.sent - all + i - 1 = x.sent - Len(w) + i - 1
      BY <1>2, <1>4
    <3>2. CASE i <= Len(w)
      <4>1. i \in 1 .. Len(w)
        BY <1>4, <3>2
      <4>2. y.window[i] = w[i] /\ w[i] = x.sent - Len(w) + i - 1
        BY <1>2, <1>7, <4>1
      <4> QED
        BY <3>1, <4>2
    <3>3. CASE i > Len(w)
      <4>1. i \in Len(w) + 1 .. Len(w) + k
        BY <1>4, <3>3
      <4>2. x.sent + (i - Len(w)) - 1 = x.sent - Len(w) + i - 1
        BY <1>4
      <4> QED
        BY <1>2, <3>1, <4>1, <4>2
    <3> QED
      BY <1>4, <3>2, <3>3
  <2> HIDE DEF x, all
  <2>3. Len(y.window) = all
    BY <1>2 DEF all
  <2> QED
    BY <2>1, <2>2, <2>3 DEF WindowIsLast
<1>9. ASSUME NEW n \in 0 .. MaxChunks, Near(t, n) \/ n \in x.sent .. x.sent + k - 1
      PROVE  Near(t, n)'
  <2>1. n < y.sent /\ y.sent <= n + WindowSize /\ y.sent <= n + Len(y.window)
    <3>1. CASE Near(t, n)
      <4>1. n < x.sent /\ x.sent <= n + Len(w)
        BY <1>7, <3>1 DEF Near
      <4> QED
        BY <1>1, <1>2, <1>4, <4>1, SMTT(30)
    <3>2. CASE n \in x.sent .. x.sent + k - 1
      BY <1>1, <1>2, <1>4, <3>2, SMTT(30)
    <3> QED
      BY <1>9, <3>1, <3>2
  <2>2. n \in y.waiting \union y.failed
    BY <1>2, <1>3, <1>9 DEF Near
  <2> HIDE DEF x
  <2> QED
    BY <2>1, <2>2 DEF Near
<1>10. \A n : Near(t, n) => n < x.sent
  BY DEF Near
<1>11. ASSUME NEW n \in 0 .. MaxChunks, n \in x.sent .. x.sent + k - 1 PROVE ~Going(t, n) /\ ~Coming(t, n)
  <2>1. ~Near(t, n)
    BY <1>4, <1>10, <1>11
  <2> QED
    BY <2>1 DEF Flight
<1>12. AckOnce(s2c, t)' /\ \A n : Coming(t, n)' <=> Coming(t, n)
  BY DEF Flight, Coming
<1>13. CASE sock # "open"
  <2>1. c2s' = c2s
    BY <1>1, <1>13
  <2>2. DataOnce(c2s, t)' /\ \A n : Going(t, n)' => Going(t, n)
    BY <2>1, NothingSent DEF Flight
  <2> QED
    BY <1>8, <1>9, <1>12, <2>2, FlightKept
<1>14. CASE sock = "open"
  <2>1. PICK from \in Nat : from = x.sent
    BY <1>4
  <2>2. PICK fs : fs = ChunkFrames(t, from, from + k)
    OBVIOUS
  <2>3. c2s' = c2s \o fs /\ from + k <= MaxChunks + 1
    BY <1>0, <1>1, <1>4, <1>14, <2>1, <2>2, ChunkCountFacts
  <2>4. /\ fs \in Seq(Frames) /\ Len(fs) = 2 * k
        /\ \A i \in 1 .. 2 * k : fs[i].seq \in Nat /\ from <= fs[i].seq /\ fs[i].seq < from + k
        /\ \A i, j \in 1 .. 2 * k :
              fs[i].kind = "data" /\ fs[j].kind = "data" /\ fs[i].seq = fs[j].seq => i = j
    BY <1>0, <1>4, <2>2, <2>3, ChunkFramesFacts
  <2>5. \A i \in 1 .. Len(fs) : fs[i].seq \in 0 .. MaxChunks /\ fs[i].seq \in x.sent .. x.sent + k - 1
    <3>1. ASSUME NEW i \in 1 .. Len(fs)
          PROVE  fs[i].seq \in 0 .. MaxChunks /\ fs[i].seq \in from .. from + k - 1
      <4>1. fs[i].seq \in Nat /\ from <= fs[i].seq /\ fs[i].seq < from + k
        BY <2>4
      <4>2. PICK n : n = fs[i].seq
        OBVIOUS
      <4>3. n \in 0 .. MaxChunks /\ n \in from .. from + k - 1
        BY <1>4, <2>3, <4>1, <4>2
      <4> QED
        BY <4>2, <4>3
    <3> QED
      BY <2>1, <3>1
  <2>6. \A i \in 1 .. Len(fs) : IsData(fs[i], t) => ~Going(t, fs[i].seq)
    BY <1>11, <2>5
  <2>7. /\ DataOnce(c2s, t)'
        /\ \A n : Going(t, n)' => Going(t, n) \/ \E i \in 1 .. Len(fs) : IsData(fs[i], t) /\ fs[i].seq = n
    <3>1. \A i, j \in 1 .. Len(fs) :
              IsData(fs[i], t) /\ IsData(fs[j], t) /\ fs[i].seq = fs[j].seq => i = j
      BY <2>4 DEF IsData
    <3>2. DataOnce(c2s, t)
      BY DEF Flight
    <3> QED
      BY <2>3, <2>4, <2>6, <3>1, <3>2, DataGrows
  <2>8. ASSUME NEW n \in 0 .. MaxChunks
        PROVE  /\ Going(t, n)' \/ Coming(t, n)' => Near(t, n)'
               /\ ~(Going(t, n)' /\ Coming(t, n)')
    <3>1. Going(t, n)' => Going(t, n) \/ n \in x.sent .. x.sent + k - 1
      BY <2>5, <2>7
    <3>2. /\ Going(t, n) \/ Coming(t, n) => Near(t, n)
          /\ ~(Going(t, n) /\ Coming(t, n))
      BY DEF Flight
    <3> QED
      BY <1>9, <1>11, <1>12, <3>1, <3>2
  <2> QED
    BY <1>8, <1>12, <2>7, <2>8 DEF Flight
<1> QED
  BY <1>13, <1>14

\* A step of the client.
LEMMA ClientFlight ==
    ASSUME Parameters, Types, Types', \A v \in Transfers : Phase(v) /\ WindowIsLast(v),
           NEW u \in Chunked, Flight(u),
           NEW t \in Transfers, Start(t) \/ ClientStep(t) \/ Timeout(t)
    PROVE  Flight(u)'
<1>1. UNCHANGED <<sock, s2c>>
  BY ClientMoves
<1>2. PICK y \in Requests : req' = [req EXCEPT ![t] = y] /\ ClientMove(t, req[t], y)
  BY ClientMoves
<1>3. req'[t] = y /\ \A v \in Transfers \ {t} : req'[v] = req[v]
  BY <1>2, RequestTyped
<1>4. u \in Transfers /\ u \notin Saves /\ Phase(u) /\ WindowIsLast(u) /\ DataOnce(c2s, u)
  BY Kinds DEF Flight
<1>5. AckOnce(s2c, u)' /\ \A n : Coming(u, n)' => Coming(u, n)
  BY <1>1 DEF Flight, Coming
<1>6. CASE u # t
  <2>1. req'[u] = req[u]
    BY <1>3, <1>4, <1>6
  <2>2. WindowIsLast(u)' /\ \A n : Near(u, n) => Near(u, n)'
    BY <1>4, <2>1 DEF WindowIsLast, Near
  <2>3. c2s' = c2s \/ \E fs \in Seq(Frames) : /\ c2s' = c2s \o fs
                                              /\ \A i \in 1 .. Len(fs) : ~IsData(fs[i], u)
    <3>1. c2s' = c2s \/ \E fs \in Seq(Frames) : Batch(fs, t) /\ c2s' = c2s \o fs
      BY <1>1, <1>2, ClientQueue
    <3> QED
      BY <1>6, <3>1 DEF Batch, IsData
  <2>4. DataOnce(c2s, u)' /\ \A n : Going(u, n)' => Going(u, n)
    BY <1>1, <1>4, <2>3, NothingSent
  <2> QED
    BY <1>5, <2>2, <2>4, FlightKept
<1>7. CASE u = t /\ Feeds(t, req[t], y)
  BY <1>1, <1>3, <1>4, <1>7, FeedFlight
<1>8. CASE u = t /\ ~Feeds(t, req[t], y)
  <2>1. /\ y.sent = req[t].sent
        /\ y.pc # "chunks" \/ (Rests(req[t], y) /\ c2s' = c2s)
    BY <1>2, <1>8 DEF ClientMove, Chooses, Opens, GivesUp, SendsCommit, Rests
  <2>2. WindowIsLast(u)' /\ \A n : Near(u, n) => Near(u, n)'
    <3>1. CASE y.pc # "chunks"
      BY <1>3, <1>8, <2>1, <3>1 DEF WindowIsLast, Near
    <3>2. CASE Rests(req[t], y)
      BY <1>3, <1>4, <1>8, <3>2, WindowRests
    <3> QED
      BY <2>1, <3>1, <3>2
  <2>3. \/ c2s' = c2s \/ c2s' = c2s \o Opening(t) \/ c2s' = c2s \o <<Frame("commit", t, 0)>>
    BY <1>2, <1>8 DEF ClientMove, Chooses, Opens, GivesUp, SendsCommit
  <2>4. ASSUME NEW kind \in {"begin", "commit"}
        PROVE  <<Frame(kind, t, 0)>> \in Seq(Frames) /\ \A i \in 1 .. Len(<<Frame(kind, t, 0)>>) : ~IsData(<<Frame(kind, t, 0)>>[i], u)
    <3>1. PICK m : m = Frame(kind, t, 0)
      OBVIOUS
    <3>2. m \in Frames /\ ~IsData(m, u)
      BY <3>1 DEF Frame, Frames, Parameters, IsData
    <3>3. <<m>> \in Seq(Frames) /\ Len(<<m>>) = 1 /\ <<m>>[1] = m
      BY <3>2
    <3> QED
      BY <3>1, <3>2, <3>3
  <2>5. DataOnce(c2s, u)' /\ \A n : Going(u, n)' => Going(u, n)
    <3>1. Opening(t) = <<Frame("begin", t, 0)>>
      BY <1>4, <1>8, OpeningTyped
    <3> QED
      BY <1>1, <1>4, <2>3, <2>4, <3>1, NothingSent
  <2> QED
    BY <1>5, <2>2, <2>5, FlightKept
<1> QED
  BY <1>6, <1>7, <1>8

\* A message arrives, or the socket closes.
LEMMA SocketFlight ==
    ASSUME Parameters, Types, Types', \A v \in Transfers : Phase(v),
           NEW u \in Chunked, Flight(u), Receive \/ Close
    PROVE  Flight(u)'
<1>0. u \in Transfers /\ Phase(u) /\ WindowIsLast(u) /\ DataOnce(c2s, u) /\ AckOnce(s2c, u)
  BY Kinds DEF Flight
<1>1. DataOnce(c2s, u)' /\ \A n : Going(u, n)' => Going(u, n)
  BY <1>0, OthersShrink, DataShrinks
<1>2. CASE Close
  <2>1. s2c' = <<>> /\ Failed(req[u], req'[u])
    BY <1>0, <1>2, CloseMoves
  <2>2. Len(s2c') = 0
    BY <2>1
  <2>3. AckOnce(s2c, u)' /\ \A n : Coming(u, n)' => Coming(u, n)
    BY <2>2 DEF AckOnce, Coming
  <2>4. WindowIsLast(u)' /\ \A n : Near(u, n) => Near(u, n)'
    <3>1. CASE Rests(req[u], req'[u])
      BY <1>0, <3>1, WindowRests
    <3>2. CASE req'[u].pc = "done" /\ req'[u].sent = req[u].sent
      BY <3>2 DEF WindowIsLast, Near
    <3> QED
      BY <2>1, <3>1, <3>2 DEF Failed
  <2> QED
    BY <1>1, <2>3, <2>4, FlightKept
<1>3. CASE Receive
  <2>1. PICK m, t : m = s2c[1] /\ t = m.t
    OBVIOUS
  <2>2. PICK y \in Requests : req' = [req EXCEPT ![t] = y] /\ Told(t, req[t], y, m)
    BY <1>3, <2>1, ReceiveMoves
  <2>3. t \in Transfers /\ req'[t] = y /\ \A v \in Transfers \ {t} : req'[v] = req[v]
    BY <1>3, <2>1, <2>2, RequestTyped, ReceiveMoves
  <2>4. /\ AckOnce(s2c, u)' /\ \A n : Coming(u, n)' => Coming(u, n)
        /\ \A n : IsAck(m, u) /\ m.seq = n => Coming(u, n) /\ ~Coming(u, n)'
    BY <1>0, <1>3, <2>1, AckTaken
  <2>5. CASE t # u
    <3>1. req'[u] = req[u]
      BY <1>0, <2>3, <2>5
    <3>2. WindowIsLast(u)' /\ \A n : Near(u, n) => Near(u, n)'
      BY <1>0, <3>1 DEF WindowIsLast, Near
    <3> QED
      BY <1>1, <2>4, <3>2, FlightKept
  <2>6. CASE t = u
    <3>0. req'[u] = y /\ Told(u, req[u], y, m) /\ u \notin Reads
      BY <2>2, <2>3, <2>6, Kinds
    <3>1. CASE y = req[u] \/ (y.pc \notin {"chunks"} /\ y.sent = req[u].sent)
      <4>1. WindowIsLast(u)' /\ \A n : Near(u, n) => Near(u, n)'
        BY <1>0, <3>0, <3>1 DEF WindowIsLast, Near
      <4> QED
        BY <1>1, <2>4, <4>1, FlightKept
    <3>2. CASE req[u].pc = "begin" /\ y.sent = req[u].sent /\ y.window = req[u].window
      <4>1. req[u].sent = 0 /\ req[u].window = <<>>
        BY <1>0, <3>2 DEF Phase
      <4>2. ASSUME NEW n \in 0 .. MaxChunks PROVE ~Near(u, n)
        BY <4>1, <4>2 DEF Near, Parameters
      <4>3. y.sent = 0 /\ Len(y.window) = 0 /\ WindowSize \in Nat
        BY <3>2, <4>1 DEF Parameters
      <4>4. WindowIsLast(u)'
        BY <3>0, <4>3 DEF WindowIsLast
      <4> QED
        BY <1>1, <2>4, <4>2, <4>4, FlightKept
    <3>3. CASE /\ m.kind = "ack" /\ y.pc = req[u].pc /\ y.sent = req[u].sent /\ y.window = req[u].window
               /\ y.failed = req[u].failed /\ y.waiting = req[u].waiting \ {m.seq}
      <4>1. IsAck(m, u)
        BY <2>1, <2>6, <3>3 DEF IsAck
      <4>2. WindowIsLast(u)'
        BY <1>0, <3>0, <3>3 DEF WindowIsLast
      <4>3. \A n : n # m.seq /\ Near(u, n) => Near(u, n)'
        BY <3>0, <3>3 DEF Near
      <4>4. ASSUME NEW n \in 0 .. MaxChunks, n = m.seq PROVE ~Going(u, n)' /\ ~Coming(u, n)'
        <5>1. Coming(u, n) /\ ~Coming(u, n)'
          BY <2>4, <4>1, <4>4
        <5>2. ~Going(u, n)
          BY <5>1 DEF Flight
        <5> QED
          BY <1>1, <5>1, <5>2
      <4> QED
        BY <1>1, <2>4, <4>2, <4>3, <4>4, FlightKept
    <3> QED
      BY <3>0, <3>1, <3>2, <3>3 DEF Told
  <2> QED
    BY <2>5, <2>6
<1> QED
  BY <1>2, <1>3

\* The loop stores a chunk: its frame is gone and its acknowledgement under way.
LEMMA DataFlight ==
    ASSUME Parameters, Types, Types', \A v \in Transfers : Phase(v), Wire, Slot,
           NEW u \in Chunked, Flight(u), ServerData
    PROVE  Flight(u)'
<1>1. Takes({"data"}) /\ req' = req /\ sock' = sock
  BY DEF ServerData, client
<1>2. PICK m, t, n : m = c2s[1] /\ t = m.t /\ n = m.seq
  OBVIOUS
<1>3. m.kind = "data" /\ 1 \in 1 .. Len(c2s) /\ n \in 0 .. MaxChunks
  BY <1>1, <1>2, TakesFacts, TypesSplit, Queues
<1>4. s2c' = s2c \/ Answer(Reply("ack", t, n, "ok"))
  BY <1>2, DataMoves
<1>5. DataOnce(c2s, u) /\ AckOnce(s2c, u) /\ WindowIsLast(u)
  BY DEF Flight
<1>6. DataOnce(c2s, u)' /\ \A i : Going(u, i)' => Going(u, i)
  BY <1>1, <1>5, TailShrinks, DataShrinks
<1>7. WindowIsLast(u)' /\ \A i : Near(u, i) => Near(u, i)'
  BY <1>1, <1>5 DEF WindowIsLast, Near
<1>8. CASE s2c' = s2c
  <2>1. AckOnce(s2c, u)' /\ \A i : Coming(u, i)' => Coming(u, i)
    BY <1>5, <1>8 DEF Coming
  <2> QED
    BY <1>6, <1>7, <2>1, FlightKept
<1>9. CASE Answer(Reply("ack", t, n, "ok"))
  <2>1. PICK a : a = Reply("ack", t, n, "ok")
    OBVIOUS
  <2>2. Answer(a) /\ a.kind = "ack" /\ a.t = t /\ a.seq = n
    BY <1>9, <2>1 DEF Reply
  <2>3. CASE t # u
    <3>1. ~IsAck(a, u)
      BY <2>2, <2>3 DEF IsAck
    <3>2. AckOnce(s2c, u)' /\ \A i : Coming(u, i)' => Coming(u, i)
      BY <1>5, <2>2, <3>1, AckAdds
    <3> QED
      BY <1>6, <1>7, <3>2, FlightKept
  <2>4. CASE t = u
    <3>1. IsData(c2s[1], u)
      BY <1>2, <1>3, <2>4 DEF IsData
    <3>2. Going(u, n) /\ ~Going(u, n)'
      <4>1. Going(u, n)
        BY <1>2, <1>3, <3>1 DEF Going
      <4>2. ~Going(u, n)'
        BY <1>1, <1>2, <1>5, <3>1, DataTaken
      <4> QED
        BY <4>1, <4>2
    <3>3. Near(u, n) /\ ~Coming(u, n)
      BY <1>3, <3>2 DEF Flight
    <3>4. AckOnce(s2c, u)' /\ \A i : Coming(u, i)' => Coming(u, i) \/ i = n
      BY <1>5, <2>2, <3>3, AckAdds
    <3>5. ASSUME NEW i \in 0 .. MaxChunks
          PROVE  /\ Going(u, i)' \/ Coming(u, i)' => Near(u, i)'
                 /\ ~(Going(u, i)' /\ Coming(u, i)')
      <4>1. /\ Going(u, i) \/ Coming(u, i) => Near(u, i)
            /\ ~(Going(u, i) /\ Coming(u, i))
        BY DEF Flight
      <4> QED
        BY <1>6, <1>7, <3>2, <3>3, <3>4, <4>1
    <3> QED
      BY <1>6, <1>7, <3>4, <3>5 DEF Flight
  <2> QED
    BY <2>3, <2>4
<1> QED
  BY <1>4, <1>8, <1>9

\* Every step keeps a transfer within its window.
LEMMA FlightStep ==
    ASSUME Parameters, Types, Types', \A v \in Transfers : Phase(v) /\ WindowIsLast(v), Wire, Slot,
           NEW u \in Chunked, Flight(u), [FilesNext]_filesVars
    PROVE  Flight(u)'
<1>1. ASSUME NEW t \in Transfers, Start(t) \/ ClientStep(t) \/ Timeout(t) PROVE Flight(u)'
  BY <1>1, ClientFlight
<1>2. CASE Receive \/ Close
  BY <1>2, SocketFlight
<1>3. CASE ServerData
  BY <1>3, DataFlight
<1>4. ASSUME (ServerStep /\ ~ServerData) \/ ExternalChange \/ Tick \/ UNCHANGED filesVars,
             s2c' = s2c \/ \E m : Answer(m) /\ m.kind # "ack"
      PROVE  Flight(u)'
  <2>1. req' = req /\ Shrinks
    BY <1>4, ServerMoves, OthersShrink
  <2>2. DataOnce(c2s, u) /\ AckOnce(s2c, u) /\ WindowIsLast(u)
    BY DEF Flight
  <2>3. DataOnce(c2s, u)' /\ \A n : Going(u, n)' => Going(u, n)
    BY <2>1, <2>2, DataShrinks
  <2>4. WindowIsLast(u)' /\ \A n : Near(u, n) => Near(u, n)'
    BY <2>1, <2>2 DEF WindowIsLast, Near
  <2>5. AckOnce(s2c, u)' /\ \A n : Coming(u, n)' => Coming(u, n)
    <3>1. CASE s2c' = s2c
      BY <2>2, <3>1 DEF Coming
    <3>2. ASSUME NEW m, Answer(m), m.kind # "ack"
          PROVE  AckOnce(s2c, u)' /\ \A n : Coming(u, n)' => Coming(u, n)
      <4>1. ~IsAck(m, u)
        BY <3>2 DEF IsAck
      <4> QED
        BY <2>2, <3>2, <4>1, AckAdds
    <3> QED
      BY <1>4, <3>1, <3>2
  <2> QED
    BY <2>3, <2>4, <2>5, FlightKept
<1>5. ASSUME (ServerStep /\ ~ServerData) \/ ExternalChange \/ Tick \/ UNCHANGED filesVars
      PROVE  s2c' = s2c \/ \E m : Answer(m) /\ m.kind # "ack"
  <2>1. \A kind, t, n, how : Reply(kind, t, n, how).kind = kind
    BY DEF Reply
  <2>2. s2c' = s2c \/ \E kind \in {"beginOk", "fsError", "result"} : \E t, how : Answer(Reply(kind, t, 0, how))
    <3>1. CASE ServerBegin
      BY <3>1 DEF ServerBegin
    <3>2. CASE ServerHead
      BY <3>2 DEF ServerHead
    <3>3. CASE ServerCommit
      BY <3>3 DEF ServerCommit
    <3>4. CASE ServerCheck
      BY <3>4 DEF ServerCheck
    <3>5. CASE ServerRename
      BY <3>5 DEF ServerRename
    <3>6. CASE ServerEnd \/ ExternalChange \/ Tick \/ UNCHANGED filesVars
      BY <3>6 DEF ServerEnd, ExternalChange, Tick, filesVars
    <3> QED
      BY <1>5, <3>1, <3>2, <3>3, <3>4, <3>5, <3>6 DEF ServerStep
  <2>3. ASSUME NEW kind \in {"beginOk", "fsError", "result"}, NEW t, NEW how, Answer(Reply(kind, t, 0, how))
        PROVE  \E m : Answer(m) /\ m.kind # "ack"
    <3>1. Reply(kind, t, 0, how).kind # "ack"
      BY <2>1
    <3> QED
      BY <2>3, <3>1
  <2> QED
    BY <2>2, <2>3
<1> QED
  BY <1>1, <1>2, <1>3, <1>4, <1>5 DEF FilesNext, ServerStep

-----------------------------------------------------------------------------
(* What the invariant says *)

\* Elements of a finite set of numbers, one for each position of D.
LEMMA CountByNumber ==
    ASSUME NEW D, NEW N, IsFiniteSet(N), NEW f \in [D -> N],
           \A i, j \in D : f[i] = f[j] => i = j
    PROVE  IsFiniteSet(D) /\ Cardinality(D) <= Cardinality(N)
<1>1. f \in Injection(D, N)
  BY DEF Injection, IsInjective
<1> QED
  BY <1>1, FS_Injection

\* The frames and acknowledgements under way are as many as their chunks, and
\* those are among the last WindowSize sent.
LEMMA FlightBound ==
    ASSUME Parameters, Types, NEW t \in Chunked, Flight(t)
    PROVE  Cardinality({i \in DOMAIN c2s : c2s[i].kind = "data" /\ c2s[i].t = t})
             + Cardinality({i \in DOMAIN s2c : s2c[i].kind = "ack" /\ s2c[i].t = t})
           <= WindowSize
<1> DEFINE D == {i \in DOMAIN c2s : c2s[i].kind = "data" /\ c2s[i].t = t}
           A == {i \in DOMAIN s2c : s2c[i].kind = "ack" /\ s2c[i].t = t}
           DN == {n \in 0 .. MaxChunks : Going(t, n)}
           AN == {n \in 0 .. MaxChunks : Coming(t, n)}
           N == (req[t].sent - WindowSize) .. (req[t].sent - 1)
<1>1. req[t].sent \in Nat /\ WindowSize \in Nat /\ WindowSize >= 1 /\ MaxChunks \in Nat
  BY Kinds, RequestTyped DEF Requests, Parameters
<1>2. IsFiniteSet(N) /\ Cardinality(N) = WindowSize
  <2>1. PICK a, b : a = req[t].sent - WindowSize /\ b = req[t].sent - 1
    OBVIOUS
  <2>2. a \in Int /\ b \in Int /\ ~(a > b) /\ b - a + 1 = WindowSize
    BY <1>1, <2>1
  <2>3. IsFiniteSet(a .. b) /\ Cardinality(a .. b) = b - a + 1
    BY <2>2, FS_Interval
  <2> QED
    BY <2>1, <2>2, <2>3
<1>3. DN \union AN \subseteq N /\ DN \intersect AN = {}
  <2>1. ASSUME NEW n \in 0 .. MaxChunks, Going(t, n) \/ Coming(t, n) PROVE n \in N
    <3>1. n < req[t].sent /\ req[t].sent <= n + WindowSize
      BY <2>1 DEF Flight, Near
    <3> QED
      BY <1>1, <3>1
  <2> HIDE DEF N
  <2> QED
    BY <2>1 DEF Flight
<1> HIDE DEF N
<1>4. IsFiniteSet(DN) /\ IsFiniteSet(AN)
  <2>1. DN \in SUBSET N /\ AN \in SUBSET N
    BY <1>3
  <2> QED
    BY <1>2, <2>1, FS_Subset
<1>5. Cardinality(DN) + Cardinality(AN) <= WindowSize
  <2>0. Cardinality(DN) \in Nat /\ Cardinality(AN) \in Nat
    BY <1>4, FS_CardinalityType
  <2>1. Cardinality(DN \union AN) = Cardinality(DN) + Cardinality(AN) - Cardinality(DN \intersect AN)
    BY <1>4, FS_Union
  <2>2. Cardinality(DN \intersect AN) = 0
    BY <1>3, FS_EmptySet
  <2>3. Cardinality(DN \union AN) <= Cardinality(N)
    <3>1. DN \union AN \in SUBSET N
      BY <1>3
    <3> QED
      BY <1>2, <3>1, FS_Subset
  <2> HIDE DEF DN, AN
  <2> QED
    BY <1>2, <2>0, <2>1, <2>2, <2>3
<1>6. DOMAIN c2s = 1 .. Len(c2s) /\ DOMAIN s2c = 1 .. Len(s2c)
  BY Queues
<1>7. IsFiniteSet(D) /\ Cardinality(D) <= Cardinality(DN)
  <2> DEFINE f == [i \in D |-> c2s[i].seq]
  <2>1. ASSUME NEW i \in D PROVE c2s[i].seq \in DN
    <3>1. i \in 1 .. Len(c2s) /\ IsData(c2s[i], t)
      BY <1>6 DEF IsData
    <3>2. c2s[i].seq \in 0 .. MaxChunks
      BY <3>1, Queues
    <3> QED
      BY <3>1, <3>2 DEF Going
  <2>2. \A i, j \in D : c2s[i].seq = c2s[j].seq => i = j
    BY <1>6 DEF Flight, DataOnce, IsData
  <2> HIDE DEF DN, D
  <2>3. f \in [D -> DN] /\ \A i, j \in D : f[i] = f[j] => i = j
    BY <2>1, <2>2
  <2> HIDE DEF f
  <2> QED
    BY <1>4, <2>3, CountByNumber
<1>8. IsFiniteSet(A) /\ Cardinality(A) <= Cardinality(AN)
  <2> DEFINE f == [i \in A |-> s2c[i].seq]
  <2>1. ASSUME NEW i \in A PROVE s2c[i].seq \in AN
    <3>1. i \in 1 .. Len(s2c) /\ IsAck(s2c[i], t)
      BY <1>6 DEF IsAck
    <3>2. s2c[i].seq \in 0 .. MaxChunks
      BY <3>1, Queues
    <3> QED
      BY <3>1, <3>2 DEF Coming
  <2>2. \A i, j \in A : s2c[i].seq = s2c[j].seq => i = j
    BY <1>6 DEF Flight, AckOnce, IsAck
  <2> HIDE DEF AN, A
  <2>3. f \in [A -> AN] /\ \A i, j \in A : f[i] = f[j] => i = j
    BY <2>1, <2>2
  <2> HIDE DEF f
  <2> QED
    BY <1>4, <2>3, CountByNumber
<1>9. /\ Cardinality(D) \in Nat /\ Cardinality(A) \in Nat
      /\ Cardinality(DN) \in Nat /\ Cardinality(AN) \in Nat
  BY <1>4, <1>7, <1>8, FS_CardinalityType
<1> HIDE DEF D, A, DN, AN
<1>10. Cardinality(D) + Cardinality(A) <= WindowSize
  BY <1>1, <1>5, <1>7, <1>8, <1>9
<1> QED
  BY <1>10 DEF D, A

\* The invariant gives what the run checks.
LEMMA InvSound ==
    ASSUME Parameters, Inv
    PROVE  FilesSound
<1>1. WindowBound
  BY FlightBound DEF Inv, WindowBound
<1>2. FilesTypeOK /\ AnswerIsTrue
  BY DEF Inv, Types, Commits
<1>3. CommittedIsWhole
  BY DEF Inv, Content, CommittedIsWhole
<1> QED
  BY <1>1, <1>2, <1>3 DEF FilesSound

\* Only a transfer of chunks has a window.
LEMMA Windows ==
    ASSUME Inv
    PROVE  \A t \in Transfers : Phase(t) /\ WindowIsLast(t)
<1> SUFFICES ASSUME NEW t \in Transfers PROVE Phase(t) /\ WindowIsLast(t)
  OBVIOUS
<1>1. Phase(t)
  BY DEF Inv
<1>2. CASE t \in Chunked
  BY <1>1, <1>2 DEF Inv, Flight
<1>3. CASE t \notin Chunked
  BY <1>1, <1>3 DEF Phase, WindowIsLast
<1> QED
  BY <1>1, <1>2, <1>3

-----------------------------------------------------------------------------
(* The invariant *)

\* Nothing has been asked and nothing is under way.
LEMMA InitInv ==
    ASSUME Parameters, FilesInit
    PROVE  Inv
<1> DEFINE x == [pc |-> "idle", result |-> "none", size |-> 0, sent |-> 0, window |-> <<>>,
                 waiting |-> {}, failed |-> {}, expect |-> 0, base |-> 0]
<1>1. x \in Requests
  <2>1. <<>> \in Seq(0 .. MaxChunks) /\ {} \in SUBSET (0 .. MaxChunks) /\ 0 \in 0 .. MaxChunks + 1 /\ 0 \in 0 .. MaxClock
    BY DEF Parameters
  <2> QED
    BY <2>1 DEF Requests
<1>2. /\ x.pc = "idle" /\ x.result = "none" /\ x.size = 0 /\ x.sent = 0 /\ x.window = <<>>
  OBVIOUS
<1>3. req = [t \in Transfers |-> x]
  BY DEF FilesInit
<1> HIDE DEF x
<1>4. \A t \in Transfers : req[t] = x
  BY <1>3
<1>5. c2s = <<>> /\ s2c = <<>> /\ Len(c2s) = 0 /\ Len(s2c) = 0
  BY DEF FilesInit
<1>6. sessions = [t \in {} |-> <<>>] /\ DOMAIN sessions = {} /\ pending = <<>> /\ committing = Nobody
  BY DEF FilesInit
<1>7. disk.owner = Nobody /\ disk.mtime = 0 /\ clock = 0 /\ rev = 0 /\ committed = {} /\ unseen = {} /\ sock = "open"
  BY DEF FilesInit
<1>8. Types
  <2>1. ClientTypes
    BY <1>1, <1>3, <1>7 DEF ClientTypes
  <2>2. QueueTypes
    BY <1>5 DEF QueueTypes
  <2>3. ServerTypes
    BY <1>6 DEF ServerTypes
  <2>4. FileTypes
    BY <1>7 DEF FileTypes, Parameters
  <2> QED
    BY <2>1, <2>2, <2>3, <2>4, TypesSplit
<1>9. \A t \in Transfers : Phase(t)
  BY <1>2, <1>4 DEF Phase, Started, ChunkCount
<1>10. Wire /\ Replied /\ Slot /\ Content
  BY <1>5, <1>6, <1>7 DEF Wire, Replied, Slot, Content
<1>11. Commits
  <2>1. OneCommit /\ AnswersTrue
    BY <1>5 DEF OneCommit, AnswersTrue
  <2>2. AnswerIsTrue
    BY <1>2, <1>4, Kinds DEF AnswerIsTrue
  <2>3. \A t \in Chunked \union Saves : Stage(t)
    BY <1>2, <1>4, <1>5, <1>6, <1>7, Kinds DEF Stage, Queued, InLoop, Answered, Judged
  <2> QED
    BY <2>1, <2>2, <2>3 DEF Commits
<1>12. \A t \in Chunked : Flight(t)
  BY <1>2, <1>4, <1>5, Kinds DEF Flight, WindowIsLast, Going, Coming, DataOnce, AckOnce
<1> QED
  BY <1>8, <1>9, <1>10, <1>11, <1>12 DEF Inv

\* Every step keeps it.
LEMMA InvStep ==
    ASSUME Parameters, Inv, [FilesNext]_filesVars
    PROVE  Inv'
<1>1. Types /\ Wire /\ Replied /\ Slot /\ Content /\ Commits /\ \A t \in Chunked : Flight(t)
  BY DEF Inv
<1>2. \A t \in Transfers : Phase(t) /\ WindowIsLast(t)
  BY Windows
<1>3. Types'
  BY <1>1, <1>2, TypesStep
<1>4. Fixed /\ \A t \in Transfers : Phase(t)'
  BY <1>1, <1>2, RequestsStep
<1>5. Wire'
  BY <1>1, <1>2, <1>3, <1>4, WireStep
<1>6. Replied'
  BY <1>1, <1>2, <1>3, RepliedStep
<1>7. Slot'
  BY <1>1, <1>2, <1>3, <1>4, SlotStep
<1>8. Content'
  BY <1>1, <1>2, <1>3, <1>4, ContentStep
<1>9. Commits'
  BY <1>1, <1>2, <1>3, CommitsStep
<1>10. \A t \in Chunked : Flight(t)'
  BY <1>1, <1>2, <1>3, FlightStep
<1> QED
  BY <1>3, <1>4, <1>5, <1>6, <1>7, <1>8, <1>9, <1>10 DEF Inv

(***************************************************************************)
(* For all sets of requests, every window and every length of a file: the  *)
(* file a commit leaves is the whole content of one transfer although      *)
(* binary frames carry no name and share one socket and one header slot,   *)
(* no transfer has more under way than its window, and a caller is told ok *)
(* or error of a commit only when that is what happened to the file, be it *)
(* that frames are cut off by a close, answers late or timers early.       *)
(***************************************************************************)
THEOREM FilesAreSound == FilesSpec => []FilesSound
<1>1. FilesInit => Inv
  BY FilesAssumption, InitInv
<1>2. Inv /\ [FilesNext]_filesVars => Inv'
  BY FilesAssumption, InvStep
<1>3. Inv => FilesSound
  BY FilesAssumption, InvSound
<1> QED
  BY <1>1, <1>2, <1>3, PTL DEF FilesSpec
=============================================================================
