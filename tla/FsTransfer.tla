------------------------------ MODULE FsTransfer ------------------------------
(***************************************************************************)
(* File requests over one WebSocket: the request layer of packages/ui/src/ *)
(* api/ws-transport.ts and the connection loop of server/src/api/ws.rs.    *)
(* A transfer is begin, chunks with a window of unacknowledged ones, and   *)
(* commit; a chunk is a header frame followed by a binary frame that       *)
(* carries no name.  All frames of a transport share one socket and the    *)
(* server keeps one slot for the header it saw last.                       *)
(*                                                                         *)
(* request ids, write ids and upload ids are unique on a connection, so a  *)
(* transfer is named by itself.  All transfers go to one file: others do   *)
(* not meet.  A payload is <<transfer, seq>>.                              *)
(***************************************************************************)
EXTENDS Naturals, Sequences, FiniteSets

CONSTANTS
    Writes,     \* fsWriteFile
    Uploads,    \* fsUploadFile
    Puts,       \* fsPutFile
    Saves,      \* fsPutSave: one header and one binary frame
    Ops,        \* fsOp and the OPAQUE requests: one message, one answer
    Reads,      \* fsRead and fsSubscribeTree: as Ops, and fs:error settles them
    Nobody,
    WindowSize, \* chunks in flight (4 in the code)
    MaxChunks,  \* bound: chunks of a file
    MaxClock,   \* bound: seconds that pass
    MaxExternal \* bound: changes of the file by other programs

Chunked == Writes \union Uploads \union Puts

\* What the module asks of its constants: a request is chunked, a save or
\* neither, and the window has room for a chunk.
Parameters ==
    /\ Saves \intersect Chunked = {}
    /\ (Ops \union Reads) \intersect (Chunked \union Saves) = {}
    /\ Nobody \notin Chunked \union Saves \union Ops \union Reads
    /\ WindowSize \in Nat \ {0}
    /\ MaxChunks \in Nat /\ MaxClock \in Nat /\ MaxExternal \in Nat

ASSUME FilesAssumption == Parameters

Transfers == Chunked \union Saves \union Ops \union Reads

VARIABLES
    req,        \* transfer -> the promise chain of the client
    sock,       \* "open" | "closed": the readyState the client sees
    c2s, s2c,   \* frames under way, in order
    sessions,   \* the server's transfers: writes, uploads, enc_uploads
    pending,    \* pending_binary: <<transfer, seq>> or << >>
    committing, \* the commit the connection loop awaits, or Nobody
    disk,       \* the file: who wrote it, its chunks, its mtime in seconds
    clock,
    rev,        \* history: how often the file changed
    committed,  \* history: the transfers whose content reached the file
    unseen      \* history: the writes that replaced a revision they never saw

client == <<req, sock>>
server == <<sessions, pending, committing>>
file == <<disk, rev, committed, unseen>>
filesVars == <<client, c2s, s2c, server, clock, file>>

Payload(t, seq) == <<t, seq>>
Whole(t) == [i \in 1 .. req[t].size |-> Payload(t, i - 1)]
\* An empty write still sends one empty chunk; an empty upload sends none.
ChunkCount(t) == IF t \in Writes /\ req[t].size = 0 THEN 1 ELSE req[t].size

Frame(kind, t, seq) == [kind |-> kind, t |-> t, seq |-> seq]

\* The header and the binary frame of the chunks from .. to - 1.
ChunkFrames(t, from, to) ==
    [i \in 1 .. 2 * (to - from) |->
        Frame(IF i % 2 = 1 THEN "head" ELSE "data", t, from + (i - 1) \div 2)]

Reply(kind, t, seq, how) == [kind |-> kind, t |-> t, seq |-> seq, how |-> how]
Answer(m) == s2c' = IF sock = "open" THEN Append(s2c, m) ELSE s2c

Finish(x, result) == [x EXCEPT !.pc = "done", !.result = result, !.waiting = {}, !.window = <<>>]

FilesInit ==
    /\ req = [t \in Transfers |->
                [pc |-> "idle", result |-> "none", size |-> 0, sent |-> 0, window |-> <<>>,
                 waiting |-> {}, failed |-> {}, expect |-> 0, base |-> 0]]
    /\ sock = "open"
    /\ c2s = <<>> /\ s2c = <<>>
    /\ sessions = [t \in {} |-> <<>>]
    /\ pending = <<>> /\ committing = Nobody
    /\ disk = [owner |-> Nobody, data |-> <<>>, mtime |-> 0]
    /\ clock = 0 /\ rev = 0
    /\ committed = {} /\ unseen = {}

-----------------------------------------------------------------------------
(* The client *)

\* this.ws?.readyState === WebSocket.OPEN ? send : reject
SendOrReject(t, x, frames) ==
    IF sock = "open"
      THEN req' = [req EXCEPT ![t] = x] /\ c2s' = c2s \o frames
      ELSE req' = [req EXCEPT ![t] = Finish(@, "rejected")] /\ UNCHANGED c2s

\* What opens a request: fsPutSave sends its header and its only binary
\* frame, every other request one message.
SaveFrames(t) == ChunkFrames(t, 0, 1)
RequestFrames(t) == <<Frame("begin", t, 0)>>
Opening(t) == IF t \in Saves THEN SaveFrames(t) ELSE RequestFrames(t)

\* A caller who has just read the file starts a transfer.  Mutations first
\* await resolveMutationWireTarget; reads send at once.
Start(t) ==
    /\ req[t].pc = "idle"
    /\ \E n \in IF t \in Chunked THEN 0 .. MaxChunks ELSE {1} :
          LET x == [req[t] EXCEPT !.pc = "resolve", !.size = n,
                                  !.expect = disk.mtime, !.base = rev]
          IN  IF t \in Reads
                THEN SendOrReject(t, [x EXCEPT !.pc = "begin"], Opening(t))
                ELSE req' = [req EXCEPT ![t] = x] /\ UNCHANGED c2s
    /\ UNCHANGED <<sock, s2c, server, clock, file>>

SendBegin(t) ==
    /\ req[t].pc = "resolve"
    /\ SendOrReject(t, [req[t] EXCEPT !.pc = "begin"], Opening(t))
    /\ UNCHANGED <<sock, s2c, server, clock, file>>

\* How many chunks the loop sends before its next await.
Room(t, window) ==
    LET left == ChunkCount(t) - req[t].sent
        free == WindowSize - Len(window)
    IN  IF left < free THEN left ELSE free

(***************************************************************************)
(* The chunk loop between two awaits: the oldest acknowledgement of a full *)
(* window is awaited, then the window is filled.  A write slices a string  *)
(* and fills it at once, an upload awaits its reader after every chunk.  A *)
(* chunk that cannot be sent, because the socket is closed, is a rejected  *)
(* promise in the window like one whose acknowledgement timed out.         *)
(***************************************************************************)
Feed(t) ==
    LET x == req[t]
        full == Len(x.window) = WindowSize
        window == IF full THEN Tail(x.window) ELSE x.window
        room == Room(t, window)
    IN
    /\ x.pc = "chunks"
    /\ full \/ x.sent < ChunkCount(t)
    /\ full => Head(x.window) \notin x.waiting
    /\ IF full /\ Head(x.window) \in x.failed
         THEN req' = [req EXCEPT ![t] = Finish(@, "rejected")] /\ UNCHANGED c2s
         ELSE \E k \in IF t \in Writes \/ room = 0 THEN {room} ELSE 1 .. room :
                LET new == x.sent .. x.sent + k - 1
                IN  /\ req' = [req EXCEPT ![t] =
                          [x EXCEPT !.sent = @ + k,
                                    !.window = window \o [i \in 1 .. k |-> x.sent + i - 1],
                                    !.waiting = IF sock = "open" THEN @ \union new ELSE @,
                                    !.failed = IF sock = "open" THEN @ ELSE @ \union new]]
                    /\ c2s' = IF sock = "open"
                                THEN c2s \o ChunkFrames(t, x.sent, x.sent + k) ELSE c2s
    /\ UNCHANGED <<sock, s2c, server, clock, file>>

\* await Promise.all(inFlight), then the commit.
Drain(t) ==
    LET x == req[t]
        all == {x.window[i] : i \in DOMAIN x.window}
    IN
    /\ x.pc = "chunks"
    /\ x.sent = ChunkCount(t) /\ Len(x.window) < WindowSize
    /\ \/ /\ all \intersect x.failed # {}
          /\ req' = [req EXCEPT ![t] = Finish(@, "rejected")] /\ UNCHANGED c2s
       \/ /\ all \intersect (x.failed \union x.waiting) = {}
          /\ SendOrReject(t, [x EXCEPT !.pc = "commit", !.window = <<>>],
                          <<Frame("commit", t, 0)>>)
    /\ UNCHANGED <<sock, s2c, server, clock, file>>

\* Mutation: acknowledgements are awaited without a timer.
TimeoutNoChunks(t) ==
    /\ req[t].pc \in {"begin", "commit"}
    /\ req' = [req EXCEPT ![t] = Finish(@, "rejected")]
    /\ UNCHANGED <<sock, c2s, s2c, server, clock, file>>

\* The timer of a begin, a commit or a single request; the timer of a chunk.
Timeout(t) ==
    /\ \/ /\ req[t].pc \in {"begin", "commit"}
          /\ req' = [req EXCEPT ![t] = Finish(@, "rejected")]
       \/ \E seq \in req[t].waiting :
            req' = [req EXCEPT ![t].waiting = @ \ {seq}, ![t].failed = @ \union {seq}]
    /\ UNCHANGED <<sock, c2s, s2c, server, clock, file>>

\* ws.onmessage: what an answer does to the request it names.  A conflict
\* removes the entry and its timer and settles nothing.
OnMessage(x, t, m) ==
    CASE m.kind = "beginOk" -> IF x.pc = "begin" THEN [x EXCEPT !.pc = "chunks"] ELSE x
      [] m.kind = "fsError" ->
            IF x.pc = "begin" /\ t \in Reads THEN Finish(x, "error") ELSE x
      [] m.kind = "ack" -> [x EXCEPT !.waiting = @ \ {m.seq}]
      [] m.kind = "result" ->
            IF x.pc # (IF t \in Chunked THEN "commit" ELSE "begin") THEN x
            ELSE IF m.how = "conflict" THEN [x EXCEPT !.pc = "unsettled"]
            ELSE Finish(x, m.how)

Receive ==
    /\ s2c # <<>>
    /\ LET m == Head(s2c)
       IN  req' = [req EXCEPT ![m.t] = OnMessage(@, m.t, m)]
    /\ s2c' = Tail(s2c)
    /\ UNCHANGED <<sock, c2s, server, clock, file>>

\* failAllPending for one request.
FailPending(x) ==
    IF x.pc \in {"begin", "commit"} THEN Finish(x, "rejected")
    ELSE [x EXCEPT !.failed = @ \union x.waiting, !.waiting = {}]

\* ws.onclose or destroy().  The server still reads the frames that reached it.
Close ==
    /\ sock = "open"
    /\ sock' = "closed"
    /\ req' = [t \in Transfers |-> FailPending(req[t])]
    /\ \E n \in 0 .. Len(c2s) : c2s' = SubSeq(c2s, 1, n)
    /\ s2c' = <<>>
    /\ UNCHANGED <<server, clock, file>>

-----------------------------------------------------------------------------
(* The connection loop of the server: one frame at a time, and no frame     *)
(* while it awaits a commit.                                                *)

Without(t) == [u \in DOMAIN sessions \ {t} |-> sessions[u]]

\* The frame m is at the head of the queue and the loop takes it.
Takes(kinds) == /\ committing = Nobody /\ c2s # <<>>
                /\ Head(c2s).kind \in kinds
                /\ c2s' = Tail(c2s)

ServerBegin ==
    /\ Takes({"begin"})
    /\ LET t == Head(c2s).t
       IN  \/ /\ t \in Chunked
              /\ sessions' = [u \in DOMAIN sessions \union {t} |->
                                IF u = t THEN <<>> ELSE sessions[u]]
              /\ Answer(Reply("beginOk", t, 0, "ok"))
           \/ /\ t \notin Chunked
              /\ \E how \in {"ok", "error"} : Answer(Reply("result", t, 0, how))
              /\ UNCHANGED sessions
           \/ /\ Answer(Reply("fsError", t, 0, "error"))
              /\ UNCHANGED sessions
    /\ UNCHANGED <<client, pending, committing, clock, file>>

\* The number of frames of t that arrived is the number of its chunks stored.
NextSeq(t) == IF req[t].size = 0 THEN 0 ELSE Len(sessions[t])

ServerHead ==
    /\ Takes({"head"})
    /\ LET m == Head(c2s)
       IN  \/ /\ m.t \in Saves
              /\ \/ pending' = Payload(m.t, 0) /\ UNCHANGED s2c
                 \/ UNCHANGED pending /\ Answer(Reply("fsError", m.t, 0, "error"))
              /\ UNCHANGED sessions
           \/ /\ m.t \in Puts
              /\ pending' = Payload(m.t, m.seq)
              /\ UNCHANGED <<sessions, s2c>>
           \/ /\ m.t \in Writes \union Uploads
              /\ IF m.t \in DOMAIN sessions /\ m.seq = NextSeq(m.t)
                   THEN pending' = Payload(m.t, m.seq) /\ UNCHANGED sessions
                   ELSE sessions' = Without(m.t) /\ UNCHANGED pending
              /\ UNCHANGED s2c
    /\ UNCHANGED <<client, committing, clock, file>>

(***************************************************************************)
(* A binary frame belongs to the header in the slot.  `payload` is what it *)
(* carries; the chunk is stored, or the session is dropped without an      *)
(* answer: unknown session, wrong seq (puts), too many bytes, or I/O error.*)
(***************************************************************************)
ServerData ==
    /\ Takes({"data"})
    /\ pending' = <<>>
    /\ LET m == Head(c2s)
           payload == IF req[m.t].size = 0 THEN <<>> ELSE <<Payload(m.t, m.seq)>>
           t == IF pending = <<>> THEN Nobody ELSE pending[1]
           data == sessions[t] \o payload
       IN  \/ /\ t \notin DOMAIN sessions \union Saves
              /\ UNCHANGED <<sessions, committing, s2c>>
           \/ /\ t \in Saves
              /\ committing' = [t |-> t, data |-> payload, checked |-> FALSE]
              /\ UNCHANGED <<sessions, s2c>>
           \/ /\ t \in DOMAIN sessions
              /\ Len(data) <= req[t].size /\ (t \in Puts => pending[2] = NextSeq(t))
              /\ sessions' = [sessions EXCEPT ![t] = data]
              /\ Answer(Reply("ack", t, pending[2], "ok"))
              /\ UNCHANGED committing
           \/ /\ t \in DOMAIN sessions
              /\ sessions' = Without(t)
              /\ UNCHANGED <<committing, s2c>>
    /\ UNCHANGED <<client, clock, file>>

ServerCommit ==
    /\ Takes({"commit"})
    /\ LET t == Head(c2s).t
       IN  IF t \notin DOMAIN sessions \/ Len(sessions[t]) # req[t].size
             THEN Answer(Reply("result", t, 0, "error")) /\ UNCHANGED committing
             ELSE /\ committing' = [t |-> t, data |-> sessions[t], checked |-> FALSE]
                  /\ UNCHANGED s2c
    /\ sessions' = Without(Head(c2s).t)
    /\ UNCHANGED <<client, pending, clock, file>>

\* Mutation: the answer is sent before the file is renamed.
ServerCheckEager ==
    /\ committing # Nobody /\ ~committing.checked
    /\ committing' = [committing EXCEPT !.checked = TRUE]
    /\ Answer(Reply("result", committing.t, 0, "ok"))
    /\ UNCHANGED <<client, c2s, sessions, pending, clock, file>>

\* revalidate_bound_path and check_expected_mtime.
ServerCheck ==
    /\ committing # Nobody /\ ~committing.checked
    /\ LET t == committing.t
       IN  \/ /\ t \in Writes => disk.mtime = req[t].expect
              /\ committing' = [committing EXCEPT !.checked = TRUE]
              /\ UNCHANGED s2c
           \/ /\ t \in Writes /\ disk.mtime # req[t].expect
              /\ committing' = Nobody
              /\ Answer(Reply("result", t, 0, "conflict"))
           \/ /\ committing' = Nobody
              /\ Answer(Reply("result", t, 0, "error"))
    /\ UNCHANGED <<client, c2s, sessions, pending, clock, file>>

\* rename_at, and the answer.
ServerRename ==
    /\ committing # Nobody /\ committing.checked
    /\ LET t == committing.t
       IN  /\ disk' = [owner |-> t, data |-> committing.data, mtime |-> clock]
           /\ committed' = committed \union {t}
           /\ unseen' = IF t \in Writes /\ rev # req[t].base THEN unseen \union {t} ELSE unseen
           /\ Answer(Reply("result", t, 0, "ok"))
    /\ rev' = rev + 1
    /\ committing' = Nobody
    /\ UNCHANGED <<client, c2s, sessions, pending, clock>>

\* The loop ends with the connection, and its maps with it.
ServerEnd ==
    /\ sock = "closed" /\ c2s = <<>> /\ committing = Nobody
    /\ DOMAIN sessions # {} \/ pending # <<>>
    /\ sessions' = [t \in {} |-> <<>>]
    /\ pending' = <<>>
    /\ UNCHANGED <<client, c2s, s2c, committing, clock, file>>

ServerStep ==
    \/ ServerBegin \/ ServerHead \/ ServerData
    \/ ServerCommit \/ ServerCheck \/ ServerRename \/ ServerEnd

\* Another program changes the file; a second passes.
ExternalChange ==
    /\ rev < MaxExternal
    /\ rev' = rev + 1
    /\ disk' = [owner |-> Nobody, data |-> <<>>, mtime |-> clock]
    /\ UNCHANGED <<client, c2s, s2c, server, clock, committed, unseen>>

Tick ==
    /\ clock < MaxClock
    /\ clock' = clock + 1
    /\ UNCHANGED <<client, c2s, s2c, server, file>>

ClientStep(t) == SendBegin(t) \/ Feed(t) \/ Drain(t)

FilesNext ==
    \/ \E t \in Transfers : Start(t) \/ ClientStep(t) \/ Timeout(t)
    \/ Receive \/ Close \/ ServerStep \/ ExternalChange \/ Tick

FilesSpec == FilesInit /\ [][FilesNext]_filesVars

\* Promises continue, timers fire, the socket delivers and the loop runs.
FilesFairness ==
    /\ \A t \in Transfers : WF_filesVars(ClientStep(t)) /\ WF_filesVars(Timeout(t))
    /\ WF_filesVars(Receive) /\ WF_filesVars(ServerStep)

-----------------------------------------------------------------------------
FilesTypeOK ==
    /\ req \in [Transfers ->
          [pc : {"idle", "resolve", "begin", "chunks", "commit", "unsettled", "done"},
           result : {"none", "ok", "error", "rejected"},
           size : 0 .. MaxChunks + 1, sent : 0 .. MaxChunks + 1,
           window : Seq(0 .. MaxChunks), waiting : SUBSET (0 .. MaxChunks),
           failed : SUBSET (0 .. MaxChunks), expect : 0 .. MaxClock, base : Nat]]
    /\ sock \in {"open", "closed"}
    /\ DOMAIN sessions \subseteq Chunked
    /\ pending = <<>> \/ pending \in Transfers \X (0 .. MaxChunks)
    /\ committing = Nobody \/ committing.t \in Chunked \union Saves
    /\ disk.owner \in Transfers \union {Nobody} /\ disk.mtime \in 0 .. MaxClock
    /\ committed \subseteq Transfers /\ unseen \subseteq Writes

(***************************************************************************)
(* Binary frames carry no name, and several transfers share the socket and *)
(* the server's one header slot.  The file is still never put together     *)
(* from two transfers, cut short or out of order: what a commit leaves     *)
(* there is the whole content of the transfer it belongs to.               *)
(***************************************************************************)
CommittedIsWhole == disk.owner # Nobody => disk.data = Whole(disk.owner)

(***************************************************************************)
(* What the caller is told is what happened: "ok" only after the content   *)
(* reached the file, an error of the server only if it did not (and never  *)
(* will).  A late answer that meets a request that timed out is dropped.   *)
(***************************************************************************)
AnswerIsTrue ==
    \A t \in Chunked \union Saves :
        /\ req[t].result = "ok" => t \in committed
        /\ req[t].result = "error" => t \notin committed

(***************************************************************************)
(* Backpressure: whatever is acknowledged, delayed or timed out, the       *)
(* frames of a transfer that are under way stay within its window.         *)
(***************************************************************************)
WindowBound ==
    \A t \in Chunked :
        Cardinality({i \in DOMAIN c2s : c2s[i].kind = "data" /\ c2s[i].t = t})
          + Cardinality({i \in DOMAIN s2c : s2c[i].kind = "ack" /\ s2c[i].t = t})
        <= WindowSize

\* What holds of the files in every state: a commit leaves the whole content of
\* one transfer in the file, no transfer overruns its window whatever is late or
\* lost, and the answer a caller gets is what happened to the file.
FilesSound == FilesTypeOK /\ CommittedIsWhole /\ WindowBound /\ AnswerIsTrue

(***************************************************************************)
(* Every request comes to an end: answered, refused, timed out or failed   *)
(* by the close of the socket.  The editor keeps its tab in "saving" until *)
(* then.  The one exception is a write answered with a conflict: its entry *)
(* and its timer are gone and nothing settles its promise.                 *)
(***************************************************************************)
Ended(t) == req[t].pc = "done" \/ (t \in Writes /\ req[t].pc = "unsettled")
RequestSettles == \A t \in Transfers : req[t].pc = "resolve" ~> Ended(t)

(***************************************************************************)
(* docs/ws-protocol-guide.md: expected_mtime "guards against concurrent    *)
(* modifications".  A write never replaces a revision its author has not   *)
(* seen.                                                                   *)
(***************************************************************************)
\* Does not hold (README, known deviations).
NoUnseenOverwrite == unseen = {}

(***************************************************************************)
(* docs/ws-protocol-guide.md: "Orphaned writes cleaned up after timeout".  *)
(* A session whose client gave up is removed, also while its connection    *)
(* stays open.                                                             *)
(***************************************************************************)
\* Does not hold (README, known deviations).
OrphansCleaned ==
    \A t \in Chunked :
        (t \in DOMAIN sessions /\ req[t].pc = "done") ~> (t \notin DOMAIN sessions)
=============================================================================
