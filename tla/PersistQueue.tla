---------------------------- MODULE PersistQueue ----------------------------
(***************************************************************************)
(* How terminal output reaches SQLite: reader threads put snapshots of     *)
(* their scrollback and lifecycle commands into one bounded channel, the   *)
(* persist worker keeps the latest snapshot per session incarnation and    *)
(* flushes now and then, and a restarted server gives every session it     *)
(* restores the buffer stored under its id.                                *)
(*                                                                         *)
(* A scrollback is the number of output units written to it and the        *)
(* incarnation whose output it starts with; a snapshot is taken after      *)
(* every unit.  Renames and unavailable targets go through the same        *)
(* channel and are part of PtyManager.                                     *)
(***************************************************************************)
EXTENDS SessionStore, Sequences

CONSTANTS
    QueueCap,  \* capacity of the channel (256 in the server)
    MaxInc,    \* bound: incarnations handed out
    MaxOut     \* bound: output units per scrollback

ASSUME BoundsAssumption ==
    QueueCap \in Nat \ {0} /\ MaxInc \in Nat /\ MaxOut \in Nat

Incs == 1 .. MaxInc
NoBuf == [inc |-> 0, from |-> 0, total |-> 0]
Bufs == [inc : 0 .. MaxInc, from : 0 .. MaxInc, total : 0 .. MaxOut]
Cmds == [op : {"buffer", "created", "exited", "removed"}, id : StoreIds, buf : Bufs]

VARIABLES
    live,     \* the running incarnation of each id, 0 when none runs
    scroll,   \* its scrollback in memory
    nextInc,  \* the next incarnation
    exiting,  \* ids whose reader has seen the exit and not yet reported it
    gate,     \* who holds the persistence gate across steps, as
              \* [by, id, inc]; Free when nobody does
    queue,    \* the channel
    pending,  \* the worker's map: latest snapshot per (id, incarnation)
    store,    \* the session and removal tables
    bufs,     \* the session_buffers table, by id
    final,    \* history: the scrollback at exit, per id and incarnation
    gone,     \* history: the newest removal acknowledged, per id
    handed    \* history: buffer and row incarnation of the last restore

memory == <<live, scroll, exiting, gate>>
disk == <<store, bufs>>
history == <<final, gone, handed>>
vars == <<memory, nextInc, queue, pending, disk, history>>

Free == [by |-> "nobody", id |-> "", inc |-> 0]
NamedIds == StoreIds \cup {Free.id}
GateType == [by : {"nobody", "exit", "remove", "removed"}, id : NamedIds, inc : 0 .. MaxInc]
Held(who, i, n) == [by |-> who, id |-> i, inc |-> n]

Cmd(op, i, b) == [op |-> op, id |-> i, buf |-> b]
Snapshot(i) == [inc |-> live[i], from |-> scroll[i].from, total |-> scroll[i].total]
HasRoom == Len(queue) < QueueCap
NoPending == [k \in StoreIds \X Incs |-> NoBuf]

Init ==
    /\ live = [i \in StoreIds |-> 0] /\ scroll = [i \in StoreIds |-> NoBuf]
    /\ nextInc = 1 /\ gate = Free /\ exiting = {}
    /\ queue = <<>> /\ pending = NoPending
    /\ store = EmptyStore /\ bufs = [i \in StoreIds |-> NoBuf]
    /\ final = [k \in StoreIds \X Incs |-> NoBuf]
    /\ gone = [i \in StoreIds |-> 0]
    /\ handed = [buf |-> NoBuf, row |-> 0]

(***************************************************************************)
(* The producers                                                           *)
(***************************************************************************)

(* A new terminal: its metadata is queued before its reader starts.  A     *)
(* reader of the id that has not reported its exit no longer owns it.      *)
Create(i) ==
    /\ live[i] = 0 /\ nextInc <= MaxInc /\ gate = Free /\ HasRoom
    /\ live' = [live EXCEPT ![i] = nextInc]
    /\ scroll' = [scroll EXCEPT ![i] = [inc |-> nextInc, from |-> nextInc, total |-> 0]]
    /\ nextInc' = nextInc + 1
    /\ queue' = Append(queue, Cmd("created", i, scroll'[i]))
    /\ exiting' = exiting \ {i}
    /\ UNCHANGED <<gate, pending, disk, history>>

(* Output, then try_send: a full channel drops the snapshot. *)
Output(i) ==
    /\ live[i] # 0 /\ scroll[i].total < MaxOut /\ gate = Free
    /\ scroll' = [scroll EXCEPT ![i].total = @ + 1]
    /\ queue' = IF HasRoom
                THEN Append(queue, Cmd("buffer", i, [Snapshot(i) EXCEPT !.total = @ + 1]))
                ELSE queue
    /\ UNCHANGED <<live, exiting, nextInc, gate, pending, disk, history>>

(* The process exits. *)
Exit(i) ==
    /\ live[i] # 0
    /\ live' = [live EXCEPT ![i] = 0]
    /\ exiting' = exiting \cup {i}
    /\ final' = [final EXCEPT ![<<i, live[i]>>] = Snapshot(i)]
    /\ UNCHANGED <<scroll, gate, nextInc, queue, pending, disk, gone, handed>>

(* Its reader, if it still owns the id, takes the persistence gate and     *)
(* sends a final snapshot, waiting for room, and then the exit.            *)
ExitSnapshot(i) ==
    /\ i \in exiting /\ gate = Free /\ HasRoom
    /\ queue' = Append(queue, Cmd("buffer", i, scroll[i]))
    /\ exiting' = exiting \ {i}
    /\ gate' = Held("exit", i, scroll[i].inc)
    /\ UNCHANGED <<live, scroll, nextInc, pending, disk, history>>

ExitSentOnlyWithRoom ==
    /\ gate.by = "exit"
    /\ queue' = IF HasRoom THEN Append(queue, Cmd("exited", gate.id, [NoBuf EXCEPT !.inc = gate.inc]))
                ELSE queue
    /\ gate' = Free
    /\ UNCHANGED <<live, scroll, exiting, nextInc, pending, disk, history>>

ExitSent ==
    /\ gate.by = "exit" /\ HasRoom
    /\ queue' = Append(queue, Cmd("exited", gate.id, [NoBuf EXCEPT !.inc = gate.inc]))
    /\ gate' = Free
    /\ UNCHANGED <<live, scroll, exiting, nextInc, pending, disk, history>>

(* Removal allocates an incarnation above all earlier ones and keeps the   *)
(* gate until the worker has answered; only then the terminal is ended.    *)
RemoveBegin(i) ==
    /\ gate = Free /\ nextInc <= MaxInc /\ HasRoom
    /\ live[i] # 0 \/ scroll[i].inc # 0
    /\ queue' = Append(queue, Cmd("removed", i, [NoBuf EXCEPT !.inc = nextInc]))
    /\ gate' = Held("remove", i, nextInc)
    /\ nextInc' = nextInc + 1
    /\ UNCHANGED <<live, scroll, exiting, pending, disk, history>>

RemoveEnd ==
    /\ gate.by = "removed"
    /\ live' = [live EXCEPT ![gate.id] = 0]
    /\ scroll' = [scroll EXCEPT ![gate.id] = NoBuf]
    /\ exiting' = exiting \ {gate.id}
    /\ gone' = [gone EXCEPT ![gate.id] = gate.inc]
    /\ gate' = Free
    /\ UNCHANGED <<nextInc, queue, pending, disk, final, handed>>

(***************************************************************************)
(* The worker                                                              *)
(***************************************************************************)

(* save_buffer_for_incarnation: only the row's own incarnation writes.    *)
SavedBuffer(b, i, s) == IF s.inc # 0 /\ store.rows[i].inc = s.inc
                        THEN [b EXCEPT ![i] = s] ELSE b

(* delete_session_in_transaction on the buffers: kept only for a row      *)
(* above the watermark.                                                    *)
DeletedBuffer(i, inc) ==
    IF store.rows[i].inc > inc /\ store.rows[i].inc > store.removed[i] THEN bufs
    ELSE [bufs EXCEPT ![i] = NoBuf]

HandleBuffer(c) ==
    /\ pending' = [pending EXCEPT ![<<c.id, c.buf.inc>>] = c.buf]
    /\ UNCHANGED <<disk, gate>>

HandleCreated(c) ==
    /\ store' = SaveSession(store, c.id, c.buf.inc, FALSE)
    /\ UNCHANGED <<pending, bufs, gate>>

HandleExitedNoFlush(c) ==
    /\ pending' = [pending EXCEPT ![<<c.id, c.buf.inc>>] = NoBuf]
    /\ store' = MarkSessionDead(store, c.id, c.buf.inc)
    /\ UNCHANGED <<bufs, gate>>

(* flush_session, then the dead mark. *)
HandleExited(c) ==
    LET k == <<c.id, c.buf.inc>>
    IN  /\ bufs' = SavedBuffer(bufs, c.id, pending[k])
        /\ pending' = [pending EXCEPT ![k] = NoBuf]
        /\ store' = MarkSessionDead(store, c.id, c.buf.inc)
        /\ UNCHANGED gate

HandleRemovedKeepsBuffer(c) ==
    /\ pending' = [k \in StoreIds \X Incs |->
                     IF k[1] = c.id /\ k[2] <= c.buf.inc THEN NoBuf ELSE pending[k]]
    /\ store' = DeleteSession(store, c.id, c.buf.inc)
    /\ gate' = Held("removed", c.id, c.buf.inc)
    /\ UNCHANGED bufs

HandleRemoved(c) ==
    /\ pending' = [k \in StoreIds \X Incs |->
                     IF k[1] = c.id /\ k[2] <= c.buf.inc THEN NoBuf ELSE pending[k]]
    /\ store' = DeleteSession(store, c.id, c.buf.inc)
    /\ bufs' = DeletedBuffer(c.id, c.buf.inc)
    /\ gate' = Held("removed", c.id, c.buf.inc)

HandleCmd ==
    /\ queue # <<>>
    /\ queue' = Tail(queue)
    /\ LET c == Head(queue)
       IN  \/ c.op = "buffer" /\ HandleBuffer(c)
           \/ c.op = "created" /\ HandleCreated(c)
           \/ c.op = "exited" /\ HandleExited(c)
           \/ c.op = "removed" /\ HandleRemoved(c)
    /\ UNCHANGED <<live, scroll, exiting, nextInc, history>>

(* flush_all: every pending snapshot goes through the incarnation check,  *)
(* in any order.                                                           *)
FlushAll ==
    /\ \E k \in StoreIds \X Incs : pending[k] # NoBuf
    /\ bufs' = [i \in StoreIds |->
                  LET n == store.rows[i].inc
                  IN  IF n \in Incs /\ pending[<<i, n>>] # NoBuf
                      THEN pending[<<i, n>>] ELSE bufs[i]]
    /\ pending' = NoPending
    /\ UNCHANGED <<memory, nextInc, queue, store, history>>

(***************************************************************************)
(* The server dies; what was queued or pending is lost.  The next one      *)
(* deletes dead sessions and respawns the others with their buffers.       *)
(***************************************************************************)

Crash ==
    /\ live' = [i \in StoreIds |-> 0] /\ scroll' = [i \in StoreIds |-> NoBuf]
    /\ gate' = Free /\ exiting' = {} /\ queue' = <<>> /\ pending' = NoPending
    /\ LET dead == {i \in StoreIds : store.rows[i].inc # 0 /\ ~store.rows[i].alive}
       IN  /\ store' = [ rows |-> [i \in StoreIds |->
                                     IF i \in dead THEN NoRow ELSE store.rows[i]],
                         removed |-> [i \in StoreIds |->
                                     IF i \in dead /\ store.rows[i].inc > store.removed[i]
                                     THEN store.rows[i].inc ELSE store.removed[i]] ]
           /\ bufs' = [i \in StoreIds |-> IF i \in dead THEN NoBuf ELSE bufs[i]]
    /\ UNCHANGED <<nextInc, history>>

Restore(i) ==
    /\ live[i] = 0 /\ scroll[i].inc = 0 /\ nextInc <= MaxInc /\ HasRoom /\ gate = Free
    /\ i \in LoadSessions(store)
    /\ handed' = [buf |-> bufs[i], row |-> store.rows[i].inc]
    /\ live' = [live EXCEPT ![i] = nextInc]
    /\ scroll' = [scroll EXCEPT ![i] =
                    IF bufs[i] = NoBuf THEN [inc |-> nextInc, from |-> nextInc, total |-> 0]
                    ELSE [bufs[i] EXCEPT !.inc = nextInc]]
    /\ nextInc' = nextInc + 1
    /\ queue' = Append(queue, Cmd("created", i, scroll'[i]))
    /\ UNCHANGED <<exiting, gate, pending, disk, final, gone>>

Worker == HandleCmd \/ FlushAll

Next ==
    \/ \E i \in StoreIds : \/ Create(i) \/ Output(i) \/ Exit(i) \/ ExitSnapshot(i)
                          \/ RemoveBegin(i) \/ Restore(i)
    \/ ExitSent \/ RemoveEnd \/ Worker \/ Crash

Spec == Init /\ [][Next]_vars

(* The worker thread and the threads that hold the gate keep running; a   *)
(* reader that waits for the gate is strongly fair, as the mutex hands it  *)
(* on.                                                                     *)
Fairness ==
    /\ WF_vars(HandleCmd) /\ SF_vars(ExitSent) /\ WF_vars(RemoveEnd)
    /\ \A i \in StoreIds : SF_vars(ExitSnapshot(i))

FairSpec == Spec /\ Fairness

-----------------------------------------------------------------------------
(* The types of all variables. *)
TypeOK ==
    /\ live \in [StoreIds -> 0 .. MaxInc] /\ scroll \in [StoreIds -> Bufs]
    /\ nextInc \in 1 .. MaxInc + 1 /\ exiting \subseteq StoreIds
    /\ queue \in Seq(Cmds) /\ Len(queue) <= QueueCap
    /\ pending \in [StoreIds \X Incs -> Bufs]
    /\ gate \in GateType
    /\ store \in StoreType /\ bufs \in [StoreIds -> Bufs]
    /\ final \in [StoreIds \X Incs -> Bufs]
    /\ gone \in [StoreIds -> 0 .. MaxInc]
    /\ handed \in [buf : Bufs, row : Nat]

(* A row marked dead keeps all the output its process wrote: however many *)
(* snapshots a full channel dropped, the last one was stored first.        *)
FinalOutputKept ==
    \A i \in StoreIds : LET row == store.rows[i]
        IN row.inc # 0 /\ ~row.alive => bufs[i] = final[<<i, row.inc>>]

(* Once a removal is acknowledged, nothing of the removed incarnation or  *)
(* an older one is stored again, whatever was still queued or pending.    *)
RemovedStaysGone ==
    \A i \in StoreIds : gone[i] # 0 =>
        /\ store.rows[i].inc = 0 \/ store.rows[i].inc > gone[i]
        /\ bufs[i].inc = 0 \/ bufs[i].inc > gone[i]

(* A restored session gets scrollback that its own incarnation wrote. *)
\* Does not hold (README, known deviations).
RestoredBufferIsOwn == handed.buf # NoBuf => handed.buf.inc = handed.row

(* No snapshot that was queued, pending or refused when its session was    *)
(* removed brings the session back, and the queue, the gate and the worker *)
(* are well typed.                                                         *)
QueueSound == TypeOK /\ RemovedStaysGone

(* An exit its reader still owns reaches the store: the channel drains, and *)
(* whoever holds the gate, a removal that waits for the worker or another   *)
(* exit that waits for room, gives it back.                                 *)
ExitIsStored ==
    \A i \in StoreIds : i \in exiting ~>
        \/ ~store.rows[i].alive
        \/ live[i] # 0
        \/ scroll[i].inc = 0
=============================================================================
