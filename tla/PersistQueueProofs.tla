------------------------- MODULE PersistQueueProofs -------------------------
(***************************************************************************)
(* What the persistence channel promises, for any number of terminals,     *)
(* incarnations and units of output and any capacity: a dead row has the   *)
(* whole output of its process, and what was removed stays gone.           *)
(***************************************************************************)
EXTENDS PersistQueue, SequenceTheorems, TLAPS

Is(op, k, i, n) == queue[k].op = op /\ queue[k].id = i /\ queue[k].buf.inc = n
Slots == 1 .. Len(queue)

\* Every incarnation in use was handed out.
Fresh ==
    /\ \A i \in StoreIds : live[i] < nextInc /\ scroll[i].inc < nextInc /\ store.rows[i].inc < nextInc
    /\ \A k \in Slots : queue[k].buf.inc < nextInc
    /\ gate.inc < nextInc

\* The holder of the gate and every command work for an incarnation.
Named ==
    /\ gate.by # "nobody" => gate.id \in StoreIds /\ gate.inc \in Incs
    /\ \A k \in Slots : queue[k].buf.inc # 0

\* The worker's map files a snapshot under its incarnation.
Filed == \A i \in StoreIds, n \in Incs : pending[<<i, n>>] = NoBuf \/ pending[<<i, n>>].inc = n

\* A running process or an unreported exit owns the scrollback of its id.
Owns(i) == live[i] # 0 \/ i \in exiting
Owned ==
    \A i \in StoreIds :
        /\ live[i] # 0 => scroll[i].inc = live[i]
        /\ i \in exiting => /\ live[i] = 0 /\ scroll[i].inc # 0
                            /\ final[<<i, scroll[i].inc>>] = scroll[i]

\* The exit of an owner has not been reported.
Unreported ==
    \A i \in StoreIds : Owns(i) =>
        /\ \A k \in Slots : ~Is("exited", k, i, scroll[i].inc)
        /\ ~(gate.by = "exit" /\ gate.id = i /\ gate.inc = scroll[i].inc)
        /\ store.rows[i].inc = scroll[i].inc => store.rows[i].alive

\* The row of an incarnation is queued before its snapshots.
CreatedFirst ==
    \A i \in StoreIds, n \in Incs : \A j, k \in Slots :
        Is("buffer", j, i, n) /\ Is("created", k, i, n) => k < j

\* A queued removal is above the row and above the rows queued before it.
RemovalAbove ==
    \A i \in StoreIds, n \in Incs : \A k \in Slots : Is("removed", k, i, n) =>
        /\ store.rows[i].inc < n
        /\ \A j \in Slots : \A m \in Incs : j < k /\ Is("created", j, i, m) => m < n

\* The final snapshot is the last one queued, before slot k, or the worker
\* has it, or it is stored.
Delivered(i, n, k) ==
    /\ final[<<i, n>>].inc = n
    /\ \/ \E j \in Slots : /\ j < k /\ Is("buffer", j, i, n) /\ queue[j].buf = final[<<i, n>>]
                           /\ \A l \in Slots : j < l => ~Is("buffer", l, i, n)
       \/ /\ \A l \in Slots : ~Is("buffer", l, i, n) /\ ~Is("created", l, i, n)
          /\ \/ pending[<<i, n>>] = final[<<i, n>>]
             \/ /\ pending[<<i, n>>] = NoBuf
                /\ store.rows[i].inc = n => bufs[i] = final[<<i, n>>]

\* An exit is queued, or about to be, behind the final snapshot.
ExitBehind ==
    \A i \in StoreIds, n \in Incs :
        /\ \A k \in Slots : Is("exited", k, i, n) => Delivered(i, n, k)
        /\ gate.by = "exit" /\ gate.id = i /\ gate.inc = n => Delivered(i, n, Len(queue) + 1)

\* A dead row has the final snapshot and no other is on its way.
DeadSettled ==
    \A i \in StoreIds, n \in Incs : store.rows[i].inc = n /\ ~store.rows[i].alive =>
        /\ bufs[i] = final[<<i, n>>] /\ pending[<<i, n>>] = NoBuf
        /\ \A k \in Slots : ~Is("buffer", k, i, n)

\* The tables hold nothing of incarnation n or an older one, and will not.
Cleared(i, n) ==
    /\ store.removed[i] >= n \/ store.rows[i].inc > n
    /\ store.rows[i].inc = 0 \/ store.rows[i].inc > n
    /\ bufs[i].inc = 0 \/ bufs[i].inc > n
RemovedCleared ==
    /\ \A i \in StoreIds : gone[i] # 0 => Cleared(i, gone[i])
    /\ gate.by = "removed" => Cleared(gate.id, gate.inc)

PQInv ==
    /\ TypeOK /\ Fresh /\ Named /\ Filed /\ Owned /\ Unreported /\ CreatedFirst
    /\ RemovalAbove /\ ExitBehind /\ DeadSettled /\ RemovedCleared

-----------------------------------------------------------------------------
(***************************************************************************)
(* The channel                                                             *)
(***************************************************************************)

\* Sending puts a command behind all others.
LEMMA Sending ==
    ASSUME NEW q \in Seq(Cmds), NEW c \in Cmds
    PROVE  /\ Append(q, c) \in Seq(Cmds) /\ Len(Append(q, c)) = Len(q) + 1
           /\ \A k \in 1 .. Len(q) : Append(q, c)[k] = q[k]
           /\ Append(q, c)[Len(q) + 1] = c
BY AppendProperties

\* Receiving takes the first and moves the others up.
LEMMA Receiving ==
    ASSUME NEW q \in Seq(Cmds), q # <<>>
    PROVE  /\ Head(q) = q[1] /\ q[1] \in Cmds /\ Len(q) \in Nat /\ Len(q) >= 1
           /\ Tail(q) \in Seq(Cmds) /\ Len(Tail(q)) = Len(q) - 1
           /\ \A k \in 1 .. Len(q) - 1 : Tail(q)[k] = q[k + 1]
<1>1. Tail(q) \in Seq(Cmds) /\ Len(Tail(q)) = Len(q) - 1 /\ Len(q) \in Nat /\ Len(q) >= 1
  BY HeadTailProperties, EmptySeq, LenProperties
<1>2. Head(q) = q[1] /\ q[1] \in Cmds
  BY <1>1, ElementOfSeq
<1>3. \A k \in 1 .. Len(q) - 1 : Tail(q)[k] = q[k + 1]
  BY <1>1, HeadTailProperties
<1> QED
  BY <1>1, <1>2, <1>3

\* A step that sends c, and one that receives the first command.
Sends(c) == c \in Cmds /\ queue' = Append(queue, c)
Receives == queue # <<>> /\ queue' = Tail(queue)

\* The slots after a step that sends.
LEMMA SentSlots ==
    ASSUME TypeOK, NEW c, Sends(c)
    PROVE  /\ Len(queue) \in Nat /\ Len(queue') = Len(queue) + 1
           /\ queue' \in Seq(Cmds)
           /\ \A k \in Slots : queue'[k] = queue[k]
           /\ queue'[Len(queue) + 1] = c
           /\ \A k \in Slots' : k \in Slots \/ k = Len(queue) + 1
           /\ \A k \in Slots : k \in Slots'
<1>1. queue \in Seq(Cmds) /\ c \in Cmds /\ Len(queue) \in Nat
  BY LenProperties DEF TypeOK, Sends
<1> QED
  BY <1>1, Sending DEF Sends, Slots

\* The slots after a step that receives.
LEMMA ReceivedSlots ==
    ASSUME TypeOK, Receives
    PROVE  /\ Len(queue) \in Nat /\ Len(queue') = Len(queue) - 1
           /\ queue' \in Seq(Cmds) /\ Head(queue) = queue[1] /\ queue[1] \in Cmds
           /\ 1 \in Slots
           /\ \A k \in Slots' : k + 1 \in Slots /\ queue'[k] = queue[k + 1]
<1>1. queue \in Seq(Cmds)
  BY DEF TypeOK
<1> QED
  BY <1>1, Receiving DEF Receives, Slots

(***************************************************************************)
(* Types                                                                   *)
(***************************************************************************)

\* The methods of the session table return tables.
LEMMA TableMethods ==
    ASSUME NEW s \in StoreType, NEW i \in StoreIds, NEW n \in Nat
    PROVE  /\ SaveSession(s, i, n, FALSE) \in StoreType
           /\ MarkSessionDead(s, i, n) \in StoreType
           /\ DeleteSession(s, i, n) \in StoreType
BY DEF StoreType, SaveSession, MarkSessionDead, DeleteSession, NoRow

\* A snapshot is a buffer, and so is one after another unit of output.
LEMMA Snapshots ==
    ASSUME TypeOK, NEW i \in StoreIds
    PROVE  /\ Snapshot(i) \in Bufs
           /\ scroll[i].total < MaxOut => /\ [Snapshot(i) EXCEPT !.total = @ + 1] \in Bufs
                                          /\ [scroll[i] EXCEPT !.total = @ + 1] \in Bufs
<1>1. scroll[i] \in Bufs /\ live[i] \in 0 .. MaxInc
  BY DEF TypeOK
<1>2. Snapshot(i) \in Bufs /\ Snapshot(i).total = scroll[i].total
  BY <1>1 DEF Bufs, Snapshot
<1>3. ASSUME NEW b \in Bufs, b.total < MaxOut
      PROVE  [b EXCEPT !.total = @ + 1] \in Bufs
  BY <1>3, BoundsAssumption DEF Bufs
<1> QED
  BY <1>1, <1>2, <1>3

\* A producer that sends a command keeps the channel well typed.
LEMMA SendTypes ==
    ASSUME TypeOK, HasRoom, NEW c, Sends(c)
    PROVE  queue' \in Seq(Cmds) /\ Len(queue') <= QueueCap
BY SentSlots, BoundsAssumption DEF HasRoom, TypeOK

\* The commands.
LEMMA Commands ==
    ASSUME NEW i \in StoreIds
    PROVE  /\ \A b \in Bufs : Cmd("created", i, b) \in Cmds /\ Cmd("buffer", i, b) \in Cmds
           /\ \A n \in 0 .. MaxInc : /\ Cmd("exited", i, [NoBuf EXCEPT !.inc = n]) \in Cmds
                                    /\ Cmd("removed", i, [NoBuf EXCEPT !.inc = n]) \in Cmds
BY BoundsAssumption DEF Cmd, Cmds, Bufs, NoBuf

\* The gate is free or held for a terminal.
LEMMA GateTypes ==
    /\ Free \in GateType
    /\ \A who \in {"exit", "remove", "removed"}, i \in StoreIds, n \in 0 .. MaxInc :
          Held(who, i, n) \in GateType
<1>1. Free.id \in NamedIds /\ \A i \in StoreIds : i \in NamedIds
  BY DEF NamedIds
<1>2. Free.by = "nobody" /\ Free.inc = 0 /\ Free = [by |-> Free.by, id |-> Free.id, inc |-> Free.inc]
  BY DEF Free
<1>3. 0 \in 0 .. MaxInc
  BY BoundsAssumption
<1>4. Free \in GateType
  BY <1>1, <1>2, <1>3 DEF GateType
<1> QED
  BY <1>1, <1>4 DEF GateType, Held

\* The steps of the producers preserve the types.
LEMMA ProducerTypes ==
    ASSUME TypeOK, Named, NEW i \in StoreIds,
           Create(i) \/ Output(i) \/ Exit(i) \/ ExitSnapshot(i) \/ RemoveBegin(i) \/ Restore(i)
    PROVE  TypeOK'
<1> USE BoundsAssumption
<1>1. CASE Create(i)
  <2>1. scroll'[i] \in Bufs /\ scroll' \in [StoreIds -> Bufs]
    BY <1>1 DEF Create, TypeOK, Bufs
  <2>2. Sends(Cmd("created", i, scroll'[i]))
    BY <1>1, <2>1, Commands DEF Create, Sends
  <2>3. HasRoom
    BY <1>1 DEF Create
  <2> QED
    BY <1>1, <2>1, <2>2, <2>3, SendTypes, SMTT(30) DEF Create, TypeOK, disk, history
<1>2. CASE Output(i)
  <2>1. scroll' \in [StoreIds -> Bufs]
    BY <1>2, Snapshots DEF Output, TypeOK
  <2>2. CASE HasRoom
    <3>1. Sends(Cmd("buffer", i, [Snapshot(i) EXCEPT !.total = @ + 1]))
      BY <1>2, <2>2, Commands, Snapshots DEF Output, Sends
    <3> QED
      BY <1>2, <2>1, <2>2, <3>1, SendTypes DEF Output, TypeOK, disk, history
  <2>3. CASE ~HasRoom
    BY <1>2, <2>1, <2>3 DEF Output, TypeOK, disk, history
  <2> QED
    BY <2>2, <2>3
<1>3. CASE Exit(i)
  <2>1. final' \in [StoreIds \X Incs -> Bufs]
    BY <1>3, Snapshots DEF Exit, TypeOK
  <2> QED
    BY <1>3, <2>1 DEF Exit, TypeOK, disk
<1>4. CASE ExitSnapshot(i)
  <2>1. scroll[i] \in Bufs /\ scroll[i].inc \in 0 .. MaxInc
    BY DEF TypeOK, Bufs
  <2>2. Sends(Cmd("buffer", i, scroll[i]))
    BY <1>4, <2>1, Commands DEF ExitSnapshot, Sends
  <2>3. HasRoom
    BY <1>4 DEF ExitSnapshot
  <2> QED
    BY <1>4, <2>1, <2>2, <2>3, SendTypes, GateTypes DEF ExitSnapshot, TypeOK, disk, history
<1>5. CASE RemoveBegin(i)
  <2>1. nextInc \in 0 .. MaxInc
    BY <1>5 DEF RemoveBegin, TypeOK
  <2>2. Sends(Cmd("removed", i, [NoBuf EXCEPT !.inc = nextInc]))
    BY <1>5, <2>1, Commands DEF RemoveBegin, Sends, Cmds
  <2>3. HasRoom
    BY <1>5 DEF RemoveBegin
  <2>4. nextInc' \in 1 .. MaxInc + 1 /\ gate' \in GateType
    BY <1>5, <2>1, GateTypes DEF RemoveBegin, TypeOK
  <2> QED
    BY <1>5, <2>2, <2>3, <2>4, SendTypes DEF RemoveBegin, TypeOK, disk, history
<1>6. CASE Restore(i)
  <2>1. scroll'[i] \in Bufs /\ scroll' \in [StoreIds -> Bufs]
    <3>1. bufs[i] \in Bufs /\ nextInc \in 0 .. MaxInc /\ nextInc \in Nat
      BY <1>6 DEF Restore, TypeOK
    <3>2. [inc |-> nextInc, from |-> nextInc, total |-> 0] \in Bufs
      BY <3>1 DEF Bufs
    <3>3. [bufs[i] EXCEPT !.inc = nextInc] \in Bufs
      BY <3>1 DEF Bufs
    <3> QED
      BY <1>6, <3>2, <3>3 DEF Restore, TypeOK
  <2>2. Sends(Cmd("created", i, scroll'[i]))
    BY <1>6, <2>1, Commands DEF Restore, Sends
  <2>3. HasRoom
    BY <1>6 DEF Restore
  <2>4. handed' \in [buf : Bufs, row : Nat]
    BY <1>6 DEF Restore, TypeOK, StoreType
  <2>5. live' \in [StoreIds -> 0 .. MaxInc] /\ nextInc' \in 1 .. MaxInc + 1
    BY <1>6 DEF Restore, TypeOK
  <2> QED
    BY <1>6, <2>1, <2>2, <2>3, <2>4, <2>5, SendTypes DEF Restore, TypeOK, disk
<1> QED
  BY <1>1, <1>2, <1>3, <1>4, <1>5, <1>6

\* So do the steps of the holder of the gate.
LEMMA HolderTypes ==
    ASSUME TypeOK, Named, ExitSent \/ RemoveEnd
    PROVE  TypeOK'
<1>1. CASE ExitSent
  <2>1. gate.id \in StoreIds /\ gate.inc \in 0 .. MaxInc /\ HasRoom
    BY <1>1, BoundsAssumption DEF ExitSent, Named, Incs
  <2>2. Sends(Cmd("exited", gate.id, [NoBuf EXCEPT !.inc = gate.inc]))
    BY <1>1, <2>1, Commands, Snapshots DEF ExitSent, Sends, Cmds
  <2> QED
    BY <1>1, <2>1, <2>2, SendTypes, GateTypes DEF ExitSent, TypeOK, disk, history
<1>2. CASE RemoveEnd
  <2>1. gate.id \in StoreIds /\ gate.inc \in 0 .. MaxInc /\ NoBuf \in Bufs
    BY <1>2, BoundsAssumption DEF RemoveEnd, Named, TypeOK, NoBuf, Bufs, Incs
  <2> QED
    BY <1>2, <2>1, BoundsAssumption, GateTypes DEF RemoveEnd, TypeOK, disk
<1> QED
  BY <1>1, <1>2

\* So do those of the worker and a crash.
LEMMA WorkerTypes ==
    ASSUME TypeOK, Named, HandleCmd \/ FlushAll \/ Crash
    PROVE  TypeOK'
<1>0. NoBuf \in Bufs /\ NoPending \in [StoreIds \X Incs -> Bufs]
  BY BoundsAssumption DEF NoBuf, Bufs, NoPending
<1>1. CASE HandleCmd
  <2> DEFINE c == Head(queue)
  <2>1. Receives
    BY <1>1 DEF HandleCmd, Receives
  <2>2. c \in Cmds /\ queue' \in Seq(Cmds) /\ Len(queue') <= QueueCap
    BY <2>1, ReceivedSlots, BoundsAssumption DEF TypeOK
  <2>3. c.id \in StoreIds /\ c.buf \in Bufs /\ c.buf.inc \in 0 .. MaxInc /\ c.buf.inc \in Nat
    BY <2>2, BoundsAssumption DEF Cmds, Bufs
  <2>4. store' \in StoreType
    <3>1. store \in StoreType
      BY DEF TypeOK
    <3>2. /\ SaveSession(store, c.id, c.buf.inc, FALSE) \in StoreType
          /\ MarkSessionDead(store, c.id, c.buf.inc) \in StoreType
          /\ DeleteSession(store, c.id, c.buf.inc) \in StoreType
      BY <2>3, <3>1, TableMethods
    <3> QED
      BY <1>1, <3>1, <3>2
         DEF HandleCmd, HandleBuffer, HandleCreated, HandleExited, HandleRemoved, disk
  <2>5. gate' \in GateType
    BY <1>1, <2>3, GateTypes, ZenonT(60)
       DEF HandleCmd, HandleBuffer, HandleCreated, HandleExited, HandleRemoved, TypeOK
  <2>6. pending' \in [StoreIds \X Incs -> Bufs]
    BY <1>0, <1>1, <2>3 DEF HandleCmd, HandleBuffer, HandleCreated, HandleExited, HandleRemoved,
                            TypeOK
  <2>7. bufs' \in [StoreIds -> Bufs]
    <3>1. CASE c.op = "exited" /\ HandleExited(c)
      <4>1. c.buf.inc \in Incs
        BY <2>1, <2>3, ReceivedSlots DEF Named, Incs
      <4>2. pending[<<c.id, c.buf.inc>>] \in Bufs
        BY <2>3, <4>1 DEF TypeOK
      <4> QED
        BY <3>1, <4>2 DEF HandleExited, SavedBuffer, TypeOK
    <3>2. CASE c.op = "removed" /\ HandleRemoved(c)
      BY <3>2, <1>0 DEF HandleRemoved, DeletedBuffer, TypeOK
    <3> QED
      BY <1>1, <3>1, <3>2 DEF HandleCmd, HandleBuffer, HandleCreated, TypeOK, disk
  <2> QED
    BY <1>1, <2>2, <2>4, <2>5, <2>6, <2>7 DEF HandleCmd, TypeOK, history
<1>2. CASE FlushAll
  <2>1. bufs' \in [StoreIds -> Bufs]
    BY <1>2 DEF FlushAll, TypeOK
  <2> QED
    BY <1>0, <1>2, <2>1 DEF FlushAll, TypeOK, memory, history
<1>3. CASE Crash
  <2>1. store' \in StoreType
    BY <1>3 DEF Crash, TypeOK, StoreType, NoRow
  <2>2. /\ live' \in [StoreIds -> 0 .. MaxInc] /\ scroll' \in [StoreIds -> Bufs]
        /\ bufs' \in [StoreIds -> Bufs] /\ exiting' \subseteq StoreIds
    BY <1>0, <1>3, BoundsAssumption DEF Crash, TypeOK
  <2>3. queue' \in Seq(Cmds) /\ Len(queue') <= QueueCap
    BY <1>3, BoundsAssumption DEF Crash
  <2> QED
    BY <1>0, <1>3, <2>1, <2>2, <2>3, GateTypes DEF Crash, TypeOK, history
<1> QED
  BY <1>1, <1>2, <1>3

-----------------------------------------------------------------------------
(***************************************************************************)
(* Incarnations: every one in use was handed out, and the gate, the        *)
(* channel and the worker's map name them correctly                        *)
(***************************************************************************)

Basis == TypeOK /\ Fresh /\ Named /\ Filed /\ Owned

\* The incarnations of the commands that are sent.
LEMMA CommandIncs ==
    ASSUME NEW op, NEW i
    PROVE  /\ \A b : Cmd(op, i, b).op = op /\ Cmd(op, i, b).id = i /\ Cmd(op, i, b).buf = b
           /\ \A n : [NoBuf EXCEPT !.inc = n].inc = n
BY DEF Cmd, NoBuf

\* Sending a command of an incarnation that was handed out.
LEMMA SendNames ==
    ASSUME TypeOK, Fresh, Named, NEW c, Sends(c), c.buf.inc # 0,
           nextInc' \in Nat, nextInc <= nextInc', c.buf.inc < nextInc'
    PROVE  \A k \in Slots' : queue'[k].buf.inc # 0 /\ queue'[k].buf.inc < nextInc'
<1> SUFFICES ASSUME NEW k \in Slots'
             PROVE  queue'[k].buf.inc # 0 /\ queue'[k].buf.inc < nextInc'
  OBVIOUS
<1>1. CASE k \in Slots
  <2>1. queue[k] \in Cmds
    BY <1>1, ElementOfSeq DEF Slots, TypeOK
  <2>2. queue[k].buf.inc \in Nat /\ nextInc \in Nat
    BY <2>1, BoundsAssumption DEF Cmds, Bufs, TypeOK
  <2> QED
    BY <1>1, <2>2, SentSlots DEF Fresh, Named
<1>2. CASE k = Len(queue) + 1
  BY <1>2, SentSlots
<1> QED
  BY <1>1, <1>2, SentSlots

\* The steps of the producers.
LEMMA ProducerBasis ==
    ASSUME Basis, NEW i \in StoreIds,
           Create(i) \/ Output(i) \/ Exit(i) \/ ExitSnapshot(i) \/ RemoveBegin(i) \/ Restore(i)
    PROVE  Basis'
<1> TypeOK /\ Fresh /\ Named /\ Filed /\ Owned
  BY DEF Basis
<1>0. TypeOK'
  BY ProducerTypes
<1>1. /\ live \in [StoreIds -> 0 .. MaxInc] /\ scroll \in [StoreIds -> Bufs] /\ nextInc \in 1 .. MaxInc + 1
      /\ MaxInc \in Nat /\ nextInc \in Nat /\ nextInc # 0 /\ Incs \subseteq Nat /\ 0 \notin Incs
      /\ final \in [StoreIds \X Incs -> Bufs] /\ bufs \in [StoreIds -> Bufs] /\ gate.inc \in Nat
  BY BoundsAssumption DEF TypeOK, Incs, GateType
<1>01. \A b \in Bufs : b.inc \in 0 .. MaxInc /\ b.inc \in Nat
  BY <1>1 DEF Bufs
<1>02. \A j \in StoreIds : store.rows[j].inc \in Nat
  BY DEF TypeOK, StoreType
<1>03. \A j \in StoreIds : live[j] \in 0 .. MaxInc /\ scroll[j] \in Bufs
  BY <1>1
<1>04. \A n \in 0 .. MaxInc : n \in Nat /\ (n # 0 => n \in Incs)
  BY BoundsAssumption DEF Incs
<1>2. \A j \in StoreIds : live[j] \in Nat /\ scroll[j].inc \in Nat /\ store.rows[j].inc \in Nat
  BY <1>01, <1>02, <1>03, <1>04
<1>3. CASE Create(i)
  <2>1. /\ scroll'[i].inc = nextInc /\ live'[i] = nextInc /\ nextInc' = nextInc + 1
        /\ \A j \in StoreIds \ {i} : live'[j] = live[j] /\ scroll'[j] = scroll[j]
        /\ gate' = gate /\ pending' = pending /\ store' = store /\ final' = final
        /\ exiting' = exiting \ {i}
    BY <1>1, <1>3 DEF Create, disk, history
  <2>2. Sends(Cmd("created", i, scroll'[i]))
    BY <1>0, <1>3, Commands DEF Create, Sends, TypeOK
  <2>3. \A k \in Slots' : queue'[k].buf.inc # 0 /\ queue'[k].buf.inc < nextInc'
    BY <1>1, <2>1, <2>2, CommandIncs, SendNames
  <2>4. Fresh' /\ Named'
    BY <1>1, <1>2, <2>1, <2>3 DEF Fresh, Named
  <2>5. Filed'
    BY <2>1 DEF Filed
  <2>6. Owned'
    BY <2>1 DEF Owned
  <2> QED
    BY <1>0, <2>4, <2>5, <2>6 DEF Basis
<1>4. CASE Output(i)
  <2>1. /\ live[i] # 0 /\ live' = live /\ nextInc' = nextInc /\ gate' = gate /\ exiting' = exiting
        /\ pending' = pending /\ store' = store /\ final' = final
        /\ \A j \in StoreIds \ {i} : scroll'[j] = scroll[j]
    BY <1>1, <1>4 DEF Output, disk, history
  <2>2. scroll'[i].inc = scroll[i].inc
    BY <1>1, <1>4 DEF Output, Bufs
  <2>3. \A k \in Slots' : queue'[k].buf.inc # 0 /\ queue'[k].buf.inc < nextInc'
    <3> DEFINE b == [Snapshot(i) EXCEPT !.total = @ + 1]
    <3>1. b.inc = live[i] /\ (scroll[i].total < MaxOut => b \in Bufs)
      BY Snapshots DEF Snapshot
    <3>2. CASE HasRoom
      <4>1. b \in Bufs /\ queue' = Append(queue, Cmd("buffer", i, b))
        BY <1>4, <3>1, <3>2 DEF Output
      <4> HIDE DEF b
      <4>3. Sends(Cmd("buffer", i, b)) /\ Cmd("buffer", i, b).buf.inc = live[i]
        BY <3>1, <4>1, Commands, CommandIncs DEF Sends
      <4>2. live[i] < nextInc' /\ nextInc' \in Nat /\ nextInc <= nextInc'
        BY <1>1, <2>1 DEF Fresh
      <4> QED
        BY <2>1, <4>2, <4>3, SendNames
    <3>3. CASE ~HasRoom
      BY <1>4, <2>1, <3>3 DEF Output, Fresh, Named, Slots
    <3> QED
      BY <3>2, <3>3
  <2>4. Fresh' /\ Named'
    BY <2>1, <2>2, <2>3 DEF Fresh, Named
  <2>5. Filed'
    BY <2>1 DEF Filed
  <2>6. Owned'
    BY <2>1, <2>2 DEF Owned
  <2> QED
    BY <1>0, <2>4, <2>5, <2>6 DEF Basis
<1>5. CASE Exit(i)
  <2>1. /\ live[i] # 0 /\ live'[i] = 0 /\ exiting' = exiting \cup {i} /\ nextInc' = nextInc
        /\ scroll' = scroll /\ gate' = gate /\ queue' = queue /\ pending' = pending /\ store' = store
        /\ final' = [final EXCEPT ![<<i, live[i]>>] = Snapshot(i)]
        /\ \A j \in StoreIds \ {i} : live'[j] = live[j]
    BY <1>1, <1>5 DEF Exit, disk
  <2>2. live[i] \in Incs /\ scroll[i].inc = live[i] /\ Snapshot(i) = scroll[i]
    <3>1. live[i] \in Incs /\ scroll[i].inc = live[i] /\ scroll[i] \in Bufs
      BY <1>03, <1>04, <2>1 DEF Owned
    <3> QED
      BY <3>1 DEF Snapshot, Bufs
  <2>3. final'[<<i, scroll[i].inc>>] = scroll[i]
    BY <1>1, <2>1, <2>2
  <2>4. \A j \in StoreIds \ {i} : \A n \in Incs : final'[<<j, n>>] = final[<<j, n>>]
    BY <1>1, <2>1
  <2>5. Owned'
    <3> SUFFICES ASSUME NEW j \in StoreIds
                 PROVE  /\ live'[j] # 0 => scroll'[j].inc = live'[j]
                        /\ j \in exiting' => /\ live'[j] = 0 /\ scroll'[j].inc # 0
                                             /\ final'[<<j, scroll'[j].inc>>] = scroll'[j]
      BY DEF Owned
    <3>1. CASE j = i
      BY <2>1, <2>2, <2>3, <3>1
    <3>2. CASE j # i
      <4>1. scroll[j].inc # 0 => scroll[j].inc \in Incs
        BY <1>1, <1>01 DEF Incs
      <4> QED
        BY <2>1, <2>4, <3>2, <4>1 DEF Owned
    <3> QED
      BY <3>1, <3>2
  <2>6. Slots' = Slots
    BY <2>1 DEF Slots
  <2>8. Fresh' /\ Named'
    BY <1>1, <2>1, <2>6 DEF Fresh, Named
  <2>7. Filed'
    BY <2>1 DEF Filed
  <2> QED
    BY <1>0, <2>5, <2>7, <2>8 DEF Basis
<1>6. CASE ExitSnapshot(i)
  <2>1. /\ i \in exiting /\ live' = live /\ scroll' = scroll /\ nextInc' = nextInc
        /\ pending' = pending /\ store' = store /\ final' = final /\ exiting' = exiting \ {i}
        /\ gate' = Held("exit", i, scroll[i].inc)
    BY <1>6 DEF ExitSnapshot, disk, history
  <2>2. scroll[i] \in Bufs /\ scroll[i].inc # 0 /\ scroll[i].inc < nextInc
    BY <1>1, <2>1 DEF Owned, Fresh
  <2>3. Sends(Cmd("buffer", i, scroll[i])) /\ Cmd("buffer", i, scroll[i]).buf.inc = scroll[i].inc
    BY <1>6, <2>2, Commands, CommandIncs DEF ExitSnapshot, Sends
  <2>4. \A k \in Slots' : queue'[k].buf.inc # 0 /\ queue'[k].buf.inc < nextInc'
    BY <1>1, <2>1, <2>2, <2>3, SendNames
  <2>5. gate'.id = i /\ gate'.inc = scroll[i].inc /\ scroll[i].inc \in Incs
    BY <1>1, <1>01, <2>1, <2>2 DEF Held, Incs
  <2>6. Fresh' /\ Named'
    BY <2>1, <2>2, <2>4, <2>5 DEF Fresh, Named
  <2>7. Filed'
    BY <2>1 DEF Filed
  <2>8. Owned'
    BY <2>1 DEF Owned
  <2> QED
    BY <1>0, <2>6, <2>7, <2>8 DEF Basis
<1>7. CASE RemoveBegin(i)
  <2>1. /\ live' = live /\ scroll' = scroll /\ nextInc' = nextInc + 1 /\ exiting' = exiting
        /\ pending' = pending /\ store' = store /\ final' = final /\ nextInc <= MaxInc
        /\ gate' = Held("remove", i, nextInc)
    BY <1>7 DEF RemoveBegin, disk, history
  <2> DEFINE c == Cmd("removed", i, [NoBuf EXCEPT !.inc = nextInc])
  <2>2. Sends(c) /\ c.buf.inc = nextInc
    <3>1. nextInc \in 0 .. MaxInc
      BY <1>1, <2>1
    <3>2. c \in Cmds /\ queue' = Append(queue, c)
      BY <1>7, <3>1, Commands DEF RemoveBegin
    <3>3. c.buf = [NoBuf EXCEPT !.inc = nextInc]
      BY CommandIncs
    <3> HIDE DEF c
    <3> QED
      BY <3>2, <3>3, CommandIncs DEF Sends
  <2>3. \A k \in Slots' : queue'[k].buf.inc # 0 /\ queue'[k].buf.inc < nextInc'
    <3> HIDE DEF c
    <3> QED
      BY <1>1, <2>1, <2>2, SendNames
  <2>4. gate'.id = i /\ gate'.inc = nextInc /\ nextInc \in Incs
    BY <1>1, <2>1 DEF Held, Incs
  <2>5. Fresh' /\ Named'
    BY <1>1, <1>2, <2>1, <2>3, <2>4 DEF Fresh, Named
  <2>6. Filed'
    BY <2>1 DEF Filed
  <2>7. Owned'
    BY <2>1 DEF Owned
  <2> QED
    BY <1>0, <2>5, <2>6, <2>7 DEF Basis
<1>8. CASE Restore(i)
  <2>1. /\ live'[i] = nextInc /\ nextInc' = nextInc + 1 /\ scroll[i].inc = 0
        /\ \A j \in StoreIds \ {i} : live'[j] = live[j] /\ scroll'[j] = scroll[j]
        /\ gate' = gate /\ pending' = pending /\ store' = store /\ final' = final
        /\ exiting' = exiting
    BY <1>1, <1>8 DEF Restore, disk
  <2>2. scroll'[i].inc = nextInc
    <3>1. \A b \in Bufs : [b EXCEPT !.inc = nextInc].inc = nextInc
      BY DEF Bufs
    <3> QED
      BY <1>1, <1>8, <3>1 DEF Restore
  <2>3. Sends(Cmd("created", i, scroll'[i]))
    BY <1>0, <1>8, Commands DEF Restore, Sends, TypeOK
  <2>4. \A k \in Slots' : queue'[k].buf.inc # 0 /\ queue'[k].buf.inc < nextInc'
    BY <1>1, <2>1, <2>2, <2>3, CommandIncs, SendNames
  <2>5. Fresh' /\ Named'
    BY <1>1, <1>2, <2>1, <2>2, <2>4 DEF Fresh, Named
  <2>6. Filed'
    BY <2>1 DEF Filed
  <2>7. Owned'
    BY <2>1, <2>2 DEF Owned
  <2> QED
    BY <1>0, <2>5, <2>6, <2>7 DEF Basis
<1> QED
  BY <1>3, <1>4, <1>5, <1>6, <1>7, <1>8

\* The row of a running session is saved as available.
SaveRunning(s, i, n) == SaveSession(s, i, n, FALSE)

\* save_session_for_incarnation: the row is the new incarnation or it stays,
\* and the watermark is dropped only below the row.
LEMMA Saved ==
    ASSUME NEW s \in StoreType, NEW i \in StoreIds, NEW n \in Nat,
           NEW t, t = SaveRunning(s, i, n)
    PROVE  /\ \A j \in StoreIds \ {i} : t.rows[j] = s.rows[j] /\ t.removed[j] = s.removed[j]
           /\ \/ t.rows[i] = s.rows[i]
              \/ /\ t.rows[i].inc = n /\ t.rows[i].alive /\ n >= s.rows[i].inc
                 /\ s.removed[i] = 0 \/ n > s.removed[i]
           /\ t.removed[i] = s.removed[i] \/ (s.removed[i] < n /\ t.rows[i].inc >= n)
BY DEF StoreType, SaveSession, SaveRunning

\* mark_session_dead_for_incarnation: only the status of that incarnation.
LEMMA Marked ==
    ASSUME NEW s \in StoreType, NEW i \in StoreIds, NEW n \in Nat,
           NEW t, t = MarkSessionDead(s, i, n)
    PROVE  /\ t.removed = s.removed
           /\ \A j \in StoreIds : t.rows[j].inc = s.rows[j].inc
           /\ \A j \in StoreIds : j # i \/ s.rows[i].inc # n => t.rows[j] = s.rows[j]
BY DEF StoreType, MarkSessionDead

\* delete_session: the watermark covers the incarnation; a row above both
\* watermarks stays.
LEMMA Deleted ==
    ASSUME NEW s \in StoreType, NEW i \in StoreIds, NEW n \in Nat,
           NEW t, t = DeleteSession(s, i, n)
    PROVE  /\ \A j \in StoreIds \ {i} : t.rows[j] = s.rows[j] /\ t.removed[j] = s.removed[j]
           /\ t.removed[i] >= n /\ t.removed[i] >= s.removed[i]
           /\ \/ /\ t.rows[i] = s.rows[i] /\ s.rows[i].inc > t.removed[i]
                 /\ s.rows[i].inc > n /\ s.rows[i].inc > s.removed[i]
              \/ /\ t.rows[i] = NoRow
                 /\ s.rows[i].inc <= n \/ s.rows[i].inc <= s.removed[i]
BY DEF StoreType, DeleteSession, NoRow

\* The steps of the holder of the gate.
LEMMA HolderBasis ==
    ASSUME Basis, ExitSent \/ RemoveEnd
    PROVE  Basis'
<1> TypeOK /\ Fresh /\ Named /\ Filed /\ Owned
  BY DEF Basis
<1>0. TypeOK'
  BY HolderTypes
<1>1. nextInc \in Nat /\ nextInc > 0 /\ Free.by = "nobody" /\ Free.inc = 0 /\ NoBuf.inc = 0
  BY BoundsAssumption DEF TypeOK, Free, NoBuf
<1>2. CASE ExitSent
  <2>1. /\ live' = live /\ scroll' = scroll /\ nextInc' = nextInc /\ exiting' = exiting
        /\ pending' = pending /\ store' = store /\ final' = final /\ gate' = Free
        /\ gate.by = "exit"
    BY <1>2 DEF ExitSent, disk, history
  <2>2. gate.id \in StoreIds /\ gate.inc \in 0 .. MaxInc /\ gate.inc # 0 /\ gate.inc < nextInc
    BY <2>1, BoundsAssumption DEF Named, Fresh, Incs
  <2> DEFINE c == Cmd("exited", gate.id, [NoBuf EXCEPT !.inc = gate.inc])
  <2>3. c \in Cmds /\ queue' = Append(queue, c) /\ c.buf = [NoBuf EXCEPT !.inc = gate.inc]
    BY <1>2, <2>2, Commands, CommandIncs DEF ExitSent
  <2> HIDE DEF c
  <2>4. Sends(c) /\ c.buf.inc = gate.inc
    BY <2>3, CommandIncs DEF Sends
  <2>5. \A k \in Slots' : queue'[k].buf.inc # 0 /\ queue'[k].buf.inc < nextInc'
    BY <1>1, <2>1, <2>2, <2>4, SendNames
  <2>6. Fresh' /\ Named'
    BY <1>1, <2>1, <2>5 DEF Fresh, Named
  <2>7. Filed' /\ Owned'
    BY <2>1 DEF Filed, Owned
  <2> QED
    BY <1>0, <2>6, <2>7 DEF Basis
<1>3. CASE RemoveEnd
  <2>1. /\ queue' = queue /\ nextInc' = nextInc /\ exiting' = exiting \ {gate.id}
        /\ pending' = pending /\ store' = store /\ final' = final /\ gate' = Free
        /\ gate.by = "removed" /\ Slots' = Slots
    BY <1>3 DEF RemoveEnd, disk, Slots
  <2>2. gate.id \in StoreIds
    BY <2>1 DEF Named
  <2>3. /\ live'[gate.id] = 0 /\ scroll'[gate.id] = NoBuf
        /\ \A j \in StoreIds \ {gate.id} : live'[j] = live[j] /\ scroll'[j] = scroll[j]
    BY <1>3, <2>2 DEF RemoveEnd, TypeOK
  <2>4. Fresh' /\ Named'
    BY <1>1, <2>1, <2>3 DEF Fresh, Named
  <2>5. Filed'
    BY <2>1 DEF Filed
  <2>6. Owned'
    BY <2>1, <2>3 DEF Owned
  <2> QED
    BY <1>0, <2>4, <2>5, <2>6 DEF Basis
<1> QED
  BY <1>2, <1>3

\* The steps of the worker, and a crash.
LEMMA WorkerBasis ==
    ASSUME Basis, HandleCmd \/ FlushAll \/ Crash
    PROVE  Basis'
<1> TypeOK /\ Fresh /\ Named /\ Filed /\ Owned
  BY DEF Basis
<1>0. TypeOK'
  BY WorkerTypes
<1>1. nextInc \in Nat /\ nextInc > 0 /\ NoBuf.inc = 0 /\ NoRow.inc = 0 /\ Free.by = "nobody" /\ Free.inc = 0
  BY BoundsAssumption DEF TypeOK, NoBuf, NoRow, Free
<1>01. NoPending = [k \in StoreIds \X Incs |-> NoBuf] /\ \A i \in StoreIds, n \in Incs : NoPending[<<i, n>>] = NoBuf
  BY DEF NoPending
<1>2. CASE HandleCmd
  <2> DEFINE c == queue[1]
  <2>1. Receives /\ 1 \in Slots /\ Head(queue) = c /\ c \in Cmds
        /\ \A k \in Slots' : k + 1 \in Slots /\ queue'[k] = queue[k + 1]
    BY <1>2, ReceivedSlots DEF HandleCmd, Receives
  <2>2. /\ live' = live /\ scroll' = scroll /\ nextInc' = nextInc /\ exiting' = exiting /\ final' = final
        /\ \/ c.op = "buffer" /\ HandleBuffer(c)
           \/ c.op = "created" /\ HandleCreated(c)
           \/ c.op = "exited" /\ HandleExited(c)
           \/ c.op = "removed" /\ HandleRemoved(c)
    BY <1>2, <2>1 DEF HandleCmd, history
  <2>3. c.id \in StoreIds /\ c.buf.inc \in Incs /\ c.buf.inc \in Nat /\ c.buf.inc < nextInc
        /\ store \in StoreType /\ c.buf \in Bufs /\ pending \in [StoreIds \X Incs -> Bufs]
    <3>1. c.id \in StoreIds /\ c.buf \in Bufs /\ store \in StoreType /\ pending \in [StoreIds \X Incs -> Bufs]
      BY <2>1 DEF Cmds, TypeOK
    <3>2. c.buf.inc \in 0 .. MaxInc
      BY <3>1 DEF Bufs
    <3>3. c.buf.inc # 0 /\ c.buf.inc < nextInc
      BY <2>1 DEF Named, Fresh
    <3> QED
      BY <3>1, <3>2, <3>3, BoundsAssumption DEF Incs
  <2> HIDE DEF c
  <2>4. Owned' /\ \A k \in Slots' : queue'[k].buf.inc # 0 /\ queue'[k].buf.inc < nextInc'
    BY <2>1, <2>2 DEF Owned, Named, Fresh
  <2>5. gate' = gate \/ gate' = Held("removed", c.id, c.buf.inc)
    BY <2>2 DEF HandleBuffer, HandleCreated, HandleExited, HandleRemoved
  <2>6. Named'
    BY <2>3, <2>4, <2>5 DEF Named, Held
  <2>7. \A i \in StoreIds : store'.rows[i].inc < nextInc
    <3>1. CASE store' = store
      BY <3>1 DEF Fresh
    <3>2. CASE store' = SaveSession(store, c.id, c.buf.inc, FALSE)
      <4>0. /\ store \in StoreType /\ c.id \in StoreIds /\ c.buf.inc \in Nat
            /\ store' = SaveRunning(store, c.id, c.buf.inc)
        BY <2>3, <3>2 DEF SaveRunning
      <4>1. /\ \A j \in StoreIds \ {c.id} : store'.rows[j] = store.rows[j]
            /\ store'.rows[c.id] = store.rows[c.id] \/ store'.rows[c.id].inc = c.buf.inc
        BY <4>0, Saved
      <4> QED
        BY <2>3, <4>1 DEF Fresh
    <3>3. CASE store' = MarkSessionDead(store, c.id, c.buf.inc)
      BY <2>3, <3>3, Marked DEF Fresh
    <3>4. CASE store' = DeleteSession(store, c.id, c.buf.inc)
      BY <1>1, <2>3, <3>4, Deleted DEF Fresh
    <3> QED
      BY <2>2, <3>1, <3>2, <3>3, <3>4
         DEF HandleBuffer, HandleCreated, HandleExited, HandleRemoved, disk
  <2>8. Fresh'
    BY <2>2, <2>3, <2>4, <2>5, <2>7 DEF Fresh, Held
  <2>9. Filed'
    <3> SUFFICES ASSUME NEW i \in StoreIds, NEW n \in Incs
                 PROVE  pending'[<<i, n>>] = NoBuf \/ pending'[<<i, n>>].inc = n
      BY DEF Filed
    <3>1. pending'[<<i, n>>] \in {pending[<<i, n>>], NoBuf} \/ pending'[<<i, n>>].inc = n
      <4>1. CASE c.op = "buffer" /\ HandleBuffer(c)
        BY <2>3, <4>1 DEF HandleBuffer
      <4>2. CASE c.op = "exited" /\ HandleExited(c)
        BY <2>3, <4>2 DEF HandleExited
      <4>3. CASE c.op = "removed" /\ HandleRemoved(c)
        BY <4>3 DEF HandleRemoved
      <4> QED
        BY <2>2, <4>1, <4>2, <4>3 DEF HandleCreated
    <3> QED
      BY <3>1 DEF Filed
  <2> QED
    BY <1>0, <2>4, <2>6, <2>8, <2>9 DEF Basis
<1>3. CASE FlushAll
  <2>1. /\ live' = live /\ scroll' = scroll /\ nextInc' = nextInc /\ exiting' = exiting /\ final' = final
        /\ gate' = gate /\ queue' = queue /\ store' = store /\ pending' = NoPending /\ Slots' = Slots
    BY <1>3 DEF FlushAll, memory, history, Slots
  <2>2. Fresh' /\ Named'
    BY <2>1 DEF Fresh, Named
  <2>3. Filed'
    BY <1>01, <2>1 DEF Filed
  <2>4. Owned'
    BY <2>1 DEF Owned
  <2> QED
    BY <1>0, <2>2, <2>3, <2>4 DEF Basis
<1>4. CASE Crash
  <2>1. /\ live' = [i \in StoreIds |-> 0] /\ scroll' = [i \in StoreIds |-> NoBuf] /\ nextInc' = nextInc
        /\ exiting' = {} /\ gate' = Free /\ pending' = NoPending /\ queue' = << >>
        /\ \A i \in StoreIds : store'.rows[i] \in {NoRow, store.rows[i]}
    BY <1>4 DEF Crash
  <2>2. Slots' = {}
    BY <2>1 DEF Slots
  <2>3. Fresh' /\ Named'
    BY <1>1, <2>1, <2>2 DEF Fresh, Named
  <2>4. Filed'
    BY <1>01, <2>1 DEF Filed
  <2>5. Owned'
    BY <2>1 DEF Owned
  <2> QED
    BY <1>0, <2>3, <2>4, <2>5 DEF Basis
<1> QED
  BY <1>2, <1>3, <1>4

-----------------------------------------------------------------------------
(***************************************************************************)
(* Order in the channel                                                    *)
(***************************************************************************)

\* Which commands the slots hold after a command was sent.
LEMMA SentIs ==
    ASSUME TypeOK, NEW c, Sends(c), NEW op, NEW i, NEW n
    PROVE  /\ \A k \in Slots : Is(op, k, i, n)' <=> Is(op, k, i, n)
           /\ \A k : k = Len(queue) + 1 => (Is(op, k, i, n)' <=> c.op = op /\ c.id = i /\ c.buf.inc = n)
           /\ Slots' = Slots \cup {Len(queue) + 1} /\ Len(queue) \in Nat
           /\ Len(queue') = Len(queue) + 1 /\ \A k \in Slots : k \in Nat /\ k < Len(queue) + 1
<1>1. Slots' = Slots \cup {Len(queue) + 1} /\ \A k \in Slots : k \in Nat /\ k < Len(queue) + 1
  BY SentSlots DEF Slots
<1> QED
  BY <1>1, SentSlots DEF Is

\* Which commands they hold after one was received.
LEMMA ReceivedIs ==
    ASSUME TypeOK, Receives, NEW op, NEW i, NEW n
    PROVE  /\ \A k \in Slots' : k + 1 \in Slots /\ (Is(op, k, i, n)' <=> Is(op, k + 1, i, n))
           /\ 1 \in Slots /\ \A k \in Slots' : k \in Nat /\ 1 < k + 1
           /\ \A k \in Slots : k = 1 \/ (k - 1 \in Slots' /\ k \in Nat)
<1>1. /\ \A k \in Slots' : k \in Nat /\ 1 < k + 1
      /\ \A k \in Slots : k = 1 \/ (k - 1 \in Slots' /\ k \in Nat)
  BY ReceivedSlots DEF Slots
<1> QED
  BY <1>1, ReceivedSlots DEF Is

\* A snapshot in the channel was there, or it is the command that was sent.
LEMMA SnapshotSent ==
    ASSUME TypeOK, NEW c, Sends(c), NEW i, NEW n, NEW k \in Slots', Is("buffer", k, i, n)'
    PROVE  \/ k \in Slots /\ Is("buffer", k, i, n)
           \/ c.op = "buffer" /\ c.id = i /\ c.buf.inc = n
BY SentIs

\* A row is sent before the snapshots of its incarnation.
LEMMA CreatedFirstSent ==
    ASSUME Basis, CreatedFirst, NEW c, Sends(c),
           c.op = "created" => \A k \in Slots : queue[k].buf.inc # c.buf.inc
    PROVE  CreatedFirst'
<1> SUFFICES ASSUME NEW i \in StoreIds, NEW n \in Incs, NEW j \in Slots', NEW k \in Slots',
                    Is("buffer", j, i, n)', Is("created", k, i, n)'
             PROVE  k < j
  BY DEF CreatedFirst
<1> TypeOK
  BY DEF Basis
<1>1. CASE j \in Slots /\ k \in Slots
  BY <1>1, SentIs DEF CreatedFirst
<1>2. CASE j = Len(queue) + 1 /\ k \in Slots
  BY <1>2, SentIs
<1>3. CASE k = Len(queue) + 1 /\ j \in Slots
  <2>1. Is("buffer", j, i, n)
    BY <1>3, SentIs
  <2>2. c.op = "created" /\ c.buf.inc = n
    BY <1>3, SentIs
  <2> QED
    BY <1>3, <2>1, <2>2 DEF Is
<1>4. CASE k = Len(queue) + 1 /\ j = Len(queue) + 1
  BY <1>4, SentIs
<1> QED
  BY <1>1, <1>2, <1>3, <1>4, SentIs

\* Receiving keeps the order.
LEMMA CreatedFirstReceived ==
    ASSUME Basis, CreatedFirst, Receives
    PROVE  CreatedFirst'
<1> SUFFICES ASSUME NEW i \in StoreIds, NEW n \in Incs, NEW j \in Slots', NEW k \in Slots',
                    Is("buffer", j, i, n)', Is("created", k, i, n)'
             PROVE  k < j
  BY DEF CreatedFirst
<1> TypeOK
  BY DEF Basis
<1>1. /\ j + 1 \in Slots /\ k + 1 \in Slots /\ j \in Nat /\ k \in Nat
      /\ Is("buffer", j + 1, i, n) /\ Is("created", k + 1, i, n)
  BY ReceivedIs
<1>2. k + 1 < j + 1
  BY <1>1 DEF CreatedFirst
<1> QED
  BY <1>1, <1>2

\* A removal that is sent is above every row and every command.
LEMMA RemovalAboveSent ==
    ASSUME Basis, RemovalAbove, NEW c, Sends(c), store' = store,
           c.op = "removed" => c.buf.inc = nextInc
    PROVE  RemovalAbove'
<1> SUFFICES ASSUME NEW i \in StoreIds, NEW n \in Incs, NEW k \in Slots', Is("removed", k, i, n)'
             PROVE  /\ store.rows[i].inc < n
                    /\ \A j \in Slots' : \A m \in Incs : j < k /\ Is("created", j, i, m)' => m < n
  BY DEF RemovalAbove
<1> TypeOK /\ Fresh
  BY DEF Basis
<1>1. CASE k \in Slots
  <2>1. Is("removed", k, i, n) /\ k \in Nat
    BY <1>1, SentIs
  <2>2. ASSUME NEW j \in Slots', NEW m \in Incs, j < k, Is("created", j, i, m)'
        PROVE  m < n
    <3>1. j \in Slots
      BY <1>1, <2>1, <2>2, SentIs
    <3> QED
      BY <1>1, <2>1, <2>2, <3>1, SentIs DEF RemovalAbove
  <2> QED
    BY <1>1, <2>1, <2>2 DEF RemovalAbove
<1>2. CASE k = Len(queue) + 1
  <2>1. n = nextInc
    BY <1>2, SentIs
  <2>2. ASSUME NEW j \in Slots', NEW m \in Incs, j < k, Is("created", j, i, m)'
        PROVE  m < n
    <3>1. j \in Slots
      BY <1>2, <2>2, SentIs
    <3>2. Is("created", j, i, m)
      BY <2>2, <3>1, SentIs
    <3> QED
      BY <2>1, <3>1, <3>2 DEF Fresh, Is
  <2> QED
    BY <2>1, <2>2 DEF Fresh
<1> QED
  BY <1>1, <1>2, SentIs

\* Saving the first row of the channel keeps the queued removals above it.
LEMMA RemovalAboveReceived ==
    ASSUME Basis, RemovalAbove, Receives,
           \A i \in StoreIds : \/ store'.rows[i].inc = store.rows[i].inc
                               \/ store'.rows[i].inc = 0
                               \/ /\ store'.rows[i].inc \in Incs
                                  /\ Is("created", 1, i, store'.rows[i].inc)
    PROVE  RemovalAbove'
<1> SUFFICES ASSUME NEW i \in StoreIds, NEW n \in Incs, NEW k \in Slots', Is("removed", k, i, n)'
             PROVE  /\ store'.rows[i].inc < n
                    /\ \A j \in Slots' : \A m \in Incs : j < k /\ Is("created", j, i, m)' => m < n
  BY DEF RemovalAbove
<1> TypeOK
  BY DEF Basis
<1>1. k + 1 \in Slots /\ Is("removed", k + 1, i, n) /\ k \in Nat /\ 1 \in Slots /\ 1 < k + 1
  BY ReceivedIs
<1>2. /\ store.rows[i].inc < n
      /\ \A j \in Slots : \A m \in Incs : j < k + 1 /\ Is("created", j, i, m) => m < n
  BY <1>1 DEF RemovalAbove
<1>3. store'.rows[i].inc < n
  <2>1. 0 < n
    BY BoundsAssumption DEF Incs
  <2> QED
    BY <1>1, <1>2, <2>1
<1>4. ASSUME NEW j \in Slots', NEW m \in Incs, j < k, Is("created", j, i, m)'
      PROVE  m < n
  <2>1. j + 1 \in Slots /\ Is("created", j + 1, i, m) /\ j \in Nat /\ j + 1 < k + 1
    BY <1>1, <1>4, ReceivedIs
  <2> QED
    BY <1>2, <2>1
<1> QED
  BY <1>3, <1>4

-----------------------------------------------------------------------------
(***************************************************************************)
(* The final snapshot                                                      *)
(***************************************************************************)

\* A step that leaves the worker's map and the tables alone.
DiskStays == pending' = pending /\ store' = store /\ bufs' = bufs

\* A delivered snapshot stays delivered while others send.
LEMMA DeliveredSent ==
    ASSUME TypeOK, DiskStays, NEW i \in StoreIds, NEW n \in Incs, NEW k \in Nat, Delivered(i, n, k),
           final'[<<i, n>>] = final[<<i, n>>],
           NEW c, Sends(c), ~(c.op \in {"buffer", "created"} /\ c.id = i /\ c.buf.inc = n)
    PROVE  Delivered(i, n, k)'
<1>1. \A l \in Slots' : /\ Is("buffer", l, i, n)' => l \in Slots /\ Is("buffer", l, i, n)
                        /\ Is("created", l, i, n)' => l \in Slots /\ Is("created", l, i, n)
  <2>1. \A l \in Slots' : Is("buffer", l, i, n)' => l \in Slots /\ Is("buffer", l, i, n)
    BY SentIs
  <2>2. \A l \in Slots' : Is("created", l, i, n)' => l \in Slots /\ Is("created", l, i, n)
    BY SentIs
  <2> QED
    BY <2>1, <2>2
<1>2. final'[<<i, n>>].inc = n
  BY DEF Delivered
<1>3. CASE \E j \in Slots : /\ j < k /\ Is("buffer", j, i, n) /\ queue[j].buf = final[<<i, n>>]
                            /\ \A l \in Slots : j < l => ~Is("buffer", l, i, n)
  <2> PICK j \in Slots : /\ j < k /\ Is("buffer", j, i, n) /\ queue[j].buf = final[<<i, n>>]
                         /\ \A l \in Slots : j < l => ~Is("buffer", l, i, n)
    BY <1>3
  <2>1. j \in Slots' /\ Is("buffer", j, i, n)' /\ queue'[j] = queue[j]
    BY SentIs, SentSlots
  <2>2. \A l \in Slots' : j < l => ~Is("buffer", l, i, n)'
    BY <1>1
  <2> QED
    BY <1>2, <2>1, <2>2 DEF Delivered
<1>4. CASE /\ \A l \in Slots : ~Is("buffer", l, i, n) /\ ~Is("created", l, i, n)
           /\ \/ pending[<<i, n>>] = final[<<i, n>>]
              \/ /\ pending[<<i, n>>] = NoBuf
                 /\ store.rows[i].inc = n => bufs[i] = final[<<i, n>>]
  <2>1. \A l \in Slots' : ~Is("buffer", l, i, n)' /\ ~Is("created", l, i, n)'
    BY <1>1, <1>4
  <2> QED
    BY <1>2, <1>4, <2>1 DEF Delivered, DiskStays
<1> QED
  BY <1>3, <1>4 DEF Delivered

\* It stays delivered in a step that leaves the channel alone as well.
LEMMA DeliveredStays ==
    ASSUME DiskStays, queue' = queue, NEW i \in StoreIds, NEW n \in Incs, NEW k \in Nat,
           Delivered(i, n, k), final'[<<i, n>>] = final[<<i, n>>]
    PROVE  Delivered(i, n, k)'
BY DEF DiskStays, Delivered, Is, Slots

\* What a step of the worker does to an incarnation: its snapshot is filed,
\* or stored where the row is its own, or nothing happens to it.
Files(i, n) == Is("buffer", 1, i, n) /\ pending'[<<i, n>>] = queue[1].buf /\ bufs'[i] = bufs[i]
Stores(i, n) ==
    /\ ~Is("buffer", 1, i, n) /\ pending'[<<i, n>>] = NoBuf
    /\ \/ store.rows[i].inc # n /\ store'.rows[i].inc # n
       \/ bufs'[i] = IF pending[<<i, n>>] # NoBuf THEN pending[<<i, n>>] ELSE bufs[i]
       \/ store'.rows[i].inc # n
Passes(i, n) ==
    /\ ~Is("buffer", 1, i, n) /\ ~Is("exited", 1, i, n) /\ pending'[<<i, n>>] = pending[<<i, n>>]
    /\ bufs'[i] = bufs[i] \/ store'.rows[i].inc # n
Works(i, n) ==
    /\ final'[<<i, n>>] = final[<<i, n>>]
    /\ Files(i, n) \/ Stores(i, n) \/ Passes(i, n)
    /\ store'.rows[i].inc = n => store.rows[i].inc = n \/ Is("created", 1, i, n)

\* Receiving moves the delivery of a final snapshot on.
LEMMA DeliveredReceived ==
    ASSUME Basis, CreatedFirst, Receives, NEW i \in StoreIds, NEW n \in Incs, NEW k \in Nat,
           Delivered(i, n, k + 1), Works(i, n)
    PROVE  Delivered(i, n, k)'
<1> TypeOK
  BY DEF Basis
<1> USE DEF Works
<1>1. \A l \in Slots' : /\ l + 1 \in Slots /\ l \in Nat
                        /\ Is("buffer", l, i, n)' <=> Is("buffer", l + 1, i, n)
  BY ReceivedIs
<1>2. \A l \in Slots' : /\ l + 1 \in Slots /\ l \in Nat
                        /\ Is("created", l, i, n)' <=> Is("created", l + 1, i, n)
  BY ReceivedIs
<1>3. final'[<<i, n>>].inc = n /\ final[<<i, n>>].inc = n /\ final[<<i, n>>] # NoBuf
  BY DEF Delivered, NoBuf, Incs
<1>4. CASE \E j \in Slots : /\ j < k + 1 /\ Is("buffer", j, i, n) /\ queue[j].buf = final[<<i, n>>]
                            /\ \A l \in Slots : j < l => ~Is("buffer", l, i, n)
  <2> PICK j \in Slots : /\ j < k + 1 /\ Is("buffer", j, i, n) /\ queue[j].buf = final[<<i, n>>]
                         /\ \A l \in Slots : j < l => ~Is("buffer", l, i, n)
    BY <1>4
  <2>1. CASE j = 1
    <3>1. \A l \in Slots' : ~Is("buffer", l, i, n)' /\ ~Is("created", l, i, n)'
      <4> SUFFICES ASSUME NEW l \in Slots' PROVE ~Is("buffer", l, i, n)' /\ ~Is("created", l, i, n)'
        OBVIOUS
      <4>1. l + 1 \in Slots /\ l \in Nat /\ 1 < l + 1 /\ 1 \in Slots
        BY ReceivedIs
      <4>2. ~Is("buffer", l + 1, i, n)
        BY <2>1, <4>1
      <4>3. ~Is("created", l + 1, i, n)
        BY <2>1, <4>1 DEF CreatedFirst
      <4> QED
        BY <1>1, <1>2, <4>2, <4>3
    <3>2. pending'[<<i, n>>] = final'[<<i, n>>]
      BY <2>1 DEF Files, Stores, Passes
    <3> QED
      BY <1>3, <3>1, <3>2 DEF Delivered
  <2>2. CASE j # 1
    <3>1. j - 1 \in Slots' /\ j \in Nat /\ (j - 1) + 1 = j /\ j - 1 < k
      BY <2>2, ReceivedIs
    <3>2. Is("buffer", j - 1, i, n)'
      BY <1>1, <3>1
    <3>3. queue'[j - 1] = queue[j]
      BY <3>1, ReceivedSlots
    <3>4. \A l \in Slots' : j - 1 < l => ~Is("buffer", l, i, n)'
      BY <1>1, <3>1
    <3> QED
      BY <1>3, <3>1, <3>2, <3>3, <3>4 DEF Delivered
  <2> QED
    BY <2>1, <2>2
<1>5. CASE /\ \A l \in Slots : ~Is("buffer", l, i, n) /\ ~Is("created", l, i, n)
           /\ \/ pending[<<i, n>>] = final[<<i, n>>]
              \/ /\ pending[<<i, n>>] = NoBuf
                 /\ store.rows[i].inc = n => bufs[i] = final[<<i, n>>]
  <2>1. \A l \in Slots' : ~Is("buffer", l, i, n)' /\ ~Is("created", l, i, n)'
    BY <1>1, <1>2, <1>5
  <2>2. ~Is("buffer", 1, i, n) /\ ~Is("created", 1, i, n)
    BY <1>5, ReceivedSlots
  <2>3. \/ pending'[<<i, n>>] = final'[<<i, n>>]
        \/ /\ pending'[<<i, n>>] = NoBuf
           /\ store'.rows[i].inc = n => bufs'[i] = final'[<<i, n>>]
    BY <1>3, <1>5, <2>2 DEF Files, Stores, Passes
  <2> QED
    BY <1>3, <2>1, <2>3 DEF Delivered
<1> QED
  BY <1>4, <1>5 DEF Delivered

\* What a producer may send: a row or a removal of the newest incarnation, a
\* snapshot of the owner, or the exit the gate is held for.
Lawful(c) ==
    /\ c.op \in {"created", "removed"} => c.buf.inc = nextInc
    /\ c.op = "buffer" => c.id \in StoreIds /\ Owns(c.id) /\ c.buf.inc = scroll[c.id].inc
    /\ c.op = "exited" => gate.by = "exit" /\ gate.id = c.id /\ gate.inc = c.buf.inc

\* Whether the gate is taken for an exit, its final snapshot is being sent.
GateFollows(c) ==
    \/ gate' = gate \/ gate'.by # "exit"
    \/ /\ c.op = "buffer" /\ gate'.id = c.id /\ gate'.inc = c.buf.inc
       /\ c.buf = final[<<c.id, c.buf.inc>>]

\* A lawful command keeps the order of the channel, the delivery of the
\* final snapshots and the dead rows.
LEMMA LawfulSend ==
    ASSUME PQInv, DiskStays, final' = final, NEW c, Sends(c), Lawful(c), GateFollows(c)
    PROVE  CreatedFirst' /\ RemovalAbove' /\ ExitBehind' /\ DeadSettled'
<1> /\ TypeOK /\ Fresh /\ Named /\ Unreported /\ CreatedFirst
    /\ RemovalAbove /\ ExitBehind /\ DeadSettled /\ Basis
  BY DEF PQInv, Basis
<1> USE DEF Lawful
<1>0. store' = store /\ nextInc \in Nat
  BY BoundsAssumption DEF DiskStays, TypeOK
<1>1. CreatedFirst'
  <2>1. c.op = "created" => \A k \in Slots : queue[k].buf.inc # c.buf.inc
    BY <1>0 DEF Fresh
  <2> QED
    BY <2>1, CreatedFirstSent
<1>2. RemovalAbove'
  BY <1>0, RemovalAboveSent
<1>3. ASSUME NEW i \in StoreIds, NEW n \in Incs, NEW k \in Slots, Is("exited", k, i, n)
      PROVE  Delivered(i, n, k)'
  <2>1. n < nextInc /\ Delivered(i, n, k) /\ k \in Nat
    BY <1>3, SentIs DEF ExitBehind, Fresh, Is
  <2>2. ~(c.op \in {"buffer", "created"} /\ c.id = i /\ c.buf.inc = n)
    BY <1>0, <1>3, <2>1 DEF Unreported
  <2> QED
    BY <2>1, <2>2, DeliveredSent
<1>4. ASSUME NEW i \in StoreIds, NEW n \in Incs, gate.by = "exit", gate.id = i, gate.inc = n,
             NEW k \in Nat, k = Len(queue) + 1
      PROVE  Delivered(i, n, k)'
  <2>1. n < nextInc /\ Delivered(i, n, Len(queue) + 1)
    BY <1>4 DEF ExitBehind, Fresh
  <2>2. ~(c.op \in {"buffer", "created"} /\ c.id = i /\ c.buf.inc = n)
    BY <1>0, <1>4, <2>1 DEF Unreported
  <2> QED
    BY <1>4, <2>1, <2>2, DeliveredSent
<1>5. ExitBehind'
  <2>1. ASSUME NEW i \in StoreIds, NEW n \in Incs, NEW k \in Slots', Is("exited", k, i, n)'
        PROVE  Delivered(i, n, k)'
    <3>1. CASE k \in Slots
      <4>1. Is("exited", k, i, n)
        BY <2>1, <3>1, SentIs
      <4> QED
        BY <1>3, <3>1, <4>1
    <3>2. CASE k = Len(queue) + 1
      <4>1. c.op = "exited" /\ c.id = i /\ c.buf.inc = n /\ k \in Nat
        BY <2>1, <3>2, SentIs
      <4> QED
        BY <1>4, <3>2, <4>1
    <3> QED
      BY <3>1, <3>2, SentIs
  <2>2. ASSUME NEW i \in StoreIds, NEW n \in Incs, gate'.by = "exit", gate'.id = i, gate'.inc = n,
               NEW k \in Nat, k = Len(queue') + 1
        PROVE  Delivered(i, n, k)'
    <3>0. Len(queue) + 1 \in Nat
      BY SentIs
    <3> PICK m \in Nat : m = Len(queue) + 1
      BY <3>0
    <3>1. m \in Nat /\ m \in Slots' /\ k = m + 1 /\ queue'[m] = c /\ \A l \in Slots' : l = m \/ l < m
      BY <2>2, SentIs, SentSlots
    <3>2. CASE gate' = gate
      <4>1. Delivered(i, n, m)'
        BY <1>4, <2>2, <3>1, <3>2
      <4>2. m < k
        BY <3>1
      <4> QED
        BY <3>1, <4>1, <4>2, SentIs DEF Delivered
    <3>3. CASE /\ c.op = "buffer" /\ gate'.id = c.id /\ gate'.inc = c.buf.inc
               /\ c.buf = final[<<c.id, c.buf.inc>>]
      <4>1. Is("buffer", m, i, n)' /\ m < k /\ queue'[m].buf = final'[<<i, n>>]
            /\ final'[<<i, n>>].inc = n
        BY <2>2, <3>1, <3>3 DEF Is
      <4>2. \A l \in Slots' : ~(m < l)
        BY <3>1, SentIs
      <4> QED
        BY <3>1, <4>1, <4>2 DEF Delivered
    <3> QED
      BY <2>2, <3>2, <3>3 DEF GateFollows
  <2>3. Len(queue') + 1 \in Nat
    BY SentIs
  <2> QED
    BY <2>1, <2>2, <2>3 DEF ExitBehind
<1>6. DeadSettled'
  <2> SUFFICES ASSUME NEW i \in StoreIds, NEW n \in Incs,
                      store.rows[i].inc = n /\ ~store.rows[i].alive
               PROVE  /\ bufs'[i] = final'[<<i, n>>] /\ pending'[<<i, n>>] = NoBuf
                      /\ \A k \in Slots' : ~Is("buffer", k, i, n)'
    BY <1>0 DEF DeadSettled
  <2>1. \A k \in Slots : ~Is("buffer", k, i, n)
    BY DEF DeadSettled
  <2>2. ~(c.op = "buffer" /\ c.id = i /\ c.buf.inc = n)
    BY DEF Unreported
  <2>3. \A k \in Slots' : ~Is("buffer", k, i, n)'
    BY <2>1, <2>2, SnapshotSent
  <2> QED
    BY <2>3 DEF DeadSettled, DiskStays
<1> QED
  BY <1>1, <1>2, <1>5, <1>6

\* What was removed stays cleared while the tables do.
LEMMA ClearedStays ==
    ASSUME PQInv, DiskStays, gone' = gone, gate' = gate \/ gate'.by # "removed"
    PROVE  RemovedCleared'
BY DEF PQInv, RemovedCleared, Cleared, DiskStays

\* Nobody reports the exit of an owner.
LEMMA UnreportedSent ==
    ASSUME PQInv, store' = store, NEW c, Sends(c), Lawful(c),
           \A i \in StoreIds : Owns(i)' =>
               \/ /\ Owns(i) /\ scroll'[i].inc = scroll[i].inc
                  /\ gate'.by = "exit" => gate' = gate \/ gate'.id # i
               \/ scroll'[i].inc = nextInc /\ gate'.by # "exit" /\ c.op # "exited"
    PROVE  Unreported'
<1> TypeOK /\ Fresh /\ Unreported
  BY DEF PQInv
<1> SUFFICES ASSUME NEW i \in StoreIds, Owns(i)'
             PROVE  /\ \A k \in Slots' : ~Is("exited", k, i, scroll[i].inc)'
                    /\ ~(gate'.by = "exit" /\ gate'.id = i /\ gate'.inc = scroll'[i].inc)
                    /\ store'.rows[i].inc = scroll'[i].inc => store'.rows[i].alive
  BY DEF Unreported
<1> DEFINE n == scroll'[i].inc
<1>0. nextInc \in Nat
  BY BoundsAssumption DEF TypeOK
<1>1. CASE /\ Owns(i) /\ n = scroll[i].inc
           /\ gate'.by = "exit" => gate' = gate \/ gate'.id # i
  <2>1. \A k \in Slots : ~Is("exited", k, i, n)
    BY <1>1 DEF Unreported
  <2>2. ~(c.op = "exited" /\ c.id = i /\ c.buf.inc = n)
    BY <1>1 DEF Unreported, Lawful
  <2>3. \A k \in Slots' : ~(queue'[k].op = "exited" /\ queue'[k].id = i /\ queue'[k].buf.inc = n)
    BY <2>1, <2>2, SentSlots DEF Is
  <2> QED
    BY <1>1, <2>3 DEF Unreported, Is
<1>2. CASE n = nextInc /\ gate'.by # "exit" /\ c.op # "exited"
  <2>1. \A k \in Slots : queue[k].buf.inc # n /\ store.rows[i].inc # n
    BY <1>0, <1>2 DEF Fresh
  <2>2. \A k \in Slots' : ~(queue'[k].op = "exited" /\ queue'[k].id = i /\ queue'[k].buf.inc = n)
    BY <1>2, <2>1, SentSlots
  <2>3. store.rows[i].inc # n
    BY <1>0, <1>2 DEF Fresh
  <2> QED
    BY <1>2, <2>2, <2>3 DEF Is
<1> QED
  BY <1>1, <1>2

\* The steps of the producers.
LEMMA ProducerSteps ==
    ASSUME PQInv, NEW i \in StoreIds,
           Create(i) \/ Output(i) \/ Exit(i) \/ ExitSnapshot(i) \/ RemoveBegin(i) \/ Restore(i)
    PROVE  PQInv'
<1> /\ TypeOK /\ Fresh /\ Named /\ Owned /\ Unreported /\ CreatedFirst
    /\ RemovalAbove /\ ExitBehind /\ DeadSettled /\ Basis
  BY DEF PQInv, Basis
<1>0. Basis'
  BY ProducerBasis
<1>1. DiskStays /\ gone' = gone
  BY DEF Create, Output, Exit, ExitSnapshot, RemoveBegin, Restore, disk, history, DiskStays
<1>2. Free.by = "nobody" /\ store' = store
  BY <1>1 DEF Free, DiskStays
<1>3. \A j \in StoreIds : live[j] # 0 => Owns(j) /\ scroll[j].inc = live[j]
  BY DEF Owns, Owned
<1>4. SUFFICES /\ CreatedFirst' /\ RemovalAbove' /\ ExitBehind' /\ DeadSettled'
               /\ Unreported' /\ RemovedCleared'
  BY <1>0 DEF PQInv, Basis
<1>5. CASE Create(i) \/ Restore(i)
  <2> DEFINE c == Cmd("created", i, scroll'[i])
  <2>1. /\ gate = Free /\ gate' = gate /\ queue' = Append(queue, c) /\ final' = final
        /\ \A j \in StoreIds \ {i} : live'[j] = live[j] /\ scroll'[j] = scroll[j]
        /\ exiting' \subseteq exiting
    BY <1>5 DEF Create, Restore, TypeOK, disk, history
  <2>2. scroll'[i].inc = nextInc /\ scroll'[i] \in Bufs
    <3>1. scroll'[i] \in Bufs
      BY <1>0 DEF Basis, TypeOK
    <3>2. CASE Create(i)
      BY <3>1, <3>2 DEF Create, TypeOK
    <3>3. CASE Restore(i)
      <4>1. \A b \in Bufs : [b EXCEPT !.inc = nextInc].inc = nextInc
        BY DEF Bufs
      <4> QED
        BY <3>1, <3>3, <4>1 DEF Restore, TypeOK
    <3> QED
      BY <1>5, <3>2, <3>3
  <2>3. c \in Cmds /\ c.op = "created" /\ c.buf.inc = nextInc
    BY <2>2, Commands, CommandIncs
  <2> HIDE DEF c
  <2>4. Sends(c) /\ Lawful(c) /\ GateFollows(c)
    BY <2>1, <2>3 DEF Sends, Lawful, GateFollows
  <2>5. CreatedFirst' /\ RemovalAbove' /\ ExitBehind' /\ DeadSettled'
    BY <1>1, <2>1, <2>4, LawfulSend
  <2>6. \A j \in StoreIds : Owns(j)' =>
            \/ /\ Owns(j) /\ scroll'[j].inc = scroll[j].inc
               /\ gate'.by = "exit" => gate' = gate \/ gate'.id # j
            \/ scroll'[j].inc = nextInc /\ gate'.by # "exit" /\ c.op # "exited"
    BY <1>2, <2>1, <2>2, <2>3 DEF Owns
  <2>7. Unreported'
    BY <1>2, <2>4, <2>6, UnreportedSent
  <2> QED
    BY <1>1, <2>1, <2>5, <2>7, ClearedStays
<1>6. CASE Output(i)
  <2>1. /\ live[i] # 0 /\ live' = live /\ exiting' = exiting /\ gate' = gate /\ final' = final
        /\ \A j \in StoreIds \ {i} : scroll'[j] = scroll[j]
    BY <1>6 DEF Output, TypeOK, disk, history
  <2>2. scroll'[i].inc = scroll[i].inc
    BY <1>6 DEF Output, TypeOK, Bufs
  <2>3. CASE HasRoom
    <3> DEFINE b == [Snapshot(i) EXCEPT !.total = @ + 1]
               c == Cmd("buffer", i, b)
    <3>1. b \in Bufs /\ b.inc = live[i] /\ queue' = Append(queue, c)
      BY <1>6, <2>3, Snapshots DEF Output, Snapshot
    <3> HIDE DEF b
    <3>2. c \in Cmds /\ c.op = "buffer" /\ c.id = i /\ c.buf.inc = live[i]
      BY <3>1, Commands, CommandIncs
    <3> HIDE DEF c
    <3>3. Sends(c) /\ Lawful(c) /\ GateFollows(c)
      BY <1>3, <2>1, <3>1, <3>2 DEF Sends, Lawful, GateFollows
    <3>4. CreatedFirst' /\ RemovalAbove' /\ ExitBehind' /\ DeadSettled'
      BY <1>1, <2>1, <3>3, LawfulSend
    <3>5. \A j \in StoreIds : Owns(j)' => Owns(j) /\ scroll'[j].inc = scroll[j].inc
      BY <2>1, <2>2 DEF Owns
    <3>6. Unreported'
      BY <1>2, <2>1, <3>3, <3>5, UnreportedSent
    <3> QED
      BY <1>1, <2>1, <3>4, <3>6, ClearedStays
  <2>4. CASE ~HasRoom
    <3>1. queue' = queue /\ pending' = pending /\ bufs' = bufs /\ Slots' = Slots
      BY <1>1, <1>6, <2>4 DEF Output, DiskStays, Slots
    <3>2. CreatedFirst' /\ RemovalAbove' /\ ExitBehind' /\ DeadSettled'
      BY <1>2, <2>1, <3>1 DEF CreatedFirst, RemovalAbove, ExitBehind, DeadSettled, Delivered, Is
    <3>3. Unreported'
      <4> SUFFICES ASSUME NEW j \in StoreIds, Owns(j)'
                   PROVE  /\ \A k \in Slots : ~Is("exited", k, j, scroll[j].inc)'
                          /\ ~(gate.by = "exit" /\ gate.id = j /\ gate.inc = scroll'[j].inc)
                          /\ store.rows[j].inc = scroll'[j].inc => store.rows[j].alive
        BY <1>2, <2>1, <3>1 DEF Unreported
      <4>1. Owns(j) /\ scroll'[j].inc = scroll[j].inc
        BY <2>1, <2>2 DEF Owns
      <4> QED
        BY <3>1, <4>1 DEF Unreported, Is
    <3> QED
      BY <1>1, <2>1, <3>2, <3>3, ClearedStays
  <2> QED
    BY <2>3, <2>4
<1>7. CASE Exit(i)
  <2>1. /\ live[i] # 0 /\ scroll' = scroll /\ gate' = gate /\ queue' = queue /\ Slots' = Slots
        /\ pending' = pending /\ bufs' = bufs /\ exiting' = exiting \cup {i}
        /\ \A j \in StoreIds : live'[j] # 0 => live[j] # 0
        /\ \A j \in StoreIds, n \in Incs : j # i \/ n # live[i] => final'[<<j, n>>] = final[<<j, n>>]
    BY <1>7 DEF Exit, TypeOK, disk, Slots
  <2>2. Owns(i) /\ scroll[i].inc = live[i]
    BY <1>3, <2>1
  <2>3. CreatedFirst' /\ RemovalAbove'
    BY <1>2, <2>1 DEF CreatedFirst, RemovalAbove, Is
  <2>4. ExitBehind'
    <3>1. ASSUME NEW j \in StoreIds, NEW n \in Incs, NEW k \in Slots, Is("exited", k, j, n)
          PROVE  Delivered(j, n, k)'
      <4>1. final'[<<j, n>>] = final[<<j, n>>] /\ k \in Nat
        BY <2>1, <2>2, <3>1 DEF Unreported, Slots
      <4> QED
        BY <1>1, <2>1, <3>1, <4>1, DeliveredStays DEF ExitBehind
    <3>2. ASSUME NEW j \in StoreIds, NEW n \in Incs, gate.by = "exit", gate.id = j, gate.inc = n,
                 NEW k \in Nat, k = Len(queue) + 1
          PROVE  Delivered(j, n, k)'
      <4>1. final'[<<j, n>>] = final[<<j, n>>]
        BY <2>1, <2>2, <3>2 DEF Unreported
      <4>2. Delivered(j, n, k)
        BY <3>2 DEF ExitBehind
      <4> QED
        BY <1>1, <2>1, <4>1, <4>2, DeliveredStays
    <3>3. Len(queue) + 1 \in Nat
      BY LenProperties DEF TypeOK
    <3> QED
      BY <2>1, <3>1, <3>2, <3>3 DEF ExitBehind, Is
  <2>5. DeadSettled'
    <3> SUFFICES ASSUME NEW j \in StoreIds, NEW n \in Incs,
                        store.rows[j].inc = n, ~store.rows[j].alive
                 PROVE  /\ bufs[j] = final'[<<j, n>>] /\ pending[<<j, n>>] = NoBuf
                        /\ \A k \in Slots : ~Is("buffer", k, j, n)'
      BY <1>2, <2>1 DEF DeadSettled
    <3>1. final'[<<j, n>>] = final[<<j, n>>]
      BY <2>1, <2>2 DEF Unreported
    <3> QED
      BY <2>1, <3>1 DEF DeadSettled, Is
  <2>6. Unreported'
    <3> SUFFICES ASSUME NEW j \in StoreIds, Owns(j)'
                 PROVE  /\ \A k \in Slots : ~Is("exited", k, j, scroll[j].inc)'
                        /\ ~(gate.by = "exit" /\ gate.id = j /\ gate.inc = scroll[j].inc)
                        /\ store.rows[j].inc = scroll[j].inc => store.rows[j].alive
      BY <1>2, <2>1 DEF Unreported
    <3>1. Owns(j)
      BY <2>1, <2>2 DEF Owns
    <3> QED
      BY <2>1, <3>1 DEF Unreported, Is
  <2> QED
    BY <1>1, <2>1, <2>3, <2>4, <2>5, <2>6, ClearedStays
<1>8. CASE ExitSnapshot(i)
  <2> DEFINE c == Cmd("buffer", i, scroll[i])
  <2>1. /\ i \in exiting /\ gate' = Held("exit", i, scroll[i].inc) /\ queue' = Append(queue, c)
        /\ live' = live /\ scroll' = scroll /\ final' = final /\ exiting' = exiting \ {i}
    BY <1>8 DEF ExitSnapshot, disk, history
  <2>2. scroll[i] \in Bufs /\ final[<<i, scroll[i].inc>>] = scroll[i] /\ Owns(i) /\ live[i] = 0
    BY <2>1 DEF TypeOK, Owned, Owns
  <2>3. c \in Cmds /\ c.op = "buffer" /\ c.id = i /\ c.buf = scroll[i]
    BY <2>2, Commands, CommandIncs
  <2> HIDE DEF c
  <2>4. gate'.id = i /\ gate'.inc = scroll[i].inc
    BY <2>1 DEF Held
  <2>5. Sends(c) /\ Lawful(c) /\ GateFollows(c)
    BY <2>1, <2>2, <2>3, <2>4 DEF Sends, Lawful, GateFollows
  <2>6. CreatedFirst' /\ RemovalAbove' /\ ExitBehind' /\ DeadSettled'
    BY <1>1, <2>1, <2>5, LawfulSend
  <2>7. \A j \in StoreIds : Owns(j)' => Owns(j) /\ scroll'[j].inc = scroll[j].inc /\ gate'.id # j
    BY <2>1, <2>2, <2>4 DEF Owns
  <2>8. Unreported'
    BY <1>2, <2>5, <2>7, UnreportedSent
  <2>9. gate'.by # "removed"
    BY <2>1 DEF Held
  <2> QED
    BY <1>1, <2>6, <2>8, <2>9, ClearedStays
<1>9. CASE RemoveBegin(i)
  <2> DEFINE c == Cmd("removed", i, [NoBuf EXCEPT !.inc = nextInc])
  <2>1. /\ gate' = Held("remove", i, nextInc) /\ queue' = Append(queue, c) /\ nextInc \in 0 .. MaxInc
        /\ live' = live /\ scroll' = scroll /\ final' = final /\ exiting' = exiting
    BY <1>9, BoundsAssumption DEF RemoveBegin, disk, history, TypeOK
  <2>2. c \in Cmds /\ c.op = "removed" /\ c.id = i /\ c.buf = [NoBuf EXCEPT !.inc = nextInc]
    BY <2>1, Commands, CommandIncs
  <2> HIDE DEF c
  <2>3. c.buf.inc = nextInc
    BY <2>2, CommandIncs
  <2>4. gate'.by = "remove"
    BY <2>1 DEF Held
  <2>5. Sends(c) /\ Lawful(c) /\ GateFollows(c)
    BY <2>1, <2>2, <2>3, <2>4 DEF Sends, Lawful, GateFollows
  <2>6. CreatedFirst' /\ RemovalAbove' /\ ExitBehind' /\ DeadSettled'
    BY <1>1, <2>1, <2>5, LawfulSend
  <2>7. \A j \in StoreIds : Owns(j)' => Owns(j) /\ scroll'[j].inc = scroll[j].inc
    BY <2>1 DEF Owns
  <2>8. Unreported'
    BY <1>2, <2>4, <2>5, <2>7, UnreportedSent
  <2> QED
    BY <1>1, <2>4, <2>6, <2>8, ClearedStays
<1> QED
  BY <1>5, <1>6, <1>7, <1>8, <1>9

\* The steps of the holder of the gate.
LEMMA HolderSteps ==
    ASSUME PQInv, ExitSent \/ RemoveEnd
    PROVE  PQInv'
<1> /\ TypeOK /\ Fresh /\ Named /\ Owned /\ Unreported /\ CreatedFirst
    /\ RemovalAbove /\ ExitBehind /\ DeadSettled /\ RemovedCleared /\ Basis
  BY DEF PQInv, Basis
<1>0. Basis'
  BY HolderBasis
<1>1. SUFFICES /\ CreatedFirst' /\ RemovalAbove' /\ ExitBehind' /\ DeadSettled'
               /\ Unreported' /\ RemovedCleared'
  BY <1>0 DEF PQInv, Basis
<1>2. DiskStays /\ Free.by = "nobody" /\ store' = store /\ gate' = Free
  BY DEF ExitSent, RemoveEnd, disk, DiskStays, Free
<1>3. CASE ExitSent
  <2> DEFINE c == Cmd("exited", gate.id, [NoBuf EXCEPT !.inc = gate.inc])
  <2>1. /\ gate.by = "exit" /\ queue' = Append(queue, c) /\ gone' = gone
        /\ live' = live /\ scroll' = scroll /\ final' = final /\ exiting' = exiting
    BY <1>3 DEF ExitSent, history
  <2>2. gate.id \in StoreIds /\ gate.inc \in 0 .. MaxInc
    BY <2>1, BoundsAssumption DEF Named, Incs
  <2>3. c \in Cmds /\ c.op = "exited" /\ c.id = gate.id /\ c.buf = [NoBuf EXCEPT !.inc = gate.inc]
    BY <2>2, Commands, CommandIncs
  <2> HIDE DEF c
  <2>4. c.buf.inc = gate.inc
    BY <2>3, CommandIncs
  <2>5. Sends(c) /\ Lawful(c) /\ GateFollows(c)
    BY <1>2, <2>1, <2>3, <2>4 DEF Sends, Lawful, GateFollows
  <2>6. CreatedFirst' /\ RemovalAbove' /\ ExitBehind' /\ DeadSettled'
    BY <1>2, <2>1, <2>5, LawfulSend
  <2>7. \A j \in StoreIds : Owns(j)' => Owns(j) /\ scroll'[j].inc = scroll[j].inc
    BY <2>1 DEF Owns
  <2>8. Unreported'
    BY <1>2, <2>5, <2>7, UnreportedSent
  <2> QED
    BY <1>2, <2>1, <2>6, <2>8, ClearedStays
<1>4. CASE RemoveEnd
  <2>1. /\ queue' = queue /\ Slots' = Slots /\ final' = final /\ pending' = pending /\ bufs' = bufs
        /\ gate.by = "removed" /\ gate.id \in StoreIds /\ exiting' = exiting \ {gate.id}
        /\ gone' = [gone EXCEPT ![gate.id] = gate.inc]
        /\ \A j \in StoreIds \ {gate.id} : live'[j] = live[j] /\ scroll'[j] = scroll[j]
        /\ live'[gate.id] = 0
    BY <1>4 DEF RemoveEnd, disk, Named, TypeOK, Slots
  <2>2. CreatedFirst' /\ RemovalAbove' /\ ExitBehind' /\ DeadSettled'
    BY <1>2, <2>1 DEF CreatedFirst, RemovalAbove, ExitBehind, DeadSettled, Delivered, Is
  <2>3. Unreported'
    <3> SUFFICES ASSUME NEW j \in StoreIds, Owns(j)'
                 PROVE  /\ \A k \in Slots : ~Is("exited", k, j, scroll[j].inc)'
                        /\ gate'.by # "exit"
                        /\ store.rows[j].inc = scroll'[j].inc => store.rows[j].alive
      BY <1>2, <2>1 DEF Unreported
    <3>1. Owns(j) /\ scroll'[j] = scroll[j]
      BY <2>1 DEF Owns
    <3> QED
      BY <1>2, <2>1, <3>1 DEF Unreported, Is
  <2>4. RemovedCleared'
    <3>1. \A i \in StoreIds : gone'[i] # 0 => Cleared(i, gone'[i])
      BY <2>1 DEF RemovedCleared, TypeOK
    <3> QED
      BY <1>2, <2>1, <3>1 DEF RemovedCleared, Cleared
  <2> QED
    BY <2>2, <2>3, <2>4
<1> QED
  BY <1>3, <1>4

\* How one row changes when the first command is handled.
RowFrom(i) ==
    \/ store'.rows[i] = store.rows[i]
    \/ store'.rows[i] = NoRow
    \/ \E n \in Incs : Is("created", 1, i, n) /\ store'.rows[i].inc = n /\ store'.rows[i].alive
    \/ \E n \in Incs : /\ Is("exited", 1, i, n) /\ store.rows[i].inc = n
                       /\ store'.rows[i].inc = n

\* What handling the first command does to each incarnation.
LEMMA HandlerWorks ==
    ASSUME PQInv, HandleCmd, NEW i \in StoreIds, NEW n \in Incs
    PROVE  Works(i, n) /\ RowFrom(i) /\ (gate' = gate \/ gate'.by = "removed")
<1> TypeOK /\ Fresh /\ Named /\ Filed
  BY DEF PQInv
<1> DEFINE c == queue[1]
           m == c.buf.inc
<1>1. Receives /\ 1 \in Slots /\ Head(queue) = c /\ c \in Cmds
  BY ReceivedSlots DEF HandleCmd, Receives
<1>2. /\ final' = final
      /\ \/ c.op = "buffer" /\ HandleBuffer(c)
         \/ c.op = "created" /\ HandleCreated(c)
         \/ c.op = "exited" /\ HandleExited(c)
         \/ c.op = "removed" /\ HandleRemoved(c)
  BY <1>1 DEF HandleCmd, history
<1>3. /\ c.id \in StoreIds /\ m \in Incs /\ m \in Nat /\ n \in Nat /\ n # 0 /\ store \in StoreType
      /\ c.buf \in Bufs /\ pending \in [StoreIds \X Incs -> Bufs] /\ bufs \in [StoreIds -> Bufs]
  <2>1. /\ c.id \in StoreIds /\ c.buf \in Bufs /\ store \in StoreType
        /\ pending \in [StoreIds \X Incs -> Bufs] /\ bufs \in [StoreIds -> Bufs]
    BY <1>1 DEF Cmds, TypeOK
  <2>2. m \in 0 .. MaxInc /\ m # 0
    BY <1>1, <2>1 DEF Named, Bufs
  <2> QED
    BY <2>1, <2>2, BoundsAssumption DEF Incs
<1>4. \A op : Is(op, 1, i, n) <=> c.op = op /\ c.id = i /\ m = n
  BY DEF Is
<1>5. NoRow.inc = 0 /\ NoBuf.inc = 0
  BY DEF NoRow, NoBuf
<1> HIDE DEF c, m
<1>6. CASE c.op = "buffer" /\ HandleBuffer(c)
  <2>1. store' = store /\ bufs' = bufs /\ gate' = gate /\ pending' = [pending EXCEPT ![<<c.id, m>>] = c.buf]
    BY <1>6 DEF HandleBuffer, disk, m
  <2>2. CASE c.id = i /\ m = n
    <3>1. Is("buffer", 1, i, n) /\ pending'[<<i, n>>] = c.buf
      BY <1>3, <1>4, <1>6, <2>1, <2>2
    <3> QED
      BY <1>2, <2>1, <3>1 DEF Works, Files, RowFrom, c
  <2>3. CASE ~(c.id = i /\ m = n)
    <3>1. /\ ~Is("buffer", 1, i, n) /\ ~Is("exited", 1, i, n)
          /\ pending'[<<i, n>>] = pending[<<i, n>>]
      BY <1>3, <1>4, <1>6, <2>1, <2>3
    <3> QED
      BY <1>2, <2>1, <3>1 DEF Works, Passes, RowFrom
  <2> QED
    BY <2>2, <2>3
<1>7. CASE c.op = "created" /\ HandleCreated(c)
  <2>1. /\ store' = SaveRunning(store, c.id, m) /\ bufs' = bufs /\ gate' = gate /\ pending' = pending
    BY <1>7 DEF HandleCreated, SaveRunning, m
  <2>2. /\ i # c.id => store'.rows[i] = store.rows[i]
        /\ i = c.id => \/ store'.rows[i] = store.rows[i]
                       \/ store'.rows[i].inc = m /\ store'.rows[i].alive
    BY <1>3, <2>1, Saved
  <2>3. RowFrom(i)
    BY <1>3, <1>7, <2>2 DEF RowFrom, Is, c, m
  <2>4. Passes(i, n)
    BY <1>4, <1>7, <2>1 DEF Passes
  <2>5. store'.rows[i].inc = n => store.rows[i].inc = n \/ Is("created", 1, i, n)
    BY <1>4, <1>7, <2>2
  <2> QED
    BY <1>2, <2>1, <2>3, <2>4, <2>5 DEF Works
<1>8. CASE c.op = "exited" /\ HandleExited(c)
  <2> DEFINE s == pending[<<c.id, m>>]
  <2>1. /\ store' = MarkSessionDead(store, c.id, m) /\ gate' = gate
        /\ pending' = [pending EXCEPT ![<<c.id, m>>] = NoBuf]
        /\ bufs' = IF s.inc # 0 /\ store.rows[c.id].inc = s.inc
                   THEN [bufs EXCEPT ![c.id] = s] ELSE bufs
    BY <1>8 DEF HandleExited, SavedBuffer, m
  <2>2. s = NoBuf \/ s.inc = m
    BY <1>3 DEF Filed
  <2>3. /\ store'.rows[i].inc = store.rows[i].inc
        /\ i # c.id \/ store.rows[c.id].inc # m => store'.rows[i] = store.rows[i]
    BY <1>3, <2>1, Marked
  <2> HIDE DEF s
  <2>4. RowFrom(i)
    BY <1>3, <1>8, <2>3 DEF RowFrom, Is, c, m
  <2>5. ~Is("buffer", 1, i, n)
    BY <1>4, <1>8
  <2>6. CASE i = c.id /\ n = m
    <3>1. pending'[<<i, n>>] = NoBuf /\ s = pending[<<i, n>>]
      BY <1>3, <2>1, <2>6 DEF s
    <3>2. CASE s = NoBuf
      BY <1>2, <1>5, <2>1, <2>3, <2>4, <2>5, <3>1, <3>2 DEF Works, Stores
    <3>3. CASE s # NoBuf /\ store.rows[i].inc = n
      <4>1. bufs'[i] = s
        BY <1>3, <2>1, <2>2, <2>6, <3>3
      <4> QED
        BY <1>2, <2>1, <2>3, <2>4, <2>5, <3>1, <3>3, <4>1 DEF Works, Stores
    <3>4. CASE store.rows[i].inc # n
      BY <1>2, <2>1, <2>3, <2>4, <2>5, <3>1, <3>4 DEF Works, Stores
    <3> QED
      BY <3>2, <3>3, <3>4
  <2>7. CASE i = c.id /\ n # m
    <3>1. pending'[<<i, n>>] = pending[<<i, n>>] /\ ~Is("exited", 1, i, n)
      BY <1>3, <1>4, <2>1, <2>7
    <3>2. bufs'[i] = bufs[i] \/ store'.rows[i].inc # n
      BY <1>5, <2>1, <2>2, <2>3, <2>7
    <3> QED
      BY <1>2, <2>1, <2>3, <2>4, <2>5, <3>1, <3>2 DEF Works, Passes
  <2>8. CASE i # c.id
    <3>1. pending'[<<i, n>>] = pending[<<i, n>>] /\ bufs'[i] = bufs[i] /\ ~Is("exited", 1, i, n)
      BY <1>3, <1>4, <2>1, <2>8
    <3> QED
      BY <1>2, <2>1, <2>3, <2>4, <2>5, <3>1 DEF Works, Passes
  <2> QED
    BY <2>6, <2>7, <2>8
<1>9. CASE c.op = "removed" /\ HandleRemoved(c)
  <2>1. /\ store' = DeleteSession(store, c.id, m) /\ gate' = Held("removed", c.id, m)
        /\ pending' = [k \in StoreIds \X Incs |-> IF k[1] = c.id /\ k[2] <= m THEN NoBuf ELSE pending[k]]
        /\ bufs' = IF store.rows[c.id].inc > m /\ store.rows[c.id].inc > store.removed[c.id] THEN bufs
                   ELSE [bufs EXCEPT ![c.id] = NoBuf]
    BY <1>9 DEF HandleRemoved, DeletedBuffer, m
  <2>2. gate'.by = "removed" /\ ~Is("buffer", 1, i, n) /\ ~Is("exited", 1, i, n)
    BY <1>4, <1>9, <2>1 DEF Held
  <2>3. pending'[<<i, n>>] = IF i = c.id /\ n <= m THEN NoBuf ELSE pending[<<i, n>>]
    BY <2>1
  <2>4. CASE i # c.id
    <3>1. store'.rows[i] = store.rows[i] /\ bufs'[i] = bufs[i]
      BY <1>3, <2>1, <2>4, Deleted
    <3> QED
      BY <1>2, <2>2, <2>3, <2>4, <3>1 DEF Works, Passes, RowFrom
  <2>5. CASE i = c.id
    <3>1. \/ /\ store'.rows[i] = store.rows[i] /\ store.rows[i].inc > m
             /\ store.rows[i].inc > store.removed[i]
          \/ store'.rows[i] = NoRow
      BY <1>3, <2>1, <2>5, Deleted
    <3>2. CASE store'.rows[i] = NoRow
      BY <1>2, <1>3, <1>5, <2>2, <2>3, <3>2 DEF Works, Passes, Stores, RowFrom
    <3>3. CASE /\ store'.rows[i] = store.rows[i] /\ store.rows[i].inc > m
               /\ store.rows[i].inc > store.removed[i]
      <4>1. bufs'[i] = bufs[i]
        BY <2>1, <2>5, <3>3
      <4>2. n <= m => store'.rows[i].inc # n
        BY <1>3, <3>3
      <4> QED
        BY <1>2, <2>2, <2>3, <2>5, <3>3, <4>1, <4>2 DEF Works, Passes, Stores, RowFrom
    <3> QED
      BY <3>1, <3>2, <3>3
  <2> QED
    BY <2>4, <2>5
<1> QED
  BY <1>2, <1>6, <1>7, <1>8, <1>9

\* Handling a command keeps the delivery of the final snapshots, and a row
\* that becomes dead has the one of its process.
LEMMA HandlerKeeps ==
    ASSUME PQInv, HandleCmd
    PROVE  CreatedFirst' /\ RemovalAbove' /\ ExitBehind' /\ DeadSettled' /\ Unreported'
<1> /\ TypeOK /\ Fresh /\ Named /\ Owned /\ Filed /\ Unreported /\ CreatedFirst
    /\ RemovalAbove /\ ExitBehind /\ DeadSettled /\ Basis
  BY DEF PQInv, Basis
<1>1. Receives /\ 1 \in Slots
  BY ReceivedSlots DEF HandleCmd, Receives
<1>2. live' = live /\ scroll' = scroll /\ exiting' = exiting /\ final' = final
  BY DEF HandleCmd, history
<1>3. /\ \A i \in StoreIds, n \in Incs : Works(i, n) /\ RowFrom(i)
      /\ \A i \in StoreIds : 1 \in Incs => RowFrom(i)
      /\ StoreIds # {} /\ Incs # {} => gate' = gate \/ gate'.by = "removed"
  BY HandlerWorks
<1>4. /\ Incs # {} /\ 1 \in Incs /\ StoreIds # {} /\ NoRow.inc = 0 /\ 0 \notin Incs
      /\ Incs \subseteq Nat
  <2>1. queue[1].buf \in Bufs /\ queue[1].buf.inc # 0 /\ queue[1].id \in StoreIds
    BY <1>1, ReceivedSlots DEF Named, Cmds
  <2>2. queue[1].buf.inc \in Incs
    BY <2>1, BoundsAssumption DEF Bufs, Incs
  <2> QED
    BY <2>1, <2>2, BoundsAssumption DEF Incs, NoRow
<1>5. gate' = gate \/ gate'.by = "removed"
  BY <1>3, <1>4
<1>6. CreatedFirst'
  BY <1>1, CreatedFirstReceived
<1>7. RemovalAbove'
  <2>1. ASSUME NEW i \in StoreIds
        PROVE  \/ store'.rows[i].inc = store.rows[i].inc
               \/ store'.rows[i].inc = 0
               \/ /\ store'.rows[i].inc \in Incs
                  /\ Is("created", 1, i, store'.rows[i].inc)
    BY <1>3, <1>4 DEF RowFrom
  <2> QED
    BY <1>1, <2>1, RemovalAboveReceived
<1>8. ExitBehind'
  <2>1. ASSUME NEW i \in StoreIds, NEW n \in Incs, NEW k \in Slots', Is("exited", k, i, n)'
        PROVE  Delivered(i, n, k)'
    <3>1. k + 1 \in Slots /\ Is("exited", k + 1, i, n) /\ k \in Nat
      BY <1>1, <2>1, ReceivedIs
    <3>2. Delivered(i, n, k + 1)
      BY <3>1 DEF ExitBehind
    <3> QED
      BY <1>1, <1>3, <3>1, <3>2, DeliveredReceived
  <2>2. ASSUME NEW i \in StoreIds, NEW n \in Incs, gate'.by = "exit", gate'.id = i, gate'.inc = n,
               NEW k \in Nat, k = Len(queue') + 1
        PROVE  Delivered(i, n, k)'
    <3>1. k + 1 = Len(queue) + 1
      BY <1>1, <2>2, ReceivedSlots
    <3>2. Delivered(i, n, k + 1)
      BY <1>5, <2>2, <3>1 DEF ExitBehind
    <3> QED
      BY <1>1, <1>3, <3>2, DeliveredReceived
  <2>3. Len(queue') + 1 \in Nat
    BY <1>1, ReceivedSlots
  <2> QED
    BY <2>1, <2>2, <2>3 DEF ExitBehind
<1>9. DeadSettled'
  <2> SUFFICES ASSUME NEW i \in StoreIds, NEW n \in Incs,
                      store'.rows[i].inc = n, ~store'.rows[i].alive
               PROVE  /\ bufs'[i] = final[<<i, n>>] /\ pending'[<<i, n>>] = NoBuf
                      /\ \A k \in Slots' : ~Is("buffer", k, i, n)'
    BY <1>2 DEF DeadSettled
  <2>1. store.rows[i].inc = n
    BY <1>3, <1>4 DEF RowFrom
  <2>2. SUFFICES /\ \A k \in Slots : ~Is("buffer", k, i, n)
                 /\ bufs'[i] = final[<<i, n>>] /\ pending'[<<i, n>>] = NoBuf
    BY <1>1, ReceivedIs
  <2>3. CASE ~store.rows[i].alive
    <3>1. /\ bufs[i] = final[<<i, n>>] /\ pending[<<i, n>>] = NoBuf
          /\ \A k \in Slots : ~Is("buffer", k, i, n)
      BY <2>1, <2>3 DEF DeadSettled
    <3> QED
      BY <1>1, <1>3, <2>1, <3>1 DEF Works, Files, Stores, Passes
  <2>4. CASE store.rows[i].alive
    <3>1. Is("exited", 1, i, n)
      BY <1>3, <1>4, <2>1, <2>4 DEF RowFrom
    <3>2. Delivered(i, n, 1)
      BY <1>1, <3>1 DEF ExitBehind
    <3>3. /\ \A l \in Slots : ~Is("buffer", l, i, n)
          /\ \/ pending[<<i, n>>] = final[<<i, n>>]
             \/ pending[<<i, n>>] = NoBuf /\ bufs[i] = final[<<i, n>>]
      <4>1. \A j \in Slots : ~(j < 1)
        BY DEF Slots
      <4> QED
        BY <2>1, <3>2, <4>1 DEF Delivered
    <3>4. /\ pending'[<<i, n>>] = NoBuf
          /\ bufs'[i] = IF pending[<<i, n>>] # NoBuf THEN pending[<<i, n>>] ELSE bufs[i]
      BY <1>1, <1>3, <2>1, <3>1, <3>3 DEF Works, Files, Stores, Passes
    <3>5. final[<<i, n>>] # NoBuf
      BY <1>4, <3>2 DEF Delivered, NoBuf
    <3> QED
      BY <3>3, <3>4, <3>5
  <2> QED
    BY <2>3, <2>4
<1>10. Unreported'
  <2> SUFFICES ASSUME NEW i \in StoreIds, Owns(i)'
               PROVE  /\ \A k \in Slots' : ~Is("exited", k, i, scroll[i].inc)'
                      /\ ~(gate'.by = "exit" /\ gate'.id = i /\ gate'.inc = scroll[i].inc)
                      /\ store'.rows[i].inc = scroll[i].inc => store'.rows[i].alive
    BY <1>2 DEF Unreported
  <2>1. Owns(i) /\ scroll[i].inc # 0
    BY <1>2 DEF Owns, Owned
  <2>2. \A k \in Slots : ~Is("exited", k, i, scroll[i].inc)
    BY <2>1 DEF Unreported
  <2>3. \A k \in Slots' : ~(queue'[k].op = "exited" /\ queue'[k].id = i /\ queue'[k].buf.inc = scroll[i].inc)
    BY <1>1, <2>2, ReceivedSlots DEF Is
  <2>4. store'.rows[i].inc = scroll[i].inc => store'.rows[i].alive
    BY <1>1, <1>3, <1>4, <2>1, <2>2 DEF Unreported, RowFrom
  <2> QED
    BY <1>2, <1>5, <2>1, <2>3, <2>4 DEF Unreported, Is
<1> QED
  BY <1>6, <1>7, <1>8, <1>9, <1>10

\* Once cleared, an id stays cleared: rows and snapshots that are saved
\* afterwards belong to newer incarnations.
LEMMA ClearedWorks ==
    ASSUME PQInv, NEW i \in StoreIds, NEW n \in Nat, Cleared(i, n), HandleCmd \/ FlushAll \/ Crash
    PROVE  Cleared(i, n)'
<1> TypeOK /\ Fresh /\ Named /\ Filed
  BY DEF PQInv
<1>0. /\ store \in StoreType /\ pending \in [StoreIds \X Incs -> Bufs] /\ bufs \in [StoreIds -> Bufs]
      /\ store.rows[i].inc \in Nat /\ store.removed[i] \in Nat /\ NoBuf.inc = 0 /\ NoRow.inc = 0
  BY DEF TypeOK, StoreType, NoBuf, NoRow
<1>1. CASE HandleCmd
  <2> DEFINE c == queue[1]
             m == c.buf.inc
  <2>1. Receives /\ 1 \in Slots /\ Head(queue) = c /\ c \in Cmds
    BY <1>1, ReceivedSlots DEF HandleCmd, Receives
  <2>2. \/ c.op = "buffer" /\ HandleBuffer(c)
        \/ c.op = "created" /\ HandleCreated(c)
        \/ c.op = "exited" /\ HandleExited(c)
        \/ c.op = "removed" /\ HandleRemoved(c)
    BY <1>1, <2>1 DEF HandleCmd
  <2>3. c.id \in StoreIds /\ m \in Incs /\ m \in Nat
    <3>1. c.id \in StoreIds /\ c.buf \in Bufs
      BY <2>1 DEF Cmds
    <3>2. m \in 0 .. MaxInc /\ m # 0
      BY <2>1, <3>1 DEF Named, Bufs
    <3> QED
      BY <3>1, <3>2, BoundsAssumption DEF Incs
  <2> HIDE DEF c, m
  <2>4. CASE c.op = "buffer" /\ HandleBuffer(c)
    BY <2>4 DEF HandleBuffer, disk, Cleared
  <2>5. CASE c.op = "created" /\ HandleCreated(c)
    <3>1. store' = SaveRunning(store, c.id, m) /\ bufs' = bufs
      BY <2>5 DEF HandleCreated, SaveRunning, m
    <3>2. /\ i # c.id => store'.rows[i] = store.rows[i] /\ store'.removed[i] = store.removed[i]
          /\ i = c.id => /\ \/ store'.rows[i] = store.rows[i]
                            \/ /\ store'.rows[i].inc = m /\ m >= store.rows[i].inc
                               /\ store.removed[i] = 0 \/ m > store.removed[i]
                         /\ \/ store'.removed[i] = store.removed[i]
                            \/ store.removed[i] < m /\ store'.rows[i].inc >= m
      BY <1>0, <2>3, <3>1, Saved
    <3>3. m # 0
      BY <2>3, BoundsAssumption DEF Incs
    <3> QED
      BY <1>0, <2>3, <3>1, <3>2, <3>3 DEF Cleared
  <2>6. CASE c.op = "exited" /\ HandleExited(c)
    <3> DEFINE s == pending[<<c.id, m>>]
    <3>1. /\ store' = MarkSessionDead(store, c.id, m)
          /\ bufs' = IF s.inc # 0 /\ store.rows[c.id].inc = s.inc
                     THEN [bufs EXCEPT ![c.id] = s] ELSE bufs
      BY <2>6 DEF HandleExited, SavedBuffer, m
    <3>2. store'.rows[i].inc = store.rows[i].inc /\ store'.removed = store.removed
      BY <1>0, <2>3, <3>1, Marked
    <3>3. bufs'[i] = bufs[i] \/ (bufs'[i].inc # 0 /\ store.rows[i].inc = bufs'[i].inc)
      BY <1>0, <2>3, <3>1
    <3> QED
      BY <1>0, <3>2, <3>3 DEF Cleared
  <2>7. CASE c.op = "removed" /\ HandleRemoved(c)
    <3>1. store' = DeleteSession(store, c.id, m)
      BY <2>7 DEF HandleRemoved, m
    <3>2. bufs'[i] = bufs[i] \/ bufs'[i] = NoBuf
      BY <1>0, <2>7 DEF HandleRemoved, DeletedBuffer
    <3>3. /\ i # c.id => store'.rows[i] = store.rows[i] /\ store'.removed[i] = store.removed[i]
          /\ i = c.id => /\ store'.removed[i] >= m /\ store'.removed[i] >= store.removed[i]
                         /\ \/ store'.rows[i] = store.rows[i]
                            \/ /\ store'.rows[i] = NoRow
                               /\ store.rows[i].inc <= m \/ store.rows[i].inc <= store.removed[i]
      BY <1>0, <2>3, <3>1, Deleted
    <3>4. store'.removed[i] \in Nat
      BY <1>1, WorkerTypes DEF TypeOK, StoreType
    <3> QED
      BY <1>0, <2>3, <3>2, <3>3, <3>4 DEF Cleared
  <2> QED
    BY <2>2, <2>4, <2>5, <2>6, <2>7
<1>2. CASE FlushAll
  <2>1. store' = store
    BY <1>2 DEF FlushAll
  <2>2. \/ bufs'[i] = bufs[i]
        \/ /\ store.rows[i].inc \in Incs /\ pending[<<i, store.rows[i].inc>>] # NoBuf
           /\ bufs'[i] = pending[<<i, store.rows[i].inc>>]
    BY <1>2 DEF FlushAll
  <2>3. bufs'[i] = bufs[i] \/ (bufs'[i].inc = store.rows[i].inc /\ store.rows[i].inc # 0)
    BY <2>2, BoundsAssumption DEF Filed, Incs
  <2> QED
    BY <1>0, <2>1, <2>3 DEF Cleared
<1>3. CASE Crash
  <2>1. \/ store'.rows[i] = store.rows[i] /\ store'.removed[i] = store.removed[i] /\ bufs'[i] = bufs[i]
        \/ /\ store'.rows[i] = NoRow /\ bufs'[i] = NoBuf
           /\ store'.removed[i] = IF store.rows[i].inc > store.removed[i]
                                  THEN store.rows[i].inc ELSE store.removed[i]
    BY <1>3 DEF Crash
  <2> QED
    BY <1>0, <2>1 DEF Cleared
<1> QED
  BY <1>1, <1>2, <1>3

\* The worker clears what a removal names before it answers, and clears
\* nothing else again.
LEMMA ClearedHandled ==
    ASSUME PQInv, HandleCmd \/ FlushAll \/ Crash
    PROVE  RemovedCleared'
<1> TypeOK /\ Named /\ RemovalAbove /\ RemovedCleared
  BY DEF PQInv
<1>1. gone' = gone /\ \A i \in StoreIds : gone[i] \in Nat
  BY BoundsAssumption DEF HandleCmd, FlushAll, Crash, history, TypeOK
<1>2. \A i \in StoreIds : gone'[i] # 0 => Cleared(i, gone[i])'
  <2> SUFFICES ASSUME NEW i \in StoreIds, gone[i] # 0, NEW n \in Nat, n = gone[i]
               PROVE  Cleared(i, n)'
    BY <1>1 DEF Cleared
  <2>1. Cleared(i, n)
    BY DEF RemovedCleared
  <2> QED
    BY <2>1, ClearedWorks
<1>3. ASSUME gate'.by = "removed", gate' = gate, NEW i \in StoreIds, NEW n \in Nat, i = gate.id, n = gate.inc
      PROVE  Cleared(i, n)'
  BY <1>3, ClearedWorks DEF RemovedCleared
<1>4. ASSUME gate'.by = "removed", gate' # gate, NEW i, NEW n, i = gate'.id, n = gate'.inc
      PROVE  Cleared(i, n)'
  <2>0. HandleCmd
    <3>1. ASSUME FlushAll PROVE gate' = gate
      BY <3>1 DEF FlushAll, memory
    <3>2. ASSUME Crash PROVE gate' = Free
      BY <3>2 DEF Crash
    <3>3. Free.by = "nobody"
      BY DEF Free
    <3> QED
      BY <1>4, <3>1, <3>2, <3>3
  <2> DEFINE c == queue[1]
             m == c.buf.inc
  <2>1. Receives /\ 1 \in Slots /\ Head(queue) = c /\ c \in Cmds
    BY <2>0, ReceivedSlots DEF HandleCmd, Receives
  <2>2. c.op = "removed" /\ HandleRemoved(c)
    BY <1>4, <2>0, <2>1 DEF HandleCmd, HandleBuffer, HandleCreated, HandleExited
  <2>3. c.id \in StoreIds /\ m \in Incs /\ m \in Nat /\ Is("removed", 1, c.id, m) /\ store \in StoreType
        /\ bufs \in [StoreIds -> Bufs]
    <3>1. c.id \in StoreIds /\ c.buf \in Bufs /\ store \in StoreType /\ bufs \in [StoreIds -> Bufs]
      BY <2>1 DEF Cmds, TypeOK
    <3>2. m \in 0 .. MaxInc /\ m # 0
      BY <2>1, <3>1 DEF Named, Bufs
    <3> QED
      BY <2>2, <3>1, <3>2, BoundsAssumption DEF Incs, Is
  <2>4. store.rows[c.id].inc < m /\ store.rows[c.id].inc \in Nat /\ store.removed[c.id] \in Nat
    BY <2>1, <2>3 DEF RemovalAbove, StoreType
  <2>5. store' = DeleteSession(store, c.id, m) /\ i = c.id /\ n = m
    BY <1>4, <2>2 DEF HandleRemoved, Held
  <2> HIDE DEF c, m
  <2>6. bufs'[i] = NoBuf
    BY <2>2, <2>3, <2>4, <2>5 DEF HandleRemoved, DeletedBuffer, m
  <2>7. store'.removed[i] >= n /\ store'.rows[i] = NoRow
    BY <2>3, <2>4, <2>5, Deleted
  <2> QED
    BY <2>6, <2>7 DEF Cleared, NoBuf, NoRow
<1>5. gate'.by = "removed" => Cleared(gate.id, gate.inc)'
  <2>1. CASE gate' = gate
    <3>1. gate.by = "removed" => gate.id \in StoreIds /\ gate.inc \in Nat
      BY BoundsAssumption DEF Named, Incs
    <3> QED
      BY <1>3, <2>1, <3>1 DEF Cleared
  <2>2. CASE gate' # gate
    BY <1>4, <2>2 DEF Cleared
  <2> QED
    BY <2>1, <2>2
<1> QED
  BY <1>2, <1>5 DEF RemovedCleared

\* A flush stores the snapshots of the rows' own incarnations and drops the
\* others, whose rows are gone or newer.
LEMMA FlushKeeps ==
    ASSUME PQInv, FlushAll
    PROVE  CreatedFirst' /\ RemovalAbove' /\ ExitBehind' /\ DeadSettled' /\ Unreported'
<1> /\ TypeOK /\ Fresh /\ Named /\ Owned /\ Filed /\ Unreported /\ CreatedFirst
    /\ RemovalAbove /\ ExitBehind /\ DeadSettled
  BY DEF PQInv
<1>1. /\ live' = live /\ scroll' = scroll /\ exiting' = exiting /\ final' = final /\ gate' = gate
      /\ queue' = queue /\ store' = store /\ Slots' = Slots /\ pending' = NoPending
  BY DEF FlushAll, memory, history, Slots
<1>2. \A i \in StoreIds, n \in Incs :
        /\ pending'[<<i, n>>] = NoBuf
        /\ store.rows[i].inc = n =>
             bufs'[i] = IF pending[<<i, n>>] # NoBuf THEN pending[<<i, n>>] ELSE bufs[i]
  BY <1>1 DEF FlushAll, NoPending
<1>3. CreatedFirst' /\ RemovalAbove'
  BY <1>1 DEF CreatedFirst, RemovalAbove, Is
<1>4. ASSUME NEW i \in StoreIds, NEW n \in Incs, NEW k, Delivered(i, n, k)
      PROVE  Delivered(i, n, k)'
  <2>1. final[<<i, n>>] # NoBuf
    BY <1>4, BoundsAssumption DEF Delivered, NoBuf, Incs
  <2>2. CASE \E j \in Slots : /\ j < k /\ Is("buffer", j, i, n) /\ queue[j].buf = final[<<i, n>>]
                              /\ \A l \in Slots : j < l => ~Is("buffer", l, i, n)
    BY <1>1, <1>4, <2>2 DEF Delivered, Is
  <2>3. CASE /\ \A l \in Slots : ~Is("buffer", l, i, n) /\ ~Is("created", l, i, n)
             /\ \/ pending[<<i, n>>] = final[<<i, n>>]
                \/ /\ pending[<<i, n>>] = NoBuf
                   /\ store.rows[i].inc = n => bufs[i] = final[<<i, n>>]
    <3>1. /\ pending'[<<i, n>>] = NoBuf
          /\ store.rows[i].inc = n => bufs'[i] = final[<<i, n>>]
      BY <1>2, <2>1, <2>3
    <3> QED
      BY <1>1, <1>4, <2>3, <3>1 DEF Delivered, Is
  <2> QED
    BY <1>4, <2>2, <2>3 DEF Delivered
<1>5. ExitBehind'
  <2>1. ASSUME NEW i \in StoreIds, NEW n \in Incs, NEW k \in Slots, Is("exited", k, i, n)'
        PROVE  Delivered(i, n, k)'
    BY <1>1, <1>4, <2>1 DEF ExitBehind, Is
  <2>2. ASSUME NEW i \in StoreIds, NEW n \in Incs, gate.by = "exit", gate.id = i, gate.inc = n,
               NEW k, k = Len(queue) + 1
        PROVE  Delivered(i, n, k)'
    BY <1>4, <2>2 DEF ExitBehind
  <2> QED
    BY <1>1, <2>1, <2>2 DEF ExitBehind
<1>6. DeadSettled'
  BY <1>1, <1>2 DEF DeadSettled, Is
<1>7. Unreported'
  BY <1>1 DEF Unreported, Owns, Is
<1> QED
  BY <1>3, <1>5, <1>6, <1>7

\* After a crash the channel is empty and no row is dead.
LEMMA CrashKeeps ==
    ASSUME PQInv, Crash
    PROVE  CreatedFirst' /\ RemovalAbove' /\ ExitBehind' /\ DeadSettled' /\ Unreported'
<1>1. /\ live' = [i \in StoreIds |-> 0] /\ exiting' = {} /\ gate' = Free /\ queue' = << >>
      /\ \A i \in StoreIds : store'.rows[i] = NoRow \/ store'.rows[i].alive \/ store'.rows[i].inc = 0
  BY DEF Crash
<1>2. Slots' = {} /\ Free.by = "nobody" /\ NoRow.inc = 0 /\ 0 \notin Incs
  <2>1. Slots' = {} /\ 0 \notin Incs
    BY <1>1, BoundsAssumption DEF Slots, Incs
  <2> QED
    BY <2>1 DEF Free, NoRow
<1>3. CreatedFirst' /\ RemovalAbove' /\ ExitBehind' /\ Unreported'
  BY <1>1, <1>2 DEF CreatedFirst, RemovalAbove, ExitBehind, Unreported, Owns
<1>4. DeadSettled'
  BY <1>1, <1>2 DEF DeadSettled
<1> QED
  BY <1>3, <1>4

-----------------------------------------------------------------------------
\* The invariant holds at the start.
LEMMA InitPQ == Init => PQInv
<1> SUFFICES ASSUME Init PROVE PQInv
  OBVIOUS
<1> USE DEF Init
<1>1. /\ Slots = {} /\ Free.by = "nobody" /\ Free.inc = 0 /\ NoRow.inc = 0 /\ NoBuf.inc = 0
      /\ 0 \notin Incs /\ NoBuf \in Bufs
  <2>1. Slots = {} /\ 0 \notin Incs
    BY BoundsAssumption DEF Slots, Incs
  <2>2. NoBuf \in Bufs /\ NoBuf.inc = 0
    BY BoundsAssumption DEF NoBuf, Bufs
  <2> QED
    BY <2>1, <2>2 DEF Free, NoRow
<1>2. /\ store = EmptyStore /\ store \in StoreType
      /\ \A i \in StoreIds : store.rows[i].inc = 0 /\ store.removed[i] = 0
  BY DEF EmptyStore, StoreType, NoRow
<1>3. TypeOK
  <2>1. pending \in [StoreIds \X Incs -> Bufs] /\ final \in [StoreIds \X Incs -> Bufs]
        /\ bufs \in [StoreIds -> Bufs] /\ scroll \in [StoreIds -> Bufs]
    BY <1>1 DEF NoPending
  <2>2. /\ live \in [StoreIds -> 0 .. MaxInc] /\ nextInc \in 1 .. MaxInc + 1
        /\ gone \in [StoreIds -> 0 .. MaxInc] /\ Len(queue) <= QueueCap /\ queue \in Seq(Cmds)
    BY BoundsAssumption
  <2>3. handed \in [buf : Bufs, row : Nat]
    BY <1>1
  <2> QED
    BY <1>2, <2>1, <2>2, <2>3, GateTypes DEF TypeOK
<1>4. Fresh /\ Named
  BY <1>1, <1>2 DEF Fresh, Named
<1>5. Filed /\ Owned
  BY DEF Filed, Owned, NoPending
<1>6. CreatedFirst /\ RemovalAbove /\ ExitBehind /\ Unreported
  BY <1>1 DEF CreatedFirst, RemovalAbove, ExitBehind, Unreported, Owns
<1>7. DeadSettled
  BY <1>1, <1>2 DEF DeadSettled
<1>8. RemovedCleared
  BY <1>1 DEF RemovedCleared
<1> QED
  BY <1>3, <1>4, <1>5, <1>6, <1>7, <1>8 DEF PQInv

\* Every step keeps it.
LEMMA NextPQ == PQInv /\ [Next]_vars => PQInv'
<1> SUFFICES ASSUME PQInv, [Next]_vars PROVE PQInv'
  OBVIOUS
<1>1. CASE \E i \in StoreIds : Create(i) \/ Output(i) \/ Exit(i) \/ ExitSnapshot(i)
                               \/ RemoveBegin(i) \/ Restore(i)
  BY <1>1, ProducerSteps
<1>2. CASE ExitSent \/ RemoveEnd
  BY <1>2, HolderSteps
<1>3. CASE HandleCmd \/ FlushAll \/ Crash
  <2>1. Basis
    BY DEF PQInv, Basis
  <2>2. Basis'
    BY <1>3, <2>1, WorkerBasis
  <2>3. CreatedFirst' /\ RemovalAbove' /\ ExitBehind' /\ DeadSettled' /\ Unreported'
    BY <1>3, HandlerKeeps, FlushKeeps, CrashKeeps
  <2>4. RemovedCleared'
    BY <1>3, ClearedHandled
  <2> QED
    BY <2>2, <2>3, <2>4 DEF PQInv, Basis
<1>4. CASE UNCHANGED vars
  <2>1. /\ live' = live /\ scroll' = scroll /\ exiting' = exiting /\ final' = final /\ gate' = gate
        /\ queue' = queue /\ store' = store /\ Slots' = Slots /\ pending' = pending /\ bufs' = bufs
        /\ gone' = gone /\ nextInc' = nextInc /\ handed' = handed
    BY <1>4 DEF vars, memory, disk, history, Slots
  <2>2. TypeOK' /\ Fresh' /\ Named' /\ Filed' /\ Owned'
    BY <2>1 DEF PQInv, TypeOK, Fresh, Named, Filed, Owned
  <2>3. CreatedFirst' /\ RemovalAbove' /\ ExitBehind' /\ DeadSettled'
    BY <2>1 DEF PQInv, CreatedFirst, RemovalAbove, ExitBehind, DeadSettled, Delivered, Is
  <2>4. Unreported' /\ RemovedCleared'
    BY <2>1 DEF PQInv, Unreported, Owns, Is, RemovedCleared, Cleared
  <2> QED
    BY <2>2, <2>3, <2>4 DEF PQInv
<1> QED
  BY <1>1, <1>2, <1>3, <1>4 DEF Next, Worker

\* The invariant says what the runs check.
LEMMA PQImplies == PQInv => FinalOutputKept /\ QueueSound
<1> SUFFICES ASSUME PQInv PROVE FinalOutputKept /\ QueueSound
  OBVIOUS
<1> TypeOK /\ Fresh /\ DeadSettled /\ RemovedCleared
  BY DEF PQInv
<1>1. \A i \in StoreIds : store.rows[i].inc # 0 => store.rows[i].inc \in Incs
  BY BoundsAssumption DEF Fresh, TypeOK, StoreType, Incs
<1>2. FinalOutputKept
  BY <1>1 DEF FinalOutputKept, DeadSettled
<1>3. RemovedStaysGone
  BY DEF RemovedStaysGone, RemovedCleared, Cleared
<1> QED
  BY <1>2, <1>3 DEF QueueSound

\* A row marked dead has everything its process wrote, however many
\* snapshots the full channel dropped: the final one is sent blocking, it is
\* the last of its incarnation in the channel, and the exit behind it
\* flushes it (the reader's last sends, flush_session).
THEOREM OutputSurvives == Spec => []FinalOutputKept
<1>1. PQInv => FinalOutputKept
  BY PQImplies
<1> QED
  BY InitPQ, NextPQ, <1>1, PTL DEF Spec

\* The channel, the gate and the worker stay well typed, and nothing of a
\* session whose removal was acknowledged is stored again by what was still
\* queued or pending (SessionRemoved in handle_cmd, the
\* removal watermark).
THEOREM RemovalIsFinal == Spec => []QueueSound
<1>1. PQInv => QueueSound
  BY PQImplies
<1> QED
  BY InitPQ, NextPQ, <1>1, PTL DEF Spec
=============================================================================
