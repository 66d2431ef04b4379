---------------------------- MODULE SessionSlots ----------------------------
(***************************************************************************)
(* What the PTY manager promises its clients, without its threads, locks,  *)
(* queues and database: a session id is a slot that runs at most one       *)
(* process at a time; a process starts only in an empty slot and under an  *)
(* incarnation that never ran before, anywhere; and once it has stopped it *)
(* does not come back.  Clients rely on this to tell a session from its    *)
(* predecessors under the same reusable id.                                *)
(***************************************************************************)
EXTENDS Naturals

CONSTANTS Slots, Names

VARIABLES
    running,   \* the incarnation that runs in each slot, 0 for none
    spent      \* the incarnations that have ever run

Init == running = [i \in Slots |-> 0] /\ spent = {}

Start(i, n) ==
    /\ running[i] = 0
    /\ n \notin spent
    /\ running' = [running EXCEPT ![i] = n]
    /\ spent' = spent \union {n}

\* Sessions exit, are killed or are removed, one or, at a disposal, many.
Stop(S) ==
    /\ running' = [i \in Slots |-> IF i \in S THEN 0 ELSE running[i]]
    /\ UNCHANGED spent

Next ==
    \/ \E i \in Slots, n \in Names : Start(i, n)
    \/ \E S \in SUBSET Slots : Stop(S)

Spec == Init /\ [][Next]_<<running, spent>>
=============================================================================
