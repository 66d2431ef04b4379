--------------------------- MODULE MCPersistQueue ---------------------------
(***************************************************************************)
(* One terminal with as many incarnations and as much output as the bounds *)
(* allow, not both at once, or two terminals that share the channel, the   *)
(* gate and the worker, with fewer incarnations and less output each.      *)
(***************************************************************************)
EXTENDS PersistQueue

CONSTANT Single     \* the terminal of the behaviours with one

VARIABLE terminals

MCInit == Init /\ terminals \in {{Single}, StoreIds}

MCNext ==
    /\ Next
    /\ UNCHANGED terminals
    /\ \A i \in StoreIds \ terminals : live'[i] = 0
    /\ LET spared == nextInc' <= MaxInc
           short == \A i \in StoreIds : scroll'[i].total < MaxOut
       IN IF terminals = StoreIds THEN spared /\ short ELSE spared \/ short

MCSpec == MCInit /\ [][MCNext]_<<vars, terminals>> /\ Fairness
=============================================================================
