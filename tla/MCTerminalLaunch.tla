-------------------------- MODULE MCTerminalLaunch --------------------------
(***************************************************************************)
(* Four courses of a browser session:                                      *)
(*   "network" launches of two identities over two connections;            *)
(*   "storage" the same over one, while local storage may refuse writes;   *)
(*   "journal" three launches through a journal of two records;            *)
(*   "reload"  a page reload, and creates that outlive their call.         *)
(***************************************************************************)
EXTENDS TerminalLaunch

CONSTANT Only   \* the identity of the course with one

VARIABLE day

Network == INSTANCE TerminalLaunch WITH
    MaxAttempts <- 2, Reloads <- 0, LateRequests <- FALSE, StorageFails <- FALSE
Storage == INSTANCE TerminalLaunch WITH
    MaxAttempts <- 2, MaxGeneration <- 1, Reloads <- 0, LateRequests <- FALSE
Journal == INSTANCE TerminalLaunch WITH
    MaxGeneration <- 1, Reloads <- 0, LateRequests <- FALSE, StorageFails <- FALSE
Reloaded == INSTANCE TerminalLaunch WITH
    Identities <- {Only}, MaxAttempts <- 2, MaxGeneration <- 1, StorageFails <- FALSE

MCInit == Init /\ day \in {"network", "storage", "journal", "reload"}

MCNext ==
    \/ day = "network" /\ Network!Next /\ UNCHANGED day
    \/ day = "storage" /\ Storage!Next /\ UNCHANGED day
    \/ day = "journal" /\ Journal!Next /\ UNCHANGED day
    \/ day = "reload" /\ Reloaded!Next /\ UNCHANGED day

CallStep ==
    \E c \in calls :
        \/ day = "network" /\ Network!CallNext(c) /\ UNCHANGED day
        \/ day = "storage" /\ Storage!CallNext(c) /\ UNCHANGED day
        \/ day = "journal" /\ Journal!CallNext(c) /\ UNCHANGED day
        \/ day = "reload" /\ Reloaded!CallNext(c) /\ UNCHANGED day

MCSpec == MCInit /\ [][MCNext]_<<vars, day>> /\ WF_<<vars, day>>(CallStep)

\* SettledIsTrue while a create ends with the call that sent it: one that
\* outlives it can reach the server after the user settled the launch.
SettlementIsTrue == day # "reload" => SettledIsTrue

\* A launch of the Hub that was reserved or dispatched does not stay in
\* progress for ever: its registry entry goes and, unless the page was
\* reloaded or the storage refuses the write, its record stops saying
\* "reserved".  Stated of the first two launches.
LaunchSettles ==
    \A a \in Network!Attempts :
        (\E c \in calls : c.att = a /\ c.kind = "hub")
            ~> /\ \A p \in Pages : a \notin executing[p]
               /\ \/ ~HasRecord(a) \/ RecordOf(a).state # "reserved"
                  \/ reloads > 0 \/ day = "storage"

\* No identity is launched twice at the same time, and journal, registry and
\* calls are well typed.
LaunchSound == TypeOK /\ OneLaunchPerIdentity
=============================================================================
