----------------------------- MODULE MCTransport -----------------------------
(***************************************************************************)
(* The two halves of the client's transport, each while the other rests:   *)
(* the registry of connections, and the file requests of one socket.       *)
(* Resting is staying in the initial state, where no fair action is        *)
(* enabled, so the fairness of both can be assumed at once.                *)
(*                                                                         *)
(* `focus` says which half moves and, for files, which requests share the  *)
(* socket: a write and an upload while the file changes; both with none or *)
(* two chunks; a write longer than its window; two encrypted requests;     *)
(* three requests of one message.                                          *)
(***************************************************************************)
EXTENDS Connections, FsTransfer

VARIABLE focus

Registry == [of |-> {}, sizes |-> {0}, changes |-> 0]
Loads == {[of |-> Writes \union Uploads, sizes |-> {1}, changes |-> MaxExternal],
          [of |-> Writes \union Uploads, sizes |-> {0, 2}, changes |-> 0],
          [of |-> Writes, sizes |-> {MaxChunks}, changes |-> 0],
          [of |-> Puts \union Saves, sizes |-> {1, 2}, changes |-> 0],
          [of |-> Saves \union Ops \union Reads, sizes |-> {1}, changes |-> 0]}

LoadNext ==
    /\ FilesNext
    /\ \A t \in Transfers :
          req'[t].pc # "idle" =>
              t \in focus.of /\ (t \in Chunked => req'[t].size \in focus.sizes)
    /\ focus.changes = 0 => UNCHANGED clock /\ ~ExternalChange

MCInit ==
    /\ Init /\ FilesInit
    /\ focus \in Loads \union {Registry}
    /\ focus # Registry => active = NoProfile /\ stored = [p \in Profiles |-> NoToken]

MCNext ==
    /\ UNCHANGED focus
    /\ \/ focus = Registry /\ Next /\ UNCHANGED filesVars
       \/ focus # Registry /\ LoadNext /\ UNCHANGED vars

MCSpec ==
    /\ MCInit /\ [][MCNext]_<<vars, filesVars, focus>>
    /\ Fairness /\ FilesFairness

\* No caller waits for ever: a profile the user wants connected ends up
\* connected or where only the user can help, and every file request ends.
NobodyWaits == ConnectSettles /\ RequestSettles
=============================================================================
