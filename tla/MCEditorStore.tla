---------------------------- MODULE MCEditorStore -----------------------------
(***************************************************************************)
(* Four courses of a working day, one per behaviour:                       *)
(*   "tabs"    two tabs of a file on one server, with forced writes;       *)
(*   "saves"   two tabs, more saves and revisions, nothing forced;         *)
(*   "servers" one tab whose profile drops, fails and moves to another     *)
(*             server;                                                     *)
(*   "restart" one tab with page reloads, git reconciliation, encrypted    *)
(*             saves and vanishing targets.                                *)
(***************************************************************************)
EXTENDS EditorStore

CONSTANTS
    Main,   \* the tab of the courses with one tab
    Home,   \* the server of the courses with one server
    Word    \* the edit of the courses with one edit

VARIABLE day

Tabs == INSTANCE EditorStore WITH
    Urls <- {Home}, Features <- {"force"}, MaxGen <- 3, MaxConn <- 1, MaxRevision <- 2
Saves == INSTANCE EditorStore WITH
    Urls <- {Home}, Edits <- {Word}, Features <- {}, MaxConn <- 1
Move == INSTANCE EditorStore WITH
    Edits <- {Word}, Features <- {"force", "url", "fail"}, MaxGen <- 3, MaxRevision <- 2
Reloads == INSTANCE EditorStore WITH
    Urls <- {Home}, Edits <- {Word}, Features <- {"restart", "targets", "git", "encrypt"},
    MaxGen <- 3, MaxConn <- 1, MaxRevision <- 2

MainOnly == \A k \in Keys \ {Main} : tabs'[k] = tabs[k]

MCInit ==
    /\ Init
    /\ day \in {"tabs", "saves", "servers", "restart"}
    /\ day # "servers" => conn.url = Home

MCNext ==
    /\ UNCHANGED day
    /\ \/ day = "tabs" /\ Tabs!Next
       \/ day = "saves" /\ Saves!Next
       \/ day = "servers" /\ Move!Next /\ MainOnly
       \/ day = "restart" /\ Reloads!Next /\ MainOnly

MCSpec == MCInit /\ [][MCNext]_<<vars, day>>

\* OneBuffer where every open succeeds and the page is not reloaded: a tab
\* that comes without its document splits from it at its first save.
BuffersAgree == day \in {"tabs", "saves"} => OneBuffer

\* CleanIsStored without encrypted saves, whose answer takes the text of the
\* moment for the text that was sent.
CleanWasWritten == day # "restart" => CleanIsStored

\* FenceHolds while documents know their endpoint: after a page reload a
\* save creates one that does not.
TextStaysHome == day # "restart" => FenceHolds

\* KnownRevisionSaves without forced writes, after which the document keeps
\* the revision from before.
KnownRevisionAccepted == day = "saves" => KnownRevisionSaves

\* What the editor store keeps in every state: the document and the tabs of a
\* file agree, no text is sent to a server it does not come from, and a save
\* with the revision the document knows is accepted.
StoreSound == TypeOK /\ BuffersAgree /\ TextStaysHome /\ KnownRevisionAccepted
=============================================================================
