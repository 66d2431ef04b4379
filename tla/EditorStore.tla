----------------------------- MODULE EditorStore ------------------------------
(***************************************************************************)
(* The editor store of the web client, packages/ui/src/stores/editor.ts:   *)
(* tabs, the document shared by the tabs of one file, and the requests     *)
(* that read and write it.  Every operation that awaits the server takes a *)
(* new generation of its tab and a reference to the connection it uses,    *)
(* and its answer is dropped when either is no longer current.             *)
(*                                                                         *)
(* All tabs show one text file, opened through several routes (workspace,  *)
(* project, worktree); other files do not meet.  The file's mtime is its   *)
(* revision: that it counts whole seconds is the subject of FsTransfer.    *)
(* Flags that only choose a banner (stale, conflicted, error), tiers,      *)
(* sizes, diffs, previews, view states and the active tab are left out.    *)
(***************************************************************************)
EXTENDS Naturals, FiniteSets

CONSTANTS
    Keys,       \* tab keys
    Urls,       \* servers the profile of the tabs may point to
    NoUrl,      \* no endpoint identity, no transport
    Ambient,    \* server of the ambient transport, or NoUrl (IdleTransport)
    Edits,      \* what a user or another program writes
    Original,   \* what the file holds at first
    Blank,      \* "": a tab that has not been loaded
    Features,   \* which of "force", "git", "encrypt", "restart", "targets", "url", "fail" happen
    MaxFlight,  \* bound: requests in flight
    MaxGen,     \* bound: requests of a tab
    MaxConn,    \* bound: connections
    MaxRevision \* bound: revisions of a file

Servers == Urls \union ({Ambient} \ {NoUrl})
Text == Edits \union {Original}

ASSUME EditorStoreAssumption ==
    /\ NoUrl \notin Urls /\ Ambient \in Urls \union {NoUrl} \union {Ambient}
    /\ Blank \notin Text
    /\ MaxFlight \in Nat /\ MaxGen \in Nat /\ MaxConn \in Nat /\ MaxRevision \in Nat

VARIABLES
    tabs,       \* key -> tab
    doc,        \* documents[documentKey]
    gens,       \* requestGenerations
    conn,       \* the profile's connection: generation, url, up
    disk,       \* server -> content and mtime of the file
    reqs,       \* requests not yet settled
    stored      \* history: every content a server has held

store == <<tabs, doc, gens>>
vars == <<store, conn, disk, reqs, stored>>

ClosedTab ==
    [open |-> FALSE, content |-> Blank, saved |-> Blank, dirty |-> FALSE, mtime |-> 0, doc |-> FALSE,
     loading |-> FALSE, saving |-> FALSE, hydrated |-> FALSE, blocked |-> FALSE,
     available |-> TRUE, ident |-> NoUrl]

NoDoc == [live |-> FALSE, content |-> Blank, saved |-> Blank, dirty |-> FALSE, mtime |-> 0,
          saving |-> FALSE, ident |-> NoUrl]

Init ==
    /\ tabs = [k \in Keys |-> ClosedTab]
    /\ doc = NoDoc
    /\ gens = [k \in Keys |-> 0]
    /\ \E u \in Urls : conn = [gen |-> 1, url |-> u, up |-> TRUE]
    /\ disk = [u \in Servers |-> [content |-> Original, mtime |-> 1]]
    /\ reqs = {}
    /\ stored = {Original}

----------------------------------------------------------------------------
(* Requests *)

\* The connection of the tab's profile, or the ambient transport without a
\* reference to check when the profile is not connected.
ResolveTabTransport ==
    IF conn.up THEN [conn |-> conn.gen, url |-> conn.url, ident |-> conn.url]
    ELSE [conn |-> 0, url |-> Ambient, ident |-> NoUrl]

IsCurrentRequest(r) == tabs[r.key].open /\ gens[r.key] = r.gen

IsCurrentConnection(r) == r.conn = 0 \/ (conn.up /\ r.conn = conn.gen)

HasDoc(k) == tabs[k].doc /\ doc.live
Identity(k) == IF HasDoc(k) THEN doc.ident ELSE tabs[k].ident
BufferOf(k) == IF HasDoc(k) THEN [content |-> doc.content, mtime |-> doc.mtime]
               ELSE [content |-> tabs[k].content, mtime |-> tabs[k].mtime]

\* What the operation captures before it awaits.  bound and known are
\* histories: the endpoint the content it writes belongs to, and the
\* revision its tab had seen.
Request(k, kind, buffer, gen) ==
    LET t == ResolveTabTransport
    IN  [key |-> k, kind |-> kind, gen |-> gen, conn |-> t.conn, url |-> t.url, ident |-> t.ident,
         doc |-> tabs[k].doc, content |-> buffer.content, mtime |-> buffer.mtime,
         bound |-> Identity(k), known |-> tabs[k].mtime, reply |-> [how |-> "none", content |-> Blank, mtime |-> 0]]

MayBegin(k) == Cardinality(reqs) < MaxFlight /\ gens[k] < MaxGen

BeginRequest(k, kind, buffer) ==
    /\ MayBegin(k)
    /\ gens' = [gens EXCEPT ![k] = @ + 1]
    /\ reqs' = reqs \union {Request(k, kind, buffer, gens[k] + 1)}

Unsent == [content |-> Blank, mtime |-> 0]
Environment == <<conn, disk, stored>>

----------------------------------------------------------------------------
(* Operations up to their first await *)

Open(k) ==
    /\ ~tabs[k].open
    /\ tabs' = [tabs EXCEPT ![k] = [ClosedTab EXCEPT !.open = TRUE, !.loading = TRUE]]
    /\ BeginRequest(k, "open", Unsent)
    /\ UNCHANGED <<doc, Environment>>

Reload(k) ==
    /\ tabs[k].open /\ tabs[k].available
    /\ tabs' = [tabs EXCEPT ![k].loading = TRUE]
    /\ BeginRequest(k, "reload", Unsent)
    /\ UNCHANGED <<doc, Environment>>

\* The Retry and Reload buttons show on a tab that is not loading.
ReloadButton(k) == ~tabs[k].loading /\ Reload(k)

\* reconcileGitMutationFiles and reconcileGitProjectFiles reload every clean tab.
ReconcileGit(k) == "git" \in Features /\ ~tabs[k].dirty /\ Reload(k)

\* The dialog is offered by the banner of a blocked save.
DiscardAndReload(k) ==
    /\ tabs[k].open /\ tabs[k].available /\ tabs[k].blocked
    /\ tabs' = [tabs EXCEPT ![k].loading = TRUE]
    /\ BeginRequest(k, "discard", Unsent)
    /\ UNCHANGED <<doc, Environment>>

LoadContent(k) ==
    /\ tabs[k].open /\ tabs[k].hydrated /\ ~tabs[k].loading /\ tabs[k].available
    /\ tabs' = [tabs EXCEPT ![k].loading = TRUE]
    /\ BeginRequest(k, "load", Unsent)
    /\ UNCHANGED <<doc, Environment>>

\* On focus, on a change of tab or visibility, and when the socket comes up.
ReconcileTabFreshness(k) ==
    /\ tabs[k].open /\ tabs[k].available /\ ~tabs[k].loading
    /\ BeginRequest(k, "probe", Unsent)
    /\ UNCHANGED <<tabs, doc, Environment>>

\* open of an open tab, with what the tree lists for the file.
OpenExisting(k) ==
    /\ tabs[k].open /\ ~tabs[k].loading /\ ~tabs[k].dirty
    /\ conn.up /\ disk[conn.url].mtime > tabs[k].mtime
    /\ Reload(k)

SaveGuard(k) == tabs[k].open /\ ~tabs[k].saving /\ tabs[k].dirty /\ tabs[k].available

\* The fence: the buffer was read from the server the profile is connected to.
EndpointValid(k) == conn.up /\ Identity(k) # NoUrl /\ Identity(k) = conn.url

\* (documentKey && t.documentKey === documentKey) || t.key === key
Shared(k, viaDoc) == {j \in Keys : tabs[j].open /\ (j = k \/ (viaDoc /\ tabs[j].doc))}

Update(S, f(_)) == [j \in Keys |-> IF j \in S THEN f(tabs[j]) ELSE tabs[j]]
StopSaving(t) == [t EXCEPT !.saving = FALSE]
Block(t) == [t EXCEPT !.saving = FALSE, !.blocked = TRUE]

SaveBlocked(k) ==
    /\ SaveGuard(k) /\ ~EndpointValid(k)
    /\ tabs' = Update(Shared(k, tabs[k].doc), Block)
    /\ UNCHANGED <<doc, gens, reqs, Environment>>

Save(k) ==
    /\ SaveGuard(k) /\ EndpointValid(k)
    /\ BeginRequest(k, "save", BufferOf(k))
    /\ doc' = IF HasDoc(k) THEN [doc EXCEPT !.saving = TRUE] ELSE doc
    /\ tabs' = Update(Shared(k, tabs[k].doc), LAMBDA t : [t EXCEPT !.saving = TRUE])
    /\ UNCHANGED Environment

ForceOverwrite(k) ==
    /\ "force" \in Features
    /\ tabs[k].open /\ tabs[k].available /\ tabs[k].content # Blank
    /\ BeginRequest(k, "stat", [content |-> tabs[k].content, mtime |-> tabs[k].mtime])
    /\ tabs' = [tabs EXCEPT ![k].saving = TRUE]
    /\ UNCHANGED <<doc, Environment>>

\* handleSave of EditorTabs (by generation) and of MonacoKeepAliveHost (without).
EncryptedSave(k, byGeneration) ==
    /\ "encrypt" \in Features
    /\ tabs[k].open /\ tabs[k].content # Blank /\ conn.up
    /\ LET buffer == [content |-> tabs[k].content, mtime |-> tabs[k].mtime]
       IN  IF byGeneration
           THEN tabs[k].available /\ BeginRequest(k, "sealed", buffer)
           ELSE /\ Cardinality(reqs) < MaxFlight
                /\ reqs' = reqs \union {Request(k, "parked", buffer, 0)}
                /\ UNCHANGED gens
    /\ UNCHANGED <<tabs, doc, Environment>>

----------------------------------------------------------------------------
(* Operations that do not await *)

\* close, closeOthers and closeAll: the document stays.
Close(S) ==
    /\ tabs' = [k \in Keys |-> IF k \in S THEN ClosedTab ELSE tabs[k]]
    /\ gens' = [k \in Keys |-> IF k \in S THEN gens[k] + 1 ELSE gens[k]]
    /\ UNCHANGED <<doc, reqs, Environment>>

CloseSome ==
    \E S \in SUBSET {k \in Keys : tabs[k].open /\ gens[k] < MaxGen} : S # {} /\ Close(S)

\* The editor is shown once there is content.
SetContent(k, c) ==
    /\ tabs[k].open /\ tabs[k].content \notin {Blank, c}
    /\ IF HasDoc(k)
       THEN /\ doc' = [doc EXCEPT !.content = c, !.dirty = c # doc.saved]
            /\ tabs' = Update({j \in Keys : tabs[j].doc},
                              LAMBDA t : [t EXCEPT !.content = c, !.dirty = c # doc.saved])
       ELSE /\ tabs' = [tabs EXCEPT ![k].content = c, ![k].dirty = c # tabs[k].saved]
            /\ UNCHANGED doc
    /\ UNCHANGED <<gens, reqs, Environment>>

MarkTarget(k, available) ==
    /\ "targets" \in Features
    /\ tabs[k].open /\ tabs[k].available # available
    /\ tabs' = [tabs EXCEPT ![k].available = available]
    /\ UNCHANGED <<doc, gens, reqs, Environment>>

\* The page is loaded again from what partialize kept.  A request in flight
\* has reached the server by now or never will.
Rehydrated(t) ==
    IF ~t.open THEN t
    ELSE [t EXCEPT !.content = IF t.dirty THEN t.content ELSE Blank,
                   !.saved = IF t.dirty THEN t.saved ELSE Blank,
                   !.hydrated = TRUE, !.loading = FALSE, !.saving = FALSE]

Restart ==
    /\ "restart" \in Features
    /\ \E k \in Keys : tabs[k].open
    /\ tabs' = [k \in Keys |-> Rehydrated(tabs[k])]
    /\ doc' = IF doc.dirty THEN doc ELSE NoDoc
    /\ gens' = [k \in Keys |-> 0]
    /\ reqs' = {}
    /\ UNCHANGED Environment

----------------------------------------------------------------------------
(* The server and the connection *)

IsRead(r) == r.kind \in {"open", "reload", "discard", "load", "probe", "stat"}
Replies(r, how, content, mtime) ==
    reqs' = (reqs \ {r}) \union {[r EXCEPT !.reply = [how |-> how, content |-> content, mtime |-> mtime]]}

ServerReads(r) ==
    /\ r.reply.how = "none" /\ r.url # NoUrl /\ IsRead(r)
    /\ Replies(r, "ok", disk[r.url].content, disk[r.url].mtime)
    /\ UNCHANGED <<store, Environment>>

\* A write carries the mtime it expects; an encrypted save carries none.
ServerWrites(r) ==
    /\ r.reply.how = "none" /\ r.url # NoUrl /\ ~IsRead(r)
    /\ IF r.kind \in {"save", "force"} /\ r.mtime # disk[r.url].mtime
       THEN /\ Replies(r, "conflict", Blank, 0)
            /\ UNCHANGED <<disk, stored>>
       ELSE /\ disk[r.url].mtime < MaxRevision
            /\ disk' = [disk EXCEPT ![r.url] = [content |-> r.content, mtime |-> @.mtime + 1]]
            /\ stored' = stored \union {r.content}
            /\ Replies(r, "ok", Blank, disk[r.url].mtime + 1)
    /\ UNCHANGED <<store, conn>>

\* An error answer, or a promise rejected by the transport.
RequestFails(r) ==
    /\ r.reply.how = "none" /\ ("fail" \in Features \/ r.url = NoUrl \/ ~IsCurrentConnection(r))
    /\ Replies(r, "error", Blank, 0)
    /\ UNCHANGED <<store, Environment>>

OtherWrites(u, c) ==
    /\ disk[u].content # c /\ disk[u].mtime < MaxRevision
    /\ disk' = [disk EXCEPT ![u] = [content |-> c, mtime |-> @.mtime + 1]]
    /\ stored' = stored \union {c}
    /\ UNCHANGED <<store, conn, reqs>>

ConnectionDrops ==
    /\ conn.up /\ conn.gen < MaxConn
    /\ conn' = [conn EXCEPT !.up = FALSE]
    /\ UNCHANGED <<store, disk, reqs, stored>>

Reconnects(u) ==
    /\ ~conn.up /\ (u = conn.url \/ "url" \in Features)
    /\ conn' = [gen |-> conn.gen + 1, url |-> u, up |-> TRUE]
    /\ UNCHANGED <<store, disk, reqs, stored>>

----------------------------------------------------------------------------
(* Operations after an await *)

Settle(r) == reqs' = reqs \ {r}
Answered(r, kind) == r.kind = kind /\ r.reply.how # "none"
Taken(r) == IsCurrentRequest(r) /\ IsCurrentConnection(r)

\* The answer is no longer wanted: the function returns.  The error path of
\* open does not look at the connection.
DropAnswer(r) ==
    /\ r.reply.how # "none" /\ r.kind # "parked"
    /\ IF r.kind = "stat"
       THEN ~IsCurrentRequest(r) \/ (EndpointValid(r.key) /\ ~IsCurrentConnection(r))
       ELSE ~Taken(r) /\ ~(r.kind = "open" /\ r.reply.how = "error" /\ IsCurrentRequest(r))
    /\ Settle(r)
    /\ UNCHANGED <<store, Environment>>

\* Which errors mean that the target is gone.
MayBecomeUnavailable(t) ==
    {t} \union IF "targets" \in Features THEN {[t EXCEPT !.available = FALSE]} ELSE {}

\* A document that is known already wins over what was just read.
OpenAnswered(r) ==
    /\ Answered(r, "open") /\ r.reply.how = "ok" /\ Taken(r)
    /\ LET read == [live |-> TRUE, content |-> r.reply.content, saved |-> r.reply.content, dirty |-> FALSE,
                    mtime |-> r.reply.mtime, saving |-> FALSE, ident |-> r.ident]
           d == IF doc.live THEN doc ELSE read
       IN  /\ doc' = d
           /\ tabs' = [tabs EXCEPT ![r.key] = [@ EXCEPT !.loading = FALSE, !.doc = TRUE,
                        !.content = d.content, !.saved = d.saved, !.dirty = d.dirty,
                        !.mtime = d.mtime, !.saving = d.saving, !.ident = d.ident]]
    /\ Settle(r)
    /\ UNCHANGED <<gens, Environment>>

Loaded(t, r) ==
    [t EXCEPT !.loading = FALSE, !.content = r.reply.content, !.saved = r.reply.content,
              !.mtime = r.reply.mtime, !.dirty = FALSE, !.ident = r.ident, !.blocked = FALSE,
              !.hydrated = IF r.kind = "load" THEN FALSE ELSE @]

Replace(r) ==
    /\ doc' = IF r.doc /\ doc.live
              THEN [doc EXCEPT !.content = r.reply.content, !.saved = r.reply.content,
                               !.mtime = r.reply.mtime, !.dirty = FALSE, !.ident = r.ident]
              ELSE doc
    /\ tabs' = Update(Shared(r.key, r.doc), LAMBDA t : Loaded(t, r))

KeepDirty(r) ==
    /\ tabs' = [tabs EXCEPT ![r.key].loading = FALSE,
                            ![r.key].hydrated = IF r.kind = "load" THEN FALSE ELSE @]
    /\ UNCHANGED doc

\* Mutation: whether the tab was dirty is not looked at again.
ReloadAnsweredBlindly(r) ==
    /\ r.kind \in {"reload", "load"} /\ r.reply.how = "ok" /\ Taken(r)
    /\ Replace(r)
    /\ Settle(r)
    /\ UNCHANGED <<gens, Environment>>

\* reloadTab and loadContent: edits made meanwhile stay.
ReloadAnswered(r) ==
    /\ r.kind \in {"reload", "load"} /\ r.reply.how = "ok" /\ Taken(r)
    /\ IF tabs[r.key].dirty THEN KeepDirty(r) ELSE Replace(r)
    /\ Settle(r)
    /\ UNCHANGED <<gens, Environment>>

DiscardAnswered(r) ==
    /\ Answered(r, "discard") /\ r.reply.how = "ok" /\ Taken(r)
    /\ Replace(r)
    /\ Settle(r)
    /\ UNCHANGED <<gens, Environment>>

ReadFailed(r) ==
    /\ r.kind \in {"open", "reload", "load", "discard"} /\ r.reply.how = "error"
    /\ IF r.kind = "open" THEN IsCurrentRequest(r) ELSE Taken(r)
    /\ \E t \in IF r.kind = "discard" THEN {tabs[r.key]} ELSE MayBecomeUnavailable(tabs[r.key]) :
          tabs' = [tabs EXCEPT ![r.key] = [t EXCEPT !.loading = FALSE,
                                           !.hydrated = IF r.kind = "load" THEN FALSE ELSE @]]
    /\ Settle(r)
    /\ UNCHANGED <<doc, gens, Environment>>

\* A newer revision reloads a clean tab that is not loading already.
ProbeAnswered(r) ==
    /\ Answered(r, "probe") /\ Taken(r)
    /\ IF /\ r.reply.how = "ok" /\ ~tabs[r.key].loading /\ ~tabs[r.key].dirty
          /\ r.reply.mtime > tabs[r.key].mtime /\ tabs[r.key].available
       THEN /\ gens[r.key] < MaxGen
            /\ gens' = [gens EXCEPT ![r.key] = @ + 1]
            /\ tabs' = [tabs EXCEPT ![r.key].loading = TRUE]
            /\ reqs' = (reqs \ {r}) \union {Request(r.key, "reload", Unsent, gens[r.key] + 1)}
       ELSE Settle(r) /\ UNCHANGED <<tabs, gens>>
    /\ UNCHANGED <<doc, Environment>>

\* Mutation: the text that was sent is taken for the text of the buffer.
SaveAnsweredAsSent(r) ==
    /\ Answered(r, "save") /\ r.reply.how = "ok" /\ Taken(r)
    /\ doc' = [doc EXCEPT !.live = TRUE, !.saved = r.content, !.dirty = FALSE,
                          !.content = IF doc.live THEN @ ELSE r.content,
                          !.mtime = r.reply.mtime, !.saving = FALSE]
    /\ tabs' = Update(Shared(r.key, r.doc), LAMBDA t :
                  [t EXCEPT !.saving = FALSE, !.dirty = FALSE, !.saved = r.content,
                            !.mtime = r.reply.mtime, !.doc = TRUE, !.blocked = FALSE])
    /\ Settle(r)
    /\ UNCHANGED <<gens, Environment>>

\* A document that is not known is created, without an endpoint identity.
SaveAnswered(r) ==
    /\ Answered(r, "save") /\ r.reply.how = "ok" /\ Taken(r)
    /\ LET prev == IF doc.live THEN doc ELSE [NoDoc EXCEPT !.live = TRUE, !.content = r.content]
       IN  doc' = [prev EXCEPT !.saved = r.content, !.dirty = prev.content # r.content,
                               !.mtime = r.reply.mtime, !.saving = FALSE]
    /\ tabs' = Update(Shared(r.key, r.doc), LAMBDA t :
                  [t EXCEPT !.saving = FALSE, !.dirty = t.content # r.content, !.saved = r.content,
                            !.mtime = r.reply.mtime, !.doc = TRUE, !.blocked = FALSE])
    /\ Settle(r)
    /\ UNCHANGED <<gens, Environment>>

SaveRefused(r) ==
    /\ Answered(r, "save") /\ r.reply.how # "ok" /\ Taken(r)
    /\ doc' = IF r.doc /\ doc.live THEN [doc EXCEPT !.saving = FALSE] ELSE doc
    /\ \E t \in IF r.reply.how = "error" THEN MayBecomeUnavailable(tabs[r.key]) ELSE {tabs[r.key]} :
          tabs' = [Update(Shared(r.key, r.doc), StopSaving) EXCEPT ![r.key] = StopSaving(t)]
    /\ Settle(r)
    /\ UNCHANGED <<gens, Environment>>

\* Mutation: the endpoint is not checked again after the stat.
ForceStatAnsweredUnfenced(r) ==
    /\ Answered(r, "stat") /\ Taken(r)
    /\ reqs' = (reqs \ {r}) \union
                  {[r EXCEPT !.kind = "force", !.reply = [how |-> "none", content |-> Blank, mtime |-> 0],
                             !.mtime = IF r.reply.how = "ok" THEN r.reply.mtime ELSE @]}
    /\ UNCHANGED <<tabs, doc, gens, Environment>>

\* After its stat a forced write checks the fence and then writes over the
\* mtime it was told; a stat answered with an error keeps the tab's mtime,
\* a rejected one ends the operation.
ForceStatAnswered(r) ==
    /\ Answered(r, "stat") /\ IsCurrentRequest(r)
    /\ \/ /\ ~EndpointValid(r.key) /\ tabs' = Update(Shared(r.key, r.doc), Block)
          /\ Settle(r)
       \/ /\ EndpointValid(r.key) /\ IsCurrentConnection(r)
          /\ UNCHANGED tabs
          /\ reqs' = (reqs \ {r}) \union
                  {[r EXCEPT !.kind = "force", !.reply = [how |-> "none", content |-> Blank, mtime |-> 0],
                             !.mtime = IF r.reply.how = "ok" THEN r.reply.mtime ELSE @]}
       \/ /\ EndpointValid(r.key) /\ IsCurrentConnection(r) /\ r.reply.how = "error"
          /\ \E t \in MayBecomeUnavailable(tabs[r.key]) :
                tabs' = [tabs EXCEPT ![r.key] = StopSaving(t)]
          /\ Settle(r)
    /\ UNCHANGED <<doc, gens, Environment>>

\* Only the tab is updated, not its document.
ForceAnswered(r) ==
    /\ Answered(r, "force") /\ Taken(r)
    /\ \E t \in IF r.reply.how = "error" THEN MayBecomeUnavailable(tabs[r.key]) ELSE {tabs[r.key]} :
          tabs' = [tabs EXCEPT ![r.key] =
                      IF r.reply.how = "ok"
                      THEN [t EXCEPT !.saving = FALSE, !.dirty = t.content # r.content,
                                     !.saved = r.content, !.mtime = r.reply.mtime, !.blocked = FALSE]
                      ELSE StopSaving(t)]
    /\ Settle(r)
    /\ UNCHANGED <<doc, gens, Environment>>

\* markSaved takes the content of the tab for the content that was sent.
EncryptedAnswered(r) ==
    /\ r.kind \in {"sealed", "parked"} /\ r.reply.how # "none"
    /\ r.kind = "sealed" => IsCurrentRequest(r)
    /\ tabs' = IF r.reply.how = "ok" /\ tabs[r.key].open
               THEN [tabs EXCEPT ![r.key] = [@ EXCEPT !.saving = FALSE, !.dirty = FALSE,
                                                      !.saved = tabs[r.key].content, !.mtime = r.reply.mtime]]
               ELSE tabs
    /\ Settle(r)
    /\ UNCHANGED <<doc, gens, Environment>>

Answer(r) ==
    \/ DropAnswer(r) \/ OpenAnswered(r) \/ ReloadAnswered(r) \/ DiscardAnswered(r)
    \/ ReadFailed(r) \/ ProbeAnswered(r) \/ SaveAnswered(r) \/ SaveRefused(r)
    \/ ForceStatAnswered(r) \/ ForceAnswered(r) \/ EncryptedAnswered(r)

User(k) ==
    \/ Open(k) \/ OpenExisting(k) \/ ReloadButton(k) \/ DiscardAndReload(k) \/ LoadContent(k)
    \/ ReconcileTabFreshness(k) \/ ReconcileGit(k)
    \/ Save(k) \/ SaveBlocked(k) \/ ForceOverwrite(k)
    \/ \E byGeneration \in BOOLEAN : EncryptedSave(k, byGeneration)
    \/ \E c \in Text : SetContent(k, c)
    \/ \E available \in BOOLEAN : MarkTarget(k, available)

Network(r) == ServerReads(r) \/ ServerWrites(r) \/ RequestFails(r)

Next ==
    \/ \E k \in Keys : User(k)
    \/ CloseSome
    \/ Restart
    \/ \E r \in reqs : Network(r) \/ Answer(r)
    \/ \E u \in Urls : Reconnects(u) \/ \E c \in Edits : OtherWrites(u, c)
    \/ ConnectionDrops

Spec == Init /\ [][Next]_vars

\* Every request is answered or fails, and its continuation runs.
FairSpec ==
    /\ Spec
    /\ WF_vars(\E r \in reqs : RequestFails(r))
    /\ WF_vars(\E r \in reqs : Answer(r))

----------------------------------------------------------------------------
(* Properties *)

TabType ==
    [open : BOOLEAN, content : Text \union {Blank}, saved : Text \union {Blank}, dirty : BOOLEAN,
     mtime : 0 .. MaxRevision, doc : BOOLEAN, loading : BOOLEAN, saving : BOOLEAN, hydrated : BOOLEAN,
     blocked : BOOLEAN, available : BOOLEAN, ident : Urls \union {NoUrl}]

\* Tabs, document and requests have the fields the store gives them; a tab
\* that holds a document key holds it for a tab that was loaded, and a
\* request never outlives the generation counter of its tab.
TypeOK ==
    /\ tabs \in [Keys -> TabType]
    /\ doc.live \in BOOLEAN /\ doc.ident \in Urls \union {NoUrl} /\ doc.mtime \in 0 .. MaxRevision
    /\ gens \in [Keys -> 0 .. MaxGen]
    /\ \A r \in reqs : r.gen <= gens[r.key]
    /\ \A k \in Keys : tabs[k].doc => tabs[k].open

\* The tabs of one file show one buffer: what is typed, loaded or saved in
\* one tab is in every tab that carries the document, and in the document.
OneBuffer ==
    \A k \in Keys : tabs[k].doc /\ ~tabs[k].hydrated =>
        /\ doc.live
        /\ tabs[k].content = doc.content

\* Unsaved text leaves a tab only when the user types over it in a tab that
\* shows it, discards it or closes the tab: no late answer of a read, no
\* probe and no save of another route takes it away.
NoSilentLoss ==
    [][\A k \in Keys :
          (/\ tabs[k].open /\ tabs'[k].open /\ tabs[k].dirty
           /\ tabs'[k].content # tabs[k].content /\ tabs[k].content \notin stored)
          => \/ \E r \in reqs : DiscardAnswered(r)
             \/ \E j \in Keys : tabs[j].content = tabs[k].content /\ SetContent(j, tabs'[k].content)]_vars

\* A tab that is not marked dirty shows text some server has held: text the
\* user typed is never taken for saved before it was written.
CleanIsStored ==
    \A k \in Keys : tabs[k].open /\ ~tabs[k].dirty /\ tabs[k].content # Blank => tabs[k].content \in stored

\* Text goes only to the server it was read from, however often the profile
\* is pointed elsewhere between the click, the stat and the write.
FenceHolds ==
    \A r \in reqs : ~IsRead(r) => r.url \in {r.bound, NoUrl}

\* A save by a tab that knows the file's current revision is not refused.
KnownRevisionSaves ==
    \A r \in reqs : r.kind = "save" /\ r.reply.how = "conflict" => r.known # disk[r.url].mtime

\* A buffer read from the server the profile is connected to can be saved:
\* the fence closes only when the profile points elsewhere.
\* Does not hold (README, known deviations).
OwnEndpointSaves ==
    \A k \in Keys : tabs[k].open /\ tabs[k].doc /\ tabs[k].dirty /\ conn.up /\ tabs[k].ident = conn.url
        => EndpointValid(k)

\* A tab does not stay in the state "saving" or "loading" for ever: one that
\* does refuses every later save or freshness probe.
\* Does not hold (README, known deviations).
TabsSettle ==
    \A k \in Keys : []<>(tabs[k].open => ~tabs[k].saving /\ ~tabs[k].loading)
=============================================================================
