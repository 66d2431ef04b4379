--------------------------- MODULE ConflictResolver ---------------------------
(***************************************************************************)
(* The conflict resolver of the web client: the registry of drafts         *)
(* (lib/conflict-draft-store.ts), the hook that loads, imports, reviews    *)
(* and applies them over a connection that can be replaced at any time     *)
(* (hooks/use-conflict-resolver.ts) and the guards of the panel            *)
(* (components/organisms/MergeConflictEditor.tsx).                         *)
(*                                                                         *)
(* One project and one root; each conflict is one path.  The server keeps  *)
(* one snapshot version per conflict, which work outside this page changes *)
(* at will.  A draft is named by conflict, version and the generation of   *)
(* the connection it was loaded over.  An action is what runs between two  *)
(* awaits; a load, a refresh and an apply are each split at theirs.        *)
(***************************************************************************)
EXTENDS ConflictDraft

CONSTANTS
    Conflicts, NoConflict,
    SideOnly,     \* the conflicts resolved by a side or a deletion, without text
    MaxVersion, MaxGen,  \* bounds: versions of a snapshot, generations
    MaxOutside,   \* bound: changes of the server's state from outside
    MaxDirty      \* DEFAULT_MAX_DIRTY_DRAFTS

ASSUME ResolverAssumption ==
    /\ NoConflict \notin Conflicts /\ SideOnly \subseteq Conflicts
    /\ MaxVersion \in Nat \ {0} /\ MaxGen \in Nat \ {0}
    /\ MaxOutside \in Nat /\ MaxDirty \in Nat

VARIABLES
    drafts,   \* key -> draft
    order,    \* the pairs of keys of which the first was inserted before, as a Map has them
    active,   \* activeDraftKey of the registry
    key,      \* draftKey of the panel
    sel,      \* the conflict the panel shows, NoConflict when it is closed
    cache,    \* conflict -> version the query cache holds, 0 for none
    gen, up,  \* the connection's generation and whether it is connected
    load,     \* the draft load that loadRequestRef names
    inv,      \* the inventory a refresh has read
    net,      \* apply requests not yet answered
    attempts, \* attempts begun so far
    sv,       \* conflict -> version on the server, 0 when resolved
    outside   \* outside changes so far

client == <<drafts, order, active, key, sel, cache, load, inv, attempts>>
vars == <<drafts, order, active, key, sel, cache, gen, up, load, inv, net, attempts, sv, outside>>

Keys == [c : Conflicts, v : 1 .. MaxVersion, g : 1 .. MaxGen]
NoKey == [c |-> NoConflict, v |-> 0, g |-> 0]
Wants == {"open", "import", "review"}
NoLoad == [c |-> NoConflict, g |-> 0, ver |-> 0, want |-> "open", src |-> NoKey]
NoInv == [g |-> 0, missing |-> {}]

(* A strict total order on S *)
Ordered(R, S) ==
    /\ R \subseteq S \X S
    /\ \A j \in S : <<j, j>> \notin R
    /\ \A j, k \in S : j # k => (<<j, k>> \in R \/ <<k, j>> \in R)
    /\ \A i, j, k \in S : <<i, j>> \in R /\ <<j, k>> \in R => <<i, k>> \in R

TypeOK ==
    /\ DOMAIN drafts \subseteq Keys
    /\ drafts \in [DOMAIN drafts -> Draft]
    /\ Ordered(order, DOMAIN drafts)
    /\ active \in DOMAIN drafts \union {NoKey} /\ key \in Keys \union {NoKey}
    /\ sel \in Conflicts \union {NoConflict}
    /\ cache \in [Conflicts -> 0 .. MaxVersion] /\ sv \in [Conflicts -> 0 .. MaxVersion]
    /\ gen \in 1 .. MaxGen /\ up \in BOOLEAN
    /\ load \in [c : Conflicts \union {NoConflict}, g : 0 .. MaxGen, ver : 0 .. MaxVersion,
                 want : Wants, src : Keys \union {NoKey}]
    /\ inv \in [g : 0 .. MaxGen, missing : SUBSET Conflicts]
    /\ net \subseteq [k : Keys, id : 1 .. MaxAttempts, text : 0 .. MaxText, waiting : BOOLEAN,
                      out : {"none", "applied", "refused"}, origin : {"own", "imported", "reviewed"}]
    /\ attempts \in 0 .. MaxAttempts /\ outside \in 0 .. MaxOutside

Init ==
    /\ drafts = <<>> /\ order = {} /\ active = NoKey /\ key = NoKey
    /\ sel = NoConflict /\ cache = [c \in Conflicts |-> 0]
    /\ gen = 1 /\ up = TRUE /\ load = NoLoad /\ inv = NoInv /\ net = {}
    /\ attempts = 0 /\ sv = [c \in Conflicts |-> 1] /\ outside = 0

\* isCurrentConnection and captureScopeOwner
Current(g) == up /\ g = gen

\* draftCandidate and activeDraft of the panel, NoKey for null
Shown ==
    LET k == IF key \in DOMAIN drafts THEN key ELSE active
    IN  IF Current(k.g) /\ k.c = sel /\ k.v = cache[sel] THEN k ELSE NoKey

RecoveryList == {k \in DOMAIN drafts : Shown # NoKey /\ drafts[k].rec /\ k.c = sel}

(* What is left of the order when only the drafts of S are *)
Among(S) == order \cap (S \X S)

Put(k, d) == drafts' = [drafts EXCEPT ![k] = d]

(***************************************************************************)
(* The panel                                                               *)
(***************************************************************************)
\* retireScope, for every owner that is not current any more
Retired(ds, g) ==
    [k \in DOMAIN ds |-> IF k.g = g THEN ds[k] ELSE Cancelled(Recovered(ds[k]))]

\* Opening the panel, or selecting another conflict in it
Select(c) ==
    /\ c # sel
    /\ sel' = c /\ key' = NoKey /\ load' = NoLoad
    /\ drafts' = Retired(drafts, gen)
    /\ UNCHANGED <<order, active, cache, gen, up, inv, net, attempts, sv, outside>>

Close ==
    /\ sel # NoConflict
    /\ sel' = NoConflict /\ key' = NoKey /\ load' = NoLoad
    /\ UNCHANGED <<drafts, order, active, cache, gen, up, inv, net, attempts, sv, outside>>

\* useGitConflictFile delivers the server's snapshot to the cache.
Refetch ==
    /\ sel # NoConflict /\ up
    /\ sv[sel] # 0 /\ cache[sel] # sv[sel]
    /\ cache' = [cache EXCEPT ![sel] = sv[sel]]
    /\ load' = [c |-> sel, g |-> gen, ver |-> sv[sel], want |-> "open", src |-> NoKey]
    /\ UNCHANGED <<drafts, order, active, key, sel, gen, up, inv, net, attempts, sv, outside>>

(***************************************************************************)
(* Loading a draft.  ver = 0 says that the snapshot is still awaited.      *)
(***************************************************************************)
Begin(ver, want, src) ==
    /\ sel # NoConflict /\ up
    /\ load' = [c |-> sel, g |-> gen, ver |-> ver, want |-> want, src |-> src]
    /\ UNCHANGED <<drafts, order, active, key, sel, cache, gen, up, inv, net, attempts, sv, outside>>

\* The effect runs again for a cached snapshot; cancels the pending load.
LoadOpen == sel # NoConflict /\ cache[sel] # 0 /\ Begin(cache[sel], "open", NoKey)

ImportBegin(k) == k \in RecoveryList /\ Begin(0, "import", k)

ReviewBegin ==
    /\ Shown # NoKey /\ key = Shown
    /\ drafts[key].review /\ ~drafts[key].rec
    /\ Begin(0, "review", key)

LoadFetched ==
    /\ load.c # NoConflict /\ load.ver = 0 /\ Current(load.g) /\ sv[load.c] # 0
    /\ load' = [load EXCEPT !.ver = sv[load.c]]
    /\ UNCHANGED <<drafts, order, active, key, sel, cache, gen, up, inv, net, attempts, sv, outside>>

LoadFail ==
    /\ load.c # NoConflict
    /\ load' = NoLoad
    /\ UNCHANGED <<drafts, order, active, key, sel, cache, gen, up, inv, net, attempts, sv, outside>>

SumBytes(ds, S) == FoldSet(LAMBDA k, n : n + TotalBytes(ds[k]), 0, S)

\* Mutation: any draft may be evicted.
EvictableAny(d) == d.attempt = 0

\* A candidate of canAdmitDraft for eviction
Evictable(d) == ~Unsettled(d) /\ (d.isApplied \/ (d.past = <<>> /\ d.future = <<>>))

\* The drafts canAdmitDraft evicts: the shortest prefix of the candidates that
\* makes room, which is part of every prefix that does; {} when none is needed.
\* Meaningless unless Admitted.
Room(ds, gone) ==
    SumBytes(ds, DOMAIN ds \ gone) + TotalBytes(NewDraft) <= MaxTotalBytes

EvictionSets(ds) ==
    LET cand == {k \in DOMAIN ds : Evictable(ds[k])}
    IN  {S \in SUBSET cand : \A k \in S, j \in cand : <<j, k>> \in order => j \in S}

Admitted(ds) ==
    /\ TotalBytes(NewDraft) <= MaxDraftBytes
    /\ Cardinality({k \in DOMAIN ds : Unsettled(ds[k])}) < MaxDirty
    /\ \E S \in EvictionSets(ds) : Room(ds, S)

Evicted(ds) ==
    {k \in DOMAIN ds : \A S \in EvictionSets(ds) : Room(ds, S) => k \in S}

\* loadSnapshot: the other drafts of the conflict, when its snapshot drifted
Drifted(k) ==
    [j \in DOMAIN drafts |->
        IF j.c = k.c /\ j.g = k.g /\ j # k /\ Unsettled(drafts[j])
          THEN Recovered(drafts[j]) ELSE drafts[j]]

\* updateResult reserves a second copy of the text of every other dirty draft.
OtherBytes(ds, k) ==
    FoldSet(LAMBDA j, n : n + TotalBytes(ds[j]) + (IF ds[j].dirty THEN ds[j].text ELSE 0),
            0, DOMAIN ds \ {k})

\* importRecoveryDraft of the store
CanImport(ds, src, k) ==
    /\ src \in DOMAIN ds /\ ds[src].rec /\ src # k
    /\ ~ds[k].review /\ MayModify(ds[k])
    /\ ~ds[k].dirty /\ ds[k].past = <<>> /\ ds[k].future = <<>>
    /\ \/ ds[src].recText = ds[k].text
       \/ GrowthAccepted(ds[k], ds[src].recText, OtherBytes(ds, k), TRUE)

\* What the caller of the load does with draft k, once it is there
Continued(ds, k) ==
    CASE load.want = "import" /\ CanImport(ds, load.src, k) ->
           [ds EXCEPT ![k] = Imported(@, ds[load.src].recText)]
      [] load.want = "review" /\ k = load.src /\ ds[k].review /\ ~ds[k].rec ->
           [ds EXCEPT ![k] = Reviewed(@)]
      [] OTHER -> ds

\* assertCurrentLoad
LoadIsCurrent(l) == Current(l.g)

\* The load returns draft k, which becomes the active one.
Arrive(ds, ord, k) ==
    /\ drafts' = Continued(ds, k) /\ order' = ord /\ active' = k
    /\ key' = IF load.want = "open" \/ (load.want = "import" /\ CanImport(ds, load.src, k))
                THEN k ELSE key

LoadCommit ==
    /\ load.c # NoConflict /\ load.ver # 0 /\ LoadIsCurrent(load)
    /\ LET k == [c |-> load.c, v |-> load.ver, g |-> load.g]
           old == Drifted(k)
       IN  \/ k \in DOMAIN drafts /\ Arrive(drafts, order, k)
           \/ /\ k \notin DOMAIN drafts /\ Admitted(old)
              /\ LET kept == DOMAIN old \ Evicted(old)
                 IN  Arrive([j \in kept \union {k} |-> IF j = k THEN NewDraft ELSE old[j]],
                            Among(kept) \union (kept \X {k}), k)
           \/ /\ k \notin DOMAIN drafts /\ ~Admitted(old)
              /\ drafts' = old /\ UNCHANGED <<order, active, key>>
    /\ load' = NoLoad
    /\ UNCHANGED <<sel, cache, gen, up, inv, net, attempts, sv, outside>>

(***************************************************************************)
(* Editing the draft the panel shows                                       *)
(***************************************************************************)
Edit(d) ==
    /\ Put(key, d)
    /\ UNCHANGED <<order, active, key, sel, cache, gen, up, load, inv, net, attempts, sv, outside>>

CanEdit == key \in DOMAIN drafts /\ key = Shown /\ sel \notin SideOnly
MayNote(d) == Len(d.past) < MaxHist
InSkew(d) == d.skew \in -MaxSkew .. MaxSkew

\* updateDraftResult; an attempt under way does not forbid it.
Type(t, joined, decided) ==
    /\ CanEdit /\ ~drafts[key].rec /\ t # drafts[key].text
    /\ joined => drafts[key].coalesce /\ drafts[key].past # <<>>
    /\ joined \/ MayNote(drafts[key])
    /\ decided => drafts[key].decided
    /\ GrowthAccepted(drafts[key], t, OtherBytes(drafts, key), ~joined)
    /\ Edit(Edited(drafts[key], t, joined, decided))

\* undoDraft and redoDraft ask for nothing but a draft with a history.
Undo ==
    /\ key \in DOMAIN drafts /\ drafts[key].past # <<>>
    /\ InSkew(Undone(drafts[key])) /\ Edit(Undone(drafts[key]))

Redo ==
    /\ key \in DOMAIN drafts /\ drafts[key].future # <<>>
    /\ InSkew(Redone(drafts[key])) /\ Edit(Redone(drafts[key]))

MarkReviewed ==
    /\ CanEdit /\ MayModify(drafts[key]) /\ MayNote(drafts[key])
    /\ InSkew(Decided(drafts[key])) /\ Edit(Decided(drafts[key]))

\* acceptSide and acceptBoth; acceptAll makes a preview and confirms it in one
\* go, which is an Accept where PreviewIsFresh and a refusal elsewhere.
Accept(t) ==
    /\ CanEdit /\ MayModify(drafts[key]) /\ MayNote(drafts[key])
    /\ t = drafts[key].text \/ GrowthAccepted(drafts[key], t, OtherBytes(drafts, key), TRUE)
    /\ Edit(Accepted(drafts[key], t))

\* confirmWholeFileAction compares the model's revision with the draft's.
PreviewIsFresh(d) == d.skew = 0

\* handleDiscardRecovery, confirmed; it closes the panel on its own draft.
Discard(k) ==
    /\ k \in RecoveryList /\ drafts[k].attempt = 0
    /\ drafts' = Restrict(drafts, DOMAIN drafts \ {k})
    /\ order' = Among(DOMAIN drafts \ {k})
    /\ active' = IF active = k THEN NoKey ELSE active
    /\ IF k = key THEN sel' = NoConflict /\ key' = NoKey /\ load' = NoLoad
                  ELSE UNCHANGED <<sel, key, load>>
    /\ UNCHANGED <<cache, gen, up, inv, net, attempts, sv, outside>>

(***************************************************************************)
(* Applying it                                                             *)
(***************************************************************************)
Apply ==
    /\ key \in DOMAIN drafts /\ sel # NoConflict
    /\ IF sel \in SideOnly THEN Current(key.g) ELSE key = Shown
    /\ CanStart(drafts[key]) /\ attempts < MaxAttempts
    /\ attempts' = attempts + 1
    /\ Put(key, Started(drafts[key], attempts'))
    /\ net' = net \union {[k |-> key, id |-> attempts', waiting |-> TRUE, out |-> "none",
                           text |-> IF sel \in SideOnly THEN 0 ELSE drafts[key].text,
                           origin |-> drafts[key].origin]}
    /\ UNCHANGED <<order, active, key, sel, cache, gen, up, load, inv, sv, outside>>

\* reconcileOutcome: only the attempt that is in flight is completed.
Reconciled(d, r) ==
    IF d.attempt # r.id THEN d
    ELSE IF r.out = "applied" THEN CompletedApplied(d, r.text) ELSE CompletedRefused(d)

ClientGets(r) ==
    /\ r.waiting /\ r.out # "none"
    /\ net' = net \ {r}
    /\ IF r.k \notin DOMAIN drafts THEN UNCHANGED drafts
       ELSE LET d == Reconciled(drafts[r.k], r)
            IN  Put(r.k, IF Current(r.k.g) THEN d ELSE Recovered(d))
    /\ UNCHANGED <<order, active, key, sel, cache, gen, up, load, inv, attempts, sv, outside>>

\* Mutation: a failed request only ends the attempt.
FailedQuietly(d, id) == IF d.attempt = id THEN Cancelled(d) ELSE d

\* markAsRecovery and cancelResolve
Failed(d, id) ==
    IF d.attempt = id THEN Cancelled(Recovered(d)) ELSE Recovered(d)

\* No answer; the server may still work on the request.
ClientFails(r) ==
    /\ r.waiting
    /\ net' = (net \ {r}) \union (IF r.out = "none" THEN {[r EXCEPT !.waiting = FALSE]} ELSE {})
    /\ IF r.k \in DOMAIN drafts THEN Put(r.k, Failed(drafts[r.k], r.id)) ELSE UNCHANGED drafts
    /\ UNCHANGED <<order, active, key, sel, cache, gen, up, load, inv, attempts, sv, outside>>

(***************************************************************************)
(* The inventory: refreshOwnerScope up to and after its reads              *)
(***************************************************************************)
RefreshRead ==
    /\ up /\ inv = NoInv
    /\ inv' = [g |-> gen, missing |-> {c \in Conflicts : sv[c] = 0}]
    /\ UNCHANGED <<drafts, order, active, key, sel, cache, gen, up, load, net, attempts, sv, outside>>

\* markMissingConflicts, unless the owner retired meanwhile
RefreshDone ==
    /\ inv # NoInv /\ inv' = NoInv
    /\ drafts' = [k \in DOMAIN drafts |->
                    IF Current(inv.g) /\ k.g = inv.g /\ k.c \in inv.missing /\ Unsettled(drafts[k])
                      THEN Cancelled(Recovered(drafts[k])) ELSE drafts[k]]
    /\ UNCHANGED <<order, active, key, sel, cache, gen, up, load, net, attempts, sv, outside>>

(***************************************************************************)
(* The connection                                                          *)
(***************************************************************************)
\* The listener of onConnectionInvalidated is there while the panel is.
Drop ==
    /\ up /\ gen < MaxGen
    /\ up' = FALSE /\ gen' = gen + 1
    /\ drafts' = IF sel = NoConflict THEN drafts ELSE Retired(drafts, gen')
    /\ UNCHANGED <<order, active, key, sel, cache, load, inv, net, attempts, sv, outside>>

Connect ==
    /\ ~up /\ up' = TRUE
    /\ UNCHANGED <<drafts, order, active, key, sel, cache, gen, load, inv, net, attempts, sv, outside>>

(***************************************************************************)
(* The server and whoever else works in the repository                     *)
(***************************************************************************)
Served(r, out) ==
    (net \ {r}) \union (IF r.waiting THEN {[r EXCEPT !.out = out]} ELSE {})

ServeApply(r) ==
    /\ r.out = "none" /\ sv[r.k.c] = r.k.v
    /\ sv' = [sv EXCEPT ![r.k.c] = 0]
    /\ net' = Served(r, "applied")
    /\ UNCHANGED <<client, gen, up, outside>>

ServeRefuse(r) ==
    /\ r.out = "none" /\ net' = Served(r, "refused")
    /\ UNCHANGED <<client, gen, up, sv, outside>>

Outside(c, v) ==
    /\ outside < MaxOutside /\ outside' = outside + 1
    /\ v # sv[c] /\ sv' = [sv EXCEPT ![c] = v]
    /\ UNCHANGED <<client, gen, up, net>>

Settle(id) == \E r \in net : r.id = id /\ (ClientGets(r) \/ ClientFails(r))

Next ==
    \/ \E c \in Conflicts : Select(c)
    \/ Close \/ Refetch \/ LoadOpen \/ ReviewBegin
    \/ \E k \in DOMAIN drafts : ImportBegin(k) \/ Discard(k)
    \/ LoadFetched \/ LoadFail \/ LoadCommit
    \/ \E t \in Texts, joined, decided \in BOOLEAN : Type(t, joined, decided)
    \/ Undo \/ Redo \/ MarkReviewed
    \/ \E t \in Texts : Accept(t)
    \/ Apply \/ \E id \in 1 .. MaxAttempts : Settle(id)
    \/ RefreshRead \/ RefreshDone \/ Drop \/ Connect
    \/ \E r \in net : ServeApply(r) \/ ServeRefuse(r)
    \/ \E c \in Conflicts, v \in 0 .. MaxVersion : Outside(c, v)

Spec == Init /\ [][Next]_vars

(***************************************************************************)
(* Properties                                                              *)
(***************************************************************************)
(* An attempt is never repeated: a draft that was sent once is applied or  *)
(* in recovery as soon as the attempt is over, however it ended (answer,   *)
(* failure, retired connection, conflict gone from the inventory).         *)
AttemptSpent ==
    \A k \in DOMAIN drafts :
        drafts[k].spent /\ drafts[k].attempt = 0 => drafts[k].isApplied \/ drafts[k].rec

(* A draft says it is resolving only while its own request is awaited, so  *)
(* no draft is left that can neither be discarded nor resolved.            *)
ResolvingIsLive ==
    \A k \in DOMAIN drafts : drafts[k].attempt # 0 =>
        \E r \in net : r.k = k /\ r.id = drafts[k].attempt /\ r.waiting

(* The user's text leaves the registry only when he discards it: a draft   *)
(* that makes room for another holds the snapshot's text or what was       *)
(* applied, and nothing is under way for it.                               *)
EvictsOnlyClean ==
    [][DOMAIN drafts' \ DOMAIN drafts # {} =>
         \A k \in DOMAIN drafts \ DOMAIN drafts' :
            /\ ~drafts[k].rec /\ drafts[k].attempt = 0
            /\ drafts[k].text \in {InitialText, drafts[k].applied}]_vars

(* While the panel is open every draft of an earlier connection is         *)
(* recovery text with nothing in flight, late loads and answers included.  *)
RetiredIsRecovery ==
    sel # NoConflict => \A k \in DOMAIN drafts :
        k.g # gen => drafts[k].rec /\ drafts[k].attempt = 0

(* Text imported from an earlier snapshot is never sent before the user    *)
(* confirmed it against the snapshot it would be applied to.               *)
UnreviewedNeverSent == \A r \in net : r.origin # "imported"

(* The saved text of a draft in recovery is the text the user saw last,    *)
(* with the edits, undos and redos made since it was demoted.              *)
RecoveryKeepsText ==
    \A k \in DOMAIN drafts : drafts[k].rec => drafts[k].recText = drafts[k].text

(* A draft shown as applied holds exactly what was sent: typing during or  *)
(* after the attempt makes it recovery text.                               *)
AppliedMeansSent ==
    \A k \in DOMAIN drafts :
        drafts[k].isApplied /\ ~drafts[k].rec => drafts[k].text = drafts[k].applied

(* An apply is safe in every state: an attempt is spent at most once, what *)
(* is shown as resolving is on its way, a draft of a replaced connection   *)
(* is only a recovery, an imported text is sent only after review, and     *)
(* what is marked applied is what was sent.                                *)
ApplyIsSafe ==
    /\ TypeOK /\ AttemptSpent /\ ResolvingIsLive /\ RetiredIsRecovery
    /\ UnreviewedNeverSent /\ AppliedMeansSent

(* A whole-file action that is confirmed at once finds its preview fresh.  *)
\* Does not hold (README, known deviations).
PreviewConfirms == \A k \in DOMAIN drafts : MayModify(drafts[k]) => PreviewIsFresh(drafts[k])

(* The drafts together stay within the total budget. *)
\* Does not hold (README, known deviations).
BudgetHolds == SumBytes(drafts, DOMAIN drafts) <= MaxTotalBytes

(* No more drafts are dirty, resolving or in recovery than the limit. *)
\* Does not hold (README, known deviations).
DirtyBounded == Cardinality({k \in DOMAIN drafts : Unsettled(drafts[k])}) <= MaxDirty

(* At the limit of dirty drafts the user can discard one: a draft of this  *)
(* connection is left, which the list of recovery drafts needs.            *)
\* Does not hold (README, known deviations).
DirtyLimitEscapable ==
    Cardinality({k \in DOMAIN drafts : Unsettled(drafts[k])}) >= MaxDirty /\ up
        => \E k \in DOMAIN drafts : k.g = gen
=============================================================================
