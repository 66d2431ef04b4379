------------------------ MODULE ConflictResolverProofs ------------------------
(***************************************************************************)
(* What the conflict resolver guarantees for every set of conflicts, every *)
(* number of versions, connections, attempts and outside changes and every *)
(* budget.                                                                 *)
(*                                                                         *)
(* The operations on one draft are treated first (Sound is what each of    *)
(* them keeps); the actions then change drafts only through them.          *)
(***************************************************************************)
EXTENDS ConflictResolver, TLAPS

(***************************************************************************)
(* The strengthening, for one draft.  A draft that is not dirty holds its  *)
(* baseline, which is what makes it safe to evict; the baseline of an      *)
(* applied draft is the text that was sent; text that was imported waits   *)
(* for its review.                                                         *)
(***************************************************************************)
Sound(d) ==
    /\ d.spent /\ d.attempt = 0 => d.isApplied \/ d.rec
    /\ d.attempt # 0 => d.spent
    /\ d.rec => d.recText = d.text
    /\ d.isApplied => d.applied # 0
    /\ d.isApplied /\ ~d.rec => d.text = d.applied
    /\ ~d.dirty => d.text = Baseline(d)
    /\ d.origin = "imported" => d.review

Good(d) == d \in Draft /\ Sound(d)

\* The fields the invariants about the other variables look at are the same.
SameUse(e, d) == e.attempt = d.attempt /\ e.origin = d.origin /\ e.review = d.review

-----------------------------------------------------------------------------
(***************************************************************************)
(* The operations on a draft                                               *)
(***************************************************************************)
\* A draft is a record of its fields.
LEMMA DraftFields ==
    ASSUME NEW d \in Draft
    PROVE  /\ d.text \in Texts /\ d.text \in 0 .. MaxText /\ d.text # 0 /\ d.applied \in 0 .. MaxText
           /\ d.past \in Seq(Entries) /\ d.future \in Seq(Entries)
           /\ d.decided \in BOOLEAN /\ d.dirty \in BOOLEAN /\ d.isApplied \in BOOLEAN
           /\ d.rec \in BOOLEAN /\ d.recText \in 0 .. MaxText /\ d.review \in BOOLEAN
           /\ d.coalesce \in BOOLEAN /\ d.skew \in -MaxSkew .. MaxSkew
           /\ d.attempt \in 0 .. MaxAttempts /\ d.spent \in BOOLEAN
           /\ d.origin \in {"own", "imported", "reviewed"}
           /\ MaxText \in Nat /\ MaxText > 0 /\ MaxSkew \in Nat /\ MaxAttempts \in Nat
BY DraftAssumption DEF Draft, Texts

\* A fresh draft.
LEMMA NewDraftGood == Good(NewDraft) /\ NewDraft.attempt = 0
BY DraftAssumption DEF Good, Sound, NewDraft, Draft, InitialText, Baseline, Texts

\* `markAsRecovery` keeps the text that is there.
LEMMA RecoveredFields ==
    ASSUME NEW d \in Draft
    PROVE  LET e == Recovered(d)
           IN  /\ e \in Draft
               /\ e.rec /\ e.recText = d.text /\ e.text = d.text
               /\ e.attempt = d.attempt /\ e.isApplied = d.isApplied /\ e.applied = d.applied
               /\ e.dirty = d.dirty /\ e.origin = d.origin /\ e.review = d.review /\ e.spent = d.spent
<1>1. d.text \in 0 .. MaxText
  BY DraftFields
<1> QED
  BY <1>1 DEF Recovered, Draft

\* A draft put back from the recovery store is well formed and marked as recovered.
LEMMA RecoveredGood ==
    ASSUME NEW d, Good(d)
    PROVE  Good(Recovered(d)) /\ SameUse(Recovered(d), d) /\ Recovered(d).rec
<1> DEFINE e == Recovered(d)
<1>1. /\ e \in Draft
      /\ e.rec /\ e.recText = d.text /\ e.text = d.text
      /\ e.attempt = d.attempt /\ e.isApplied = d.isApplied /\ e.applied = d.applied
      /\ e.dirty = d.dirty /\ e.origin = d.origin /\ e.review = d.review /\ e.spent = d.spent
  BY RecoveredFields DEF Good
<1> HIDE DEF e
<1>2. Good(e) /\ SameUse(e, d) /\ e.rec
  BY <1>1 DEF Good, Sound, SameUse, Baseline
<1> QED
  BY <1>2 DEF e

\* `cancelResolve` of a draft in recovery.
LEMMA CancelledGood ==
    ASSUME NEW d, Good(d), d.rec
    PROVE  Good(Cancelled(d)) /\ Cancelled(d).attempt = 0 /\ Cancelled(d).rec
<1> DEFINE e == Cancelled(d)
<1>0. d \in Draft /\ 0 \in 0 .. MaxAttempts
  BY DraftAssumption DEF Good
<1>1. /\ e \in Draft
      /\ e.rec = d.rec /\ e.recText = d.recText /\ e.text = d.text
      /\ e.attempt = 0 /\ e.isApplied = d.isApplied /\ e.applied = d.applied
      /\ e.dirty = d.dirty /\ e.origin = d.origin /\ e.review = d.review /\ e.spent = d.spent
  BY <1>0 DEF Cancelled, Draft
<1> HIDE DEF e
<1>2. Good(e) /\ e.attempt = 0 /\ e.rec
  BY <1>1 DEF Good, Sound, Baseline
<1> QED
  BY <1>2 DEF e

\* A draft of a connection that is gone.
LEMMA RetiredGood ==
    ASSUME NEW d, Good(d)
    PROVE  LET e == Cancelled(Recovered(d)) IN Good(e) /\ e.attempt = 0 /\ e.rec
<1>1. Good(Recovered(d)) /\ Recovered(d).rec
  BY RecoveredGood
<1> QED
  BY <1>1, CancelledGood

\* An attempt begins.
LEMMA StartedGood ==
    ASSUME NEW d, Good(d), CanStart(d), NEW id \in 1 .. MaxAttempts
    PROVE  Good(Started(d, id)) /\ Started(d, id).attempt = id /\ ~Started(d, id).rec /\ d.origin # "imported"
<1> DEFINE e == Started(d, id)
<1>0. d \in Draft /\ id \in 0 .. MaxAttempts /\ id # 0
  BY DraftAssumption DEF Good
<1>1. /\ e \in Draft
      /\ e.rec = d.rec /\ e.recText = d.recText /\ e.text = d.text
      /\ e.attempt = id /\ e.isApplied = d.isApplied /\ e.applied = d.applied
      /\ e.dirty = d.dirty /\ e.origin = d.origin /\ e.review = d.review /\ e.spent
  BY <1>0 DEF Started, Draft
<1> HIDE DEF e
<1>2. Good(e) /\ e.attempt = id /\ ~e.rec /\ d.origin # "imported"
  BY <1>0, <1>1 DEF Good, Sound, Baseline, CanStart
<1> QED
  BY <1>2 DEF e

\* An answer completes the attempt.
LEMMA CompletedGood ==
    ASSUME NEW d, Good(d), NEW sent \in 0 .. MaxText
    PROVE  /\ Good(CompletedApplied(d, sent)) /\ CompletedApplied(d, sent).attempt = 0
           /\ Good(CompletedRefused(d)) /\ CompletedRefused(d).attempt = 0
<1> DEFINE t == IF sent = 0 THEN d.text ELSE sent
           c == [d EXCEPT !.attempt = 0, !.coalesce = FALSE,
                          !.applied = t, !.isApplied = TRUE, !.dirty = d.text # t]
           f == [d EXCEPT !.attempt = 0, !.coalesce = FALSE, !.isApplied = FALSE]
<1>0. d \in Draft /\ Sound(d) /\ MaxText \in Nat /\ 0 \in 0 .. MaxAttempts
  BY DraftAssumption DEF Good
<1>1. t \in Texts /\ t \in 0 .. MaxText /\ t # 0
  BY <1>0, DraftFields DEF Texts
<1>2. c \in Draft
  BY <1>0, <1>1 DEF Draft
<1>3. /\ c.attempt = 0 /\ c.applied = t /\ c.isApplied /\ c.dirty = (d.text # t) /\ c.text = d.text
      /\ c.rec = d.rec /\ c.recText = d.recText /\ c.origin = d.origin /\ c.review = d.review
  BY <1>0 DEF Draft
<1>4. c.dirty => Good(Recovered(c)) /\ Recovered(c).attempt = 0
  <2> HIDE DEF c, t
  <2>1. Recovered(c) \in Draft
    BY <1>2, RecoveredFields
  <2>2. /\ Recovered(c).rec /\ Recovered(c).recText = c.text /\ Recovered(c).text = c.text
        /\ Recovered(c).attempt = c.attempt /\ Recovered(c).isApplied = c.isApplied /\ Recovered(c).applied = c.applied
        /\ Recovered(c).dirty = c.dirty /\ Recovered(c).origin = c.origin /\ Recovered(c).review = c.review
    BY <1>2, RecoveredFields
  <2> QED
    BY <1>0, <1>1, <1>3, <2>1, <2>2 DEF Good, Sound
<1>5. ~c.dirty => Good(c)
  <2> HIDE DEF c, t
  <2> QED
    BY <1>0, <1>1, <1>2, <1>3 DEF Good, Sound, Baseline
<1>6. CompletedApplied(d, sent) = IF c.dirty THEN Recovered(c) ELSE c
  BY DEF CompletedApplied
<1>7. f \in Draft /\ f.text = d.text /\ f.attempt = 0 /\ ~f.isApplied /\ f.dirty = d.dirty
      /\ f.applied = d.applied /\ f.origin = d.origin /\ f.review = d.review
  BY <1>0 DEF Draft
<1>8. Good(Recovered(f)) /\ Recovered(f).attempt = 0
  <2> HIDE DEF f
  <2>1. Recovered(f) \in Draft
    BY <1>7, RecoveredFields
  <2>2. /\ Recovered(f).rec /\ Recovered(f).recText = f.text /\ Recovered(f).text = f.text
        /\ Recovered(f).attempt = f.attempt /\ Recovered(f).isApplied = f.isApplied /\ Recovered(f).applied = f.applied
        /\ Recovered(f).dirty = f.dirty /\ Recovered(f).origin = f.origin /\ Recovered(f).review = f.review
    BY <1>7, RecoveredFields
  <2> QED
    BY <1>0, <1>7, <2>1, <2>2 DEF Good, Sound, Baseline
<1> QED
  BY <1>3, <1>4, <1>5, <1>6, <1>8 DEF CompletedRefused

\* What an edit may leave open, until the recovery text is taken.
Nearly(d) ==
    /\ d.spent /\ d.attempt = 0 => d.isApplied \/ d.rec
    /\ d.attempt # 0 => d.spent
    /\ d.isApplied => d.applied # 0
    /\ ~d.dirty => d.text = Baseline(d)
    /\ d.origin = "imported" => d.review

\* `retainRecoveryResult` closes it.
LEMMA RetainGood ==
    ASSUME NEW d \in Draft, Nearly(d)
    PROVE  LET e == RetainRecoveryResult(d)
           IN  /\ Good(e) /\ SameUse(e, d) /\ (d.rec => e.rec)
               /\ e.isApplied = d.isApplied /\ e.spent = d.spent
               /\ ~d.isApplied /\ ~d.rec => ~e.rec
<1> DEFINE r == d.rec \/ (d.isApplied /\ d.dirty)
           e == [d EXCEPT !.rec = r, !.recText = IF r THEN d.text ELSE @]
<1>0. d.rec \in BOOLEAN /\ d.isApplied \in BOOLEAN /\ d.dirty \in BOOLEAN
      /\ d.text \in 0 .. MaxText /\ d.recText \in 0 .. MaxText
  BY DraftFields
<1>1. r \in BOOLEAN /\ (IF r THEN d.text ELSE d.recText) \in 0 .. MaxText
  BY <1>0
<1>2. e = RetainRecoveryResult(d)
  BY DEF RetainRecoveryResult
<1>3. /\ e \in Draft
      /\ e.rec = r /\ e.recText = (IF r THEN d.text ELSE d.recText) /\ e.text = d.text
      /\ e.attempt = d.attempt /\ e.isApplied = d.isApplied /\ e.applied = d.applied
      /\ e.dirty = d.dirty /\ e.origin = d.origin /\ e.review = d.review /\ e.spent = d.spent
  <2> HIDE DEF r
  <2> QED
    BY <1>1 DEF Draft
<1> HIDE DEF e
<1>4. /\ Good(e) /\ SameUse(e, d) /\ (d.rec => e.rec)
      /\ e.isApplied = d.isApplied /\ e.spent = d.spent
      /\ ~d.isApplied /\ ~d.rec => ~e.rec
  BY <1>3 DEF Good, Sound, Nearly, SameUse, Baseline
<1> QED
  BY <1>2, <1>4

\* The history grows by the entry of the draft as it is.
LEMMA History ==
    ASSUME NEW d \in Draft
    PROVE  /\ Append(d.past, Entry(d)) \in Seq(Entries) /\ Append(d.future, Entry(d)) \in Seq(Entries)
           /\ d.past # <<>> => Front(d.past) \in Seq(Entries) /\ Last(d.past) \in Entries
           /\ d.future # <<>> => Front(d.future) \in Seq(Entries) /\ Last(d.future) \in Entries
           /\ <<>> \in Seq(Entries)
<1>1. d.past \in Seq(Entries) /\ d.future \in Seq(Entries) /\ Entry(d) \in Entries
  BY DraftFields DEF Entry, Entries
<1>2. ASSUME NEW s \in Seq(Entries), s # <<>>
      PROVE  Front(s) \in Seq(Entries) /\ Last(s) \in Entries
  BY <1>2 DEF Front, Last
<1> QED
  BY <1>1, <1>2

\* `applyDraftUpdate`.
LEMMA EditedGood ==
    ASSUME NEW d, Good(d), NEW t \in Texts, NEW joined, NEW decided \in BOOLEAN
    PROVE  LET e == Edited(d, t, joined, decided)
           IN  /\ Good(e) /\ SameUse(e, d) /\ (d.rec => e.rec)
               /\ e.isApplied = d.isApplied /\ e.spent = d.spent
               /\ ~d.isApplied /\ ~d.rec => ~e.rec
<1> DEFINE past == IF joined THEN d.past ELSE Append(d.past, Entry(d))
           dirty == t # Baseline(d)
           c == [d EXCEPT !.past = past, !.future = <<>>, !.coalesce = ~d.isApplied,
                          !.text = t, !.dirty = dirty, !.decided = decided]
<1>0. d \in Draft
  BY DEF Good
<1>1. past \in Seq(Entries) /\ <<>> \in Seq(Entries) /\ dirty \in BOOLEAN /\ (~d.isApplied) \in BOOLEAN
  BY <1>0, DraftFields, History
<1>2. Edited(d, t, joined, decided) = RetainRecoveryResult(c)
  BY <1>0 DEF Edited, Draft
<1>3. /\ c \in Draft
      /\ c.rec = d.rec /\ c.text = t /\ c.dirty = dirty
      /\ c.attempt = d.attempt /\ c.isApplied = d.isApplied /\ c.applied = d.applied
      /\ c.origin = d.origin /\ c.review = d.review /\ c.spent = d.spent
  <2> HIDE DEF past, dirty
  <2> QED
    BY <1>0, <1>1, ZenonT(60) DEF Draft
<1> HIDE DEF c
<1>4. Nearly(c)
  BY <1>3 DEF Good, Sound, Nearly, Baseline
<1> QED
  BY <1>2, <1>3, <1>4, RetainGood DEF SameUse

\* `applyDraftUndo` and `applyDraftRedo`, once the history is moved.
LEMMA RestoredGood ==
    ASSUME NEW d \in Draft, NEW past \in Seq(Entries), NEW future \in Seq(Entries),
           NEW e \in Entries, Sound(d),
           NEW x, x = Restored([d EXCEPT !.past = past, !.future = future], e), InSkew(x)
    PROVE  Good(x) /\ SameUse(x, d) /\ (d.rec => x.rec)
<1> DEFINE b == [d EXCEPT !.past = past, !.future = future]
           skew == IF e.text = b.text THEN b.skew + 1 ELSE b.skew
           dirty == e.text # Baseline(b) \/ e.decided
           c == [b EXCEPT !.text = e.text, !.decided = e.decided, !.coalesce = FALSE,
                          !.skew = skew, !.dirty = dirty]
           r == c.rec \/ (c.isApplied /\ c.dirty)
<1>0. e.text \in Texts /\ e.decided \in BOOLEAN
  BY DEF Entries
<1>1. /\ b \in Draft
      /\ b.rec = d.rec /\ b.attempt = d.attempt /\ b.isApplied = d.isApplied /\ b.applied = d.applied
      /\ b.origin = d.origin /\ b.review = d.review /\ b.spent = d.spent /\ b.skew = d.skew /\ b.text = d.text
  BY DEF Draft
<1>2. x = RetainRecoveryResult(c)
  <2>1. x = Restored(b, e)
    OBVIOUS
  <2> HIDE DEF b
  <2> QED
    BY <1>1, <2>1 DEF Restored, Draft
<1>3. x.skew = skew
  <2> HIDE DEF b, skew, dirty
  <2>1. c.skew = skew
    BY <1>1 DEF Draft
  <2> HIDE DEF c
  <2>2. [c EXCEPT !.rec = r, !.recText = IF r THEN c.text ELSE @].skew = c.skew
    OBVIOUS
  <2> QED
    BY <1>2, <2>1, <2>2 DEF RetainRecoveryResult
<1>4. skew \in -MaxSkew .. MaxSkew
  BY <1>3 DEF InSkew
<1>5. /\ c \in Draft
      /\ c.rec = b.rec /\ c.text = e.text /\ c.dirty = dirty
      /\ c.attempt = b.attempt /\ c.isApplied = b.isApplied /\ c.applied = b.applied
      /\ c.origin = b.origin /\ c.review = b.review /\ c.spent = b.spent
  <2> dirty \in BOOLEAN
    OBVIOUS
  <2> HIDE DEF b, skew, dirty
  <2> QED
    BY <1>0, <1>1, <1>4, ZenonT(60) DEF Draft
<1> HIDE DEF c, b
<1>6. Nearly(c)
  BY <1>1, <1>5 DEF Sound, Nearly, Baseline
<1> QED
  BY <1>1, <1>2, <1>5, <1>6, RetainGood DEF SameUse

\* Undo keeps a draft well formed.
LEMMA UndoneGood ==
    ASSUME NEW d, Good(d), d.past # <<>>, InSkew(Undone(d))
    PROVE  Good(Undone(d)) /\ SameUse(Undone(d), d) /\ (d.rec => Undone(d).rec)
<1>1. d \in Draft /\ Sound(d)
  BY DEF Good
<1>2. Front(d.past) \in Seq(Entries) /\ Last(d.past) \in Entries /\ Append(d.future, Entry(d)) \in Seq(Entries)
  BY <1>1, History
<1>3. Undone(d) = Restored([d EXCEPT !.past = Front(d.past), !.future = Append(d.future, Entry(d))], Last(d.past))
  BY <1>1 DEF Undone, Draft
<1> QED
  BY <1>1, <1>2, <1>3, RestoredGood

\* Redo keeps a draft well formed.
LEMMA RedoneGood ==
    ASSUME NEW d, Good(d), d.future # <<>>, InSkew(Redone(d))
    PROVE  Good(Redone(d)) /\ SameUse(Redone(d), d) /\ (d.rec => Redone(d).rec)
<1>1. d \in Draft /\ Sound(d)
  BY DEF Good
<1>2. Front(d.future) \in Seq(Entries) /\ Last(d.future) \in Entries /\ Append(d.past, Entry(d)) \in Seq(Entries)
  BY <1>1, History
<1>3. Redone(d) = Restored([d EXCEPT !.past = Append(d.past, Entry(d)), !.future = Front(d.future)], Last(d.future))
  BY <1>1 DEF Redone, Draft
<1> QED
  BY <1>1, <1>2, <1>3, RestoredGood

\* A region decision without a new text.
LEMMA NotedGood ==
    ASSUME NEW d, Good(d), NEW skew \in -MaxSkew .. MaxSkew
    PROVE  Good(Noted(d, skew)) /\ SameUse(Noted(d, skew), d) /\ Noted(d, skew).rec = d.rec
<1> DEFINE e == Noted(d, skew)
<1>0. d \in Draft /\ Append(d.past, Entry(d)) \in Seq(Entries) /\ <<>> \in Seq(Entries)
  BY History DEF Good
<1>1. /\ e \in Draft
      /\ e.rec = d.rec /\ e.recText = d.recText /\ e.text = d.text
      /\ e.attempt = d.attempt /\ e.isApplied = d.isApplied /\ e.applied = d.applied
      /\ e.dirty /\ e.origin = d.origin /\ e.review = d.review /\ e.spent = d.spent
  BY <1>0 DEF Noted, Draft
<1> HIDE DEF e
<1>2. Good(e) /\ SameUse(e, d) /\ e.rec = d.rec
  BY <1>1 DEF Good, Sound, SameUse
<1> QED
  BY <1>2 DEF e

\* A decision keeps a draft well formed and does not touch its recovery mark.
LEMMA DecidedGood ==
    ASSUME NEW d, Good(d), InSkew(Decided(d))
    PROVE  Good(Decided(d)) /\ SameUse(Decided(d), d) /\ Decided(d).rec = d.rec
<1>1. Decided(d).skew = d.skew - 1
  BY DEF Decided, Noted, Good, Draft
<1> QED
  BY <1>1, NotedGood DEF InSkew, Decided

\* An accepted side.
LEMMA AcceptedGood ==
    ASSUME NEW d, Good(d), MayModify(d), NEW t \in Texts
    PROVE  Good(Accepted(d, t)) /\ SameUse(Accepted(d, t), d)
<1> DEFINE e == Edited(d, t, FALSE, TRUE)
           x == [e EXCEPT !.coalesce = FALSE]
<1>1. Good(e) /\ SameUse(e, d)
  BY EditedGood
<1>2. d.skew \in -MaxSkew .. MaxSkew
  BY DraftFields DEF Good
<1>3. Good(Noted(d, d.skew)) /\ SameUse(Noted(d, d.skew), d)
  BY <1>2, NotedGood
<1>4. Accepted(d, t) = IF t = d.text THEN Noted(d, d.skew) ELSE x
  BY DEF Accepted
<1> HIDE DEF e
<1>5. /\ x \in Draft
      /\ x.rec = e.rec /\ x.recText = e.recText /\ x.text = e.text
      /\ x.attempt = e.attempt /\ x.isApplied = e.isApplied /\ x.applied = e.applied
      /\ x.dirty = e.dirty /\ x.origin = e.origin /\ x.review = e.review /\ x.spent = e.spent
  BY <1>1 DEF Good, Draft
<1> HIDE DEF x
<1>6. Good(x) /\ SameUse(x, d)
  BY <1>1, <1>5 DEF Good, Sound, SameUse, Baseline
<1> QED
  BY <1>3, <1>4, <1>6

\* An import into an untouched draft.
LEMMA ImportedGood ==
    ASSUME NEW d, Good(d), MayModify(d), NEW t \in Texts
    PROVE  Good(Imported(d, t)) /\ Imported(d, t).attempt = d.attempt
<1> DEFINE e == IF t = d.text THEN d ELSE Edited(d, t, FALSE, FALSE)
           x == [e EXCEPT !.review = TRUE, !.isApplied = FALSE, !.coalesce = FALSE, !.origin = "imported"]
<1>1. Good(e) /\ SameUse(e, d) /\ ~e.isApplied /\ e.spent = d.spent /\ ~e.rec
  <2>1. LET f == Edited(d, t, FALSE, FALSE)
        IN  /\ Good(f) /\ SameUse(f, d)
            /\ f.isApplied = d.isApplied /\ f.spent = d.spent /\ ~f.rec
    BY EditedGood DEF MayModify
  <2> QED
    BY <2>1 DEF SameUse, MayModify
<1>4. Imported(d, t) = x
  BY DEF Imported
<1> HIDE DEF e
<1>5. /\ x \in Draft
      /\ x.rec = e.rec /\ x.recText = e.recText /\ x.text = e.text
      /\ x.attempt = e.attempt /\ ~x.isApplied /\ x.applied = e.applied
      /\ x.dirty = e.dirty /\ x.review /\ x.spent = e.spent
  BY <1>1 DEF Good, Draft
<1> HIDE DEF x
<1>6. Good(x) /\ x.attempt = d.attempt
  BY <1>1, <1>5 DEF Good, Sound, SameUse, Baseline, MayModify
<1> QED
  BY <1>4, <1>6

\* A confirmed review.
LEMMA ReviewedGood ==
    ASSUME NEW d, Good(d), ~d.rec
    PROVE  Good(Reviewed(d)) /\ Reviewed(d).attempt = d.attempt
<1> DEFINE x == Reviewed(d)
<1>0. d \in Draft /\ 0 \in 0 .. MaxText
  BY DraftAssumption DEF Good
<1>1. /\ x \in Draft
      /\ x.rec = d.rec /\ x.text = d.text
      /\ x.attempt = d.attempt /\ x.isApplied = d.isApplied /\ x.applied = d.applied
      /\ x.dirty = d.dirty /\ x.origin = "reviewed" /\ x.spent = d.spent
  BY <1>0 DEF Reviewed, Draft
<1> HIDE DEF x
<1>2. Good(x) /\ x.attempt = d.attempt
  BY <1>1 DEF Good, Sound, Baseline
<1> QED
  BY <1>2 DEF x

-----------------------------------------------------------------------------
(***************************************************************************)
(* The inductive invariant: TypeOK in two parts, with every draft sound,   *)
(* and what relates the drafts to the requests and the connection          *)
(***************************************************************************)
Shelf ==
    /\ DOMAIN drafts \subseteq Keys
    /\ drafts = [k \in DOMAIN drafts |-> drafts[k]]
    /\ \A k \in DOMAIN drafts : Good(drafts[k])
    /\ Ordered(order, DOMAIN drafts)
    /\ active \in DOMAIN drafts \union {NoKey}

Requests ==
    [k : Keys, id : 1 .. MaxAttempts, text : 0 .. MaxText, waiting : BOOLEAN,
     out : {"none", "applied", "refused"}, origin : {"own", "imported", "reviewed"}]

Loads ==
    [c : Conflicts \union {NoConflict}, g : 0 .. MaxGen, ver : 0 .. MaxVersion,
     want : Wants, src : Keys \union {NoKey}]

Desk ==
    /\ key \in Keys \union {NoKey}
    /\ sel \in Conflicts \union {NoConflict}
    /\ cache \in [Conflicts -> 0 .. MaxVersion] /\ sv \in [Conflicts -> 0 .. MaxVersion]
    /\ gen \in 1 .. MaxGen /\ up \in BOOLEAN
    /\ load \in Loads
    /\ inv \in [g : 0 .. MaxGen, missing : SUBSET Conflicts]
    /\ net \subseteq Requests
    /\ attempts \in 0 .. MaxAttempts /\ outside \in 0 .. MaxOutside

Inv == Shelf /\ Desk /\ ResolvingIsLive /\ RetiredIsRecovery /\ UnreviewedNeverSent

\* The invariant implies what the runs check.
LEMMA InvImplies == Inv => ApplyIsSafe /\ RecoveryKeepsText
<1> SUFFICES ASSUME Inv PROVE ApplyIsSafe /\ RecoveryKeepsText
  OBVIOUS
<1>1. drafts \in [DOMAIN drafts -> Draft]
  BY DEF Inv, Shelf, Good
<1>2. TypeOK
  BY <1>1 DEF Inv, Shelf, Desk, TypeOK, Requests, Loads
<1>3. AttemptSpent /\ AppliedMeansSent /\ RecoveryKeepsText
  BY DEF Inv, Shelf, Good, Sound, AttemptSpent, AppliedMeansSent, RecoveryKeepsText
<1> QED
  BY <1>2, <1>3 DEF Inv, ApplyIsSafe

\* The invariant holds initially.
LEMMA InitInv == Init => Inv
<1> SUFFICES ASSUME Init PROVE Inv
  OBVIOUS
<1>1. DOMAIN drafts = {} /\ drafts = [k \in DOMAIN drafts |-> drafts[k]]
  BY DEF Init
<1>2. Shelf
  BY <1>1 DEF Init, Shelf, Ordered
<1>3. Desk
  BY ResolverAssumption, DraftAssumption DEF Init, Desk, NoLoad, NoInv, Loads, Wants
<1>4. ResolvingIsLive /\ RetiredIsRecovery /\ UnreviewedNeverSent
  BY <1>1 DEF Init, ResolvingIsLive, RetiredIsRecovery, UnreviewedNeverSent
<1> QED
  BY <1>2, <1>3, <1>4 DEF Inv

-----------------------------------------------------------------------------
(***************************************************************************)
(* What a step has to keep                                                 *)
(***************************************************************************)
\* The drafts change in place.
LEMMA ShelfKept ==
    ASSUME Shelf, order' = order, active' = active,
           DOMAIN drafts' = DOMAIN drafts, drafts' = [k \in DOMAIN drafts' |-> drafts'[k]],
           \A k \in DOMAIN drafts : Good(drafts'[k])
    PROVE  Shelf'
BY DEF Shelf

\* No attempt begins and no request changes.
LEMMA LiveKept ==
    ASSUME ResolvingIsLive, net' = net,
           \A k \in DOMAIN drafts' : drafts'[k].attempt # 0 =>
               k \in DOMAIN drafts /\ drafts'[k].attempt = drafts[k].attempt
    PROVE  ResolvingIsLive'
BY DEF ResolvingIsLive

\* A retired draft stays what it is.
LEMMA RetiredKept ==
    ASSUME RetiredIsRecovery, sel' = sel, gen' = gen,
           \A k \in DOMAIN drafts' : k.g # gen =>
               /\ k \in DOMAIN drafts
               /\ drafts[k].rec /\ drafts[k].attempt = 0 => drafts'[k].rec /\ drafts'[k].attempt = 0
    PROVE  RetiredIsRecovery'
BY DEF RetiredIsRecovery

\* One draft is replaced by an edited one.
LEMMA EditKept ==
    ASSUME Inv, key \in DOMAIN drafts, NEW d, Edit(d),
           Good(d), SameUse(d, drafts[key]), drafts[key].rec => d.rec
    PROVE  Inv' /\ DOMAIN drafts' = DOMAIN drafts
<1>1. /\ DOMAIN drafts' = DOMAIN drafts /\ drafts' = [k \in DOMAIN drafts' |-> drafts'[k]]
      /\ drafts'[key] = d /\ \A k \in DOMAIN drafts : k # key => drafts'[k] = drafts[k]
  BY DEF Inv, Shelf, Edit, Put
<1>2. UNCHANGED <<order, active, key, sel, cache, gen, up, load, inv, net, attempts, sv, outside>>
  BY DEF Edit
<1>3. Shelf'
  BY <1>1, <1>2, ShelfKept DEF Inv, Shelf
<1>4. ResolvingIsLive'
  BY <1>1, <1>2, LiveKept DEF Inv, SameUse
<1>5. RetiredIsRecovery'
  BY <1>1, <1>2, RetiredKept DEF Inv, SameUse
<1>6. Desk' /\ UnreviewedNeverSent'
  BY <1>2 DEF Inv, Desk, UnreviewedNeverSent
<1> QED
  BY <1>1, <1>3, <1>4, <1>5, <1>6 DEF Inv

\* The actions of the result editor.
LEMMA EditsKeep ==
    ASSUME Inv,
           \/ \E t \in Texts, joined, decided \in BOOLEAN : Type(t, joined, decided)
           \/ Undo \/ Redo \/ MarkReviewed
           \/ \E t \in Texts : Accept(t)
    PROVE  Inv' /\ DOMAIN drafts' = DOMAIN drafts
<1>0. \A k \in DOMAIN drafts : Good(drafts[k])
  BY DEF Inv, Shelf
<1>1. ASSUME NEW t \in Texts, NEW joined \in BOOLEAN, NEW decided \in BOOLEAN, Type(t, joined, decided)
      PROVE  Inv' /\ DOMAIN drafts' = DOMAIN drafts
  <2> DEFINE d == Edited(drafts[key], t, joined, decided)
  <2>1. key \in DOMAIN drafts /\ Edit(d)
    BY <1>1 DEF Type, CanEdit
  <2>2. Good(d) /\ SameUse(d, drafts[key]) /\ (drafts[key].rec => d.rec)
    BY <1>0, <2>1, EditedGood
  <2> HIDE DEF d
  <2> QED
    BY <2>1, <2>2, EditKept
<1>2. CASE Undo
  <2>1. key \in DOMAIN drafts /\ Edit(Undone(drafts[key])) /\ drafts[key].past # <<>> /\ InSkew(Undone(drafts[key]))
    BY <1>2 DEF Undo
  <2> QED
    BY <1>0, <2>1, UndoneGood, EditKept
<1>3. CASE Redo
  <2>1. key \in DOMAIN drafts /\ Edit(Redone(drafts[key])) /\ drafts[key].future # <<>> /\ InSkew(Redone(drafts[key]))
    BY <1>3 DEF Redo
  <2> QED
    BY <1>0, <2>1, RedoneGood, EditKept
<1>4. CASE MarkReviewed
  <2>1. key \in DOMAIN drafts /\ Edit(Decided(drafts[key])) /\ InSkew(Decided(drafts[key]))
    BY <1>4 DEF MarkReviewed, CanEdit
  <2> QED
    BY <1>0, <2>1, DecidedGood, EditKept
<1>5. ASSUME NEW t \in Texts, Accept(t)
      PROVE  Inv' /\ DOMAIN drafts' = DOMAIN drafts
  <2>1. key \in DOMAIN drafts /\ Edit(Accepted(drafts[key], t)) /\ MayModify(drafts[key]) /\ ~drafts[key].rec
    BY <1>5 DEF Accept, CanEdit, MayModify
  <2> QED
    BY <1>0, <2>1, AcceptedGood, EditKept
<1> QED
  BY <1>1, <1>2, <1>3, <1>4, <1>5

-----------------------------------------------------------------------------
(***************************************************************************)
(* The panel, the reads and the connection                                 *)
(***************************************************************************)
\* A key that is shown names a draft of this connection.
LEMMA ShownIsKey ==
    ASSUME Inv, Shown # NoKey
    PROVE  Shown \in Keys
<1>1. (key \in DOMAIN drafts => key \in Keys) /\ active \in Keys \union {NoKey}
  BY DEF Inv, Shelf
<1> QED
  BY <1>1 DEF Shown

\* The steps that touch neither drafts nor requests.
LEMMA ReadsKeep ==
    ASSUME Inv,
           \/ Close \/ Refetch \/ LoadOpen \/ ReviewBegin
           \/ \E k \in DOMAIN drafts : ImportBegin(k)
           \/ LoadFetched \/ LoadFail \/ RefreshRead \/ Connect
           \/ \E c \in Conflicts, v \in 0 .. MaxVersion : Outside(c, v)
    PROVE  Inv' /\ DOMAIN drafts' = DOMAIN drafts
<1>1. UNCHANGED <<drafts, order, active, net, gen, attempts>> /\ sel' \in {sel, NoConflict}
  BY DEF Close, Refetch, LoadOpen, ReviewBegin, ImportBegin, Begin, LoadFetched, LoadFail, RefreshRead, Connect,
         Outside, client
<1>2. Shelf' /\ ResolvingIsLive' /\ RetiredIsRecovery' /\ UnreviewedNeverSent'
  BY <1>1 DEF Inv, Shelf, ResolvingIsLive, RetiredIsRecovery, UnreviewedNeverSent
<1> SUFFICES Desk'
  BY <1>1, <1>2 DEF Inv
<1>3. NoLoad \in Loads /\ NoKey \in Keys \union {NoKey} /\ 0 \in 0 .. MaxVersion
  BY ResolverAssumption DEF NoLoad, Loads, Wants
<1>4. gen \in 0 .. MaxGen /\ gen \in 1 .. MaxGen
  BY ResolverAssumption DEF Inv, Desk
<1>5. ASSUME NEW ver \in 0 .. MaxVersion, NEW want \in Wants, NEW src \in Keys \union {NoKey},
             Begin(ver, want, src)
      PROVE  Desk'
  BY <1>4, <1>5 DEF Inv, Desk, Begin, Loads
<1>6. CASE Close
  BY <1>3, <1>6 DEF Inv, Desk, Close
<1>7. CASE Refetch
  <2>1. sel \in Conflicts /\ sv[sel] \in 0 .. MaxVersion
    BY <1>7 DEF Inv, Desk, Refetch
  <2>2. cache' \in [Conflicts -> 0 .. MaxVersion] /\ load' \in Loads
    BY <1>4, <1>7, <2>1 DEF Inv, Desk, Refetch, Loads, Wants
  <2> QED
    BY <1>7, <2>2 DEF Inv, Desk, Refetch
<1>8. CASE LoadOpen
  <2>1. cache[sel] \in 0 .. MaxVersion /\ "open" \in Wants /\ Begin(cache[sel], "open", NoKey)
    BY <1>8 DEF Inv, Desk, LoadOpen, Wants
  <2> QED
    BY <1>3, <1>5, <2>1
<1>9. CASE ReviewBegin
  <2>1. key \in Keys /\ "review" \in Wants /\ Begin(0, "review", key)
    BY <1>9, ShownIsKey DEF ReviewBegin, Wants
  <2> QED
    BY <1>3, <1>5, <2>1
<1>10. ASSUME NEW k \in DOMAIN drafts, ImportBegin(k) PROVE Desk'
  <2>1. k \in Keys /\ "import" \in Wants /\ Begin(0, "import", k)
    BY <1>10 DEF Inv, Shelf, ImportBegin, Wants
  <2> QED
    BY <1>3, <1>5, <2>1
<1>11. CASE LoadFetched
  <2>1. load.c \in Conflicts /\ sv[load.c] \in 0 .. MaxVersion
    BY <1>11 DEF Inv, Desk, LoadFetched, Loads
  <2>2. load' \in Loads
    BY <1>11, <2>1 DEF Inv, Desk, LoadFetched, Loads
  <2> QED
    BY <1>11, <2>2 DEF Inv, Desk, LoadFetched
<1>12. CASE LoadFail
  BY <1>3, <1>12 DEF Inv, Desk, LoadFail
<1>13. CASE RefreshRead
  BY <1>4, <1>13 DEF Inv, Desk, RefreshRead
<1>14. CASE Connect
  BY <1>14 DEF Inv, Desk, Connect
<1>15. ASSUME NEW c \in Conflicts, NEW v \in 0 .. MaxVersion, Outside(c, v) PROVE Desk'
  <2>1. outside' \in 0 .. MaxOutside
    BY <1>15, ResolverAssumption DEF Inv, Desk, Outside
  <2>2. sv' \in [Conflicts -> 0 .. MaxVersion]
    BY <1>15 DEF Inv, Desk, Outside
  <2> QED
    BY <1>15, <2>1, <2>2 DEF Inv, Desk, Outside, client
<1> QED
  BY <1>6, <1>7, <1>8, <1>9, <1>10, <1>11, <1>12, <1>13, <1>14, <1>15

\* Drafts are demoted and their attempts given up, some of them.
LEMMA Demoted ==
    ASSUME Shelf, ResolvingIsLive, NEW S, order' = order, active' = active, net' = net,
           drafts' = [k \in DOMAIN drafts |->
                        IF k \in S THEN Cancelled(Recovered(drafts[k])) ELSE drafts[k]]
    PROVE  /\ DOMAIN drafts' = DOMAIN drafts /\ Shelf' /\ ResolvingIsLive'
           /\ \A k \in DOMAIN drafts :
                /\ k \in S => drafts'[k].rec /\ drafts'[k].attempt = 0
                /\ k \notin S => drafts'[k] = drafts[k]
<1>1. /\ DOMAIN drafts' = DOMAIN drafts
      /\ \A k \in DOMAIN drafts :
           drafts'[k] = IF k \in S THEN Cancelled(Recovered(drafts[k])) ELSE drafts[k]
  OBVIOUS
<1>2. drafts' = [k \in DOMAIN drafts' |-> drafts'[k]]
  BY <1>1
<1>3. \A k \in DOMAIN drafts :
        LET e == Cancelled(Recovered(drafts[k])) IN Good(e) /\ e.attempt = 0 /\ e.rec
  BY RetiredGood DEF Shelf
<1>4. \A k \in DOMAIN drafts : Good(drafts'[k])
  BY <1>1, <1>3 DEF Shelf
<1>5. Shelf'
  BY <1>1, <1>2, <1>4, ShelfKept
<1>6. ResolvingIsLive'
  BY <1>1, <1>3, LiveKept
<1> QED
  BY <1>1, <1>3, <1>5, <1>6

\* Selecting a conflict keeps the invariant and evicts nothing.
LEMMA SelectKeeps ==
    ASSUME Inv, NEW c \in Conflicts, Select(c)
    PROVE  Inv' /\ DOMAIN drafts' = DOMAIN drafts
<1> DEFINE S == {k \in DOMAIN drafts : k.g # gen}
<1>1. drafts' = [k \in DOMAIN drafts |->
                   IF k \in S THEN Cancelled(Recovered(drafts[k])) ELSE drafts[k]]
  BY DEF Select, Retired
<1>2. UNCHANGED <<order, active, cache, gen, up, inv, net, attempts, sv, outside>>
      /\ sel' = c /\ key' = NoKey /\ load' = NoLoad
  BY DEF Select
<1>3. /\ DOMAIN drafts' = DOMAIN drafts /\ Shelf' /\ ResolvingIsLive'
      /\ \A k \in DOMAIN drafts : k \in S => drafts'[k].rec /\ drafts'[k].attempt = 0
  <2> HIDE DEF S
  <2> QED
    BY <1>1, <1>2, Demoted DEF Inv
<1>4. RetiredIsRecovery'
  BY <1>2, <1>3 DEF RetiredIsRecovery
<1>5. NoLoad \in Loads
  BY ResolverAssumption DEF NoLoad, Loads, Wants
<1>6. Desk' /\ UnreviewedNeverSent'
  BY <1>2, <1>5 DEF Inv, Desk, UnreviewedNeverSent
<1> QED
  BY <1>3, <1>4, <1>6 DEF Inv

\* So does the end of a refresh.
LEMMA RefreshDoneKeeps ==
    ASSUME Inv, RefreshDone
    PROVE  Inv' /\ DOMAIN drafts' = DOMAIN drafts
<1> DEFINE S == {k \in DOMAIN drafts : Current(inv.g) /\ k.g = inv.g /\ k.c \in inv.missing /\ Unsettled(drafts[k])}
<1>1. drafts' = [k \in DOMAIN drafts |->
                   IF k \in S THEN Cancelled(Recovered(drafts[k])) ELSE drafts[k]]
  BY DEF RefreshDone
<1>2. UNCHANGED <<order, active, key, sel, cache, gen, up, load, net, attempts, sv, outside>> /\ inv' = NoInv
  BY DEF RefreshDone
<1>3. /\ DOMAIN drafts' = DOMAIN drafts /\ Shelf' /\ ResolvingIsLive'
      /\ \A k \in DOMAIN drafts :
           /\ k \in S => drafts'[k].rec /\ drafts'[k].attempt = 0
           /\ k \notin S => drafts'[k] = drafts[k]
  <2> HIDE DEF S
  <2> QED
    BY <1>1, <1>2, Demoted DEF Inv
<1>4. RetiredIsRecovery'
  <2> HIDE DEF S
  <2> QED
    BY <1>2, <1>3, RetiredKept DEF Inv
<1>5. NoInv \in [g : 0 .. MaxGen, missing : SUBSET Conflicts]
  BY ResolverAssumption DEF NoInv
<1>6. Desk' /\ UnreviewedNeverSent'
  BY <1>2, <1>5 DEF Inv, Desk, UnreviewedNeverSent
<1> QED
  BY <1>3, <1>4, <1>6 DEF Inv

\* So does the drop of the connection.
LEMMA DropKeeps ==
    ASSUME Inv, Drop
    PROVE  Inv' /\ DOMAIN drafts' = DOMAIN drafts
<1> DEFINE S == {k \in DOMAIN drafts : k.g # gen' /\ sel # NoConflict}
<1>1. drafts' = [k \in DOMAIN drafts |->
                   IF k \in S THEN Cancelled(Recovered(drafts[k])) ELSE drafts[k]]
  <2>1. CASE sel = NoConflict
    BY <2>1 DEF Drop, Inv, Shelf
  <2>2. CASE sel # NoConflict
    BY <2>2 DEF Drop, Retired
  <2> QED
    BY <2>1, <2>2
<1>2. UNCHANGED <<order, active, key, sel, cache, load, inv, net, attempts, sv, outside>>
      /\ up' = FALSE /\ gen' = gen + 1 /\ gen < MaxGen
  BY DEF Drop
<1>3. /\ DOMAIN drafts' = DOMAIN drafts /\ Shelf' /\ ResolvingIsLive'
      /\ \A k \in DOMAIN drafts : k \in S => drafts'[k].rec /\ drafts'[k].attempt = 0
  <2> HIDE DEF S
  <2> QED
    BY <1>1, <1>2, Demoted DEF Inv
<1>4. RetiredIsRecovery'
  BY <1>2, <1>3 DEF RetiredIsRecovery
<1>5. gen' \in 1 .. MaxGen
  BY <1>2, ResolverAssumption DEF Inv, Desk
<1>6. Desk' /\ UnreviewedNeverSent'
  BY <1>2, <1>5 DEF Inv, Desk, UnreviewedNeverSent
<1> QED
  BY <1>3, <1>4, <1>6 DEF Inv

-----------------------------------------------------------------------------
(***************************************************************************)
(* Applying a draft                                                        *)
(***************************************************************************)
\* One draft is replaced.
LEMMA PutEffect ==
    ASSUME Shelf, NEW k \in DOMAIN drafts, NEW d, Put(k, d), Good(d), order' = order, active' = active
    PROVE  /\ Shelf' /\ DOMAIN drafts' = DOMAIN drafts /\ drafts'[k] = d
           /\ \A j \in DOMAIN drafts : j # k => drafts'[j] = drafts[j]
<1>1. /\ DOMAIN drafts' = DOMAIN drafts /\ drafts' = [j \in DOMAIN drafts' |-> drafts'[j]]
      /\ drafts'[k] = d /\ \A j \in DOMAIN drafts : j # k => drafts'[j] = drafts[j]
  BY DEF Shelf, Put
<1>2. \A j \in DOMAIN drafts : Good(drafts'[j])
  BY <1>1 DEF Shelf
<1> QED
  BY <1>1, <1>2, ShelfKept

\* So does sending an apply.
LEMMA ApplyKeeps ==
    ASSUME Inv, Apply
    PROVE  Inv' /\ DOMAIN drafts' = DOMAIN drafts
<1> DEFINE d == drafts[key]
           e == Started(d, attempts')
           r == [k |-> key, id |-> attempts', waiting |-> TRUE, out |-> "none",
                 text |-> IF sel \in SideOnly THEN 0 ELSE d.text, origin |-> d.origin]
<1>1. /\ key \in DOMAIN drafts /\ CanStart(d) /\ attempts < MaxAttempts /\ attempts' = attempts + 1
      /\ Put(key, e) /\ net' = net \union {r}
      /\ UNCHANGED <<order, active, key, sel, cache, gen, up, load, inv, sv, outside>>
  BY DEF Apply
<1>2. attempts' \in 1 .. MaxAttempts /\ attempts' \in 0 .. MaxAttempts
  BY <1>1, DraftAssumption DEF Inv, Desk
<1>3. Good(d) /\ key \in Keys
  BY <1>1 DEF Inv, Shelf
<1>4. Good(e) /\ e.attempt = attempts' /\ ~e.rec /\ d.origin # "imported" /\ ~d.rec
  BY <1>1, <1>2, <1>3, StartedGood DEF CanStart
<1>5. r \in Requests /\ r.k = key /\ r.id = attempts' /\ r.waiting /\ r.origin # "imported"
  <2>1. d.text \in 0 .. MaxText /\ 0 \in 0 .. MaxText /\ d.origin \in {"own", "imported", "reviewed"}
    BY <1>3, DraftFields, DraftAssumption DEF Good
  <2>2. (IF sel \in SideOnly THEN 0 ELSE d.text) \in 0 .. MaxText
    BY <2>1
  <2> HIDE DEF d
  <2> QED
    BY <1>2, <1>3, <1>4, <2>1, <2>2 DEF Requests
<1> HIDE DEF r, e
<1>6. /\ Shelf' /\ DOMAIN drafts' = DOMAIN drafts /\ drafts'[key] = e
      /\ \A j \in DOMAIN drafts : j # key => drafts'[j] = drafts[j]
  BY <1>1, <1>4, PutEffect DEF Inv
<1>7. ResolvingIsLive'
  BY <1>1, <1>4, <1>5, <1>6 DEF Inv, ResolvingIsLive
<1>8. RetiredIsRecovery'
  BY <1>1, <1>4, <1>6, RetiredKept DEF Inv
<1>9. Desk' /\ UnreviewedNeverSent'
  BY <1>1, <1>2, <1>5 DEF Inv, Desk, UnreviewedNeverSent
<1> QED
  BY <1>6, <1>7, <1>8, <1>9 DEF Inv

\* A request leaves, or goes on without anybody waiting for it, and its draft
\* is settled.
LEMMA SettledKept ==
    ASSUME Inv, NEW r \in net, net \ {r} \subseteq net', net' \subseteq (net \ {r}) \union {[r EXCEPT !.waiting = FALSE]},
           UNCHANGED <<order, active, key, sel, cache, gen, up, load, inv, attempts, sv, outside>>,
           r.k \notin DOMAIN drafts => drafts' = drafts,
           NEW e, r.k \in DOMAIN drafts =>
             /\ Put(r.k, e) /\ Good(e)
             /\ e.attempt = 0 \/ (e.attempt = drafts[r.k].attempt /\ e.attempt # r.id)
             /\ drafts[r.k].rec => e.rec
    PROVE  Inv' /\ DOMAIN drafts' = DOMAIN drafts
<1>0. r \in Requests /\ [r EXCEPT !.waiting = FALSE] \in Requests /\ r.origin # "imported"
      /\ [r EXCEPT !.waiting = FALSE].origin = r.origin
  BY DEF Inv, Desk, Requests, UnreviewedNeverSent
<1>1. /\ Shelf' /\ DOMAIN drafts' = DOMAIN drafts
      /\ \A j \in DOMAIN drafts : j # r.k => drafts'[j] = drafts[j]
      /\ r.k \in DOMAIN drafts => drafts'[r.k] = e
  <2>1. CASE r.k \in DOMAIN drafts
    BY <2>1, PutEffect DEF Inv
  <2>2. CASE r.k \notin DOMAIN drafts
    BY <2>2 DEF Inv, Shelf
  <2> QED
    BY <2>1, <2>2
<1>2. ResolvingIsLive'
  <2> SUFFICES ASSUME NEW j \in DOMAIN drafts, drafts'[j].attempt # 0
               PROVE  \E q \in net' : q.k = j /\ q.id = drafts'[j].attempt /\ q.waiting
    BY <1>1 DEF ResolvingIsLive
  <2>1. drafts'[j].attempt = drafts[j].attempt
    BY <1>1
  <2>2. PICK q \in net : q.k = j /\ q.id = drafts[j].attempt /\ q.waiting
    BY <2>1 DEF Inv, ResolvingIsLive
  <2>3. q # r
    BY <1>1, <2>1, <2>2
  <2> QED
    BY <2>1, <2>2, <2>3
<1>3. RetiredIsRecovery'
  BY <1>1, RetiredKept DEF Inv
<1>4. Desk' /\ UnreviewedNeverSent'
  BY <1>0 DEF Inv, Desk, UnreviewedNeverSent
<1> QED
  BY <1>1, <1>2, <1>3, <1>4 DEF Inv

\* `reconcileOutcome` settles the attempt the answer is for and no other.
LEMMA ReconciledGood ==
    ASSUME NEW d, Good(d), NEW r \in Requests
    PROVE  LET e == Reconciled(d, r)
           IN  /\ Good(e) /\ (d.rec => e.rec)
               /\ e.attempt = 0 \/ (e.attempt = d.attempt /\ e.attempt # r.id)
<1>1. r.text \in 0 .. MaxText
  BY DEF Requests
<1>2. /\ Good(CompletedApplied(d, r.text)) /\ CompletedApplied(d, r.text).attempt = 0
      /\ Good(CompletedRefused(d)) /\ CompletedRefused(d).attempt = 0
  BY <1>1, CompletedGood
<1>3. (d.rec => CompletedApplied(d, r.text).rec) /\ CompletedRefused(d).rec
  BY DEF CompletedApplied, CompletedRefused, Recovered, Good, Draft
<1> QED
  BY <1>2, <1>3 DEF Reconciled

\* So does an answer that reaches the client.
LEMMA ClientGetsKeeps ==
    ASSUME Inv, NEW r \in net, ClientGets(r)
    PROVE  Inv' /\ DOMAIN drafts' = DOMAIN drafts
<1> DEFINE d == Reconciled(drafts[r.k], r)
           e == IF Current(r.k.g) THEN d ELSE Recovered(d)
<1>1. /\ net' = net \ {r}
      /\ UNCHANGED <<order, active, key, sel, cache, gen, up, load, inv, attempts, sv, outside>>
      /\ r.k \notin DOMAIN drafts => drafts' = drafts
      /\ r.k \in DOMAIN drafts => Put(r.k, e)
  BY DEF ClientGets
<1>2. ASSUME r.k \in DOMAIN drafts
      PROVE  /\ Good(e)
             /\ e.attempt = 0 \/ (e.attempt = drafts[r.k].attempt /\ e.attempt # r.id)
             /\ drafts[r.k].rec => e.rec
  <2>1. Good(drafts[r.k]) /\ r \in Requests
    BY <1>2 DEF Inv, Shelf, Desk
  <2>2. /\ Good(d) /\ (drafts[r.k].rec => d.rec)
        /\ d.attempt = 0 \/ (d.attempt = drafts[r.k].attempt /\ d.attempt # r.id)
    BY <2>1, ReconciledGood
  <2> HIDE DEF d
  <2>3. Good(Recovered(d)) /\ Recovered(d).rec /\ Recovered(d).attempt = d.attempt
    BY <2>2, RecoveredGood DEF SameUse
  <2> QED
    BY <2>2, <2>3
<1> HIDE DEF e
<1> QED
  BY <1>1, <1>2, SettledKept

\* So does an answer that is lost.
LEMMA ClientFailsKeeps ==
    ASSUME Inv, NEW r \in net, ClientFails(r)
    PROVE  Inv' /\ DOMAIN drafts' = DOMAIN drafts
<1> DEFINE e == Failed(drafts[r.k], r.id)
<1>1. /\ net \ {r} \subseteq net' /\ net' \subseteq (net \ {r}) \union {[r EXCEPT !.waiting = FALSE]}
      /\ UNCHANGED <<order, active, key, sel, cache, gen, up, load, inv, attempts, sv, outside>>
      /\ r.k \notin DOMAIN drafts => drafts' = drafts
      /\ r.k \in DOMAIN drafts => Put(r.k, e)
  BY DEF ClientFails
<1>2. ASSUME r.k \in DOMAIN drafts
      PROVE  /\ Good(e)
             /\ e.attempt = 0 \/ (e.attempt = drafts[r.k].attempt /\ e.attempt # r.id)
             /\ drafts[r.k].rec => e.rec
  <2>1. Good(drafts[r.k])
    BY <1>2 DEF Inv, Shelf
  <2>2. LET d == Recovered(drafts[r.k]) IN Good(d) /\ d.rec /\ d.attempt = drafts[r.k].attempt
    BY <2>1, RecoveredGood DEF SameUse
  <2>3. LET d == Cancelled(Recovered(drafts[r.k])) IN Good(d) /\ d.rec /\ d.attempt = 0
    BY <2>1, RetiredGood
  <2> QED
    BY <2>2, <2>3 DEF Failed
<1> HIDE DEF e
<1> QED
  BY <1>1, <1>2, SettledKept

\* The server answers a request.
LEMMA ServedKeeps ==
    ASSUME Inv, NEW r \in net, ServeApply(r) \/ ServeRefuse(r)
    PROVE  Inv' /\ DOMAIN drafts' = DOMAIN drafts
<1>1. /\ UNCHANGED <<client, gen, up, outside>>
      /\ \E out \in {"applied", "refused"} : net' = Served(r, out)
      /\ sv' \in [Conflicts -> 0 .. MaxVersion]
  BY ResolverAssumption DEF ServeApply, ServeRefuse, Inv, Desk
<1>2. PICK out \in {"applied", "refused"} : net' = Served(r, out)
  BY <1>1
<1> DEFINE q == [r EXCEPT !.out = out]
<1>3. r \in Requests /\ r.origin # "imported"
  BY DEF Inv, Desk, UnreviewedNeverSent
<1>4. q \in Requests /\ q.k = r.k /\ q.id = r.id /\ q.waiting = r.waiting /\ q.origin = r.origin
  BY <1>3 DEF Requests
<1>5. /\ net' \subseteq net \union {q} /\ net \ {r} \subseteq net'
      /\ r.waiting => q \in net'
  BY <1>2 DEF Served
<1> HIDE DEF q
<1>6. ResolvingIsLive'
  BY <1>1, <1>4, <1>5 DEF Inv, ResolvingIsLive, client
<1>7. Shelf' /\ RetiredIsRecovery' /\ DOMAIN drafts' = DOMAIN drafts
  BY <1>1 DEF Inv, Shelf, RetiredIsRecovery, client
<1>8. UnreviewedNeverSent'
  BY <1>3, <1>4, <1>5 DEF Inv, UnreviewedNeverSent
<1>9. Desk'
  BY <1>1, <1>4, <1>5 DEF Inv, Desk, client
<1> QED
  BY <1>6, <1>7, <1>8, <1>9 DEF Inv

-----------------------------------------------------------------------------
(***************************************************************************)
(* Drafts come and go                                                      *)
(***************************************************************************)
\* Taking keys out of an insertion order, and adding one at its end.
LEMMA OrderAmong ==
    ASSUME NEW R, NEW D, Ordered(R, D), NEW S \in SUBSET D
    PROVE  Ordered(R \cap (S \X S), S)
BY DEF Ordered

\* A new draft goes behind all others in the order of use.
LEMMA OrderAppend ==
    ASSUME NEW R, NEW S, Ordered(R, S), NEW k, k \notin S
    PROVE  Ordered(R \union (S \X {k}), S \union {k})
<1> DEFINE Q == R \union (S \X {k})
           T == S \union {k}
<1>0. \A j \in S : j # k
  OBVIOUS
<1>1. /\ R \subseteq S \X S
      /\ \A j \in S : <<j, j>> \notin R
      /\ \A i, j \in S : i # j => (<<i, j>> \in R \/ <<j, i>> \in R)
      /\ \A h, i, j \in S : <<h, i>> \in R /\ <<i, j>> \in R => <<h, j>> \in R
  BY DEF Ordered
<1>2. \A i, j : <<i, j>> \in Q <=> <<i, j>> \in R \/ (i \in S /\ j = k)
  OBVIOUS
<1>3. \A i, j : <<i, j>> \in R => i \in S /\ j \in S
  BY <1>1
<1>4. Q \subseteq T \X T
  BY <1>1
<1> HIDE DEF Q
<1>5. \A j \in T : <<j, j>> \notin Q
  BY <1>0, <1>1, <1>2, <1>3
<1>6. \A i, j \in T : i # j => (<<i, j>> \in Q \/ <<j, i>> \in Q)
  BY <1>0, <1>1, <1>2
<1>7. \A h, i, j \in T : <<h, i>> \in Q /\ <<i, j>> \in Q => <<h, j>> \in Q
  BY <1>0, <1>1, <1>2, <1>3
<1> QED
  BY <1>4, <1>5, <1>6, <1>7 DEF Ordered, Q

\* Discarding a draft removes that one.
LEMMA DiscardKeeps ==
    ASSUME Inv, NEW k \in DOMAIN drafts, Discard(k)
    PROVE  Inv' /\ DOMAIN drafts' \subseteq DOMAIN drafts
<1> DEFINE S == DOMAIN drafts \ {k}
<1>1. /\ DOMAIN drafts' = S /\ drafts' = [j \in DOMAIN drafts' |-> drafts'[j]]
      /\ \A j \in S : drafts'[j] = drafts[j]
  BY DEF Discard, Restrict
<1>2. order' = order \cap (S \X S) /\ active' = (IF active = k THEN NoKey ELSE active)
      /\ UNCHANGED <<cache, gen, up, inv, net, attempts, sv, outside>>
      /\ \/ sel' = NoConflict /\ key' = NoKey /\ load' = NoLoad
         \/ UNCHANGED <<sel, key, load>>
  BY DEF Discard, Among
<1>3. Ordered(order', S)
  BY <1>2, OrderAmong DEF Inv, Shelf
<1>4. Shelf'
  BY <1>1, <1>2, <1>3 DEF Inv, Shelf
<1>5. ResolvingIsLive'
  BY <1>1, <1>2, LiveKept DEF Inv
<1>6. RetiredIsRecovery'
  BY <1>1, <1>2 DEF Inv, RetiredIsRecovery
<1>7. NoLoad \in Loads
  BY ResolverAssumption DEF NoLoad, Loads, Wants
<1>8. Desk' /\ UnreviewedNeverSent'
  BY <1>2, <1>7 DEF Inv, Desk, UnreviewedNeverSent
<1> QED
  BY <1>1, <1>4, <1>5, <1>6, <1>8 DEF Inv

\* What follows the load changes only the draft that was loaded.
LEMMA ContinuedGood ==
    ASSUME NEW ds, ds = [j \in DOMAIN ds |-> ds[j]], \A j \in DOMAIN ds : Good(ds[j]),
           NEW k \in DOMAIN ds
    PROVE  LET es == Continued(ds, k)
           IN  /\ DOMAIN es = DOMAIN ds /\ es = [j \in DOMAIN es |-> es[j]]
               /\ Good(es[k]) /\ es[k].attempt = ds[k].attempt
               /\ \A j \in DOMAIN ds : j # k => es[j] = ds[j]
<1>1. CASE load.want = "import" /\ CanImport(ds, load.src, k)
  <2> DEFINE t == ds[load.src].recText
             e == Imported(ds[k], t)
  <2>1. load.src \in DOMAIN ds /\ ds[load.src].rec /\ MayModify(ds[k])
    BY <1>1 DEF CanImport
  <2>2. t \in Texts
    BY <2>1, DraftFields DEF Good, Sound
  <2>3. Good(e) /\ e.attempt = ds[k].attempt
    BY <2>1, <2>2, ImportedGood
  <2>4. Continued(ds, k) = [ds EXCEPT ![k] = e]
    BY <1>1 DEF Continued
  <2> HIDE DEF e
  <2> QED
    BY <2>3, <2>4
<1>2. CASE ~(load.want = "import" /\ CanImport(ds, load.src, k))
           /\ load.want = "review" /\ k = load.src /\ ds[k].review /\ ~ds[k].rec
  <2> DEFINE e == Reviewed(ds[k])
  <2>1. Good(e) /\ e.attempt = ds[k].attempt
    BY <1>2, ReviewedGood
  <2>2. Continued(ds, k) = [ds EXCEPT ![k] = e]
    BY <1>2 DEF Continued
  <2> HIDE DEF e
  <2> QED
    BY <2>1, <2>2
<1>3. CASE /\ ~(load.want = "import" /\ CanImport(ds, load.src, k))
           /\ ~(load.want = "review" /\ k = load.src /\ ds[k].review /\ ~ds[k].rec)
  <2>1. Continued(ds, k) = ds
    BY <1>3 DEF Continued
  <2> QED
    BY <2>1
<1> QED
  BY <1>1, <1>2, <1>3

\* The load returns draft k of the registry ds.
LEMMA ArriveKeeps ==
    ASSUME Inv, NEW ds, NEW ord, NEW k \in DOMAIN ds, Arrive(ds, ord, k), k.g = gen,
           DOMAIN ds \subseteq Keys, ds = [j \in DOMAIN ds |-> ds[j]],
           \A j \in DOMAIN ds : Good(ds[j]), Ordered(ord, DOMAIN ds),
           \A j \in DOMAIN ds : ds[j].attempt # 0 => j \in DOMAIN drafts /\ ds[j].attempt = drafts[j].attempt,
           \A j \in DOMAIN ds : j # k =>
               j \in DOMAIN drafts /\ (drafts[j].rec => ds[j].rec) /\ ds[j].attempt = drafts[j].attempt,
           load' = NoLoad, UNCHANGED <<sel, cache, gen, up, inv, net, attempts, sv, outside>>
    PROVE  Inv' /\ DOMAIN drafts' = DOMAIN ds
<1>1. /\ DOMAIN drafts' = DOMAIN ds /\ drafts' = [j \in DOMAIN drafts' |-> drafts'[j]]
      /\ Good(drafts'[k]) /\ drafts'[k].attempt = ds[k].attempt
      /\ \A j \in DOMAIN ds : j # k => drafts'[j] = ds[j]
  BY ContinuedGood DEF Arrive
<1>2. order' = ord /\ active' = k /\ key' \in {k, key}
  BY DEF Arrive
<1>3. Shelf'
  BY <1>1, <1>2 DEF Shelf
<1>4. ResolvingIsLive'
  BY <1>1, LiveKept DEF Inv
<1>5. RetiredIsRecovery'
  BY <1>1, RetiredKept DEF Inv
<1>6. NoLoad \in Loads
  BY ResolverAssumption DEF NoLoad, Loads, Wants
<1>7. Desk' /\ UnreviewedNeverSent'
  BY <1>2, <1>6 DEF Inv, Desk, UnreviewedNeverSent
<1> QED
  BY <1>1, <1>3, <1>4, <1>5, <1>7 DEF Inv

\* The other drafts of a conflict whose snapshot drifted.
LEMMA DriftedGood ==
    ASSUME Shelf, NEW k, NEW old, old = Drifted(k)
    PROVE  /\ DOMAIN old = DOMAIN drafts /\ old = [j \in DOMAIN old |-> old[j]]
           /\ \A j \in DOMAIN drafts :
                /\ Good(old[j]) /\ old[j].attempt = drafts[j].attempt /\ (drafts[j].rec => old[j].rec)
                /\ old[j] = drafts[j] \/ old[j].rec
<1>1. \A j \in DOMAIN drafts :
        LET e == Recovered(drafts[j]) IN Good(e) /\ e.attempt = drafts[j].attempt /\ e.rec
  BY RecoveredGood DEF Shelf, SameUse
<1>2. /\ DOMAIN old = DOMAIN drafts /\ old = [j \in DOMAIN old |-> old[j]]
      /\ \A j \in DOMAIN drafts : old[j] \in {drafts[j], Recovered(drafts[j])}
  BY DEF Drifted
<1> QED
  BY <1>1, <1>2 DEF Shelf

\* Every draft that is evicted is a candidate.
LEMMA EvictedIsEvictable ==
    ASSUME NEW ds, Admitted(ds), NEW j \in Evicted(ds)
    PROVE  j \in DOMAIN ds /\ Evictable(ds[j])
<1>1. PICK S \in EvictionSets(ds) : Room(ds, S)
  BY DEF Admitted
<1>2. j \in S
  BY <1>1 DEF Evicted
<1>3. S \subseteq {k \in DOMAIN ds : Evictable(ds[k])}
  BY DEF EvictionSets
<1> QED
  BY <1>2, <1>3

\* What EvictsOnlyClean says of one step.
EvictStep ==
    DOMAIN drafts' \ DOMAIN drafts # {} =>
      \A k \in DOMAIN drafts \ DOMAIN drafts' :
         /\ ~drafts[k].rec /\ drafts[k].attempt = 0
         /\ drafts[k].text \in {InitialText, drafts[k].applied}

\* A loaded snapshot keeps the invariant, and what it evicts is clean.
LEMMA LoadCommitKeeps ==
    ASSUME Inv, LoadCommit
    PROVE  Inv' /\ EvictStep
<1> DEFINE k == [c |-> load.c, v |-> load.ver, g |-> load.g]
           old == Drifted(k)
           kept == DOMAIN old \ Evicted(old)
           ds == [j \in kept \union {k} |-> IF j = k THEN NewDraft ELSE old[j]]
           ord == Among(kept) \union (kept \X {k})
<1>1. /\ load.c # NoConflict /\ load.ver # 0 /\ load.g = gen
      /\ load' = NoLoad /\ UNCHANGED <<sel, cache, gen, up, inv, net, attempts, sv, outside>>
      /\ \/ k \in DOMAIN drafts /\ Arrive(drafts, order, k)
         \/ k \notin DOMAIN drafts /\ Admitted(old) /\ Arrive(ds, ord, k)
         \/ k \notin DOMAIN drafts /\ drafts' = old /\ UNCHANGED <<order, active, key>>
  BY DEF LoadCommit, LoadIsCurrent, Current
<1>2. k \in Keys /\ k.g = gen
  <2>1. load.c \in Conflicts /\ load.ver \in 1 .. MaxVersion /\ gen \in 1 .. MaxGen
    BY <1>1, ResolverAssumption DEF Inv, Desk, Loads
  <2> QED
    BY <1>1, <2>1 DEF Keys
<1>3. /\ DOMAIN old = DOMAIN drafts /\ old = [j \in DOMAIN old |-> old[j]]
      /\ \A j \in DOMAIN drafts :
           /\ Good(old[j]) /\ old[j].attempt = drafts[j].attempt /\ (drafts[j].rec => old[j].rec)
           /\ old[j] = drafts[j] \/ old[j].rec
  BY DriftedGood DEF Inv
<1>4. Shelf
  BY DEF Inv
<1> HIDE DEF k, old
<1>5. CASE k \in DOMAIN drafts /\ Arrive(drafts, order, k)
  <2>1. Inv' /\ DOMAIN drafts' = DOMAIN drafts
    BY <1>1, <1>2, <1>4, <1>5, ArriveKeeps DEF Shelf
  <2> QED
    BY <2>1 DEF EvictStep
<1>6. CASE k \notin DOMAIN drafts /\ Admitted(old) /\ Arrive(ds, ord, k)
  <2>1. /\ DOMAIN ds = kept \union {k} /\ ds = [j \in DOMAIN ds |-> ds[j]] /\ ds[k] = NewDraft
        /\ \A j \in kept : j # k /\ j \in DOMAIN drafts /\ ds[j] = old[j]
    BY <1>3, <1>6
  <2>2. Ordered(order \cap (kept \X kept), kept)
    BY <1>3, <1>4, OrderAmong DEF Shelf
  <2>3. Ordered(ord, kept \union {k})
    <3>1. k \notin kept
      BY <1>3, <1>6
    <3> HIDE DEF kept
    <3> QED
      BY <2>2, <3>1, OrderAppend DEF Among
  <2>4. DOMAIN ds \subseteq Keys
    BY <1>2, <1>3, <1>4, <2>1 DEF Shelf
  <2>5. Good(NewDraft) /\ NewDraft.attempt = 0
    BY NewDraftGood
  <2> HIDE DEF ds, ord, kept
  <2>6. /\ \A j \in DOMAIN ds : Good(ds[j])
        /\ \A j \in DOMAIN ds : ds[j].attempt # 0 => j \in DOMAIN drafts /\ ds[j].attempt = drafts[j].attempt
        /\ \A j \in DOMAIN ds : j # k =>
             j \in DOMAIN drafts /\ (drafts[j].rec => ds[j].rec) /\ ds[j].attempt = drafts[j].attempt
    BY <1>3, <2>1, <2>5
  <2>7. Inv' /\ DOMAIN drafts' = DOMAIN ds
    BY <1>1, <1>2, <1>6, <2>1, <2>3, <2>4, <2>6, ArriveKeeps
  <2>8. ASSUME NEW j \in DOMAIN drafts \ DOMAIN drafts'
        PROVE  /\ ~drafts[j].rec /\ drafts[j].attempt = 0
               /\ drafts[j].text \in {InitialText, drafts[j].applied}
    <3>1. j \in Evicted(old)
      BY <1>3, <2>1, <2>7 DEF kept
    <3>2. Evictable(old[j])
      BY <1>6, <3>1, EvictedIsEvictable
    <3>3. ~old[j].rec /\ old[j] = drafts[j] /\ ~drafts[j].dirty /\ drafts[j].attempt = 0
      BY <1>3, <3>2 DEF Evictable, Unsettled
    <3>4. drafts[j].text = Baseline(drafts[j])
      BY <1>4, <3>3 DEF Shelf, Good, Sound
    <3> QED
      BY <3>3, <3>4 DEF Baseline
  <2> QED
    BY <2>7, <2>8 DEF EvictStep
<1>7. CASE k \notin DOMAIN drafts /\ drafts' = old /\ UNCHANGED <<order, active, key>>
  <2>1. Shelf'
    BY <1>3, <1>4, <1>7, ShelfKept
  <2>2. ResolvingIsLive'
    BY <1>1, <1>3, <1>7, LiveKept DEF Inv
  <2>3. RetiredIsRecovery'
    BY <1>1, <1>3, <1>7, RetiredKept DEF Inv
  <2>4. NoLoad \in Loads
    BY ResolverAssumption DEF NoLoad, Loads, Wants
  <2>5. Desk' /\ UnreviewedNeverSent'
    BY <1>1, <1>7, <2>4 DEF Inv, Desk, UnreviewedNeverSent
  <2> QED
    BY <1>3, <1>7, <2>1, <2>2, <2>3, <2>5 DEF Inv, EvictStep
<1> QED
  BY <1>1, <1>5, <1>6, <1>7

-----------------------------------------------------------------------------
(***************************************************************************)
(* The theorems                                                            *)
(***************************************************************************)
\* Every step of the resolver keeps the invariant and evicts only clean drafts.
LEMMA NextInv ==
    ASSUME Inv, [Next]_vars
    PROVE  Inv' /\ (EvictStep \/ UNCHANGED vars)
<1> SUFFICES ASSUME Next PROVE Inv' /\ EvictStep
  BY DEF vars, Inv, Shelf, Desk, ResolvingIsLive, RetiredIsRecovery, UnreviewedNeverSent
<1>1. CASE \E c \in Conflicts : Select(c)
  BY <1>1, SelectKeeps DEF EvictStep
<1>2. CASE \/ Close \/ Refetch \/ LoadOpen \/ ReviewBegin
           \/ \E k \in DOMAIN drafts : ImportBegin(k)
           \/ LoadFetched \/ LoadFail \/ RefreshRead \/ Connect
           \/ \E c \in Conflicts, v \in 0 .. MaxVersion : Outside(c, v)
  BY <1>2, ReadsKeep DEF EvictStep
<1>3. ASSUME NEW k \in DOMAIN drafts, Discard(k) PROVE Inv' /\ EvictStep
  BY <1>3, DiscardKeeps DEF EvictStep
<1>4. CASE LoadCommit
  BY <1>4, LoadCommitKeeps
<1>5. CASE \/ \E t \in Texts, joined, decided \in BOOLEAN : Type(t, joined, decided)
           \/ Undo \/ Redo \/ MarkReviewed
           \/ \E t \in Texts : Accept(t)
  BY <1>5, EditsKeep DEF EvictStep
<1>6. CASE Apply
  BY <1>6, ApplyKeeps DEF EvictStep
<1>7. ASSUME NEW id \in 1 .. MaxAttempts, Settle(id) PROVE Inv' /\ EvictStep
  BY <1>7, ClientGetsKeeps, ClientFailsKeeps DEF EvictStep, Settle
<1>8. CASE RefreshDone
  BY <1>8, RefreshDoneKeeps DEF EvictStep
<1>9. CASE Drop
  BY <1>9, DropKeeps DEF EvictStep
<1>10. ASSUME NEW r \in net, ServeApply(r) \/ ServeRefuse(r) PROVE Inv' /\ EvictStep
  BY <1>10, ServedKeeps DEF EvictStep
<1> QED
  BY <1>1, <1>2, <1>3, <1>4, <1>5, <1>6, <1>7, <1>8, <1>9, <1>10 DEF Next

\* The invariant holds always.
LEMMA SpecInv == Spec => []Inv
BY InitInv, NextInv, PTL DEF Spec

\* In every state of the resolver an apply is safe (ApplyIsSafe): whatever the
\* order of edits, answers, failures, refreshes and reconnects, an attempt of
\* `applyDraft` is spent at most once, a draft that shows as resolving is
\* awaited, a draft of an earlier connection is only a recovery, imported text
\* is reviewed before it is sent, and what is marked applied is what was sent.
THEOREM ApplySafe == Spec => []ApplyIsSafe
BY SpecInv, InvImplies, PTL

\* The recovery text is always the text the user saw last (RecoveryKeepsText):
\* no undo, redo, edit, answer or demotion leaves an older copy in its place.
THEOREM RecoveryKept == Spec => []RecoveryKeepsText
BY SpecInv, InvImplies, PTL

\* `canAdmitDraft` never makes room at the cost of the user's text
\* (EvictsOnlyClean), whatever the budget, the sizes and the order of insertion.
THEOREM EvictsClean == Spec => EvictsOnlyClean
<1>1. Inv /\ [Next]_vars => [EvictStep]_vars
  BY NextInv
<1> QED
  BY <1>1, SpecInv, PTL DEF Spec, EvictsOnlyClean, EvictStep
=============================================================================
