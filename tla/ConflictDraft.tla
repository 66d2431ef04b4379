----------------------------- MODULE ConflictDraft -----------------------------
(***************************************************************************)
(* One draft of a conflict resolution and what may happen to it: edits,    *)
(* undo and redo, region decisions, an attempt to apply it and its         *)
(* demotion to recovery text (packages/ui/src/lib/conflict-draft-*.ts).    *)
(*                                                                         *)
(* A text is the number of its bytes; the regions of a file are decided or *)
(* not as a whole; attempt stands for isResolving and inFlightAttempt,     *)
(* which are always set together, and skew is resultRevision of the draft  *)
(* less that of its merge model.  Bytes are computed from the draft as it  *)
(* is; in the code an undo in recovery measures them one step too early.   *)
(*                                                                         *)
(* spent (an attempt was ever sent) and origin (where the text came from)  *)
(* only serve the properties.                                              *)
(***************************************************************************)
EXTENDS Integers, Sequences, FiniteSets, SequencesExt

CONSTANTS
    MaxText,      \* bound: texts are 1 .. MaxText bytes long
    MaxHist,      \* bound: entries of the undo history (100 in the code)
    MaxSkew,      \* bound: how far the two revisions drift apart
    MaxAttempts,  \* bound: attempts to apply
    SourceBytes,  \* bytes of the stages and the worktree file
    MaxDraftBytes, MaxTotalBytes

ASSUME DraftAssumption ==
    /\ MaxText \in Nat \ {0} /\ MaxHist \in Nat /\ MaxSkew \in Nat
    /\ MaxAttempts \in Nat /\ SourceBytes \in Nat
    /\ MaxDraftBytes \in Nat /\ MaxTotalBytes \in Nat

Texts == 1 .. MaxText
Entries == [text : Texts, decided : BOOLEAN]

Draft ==
    [ text : Texts, applied : 0 .. MaxText, past : Seq(Entries), future : Seq(Entries),
      decided : BOOLEAN, dirty : BOOLEAN, isApplied : BOOLEAN,
      rec : BOOLEAN, recText : 0 .. MaxText, review : BOOLEAN,
      coalesce : BOOLEAN, skew : -MaxSkew .. MaxSkew, attempt : 0 .. MaxAttempts,
      spent : BOOLEAN, origin : {"own", "imported", "reviewed"} ]

(* createInitialDraft: the worktree text of every snapshot is one byte. *)
InitialText == 1
NewDraft ==
    [ text |-> InitialText, applied |-> 0, past |-> <<>>, future |-> <<>>,
      decided |-> FALSE, dirty |-> FALSE, isApplied |-> FALSE,
      rec |-> FALSE, recText |-> 0, review |-> FALSE,
      coalesce |-> FALSE, skew |-> 0, attempt |-> 0,
      spent |-> FALSE, origin |-> "own" ]

(***************************************************************************)
(* Memory                                                                  *)
(***************************************************************************)
SumText(h) == FoldLeft(LAMBDA n, e : n + e.text, 0, h)
TotalBytes(d) == SourceBytes + d.text + SumText(d.past) + SumText(d.future) + d.recText
Unsettled(d) == d.dirty \/ d.attempt # 0 \/ d.rec

(* checkProspectiveEditGrowth; others are the bytes of the other drafts. *)
GrowthAccepted(d, t, others, entry) ==
    LET budget == TotalBytes(d) - d.text + 2 * t + (IF entry THEN d.text ELSE 0)
    IN  budget <= MaxDraftBytes /\ others + budget <= MaxTotalBytes

(***************************************************************************)
(* Editing                                                                 *)
(***************************************************************************)
Entry(d) == [text |-> d.text, decided |-> d.decided]
Baseline(d) == IF d.applied = 0 THEN InitialText ELSE d.applied
MayModify(d) == ~d.rec /\ d.attempt = 0 /\ ~d.isApplied

\* Mutation: an edit leaves the recovery state as it is.
RetainRecoveryNothing(d) == d

RetainRecoveryResult(d) ==
    LET r == d.rec \/ (d.isApplied /\ d.dirty)
    IN  [d EXCEPT !.rec = r, !.recText = IF r THEN d.text ELSE @]

(* An accepted edit; decided tells whether the decisions survive it. *)
Edited(d, t, joined, decided) ==
    RetainRecoveryResult(
        [d EXCEPT !.past = IF joined THEN @ ELSE Append(@, Entry(d)),
                  !.future = <<>>, !.coalesce = ~d.isApplied,
                  !.text = t, !.dirty = t # Baseline(d), !.decided = decided])

(* The merge model takes a new revision only with a new text. *)
Restored(d, e) ==
    RetainRecoveryResult(
        [d EXCEPT !.text = e.text, !.decided = e.decided, !.coalesce = FALSE,
                  !.skew = IF e.text = d.text THEN @ + 1 ELSE @,
                  !.dirty = e.text # Baseline(d) \/ e.decided])

Undone(d) == Restored([d EXCEPT !.past = Front(@), !.future = Append(@, Entry(d))], Last(d.past))
Redone(d) == Restored([d EXCEPT !.future = Front(@), !.past = Append(@, Entry(d))], Last(d.future))

(* A step of the history without a new text, which no growth check sees. *)
Noted(d, skew) ==
    [d EXCEPT !.past = Append(@, Entry(d)), !.future = <<>>, !.coalesce = FALSE,
              !.dirty = TRUE, !.decided = TRUE, !.skew = skew]

(* ignoreSide and markReviewed: the model's revision moves alone. *)
Decided(d) == Noted(d, d.skew - 1)

(* acceptSide, acceptBoth and confirmed whole-file actions give text t. *)
Accepted(d, t) ==
    IF t = d.text THEN Noted(d, d.skew)
    ELSE [Edited(d, t, FALSE, TRUE) EXCEPT !.coalesce = FALSE]

(***************************************************************************)
(* Applying and recovering                                                 *)
(***************************************************************************)
CanStart(d) == ~d.rec /\ ~d.review /\ ~d.isApplied /\ d.attempt = 0
Started(d, id) == [d EXCEPT !.attempt = id, !.coalesce = FALSE, !.spent = TRUE]

Recovered(d) == [d EXCEPT !.rec = TRUE, !.recText = d.text]
Cancelled(d) == [d EXCEPT !.attempt = 0]

(* sent is the submitted text, 0 for a side or a deletion. *)
CompletedApplied(d, sent) ==
    LET t == IF sent = 0 THEN d.text ELSE sent
        c == [d EXCEPT !.attempt = 0, !.coalesce = FALSE,
                       !.applied = t, !.isApplied = TRUE, !.dirty = d.text # t]
    IN  IF c.dirty THEN Recovered(c) ELSE c

CompletedRefused(d) ==
    Recovered([d EXCEPT !.attempt = 0, !.coalesce = FALSE, !.isApplied = FALSE])

(* importRecoveryDraft into a fresh draft that is still untouched. *)
Imported(d, t) ==
    LET e == IF t = d.text THEN d ELSE Edited(d, t, FALSE, FALSE)
    IN  [e EXCEPT !.review = TRUE, !.isApplied = FALSE, !.coalesce = FALSE, !.origin = "imported"]

(* confirmFreshReview of the store. *)
Reviewed(d) == [d EXCEPT !.review = FALSE, !.recText = 0, !.origin = "reviewed"]
=============================================================================
