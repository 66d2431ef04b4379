-------------------------- MODULE MCConflictResolver --------------------------
(***************************************************************************)
(* Three settings of the resolver, one per behaviour:                      *)
(*   drift   one conflict whose snapshot changes under the user, over one  *)
(*           connection;                                                   *)
(*   drop    one conflict that only the user changes, over a connection    *)
(*           that is lost and replaced once;                               *)
(*   budget  a text and a binary conflict compete for a budget that holds  *)
(*           one edited draft.                                             *)
(***************************************************************************)
EXTENDS ConflictResolver

CONSTANTS
    Single,                            \* the conflict of drift and drop
    TightSource, TightDraft, TightTotal, TightDirty  \* sizes and limits of budget

VARIABLE setting

Tight == INSTANCE ConflictResolver
           WITH SourceBytes <- TightSource, MaxDraftBytes <- TightDraft,
                MaxTotalBytes <- TightTotal, MaxDirty <- TightDirty

\* No decision moves the revision of the merge model away from the draft's.
InStep == \A k \in DOMAIN drafts' : drafts'[k].skew = 0

MCInit == Init /\ setting \in {"drift", "drop", "budget"}

MCNext ==
    /\ UNCHANGED setting
    /\ \/ /\ setting = "drift" /\ Next
          /\ sel' \in {Single, NoConflict} /\ \A c \in Conflicts \ {Single} : sv'[c] = sv[c]
          /\ gen' = 1 /\ attempts' <= 1
       \/ /\ setting = "drop" /\ Next /\ InStep
          /\ sel' \in {Single, NoConflict} /\ outside' = 0 /\ attempts' <= 1
       \/ /\ setting = "budget" /\ Tight!Next /\ InStep
          /\ gen' = 1 /\ outside' = 0

MCSpec == MCInit /\ [][MCNext]_<<vars, setting>>
=============================================================================
