------------------------------ MODULE MCRowLocks ------------------------------
(***************************************************************************)
(* The transactions that cross a moderator's, who locks rows but not the   *)
(* course: a rebuild of personal bests (PbRebuild), or a merge             *)
(* (RecordModeration).  They share no state; one run checks both, and part *)
(* says which of them takes the steps.                                     *)
(***************************************************************************)
EXTENDS PbRebuild, RecordModeration

VARIABLE part

MCInit == part \in {"rebuild", "merge"} /\ Init /\ MergeInit

MCNext ==
    \/ part = "rebuild" /\ Next /\ UNCHANGED <<part, mergeVars>>
    \/ part = "merge" /\ MergeNext /\ UNCHANGED <<part, vars>>

MCSpec == MCInit /\ [][MCNext]_<<part, vars, mergeVars>>
=============================================================================
