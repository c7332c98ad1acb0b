------------------------------ MODULE MCKernel ------------------------------
(* Model values and symmetry for checking GenerationKernel with TLC.       *)
EXTENDS GenerationKernel, TLC

CONSTANTS b1, b2, p1, p2, r1

\* Stages differ only by name, and so do processes; no property checked with a symmetry
\* set is a liveness property.
StageSymmetry   == Permutations(Batches)
ProcessSymmetry == Permutations(Procs)
Symmetry        == StageSymmetry \cup ProcessSymmetry

(* Two processes may share one stage, or one process two stages that have  *)
(* no failures or pauses; the rest of a larger instance is left out of the *)
(* search.                                                                 *)
OneIsShared ==
    \/ Cardinality({b \in Batches : batch[b].status # "none"}) <= 1
    \/ /\ Cardinality({p \in Procs : mode[p] # "down"}) <= 1 /\ faults = 0
       /\ \A b \in Batches : ~batch[b].pause

SharedSpec == Init /\ [][Next /\ OneIsShared']_vars
=============================================================================
