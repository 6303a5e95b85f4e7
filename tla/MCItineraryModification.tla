----------------------- MODULE MCItineraryModification -----------------------
(* Instances of ItineraryModification for TLC.                             *)
EXTENDS ItineraryModification, TLC

\* Every request is for the same course.
OneCourse == [j \in Jobs |-> 1]

HandlerSymmetry == Permutations(Handlers)

JobSymmetry == Permutations(Jobs)

JobAndHandlerSymmetry == Permutations(Handlers) \union Permutations(Jobs)
=============================================================================
