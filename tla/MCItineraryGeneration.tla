----------------------- MODULE MCItineraryGeneration -----------------------
(* Instances of ItineraryGeneration for TLC.                               *)
EXTENDS ItineraryGeneration, TLC

\* Every job is for the same survey.
OneSurvey == [j \in Jobs |-> CHOOSE s \in Surveys : TRUE]

HandlerSymmetry == Permutations(Handlers)

JobAndHandlerSymmetry == Permutations(Handlers) \union Permutations(Jobs)
=============================================================================
