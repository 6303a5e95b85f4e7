---------------------------- MODULE JobLifecycle ----------------------------
(***************************************************************************)
(* What an asynchronous job promises to the client that polls it: it is    *)
(* created once, goes from PENDING to PROCESSING, possibly back for a      *)
(* retry, and ends once, in SUCCESS with exactly one result or in FAILED   *)
(* with none.                                                              *)
(***************************************************************************)
EXTENDS TLAPS

CONSTANT Jobs

VARIABLES status,  \* what the status endpoint answers
          results  \* the results that exist for a job

lifeVars == <<status, results>>

Init ==
  /\ status = [j \in Jobs |-> "ABSENT"]
  /\ results = [j \in Jobs |-> {}]

Move(j, from, to) ==
  /\ status[j] \in from
  /\ status' = [status EXCEPT ![j] = to]

Create(j) == Move(j, {"ABSENT"}, "PENDING") /\ UNCHANGED results

Start(j) == Move(j, {"PENDING"}, "PROCESSING") /\ UNCHANGED results

Retry(j) == Move(j, {"PROCESSING"}, "PENDING") /\ UNCHANGED results

Fail(j) == Move(j, {"PENDING", "PROCESSING"}, "FAILED") /\ UNCHANGED results

Succeed(j) ==
  /\ Move(j, {"PROCESSING"}, "SUCCESS")
  /\ results[j] = {}
  /\ \E n \in results'[j] : results' = [results EXCEPT ![j] = {n}]

Next ==
  \E j \in Jobs : Create(j) \/ Start(j) \/ Retry(j) \/ Fail(j) \/ Succeed(j)

Spec == Init /\ [][Next]_lifeVars

-----------------------------------------------------------------------------
(* What a client may rely on, whichever pipeline the job belongs to: the   *)
(* proofs of ItineraryGeneration and ItineraryModification show that their *)
(* jobs live this life, and inherit the theorems.                          *)

\* A job that ended in SUCCESS has one result, every other has none.
ResultsMatch ==
  \A j \in Jobs : IF status[j] = "SUCCESS" THEN \E n : results[j] = {n}
                                           ELSE results[j] = {}

\* The end is the end: a job in SUCCESS or FAILED keeps its status and its result.
EndIsFinal ==
  [][\A j \in Jobs : status[j] \in {"SUCCESS", "FAILED"} =>
        status'[j] = status[j] /\ results'[j] = results[j]]_lifeVars

\* Every job has a status and a set of results.
Shape == status = [j \in Jobs |-> status[j]] /\ results = [j \in Jobs |-> results[j]]

\* A step moves one job, which is not at its end; the results of no other change,
\* nor its own unless it succeeds.
LEMMA StepOfAJob ==
  ASSUME Shape, Next
  PROVE  /\ Shape'
         /\ \E j \in Jobs :
              /\ status[j] \notin {"SUCCESS", "FAILED"}
              /\ \A k \in Jobs \ {j} : status'[k] = status[k] /\ results'[k] = results[k]
              /\ \/ status'[j] # "SUCCESS" /\ results'[j] = results[j]
                 \/ status'[j] = "SUCCESS" /\ \E n : results'[j] = {n}
<1>1. PICK j \in Jobs : Create(j) \/ Start(j) \/ Retry(j) \/ Fail(j) \/ Succeed(j)
  BY DEF Next
<1>2. CASE Create(j) \/ Start(j) \/ Retry(j) \/ Fail(j)
  BY <1>2 DEF Create, Start, Retry, Fail, Move, Shape
<1>3. CASE Succeed(j)
  BY <1>3 DEF Succeed, Move, Shape
<1>. QED
  BY <1>1, <1>2, <1>3

\* A job that polls as SUCCESS has exactly one result, every other has none.
THEOREM ResultsCorrect == Spec => []ResultsMatch
<1>1. Init => Shape /\ ResultsMatch
  BY DEF Init, Shape, ResultsMatch
<1>2. Shape /\ ResultsMatch /\ [Next]_lifeVars => (Shape /\ ResultsMatch)'
  <2>1. CASE Next
    BY <2>1, StepOfAJob DEF ResultsMatch
  <2>2. CASE UNCHANGED lifeVars
    BY <2>2 DEF lifeVars, Shape, ResultsMatch
  <2>. QED
    BY <2>1, <2>2
<1>. QED
  BY <1>1, <1>2, PTL DEF Spec

\* No step changes the status or the result of a job that has ended.
THEOREM EndCorrect == Spec => EndIsFinal
<1>1. Init => Shape
  BY DEF Init, Shape
<1>2. Shape /\ [Next]_lifeVars => Shape'
  BY StepOfAJob DEF lifeVars, Shape
<1>3. Shape /\ [Next]_lifeVars =>
        [\A j \in Jobs : status[j] \in {"SUCCESS", "FAILED"} =>
            status'[j] = status[j] /\ results'[j] = results[j]]_lifeVars
  BY StepOfAJob
<1>. QED
  BY <1>1, <1>2, <1>3, PTL DEF Spec, EndIsFinal
=============================================================================
