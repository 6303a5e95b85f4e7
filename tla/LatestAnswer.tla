---------------------------- MODULE LatestAnswer ----------------------------
(***************************************************************************)
(* What answering a survey promises to a user who may answer it again:     *)
(* only the latest answer that was stored has a job and recommendations;   *)
(* an answer that was replaced never comes back; a job is SUCCESS only     *)
(* with recommendations.  Where the environment is orderly, a job besides  *)
(* goes forward only, its recommendations are saved once, and it ends      *)
(* once.                                                                   *)
(***************************************************************************)
EXTENDS Naturals

CONSTANT Answers

VARIABLES orderly,   \* nothing is repeated and nothing overtakes, for a behaviour
          answered,  \* answers that were stored, or refused
          latest,    \* the answer that counts, if there is one
          status,    \* what the status endpoint answers
          saved      \* how often recommendations of a job were saved

answerVars == <<orderly, answered, latest, status, saved>>

Init ==
  /\ orderly \in BOOLEAN
  /\ answered = {}
  /\ latest = {}
  /\ status = [a \in Answers |-> "ABSENT"]
  /\ saved = [a \in Answers |-> 0]

\* The answer takes the place of the one before, and of all it had.
Replace(a) ==
  /\ a \notin answered
  /\ answered' = answered \union {a}
  /\ latest' = {a}
  /\ status' = [b \in Answers |-> "ABSENT"]
  /\ saved' = [b \in Answers |-> 0]
  /\ UNCHANGED orderly

Refuse ==
  /\ answered \subseteq answered'
  /\ UNCHANGED <<orderly, latest, status, saved>>

Move(a, from, to) ==
  /\ a \in latest
  /\ status[a] \in from
  /\ status' = [status EXCEPT ![a] = to]
  /\ UNCHANGED <<orderly, answered, latest, saved>>

Save(a) ==
  /\ a \in latest
  /\ saved' = [saved EXCEPT ![a] = @ + 1]
  /\ UNCHANGED <<orderly, answered, latest, status>>

Create(a) == Move(a, {"ABSENT"}, "PENDING")

Start(a) == Move(a, {"PENDING"}, "PROCESSING")

Recommend(a) == status[a] = "PROCESSING" /\ saved[a] = 0 /\ Save(a)

Succeed(a) == saved[a] > 0 /\ Move(a, {"PROCESSING"}, "SUCCESS")

Fail(a) == Move(a, {"PENDING", "PROCESSING"}, "FAILED")

\* A worker, a callback or the cron that was overtaken saves what it holds.
Disorder(a) ==
  /\ ~ orderly
  /\ status[a] # "ABSENT"
  /\ \/ Save(a)
     \/ \E to \in {"PROCESSING", "SUCCESS", "FAILED"} :
          /\ to = "SUCCESS" => saved[a] > 0
          /\ Move(a, {"PENDING", "PROCESSING", "SUCCESS", "FAILED"}, to)

Next ==
  \/ \E a \in Answers :
       \/ Replace(a) \/ Create(a) \/ Start(a) \/ Recommend(a) \/ Succeed(a) \/ Fail(a)
       \/ Disorder(a)
  \/ Refuse

Spec == Init /\ [][Next]_answerVars
=============================================================================
