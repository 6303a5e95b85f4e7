------------------------------ MODULE BullQueue ------------------------------
(***************************************************************************)
(* A BullMQ queue as this server uses it: entries are added with the       *)
(* option attempts, one worker with concurrency 1 takes them one at a      *)
(* time, a processor that throws is tried again after a delay, and an      *)
(* entry whose worker disappeared is handed out once more.                 *)
(*                                                                         *)
(* Entries are never removed from the model: the sequence is the history   *)
(* of the queue.                                                           *)
(***************************************************************************)
EXTENDS Sequences, Naturals

CONSTANTS
  Attempts,  \* BullMQ "attempts" of an entry (3 in the code)
  MaxAdds    \* bound: entries ever added

ASSUME QueueAssumption == Attempts \in Nat \ {0} /\ MaxAdds \in Nat

VARIABLE queue

\* BullMQ's default maxStalledCount.
MaxStalls == 1

EntryStates == {"waiting", "active", "completed", "failed"}

EntryOf(Data) == [data : Data, state : EntryStates, made : Nat, stalls : Nat]

NewEntry(data) == [data |-> data, state |-> "waiting", made |-> 0, stalls |-> 0]

Add(data) ==
  /\ Len(queue) < MaxAdds
  /\ queue' = Append(queue, NewEntry(data))

SetEntry(i, state) == queue' = [queue EXCEPT ![i].state = state]

\* The processor threw: BullMQ delays the entry and tries it again, Attempts
\* times in all.
TriedAgain(e) ==
  [e EXCEPT !.made  = @ + 1,
            !.state = IF e.made + 1 < Attempts THEN "waiting" ELSE "failed"]

\* The worker disappeared with the entry.
Stalled(e) ==
  [e EXCEPT !.stalls = @ + 1,
            !.state  = IF e.stalls < MaxStalls THEN "waiting" ELSE "failed"]

\* The process restarts; what is in Redis stays.
StallActive ==
  queue' = [i \in DOMAIN queue |->
              IF queue[i].state = "active" THEN Stalled(queue[i]) ELSE queue[i]]
=============================================================================
