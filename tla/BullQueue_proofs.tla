--------------------------- MODULE BullQueue_proofs ---------------------------
(* What the operations of BullQueue leave in the queue, for any data.      *)
EXTENDS BullQueue, TLAPS

\* An entry has its data and a position.
LEMMA EntryData ==
  ASSUME NEW Data, queue \in Seq(EntryOf(Data)), NEW i \in DOMAIN queue
  PROVE  /\ queue[i] \in EntryOf(Data)
         /\ queue[i].data \in Data
         /\ i \in Nat \ {0}
<1>1. queue[i] \in EntryOf(Data)
  OBVIOUS
<1>2. i \in Nat \ {0}
  OBVIOUS
<1>. QED
  BY <1>1, <1>2 DEF EntryOf

\* Adding keeps the queue a sequence of entries, and the entries it had; the
\* new one waits.
LEMMA AddType ==
  ASSUME NEW Data, queue \in Seq(EntryOf(Data)), NEW data \in Data, Add(data)
  PROVE  /\ queue' \in Seq(EntryOf(Data))
         /\ DOMAIN queue \subseteq DOMAIN queue'
         /\ \A i \in DOMAIN queue : queue'[i] = queue[i]
         /\ \E i \in DOMAIN queue' :
              queue'[i].data = data /\ queue'[i].state = "waiting"
<1>1. NewEntry(data) \in EntryOf(Data)
  BY DEF NewEntry, EntryOf, EntryStates
<1>2. queue' = Append(queue, NewEntry(data))
  BY DEF Add
<1>3. /\ queue' \in Seq(EntryOf(Data))
      /\ Len(queue) \in Nat
      /\ DOMAIN queue' = 1..(Len(queue) + 1)
      /\ queue'[Len(queue) + 1] = NewEntry(data)
      /\ \A i \in DOMAIN queue : i \in DOMAIN queue' /\ queue'[i] = queue[i]
  BY <1>1, <1>2
<1>4. NewEntry(data).data = data /\ NewEntry(data).state = "waiting"
  BY DEF NewEntry
<1>5. Len(queue) + 1 \in DOMAIN queue'
  BY <1>3
<1>. QED
  BY <1>3, <1>4, <1>5

\* A new state leaves the entries where they are, with their data.
LEMMA SetEntryType ==
  ASSUME NEW Data, queue \in Seq(EntryOf(Data)), NEW i \in DOMAIN queue,
         NEW state \in EntryStates, SetEntry(i, state)
  PROVE  queue' \in Seq(EntryOf(Data)) /\ DOMAIN queue' = DOMAIN queue
<1>1. queue[i] \in EntryOf(Data)
  OBVIOUS
<1>2. [queue[i] EXCEPT !.state = state] \in EntryOf(Data)
  BY <1>1 DEF EntryOf
<1>. QED
  BY <1>2 DEF SetEntry

\* What BullMQ does to an entry leaves an entry with the same data.
LEMMA EntryChanges ==
  ASSUME NEW Data, NEW e \in EntryOf(Data)
  PROVE  /\ TriedAgain(e) \in EntryOf(Data) /\ TriedAgain(e).data = e.data
         /\ Stalled(e) \in EntryOf(Data) /\ Stalled(e).data = e.data
<1>1. e.made + 1 \in Nat /\ e.stalls + 1 \in Nat
  BY DEF EntryOf, EntryStates
<1>2. TriedAgain(e) \in EntryOf(Data) /\ TriedAgain(e).data = e.data
  BY <1>1 DEF TriedAgain, EntryOf, EntryStates
<1>3. Stalled(e) \in EntryOf(Data) /\ Stalled(e).data = e.data
  BY <1>1 DEF Stalled, EntryOf, EntryStates
<1>. QED
  BY <1>2, <1>3

\* So does a throw, and so does a restart of the process.
LEMMA ThrowType ==
  ASSUME NEW Data, queue \in Seq(EntryOf(Data)), NEW i \in DOMAIN queue,
         queue' = [queue EXCEPT ![i] = TriedAgain(queue[i])]
  PROVE  queue' \in Seq(EntryOf(Data)) /\ DOMAIN queue' = DOMAIN queue
<1>1. TriedAgain(queue[i]) \in EntryOf(Data)
  BY EntryChanges
<1>. QED
  BY <1>1

LEMMA StallType ==
  ASSUME NEW Data, queue \in Seq(EntryOf(Data)), StallActive
  PROVE  queue' \in Seq(EntryOf(Data)) /\ DOMAIN queue' = DOMAIN queue
<1>1. ASSUME NEW i \in DOMAIN queue
      PROVE  queue[i] \in EntryOf(Data) /\ Stalled(queue[i]) \in EntryOf(Data)
  BY <1>1, EntryChanges
<1>. QED
  BY <1>1 DEF StallActive
\* A restart takes no entry up that is used up, and changes no entry's data.
LEMMA StallLeavesTheUsedUp ==
  ASSUME NEW Data, queue \in Seq(EntryOf(Data)), StallActive, NEW i \in DOMAIN queue
  PROVE  /\ queue'[i].data = queue[i].data
         /\ queue[i].state \in {"completed", "failed"} => queue'[i] = queue[i]
<1>1. queue[i] \in EntryOf(Data)
  OBVIOUS
<1>. QED
  BY <1>1, EntryChanges DEF StallActive
=============================================================================
