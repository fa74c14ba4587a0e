----------------------------- MODULE EventLog -----------------------------
(***************************************************************************)
(* What the storage writer promises, with queues, thread and handlers left *)
(* out: an event is accepted once or refused; what was accepted waits;     *)
(* the oldest of each lane are written together in their order, all of     *)
(* them or none, at most a batch at a time, or are dropped together; only  *)
(* the end of the process takes all that wait.                             *)
(***************************************************************************)
EXTENDS Naturals, Sequences

CONSTANTS Lanes,  \* a set of sets of events: each lane keeps its order
          Batch   \* the most events of one transaction

VARIABLES accepted,  \* the events taken, in order
          written,   \* the events of the database, in order
          lost       \* the events that will never be written

vars == <<accepted, written, lost>>

Event == UNION Lanes
Held(s) == {s[i] : i \in DOMAIN s}
Waiting == Held(accepted) \ (Held(written) \cup lost)
New == Event \ (Held(accepted) \cup lost)

\* a was accepted before b, in the same lane.
Older(a, b) ==
  /\ \E lane \in Lanes : a \in lane /\ b \in lane
  /\ \E i, j \in DOMAIN accepted : i < j /\ accepted[i] = a /\ accepted[j] = b

\* A batch leaves nobody behind who is older.
Batches ==
  {b \in UNION {[1..n -> Waiting] : n \in 1..Batch} :
     \A i \in DOMAIN b : \A a \in Waiting : Older(a, b[i]) => a \in Held(b)}

Init == /\ accepted = <<>>
        /\ written = <<>>
        /\ lost = {}

Accept(e) == /\ e \in New
             /\ accepted' = Append(accepted, e)
             /\ UNCHANGED <<written, lost>>

Refuse(e) == /\ e \in New
             /\ lost' = lost \cup {e}
             /\ UNCHANGED <<accepted, written>>

Write(b) == /\ \A i, j \in DOMAIN b : i < j => b[i] # b[j] /\ ~Older(b[j], b[i])
            /\ written' = written \o b
            /\ UNCHANGED <<accepted, lost>>

Drop(b) == /\ lost' = lost \cup Held(b)
           /\ UNCHANGED <<accepted, written>>

\* Events that nobody has accepted yet may go with those that wait.
Crash(unsent) == /\ lost' = lost \cup Waiting \cup unsent
                 /\ UNCHANGED <<accepted, written>>

Next == \/ \E e \in Event : Accept(e) \/ Refuse(e)
        \/ \E b \in Batches : Write(b) \/ Drop(b)
        \/ \E unsent \in SUBSET New : Crash(unsent)

Spec == Init /\ [][Next]_vars
===========================================================================
