------------------------ MODULE StorageWriterProofs ------------------------
(* StorageWriter, for any number of handlers and events and any size of    *)
(* the queues and the batch: its states are well typed; every event the    *)
(* writer was given is in one place, exactly once; nobody overtakes in its *)
(* queue; the writer implements EventLog; and no wait is circular.         *)
EXTENDS StorageWriter, SequenceTheorems, TLAPS

---------------------------------------------------------------------------
(* Sequences of events: what they hold, and that they hold a probe once.   *)

Once(s) == \A i, j \in DOMAIN s : s[i] = s[j] => i = j \/ s[i] = Noise

LEMMA EmptyHolds ==
  ASSUME NEW S
  PROVE  <<>> \in Seq(S) /\ Elements(<<>>) = {} /\ Once(<<>>)
BY DEF Elements, Once

LEMMA AppendHolds ==
  ASSUME NEW S, NEW s \in Seq(S), NEW e \in S
  PROVE  /\ Append(s, e) \in Seq(S) /\ Len(Append(s, e)) = Len(s) + 1
         /\ Elements(Append(s, e)) = Elements(s) \cup {e}
         /\ Once(s) /\ (e \notin Elements(s) \/ e = Noise) => Once(Append(s, e))
<1>1. /\ Append(s, e) \in Seq(S) /\ Len(Append(s, e)) = Len(s) + 1
      /\ \A i \in 1..Len(s) : Append(s, e)[i] = s[i]
      /\ Append(s, e)[Len(s) + 1] = e
  BY AppendProperties
<1>2. DOMAIN s = 1..Len(s) /\ DOMAIN Append(s, e) = 1..(Len(s) + 1) /\ Len(s) \in Nat
  BY <1>1
<1>3. DOMAIN Append(s, e) = DOMAIN s \cup {Len(s) + 1}
  BY <1>2
<1>4. Elements(Append(s, e)) = Elements(s) \cup {e}
  BY <1>1, <1>2, <1>3 DEF Elements
<1>5. Once(s) /\ (e \notin Elements(s) \/ e = Noise) => Once(Append(s, e))
  BY <1>1, <1>2, <1>3 DEF Elements, Once
<1> QED BY <1>1, <1>4, <1>5

LEMMA HeadAndTail ==
  ASSUME NEW S, NEW s \in Seq(S), s # <<>>
  PROVE  /\ Head(s) \in S /\ Tail(s) \in Seq(S) /\ Len(Tail(s)) = Len(s) - 1
         /\ Elements(s) = {Head(s)} \cup Elements(Tail(s))
         /\ Once(s) => /\ Once(Tail(s))
                       /\ Head(s) \notin Elements(Tail(s)) \/ Head(s) = Noise
<1>1. /\ Head(s) \in S /\ Head(s) = s[1]
      /\ Tail(s) \in Seq(S) /\ Len(Tail(s)) = Len(s) - 1
      /\ \A i \in 1..Len(Tail(s)) : Tail(s)[i] = s[i + 1]
      /\ Len(s) \in Nat /\ Len(s) >= 1
  BY HeadTailProperties, EmptySeq
<1>2. DOMAIN s = 1..Len(s) /\ DOMAIN Tail(s) = 1..(Len(s) - 1)
  BY <1>1
<1>3. \A i \in DOMAIN s : i = 1 \/ (i - 1 \in DOMAIN Tail(s) /\ Tail(s)[i - 1] = s[i])
  BY <1>1, <1>2
<1>4. \A i \in DOMAIN Tail(s) : i + 1 \in DOMAIN s /\ Tail(s)[i] = s[i + 1] /\ i + 1 # 1
  BY <1>1, <1>2
<1>5. 1 \in DOMAIN s
  BY <1>1, <1>2
<1>6. Elements(s) = {Head(s)} \cup Elements(Tail(s))
  BY <1>1, <1>3, <1>4, <1>5 DEF Elements
<1>7. ASSUME Once(s) PROVE Once(Tail(s))
  <2> SUFFICES ASSUME NEW i \in DOMAIN Tail(s), NEW j \in DOMAIN Tail(s), Tail(s)[i] = Tail(s)[j]
               PROVE  i = j \/ Tail(s)[i] = Noise
    BY DEF Once
  <2>1. i + 1 = j + 1 \/ s[i + 1] = Noise
    BY <1>4, <1>7 DEF Once
  <2>2. i \in Nat /\ j \in Nat
    BY <1>1, <1>2
  <2> QED BY <1>4, <2>1, <2>2
<1>8. ASSUME Once(s), Head(s) \in Elements(Tail(s)) PROVE Head(s) = Noise
  BY <1>1, <1>4, <1>5, <1>8 DEF Once, Elements
<1> QED BY <1>1, <1>6, <1>7, <1>8

LEMMA ConcatHolds ==
  ASSUME NEW S, NEW s \in Seq(S), NEW t \in Seq(S)
  PROVE  /\ s \o t \in Seq(S)
         /\ Elements(s \o t) = Elements(s) \cup Elements(t)
         /\ Once(s) /\ Once(t) /\ Elements(s) \cap Elements(t) \subseteq {Noise} => Once(s \o t)
<1>1. /\ s \o t \in Seq(S) /\ Len(s) \in Nat /\ Len(t) \in Nat
      /\ DOMAIN s = 1..Len(s) /\ DOMAIN t = 1..Len(t)
      /\ DOMAIN (s \o t) = 1..(Len(s) + Len(t))
      /\ \A i \in 1..(Len(s) + Len(t)) : (s \o t)[i] = IF i <= Len(s) THEN s[i] ELSE t[i - Len(s)]
  BY ConcatProperties
<1>2. \A i \in DOMAIN (s \o t) :
        \/ i \in DOMAIN s /\ (s \o t)[i] = s[i]
        \/ i - Len(s) \in DOMAIN t /\ (s \o t)[i] = t[i - Len(s)]
  BY <1>1
<1>3. \A i \in DOMAIN s : i \in DOMAIN (s \o t) /\ (s \o t)[i] = s[i]
  BY <1>1
<1>4. ASSUME NEW i \in DOMAIN t
      PROVE  i + Len(s) \in DOMAIN (s \o t) /\ (s \o t)[i + Len(s)] = t[i]
  <2> DEFINE k == i + Len(s)
  <2>1. k \in 1..(Len(s) + Len(t)) /\ ~(k <= Len(s)) /\ k - Len(s) = i
    BY <1>1
  <2> HIDE DEF k
  <2>2. (s \o t)[k] = IF k <= Len(s) THEN s[k] ELSE t[k - Len(s)]
    BY <1>1, <2>1, Zenon
  <2>3. k \in DOMAIN (s \o t) /\ (s \o t)[k] = t[i]
    BY <1>1, <2>1, <2>2
  <2> QED BY <2>3 DEF k
<1>5. Elements(s \o t) = Elements(s) \cup Elements(t)
  <2>1. Elements(s \o t) \subseteq Elements(s) \cup Elements(t)
    BY <1>2 DEF Elements
  <2>2. Elements(s) \subseteq Elements(s \o t)
    BY <1>3, Zenon DEF Elements
  <2>3. \A i \in DOMAIN t : t[i] \in Elements(s \o t)
    BY <1>4, Zenon DEF Elements
  <2>4. Elements(t) \subseteq Elements(s \o t)
    BY <2>3 DEF Elements
  <2> QED BY <2>1, <2>2, <2>4
<1>6. ASSUME Once(s), Once(t), Elements(s) \cap Elements(t) \subseteq {Noise}
      PROVE  Once(s \o t)
  <2> SUFFICES ASSUME NEW i \in DOMAIN (s \o t), NEW j \in DOMAIN (s \o t),
                      (s \o t)[i] = (s \o t)[j], (s \o t)[i] # Noise
               PROVE  i = j
    BY DEF Once
  <2>1. CASE i \in DOMAIN s /\ (s \o t)[i] = s[i] /\ j \in DOMAIN s /\ (s \o t)[j] = s[j]
    BY <1>6, <2>1 DEF Once
  <2>2. CASE /\ i - Len(s) \in DOMAIN t /\ (s \o t)[i] = t[i - Len(s)]
             /\ j - Len(s) \in DOMAIN t /\ (s \o t)[j] = t[j - Len(s)]
    <3>1. i - Len(s) = j - Len(s)
      BY <1>6, <2>2 DEF Once
    <3> QED BY <1>1, <3>1
  <2>3. CASE /\ i \in DOMAIN s /\ (s \o t)[i] = s[i]
             /\ j - Len(s) \in DOMAIN t /\ (s \o t)[j] = t[j - Len(s)]
    BY <1>6, <2>3 DEF Elements
  <2>4. CASE /\ i - Len(s) \in DOMAIN t /\ (s \o t)[i] = t[i - Len(s)]
             /\ j \in DOMAIN s /\ (s \o t)[j] = s[j]
    BY <1>6, <2>4 DEF Elements
  <2> QED BY <1>2, <2>1, <2>2, <2>3, <2>4
<1> QED BY <1>1, <1>5, <1>6

---------------------------------------------------------------------------
(* Types. *)

Event == Probe \cup {Noise}

\* The batch is taken and written in one round of the loop, and nothing is in
\* the open transaction outside write_batch.
WriterInv ==
  /\ writer # "write" => inserted = <<>>
  /\ writer \in {"opening", "receive", "clean", "gone"} => batch = <<>>

LEMMA EventsAre ==
  /\ UrgentEvent \subseteq Event /\ LogEvent \subseteq Event
  /\ Noise \notin Probe
  /\ \A e \in Event : e \in Probe \/ e = Noise
BY WriterAssumptions DEF UrgentEvent, LogEvent, Event, Probe

LEMMA TodoTyped ==
  ASSUME TypeOK, NEW h \in Handler
  PROVE  /\ Todo(h) \in Seq(UrgentEvent)
         /\ handlers[h].pc # "idle" => Todo(h) = handlers[h].todo
         /\ handlers[h].pc = "send" => handlers[h] \in [pc: {"send"}, todo: Seq(UrgentEvent), locked: BOOLEAN]
<1>1. handlers[h] \in HandlerState
  BY DEF TypeOK
<1>2. CASE handlers[h].pc = "idle"
  BY <1>2, EmptyHolds DEF Todo
<1>3. CASE handlers[h].pc # "idle"
  BY <1>1, <1>3 DEF Todo, HandlerState
<1> QED BY <1>2, <1>3

LEMMA BecomeTyped ==
  ASSUME TypeOK, NEW h \in Handler, NEW s \in HandlerState, Become(h, s)
  PROVE  /\ handlers' \in [Handler -> HandlerState]
         /\ handlers'[h] = s
         /\ \A g \in Handler \ {h} : handlers'[g] = handlers[g]
BY DEF TypeOK, Become

LEMMA CallsTyped ==
  ASSUME NEW todo \in Calls
  PROVE  /\ todo \in Seq(UrgentEvent) /\ Once(todo)
         /\ Elements(todo) \subseteq Fresh \cup {Noise}
<1>1. PICK n \in 0..MaxSends : todo \in [1..n -> (Fresh \cap Urgent) \cup {Noise}]
  BY DEF Calls
<1>2. n \in Nat /\ (Fresh \cap Urgent) \cup {Noise} \subseteq UrgentEvent
  BY WriterAssumptions DEF UrgentEvent
<1>3. todo \in Seq((Fresh \cap Urgent) \cup {Noise})
  BY <1>1, <1>2
<1>4. todo \in Seq(UrgentEvent)
  BY <1>2, <1>3, SeqMonotonic
<1>5. Once(todo)
  BY DEF Calls, Once
<1>6. Elements(todo) \subseteq Fresh \cup {Noise}
  BY <1>1 DEF Elements
<1> QED BY <1>4, <1>5, <1>6

LEMMA NotedTyped ==
  ASSUME NEW s \in Seq(Probe), NEW e
  PROVE  Noted(s, e) \in Seq(Probe)
BY AppendHolds DEF Noted

\* The states a handler goes through.
LEMMA HandlerStates ==
  ASSUME NEW s \in Seq(UrgentEvent), NEW b \in BOOLEAN
  PROVE  /\ Idle \in HandlerState
         /\ [pc |-> "enter", todo |-> s] \in HandlerState
         /\ [pc |-> "send", todo |-> s, locked |-> b] \in HandlerState
BY DEF HandlerState, Idle

LEMMA HandlerTyped ==
  ASSUME TypeOK, NEW h \in Handler,
         \/ \E todo \in Calls : SubmitAnswer(h, todo) \/ BanAddress(h, todo)
         \/ AcquireChallenges(h) \/ Return(h)
  PROVE  TypeOK'
<1>1. UNCHANGED <<security, requests, writer, batch, inserted, accepted, committed, lost>>
  BY DEF SubmitAnswer, BanAddress, AcquireChallenges, Return, queues, history
<1>2. handlers' \in [Handler -> HandlerState]
  <2>1. ASSUME NEW todo \in Calls, SubmitAnswer(h, todo) \/ BanAddress(h, todo)
        PROVE  handlers' \in [Handler -> HandlerState]
    <3>1. /\ [pc |-> "enter", todo |-> todo] \in HandlerState
          /\ [pc |-> "send", todo |-> todo, locked |-> FALSE] \in HandlerState
      BY CallsTyped, HandlerStates
    <3> QED BY <2>1, <3>1, BecomeTyped DEF SubmitAnswer, BanAddress
  <2>2. CASE AcquireChallenges(h)
    <3>1. handlers[h].pc = "enter" /\ Become(h, [pc |-> "send", todo |-> handlers[h].todo, locked |-> TRUE])
      BY <2>2 DEF AcquireChallenges
    <3>2. handlers[h].todo \in Seq(UrgentEvent)
      BY <3>1, TodoTyped
    <3>3. [pc |-> "send", todo |-> handlers[h].todo, locked |-> TRUE] \in HandlerState
      BY <3>2, HandlerStates
    <3> QED BY <3>1, <3>3, BecomeTyped
  <2>3. CASE Return(h)
    <3>1. Idle \in HandlerState
      BY DEF HandlerState, Idle
    <3> QED BY <2>3, <3>1, BecomeTyped DEF Return
  <2> QED BY <2>1, <2>2, <2>3
<1>3. lock' \in Handler \cup {NoOne}
  BY DEF SubmitAnswer, BanAddress, AcquireChallenges, Return, Released, TypeOK
<1> QED BY <1>1, <1>2, <1>3 DEF TypeOK

\* What one send changes, with the event it sends.
LEMMA SendTyped ==
  ASSUME TypeOK, NEW h \in Handler, Send(h)
  PROVE  TypeOK'
<1> DEFINE hs == handlers[h]
           ns == [hs EXCEPT !.todo = Tail(hs.todo)]
           e == Head(hs.todo)
<1>1. hs.pc = "send" /\ hs.todo # <<>> /\ Become(h, ns)
  BY DEF Send
<1>2. hs \in [pc: {"send"}, todo: Seq(UrgentEvent), locked: BOOLEAN]
  BY <1>1, TodoTyped
<1>3. Tail(hs.todo) \in Seq(UrgentEvent) /\ e \in UrgentEvent
  BY <1>1, <1>2, HeadAndTail
<1>4. ns \in HandlerState
  BY <1>2, <1>3 DEF HandlerState
<1>5. handlers' \in [Handler -> HandlerState]
  BY <1>1, <1>4, BecomeTyped
<1>6. UNCHANGED <<lock, requests, writer, batch, inserted, committed>>
  BY DEF Send
<1>7. \/ lost' = lost \cup ({e} \cap Probe) /\ UNCHANGED <<security, accepted>>
      \/ /\ Len(security) < SecurityCap /\ security' = Append(security, e)
         /\ accepted' = Noted(accepted, e) /\ UNCHANGED lost
  BY DEF Send
<1> HIDE DEF hs, ns, e
<1>8. /\ security' \in Seq(UrgentEvent) /\ Len(security') <= SecurityCap
      /\ accepted' \in Seq(Probe)
  <2>1. CASE UNCHANGED <<security, accepted>>
    BY <2>1 DEF TypeOK
  <2>2. CASE /\ Len(security) < SecurityCap /\ security' = Append(security, e)
             /\ accepted' = Noted(accepted, e)
    <3>1. security' \in Seq(UrgentEvent) /\ Len(security') = Len(security) + 1 /\ Len(security) \in Nat
      BY <1>3, <2>2, AppendHolds DEF TypeOK
    <3>2. Len(security') <= SecurityCap
      BY <2>2, <3>1, WriterAssumptions
    <3> QED BY <2>2, <3>1, <3>2, NotedTyped DEF TypeOK
  <2> QED BY <1>7, <2>1, <2>2
<1>9. lost' \subseteq Probe
  BY <1>7 DEF TypeOK
<1> QED BY <1>5, <1>6, <1>8, <1>9 DEF TypeOK

LEMMA RecordTyped ==
  ASSUME TypeOK, NEW h \in Handler, NEW e \in LogEvent, RecordRequest(h, e)
  PROVE  TypeOK'
<1>1. UNCHANGED <<handlers, lock, security, writer, batch, inserted, committed>>
  BY DEF RecordRequest
<1>2. \/ /\ Len(requests) < RequestCap /\ requests' = Append(requests, e)
         /\ accepted' = Noted(accepted, e) /\ UNCHANGED lost
      \/ lost' = lost \cup ({e} \cap Probe) /\ UNCHANGED <<requests, accepted>>
  BY DEF RecordRequest
<1>3. CASE Len(requests) < RequestCap /\ requests' = Append(requests, e)
             /\ accepted' = Noted(accepted, e) /\ UNCHANGED lost
  <2>1. requests' \in Seq(LogEvent) /\ Len(requests') = Len(requests) + 1 /\ Len(requests) \in Nat
    BY <1>3, AppendHolds DEF TypeOK
  <2>2. Len(requests') <= RequestCap
    BY <1>3, <2>1, WriterAssumptions
  <2>3. accepted' \in Seq(Probe)
    BY <1>3, NotedTyped DEF TypeOK
  <2> QED BY <1>1, <1>3, <2>1, <2>2, <2>3 DEF TypeOK
<1>4. CASE lost' = lost \cup ({e} \cap Probe) /\ UNCHANGED <<requests, accepted>>
  BY <1>1, <1>4 DEF TypeOK
<1> QED BY <1>2, <1>3, <1>4

\* The writer takes an event into its batch.
LEMMA TakeTyped ==
  ASSUME NEW S, S \subseteq Event, NEW q \in Seq(S), q # <<>>,
         NEW b \in Seq(Event), Len(b) < BatchSize
  PROVE  /\ Tail(q) \in Seq(S) /\ Len(Tail(q)) = Len(q) - 1 /\ Len(q) \in Nat
         /\ Append(b, Head(q)) \in Seq(Event) /\ Len(Append(b, Head(q))) <= BatchSize
<1>1. Head(q) \in Event /\ Tail(q) \in Seq(S) /\ Len(Tail(q)) = Len(q) - 1 /\ Len(q) \in Nat
  BY HeadAndTail
<1>2. Append(b, Head(q)) \in Seq(Event) /\ Len(Append(b, Head(q))) = Len(b) + 1 /\ Len(b) \in Nat
  BY <1>1, AppendHolds
<1>3. Len(Append(b, Head(q))) <= BatchSize
  BY <1>2, WriterAssumptions
<1> QED BY <1>1, <1>2, <1>3

LEMMA WriterTyped ==
  ASSUME TypeOK, WriterInv, WriterStep
  PROVE  TypeOK' /\ WriterInv'
<1>1. CASE OpenDatabase \/ Cleanup
  BY <1>1 DEF OpenDatabase, Cleanup, queues, history, TypeOK, WriterInv
<1>2. CASE CannotOpen
  BY <1>2, EmptyHolds, WriterAssumptions DEF CannotOpen, TypeOK, WriterInv
<1>3. CASE Receive \/ Fill
  <2>1. /\ UNCHANGED <<handlers, lock, requests, inserted, history>>
        /\ writer \in {"receive", "fill"} /\ writer' \in {"fill", "top"}
        /\ UNCHANGED <<security, batch>> \/ (TakeSecurity /\ Len(batch) < BatchSize)
    <3>1. writer = "receive" => Len(batch) < BatchSize
      BY WriterAssumptions, EmptySeq DEF WriterInv
    <3> QED BY <1>3, <3>1 DEF Receive, Fill, Room
  <2>2. WriterInv'
    BY <2>1 DEF WriterInv
  <2>3. CASE UNCHANGED <<security, batch>>
    BY <2>1, <2>2, <2>3 DEF TypeOK, history
  <2>4. CASE TakeSecurity /\ Len(batch) < BatchSize
    <3>1. /\ security' = Tail(security) /\ batch' = Append(batch, Head(security))
          /\ security # <<>>
      BY <2>4 DEF TakeSecurity, Taken
    <3>2. /\ security' \in Seq(UrgentEvent) /\ Len(security') = Len(security) - 1
          /\ Len(security) \in Nat
          /\ batch' \in Seq(Event) /\ Len(batch') <= BatchSize
      BY <2>4, <3>1, EventsAre, TakeTyped DEF TypeOK, Event
    <3>3. Len(security') <= SecurityCap
      BY <3>2, WriterAssumptions DEF TypeOK
    <3> QED BY <2>1, <2>2, <3>2, <3>3 DEF TypeOK, Event, history
  <2> QED BY <2>1, <2>3, <2>4
<1>4. CASE TopUp
  <2>1. /\ UNCHANGED <<handlers, lock, security, inserted, history>>
        /\ writer = "top" /\ writer' \in {"top", "write", "clean"}
        /\ writer' = "clean" => batch = <<>> /\ UNCHANGED batch
    BY <1>4 DEF TopUp
  <2>2. WriterInv'
    BY <2>1 DEF WriterInv
  <2>3. CASE UNCHANGED <<requests, batch>>
    BY <2>1, <2>2, <2>3 DEF TypeOK, history
  <2>4. CASE requests # <<>> /\ Room /\ batch' = Taken(Head(requests)) /\ requests' = Tail(requests)
    <3>1. /\ requests' \in Seq(LogEvent) /\ Len(requests') = Len(requests) - 1
          /\ Len(requests) \in Nat
          /\ batch' \in Seq(Event) /\ Len(batch') <= BatchSize
      BY <2>4, EventsAre, TakeTyped DEF TypeOK, Event, Room, Taken
    <3>2. Len(requests') <= RequestCap
      BY <3>1, WriterAssumptions DEF TypeOK
    <3> QED BY <2>1, <2>2, <3>1, <3>2 DEF TypeOK, Event, history
  <2> QED BY <1>4, <2>3, <2>4 DEF TopUp
<1>5. CASE Insert
  <2>1. /\ batch # <<>> /\ batch' = Tail(batch) /\ writer = "write"
        /\ inserted' = Noted(inserted, Head(batch))
        /\ UNCHANGED <<handlers, lock, security, requests, writer, accepted, committed, lost>>
    BY <1>5 DEF Insert, queues, history
  <2>2. batch' \in Seq(Event) /\ Len(batch') = Len(batch) - 1 /\ Len(batch) \in Nat
    BY <2>1, HeadAndTail DEF TypeOK, Event
  <2>3. Len(batch') <= BatchSize
    BY <2>2, WriterAssumptions DEF TypeOK
  <2>4. inserted' \in Seq(Probe)
    BY <2>1, NotedTyped DEF TypeOK
  <2> QED BY <2>1, <2>2, <2>3, <2>4 DEF TypeOK, WriterInv, Event
<1>6. CASE Commit
  <2>1. committed' \in Seq(Probe)
    BY <1>6, ConcatHolds DEF Commit, TypeOK
  <2>2. inserted' = <<>> /\ inserted' \in Seq(Probe)
    BY <1>6, EmptyHolds DEF Commit
  <2> QED BY <1>6, <2>1, <2>2 DEF Commit, TypeOK, WriterInv, queues
<1>7. CASE WriteFails
  <2>1. /\ inserted' = <<>> /\ inserted' \in Seq(Probe)
        /\ batch' = <<>> /\ batch' \in Seq(Event) /\ Len(batch') = 0
    BY <1>7, EmptyHolds DEF WriteFails, RolledBack
  <2>2. Len(batch') <= BatchSize
    BY <2>1, WriterAssumptions
  <2> QED BY <1>7, <2>1, <2>2 DEF WriteFails, RolledBack, TypeOK, WriterInv, queues, Event
<1> QED BY <1>1, <1>2, <1>3, <1>4, <1>5, <1>6, <1>7 DEF WriterStep

LEMMA TypeStep ==
  ASSUME TypeOK, WriterInv, [Next]_vars
  PROVE  TypeOK' /\ WriterInv'
<1>1. ASSUME NEW h \in Handler,
             \/ \E todo \in Calls : SubmitAnswer(h, todo) \/ BanAddress(h, todo)
             \/ AcquireChallenges(h) \/ Return(h) \/ Send(h)
             \/ \E e \in LogEvent : RecordRequest(h, e)
      PROVE  TypeOK' /\ WriterInv'
  <2>1. UNCHANGED <<writer, batch, inserted>>
    BY <1>1 DEF SubmitAnswer, BanAddress, AcquireChallenges, Return, Send, RecordRequest
  <2>2. WriterInv'
    BY <2>1 DEF WriterInv
  <2> QED BY <1>1, <2>2, HandlerTyped, SendTyped, RecordTyped
<1>2. CASE Restart
  <2>1. /\ security' = <<>> /\ requests' = <<>> /\ batch' = <<>> /\ inserted' = <<>>
        /\ lost' \subseteq Probe /\ lock' = NoOne /\ writer' = "opening"
        /\ UNCHANGED <<accepted, committed>>
    BY <1>2 DEF Restart, TypeOK
  <2>2. handlers' \in [Handler -> HandlerState]
    BY <1>2 DEF Restart, Idle, HandlerState
  <2> QED BY <2>1, <2>2, EmptyHolds, WriterAssumptions DEF TypeOK, WriterInv
<1>3. CASE UNCHANGED vars
  BY <1>3 DEF vars, history, TypeOK, WriterInv
<1> QED BY <1>1, <1>2, <1>3, WriterTyped DEF Next

LEMMA TypeInit ==
  ASSUME Init
  PROVE  TypeOK /\ WriterInv
<1>1. handlers \in [Handler -> HandlerState]
  BY DEF Init, Idle, HandlerState
<1> QED BY <1>1, EmptyHolds, WriterAssumptions DEF Init, TypeOK, WriterInv

\* The states are well typed; no queue and no batch exceeds its limit.
THEOREM TypeCorrect == Spec => []TypeOK
<1>1. Init => TypeOK /\ WriterInv
  BY TypeInit
<1>2. TypeOK /\ WriterInv /\ [Next]_vars => TypeOK' /\ WriterInv'
  BY TypeStep
<1> QED BY <1>1, <1>2, PTL DEF Spec

---------------------------------------------------------------------------
(* Every event is in one place, once. *)

Disjoint(A, B) == A \cap B \subseteq {Noise}

\* The places an accepted event goes through, each apart from the later ones.
Apart ==
  /\ Disjoint(Elements(security), Elements(requests) \cup Elements(batch)
                                    \cup Elements(inserted) \cup Settled)
  /\ Disjoint(Elements(requests), Elements(batch) \cup Elements(inserted) \cup Settled)
  /\ Disjoint(Elements(batch), Elements(inserted) \cup Settled)
  /\ Disjoint(Elements(inserted), Settled)
  /\ Disjoint(Elements(committed), lost)

EachOnce == Once(security) /\ Once(requests) /\ Once(batch) /\ Once(inserted) /\ Once(committed)

\* What a handler has still to send is nowhere else.
TodosApart ==
  /\ \A h \in Handler :
       /\ Once(Todo(h))
       /\ Elements(Todo(h)) \subseteq Event
       /\ Disjoint(Elements(Todo(h)), Elements(accepted) \cup lost)
  /\ \A g, h \in Handler : g # h => Disjoint(Elements(Todo(g)), Elements(Todo(h)))

\* Nothing that was accepted disappears, and nothing is written that was not.
Conserved == Elements(accepted) \subseteq InFlight \cup Settled
Known == InFlight \cup Elements(committed) \subseteq Elements(accepted) \cup {Noise}

OnceInv == Apart /\ EachOnce /\ TodosApart /\ Conserved /\ Known

LEMMA HoldsTyped ==
  ASSUME NEW S, NEW s \in Seq(S)
  PROVE  Elements(s) \subseteq S
<1>1. DOMAIN s = 1..Len(s)
  BY LenProperties
<1> QED BY <1>1, ElementOfSeq DEF Elements

\* What the sets hold by their types.
LEMMA PlacesTyped ==
  ASSUME TypeOK
  PROVE  /\ Elements(security) \subseteq UrgentEvent /\ Elements(requests) \subseteq LogEvent
         /\ Elements(batch) \subseteq Event
         /\ Elements(inserted) \subseteq Probe /\ Elements(accepted) \subseteq Probe
         /\ Elements(committed) \subseteq Probe /\ lost \subseteq Probe
         /\ Noise \notin Probe
BY HoldsTyped, EventsAre DEF TypeOK, Event

\* A step of the writer moves events on: the handlers see nothing of it.
LEMMA WriterMoves ==
  ASSUME TypeOK, OnceInv, UNCHANGED <<handlers, accepted>>,
         Apart', EachOnce',
         (InFlight \cup Elements(committed))' \subseteq InFlight \cup Elements(committed) \cup {Noise},
         (InFlight \cup Settled) \ {Noise} \subseteq (InFlight \cup Settled)',
         lost' \subseteq lost \cup InFlight
  PROVE  OnceInv'
<1>1. Elements(accepted)' = Elements(accepted) /\ \A h \in Handler : Todo(h)' = Todo(h)
  BY DEF Todo
<1>2. Conserved'
  BY <1>1, PlacesTyped DEF OnceInv, Conserved
<1>3. Known'
  BY <1>1 DEF OnceInv, Known
<1>4. lost' \subseteq lost \cup Elements(accepted) \cup {Noise}
  BY DEF OnceInv, Known
<1>5. TodosApart'
  BY <1>1, <1>4 DEF OnceInv, TodosApart, Disjoint
<1> QED BY <1>2, <1>3, <1>5 DEF OnceInv

LEMMA EmptyPlace == Elements(<<>>) = {} /\ Once(<<>>)
BY EmptyHolds

LEMMA WriterOnce ==
  ASSUME TypeOK, WriterInv, OnceInv, WriterStep
  PROVE  OnceInv'
<1>1. UNCHANGED <<handlers, accepted>>
  BY DEF WriterStep, OpenDatabase, CannotOpen, Receive, Fill, TopUp, Insert, Commit, WriteFails,
         Cleanup, history
<1>2. CASE UNCHANGED <<security, requests, batch, inserted, committed, lost>>
  BY <1>1, <1>2, WriterMoves DEF OnceInv, Apart, EachOnce, InFlight, Settled, Disjoint
<1>3. CASE CannotOpen
  <2>1. /\ Elements(security') = {} /\ Elements(requests') = {}
        /\ Once(security') /\ Once(requests')
        /\ UNCHANGED <<batch, inserted, committed>>
        /\ lost' = lost \cup ((Elements(security) \cup Elements(requests)) \cap Probe)
    BY <1>3, EmptyPlace DEF CannotOpen
  <2>2. Apart' /\ EachOnce'
    BY <2>1 DEF OnceInv, Apart, EachOnce, Settled, Disjoint
  <2>3. (InFlight \cup Settled) \ {Noise} \subseteq (InFlight \cup Settled)'
    BY <2>1, PlacesTyped, EventsAre DEF InFlight, Settled
  <2> QED BY <1>1, <2>1, <2>2, <2>3, WriterMoves DEF InFlight
<1>4. CASE TakeSecurity /\ UNCHANGED <<requests, inserted, committed, lost>>
  <2> DEFINE e == Head(security)
  <2>1. security # <<>> /\ security' = Tail(security) /\ batch' = Append(batch, e)
    BY <1>4 DEF TakeSecurity, Taken
  <2>2. /\ e \in UrgentEvent /\ Elements(security) = {e} \cup Elements(security')
        /\ Once(security') /\ (e \notin Elements(security') \/ e = Noise)
    BY <2>1, HeadAndTail DEF TypeOK, OnceInv, EachOnce
  <2> HIDE DEF e
  <2>3. e \notin Elements(batch) \/ e = Noise
    BY <2>2 DEF OnceInv, Apart, Disjoint
  <2>4. Elements(batch') = Elements(batch) \cup {e} /\ Once(batch')
    BY <2>1, <2>2, <2>3, AppendHolds, EventsAre DEF TypeOK, OnceInv, EachOnce, Event
  <2>5. Apart'
    <3>1. e = Noise \/ e \notin Elements(requests) \cup Elements(inserted) \cup Settled
      BY <2>2 DEF OnceInv, Apart, Disjoint
    <3>2. UNCHANGED <<Elements(requests), Elements(inserted), Settled, Elements(committed), lost>>
      BY <1>4 DEF Settled
    <3>3. Disjoint(Elements(security'), Elements(requests) \cup Elements(batch')
                                         \cup Elements(inserted) \cup Settled)
      BY <2>2, <2>4 DEF OnceInv, Apart, Disjoint
    <3>4. Disjoint(Elements(requests), Elements(batch') \cup Elements(inserted) \cup Settled)
      BY <2>4, <3>1 DEF OnceInv, Apart, Disjoint
    <3>5. Disjoint(Elements(batch'), Elements(inserted) \cup Settled)
      BY <2>4, <3>1 DEF OnceInv, Apart, Disjoint
    <3> QED BY <3>2, <3>3, <3>4, <3>5 DEF OnceInv, Apart
  <2>6. EachOnce'
    BY <1>4, <2>2, <2>4 DEF OnceInv, EachOnce
  <2> QED BY <1>1, <1>4, <2>2, <2>4, <2>5, <2>6, WriterMoves DEF InFlight, Settled
<1>5. CASE /\ requests # <<>> /\ batch' = Taken(Head(requests)) /\ requests' = Tail(requests)
           /\ UNCHANGED <<security, inserted, committed, lost>>
  <2> DEFINE e == Head(requests)
  <2>1. batch' = Append(batch, e)
    BY <1>5 DEF Taken
  <2>2. /\ e \in LogEvent /\ Elements(requests) = {e} \cup Elements(requests')
        /\ Once(requests') /\ (e \notin Elements(requests') \/ e = Noise)
    BY <1>5, HeadAndTail DEF TypeOK, OnceInv, EachOnce
  <2> HIDE DEF e
  <2>3. e \notin Elements(batch) \/ e = Noise
    BY <2>2 DEF OnceInv, Apart, Disjoint
  <2>4. Elements(batch') = Elements(batch) \cup {e} /\ Once(batch')
    BY <2>1, <2>2, <2>3, AppendHolds, EventsAre DEF TypeOK, OnceInv, EachOnce, Event
  <2>5. Apart'
    <3>1. e = Noise \/ e \notin Elements(security) \cup Elements(inserted) \cup Settled
      BY <2>2 DEF OnceInv, Apart, Disjoint
    <3>2. UNCHANGED <<Elements(security), Elements(inserted), Settled, Elements(committed), lost>>
      BY <1>5 DEF Settled
    <3>3. Disjoint(Elements(security), Elements(requests') \cup Elements(batch')
                                         \cup Elements(inserted) \cup Settled)
      BY <2>2, <2>4, <3>1 DEF OnceInv, Apart, Disjoint
    <3>4. Disjoint(Elements(requests'), Elements(batch') \cup Elements(inserted) \cup Settled)
      BY <2>2, <2>4 DEF OnceInv, Apart, Disjoint
    <3>5. Disjoint(Elements(batch'), Elements(inserted) \cup Settled)
      BY <2>4, <3>1 DEF OnceInv, Apart, Disjoint
    <3> QED BY <3>2, <3>3, <3>4, <3>5 DEF OnceInv, Apart
  <2>6. EachOnce'
    BY <1>5, <2>2, <2>4 DEF OnceInv, EachOnce
  <2> QED BY <1>1, <1>5, <2>2, <2>4, <2>5, <2>6, WriterMoves DEF InFlight, Settled
<1>6. CASE Insert
  <2> DEFINE e == Head(batch)
  <2>1. /\ batch # <<>> /\ batch' = Tail(batch) /\ inserted' = Noted(inserted, e)
        /\ UNCHANGED <<security, requests, committed, lost>>
    BY <1>6 DEF Insert, queues, history
  <2>2. /\ e \in Event /\ Elements(batch) = {e} \cup Elements(batch')
        /\ Once(batch') /\ (e \notin Elements(batch') \/ e = Noise)
    BY <2>1, HeadAndTail DEF TypeOK, OnceInv, EachOnce, Event
  <2> HIDE DEF e
  <2>3. e \notin Elements(inserted) \/ e = Noise
    BY <2>2 DEF OnceInv, Apart, Disjoint
  <2>4. Elements(inserted') = Elements(inserted) \cup ({e} \cap Probe) /\ Once(inserted')
    <3>1. CASE e \in Probe
      BY <2>1, <2>3, <3>1, AppendHolds DEF TypeOK, OnceInv, EachOnce, Noted
    <3>2. CASE e \notin Probe
      BY <2>1, <3>2 DEF OnceInv, EachOnce, Noted
    <3> QED BY <3>1, <3>2
  <2>5. Apart'
    <3>1. e = Noise \/ e \notin Elements(security) \cup Elements(requests) \cup Settled
      BY <2>2 DEF OnceInv, Apart, Disjoint
    <3>2. UNCHANGED <<Elements(security), Elements(requests), Settled, Elements(committed), lost>>
      BY <2>1 DEF Settled
    <3>3. Disjoint(Elements(security), Elements(requests) \cup Elements(batch')
                                         \cup Elements(inserted') \cup Settled)
      BY <2>2, <2>4, <3>1 DEF OnceInv, Apart, Disjoint
    <3>4. Disjoint(Elements(requests), Elements(batch') \cup Elements(inserted') \cup Settled)
      BY <2>2, <2>4, <3>1 DEF OnceInv, Apart, Disjoint
    <3>5. Disjoint(Elements(batch'), Elements(inserted') \cup Settled)
      BY <2>2, <2>4 DEF OnceInv, Apart, Disjoint
    <3>6. Disjoint(Elements(inserted'), Settled)
      BY <2>4, <3>1 DEF OnceInv, Apart, Disjoint
    <3> QED BY <3>2, <3>3, <3>4, <3>5, <3>6 DEF OnceInv, Apart
  <2>6. EachOnce'
    BY <2>1, <2>2, <2>4 DEF OnceInv, EachOnce
  <2>7. e \in Probe \/ e = Noise
    BY <2>2 DEF Event
  <2> QED BY <1>1, <2>1, <2>2, <2>4, <2>5, <2>6, <2>7, WriterMoves DEF InFlight, Settled
<1>7. CASE Commit
  <2>1. /\ committed' = committed \o inserted /\ inserted' = <<>>
        /\ UNCHANGED <<security, requests, batch, lost>>
    BY <1>7 DEF Commit, queues
  <2>2. /\ Elements(committed') = Elements(committed) \cup Elements(inserted)
        /\ Once(committed')
    <3>1. Elements(committed) \cap Elements(inserted) \subseteq {Noise}
      BY DEF OnceInv, Apart, Settled, Disjoint
    <3> QED BY <2>1, <3>1, ConcatHolds DEF TypeOK, OnceInv, EachOnce
  <2>3. Elements(inserted') = {} /\ Once(inserted')
    BY <2>1, EmptyPlace
  <2>4. Apart'
    BY <2>1, <2>2, <2>3 DEF OnceInv, Apart, Settled, Disjoint
  <2>5. EachOnce'
    BY <2>1, <2>2, <2>3 DEF OnceInv, EachOnce
  <2> QED BY <1>1, <2>1, <2>2, <2>3, <2>4, <2>5, WriterMoves DEF InFlight, Settled
<1>8. CASE WriteFails
  <2>1. /\ Elements(batch') = {} /\ Elements(inserted') = {}
        /\ Once(batch') /\ Once(inserted')
        /\ UNCHANGED <<security, requests, committed>>
        /\ lost' = lost \cup ((Elements(batch) \cup Elements(inserted)) \cap Probe)
    BY <1>8, EmptyPlace DEF WriteFails, RolledBack, queues
  <2>2. Apart' /\ EachOnce'
    BY <2>1 DEF OnceInv, Apart, EachOnce, Settled, Disjoint
  <2>3. (InFlight \cup Settled) \ {Noise} \subseteq (InFlight \cup Settled)'
    BY <2>1, PlacesTyped DEF InFlight, Settled, Event
  <2> QED BY <1>1, <2>1, <2>2, <2>3, WriterMoves DEF InFlight
<1>9. \/ UNCHANGED <<security, requests, batch, inserted, committed, lost>>
      \/ CannotOpen \/ Insert \/ Commit \/ WriteFails
      \/ TakeSecurity /\ UNCHANGED <<requests, inserted, committed, lost>>
      \/ /\ requests # <<>> /\ batch' = Taken(Head(requests)) /\ requests' = Tail(requests)
         /\ UNCHANGED <<security, inserted, committed, lost>>
  <2>1. CASE OpenDatabase \/ Cleanup
    BY <2>1 DEF OpenDatabase, Cleanup, queues, history
  <2>2. CASE Receive \/ Fill
    BY <2>2 DEF Receive, Fill, history
  <2>3. CASE TopUp
    BY <2>3 DEF TopUp, history
  <2> QED BY <2>1, <2>2, <2>3 DEF WriterStep
<1> QED BY <1>2, <1>3, <1>4, <1>5, <1>6, <1>7, <1>8, <1>9

\* The place of an event that is new: none.
LEMMA FreshIsNowhere ==
  ASSUME TypeOK, OnceInv, NEW e \in Fresh
  PROVE  /\ e \in Probe /\ e \notin InFlight \cup Settled \cup Elements(accepted)
         /\ \A h \in Handler : e \notin Elements(Todo(h))
<1>1. e \in Probe /\ e \notin Elements(accepted) /\ e \notin lost /\ e # Noise
  BY EventsAre DEF Fresh, Made
<1>2. \A h \in Handler : e \notin Elements(Todo(h))
  BY DEF Fresh, Made
<1>3. e \notin InFlight \cup Elements(committed)
  BY <1>1 DEF OnceInv, Known
<1> QED BY <1>1, <1>2, <1>3 DEF Settled

\* What a handler has to send once it has changed its state.
LEMMA TodoBecomes ==
  ASSUME TypeOK, NEW h \in Handler, NEW s \in Seq(UrgentEvent), NEW b \in BOOLEAN,
         \/ Become(h, [pc |-> "enter", todo |-> s])
         \/ Become(h, [pc |-> "send", todo |-> s, locked |-> b])
  PROVE  Todo(h)' = s /\ \A g \in Handler \ {h} : handlers'[g] = handlers[g]
<1> DEFINE enter == [pc |-> "enter", todo |-> s]
           send == [pc |-> "send", todo |-> s, locked |-> b]
<1>1. /\ enter \in HandlerState /\ enter.pc # "idle" /\ enter.todo = s
      /\ send \in HandlerState /\ send.pc # "idle" /\ send.todo = s
  BY HandlerStates
<1>2. Become(h, enter) \/ Become(h, send)
  OBVIOUS
<1> HIDE DEF enter, send
<1> QED BY <1>1, <1>2, BecomeTyped DEF Todo

\* A call of one handler changes what it has to send, and nothing else.
LEMMA HandlerOnce ==
  ASSUME TypeOK, OnceInv, NEW h \in Handler,
         \/ \E todo \in Calls : SubmitAnswer(h, todo) \/ BanAddress(h, todo)
         \/ AcquireChallenges(h) \/ Return(h)
  PROVE  OnceInv'
<1>1. UNCHANGED <<security, requests, batch, inserted, accepted, committed, lost>>
  BY DEF SubmitAnswer, BanAddress, AcquireChallenges, Return, queues, history
<1>2. UNCHANGED <<Apart, EachOnce, Conserved, Known>>
  BY <1>1 DEF Apart, EachOnce, Conserved, Known, InFlight, Settled
<1>3. ASSUME NEW todo, Todo(h)' = todo, \A g \in Handler \ {h} : handlers'[g] = handlers[g],
             Once(todo), Elements(todo) \subseteq Event,
             Disjoint(Elements(todo), Elements(accepted) \cup lost),
             \A g \in Handler \ {h} : Disjoint(Elements(Todo(g)), Elements(todo))
      PROVE  TodosApart'
  <2>1. \A g \in Handler \ {h} : Todo(g)' = Todo(g)
    BY <1>3 DEF Todo
  <2> QED BY <1>1, <1>3, <2>1 DEF OnceInv, TodosApart, Disjoint
<1>4. ASSUME NEW todo \in Calls, SubmitAnswer(h, todo) \/ BanAddress(h, todo)
      PROVE  TodosApart'
  <2>1. todo \in Seq(UrgentEvent) /\ Once(todo) /\ Elements(todo) \subseteq Fresh \cup {Noise}
    BY CallsTyped
  <2>2. Todo(h)' = todo /\ \A g \in Handler \ {h} : handlers'[g] = handlers[g]
    <3>1. \/ Become(h, [pc |-> "enter", todo |-> todo])
          \/ Become(h, [pc |-> "send", todo |-> todo, locked |-> FALSE])
      BY <1>4 DEF SubmitAnswer, BanAddress
    <3> QED BY <2>1, <3>1, TodoBecomes
  <2>3. Elements(todo) \subseteq Event
    BY <2>1, FreshIsNowhere DEF Event
  <2>4. Disjoint(Elements(todo), Elements(accepted) \cup lost)
    BY <2>1, FreshIsNowhere DEF Disjoint, Settled
  <2>5. \A g \in Handler : Disjoint(Elements(Todo(g)), Elements(todo))
    BY <2>1, FreshIsNowhere DEF Disjoint
  <2> QED BY <1>3, <2>1, <2>2, <2>3, <2>4, <2>5
<1>5. ASSUME AcquireChallenges(h) \/ Return(h)
      PROVE  TodosApart'
  <2>1. Todo(h)' = Todo(h) /\ \A g \in Handler \ {h} : handlers'[g] = handlers[g]
    <3>1. CASE AcquireChallenges(h)
      <4>1. /\ handlers[h].pc = "enter"
            /\ Become(h, [pc |-> "send", todo |-> handlers[h].todo, locked |-> TRUE])
        BY <3>1 DEF AcquireChallenges
      <4>2. handlers[h].todo = Todo(h) /\ Todo(h) \in Seq(UrgentEvent)
        BY <4>1, TodoTyped
      <4> QED BY <4>1, <4>2, TodoBecomes
    <3>2. CASE Return(h)
      <4>1. handlers[h].pc = "send" /\ handlers[h].todo = <<>> /\ Become(h, Idle)
        BY <3>2 DEF Return
      <4>2. Todo(h) = <<>>
        BY <4>1 DEF Todo
      <4>3. Idle \in HandlerState /\ Idle.pc = "idle"
        BY DEF Idle, HandlerState
      <4>4. handlers'[h] = Idle /\ \A g \in Handler \ {h} : handlers'[g] = handlers[g]
        BY <4>1, <4>3, BecomeTyped
      <4> QED BY <4>2, <4>3, <4>4 DEF Todo
    <3> QED BY <1>5, <3>1, <3>2
  <2> QED BY <1>3, <2>1 DEF OnceInv, TodosApart, Disjoint
<1> QED BY <1>2, <1>4, <1>5 DEF OnceInv

\* An event that is taken by no queue yet: into one of them, or lost.
LEMMA SendOnce ==
  ASSUME TypeOK, OnceInv, NEW h \in Handler, Send(h)
  PROVE  OnceInv'
<1> DEFINE e == Head(Todo(h))
<1>1. handlers[h].pc = "send" /\ Todo(h) # <<>> /\ Todo(h) \in Seq(UrgentEvent)
  BY TodoTyped DEF Send
<1>2. /\ e \in UrgentEvent /\ Tail(Todo(h)) \in Seq(UrgentEvent)
      /\ Elements(Todo(h)) = {e} \cup Elements(Tail(Todo(h)))
      /\ Once(Tail(Todo(h)))
      /\ e \notin Elements(Tail(Todo(h))) \/ e = Noise
  BY <1>1, HeadAndTail DEF OnceInv, TodosApart
<1>3. Todo(h)' = Tail(Todo(h)) /\ \A g \in Handler \ {h} : Todo(g)' = Todo(g)
  <2> DEFINE hs == handlers[h]
             ns == [hs EXCEPT !.todo = Tail(hs.todo)]
  <2>1. hs.pc = "send" /\ hs.todo = Todo(h) /\ Become(h, ns)
    BY <1>1, TodoTyped DEF Send
  <2>2. hs \in [pc: {"send"}, todo: Seq(UrgentEvent), locked: BOOLEAN]
    BY <2>1, TodoTyped
  <2>3. ns \in HandlerState /\ ns.pc = "send" /\ ns.todo = Tail(Todo(h))
    BY <1>2, <2>1, <2>2 DEF HandlerState
  <2>4. handlers'[h] = ns /\ \A g \in Handler \ {h} : handlers'[g] = handlers[g]
    BY <2>1, <2>3, BecomeTyped
  <2> HIDE DEF ns
  <2> QED BY <2>3, <2>4 DEF Todo
<1>4. UNCHANGED <<requests, batch, inserted, committed>>
  BY DEF Send
<1>5. \/ lost' = lost \cup ({e} \cap Probe) /\ UNCHANGED <<security, accepted>>
      \/ /\ security' = Append(security, e)
         /\ accepted' = Noted(accepted, e) /\ UNCHANGED lost
  BY <1>1, TodoTyped DEF Send
<1>6. e = Noise \/ e \notin Elements(accepted) \cup lost
  BY <1>2 DEF OnceInv, TodosApart, Disjoint
<1>7. e = Noise \/ e \notin InFlight \cup Settled
  BY <1>6 DEF OnceInv, Known, Settled
<1>8. e \in Event
  BY <1>2, EventsAre
<1> HIDE DEF e
<1>9. \A g \in Handler : e = Noise \/ e \notin Elements(Todo(g)')
  BY <1>2, <1>3 DEF OnceInv, TodosApart, Disjoint
<1>10. ASSUME Elements(accepted') \cup lost' \subseteq Elements(accepted) \cup lost \cup {e}
       PROVE  TodosApart'
  <2>1. \A g \in Handler : Elements(Todo(g)') \subseteq Elements(Todo(g)) /\ Once(Todo(g)')
    BY <1>2, <1>3 DEF OnceInv, TodosApart
  <2> QED BY <1>9, <1>10, <2>1 DEF OnceInv, TodosApart, Disjoint
<1>11. CASE lost' = lost \cup ({e} \cap Probe) /\ UNCHANGED <<security, accepted>>
  <2>1. Apart'
    BY <1>4, <1>7, <1>11 DEF OnceInv, Apart, Disjoint, InFlight, Settled
  <2>2. EachOnce' /\ Conserved' /\ Known'
    BY <1>4, <1>11 DEF OnceInv, EachOnce, Conserved, Known, InFlight, Settled
  <2> QED BY <1>10, <1>11, <2>1, <2>2 DEF OnceInv
<1>12. CASE security' = Append(security, e) /\ accepted' = Noted(accepted, e) /\ UNCHANGED lost
  <2>1. Elements(security') = Elements(security) \cup {e} /\ Once(security')
    BY <1>2, <1>7, <1>12, AppendHolds DEF TypeOK, OnceInv, EachOnce, InFlight, e
  <2>2. Elements(accepted') = Elements(accepted) \cup ({e} \cap Probe)
    BY <1>12, AppendHolds DEF TypeOK, Noted
  <2>3. Apart'
    BY <1>4, <1>7, <1>12, <2>1 DEF OnceInv, Apart, Disjoint, InFlight, Settled
  <2>4. EachOnce'
    BY <1>4, <2>1 DEF OnceInv, EachOnce
  <2>5. Conserved' /\ Known'
    BY <1>4, <1>8, <1>12, <2>1, <2>2
    DEF OnceInv, Conserved, Known, InFlight, Settled, Event
  <2> QED BY <1>10, <1>12, <2>2, <2>3, <2>4, <2>5 DEF OnceInv
<1> QED BY <1>5, <1>11, <1>12

LEMMA RecordOnce ==
  ASSUME TypeOK, OnceInv, NEW h \in Handler, NEW e \in LogEvent, RecordRequest(h, e)
  PROVE  OnceInv'
<1>1. UNCHANGED <<handlers, security, batch, inserted, committed>> /\ (e = Noise \/ e \in Fresh)
  BY DEF RecordRequest
<1>2. \A g \in Handler : Todo(g)' = Todo(g)
  BY <1>1 DEF Todo
<1>3. e = Noise \/ e \notin InFlight \cup Settled \cup Elements(accepted)
  BY <1>1, FreshIsNowhere
<1>4. e \in Event
  BY EventsAre
<1>5. ASSUME Elements(accepted') \cup lost' \subseteq Elements(accepted) \cup lost \cup {e}
      PROVE  TodosApart'
  <2>1. \A g \in Handler : e = Noise \/ e \notin Elements(Todo(g))
    BY <1>1, FreshIsNowhere
  <2> QED BY <1>2, <1>5, <2>1 DEF OnceInv, TodosApart, Disjoint
<1>6. CASE lost' = lost \cup ({e} \cap Probe) /\ UNCHANGED <<requests, accepted>>
  <2>1. Apart'
    BY <1>1, <1>3, <1>6 DEF OnceInv, Apart, Disjoint, InFlight, Settled
  <2>2. EachOnce' /\ Conserved' /\ Known'
    BY <1>1, <1>6 DEF OnceInv, EachOnce, Conserved, Known, InFlight, Settled
  <2> QED BY <1>5, <1>6, <2>1, <2>2 DEF OnceInv
<1>7. CASE requests' = Append(requests, e) /\ accepted' = Noted(accepted, e) /\ UNCHANGED lost
  <2>1. Elements(requests') = Elements(requests) \cup {e} /\ Once(requests')
    BY <1>3, <1>7, AppendHolds DEF TypeOK, OnceInv, EachOnce, InFlight
  <2>2. Elements(accepted') = Elements(accepted) \cup ({e} \cap Probe)
    BY <1>7, AppendHolds DEF TypeOK, Noted
  <2>3. Apart'
    BY <1>1, <1>3, <1>7, <2>1 DEF OnceInv, Apart, Disjoint, InFlight, Settled
  <2>4. EachOnce'
    BY <1>1, <2>1 DEF OnceInv, EachOnce
  <2>5. Conserved' /\ Known'
    BY <1>1, <1>4, <1>7, <2>1, <2>2
    DEF OnceInv, Conserved, Known, InFlight, Settled, Event
  <2> QED BY <1>5, <1>7, <2>2, <2>3, <2>4, <2>5 DEF OnceInv
<1> QED BY <1>6, <1>7 DEF RecordRequest

\* A restart loses what was not committed, and the calls themselves.
LEMMA RestartOnce ==
  ASSUME TypeOK, OnceInv, Restart
  PROVE  OnceInv'
<1> DEFINE todos == UNION {Elements(Todo(h)) : h \in Handler}
<1>1. /\ lost' = lost \cup ((InFlight \cup todos) \cap Probe)
      /\ UNCHANGED <<accepted, committed>>
  BY DEF Restart, InFlight
<1>2. /\ Elements(security') = {} /\ Elements(requests') = {}
      /\ Elements(batch') = {} /\ Elements(inserted') = {}
      /\ Once(security') /\ Once(requests') /\ Once(batch') /\ Once(inserted')
  BY EmptyPlace DEF Restart
<1>3. \A h \in Handler : Todo(h)' = <<>>
  BY DEF Restart, Todo, Idle
<1>4. Disjoint(todos, Elements(committed))
  <2>1. \A h \in Handler : Disjoint(Elements(Todo(h)), Elements(committed))
    BY DEF OnceInv, TodosApart, Known, Disjoint
  <2> QED BY <2>1 DEF Disjoint
<1> HIDE DEF todos
<1>5. Disjoint(InFlight, Elements(committed))
  BY DEF OnceInv, Apart, InFlight, Settled, Disjoint
<1>6. Apart'
  BY <1>1, <1>2, <1>4, <1>5 DEF OnceInv, Apart, Disjoint, Settled
<1>7. EachOnce'
  BY <1>1, <1>2 DEF OnceInv, EachOnce
<1>8. TodosApart'
  BY <1>3, EmptyPlace DEF TodosApart, Disjoint
<1>9. Conserved'
  BY <1>1, PlacesTyped DEF OnceInv, Conserved, Settled
<1>10. Known'
  BY <1>1, <1>2 DEF OnceInv, Known, InFlight
<1> QED BY <1>6, <1>7, <1>8, <1>9, <1>10 DEF OnceInv

LEMMA OnceStep ==
  ASSUME TypeOK, WriterInv, OnceInv, [Next]_vars
  PROVE  OnceInv'
<1>1. CASE UNCHANGED vars
  <2>1. UNCHANGED <<Apart, EachOnce, Conserved, Known>>
    BY <1>1 DEF vars, history, Apart, EachOnce, Conserved, Known, InFlight, Settled
  <2>2. UNCHANGED TodosApart
    BY <1>1 DEF vars, history, TodosApart, Todo
  <2> QED BY <2>1, <2>2 DEF OnceInv
<1> QED BY <1>1, WriterOnce, HandlerOnce, SendOnce, RecordOnce, RestartOnce DEF Next

LEMMA OnceInit == Init => TypeOK /\ WriterInv /\ OnceInv
<1> SUFFICES ASSUME Init PROVE OnceInv
  BY TypeInit
<1>1. \A h \in Handler : Todo(h) = <<>>
  BY DEF Init, Todo, Idle
<1>2. TodosApart
  BY <1>1, EmptyPlace DEF TodosApart, Disjoint
<1>3. Apart /\ EachOnce /\ Conserved /\ Known
  BY EmptyPlace DEF Init, Apart, EachOnce, Conserved, Known, Disjoint, InFlight, Settled
<1> QED BY <1>2, <1>3 DEF OnceInv

LEMMA OnceInvInductive ==
  TypeOK /\ WriterInv /\ OnceInv /\ [Next]_vars => TypeOK' /\ WriterInv' /\ OnceInv'
BY TypeStep, OnceStep

\* Every event a queue took is in one place, once: on its way to the database,
\* committed, or in a loss the code accepts.
THEOREM EventsAreKept == Spec => []EachEventOnce
<1>1. TypeOK /\ OnceInv => EachEventOnce
  <2> SUFFICES ASSUME TypeOK, OnceInv PROVE EachEventOnce
    OBVIOUS
  <2>1. InFlight \cap Settled \subseteq {Noise}
    BY DEF OnceInv, Apart, Disjoint, InFlight
  <2>2. Elements(committed) \cap lost = {}
    BY PlacesTyped DEF OnceInv, Apart, Disjoint
  <2> QED BY <2>1, <2>2 DEF OnceInv, Conserved, EachOnce, Once, EachEventOnce
<1> QED BY <1>1, OnceInit, OnceInvInductive, PTL DEF Spec

---------------------------------------------------------------------------
(* The order of the events. *)

LEMMA BeforeEmpty ==
  ASSUME NEW a, NEW b
  PROVE  ~Before(<<>>, a, b)
BY DEF Before

LEMMA BeforeAppend ==
  ASSUME NEW S, NEW s \in Seq(S), NEW e \in S, NEW a, NEW b
  PROVE  Before(Append(s, e), a, b) <=> Before(s, a, b) \/ (a \in Elements(s) /\ b = e)
<1> DEFINE t == Append(s, e)
           n == Len(s)
<1>1. /\ t \in Seq(S) /\ Len(t) = n + 1 /\ n \in Nat
      /\ \A i \in 1..n : t[i] = s[i]
      /\ t[n + 1] = e
  BY AppendProperties
<1>2. DOMAIN s = 1..n /\ DOMAIN t = 1..(n + 1)
  BY <1>1
<1> HIDE DEF t, n
<1>3. ASSUME Before(t, a, b)
      PROVE  Before(s, a, b) \/ (a \in Elements(s) /\ b = e)
  <2>1. PICK i \in 1..(n + 1), j \in 1..(n + 1) : i < j /\ t[i] = a /\ t[j] = b
    BY <1>2, <1>3 DEF Before
  <2>2. i \in 1..n /\ s[i] = a
    BY <1>1, <2>1
  <2>3. CASE j = n + 1
    BY <1>1, <1>2, <2>1, <2>2, <2>3 DEF Elements
  <2>4. CASE j # n + 1
    <3>1. j \in 1..n /\ s[j] = b
      BY <1>1, <2>1, <2>4
    <3> QED BY <1>2, <2>1, <2>2, <3>1 DEF Before
  <2> QED BY <2>3, <2>4
<1>4. ASSUME Before(s, a, b)
      PROVE  Before(t, a, b)
  <2>1. PICK i \in 1..n, j \in 1..n : i < j /\ s[i] = a /\ s[j] = b
    BY <1>2, <1>4 DEF Before
  <2>2. i \in 1..(n + 1) /\ j \in 1..(n + 1) /\ t[i] = a /\ t[j] = b
    BY <1>1, <2>1
  <2> QED BY <1>2, <2>1, <2>2 DEF Before
<1>5. ASSUME a \in Elements(s), b = e
      PROVE  Before(t, a, b)
  <2>1. PICK i \in 1..n : s[i] = a
    BY <1>2, <1>5 DEF Elements
  <2>2. i \in 1..(n + 1) /\ n + 1 \in 1..(n + 1) /\ i < n + 1 /\ t[i] = a /\ t[n + 1] = b
    BY <1>1, <1>5, <2>1
  <2> QED BY <1>2, <2>2 DEF Before
<1> QED BY <1>3, <1>4, <1>5 DEF t

LEMMA BeforeConcat ==
  ASSUME NEW S, NEW s \in Seq(S), NEW t \in Seq(S), NEW a, NEW b
  PROVE  Before(s \o t, a, b) <=> \/ Before(s, a, b) \/ Before(t, a, b)
                                  \/ a \in Elements(s) /\ b \in Elements(t)
<1> DEFINE u == s \o t
           m == Len(s)
           n == Len(t)
<1>1. /\ m \in Nat /\ n \in Nat
      /\ DOMAIN s = 1..m /\ DOMAIN t = 1..n /\ DOMAIN u = 1..(m + n)
      /\ \A i \in 1..(m + n) : u[i] = IF i <= m THEN s[i] ELSE t[i - m]
  BY ConcatProperties
<1> HIDE DEF u, m, n
<1>2. \A i \in 1..m : i \in 1..(m + n) /\ u[i] = s[i]
  BY <1>1
<1>3. \A i \in 1..n : i + m \in 1..(m + n) /\ u[i + m] = t[i]
  <2> SUFFICES ASSUME NEW i \in 1..n
               PROVE  i + m \in 1..(m + n) /\ u[i + m] = t[i]
    OBVIOUS
  <2> DEFINE k == i + m
  <2>1. k \in 1..(m + n) /\ ~(k <= m) /\ k - m = i
    BY <1>1
  <2> HIDE DEF k
  <2>2. u[k] = t[k - m]
    BY <1>1, <2>1
  <2> QED BY <2>1, <2>2 DEF k
<1>4. \A i \in 1..(m + n) : \/ i \in 1..m /\ u[i] = s[i]
                            \/ i > m /\ i - m \in 1..n /\ u[i] = t[i - m]
  BY <1>1
<1>5. ASSUME Before(u, a, b)
      PROVE  Before(s, a, b) \/ Before(t, a, b) \/ (a \in Elements(s) /\ b \in Elements(t))
  <2>1. PICK i \in 1..(m + n), j \in 1..(m + n) : i < j /\ u[i] = a /\ u[j] = b
    BY <1>1, <1>5 DEF Before
  <2>2. CASE i \in 1..m /\ u[i] = s[i] /\ j \in 1..m /\ u[j] = s[j]
    BY <1>1, <2>1, <2>2 DEF Before
  <2>3. CASE i > m /\ i - m \in 1..n /\ u[i] = t[i - m] /\ j - m \in 1..n /\ u[j] = t[j - m]
    <3>1. i - m < j - m
      BY <1>1, <2>1
    <3> QED BY <1>1, <2>1, <2>3, <3>1 DEF Before
  <2>4. CASE i \in 1..m /\ u[i] = s[i] /\ j - m \in 1..n /\ u[j] = t[j - m]
    BY <1>1, <2>1, <2>4 DEF Elements
  <2>5. ~(i > m /\ j \in 1..m)
    BY <1>1, <2>1
  <2> QED BY <1>4, <2>2, <2>3, <2>4, <2>5
<1>6. ASSUME Before(s, a, b)
      PROVE  Before(u, a, b)
  <2>1. PICK i \in 1..m, j \in 1..m : i < j /\ s[i] = a /\ s[j] = b
    BY <1>1, <1>6 DEF Before
  <2> QED BY <1>1, <1>2, <2>1 DEF Before
<1>7. ASSUME Before(t, a, b)
      PROVE  Before(u, a, b)
  <2>1. PICK i \in 1..n, j \in 1..n : i < j /\ t[i] = a /\ t[j] = b
    BY <1>1, <1>7 DEF Before
  <2>2. i + m < j + m
    BY <1>1, <2>1
  <2> QED BY <1>1, <1>3, <2>1, <2>2 DEF Before
<1>8. ASSUME a \in Elements(s), b \in Elements(t)
      PROVE  Before(u, a, b)
  <2>1. PICK i \in 1..m, j \in 1..n : s[i] = a /\ t[j] = b
    BY <1>1, <1>8 DEF Elements
  <2>2. i < j + m
    BY <1>1, <2>1
  <2> QED BY <1>1, <1>2, <1>3, <2>1, <2>2 DEF Before
<1> QED BY <1>5, <1>6, <1>7, <1>8 DEF u

LEMMA BeforeTail ==
  ASSUME NEW S, NEW s \in Seq(S), s # <<>>, NEW a, NEW b
  PROVE  Before(s, a, b) <=> \/ Before(Tail(s), a, b)
                             \/ a = Head(s) /\ b \in Elements(Tail(s))
<1> DEFINE t == Tail(s)
           n == Len(s)
<1>1. /\ Head(s) = s[1] /\ t \in Seq(S) /\ Len(t) = n - 1
      /\ \A i \in 1..(n - 1) : t[i] = s[i + 1]
      /\ n \in Nat /\ n >= 1
  BY HeadTailProperties, EmptySeq
<1>2. DOMAIN s = 1..n /\ DOMAIN t = 1..(n - 1)
  BY <1>1
<1> HIDE DEF t, n
<1>3. \A i \in 1..(n - 1) : i + 1 \in 1..n /\ s[i + 1] = t[i]
  BY <1>1
<1>4. \A i \in 1..n : i = 1 \/ (i - 1 \in 1..(n - 1) /\ t[i - 1] = s[i])
  <2> SUFFICES ASSUME NEW i \in 1..n, i # 1
               PROVE  i - 1 \in 1..(n - 1) /\ t[i - 1] = s[i]
    OBVIOUS
  <2>1. i - 1 \in 1..(n - 1) /\ (i - 1) + 1 = i
    BY <1>1
  <2> QED BY <1>3, <2>1
<1>5. ASSUME Before(s, a, b)
      PROVE  Before(t, a, b) \/ (a = Head(s) /\ b \in Elements(t))
  <2>1. PICK i \in 1..n, j \in 1..n : i < j /\ s[i] = a /\ s[j] = b
    BY <1>2, <1>5 DEF Before
  <2>2. j - 1 \in 1..(n - 1) /\ t[j - 1] = b
    BY <1>1, <1>4, <2>1
  <2>3. CASE i = 1
    BY <1>1, <1>2, <2>1, <2>2, <2>3 DEF Elements
  <2>4. CASE i # 1
    <3>1. i - 1 \in 1..(n - 1) /\ t[i - 1] = s[i]
      BY <1>4, <2>4
    <3>2. i - 1 < j - 1
      BY <1>1, <2>1
    <3> QED BY <1>2, <2>1, <2>2, <3>1, <3>2 DEF Before
  <2> QED BY <2>3, <2>4
<1>6. ASSUME Before(t, a, b)
      PROVE  Before(s, a, b)
  <2>1. PICK i \in 1..(n - 1), j \in 1..(n - 1) : i < j /\ t[i] = a /\ t[j] = b
    BY <1>2, <1>6 DEF Before
  <2>2. i + 1 < j + 1 /\ i + 1 \in 1..n /\ j + 1 \in 1..n /\ s[i + 1] = a /\ s[j + 1] = b
    BY <1>1, <1>3, <2>1
  <2> QED BY <1>2, <2>2 DEF Before
<1>7. ASSUME a = Head(s), b \in Elements(t)
      PROVE  Before(s, a, b)
  <2>1. PICK j \in 1..(n - 1) : t[j] = b
    BY <1>2, <1>7 DEF Elements
  <2>2. 1 < j + 1 /\ j + 1 \in 1..n /\ s[j + 1] = b /\ 1 \in 1..n /\ s[1] = a
    BY <1>1, <1>3, <1>7, <2>1
  <2> QED BY <1>2, <2>2 DEF Before
<1> QED BY <1>5, <1>6, <1>7 DEF t

LEMMA BeforeHolds ==
  ASSUME NEW s, NEW a, NEW b, Before(s, a, b)
  PROVE  a \in Elements(s) /\ b \in Elements(s)
BY DEF Before, Elements

\* a stands before b on the line of one queue: in one of its four parts, the
\* committed events, the open transaction, the batch and the queue, or in an
\* earlier part than b.
Ahead(com, ins, bat, q, a, b) ==
  \/ Before(com, a, b) \/ Before(ins, a, b) \/ Before(bat, a, b) \/ Before(q, a, b)
  \/ a \in Elements(com) /\ b \in Elements(ins) \cup Elements(bat) \cup Elements(q)
  \/ a \in Elements(ins) /\ b \in Elements(bat) \cup Elements(q)
  \/ a \in Elements(bat) /\ b \in Elements(q)

LEMMA LineIs ==
  ASSUME NEW com \in Seq(Event), NEW ins \in Seq(Event),
         NEW bat \in Seq(Event), NEW q \in Seq(Event)
  PROVE  /\ Elements(com \o ins \o bat \o q) =
              Elements(com) \cup Elements(ins) \cup Elements(bat) \cup Elements(q)
         /\ \A a, b : Before(com \o ins \o bat \o q, a, b) <=> Ahead(com, ins, bat, q, a, b)
<1> DEFINE two == com \o ins
           three == two \o bat
<1>1. two \in Seq(Event) /\ Elements(two) = Elements(com) \cup Elements(ins)
  BY ConcatHolds
<1>2. \A a, b : Before(two, a, b) <=> \/ Before(com, a, b) \/ Before(ins, a, b)
                                      \/ a \in Elements(com) /\ b \in Elements(ins)
  BY BeforeConcat
<1> HIDE DEF two
<1>3. three \in Seq(Event) /\ Elements(three) = Elements(two) \cup Elements(bat)
  BY <1>1, ConcatHolds
<1>4. \A a, b : Before(three, a, b) <=> \/ Before(two, a, b) \/ Before(bat, a, b)
                                        \/ a \in Elements(two) /\ b \in Elements(bat)
  BY <1>1, BeforeConcat
<1> HIDE DEF three
<1>5. Elements(three \o q) = Elements(three) \cup Elements(q)
  BY <1>3, ConcatHolds
<1>6. \A a, b : Before(three \o q, a, b) <=> \/ Before(three, a, b) \/ Before(q, a, b)
                                             \/ a \in Elements(three) /\ b \in Elements(q)
  BY <1>3, BeforeConcat
<1>7. Elements(three \o q) =
        Elements(com) \cup Elements(ins) \cup Elements(bat) \cup Elements(q)
  BY <1>1, <1>3, <1>5
<1>8. \A a, b : Before(three \o q, a, b) <=> Ahead(com, ins, bat, q, a, b)
  BY <1>1, <1>2, <1>3, <1>4, <1>6 DEF Ahead
<1> QED BY <1>7, <1>8 DEF two, three

\* What the moves of the writer and the queues do to the line.
LEMMA AheadEnqueued ==
  ASSUME NEW S, NEW q \in Seq(S), NEW e \in S, NEW com, NEW ins, NEW bat, NEW a, NEW b
  PROVE  Ahead(com, ins, bat, Append(q, e), a, b) <=>
           \/ Ahead(com, ins, bat, q, a, b)
           \/ /\ b = e
              /\ a \in Elements(com) \cup Elements(ins) \cup Elements(bat) \cup Elements(q)
BY BeforeAppend, AppendHolds DEF Ahead

LEMMA AheadTaken ==
  ASSUME NEW S, NEW q \in Seq(S), q # <<>>, NEW T, NEW bat \in Seq(T), Head(q) \in T,
         NEW com, NEW ins, NEW a, NEW b
  PROVE  Ahead(com, ins, Append(bat, Head(q)), Tail(q), a, b) <=> Ahead(com, ins, bat, q, a, b)
<1>1. /\ Before(q, a, b) <=> \/ Before(Tail(q), a, b)
                             \/ a = Head(q) /\ b \in Elements(Tail(q))
      /\ Elements(q) = {Head(q)} \cup Elements(Tail(q))
  BY BeforeTail, HeadAndTail
<1>2. /\ Before(Append(bat, Head(q)), a, b) <=> \/ Before(bat, a, b)
                                                \/ a \in Elements(bat) /\ b = Head(q)
      /\ Elements(Append(bat, Head(q))) = Elements(bat) \cup {Head(q)}
  BY BeforeAppend, AppendHolds
<1> QED BY <1>1, <1>2 DEF Ahead

LEMMA AheadPassed ==
  ASSUME NEW T, NEW bat \in Seq(T), NEW e \in T,
         NEW com, NEW ins, NEW q, NEW a, NEW b, a # e, b # e
  PROVE  Ahead(com, ins, Append(bat, e), q, a, b) <=> Ahead(com, ins, bat, q, a, b)
BY BeforeAppend, AppendHolds DEF Ahead

LEMMA AheadInserted ==
  ASSUME NEW bat \in Seq(Event), bat # <<>>, NEW ins \in Seq(Probe),
         NEW com, NEW q, NEW a \in Probe, NEW b \in Probe
  PROVE  Ahead(com, Noted(ins, Head(bat)), Tail(bat), q, a, b) <=> Ahead(com, ins, bat, q, a, b)
<1> DEFINE e == Head(bat)
<1>1. /\ Before(bat, a, b) <=> \/ Before(Tail(bat), a, b)
                               \/ a = e /\ b \in Elements(Tail(bat))
      /\ Elements(bat) = {e} \cup Elements(Tail(bat))
  BY BeforeTail, HeadAndTail
<1> HIDE DEF e
<1>2. CASE e \in Probe
  <2>1. /\ Before(Append(ins, e), a, b) <=> \/ Before(ins, a, b)
                                            \/ a \in Elements(ins) /\ b = e
        /\ Elements(Append(ins, e)) = Elements(ins) \cup {e}
    BY <1>2, BeforeAppend, AppendHolds
  <2>2. Noted(ins, e) = Append(ins, e)
    BY <1>2 DEF Noted
  <2> QED BY <1>1, <2>1, <2>2 DEF Ahead, e
<1>3. CASE e \notin Probe
  <2>1. Noted(ins, e) = ins /\ a # e /\ b # e
    BY <1>3 DEF Noted
  <2> QED BY <1>1, <2>1 DEF Ahead, e
<1> QED BY <1>2, <1>3

LEMMA AheadCommitted ==
  ASSUME NEW com \in Seq(Probe), NEW ins \in Seq(Probe), NEW q, NEW a, NEW b
  PROVE  Ahead(com \o ins, <<>>, <<>>, q, a, b) <=> Ahead(com, ins, <<>>, q, a, b)
<1>1. /\ Before(com \o ins, a, b) <=> \/ Before(com, a, b) \/ Before(ins, a, b)
                                      \/ a \in Elements(com) /\ b \in Elements(ins)
      /\ Elements(com \o ins) = Elements(com) \cup Elements(ins)
  BY BeforeConcat, ConcatHolds
<1>2. Elements(<<>>) = {} /\ ~Before(<<>>, a, b)
  BY EmptyPlace, BeforeEmpty
<1> QED BY <1>1, <1>2 DEF Ahead

\* Whatever part is lost, those that are in none of the lost parts keep their
\* places.
LEMMA AheadLost ==
  ASSUME NEW com, NEW ins, NEW bat, NEW q, NEW ins2, NEW bat2, NEW q2, NEW a, NEW b,
         ins2 = ins \/ (ins2 = <<>> /\ a \notin Elements(ins) /\ b \notin Elements(ins)),
         bat2 = bat \/ (bat2 = <<>> /\ a \notin Elements(bat) /\ b \notin Elements(bat)),
         q2 = q \/ (q2 = <<>> /\ a \notin Elements(q) /\ b \notin Elements(q))
  PROVE  Ahead(com, ins2, bat2, q2, a, b) <=> Ahead(com, ins, bat, q, a, b)
<1>1. Elements(<<>>) = {} /\ ~Before(<<>>, a, b)
  BY EmptyPlace, BeforeEmpty
<1>2. \A s : ~(a \in Elements(s) /\ b \in Elements(s)) => ~Before(s, a, b)
  BY BeforeHolds
<1>3. /\ Before(ins2, a, b) <=> Before(ins, a, b)
      /\ a \in Elements(ins2) <=> a \in Elements(ins)
      /\ b \in Elements(ins2) <=> b \in Elements(ins)
  BY <1>1, <1>2
<1>4. /\ Before(bat2, a, b) <=> Before(bat, a, b)
      /\ a \in Elements(bat2) <=> a \in Elements(bat)
      /\ b \in Elements(bat2) <=> b \in Elements(bat)
  BY <1>1, <1>2
<1>5. /\ Before(q2, a, b) <=> Before(q, a, b)
      /\ a \in Elements(q2) <=> a \in Elements(q)
      /\ b \in Elements(q2) <=> b \in Elements(q)
  BY <1>1, <1>2
<1> QED BY <1>3, <1>4, <1>5 DEF Ahead

---------------------------------------------------------------------------
(* Nobody overtakes. *)

Alive(kind) == (Elements(accepted) \cap kind) \ lost
Ordered(kind, q) ==
  \A a, b \in Alive(kind) :
    Before(accepted, a, b) <=> Ahead(committed, inserted, batch, q, a, b)

OrderInv == Ordered(Urgent, security) /\ Ordered(Log, requests)

\* What is alive is on the line of its queue, and nothing else of its kind is.
LEMMA AliveOnLine ==
  ASSUME TypeOK, OnceInv
  PROVE  /\ Alive(Urgent) = Urgent \cap (Elements(committed) \cup Elements(inserted)
                                           \cup Elements(batch) \cup Elements(security))
         /\ Alive(Log) = Log \cap (Elements(committed) \cup Elements(inserted)
                                     \cup Elements(batch) \cup Elements(requests))
<1>1. /\ Noise \notin Urgent /\ Noise \notin Log
      /\ Elements(requests) \cap Urgent = {} /\ Elements(security) \cap Log = {}
  BY PlacesTyped, WriterAssumptions DEF UrgentEvent, LogEvent
<1>2. Elements(accepted) \ lost \subseteq InFlight \cup Elements(committed)
  BY DEF OnceInv, Conserved, Settled
<1>3. (InFlight \cup Elements(committed)) \ {Noise} \subseteq Elements(accepted)
  BY DEF OnceInv, Known
<1>4. (InFlight \cup Elements(committed)) \cap lost \subseteq {Noise}
  BY DEF OnceInv, Apart, Disjoint, InFlight, Settled
<1> QED BY <1>1, <1>2, <1>3, <1>4 DEF Alive, InFlight

\* A step that accepts nothing and leaves those who stay alive in their places.
LEMMA OrderFrame ==
  ASSUME OrderInv, accepted' = accepted, lost \subseteq lost',
         \A a, b \in Alive(Urgent)' :
           Ahead(committed, inserted, batch, security, a, b)'
             <=> Ahead(committed, inserted, batch, security, a, b),
         \A a, b \in Alive(Log)' :
           Ahead(committed, inserted, batch, requests, a, b)'
             <=> Ahead(committed, inserted, batch, requests, a, b)
  PROVE  OrderInv'
<1>1. Alive(Urgent)' \subseteq Alive(Urgent) /\ Alive(Log)' \subseteq Alive(Log)
  BY DEF Alive
<1>2. \A a, b : Before(accepted, a, b)' <=> Before(accepted, a, b)
  BY DEF Before
<1> QED BY <1>1, <1>2 DEF OrderInv, Ordered

LEMMA OrderUnmoved ==
  ASSUME OrderInv, UNCHANGED <<committed, inserted, batch, security, requests, accepted>>,
         lost \subseteq lost'
  PROVE  OrderInv'
<1>1. \A a, b :
        /\ Ahead(committed, inserted, batch, security, a, b)'
             <=> Ahead(committed, inserted, batch, security, a, b)
        /\ Ahead(committed, inserted, batch, requests, a, b)'
             <=> Ahead(committed, inserted, batch, requests, a, b)
  BY DEF Ahead, Before, Elements
<1> QED BY <1>1, OrderFrame

\* The events alive in a sequence that is lost are none.
LEMMA LostAreNotAlive ==
  ASSUME NEW s, (Elements(s) \cap Probe) \subseteq lost'
  PROVE  \A a \in Alive(Urgent)' \cup Alive(Log)' : a \notin Elements(s)
BY DEF Alive, Probe

LEMMA WriterOrder ==
  ASSUME TypeOK, WriterInv, OnceInv, OrderInv, WriterStep
  PROVE  OrderInv'
<1>1. /\ security \in Seq(Event) /\ requests \in Seq(Event) /\ batch \in Seq(Event)
      /\ inserted \in Seq(Probe) /\ committed \in Seq(Probe)
      /\ Urgent \subseteq Probe /\ Log \subseteq Probe
  BY EventsAre, SeqMonotonic DEF TypeOK, Event, Probe
<1>2. Alive(Urgent)' \subseteq Urgent /\ Alive(Log)' \subseteq Log
  BY DEF Alive
<1>3. CASE OpenDatabase \/ Cleanup
  BY <1>3, OrderUnmoved DEF OpenDatabase, Cleanup, queues, history
<1>4. CASE CannotOpen
  <2>1. /\ UNCHANGED <<committed, inserted, batch, accepted>>
        /\ security' = <<>> /\ requests' = <<>> /\ lost \subseteq lost'
        /\ Elements(security) \cap Probe \subseteq lost'
        /\ Elements(requests) \cap Probe \subseteq lost'
    BY <1>4 DEF CannotOpen
  <2>2. \A a \in Alive(Urgent)' \cup Alive(Log)' :
          a \notin Elements(security) /\ a \notin Elements(requests)
    BY <2>1, LostAreNotAlive
  <2>3. /\ \A a, b \in Alive(Urgent)' :
             Ahead(committed, inserted, batch, security', a, b)
               <=> Ahead(committed, inserted, batch, security, a, b)
        /\ \A a, b \in Alive(Log)' :
             Ahead(committed, inserted, batch, requests', a, b)
               <=> Ahead(committed, inserted, batch, requests, a, b)
    BY <2>1, <2>2, AheadLost
  <2> QED BY <2>1, <2>3, OrderFrame
<1>5. CASE TakeSecurity /\ UNCHANGED <<requests, inserted, history>>
  <2> DEFINE e == Head(security)
  <2>1. /\ security # <<>> /\ batch' = Append(batch, e) /\ security' = Tail(security)
        /\ UNCHANGED <<requests, inserted, committed, accepted, lost>>
    BY <1>5 DEF TakeSecurity, Taken, history
  <2>2. e \in UrgentEvent /\ e \in Event /\ e \notin Log
    BY <1>1, <2>1, HeadAndTail, EventsAre, WriterAssumptions DEF TypeOK, UrgentEvent
  <2>3. \A a, b : Ahead(committed, inserted, batch', security', a, b)
                    <=> Ahead(committed, inserted, batch, security, a, b)
    BY <1>1, <2>1, <2>2, AheadTaken
  <2>4. \A a, b \in Log : Ahead(committed, inserted, batch', requests, a, b)
                            <=> Ahead(committed, inserted, batch, requests, a, b)
    BY <1>1, <2>1, <2>2, AheadPassed
  <2> QED BY <1>2, <2>1, <2>3, <2>4, OrderFrame
<1>6. CASE Receive \/ Fill
  BY <1>5, <1>6, OrderUnmoved DEF Receive, Fill, history
<1>7. CASE TopUp
  <2> DEFINE e == Head(requests)
  <2>1. UNCHANGED <<security, inserted, committed, accepted, lost>>
    BY <1>7 DEF TopUp, history
  <2>2. CASE UNCHANGED <<requests, batch>>
    BY <2>1, <2>2, OrderUnmoved
  <2>3. CASE requests # <<>> /\ batch' = Append(batch, e) /\ requests' = Tail(requests)
    <3>1. e \in LogEvent /\ e \in Event /\ e \notin Urgent
      BY <1>1, <2>3, HeadAndTail, EventsAre, WriterAssumptions DEF TypeOK, LogEvent
    <3>2. \A a, b : Ahead(committed, inserted, batch', requests', a, b)
                      <=> Ahead(committed, inserted, batch, requests, a, b)
      BY <1>1, <2>3, <3>1, AheadTaken
    <3>3. \A a, b \in Urgent : Ahead(committed, inserted, batch', security, a, b)
                                 <=> Ahead(committed, inserted, batch, security, a, b)
      BY <1>1, <2>3, <3>1, AheadPassed
    <3> QED BY <1>2, <2>1, <3>2, <3>3, OrderFrame
  <2> QED BY <1>7, <2>2, <2>3 DEF TopUp, Taken
<1>8. CASE Insert
  <2>1. /\ batch # <<>> /\ inserted' = Noted(inserted, Head(batch)) /\ batch' = Tail(batch)
        /\ UNCHANGED <<security, requests, committed, accepted, lost>>
    BY <1>8 DEF Insert, queues, history
  <2>2. \A q : \A a, b \in Probe : Ahead(committed, inserted', batch', q, a, b)
                                     <=> Ahead(committed, inserted, batch, q, a, b)
    BY <1>1, <2>1, AheadInserted
  <2> QED BY <1>1, <1>2, <2>1, <2>2, OrderFrame
<1>9. CASE Commit
  <2>1. /\ batch = <<>> /\ batch' = <<>> /\ inserted' = <<>> /\ committed' = committed \o inserted
        /\ UNCHANGED <<security, requests, accepted, lost>>
    BY <1>9 DEF Commit, queues
  <2>2. \A q, a, b : Ahead(committed', inserted', batch', q, a, b)
                       <=> Ahead(committed, inserted, batch, q, a, b)
    BY <1>1, <2>1, AheadCommitted
  <2> QED BY <2>1, <2>2, OrderFrame
<1>10. CASE WriteFails
  <2>1. /\ batch' = <<>> /\ inserted' = <<>> /\ lost \subseteq lost'
        /\ UNCHANGED <<security, requests, committed, accepted>>
        /\ Elements(batch) \cap Probe \subseteq lost'
        /\ Elements(inserted) \cap Probe \subseteq lost'
    BY <1>10 DEF WriteFails, RolledBack, queues
  <2>2. \A a \in Alive(Urgent)' \cup Alive(Log)' :
          a \notin Elements(batch) /\ a \notin Elements(inserted)
    BY <2>1, LostAreNotAlive
  <2>3. \A q : \A a, b \in Alive(Urgent)' \cup Alive(Log)' :
          Ahead(committed, inserted', batch', q, a, b)
            <=> Ahead(committed, inserted, batch, q, a, b)
    BY <2>1, <2>2, AheadLost
  <2> QED BY <2>1, <2>3, OrderFrame
<1> QED BY <1>3, <1>4, <1>6, <1>7, <1>8, <1>9, <1>10 DEF WriterStep

\* An event that a queue takes stands behind all that are alive, in the queue
\* as in the history.
LEMMA OrderEnqueued ==
  ASSUME TypeOK, OnceInv, OrderInv, NEW e \in Event,
         UNCHANGED <<committed, inserted, batch, lost>>,
         e = Noise \/ e \notin Elements(accepted) \cup lost,
         accepted' = Noted(accepted, e),
         \/ e \in UrgentEvent /\ security' = Append(security, e) /\ requests' = requests
         \/ e \in LogEvent /\ requests' = Append(requests, e) /\ security' = security
  PROVE  OrderInv'
<1>1. /\ security \in Seq(UrgentEvent) /\ requests \in Seq(LogEvent)
      /\ accepted \in Seq(Probe) /\ Noise \notin Probe
      /\ Urgent \subseteq Probe /\ Log \subseteq Probe /\ Urgent \cap Log = {}
  BY EventsAre, WriterAssumptions DEF TypeOK, Probe
<1>2. e \in Probe =>
        /\ Elements(accepted') = Elements(accepted) \cup {e}
        /\ \A a, b : Before(accepted', a, b) <=>
             Before(accepted, a, b) \/ (a \in Elements(accepted) /\ b = e)
  BY <1>1, AppendHolds, BeforeAppend DEF Noted
<1>3. e \notin Probe => accepted' = accepted
  BY DEF Noted
<1>4. \A kind \in {Urgent, Log} :
        /\ e \in kind => Alive(kind)' = Alive(kind) \cup {e}
        /\ e \notin kind => Alive(kind)' = Alive(kind)
  BY <1>1, <1>2, <1>3 DEF Alive
<1>5. \A a, b : ~(a \in Elements(accepted)) => ~Before(accepted, a, b) /\ ~Before(accepted, b, a)
  BY BeforeHolds
\* The queue that takes it.
<1>6. ASSUME NEW kind \in {Urgent, Log}, NEW q, NEW r, NEW S,
             q \in Seq(S), e \in S, r = Append(q, e), e \in kind \cup {Noise},
             Ordered(kind, q),
             Alive(kind) = kind \cap (Elements(committed) \cup Elements(inserted)
                                        \cup Elements(batch) \cup Elements(q))
      PROVE  \A a, b \in Alive(kind)' :
               Before(accepted', a, b) <=> Ahead(committed, inserted, batch, r, a, b)
  <2> SUFFICES ASSUME NEW a \in Alive(kind)', NEW b \in Alive(kind)'
               PROVE  Before(accepted', a, b) <=> Ahead(committed, inserted, batch, r, a, b)
    OBVIOUS
  <2>1. Ahead(committed, inserted, batch, r, a, b) <=>
          \/ Ahead(committed, inserted, batch, q, a, b)
          \/ /\ b = e
             /\ a \in Elements(committed) \cup Elements(inserted) \cup Elements(batch) \cup Elements(q)
    BY <1>6, AheadEnqueued
  <2>2. a \in kind /\ b \in kind /\ kind \subseteq Probe
    BY <1>1 DEF Alive
  <2>3. CASE e = Noise
    <3>1. accepted' = accepted /\ Alive(kind)' = Alive(kind) /\ b # e
      BY <1>1, <1>3, <1>4, <2>2, <2>3
    <3> QED BY <1>6, <2>1, <3>1 DEF Ordered
  <2>4. CASE e # Noise
    <3>1. e \in kind /\ e \in Probe /\ e \notin Alive(kind) /\ Alive(kind) \subseteq Elements(accepted)
      BY <1>6, <2>2, <2>4 DEF Alive
    <3>2. Before(accepted', a, b) <=> Before(accepted, a, b) \/ (a \in Elements(accepted) /\ b = e)
      BY <1>2, <3>1
    <3>3. a \in Alive(kind) \/ a = e
      BY <1>4, <3>1
    <3>4. b \in Alive(kind) \/ b = e
      BY <1>4, <3>1
    <3>5. e \notin Elements(accepted) /\ e \notin Elements(committed) \cup Elements(inserted)
                                              \cup Elements(batch) \cup Elements(q)
      BY <1>6, <2>4, <3>1 DEF Alive
    <3>6. \A x : ~Ahead(committed, inserted, batch, q, x, e) /\ ~Ahead(committed, inserted, batch, q, e, x)
      BY <3>5, BeforeHolds DEF Ahead
    <3>7. CASE b = e
      <4>1. a \in Elements(accepted) <=>
              a \in Elements(committed) \cup Elements(inserted) \cup Elements(batch) \cup Elements(q)
        BY <1>6, <2>2, <3>1, <3>3, <3>5
      <4>2. ~Before(accepted, a, b)
        BY <1>5, <3>5, <3>7
      <4> QED BY <2>1, <3>2, <3>6, <3>7, <4>1, <4>2
    <3>8. CASE b # e /\ a = e
      BY <1>5, <2>1, <3>2, <3>5, <3>6, <3>8
    <3>9. CASE b # e /\ a # e
      <4>1. a \in Alive(kind) /\ b \in Alive(kind)
        BY <3>3, <3>4, <3>9
      <4> QED BY <1>6, <2>1, <3>2, <3>9, <4>1 DEF Ordered
    <3> QED BY <3>7, <3>8, <3>9
  <2> QED BY <2>3, <2>4
\* The other queue.
<1>7. ASSUME NEW kind \in {Urgent, Log}, NEW q, e \notin kind, Ordered(kind, q)
      PROVE  \A a, b \in Alive(kind)' :
               Before(accepted', a, b) <=> Ahead(committed, inserted, batch, q, a, b)
  <2> SUFFICES ASSUME NEW a \in Alive(kind)', NEW b \in Alive(kind)'
               PROVE  Before(accepted', a, b) <=> Ahead(committed, inserted, batch, q, a, b)
    OBVIOUS
  <2>1. a \in Alive(kind) /\ b \in Alive(kind) /\ b # e
    BY <1>4, <1>7 DEF Alive
  <2>2. Before(accepted', a, b) <=> Before(accepted, a, b)
    BY <1>2, <1>3, <2>1
  <2> QED BY <1>7, <2>1, <2>2 DEF Ordered
<1>8. CASE e \in UrgentEvent /\ security' = Append(security, e) /\ requests' = requests
  <2>1. e \in Urgent \cup {Noise} /\ e \notin Log
    BY <1>8, WriterAssumptions DEF UrgentEvent
  <2>2. Ordered(Urgent, security)'
    BY <1>1, <1>6, <1>8, <2>1, AliveOnLine DEF OrderInv, Ordered
  <2>3. Ordered(Log, requests)'
    BY <1>7, <1>8, <2>1 DEF OrderInv, Ordered
  <2> QED BY <2>2, <2>3 DEF OrderInv
<1>9. CASE e \in LogEvent /\ requests' = Append(requests, e) /\ security' = security
  <2>1. e \in Log \cup {Noise} /\ e \notin Urgent
    BY <1>9, WriterAssumptions DEF LogEvent
  <2>2. Ordered(Log, requests)'
    BY <1>1, <1>6, <1>9, <2>1, AliveOnLine DEF OrderInv, Ordered
  <2>3. Ordered(Urgent, security)'
    BY <1>7, <1>9, <2>1 DEF OrderInv, Ordered
  <2> QED BY <2>2, <2>3 DEF OrderInv
<1> QED BY <1>8, <1>9

LEMMA OrderStep ==
  ASSUME TypeOK, WriterInv, OnceInv, OrderInv, [Next]_vars
  PROVE  OrderInv'
<1>1. ASSUME NEW h \in Handler,
             \/ \E todo \in Calls : SubmitAnswer(h, todo) \/ BanAddress(h, todo)
             \/ AcquireChallenges(h) \/ Return(h)
      PROVE  OrderInv'
  BY <1>1, OrderUnmoved DEF SubmitAnswer, BanAddress, AcquireChallenges, Return, queues, history
<1>2. ASSUME NEW h \in Handler, Send(h)
      PROVE  OrderInv'
  <2> DEFINE e == Head(Todo(h))
  <2>1. handlers[h].pc = "send" /\ Todo(h) # <<>> /\ Todo(h) \in Seq(UrgentEvent)
    BY <1>2, TodoTyped DEF Send
  <2>2. e \in UrgentEvent /\ e \in Elements(Todo(h)) /\ e \in Event
    BY <2>1, HeadAndTail, EventsAre
  <2>3. e = Noise \/ e \notin Elements(accepted) \cup lost
    BY <2>2 DEF OnceInv, TodosApart, Disjoint
  <2>4. /\ UNCHANGED <<requests, batch, inserted, committed>>
        /\ \/ lost \subseteq lost' /\ UNCHANGED <<security, accepted>>
           \/ /\ security' = Append(security, e)
              /\ accepted' = Noted(accepted, e) /\ UNCHANGED lost
    BY <1>2, <2>1, TodoTyped DEF Send
  <2> HIDE DEF e
  <2> QED BY <2>2, <2>3, <2>4, OrderUnmoved, OrderEnqueued
<1>3. ASSUME NEW h \in Handler, NEW e \in LogEvent, RecordRequest(h, e)
      PROVE  OrderInv'
  <2>1. /\ UNCHANGED <<security, batch, inserted, committed>>
        /\ \/ lost \subseteq lost' /\ UNCHANGED <<requests, accepted>>
           \/ /\ requests' = Append(requests, e)
              /\ accepted' = Noted(accepted, e) /\ UNCHANGED lost
        /\ e = Noise \/ e \in Fresh
    BY <1>3 DEF RecordRequest
  <2>2. e \in Event /\ (e = Noise \/ e \notin Elements(accepted) \cup lost)
    BY <2>1, FreshIsNowhere, EventsAre DEF Settled
  <2> QED BY <2>1, <2>2, OrderUnmoved, OrderEnqueued
<1>4. CASE Restart
  <2>1. /\ security' = <<>> /\ requests' = <<>> /\ batch' = <<>> /\ inserted' = <<>>
        /\ UNCHANGED <<committed, accepted>> /\ lost \subseteq lost'
        /\ Elements(security) \cap Probe \subseteq lost'
        /\ Elements(requests) \cap Probe \subseteq lost'
        /\ Elements(batch) \cap Probe \subseteq lost'
        /\ Elements(inserted) \cap Probe \subseteq lost'
    BY <1>4 DEF Restart
  <2>2. \A a \in Alive(Urgent)' \cup Alive(Log)' :
          /\ a \notin Elements(security) /\ a \notin Elements(requests)
          /\ a \notin Elements(batch) /\ a \notin Elements(inserted)
    BY <2>1, LostAreNotAlive
  <2>3. /\ \A a, b \in Alive(Urgent)' :
             Ahead(committed, inserted', batch', security', a, b)
               <=> Ahead(committed, inserted, batch, security, a, b)
        /\ \A a, b \in Alive(Log)' :
             Ahead(committed, inserted', batch', requests', a, b)
               <=> Ahead(committed, inserted, batch, requests, a, b)
    BY <2>1, <2>2, AheadLost
  <2> QED BY <2>1, <2>3, OrderFrame
<1>5. CASE UNCHANGED vars
  BY <1>5, OrderUnmoved DEF vars, history
<1> QED BY <1>1, <1>2, <1>3, <1>4, <1>5, WriterOrder DEF Next

LEMMA OrderShown == TypeOK /\ OnceInv /\ OrderInv => InOrder
<1> SUFFICES ASSUME TypeOK, OnceInv, OrderInv
             PROVE  InOrder
  OBVIOUS
<1>1. /\ security \in Seq(Event) /\ requests \in Seq(Event) /\ batch \in Seq(Event)
      /\ inserted \in Seq(Event) /\ committed \in Seq(Event)
  BY EventsAre, SeqMonotonic DEF TypeOK, Event
<1> DEFINE line(q) == committed \o inserted \o batch \o q
<1>2. /\ Elements(line(security)) \cap Urgent = Alive(Urgent)
      /\ Elements(line(requests)) \cap Log = Alive(Log)
  BY <1>1, LineIs, AliveOnLine
<1>3. /\ \A a, b \in Alive(Urgent) : Before(accepted, a, b) <=> Before(line(security), a, b)
      /\ \A a, b \in Alive(Log) : Before(accepted, a, b) <=> Before(line(requests), a, b)
  BY <1>1, LineIs DEF OrderInv, Ordered
<1>4. Urgent = Log => Alive(Urgent) = {} /\ Elements(line(security)) \cap Urgent = {}
  BY WriterAssumptions DEF Alive
<1> QED BY <1>2, <1>3, <1>4 DEF InOrder, Alive

LEMMA WriterInvariant == Spec => [](TypeOK /\ WriterInv /\ OnceInv /\ OrderInv)
<1>1. Init => OrderInv
  BY EmptyPlace DEF Init, OrderInv, Ordered, Alive
<1>2. TypeOK /\ WriterInv /\ OnceInv /\ OrderInv /\ [Next]_vars => OrderInv'
  BY OrderStep
<1> QED BY <1>1, <1>2, OnceInit, OnceInvInductive, PTL DEF Spec

\* Whatever fails, the events of one queue that are not lost reach the database
\* in the order in which the queue took them.
THEOREM EventsAreInOrder == Spec => []InOrder
<1>1. TypeOK /\ OnceInv /\ OrderInv => InOrder
  BY OrderShown
<1> QED BY <1>1, WriterInvariant, PTL

---------------------------------------------------------------------------
(* The log that EventLog promises. *)

\* What a transaction holds and what it has still to insert came in one batch.
SizeInv == Len(inserted) + Len(batch) <= BatchSize

LEMMA SizeStep ==
  ASSUME TypeOK, WriterInv, SizeInv, [Next]_vars
  PROVE  SizeInv'
<1>1. /\ TypeOK' /\ WriterInv'
      /\ Len(batch) \in Nat /\ Len(inserted) \in Nat /\ Len(batch') \in Nat
  BY TypeStep DEF TypeOK
<1>2. CASE writer' # "write"
  BY <1>1, <1>2, EmptySeq DEF WriterInv, TypeOK, SizeInv
<1>3. CASE UNCHANGED <<inserted, batch>>
  BY <1>3 DEF SizeInv
<1>4. CASE TopUp
  <2>1. inserted' = <<>>
    BY <1>4 DEF TopUp, WriterInv
  <2> QED BY <1>1, <2>1, EmptySeq DEF TypeOK, SizeInv
<1>5. CASE Insert
  <2>1. /\ batch # <<>> /\ batch' = Tail(batch)
        /\ inserted' \in {inserted, Append(inserted, Head(batch))}
        /\ Head(batch) \in Probe \/ inserted' = inserted
    BY <1>5 DEF Insert, Noted
  <2>2. Len(batch') = Len(batch) - 1
    BY <2>1, HeadAndTail DEF TypeOK
  <2>3. Len(inserted') <= Len(inserted) + 1 /\ Len(inserted') \in Nat
    BY <1>1, <2>1, AppendHolds DEF TypeOK
  <2> QED BY <1>1, <2>2, <2>3, WriterAssumptions DEF SizeInv
<1>6. CASE OpenDatabase \/ CannotOpen \/ Receive \/ Fill \/ Commit \/ WriteFails \/ Cleanup \/ Restart
  BY <1>2, <1>6 DEF OpenDatabase, CannotOpen, Receive, Fill, Commit, WriteFails, Cleanup, Restart
<1>7. ASSUME NEW h \in Handler,
             \/ \E todo \in Calls : SubmitAnswer(h, todo) \/ BanAddress(h, todo)
             \/ AcquireChallenges(h) \/ Send(h) \/ Return(h)
             \/ \E e \in LogEvent : RecordRequest(h, e)
      PROVE  UNCHANGED <<inserted, batch>>
  BY <1>7 DEF SubmitAnswer, BanAddress, AcquireChallenges, Send, Return, RecordRequest
<1> QED BY <1>3, <1>4, <1>5, <1>6, <1>7 DEF Next, WriterStep, vars

\* Those that wait, in the terms of the writer.
LEMMA WaitingIs ==
  ASSUME TypeOK, OnceInv
  PROVE  /\ Promise!Waiting = InFlight \cap Probe
         /\ Promise!Event = Probe
         /\ Promise!New = Probe \ (Elements(accepted) \cup lost)
         /\ Promise!Waiting \subseteq Alive(Urgent) \cup Alive(Log)
         /\ Promise!Waiting \cap Elements(committed) = {}
<1>1. \A s : Promise!Held(s) = Elements(s)
  BY DEF Promise!Held, Elements
<1>2. Promise!Event = Probe
  BY DEF Promise!Event, Probe
<1>3. Elements(accepted) \subseteq Probe /\ Noise \notin Probe
  BY PlacesTyped
<1>4. InFlight \cap Settled \subseteq {Noise}
  BY DEF OnceInv, Apart, Disjoint, InFlight
<1>5. Promise!Waiting = Elements(accepted) \ Settled
  BY <1>1 DEF Promise!Waiting, Settled
<1>6. Promise!Waiting = InFlight \cap Probe
  BY <1>3, <1>4, <1>5 DEF OnceInv, Conserved, Known
<1> QED BY <1>1, <1>2, <1>3, <1>5, <1>6 DEF Promise!New, Alive, Settled, Probe

LEMMA OlderIsAhead ==
  ASSUME TypeOK, OnceInv, OrderInv, NEW a \in Promise!Waiting, NEW b \in Promise!Waiting,
         Promise!Older(a, b)
  PROVE  \E q \in {security, requests} :
           Ahead(committed, inserted, batch, q, a, b)
<1>1. Before(accepted, a, b) /\ \/ a \in Urgent /\ b \in Urgent
                                \/ a \in Log /\ b \in Log
  BY DEF Promise!Older, Before
<1>2. a \in Elements(accepted) \ lost /\ b \in Elements(accepted) \ lost
  BY WaitingIs DEF Alive
<1> QED BY <1>1, <1>2 DEF OrderInv, Ordered, Alive

\* Nobody in a queue is older than anybody in the batch.
LEMMA BatchIsOldest ==
  ASSUME TypeOK, OnceInv, OrderInv, NEW a \in Promise!Waiting, NEW b \in Promise!Waiting,
         b \in Elements(inserted) \cup Elements(batch), Promise!Older(a, b)
  PROVE  a \in Elements(inserted) \cup Elements(batch)
<1>1. PICK q \in {security, requests} : Ahead(committed, inserted, batch, q, a, b)
  BY OlderIsAhead
<1>2. b \notin Elements(q)
  BY WaitingIs, EventsAre DEF OnceInv, Apart, Disjoint
<1>3. a \notin Elements(committed)
  BY WaitingIs
<1> QED BY <1>1, <1>2, <1>3, BeforeHolds DEF Ahead

\* The transaction holds its events once and in their order.
LEMMA InsertedInOrder ==
  ASSUME TypeOK, OnceInv, OrderInv, NEW i \in DOMAIN inserted, NEW j \in DOMAIN inserted, i < j
  PROVE  inserted[i] # inserted[j] /\ ~Promise!Older(inserted[j], inserted[i])
<1> DEFINE a == inserted[j]
           b == inserted[i]
<1>1. /\ Once(inserted) /\ DOMAIN inserted \subseteq Int
      /\ a \in Elements(inserted) /\ b \in Elements(inserted)
      /\ Elements(inserted) \subseteq Probe /\ Noise \notin Probe
  BY PlacesTyped, LenProperties DEF OnceInv, EachOnce, TypeOK, Elements
<1>2. a \in Promise!Waiting /\ b \in Promise!Waiting
  BY <1>1, WaitingIs DEF InFlight
<1>3. inserted[i] # inserted[j]
  BY <1>1 DEF Once
<1>4. ASSUME Promise!Older(a, b)
      PROVE  FALSE
  <2>1. PICK q \in {security, requests} : Ahead(committed, inserted, batch, q, a, b)
    BY <1>2, <1>4, OlderIsAhead
  <2>2. /\ b \notin Elements(q) /\ b \notin Elements(batch)
        /\ a \notin Elements(batch) /\ a \notin Elements(committed) /\ b \notin Elements(committed)
    BY <1>1, <1>2, WaitingIs DEF OnceInv, Apart, Disjoint
  <2>3. Before(inserted, a, b)
    BY <2>1, <2>2, BeforeHolds DEF Ahead
  <2>4. PICK k \in DOMAIN inserted, l \in DOMAIN inserted :
               k < l /\ inserted[k] = inserted[j] /\ inserted[l] = inserted[i]
    BY <2>3 DEF Before
  <2>5. k = j /\ l = i
    BY <1>1, <2>4 DEF Once
  <2> QED BY <1>1, <2>4, <2>5
<1> QED BY <1>3, <1>4

LEMMA CommitIsWrite ==
  ASSUME TypeOK, WriterInv, OnceInv, OrderInv, SizeInv, Commit
  PROVE  [Promise!Next]_Promise!vars
<1>1. batch = <<>> /\ committed' = committed \o inserted /\ UNCHANGED <<accepted, lost>>
  BY DEF Commit
<1>2. CASE inserted = <<>>
  <2>1. committed' = committed
    BY <1>1, <1>2, ConcatEmptySeq DEF TypeOK
  <2> QED BY <1>1, <2>1 DEF Promise!vars
<1>3. CASE inserted # <<>>
  <2> DEFINE n == Len(inserted)
  <2>1. DOMAIN inserted = 1..n /\ n \in 1..BatchSize
    BY <1>1, <1>3, EmptySeq, LenProperties, WriterAssumptions DEF TypeOK, SizeInv
  <2>2. Elements(inserted) \subseteq Promise!Waiting
    BY PlacesTyped, WaitingIs DEF InFlight
  <2>3. inserted \in [1..n -> Promise!Waiting]
    BY <2>1, <2>2 DEF TypeOK, Elements
  <2> HIDE DEF n
  <2>4. ASSUME NEW i \in DOMAIN inserted, NEW a \in Promise!Waiting, Promise!Older(a, inserted[i])
        PROVE  a \in Promise!Held(inserted)
    <3>1. inserted[i] \in Elements(inserted) /\ inserted[i] \in Promise!Waiting
      BY <2>2 DEF Elements
    <3>2. a \in Elements(inserted) \cup Elements(batch)
      BY <2>4, <3>1, BatchIsOldest
    <3>3. a \in Elements(inserted)
      BY <1>1, <3>2, EmptyPlace
    <3> QED BY <3>3 DEF Elements, Promise!Held
  <2>5. inserted \in Promise!Batches
    BY <2>1, <2>3, <2>4 DEF Promise!Batches
  <2>6. Promise!Write(inserted)
    BY <1>1, InsertedInOrder DEF Promise!Write
  <2> QED BY <2>5, <2>6 DEF Promise!Next
<1> QED BY <1>2, <1>3

\* A failed transaction drops a batch: its other events, which have no
\* identity, are filled up with one of those that have.
LEMMA FailureIsDrop ==
  ASSUME TypeOK, WriterInv, OnceInv, OrderInv, SizeInv, WriteFails
  PROVE  [Promise!Next]_Promise!vars
<1> DEFINE gone == (Elements(batch) \cup Elements(inserted)) \cap Probe
           all == inserted \o batch
           n == Len(all)
<1>1. lost' = lost \cup gone /\ UNCHANGED <<accepted, committed>>
  BY DEF WriteFails, RolledBack
<1>2. gone \subseteq Promise!Waiting
  BY WaitingIs DEF InFlight
<1>3. /\ inserted \in Seq(Event) /\ batch \in Seq(Event)
      /\ Len(inserted) \in Nat /\ Len(batch) \in Nat
  BY EventsAre, SeqMonotonic DEF TypeOK, Event
<1>4. all \in Seq(Event) /\ Elements(all) = Elements(inserted) \cup Elements(batch)
  BY <1>3, ConcatHolds
<1>5. n = Len(inserted) + Len(batch) /\ DOMAIN all = 1..n
  BY <1>3, <1>4, ConcatProperties, LenProperties
<1>6. gone = Elements(all) \cap Probe
  BY <1>4
<1> HIDE DEF gone, all, n
<1>7. CASE gone = {}
  BY <1>1, <1>7 DEF Promise!vars
<1>8. CASE gone # {}
  <2>1. PICK p : p \in gone
    BY <1>8
  <2> DEFINE b == [i \in 1..n |-> IF all[i] \in Probe THEN all[i] ELSE p]
  <2>2. \A i \in 1..n : all[i] \in Probe => all[i] \in gone
    BY <1>5, <1>6 DEF Elements
  <2>3. b \in [1..n -> gone]
    BY <2>1, <2>2
  <2>4. \A e \in gone : \E i \in 1..n : e = all[i] /\ e \in Probe
    BY <1>5, <1>6 DEF Elements
  <2>5. \A e \in gone : \E i \in 1..n : e = b[i]
    BY <2>4
  <2>6. Promise!Held(b) = gone
    BY <2>3, <2>5 DEF Promise!Held
  <2>7. n \in 1..BatchSize
    <3>1. n \in Nat /\ n <= BatchSize
      BY <1>3, <1>5 DEF SizeInv
    <3>2. 1..n # {}
      BY <2>1, <2>4
    <3> QED BY <3>1, <3>2, WriterAssumptions
  <2>8. b \in [1..n -> Promise!Waiting] /\ DOMAIN b = 1..n
    BY <1>2, <2>3
  <2>9. \A i \in 1..n : b[i] \in gone
    BY <2>3
  <2> HIDE DEF b
  <2>10. ASSUME NEW i \in DOMAIN b, NEW a \in Promise!Waiting, Promise!Older(a, b[i])
         PROVE  a \in Promise!Held(b)
    <3>1. b[i] \in gone /\ b[i] \in Promise!Waiting
      BY <1>2, <2>8, <2>9
    <3>2. b[i] \in Elements(inserted) \cup Elements(batch)
      BY <3>1 DEF gone
    <3>3. a \in Elements(inserted) \cup Elements(batch)
      BY <2>10, <3>1, <3>2, BatchIsOldest
    <3>4. a \in Probe
      BY WaitingIs
    <3> QED BY <2>6, <3>3, <3>4 DEF gone
  <2>11. b \in Promise!Batches
    BY <2>7, <2>8, <2>10 DEF Promise!Batches
  <2>12. Promise!Drop(b)
    BY <1>1, <2>6 DEF Promise!Drop
  <2> QED BY <2>11, <2>12 DEF Promise!Next
<1> QED BY <1>7, <1>8

LEMMA PromiseStep ==
  ASSUME TypeOK, WriterInv, OnceInv, OrderInv, SizeInv, [Next]_vars
  PROVE  [Promise!Next]_Promise!vars
<1>1. CASE UNCHANGED <<accepted, committed, lost>>
  BY <1>1 DEF Promise!vars
\* An event that a queue takes, or that is refused.
<1>2. ASSUME NEW e, e = Noise \/ (e \in Probe /\ e \notin Elements(accepted) \cup lost),
             committed' = committed,
             \/ accepted' = Noted(accepted, e) /\ lost' = lost
             \/ accepted' = accepted /\ lost' = lost \cup ({e} \cap Probe)
      PROVE  [Promise!Next]_Promise!vars
  <2>1. CASE e = Noise
    BY <1>1, <1>2, <2>1, EventsAre DEF Noted
  <2>2. CASE e \in Promise!New
    <3>1. e \in Promise!Event /\ e \in Probe
      BY <2>2, WaitingIs
    <3>2. Promise!Accept(e) \/ Promise!Refuse(e)
      BY <1>2, <2>2, <3>1 DEF Promise!Accept, Promise!Refuse, Noted
    <3> QED BY <3>1, <3>2 DEF Promise!Next
  <2> QED BY <1>2, <2>1, <2>2, WaitingIs
<1>3. ASSUME NEW h \in Handler,
             \/ \E todo \in Calls : SubmitAnswer(h, todo) \/ BanAddress(h, todo)
             \/ AcquireChallenges(h) \/ Return(h)
      PROVE  UNCHANGED <<accepted, committed, lost>>
  BY <1>3 DEF SubmitAnswer, BanAddress, AcquireChallenges, Return, history
<1>4. ASSUME NEW h \in Handler, Send(h)
      PROVE  [Promise!Next]_Promise!vars
  <2> DEFINE e == Head(Todo(h))
  <2>1. handlers[h].pc = "send" /\ Todo(h) # <<>> /\ Todo(h) \in Seq(UrgentEvent)
    BY <1>4, TodoTyped DEF Send
  <2>2. e \in Elements(Todo(h)) /\ e \in Event
    BY <2>1, HeadAndTail, EventsAre
  <2>3. e = Noise \/ (e \in Probe /\ e \notin Elements(accepted) \cup lost)
    BY <2>2, EventsAre DEF OnceInv, TodosApart, Disjoint
  <2>4. /\ committed' = committed
        /\ \/ accepted' = accepted /\ lost' = lost \cup ({e} \cap Probe)
           \/ accepted' = Noted(accepted, e) /\ lost' = lost
    BY <1>4, <2>1, TodoTyped DEF Send
  <2> HIDE DEF e
  <2> QED BY <1>2, <2>3, <2>4
<1>5. ASSUME NEW h \in Handler, NEW e \in LogEvent, RecordRequest(h, e)
      PROVE  [Promise!Next]_Promise!vars
  <2>1. /\ e = Noise \/ e \in Fresh
        /\ committed' = committed
        /\ \/ accepted' = accepted /\ lost' = lost \cup ({e} \cap Probe)
           \/ accepted' = Noted(accepted, e) /\ lost' = lost
    BY <1>5 DEF RecordRequest
  <2>2. e = Noise \/ (e \in Probe /\ e \notin Elements(accepted) \cup lost)
    BY <2>1 DEF Fresh, Made
  <2> QED BY <1>2, <2>1, <2>2
<1>6. CASE OpenDatabase \/ Receive \/ Fill \/ TopUp \/ Insert \/ Cleanup
  BY <1>1, <1>6 DEF OpenDatabase, Receive, Fill, TopUp, Insert, Cleanup, history
<1>7. ASSUME NEW unsent \in SUBSET Promise!New,
             UNCHANGED <<accepted, committed>>,
             lost' = lost \cup (InFlight \cap Probe) \cup unsent
      PROVE  [Promise!Next]_Promise!vars
  <2>1. Promise!Crash(unsent)
    BY <1>7, WaitingIs DEF Promise!Crash
  <2> QED BY <2>1 DEF Promise!Next
<1>8. CASE CannotOpen
  <2>1. InFlight = Elements(security) \cup Elements(requests)
    BY <1>8, EmptyPlace DEF CannotOpen, WriterInv, InFlight
  <2>2. /\ UNCHANGED <<accepted, committed>>
        /\ lost' = lost \cup (InFlight \cap Probe) \cup {}
    BY <1>8, <2>1 DEF CannotOpen
  <2>3. {} \in SUBSET Promise!New
    OBVIOUS
  <2> QED BY <1>7, <2>2, <2>3
<1>9. CASE Restart
  <2> DEFINE unsent == (UNION {Elements(Todo(h)) : h \in Handler}) \cap Probe
  <2>1. unsent \in SUBSET Promise!New
    BY WaitingIs, EventsAre DEF OnceInv, TodosApart, Disjoint
  <2>2. UNCHANGED <<accepted, committed>> /\ lost' = lost \cup (InFlight \cap Probe) \cup unsent
    BY <1>9 DEF Restart, InFlight
  <2> HIDE DEF unsent
  <2> QED BY <1>7, <2>1, <2>2
<1>10. CASE WriterStep
  BY <1>6, <1>8, <1>10, CommitIsWrite, FailureIsDrop DEF WriterStep
<1>11. CASE UNCHANGED vars
  BY <1>1, <1>11 DEF vars, history
<1> QED BY <1>1, <1>3, <1>4, <1>5, <1>9, <1>10, <1>11 DEF Next

\* Queues, batches and transactions, with every failure and every end of the
\* process, implement the log: what is written are the oldest events of their
\* queues, a whole batch or nothing of it.
THEOREM WriterImplementsLog == Spec => ImplementsLog
<1>1. Init => Promise!Init /\ SizeInv
  BY EmptySeq, WriterAssumptions DEF Init, Promise!Init, SizeInv
<1>2. TypeOK /\ WriterInv /\ SizeInv /\ [Next]_vars => SizeInv'
  BY SizeStep
<1>3. TypeOK /\ WriterInv /\ OnceInv /\ OrderInv /\ SizeInv /\ [Next]_vars
        => [Promise!Next]_Promise!vars
  BY PromiseStep
<1> QED BY <1>1, <1>2, <1>3, WriterInvariant, PTL
         DEF Spec, ImplementsLog, Promise!Spec

---------------------------------------------------------------------------
(* Who waits for whom. *)

\* The lock is held by one handler, and only while it sends.
LockInv ==
  /\ lock # NoOne => handlers[lock].pc = "send" /\ handlers[lock].locked
  /\ \A h \in Handler : handlers[h].pc = "send" /\ handlers[h].locked => lock = h

LEMMA LockStep ==
  ASSUME TypeOK, LockInv, [Next]_vars
  PROVE  LockInv'
<1>1. NoOne \notin Handler
  BY WriterAssumptions
<1>2. CASE UNCHANGED <<handlers, lock>>
  BY <1>2 DEF LockInv
<1>3. ASSUME NEW h \in Handler, NEW s \in HandlerState, Become(h, s), lock' = lock,
             s.pc = "send" => /\ s.locked => handlers[h].pc = "send" /\ handlers[h].locked
                              /\ handlers[h].pc = "send" => s.locked = handlers[h].locked,
             s.pc # "send" => ~(handlers[h].pc = "send" /\ handlers[h].locked)
      PROVE  LockInv'
  <2>1. /\ handlers'[h] = s
        /\ \A g \in Handler \ {h} : handlers'[g] = handlers[g]
    BY <1>3, BecomeTyped
  <2>2. lock \in Handler \cup {NoOne}
    BY DEF TypeOK
  <2> QED BY <1>3, <2>1, <2>2 DEF LockInv
<1>4. ASSUME NEW h \in Handler, NEW todo \in Calls, SubmitAnswer(h, todo) \/ BanAddress(h, todo)
      PROVE  LockInv'
  <2>1. /\ [pc |-> "enter", todo |-> todo] \in HandlerState
        /\ [pc |-> "send", todo |-> todo, locked |-> FALSE] \in HandlerState
    BY CallsTyped, HandlerStates
  <2>2. lock' = lock /\ handlers[h].pc = "idle"
    BY <1>4 DEF SubmitAnswer, BanAddress, Idle
  <2> QED BY <1>3, <1>4, <2>1, <2>2 DEF SubmitAnswer, BanAddress
<1>5. ASSUME NEW h \in Handler, AcquireChallenges(h)
      PROVE  LockInv'
  <2> DEFINE s == [pc |-> "send", todo |-> handlers[h].todo, locked |-> TRUE]
  <2>1. lock = NoOne /\ lock' = h /\ Become(h, s) /\ handlers[h].pc = "enter"
    BY <1>5 DEF AcquireChallenges
  <2>2. s \in HandlerState
    BY <2>1, TodoTyped, HandlerStates
  <2>3. handlers'[h] = s /\ \A g \in Handler \ {h} : handlers'[g] = handlers[g]
    BY <2>1, <2>2, BecomeTyped
  <2>4. \A g \in Handler : ~(handlers[g].pc = "send" /\ handlers[g].locked)
    BY <1>1, <2>1 DEF LockInv
  <2> QED BY <2>1, <2>3, <2>4 DEF LockInv
<1>6. ASSUME NEW h \in Handler, Send(h)
      PROVE  LockInv'
  <2> DEFINE hs == handlers[h]
             s == [hs EXCEPT !.todo = Tail(hs.todo)]
  <2>1. hs.pc = "send" /\ hs.todo # <<>> /\ Become(h, s) /\ lock' = lock
    BY <1>6 DEF Send
  <2>2. hs \in [pc: {"send"}, todo: Seq(UrgentEvent), locked: BOOLEAN]
    BY <2>1, TodoTyped
  <2>3. Tail(hs.todo) \in Seq(UrgentEvent)
    BY <2>1, <2>2, HeadAndTail
  <2>4. s \in HandlerState /\ s.pc = "send" /\ s.locked = hs.locked
    BY <2>2, <2>3 DEF HandlerState
  <2> QED BY <1>3, <2>1, <2>4
<1>7. ASSUME NEW h \in Handler, Return(h)
      PROVE  LockInv'
  <2>1. /\ handlers[h].pc = "send" /\ Become(h, Idle)
        /\ lock' = IF handlers[h].locked THEN NoOne ELSE lock
    BY <1>7 DEF Return, Released
  <2>2. /\ handlers'[h] = Idle
        /\ \A g \in Handler \ {h} : handlers'[g] = handlers[g]
    BY <2>1, HandlerStates, BecomeTyped, EmptyHolds
  <2>3. Idle.pc = "idle" /\ lock \in Handler \cup {NoOne}
    BY DEF Idle, TypeOK
  <2> QED BY <1>1, <2>1, <2>2, <2>3 DEF LockInv
<1>8. CASE Restart
  BY <1>1, <1>8 DEF Restart, LockInv, Idle
<1>9. CASE WriterStep
  BY <1>2, <1>9 DEF WriterStep, OpenDatabase, CannotOpen, Receive, Fill, TopUp, Insert,
                    Commit, WriteFails, Cleanup
<1>10. ASSUME NEW h \in Handler, NEW e \in LogEvent, RecordRequest(h, e)
       PROVE  LockInv'
  BY <1>2, <1>10 DEF RecordRequest
<1>11. CASE UNCHANGED vars
  BY <1>2, <1>11 DEF vars
<1> QED BY <1>4, <1>5, <1>6, <1>7, <1>8, <1>9, <1>10, <1>11 DEF Next

\* However many handlers answer and ban at once, none of them waits for another
\* that waits for it: what CallsReturn owes to fairness is only that the writer
\* runs and the lock is handed on.
THEOREM NoCircularWait == Spec => []WaitsEndAtWriter
<1>1. Init => LockInv
  BY DEF Init, LockInv, Idle
<1>2. TypeOK /\ LockInv /\ [Next]_vars => LockInv'
  BY LockStep
<1>3. TypeOK /\ LockInv => WaitsEndAtWriter
  <2> SUFFICES ASSUME TypeOK, LockInv, NEW h \in Handler, handlers[h].pc # "idle"
               PROVE  \/ GoesOn(h) \/ WaitsForWriter(h)
                      \/ /\ handlers[h].pc = "enter" /\ lock \in Handler \ {h}
                         /\ GoesOn(lock) \/ WaitsForWriter(lock)
    BY DEF WaitsEndAtWriter
  <2>1. Len(security) \in Nat /\ Len(security) <= SecurityCap /\ SecurityCap \in Nat
    BY WriterAssumptions DEF TypeOK
  <2>2. \A g \in Handler : handlers[g].pc = "send" => GoesOn(g) \/ WaitsForWriter(g)
    BY <2>1 DEF GoesOn, WaitsForWriter
  <2>3. CASE handlers[h].pc = "enter"
    BY <2>2, <2>3 DEF LockInv, GoesOn, TypeOK
  <2>4. handlers[h].pc \in {"idle", "enter", "send"}
    BY DEF TypeOK, HandlerState
  <2> QED BY <2>2, <2>3, <2>4
<1> QED BY <1>1, <1>2, <1>3, TypeCorrect, PTL DEF Spec
===========================================================================
