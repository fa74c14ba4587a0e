----------------------------- MODULE BansProofs -----------------------------
(***************************************************************************)
(* Theorems about Bans, for every number of requests and administrators and *)
(* every queue, batch, duration and delay.                                  *)
(***************************************************************************)
EXTENDS Bans, SequenceTheorems, WellFoundedInduction, TLAPS

---------------------------------------------------------------------------
(* Records of an address in a sequence of events.                           *)

\* A bounded nonempty set of numbers has a largest element.
LEMMA LargestExists ==
  ASSUME NEW S, NEW n \in Nat, S \subseteq 0..n, S # {}
  PROVE  \E m \in S : \A k \in S : k <= m
<1> DEFINE R == OpToRel(<, Nat)
           T == {n - k : k \in S}
<1>1. IsWellFoundedOn(R, Nat)
  BY NatLessThanWellFounded
<1>2. R = {ss \in Nat \X Nat : ss[1] < ss[2]}
  BY DEF OpToRel
<1>3. T \subseteq Nat /\ T # {}
  <2>1. ASSUME NEW k \in S PROVE n - k \in Nat
    OBVIOUS
  <2>2. PICK k \in S : TRUE
    OBVIOUS
  <2>3. n - k \in T
    BY <2>2
  <2> QED BY <2>1, <2>3
<1> HIDE DEF R, T
<1>4. PICK x \in T : \A y \in T : <<y, x>> \notin R
  BY <1>1, <1>3, WFMin
<1>5. ASSUME NEW y \in T
      PROVE  x <= y
  <2>1. <<y, x>> \in Nat \X Nat /\ <<y, x>>[1] = y /\ <<y, x>>[2] = x
    BY <1>3
  <2>2. ~ (y < x)
    BY <1>2, <1>4, <2>1
  <2> QED BY <1>3, <2>2
<1>6. PICK m \in S : x = n - m
  BY <1>4 DEF T
<1>7. ASSUME NEW k \in S PROVE k <= m
  <2>1. n - k \in T
    BY DEF T
  <2> QED BY <1>5, <1>6, <2>1
<1> QED BY <1>7

\* Position i of s holds its last record of ip.
LastAt(ip, s, i) == i \in Records(ip, s) /\ \A j \in Records(ip, s) : j <= i

LEMMA RecordsType ==
  ASSUME NEW s \in Seq(StorageEvent), NEW ip \in Ip, NEW i \in Records(ip, s)
  PROVE  i \in 1..Len(s) /\ s[i] \in BanRecord /\ s[i].ip = ip /\ s[i].expires_at \in Nat
<1>1. i \in 1..Len(s) /\ s[i] \in StorageEvent /\ s[i].type = "ban" /\ s[i].ip = ip
  BY DEF Records
<1>2. s[i] \in BanRecord
  BY <1>1 DEF StorageEvent, SecurityEvent
<1> QED BY <1>1, <1>2 DEF BanRecord

LEMMA LastExists ==
  ASSUME NEW s \in Seq(StorageEvent), NEW ip \in Ip, Records(ip, s) # {}
  PROVE  LastAt(ip, s, LastRecord(ip, s))
<1>1. Records(ip, s) \subseteq 0..Len(s) /\ Len(s) \in Nat
  BY RecordsType
<1>2. \E m \in Records(ip, s) : \A k \in Records(ip, s) : k <= m
  BY <1>1, LargestExists
<1> QED BY <1>2 DEF LastAt, LastRecord

\* What a batch leaves of an address's row.
LEMMA WrittenRow ==
  ASSUME NEW s \in Seq(StorageEvent), NEW ip \in Ip, NEW f
  PROVE  \/ Records(ip, s) = {} /\ Written(f, s)[ip] = f[ip]
         \/ \E i \in 1..Len(s) :
              LastAt(ip, s, i) /\ Written(f, s)[ip] = s[i].expires_at
<1>1. CASE Records(ip, s) = {}
  BY <1>1 DEF Written
<1>2. CASE Records(ip, s) # {}
  <2>1. LastAt(ip, s, LastRecord(ip, s))
    BY <1>2, LastExists
  <2>2. LastRecord(ip, s) \in 1..Len(s)
    BY <2>1, RecordsType DEF LastAt
  <2> QED BY <1>2, <2>1, <2>2 DEF Written
<1> QED BY <1>1, <1>2

LEMMA WrittenType ==
  ASSUME NEW s \in Seq(StorageEvent), NEW f \in [Ip -> Nat]
  PROVE  Written(f, s) \in [Ip -> Nat]
<1>1. ASSUME NEW ip \in Ip
      PROVE  Written(f, s)[ip] \in Nat
  BY WrittenRow, RecordsType DEF LastAt
<1>2. Written(f, s) = [ip \in Ip |-> Written(f, s)[ip]]
  BY DEF Written
<1> HIDE DEF Written
<1> QED BY <1>1, <1>2

LEMMA UnexpiredRow ==
  ASSUME clock \in Nat, NEW f \in [Ip -> Nat]
  PROVE  /\ Unexpired(f) \in [Ip -> Nat]
         /\ \A ip \in Ip : \/ Unexpired(f)[ip] = f[ip] /\ f[ip] > clock
                           \/ Unexpired(f)[ip] = 0 /\ f[ip] <= clock
BY DEF Unexpired

LEMMA UnexpiredWithin ==
  ASSUME clock \in Nat, NEW f \in [Ip -> Nat], NEW g \in [Ip -> Nat],
         \A ip \in Ip : f[ip] <= g[ip]
  PROVE  \A ip \in Ip : Unexpired(f)[ip] <= g[ip]
BY DEF Unexpired

\* The records of a sequence one event longer.
LEMMA AppendRecords ==
  ASSUME NEW s \in Seq(StorageEvent), NEW e \in StorageEvent, NEW ip \in Ip
  PROVE  /\ Append(s, e) \in Seq(StorageEvent)
         /\ Len(Append(s, e)) = Len(s) + 1
         /\ \A i \in 1..Len(s) : Append(s, e)[i] = s[i]
         /\ Append(s, e)[Len(s) + 1] = e
         /\ Records(ip, Append(s, e)) =
              Records(ip, s) \cup (IF e.type = "ban" /\ e.ip = ip THEN {Len(s) + 1} ELSE {})
<1>1. /\ Append(s, e) \in Seq(StorageEvent)
      /\ Len(Append(s, e)) = Len(s) + 1
      /\ \A i \in 1..Len(s) : Append(s, e)[i] = s[i]
      /\ Append(s, e)[Len(s) + 1] = e
  BY AppendProperties
<1>2. DOMAIN Append(s, e) = 1..(Len(s) + 1) /\ DOMAIN s = 1..Len(s) /\ Len(s) \in Nat
  BY <1>1, LenProperties
<1>3. 1..(Len(s) + 1) = 1..Len(s) \cup {Len(s) + 1}
  BY <1>2
<1> QED BY <1>1, <1>2, <1>3 DEF Records

\* A stretch of a sequence.
LEMMA Stretch ==
  ASSUME NEW s \in Seq(StorageEvent), NEW m \in 1..(Len(s) + 1), NEW n \in 0..Len(s),
         m <= n + 1
  PROVE  /\ SubSeq(s, m, n) \in Seq(StorageEvent)
         /\ Len(SubSeq(s, m, n)) = n - m + 1
         /\ \A i \in 1..(n - m + 1) : SubSeq(s, m, n)[i] = s[m + i - 1]
<1>1. \A i \in m..n : s[i] \in StorageEvent
  BY ElementOfSeq
<1>2. m \in Int /\ n \in Int /\ Len(s) \in Nat
  BY LenProperties
<1>3. /\ SubSeq(s, m, n) \in Seq(StorageEvent)
      /\ Len(SubSeq(s, m, n)) = IF m <= n THEN n - m + 1 ELSE 0
      /\ \A i \in 1..(n - m + 1) : SubSeq(s, m, n)[i] = s[m + i - 1]
  BY <1>1, <1>2, SubSeqProperties
<1> QED BY <1>2, <1>3

---------------------------------------------------------------------------
(* Type correctness.                                                        *)

LEMMA TypeInit == Init => TypeOK
BY ConfigAssumption DEF Init, TypeOK, Idle, HandlerState, AdminState, Nothing

LEMMA TypeRequest ==
  ASSUME TypeOK, NEW h \in Handler, RequestStep(h)
  PROVE  TypeOK'
<1>0. handlers[h] \in HandlerState
  BY DEF TypeOK
<1>1. ASSUME NEW ip \in Ip, Check(h, ip)
      PROVE  TypeOK'
  <2>1. bans' \in [Ip -> Nat]
    BY <1>1, UnexpiredRow DEF Check, TypeOK
  <2>2. handlers' \in [Handler -> HandlerState]
    BY <1>1 DEF Check, TypeOK, Idle, HandlerState
  <2> QED BY <1>1, <2>1, <2>2 DEF Check, TypeOK, history
<1>2. CASE Serve(h)
  <2>1. handlers' \in [Handler -> HandlerState]
    BY <1>2 DEF Serve, TypeOK, Idle, HandlerState
  <2> QED BY <1>2, <2>1 DEF Serve, TypeOK, history
<1>3. CASE Ban(h)
  <2>1. handlers[h].ip \in Ip /\ clock + Duration \in Nat
    BY <1>0, <1>3, ConfigAssumption DEF Ban, TypeOK, HandlerState
  <2>2. bans' \in [Ip -> Nat] /\ decided' \in [Ip -> Nat]
    BY <1>3, <2>1 DEF Ban, TypeOK
  <2> DEFINE hs == [pc |-> "record", ip |-> handlers[h].ip, expires_at |-> clock + Duration]
  <2>3. hs \in HandlerState
    BY <2>1 DEF HandlerState
  <2>4. handlers' = [handlers EXCEPT ![h] = hs]
    BY <1>3 DEF Ban
  <2> HIDE DEF hs
  <2>5. handlers' \in [Handler -> HandlerState]
    BY <2>3, <2>4 DEF TypeOK
  <2>6. standing' \in [Ip -> Int]
    <3>1. standing' = [standing EXCEPT ![handlers[h].ip] =
                         IF standing[handlers[h].ip] = Lifted THEN Nothing
                         ELSE standing[handlers[h].ip]]
      BY <1>3 DEF Ban
    <3>2. standing \in [Ip -> Int] /\ Nothing \in Int
      BY DEF TypeOK, Nothing
    <3> QED BY <2>1, <3>1, <3>2
  <2>7. crossed' \subseteq Ip
    BY <1>3, <2>1 DEF Ban, TypeOK
  <2> QED BY <1>3, <2>2, <2>5, <2>6, <2>7 DEF Ban, TypeOK
<1>4. CASE RecordBan(h)
  <2> DEFINE e == [type |-> "ban", ip |-> handlers[h].ip, expires_at |-> handlers[h].expires_at]
  <2>1. handlers[h].ip \in Ip /\ handlers[h].expires_at \in Nat
    BY <1>0, <1>4 DEF RecordBan, HandlerState
  <2>2. e \in StorageEvent
    BY <2>1 DEF StorageEvent, BanRecord
  <2>3. queue' = Append(queue, e)
    BY <1>4 DEF RecordBan, Recorded
  <2> HIDE DEF e
  <2>4. queue' \in Seq(StorageEvent) /\ Len(queue') = Len(queue) + 1
    BY <2>2, <2>3, AppendProperties DEF TypeOK
  <2>5. Len(queue') <= QueueSize
    BY <1>4, <2>4, ConfigAssumption, LenProperties DEF RecordBan, Room, TypeOK
  <2>6. handlers' \in [Handler -> HandlerState]
    BY <1>4 DEF RecordBan, TypeOK, HandlerState
  <2> QED BY <1>4, <2>4, <2>5, <2>6 DEF RecordBan, TypeOK, history
<1>5. CASE RecordSecurity(h)
  <2>1. Event \in StorageEvent
    BY DEF Event, StorageEvent, SecurityEvent
  <2>2. queue' = Append(queue, Event)
    BY <1>5 DEF RecordSecurity
  <2>3. queue' \in Seq(StorageEvent) /\ Len(queue') = Len(queue) + 1
    BY <2>1, <2>2, AppendProperties DEF TypeOK
  <2>4. Len(queue') <= QueueSize
    BY <1>5, <2>3, ConfigAssumption, LenProperties DEF RecordSecurity, Room, TypeOK
  <2>5. handlers' \in [Handler -> HandlerState]
    BY <1>5 DEF RecordSecurity, TypeOK, Idle, HandlerState
  <2> QED BY <1>5, <2>3, <2>4, <2>5 DEF RecordSecurity, TypeOK, history
<1>6. ASSUME NEW ip \in Ip, Pass(h, ip)
      PROVE  TypeOK'
  <2>1. handlers' \in [Handler -> HandlerState]
    BY <1>6 DEF Pass, TypeOK, HandlerState
  <2> QED BY <1>6, <2>1 DEF Pass, TypeOK, history
<1>7. CASE BanUnsent(h)
  <2>1. handlers[h].ip \in Ip
    BY <1>0, <1>7 DEF BanUnsent, HandlerState
  <2>2. handlers' \in [Handler -> HandlerState]
    BY <1>7 DEF BanUnsent, TypeOK, HandlerState
  <2> QED BY <1>7, <2>1, <2>2 DEF BanUnsent, TypeOK
<1>8. CASE EventUnsent(h)
  <2>1. handlers' \in [Handler -> HandlerState]
    BY <1>8 DEF EventUnsent, TypeOK, Idle, HandlerState
  <2> QED BY <1>8, <2>1 DEF EventUnsent, TypeOK, history
<1> QED BY <1>1, <1>2, <1>3, <1>4, <1>5, <1>6, <1>7, <1>8 DEF RequestStep

LEMMA TypeWriter ==
  ASSUME TypeOK, WriterStep
  PROVE  TypeOK'
<1>1. ASSUME NEW n \in 1..BatchSize, n <= Len(queue), Receive(n)
      PROVE  TypeOK'
  <2>1. Len(queue) \in Nat /\ n \in 0..Len(queue)
    BY <1>1, ConfigAssumption, LenProperties DEF TypeOK
  <2>2. batch' \in Seq(StorageEvent) /\ Len(batch') = n
    BY <1>1, <2>1, Stretch DEF Receive, TypeOK
  <2>3. queue' \in Seq(StorageEvent) /\ Len(queue') = Len(queue) - n
    BY <1>1, <2>1, Stretch DEF Receive, TypeOK
  <2>4. Len(batch') <= BatchSize /\ Len(queue') <= QueueSize
    BY <2>1, <2>2, <2>3, ConfigAssumption DEF TypeOK
  <2> QED BY <1>1, <2>2, <2>3, <2>4 DEF Receive, TypeOK, history
<1>2. ASSUME batch' = <<>>
      PROVE  batch' \in Seq(StorageEvent) /\ Len(batch') <= BatchSize
  BY <1>2, EmptySeq, ConfigAssumption
<1>3. CASE Commit
  <2>1. table' \in [Ip -> Nat]
    BY <1>3, WrittenType, UnexpiredRow DEF Commit, TypeOK
  <2> QED BY <1>2, <1>3, <2>1 DEF Commit, TypeOK, history
<1>4. CASE Fail
  <2>1. table' \in [Ip -> Nat]
    BY <1>4, UnexpiredRow DEF Fail, TypeOK
  <2>2. lost' \subseteq Ip
    BY <1>4 DEF Fail, TypeOK
  <2> QED BY <1>2, <1>4, <2>1, <2>2 DEF Fail, TypeOK
<1>5. CASE CleanUp
  <2>1. table' \in [Ip -> Nat]
    BY <1>5, UnexpiredRow DEF CleanUp, TypeOK
  <2> QED BY <1>5, <2>1 DEF CleanUp, TypeOK, history
<1>6. CASE OpenDatabase
  BY <1>6 DEF OpenDatabase, TypeOK, history
<1>7. CASE CannotOpen
  <2>1. queue' \in Seq(StorageEvent) /\ Len(queue') <= QueueSize
    BY <1>7, EmptySeq, ConfigAssumption DEF CannotOpen
  <2>2. lost' \subseteq Ip
    BY <1>7 DEF CannotOpen, TypeOK
  <2> QED BY <1>7, <2>1, <2>2 DEF CannotOpen, TypeOK
<1> QED BY <1>1, <1>3, <1>4, <1>5, <1>6, <1>7 DEF WriterStep

LEMMA TypeAdmin ==
  ASSUME TypeOK, NEW a \in Admin, AdminStep(a)
  PROVE  TypeOK'
<1>0. admins[a] \in AdminState
  BY DEF TypeOK
<1>1. ASSUME NEW ip \in Ip, ClearBan(a, ip)
      PROVE  TypeOK'
  <2>1. admins' \in [Admin -> AdminState]
    BY <1>1 DEF ClearBan, TypeOK, AdminState
  <2>2. table' \in [Ip -> Nat] /\ standing' \in [Ip -> Int]
    BY <1>1 DEF ClearBan, TypeOK, Lifted
  <2> QED BY <1>1, <2>1, <2>2 DEF ClearBan, TypeOK, Crossed
<1>2. ASSUME NEW ip \in Ip, NEW term \in Term, SetBan(a, ip, term)
      PROVE  TypeOK'
  <2>1. clock + term \in Nat
    BY ConfigAssumption DEF TypeOK
  <2> DEFINE as == [pc |-> "apply", ip |-> ip, expires_at |-> clock + term]
  <2>2. as \in AdminState
    BY <2>1 DEF AdminState
  <2>3. admins' = [admins EXCEPT ![a] = as]
    BY <1>2 DEF SetBan
  <2> HIDE DEF as
  <2>4. admins' \in [Admin -> AdminState]
    BY <2>2, <2>3 DEF TypeOK
  <2>5. table' \in [Ip -> Nat] /\ decided' \in [Ip -> Nat]
    BY <1>2, <2>1 DEF SetBan, TypeOK
  <2>6. standing' \in [Ip -> Int]
    BY <1>2, <2>1 DEF SetBan, TypeOK
  <2> QED BY <1>2, <2>4, <2>5, <2>6 DEF SetBan, TypeOK, Crossed
<1>3. CASE SetManualBan(a)
  <2>1. admins[a].ip \in Ip /\ admins[a].expires_at \in Nat
    BY <1>0, <1>3 DEF SetManualBan, AdminState
  <2>2. bans' \in [Ip -> Nat]
    BY <1>3, <2>1 DEF SetManualBan, Armed, TypeOK
  <2>3. admins' \in [Admin -> AdminState]
    BY <1>3 DEF SetManualBan, TypeOK, Idle, AdminState
  <2> QED BY <1>3, <2>2, <2>3 DEF SetManualBan, TypeOK, history
<1>4. CASE ClearBanEntry(a)
  <2>1. bans' \in [Ip -> Nat]
    BY <1>4 DEF ClearBanEntry, TypeOK
  <2>2. admins' \in [Admin -> AdminState]
    BY <1>4 DEF ClearBanEntry, TypeOK, Idle, AdminState
  <2> QED BY <1>4, <2>1, <2>2 DEF ClearBanEntry, TypeOK, history
<1> QED BY <1>1, <1>2, <1>3, <1>4 DEF AdminStep

LEMMA TypeRestart ==
  ASSUME TypeOK, Restart
  PROVE  TypeOK'
<1>1. bans' \in [Ip -> Nat]
  BY UnexpiredRow DEF Restart, Loaded, TypeOK
<1>2. handlers' \in [Handler -> HandlerState] /\ admins' \in [Admin -> AdminState]
  BY DEF Restart, Idle, HandlerState, AdminState
<1>3. queue' \in Seq(StorageEvent) /\ Len(queue') <= QueueSize
  BY EmptySeq, ConfigAssumption DEF Restart
<1>4. batch' \in Seq(StorageEvent) /\ Len(batch') <= BatchSize
  BY EmptySeq, ConfigAssumption DEF Restart
<1>5. standing' \in [Ip -> Int]
  BY DEF Restart, TypeOK, Nothing
<1>6. lost' \subseteq Ip
  BY DEF Restart, TypeOK
<1> QED BY <1>1, <1>2, <1>3, <1>4, <1>5, <1>6 DEF Restart, TypeOK

LEMMA TypeStep == TypeOK /\ [Next]_vars => TypeOK'
<1> SUFFICES ASSUME TypeOK, [Next]_vars
             PROVE  TypeOK'
  OBVIOUS
<1>1. CASE Tick
  BY <1>1 DEF Tick, TypeOK, history
<1>2. CASE UNCHANGED vars
  BY <1>2 DEF vars, TypeOK, history
<1> QED BY <1>1, <1>2, TypeRequest, TypeWriter, TypeAdmin, TypeRestart DEF Next

\* Every reachable state is well typed: in particular neither the security queue
\* nor a batch outgrows its bound, however many requests wait for room.
THEOREM TypeCorrect == Spec => []TypeOK
<1>1. Init => TypeOK
  BY TypeInit
<1>2. TypeOK /\ [Next]_vars => TypeOK'
  BY TypeStep
<1> QED BY <1>1, <1>2, PTL DEF Spec

---------------------------------------------------------------------------
(* How long a ban lasts.                                                    *)

\* The records of a sequence respect what was decided.
Decided(s) == \A i \in 1..Len(s) : s[i].type = "ban" => s[i].expires_at <= decided[s[i].ip]

TermInv ==
  /\ \A ip \in Ip : bans[ip] <= decided[ip] \/ bans[ip] <= clock
  /\ \A ip \in Ip : table[ip] <= decided[ip]
  /\ \A h \in Handler : handlers[h].pc = "record" =>
       handlers[h].expires_at <= decided[handlers[h].ip]
  /\ \A a \in Admin : admins[a].pc = "apply" =>
       admins[a].expires_at <= decided[admins[a].ip]
  /\ Decided(queue)
  /\ Decided(batch)

LEMMA TermInit == Init => TermInv
BY EmptySeq DEF Init, TermInv, Decided, Idle

\* Deciding another ban only lets the bound grow.
LEMMA TermGrows ==
  ASSUME TypeOK, TermInv, TypeOK', \A ip \in Ip : decided[ip] <= decided'[ip]
  PROVE  /\ \A ip \in Ip : bans[ip] <= decided'[ip] \/ bans[ip] <= clock
         /\ \A ip \in Ip : table[ip] <= decided'[ip]
         /\ \A h \in Handler : handlers[h].pc = "record" =>
              handlers[h].expires_at <= decided'[handlers[h].ip]
         /\ \A a \in Admin : admins[a].pc = "apply" =>
              admins[a].expires_at <= decided'[admins[a].ip]
         /\ UNCHANGED queue => Decided(queue)'
         /\ UNCHANGED batch => Decided(batch)'
<1>0. ASSUME NEW x \in Nat, NEW ip \in Ip, x <= decided[ip]
      PROVE  x <= decided'[ip]
  BY <1>0 DEF TypeOK
<1>1. \A ip \in Ip : bans[ip] <= decided'[ip] \/ bans[ip] <= clock
  BY <1>0 DEF TypeOK, TermInv
<1>2. \A ip \in Ip : table[ip] <= decided'[ip]
  BY <1>0 DEF TypeOK, TermInv
<1>3. ASSUME NEW h \in Handler, handlers[h].pc = "record"
      PROVE  handlers[h].expires_at <= decided'[handlers[h].ip]
  <2>1. handlers[h] \in HandlerState
    BY DEF TypeOK
  <2>2. handlers[h].ip \in Ip /\ handlers[h].expires_at \in Nat
    BY <1>3, <2>1 DEF HandlerState
  <2> QED BY <1>0, <1>3, <2>2 DEF TermInv
<1>4. ASSUME NEW a \in Admin, admins[a].pc = "apply"
      PROVE  admins[a].expires_at <= decided'[admins[a].ip]
  <2>1. admins[a] \in AdminState
    BY DEF TypeOK
  <2>2. admins[a].ip \in Ip /\ admins[a].expires_at \in Nat
    BY <1>4, <2>1 DEF AdminState
  <2> QED BY <1>0, <1>4, <2>2 DEF TermInv
<1>5. ASSUME NEW s \in Seq(StorageEvent), Decided(s)
      PROVE  \A i \in 1..Len(s) : s[i].type = "ban" => s[i].expires_at <= decided'[s[i].ip]
  <2> SUFFICES ASSUME NEW i \in 1..Len(s), s[i].type = "ban"
               PROVE  s[i].expires_at <= decided'[s[i].ip]
    OBVIOUS
  <2>1. s[i] \in BanRecord
    BY DEF StorageEvent, SecurityEvent
  <2> QED BY <1>0, <1>5, <2>1 DEF Decided, BanRecord
<1>6. UNCHANGED queue => Decided(queue)'
  BY <1>5 DEF TypeOK, TermInv, Decided
<1>7. UNCHANGED batch => Decided(batch)'
  BY <1>5 DEF TypeOK, TermInv, Decided
<1> QED BY <1>1, <1>2, <1>3, <1>4, <1>6, <1>7

LEMMA TermRequest ==
  ASSUME TypeOK, TypeOK', TermInv, NEW h \in Handler, RequestStep(h)
  PROVE  TermInv'
<1>0. handlers[h] \in HandlerState
  BY DEF TypeOK
<1>1. ASSUME NEW ip \in Ip, Check(h, ip)
      PROVE  TermInv'
  <2>1. ASSUME NEW j \in Ip
        PROVE  bans'[j] <= decided'[j] \/ bans'[j] <= clock'
    <3>1. bans'[j] = bans[j] \/ bans'[j] = 0
      BY <1>1 DEF Check, Unexpired
    <3>2. decided'[j] = decided[j] /\ decided[j] \in Nat /\ clock' = clock
      BY <1>1 DEF Check, TypeOK, history
    <3> QED BY <3>1, <3>2 DEF TermInv
  <2>2. \A g \in Handler : handlers'[g].pc = "record" => handlers'[g] = handlers[g]
    BY <1>1 DEF Check, TypeOK, Idle
  <2> QED BY <1>1, <2>1, <2>2 DEF Check, TermInv, Decided, history
<1>2. CASE Serve(h)
  <2>1. \A g \in Handler : handlers'[g].pc = "record" => handlers'[g] = handlers[g]
    BY <1>2 DEF Serve, TypeOK, Idle
  <2> QED BY <1>2, <2>1 DEF Serve, TermInv, Decided, history
<1>3. CASE Ban(h)
  <2> DEFINE ip == handlers[h].ip
             e == clock + Duration
  <2>1. ip \in Ip /\ e \in Nat
    BY <1>0, <1>3, ConfigAssumption DEF Ban, TypeOK, HandlerState
  <2>2. /\ \A j \in Ip : decided[j] <= decided'[j]
        /\ e <= decided'[ip]
    BY <1>3, <2>1 DEF Ban, TypeOK
  <2>3. /\ \A j \in Ip : bans'[j] = bans[j] \/ (j = ip /\ bans'[j] = e)
        /\ \A g \in Handler : g # h => handlers'[g] = handlers[g]
        /\ handlers'[h].ip = ip /\ handlers'[h].expires_at = e
        /\ UNCHANGED <<clock, table, queue, batch, admins>>
    BY <1>3 DEF Ban, TypeOK
  <2> HIDE DEF ip, e
  <2> QED BY <2>2, <2>3, TermGrows DEF TermInv
<1>4. CASE RecordBan(h)
  <2> DEFINE e == [type |-> "ban", ip |-> handlers[h].ip, expires_at |-> handlers[h].expires_at]
  <2>1. handlers[h].ip \in Ip /\ handlers[h].expires_at \in Nat
    BY <1>0, <1>4 DEF RecordBan, HandlerState
  <2>2. e \in StorageEvent /\ e.ip = handlers[h].ip /\ e.expires_at <= decided[e.ip]
    BY <1>4, <2>1 DEF StorageEvent, BanRecord, RecordBan, TermInv
  <2>3. queue' = Append(queue, e)
    BY <1>4 DEF RecordBan, Recorded
  <2> HIDE DEF e
  <2>4. /\ Len(queue') = Len(queue) + 1
        /\ \A i \in 1..Len(queue) : queue'[i] = queue[i]
        /\ queue'[Len(queue) + 1] = e
        /\ Len(queue) \in Nat
    BY <2>2, <2>3, AppendProperties, LenProperties DEF TypeOK
  <2>5. Decided(queue)'
    BY <1>4, <2>2, <2>4 DEF Decided, TermInv, RecordBan, history
  <2>6. \A g \in Handler : handlers'[g].pc = "record" => handlers'[g] = handlers[g]
    BY <1>4 DEF RecordBan, TypeOK
  <2> QED BY <1>4, <2>5, <2>6 DEF RecordBan, TermInv, Decided, history
<1>5. CASE RecordSecurity(h)
  <2>1. Event \in StorageEvent /\ Event.type # "ban"
    BY DEF Event, StorageEvent, SecurityEvent
  <2>2. queue' = Append(queue, Event)
    BY <1>5 DEF RecordSecurity
  <2>3. /\ Len(queue') = Len(queue) + 1
        /\ \A i \in 1..Len(queue) : queue'[i] = queue[i]
        /\ queue'[Len(queue) + 1] = Event
        /\ Len(queue) \in Nat
    BY <2>1, <2>2, AppendProperties, LenProperties DEF TypeOK
  <2>4. Decided(queue)'
    BY <1>5, <2>1, <2>3 DEF Decided, TermInv, RecordSecurity, history
  <2>5. \A g \in Handler : handlers'[g].pc = "record" => handlers'[g] = handlers[g]
    BY <1>5 DEF RecordSecurity, TypeOK, Idle
  <2> QED BY <1>5, <2>4, <2>5 DEF RecordSecurity, TermInv, Decided, history
<1>6. ASSUME NEW ip \in Ip, Pass(h, ip)
      PROVE  TermInv'
  <2>1. \A g \in Handler : handlers'[g].pc = "record" => handlers'[g] = handlers[g]
    BY <1>6 DEF Pass, TypeOK
  <2> QED BY <1>6, <2>1 DEF Pass, TermInv, Decided, history
<1>7. CASE BanUnsent(h) \/ EventUnsent(h)
  <2>1. \A g \in Handler : handlers'[g].pc = "record" => handlers'[g] = handlers[g]
    BY <1>7 DEF BanUnsent, EventUnsent, TypeOK, Idle
  <2>2. UNCHANGED <<clock, bans, table, queue, batch, admins, decided>>
    BY <1>7 DEF BanUnsent, EventUnsent, history
  <2> QED BY <2>1, <2>2 DEF TermInv, Decided
<1> QED BY <1>1, <1>2, <1>3, <1>4, <1>5, <1>6, <1>7 DEF RequestStep

LEMMA TermWriter ==
  ASSUME TypeOK, TypeOK', TermInv, WriterStep
  PROVE  TermInv'
<1>1. ASSUME NEW n \in 1..BatchSize, n <= Len(queue), Receive(n)
      PROVE  TermInv'
  <2>1. Len(queue) \in Nat /\ n \in 0..Len(queue)
    BY <1>1, ConfigAssumption, LenProperties DEF TypeOK
  <2>2. Len(batch') = n /\ \A i \in 1..n : batch'[i] = queue[i]
    BY <1>1, <2>1, Stretch DEF Receive, TypeOK
  <2>3. Len(queue') = Len(queue) - n /\ \A i \in 1..(Len(queue) - n) : queue'[i] = queue[n + i]
    BY <1>1, <2>1, Stretch DEF Receive, TypeOK
  <2>4. decided' = decided
    BY <1>1 DEF Receive, history
  <2>5. \A i \in 1..Len(queue) : queue[i].type = "ban" =>
                                    queue[i].expires_at <= decided[queue[i].ip]
    BY DEF TermInv, Decided
  <2>6. Decided(batch)'
    <3>1. 1..n \subseteq 1..Len(queue)
      BY <2>1
    <3> QED BY <2>2, <2>4, <2>5, <3>1 DEF Decided
  <2>7. Decided(queue)'
    <3>1. \A i \in 1..(Len(queue) - n) : n + i \in 1..Len(queue)
      BY <2>1
    <3> QED BY <2>3, <2>4, <2>5, <3>1 DEF Decided
  <2> QED BY <1>1, <2>6, <2>7 DEF Receive, TermInv, history
<1>2. ASSUME batch' = <<>>
      PROVE  Decided(batch)'
  BY <1>2, EmptySeq DEF Decided
<1>3. CASE Commit
  <2>1. ASSUME NEW ip \in Ip
        PROVE  Written(table, batch)[ip] <= decided[ip]
    <3>1. CASE \E i \in 1..Len(batch) :
                 LastAt(ip, batch, i) /\ Written(table, batch)[ip] = batch[i].expires_at
      BY <3>1 DEF LastAt, Records, TermInv, Decided
    <3>2. CASE Written(table, batch)[ip] = table[ip]
      BY <3>2 DEF TermInv
    <3>3. batch \in Seq(StorageEvent)
      BY DEF TypeOK
    <3>4. \/ Written(table, batch)[ip] = table[ip]
          \/ \E i \in 1..Len(batch) :
               LastAt(ip, batch, i) /\ Written(table, batch)[ip] = batch[i].expires_at
      BY <3>3, WrittenRow
    <3> QED BY <3>1, <3>2, <3>4
  <2>2. \A ip \in Ip : table'[ip] <= decided'[ip]
    <3>1. Written(table, batch) \in [Ip -> Nat]
      BY WrittenType DEF TypeOK
    <3> QED BY <1>3, <2>1, <3>1, UnexpiredWithin DEF Commit, TypeOK, history
  <2> QED BY <1>2, <1>3, <2>2 DEF Commit, TermInv, Decided, history
<1>4. CASE Fail
  <2>1. \A ip \in Ip : table'[ip] <= decided'[ip]
    BY <1>4, UnexpiredWithin DEF Fail, TypeOK, TermInv
  <2> QED BY <1>2, <1>4, <2>1 DEF Fail, TermInv, Decided
<1>5. CASE CleanUp
  <2>1. \A ip \in Ip : table'[ip] <= decided'[ip]
    BY <1>5, UnexpiredWithin DEF CleanUp, TypeOK, TermInv, history
  <2> QED BY <1>5, <2>1 DEF CleanUp, TermInv, Decided, history
<1>6. CASE OpenDatabase
  BY <1>6 DEF OpenDatabase, TermInv, Decided, history
<1>7. CASE CannotOpen
  <2>1. Decided(queue)'
    BY <1>7, EmptySeq DEF CannotOpen, Decided
  <2> QED BY <1>7, <2>1 DEF CannotOpen, TermInv, Decided
<1> QED BY <1>1, <1>3, <1>4, <1>5, <1>6, <1>7 DEF WriterStep

LEMMA TermAdmin ==
  ASSUME TypeOK, TypeOK', TermInv, NEW a \in Admin, AdminStep(a)
  PROVE  TermInv'
<1>0. admins[a] \in AdminState
  BY DEF TypeOK
<1>1. ASSUME NEW ip \in Ip, ClearBan(a, ip)
      PROVE  TermInv'
  <2>1. \A j \in Ip : table'[j] = table[j] \/ table'[j] = 0
    BY <1>1 DEF ClearBan, TypeOK
  <2>2. \A b \in Admin : admins'[b].pc = "apply" => admins'[b] = admins[b]
    BY <1>1 DEF ClearBan, TypeOK
  <2> QED BY <1>1, <2>1, <2>2 DEF ClearBan, TermInv, Decided, TypeOK
<1>2. ASSUME NEW ip \in Ip, NEW term \in Term, SetBan(a, ip, term)
      PROVE  TermInv'
  <2> DEFINE e == clock + term
  <2>1. e \in Nat
    BY ConfigAssumption DEF TypeOK
  <2>2. /\ \A j \in Ip : decided[j] <= decided'[j]
        /\ e <= decided'[ip]
    BY <1>2, <2>1 DEF SetBan, TypeOK
  <2>3. /\ \A j \in Ip : table'[j] = table[j] \/ (j = ip /\ table'[j] = e)
        /\ \A b \in Admin : b # a => admins'[b] = admins[b]
        /\ admins'[a].ip = ip /\ admins'[a].expires_at = e
        /\ UNCHANGED <<clock, bans, queue, batch, handlers>>
    BY <1>2 DEF SetBan, TypeOK
  <2> HIDE DEF e
  <2> QED BY <2>2, <2>3, TermGrows DEF TermInv
<1>3. CASE SetManualBan(a)
  <2>1. admins[a].ip \in Ip /\ admins[a].expires_at \in Nat
    BY <1>0, <1>3 DEF SetManualBan, AdminState
  <2>2. admins[a].expires_at <= decided[admins[a].ip]
    BY <1>3 DEF SetManualBan, TermInv
  <2>3. \A j \in Ip : bans'[j] = bans[j]
                      \/ (j = admins[a].ip /\ bans'[j] = admins[a].expires_at)
                      \/ bans'[j] = clock
    BY <1>3, <2>1 DEF SetManualBan, Armed, TypeOK
  <2>4. \A j \in Ip : bans'[j] <= decided'[j] \/ bans'[j] <= clock'
    BY <1>3, <2>2, <2>3 DEF SetManualBan, TermInv, history, TypeOK
  <2>5. \A b \in Admin : admins'[b].pc = "apply" => admins'[b] = admins[b]
    BY <1>3 DEF SetManualBan, TypeOK, Idle
  <2> QED BY <1>3, <2>4, <2>5 DEF SetManualBan, TermInv, Decided, history
<1>4. CASE ClearBanEntry(a)
  <2>1. \A j \in Ip : bans'[j] = bans[j] \/ bans'[j] = 0
    BY <1>4 DEF ClearBanEntry, TypeOK
  <2>2. \A b \in Admin : admins'[b].pc = "apply" => admins'[b] = admins[b]
    BY <1>4 DEF ClearBanEntry, TypeOK, Idle
  <2> QED BY <1>4, <2>1, <2>2 DEF ClearBanEntry, TermInv, Decided, history, TypeOK
<1> QED BY <1>1, <1>2, <1>3, <1>4 DEF AdminStep

LEMMA TermStep == TypeOK /\ TypeOK' /\ TermInv /\ [Next]_vars => TermInv'
<1> SUFFICES ASSUME TypeOK, TypeOK', TermInv, [Next]_vars
             PROVE  TermInv'
  OBVIOUS
<1>1. CASE Tick
  BY <1>1 DEF Tick, TermInv, Decided, history, TypeOK
<1>2. CASE Restart
  <2>1. \A ip \in Ip : bans'[ip] <= decided'[ip]
    BY <1>2, UnexpiredWithin DEF Restart, Loaded, TypeOK, TermInv
  <2>2. Decided(queue)' /\ Decided(batch)'
    BY <1>2, EmptySeq DEF Restart, Decided
  <2> QED BY <1>2, <2>1, <2>2 DEF Restart, TermInv, Idle
<1>3. CASE UNCHANGED vars
  BY <1>3 DEF vars, TermInv, Decided, history
<1> QED BY <1>1, <1>2, <1>3, TermRequest, TermWriter, TermAdmin DEF Next

\* However often a ban is queued, written, loaded and armed again, it never
\* outlives the longest ban decided for its address.
THEOREM TermsAreRespected == Spec => []TermRespected
<1>1. Init => TermInv
  BY TermInit
<1>2. TypeOK /\ TypeOK' /\ TermInv /\ [Next]_vars => TermInv'
  BY TermStep
<1>3. TypeOK /\ TermInv => TermRespected
  BY DEF TypeOK, TermInv, TermRespected
<1> QED BY <1>1, <1>2, <1>3, TypeCorrect, PTL DEF Spec

---------------------------------------------------------------------------
(* Bans reach the table.                                                    *)

\* A request waits for the queue no longer than MaxBlock; an administrator in
\* the middle of an operation has touched its address; only administrators decide
\* longer bans than Duration.
BlockInv ==
  /\ \A h \in Handler : handlers[h].pc = "record" =>
       clock + Duration <= handlers[h].expires_at + MaxBlock
  /\ \A a \in Admin : admins[a].pc # "idle" => admins[a].ip \in touched
  /\ \A ip \in Ip \ touched : decided[ip] <= clock + Duration

LEMMA BlockInit == Init => BlockInv
BY ConfigAssumption DEF Init, BlockInv, Idle

LEMMA BlockStep == TypeOK /\ BlockInv /\ [Next]_vars => BlockInv'
<1> SUFFICES ASSUME TypeOK, BlockInv, [Next]_vars
             PROVE  BlockInv'
  OBVIOUS
<1>0. clock \in Nat /\ \A ip \in Ip : decided[ip] \in Nat
  BY DEF TypeOK
<1>1. ASSUME NEW h \in Handler, RequestStep(h)
      PROVE  BlockInv'
  <2>1. UNCHANGED <<clock, admins, touched>>
    BY <1>1 DEF RequestStep, Check, Pass, Serve, Ban, RecordBan, BanUnsent, RecordSecurity,
         EventUnsent, history
  <2>2. CASE ~Ban(h)
    <3>1. \A g \in Handler : handlers'[g].pc = "record" => handlers'[g] = handlers[g]
      BY <1>1, <2>2 DEF RequestStep, Check, Pass, Serve, RecordBan, BanUnsent, RecordSecurity,
           EventUnsent, TypeOK, Idle
    <3>2. decided' = decided
      BY <1>1, <2>2 DEF RequestStep, Check, Pass, Serve, RecordBan, BanUnsent, RecordSecurity,
           EventUnsent, history
    <3> QED BY <2>1, <3>1, <3>2 DEF BlockInv
  <2>3. CASE Ban(h)
    <3>1. \A g \in Handler : \/ handlers'[g] = handlers[g]
                             \/ handlers'[g].expires_at = clock + Duration
      BY <2>3 DEF Ban, TypeOK
    <3>2. \A ip \in Ip : decided'[ip] = decided[ip] \/ decided'[ip] = clock + Duration
      BY <2>3 DEF Ban, TypeOK
    <3> QED BY <1>0, <2>1, <3>1, <3>2, ConfigAssumption DEF BlockInv
  <2> QED BY <2>2, <2>3
<1>2. CASE WriterStep
  BY <1>2 DEF WriterStep, OpenDatabase, CannotOpen, Receive, Commit, Fail, CleanUp, BlockInv, history
<1>3. ASSUME NEW a \in Admin, AdminStep(a)
      PROVE  BlockInv'
  <2>1. UNCHANGED <<clock, handlers>>
    BY <1>3 DEF AdminStep, SetBan, SetManualBan, ClearBan, ClearBanEntry
  <2>2. \A b \in Admin : b # a => admins'[b] = admins[b]
    BY <1>3 DEF AdminStep, SetBan, SetManualBan, ClearBan, ClearBanEntry, TypeOK
  <2>3. touched \subseteq touched' /\ (admins'[a].pc # "idle" => admins'[a].ip \in touched')
    BY <1>3 DEF AdminStep, SetBan, SetManualBan, ClearBan, ClearBanEntry, TypeOK, Idle, history
  <2>4. \A ip \in Ip \ touched' : decided'[ip] = decided[ip]
    BY <1>3 DEF AdminStep, SetBan, SetManualBan, ClearBan, ClearBanEntry, TypeOK, history
  <2> QED BY <2>1, <2>2, <2>3, <2>4 DEF BlockInv
<1>4. CASE Tick
  <2>1. ASSUME NEW h \in Handler, handlers[h].pc = "record"
        PROVE  handlers[h].expires_at \in Nat
    <3>1. handlers[h] \in HandlerState
      BY DEF TypeOK
    <3> QED BY <2>1, <3>1 DEF HandlerState
  <2> QED BY <1>0, <1>4, <2>1, ConfigAssumption DEF Tick, Blocked, BlockInv, history
<1>5. CASE Restart
  BY <1>5 DEF Restart, BlockInv, Idle
<1>6. CASE UNCHANGED vars
  BY <1>6 DEF vars, BlockInv, history
<1> QED BY <1>1, <1>2, <1>3, <1>4, <1>5, <1>6 DEF Next

\* The last record of ip in s lasts nearly as long as was decided.
Lasting(ip, s) ==
  \A i \in 1..Len(s) : LastAt(ip, s, i) => decided[ip] <= s[i].expires_at + MaxBlock

\* The record that will stay in the table, wherever it is, does.
OnItsWay(ip) ==
  \/ \E h \in Handler : handlers[h].pc = "record" /\ handlers[h].ip = ip
  \/ Records(ip, queue) # {} /\ Lasting(ip, queue)
  \/ Records(ip, queue) = {} /\ Records(ip, batch) # {} /\ Lasting(ip, batch)
  \/ /\ Records(ip, queue) = {} /\ Records(ip, batch) = {}
     /\ decided[ip] <= clock + MaxBlock \/ decided[ip] <= table[ip] + MaxBlock

\* And so does the map's entry.
InForce(ip) ==
  decided[ip] <= clock + MaxBlock \/ decided[ip] <= bans[ip] + MaxBlock

PersistInv == \A ip \in Ip \ (touched \cup lost) : OnItsWay(ip) /\ InForce(ip)

LEMMA PersistInit == Init => PersistInv
<1> SUFFICES ASSUME Init, NEW ip \in Ip
             PROVE  OnItsWay(ip) /\ InForce(ip)
  BY DEF PersistInv
<1>1. Records(ip, queue) = {} /\ Records(ip, batch) = {}
  BY EmptySeq DEF Init, Records
<1>2. decided[ip] <= clock + MaxBlock
  BY ConfigAssumption DEF Init
<1> QED BY <1>1, <1>2 DEF OnItsWay, InForce

\* Changes that leave the records alone, and the row.
LEMMA PersistFrame ==
  ASSUME TypeOK, TypeOK', NEW ip \in Ip, OnItsWay(ip),
         UNCHANGED <<queue, batch>>,
         \A g \in Handler : handlers[g].pc = "record" /\ handlers[g].ip = ip
                              => handlers'[g] = handlers[g],
         clock <= clock', decided'[ip] = decided[ip], table'[ip] = table[ip]
  PROVE  OnItsWay(ip)'
<1>1. /\ decided[ip] \in Nat /\ clock \in Nat /\ clock' \in Nat /\ MaxBlock \in Nat
  BY ConfigAssumption DEF TypeOK
<1>2. /\ Lasting(ip, queue) => Lasting(ip, queue)'
      /\ Lasting(ip, batch) => Lasting(ip, batch)'
  BY DEF Lasting, LastAt, Records
<1>3. /\ Records(ip, queue)' = Records(ip, queue)
      /\ Records(ip, batch)' = Records(ip, batch)
  BY DEF Records
<1>4. decided[ip] <= clock + MaxBlock => decided'[ip] <= clock' + MaxBlock
  BY <1>1
<1> QED BY <1>2, <1>3, <1>4 DEF OnItsWay

\* The map's entry is as it was, or has expired.
LEMMA ForceFrame ==
  ASSUME TypeOK, TypeOK', NEW ip \in Ip, InForce(ip), clock <= clock',
         decided'[ip] = decided[ip],
         bans'[ip] = bans[ip] \/ bans[ip] <= clock
  PROVE  InForce(ip)'
<1>1. /\ decided[ip] \in Nat /\ clock \in Nat /\ clock' \in Nat /\ bans[ip] \in Nat
      /\ MaxBlock \in Nat
  BY ConfigAssumption DEF TypeOK
<1> QED BY <1>1 DEF InForce

\* An event that is no record of ip joins the queue.
LEMMA PersistAppend ==
  ASSUME TypeOK, NEW ip \in Ip, OnItsWay(ip), NEW h \in Handler,
         NEW e \in StorageEvent, e.type # "ban" \/ e.ip # ip,
         queue' = Append(queue, e), UNCHANGED <<clock, decided, table, batch>>,
         handlers[h].pc = "record" => handlers[h].ip # ip,
         \A g \in Handler : g # h => handlers'[g] = handlers[g]
  PROVE  OnItsWay(ip)'
<1>1. /\ Records(ip, queue') = Records(ip, queue)
      /\ Len(queue') = Len(queue) + 1 /\ Len(queue) \in Nat
      /\ \A i \in 1..Len(queue) : queue'[i] = queue[i]
  <2>1. queue \in Seq(StorageEvent)
    BY DEF TypeOK
  <2>2. Records(ip, Append(queue, e)) = Records(ip, queue)
    <3>1. Records(ip, Append(queue, e)) =
            Records(ip, queue) \cup (IF e.type = "ban" /\ e.ip = ip THEN {Len(queue) + 1} ELSE {})
      BY <2>1, AppendRecords
    <3>2. ~(e.type = "ban" /\ e.ip = ip)
      OBVIOUS
    <3> QED BY <3>1, <3>2
  <2>3. /\ Len(queue) \in Nat /\ Len(Append(queue, e)) = Len(queue) + 1
        /\ \A i \in 1..Len(queue) : Append(queue, e)[i] = queue[i]
    BY <2>1, AppendRecords, LenProperties
  <2> QED BY <2>2, <2>3
<1>2. Lasting(ip, queue) => Lasting(ip, queue)'
  <2> SUFFICES ASSUME Lasting(ip, queue), NEW i \in 1..Len(queue'), LastAt(ip, queue', i)
               PROVE  decided[ip] <= queue'[i].expires_at + MaxBlock
    BY DEF Lasting, LastAt, Records
  <2>1. i \in 1..Len(queue)
    BY <1>1, RecordsType DEF LastAt, TypeOK
  <2> QED BY <1>1, <2>1 DEF Lasting, LastAt
<1>3. Records(ip, queue)' = Records(ip, queue')
  BY DEF Records
<1>4. Records(ip, batch)' = Records(ip, batch) /\ (Lasting(ip, batch) => Lasting(ip, batch)')
  BY DEF Records, Lasting, LastAt
<1> QED BY <1>1, <1>2, <1>3, <1>4 DEF OnItsWay

\* A request decides a ban of ip: the record is in its hands.
LEMMA PersistBan ==
  ASSUME TypeOK, BlockInv, NEW h \in Handler, Ban(h), NEW ip \in Ip, ip = handlers[h].ip,
         ip \notin touched
  PROVE  OnItsWay(ip)' /\ InForce(ip)'
<1>1. handlers'[h].pc = "record" /\ handlers'[h].ip = ip
  BY DEF Ban, TypeOK
<1>2. clock \in Nat /\ decided[ip] \in Nat /\ Duration \in Nat /\ MaxBlock \in Nat
  BY ConfigAssumption DEF TypeOK
<1>3. decided[ip] <= clock + Duration
  BY DEF BlockInv
<1>4. bans'[ip] = clock + Duration /\ decided'[ip] <= clock + Duration /\ decided'[ip] \in Nat
  BY <1>2, <1>3 DEF Ban, TypeOK
<1>5. decided'[ip] <= bans'[ip] + MaxBlock
  BY <1>2, <1>4
<1> QED BY <1>1, <1>5 DEF OnItsWay, InForce

LEMMA PersistRequest ==
  ASSUME TypeOK, TypeOK', TermInv, BlockInv, PersistInv, NEW h \in Handler, RequestStep(h)
  PROVE  PersistInv'
<1> SUFFICES ASSUME NEW ip \in Ip, ip \notin touched, ip \notin lost'
             PROVE  OnItsWay(ip)' /\ InForce(ip)'
  <2>1. UNCHANGED touched
    BY DEF RequestStep, Check, Pass, Serve, Ban, RecordBan, BanUnsent, RecordSecurity,
           EventUnsent, history
  <2> QED BY <2>1 DEF PersistInv
<1>0. /\ handlers[h] \in HandlerState /\ bans[ip] \in Nat /\ clock \in Nat
      /\ decided[ip] \in Nat /\ clock <= clock
  BY DEF TypeOK
<1>1. CASE Ban(h) /\ ip = handlers[h].ip
  BY <1>1, PersistBan
<1> SUFFICES ASSUME ~(Ban(h) /\ ip = handlers[h].ip)
             PROVE  OnItsWay(ip)' /\ InForce(ip)'
  BY <1>1
<1>2. ip \notin lost
  BY DEF RequestStep, Check, Pass, Serve, Ban, RecordBan, BanUnsent, RecordSecurity,
         EventUnsent, history
<1>3. OnItsWay(ip) /\ InForce(ip)
  BY <1>2 DEF PersistInv
<1>4. decided'[ip] = decided[ip] /\ UNCHANGED <<clock, table, batch>>
  BY DEF RequestStep, Check, Pass, Serve, Ban, RecordBan, BanUnsent, RecordSecurity,
         EventUnsent, history, TypeOK
<1>5. bans'[ip] = bans[ip] \/ bans[ip] <= clock
  <2>1. ASSUME NEW j \in Ip, Check(h, j)
        PROVE  bans'[ip] = bans[ip] \/ bans[ip] <= clock
    BY <1>0, <2>1 DEF Check, Unexpired
  <2>2. CASE Ban(h)
    BY <2>2 DEF Ban, TypeOK
  <2>3. ASSUME NEW j \in Ip, Pass(h, j)
        PROVE  bans'[ip] = bans[ip]
    BY <2>3 DEF Pass
  <2>4. CASE Serve(h) \/ RecordBan(h) \/ BanUnsent(h) \/ RecordSecurity(h) \/ EventUnsent(h)
    BY <2>4 DEF Serve, RecordBan, BanUnsent, RecordSecurity, EventUnsent
  <2> QED BY <2>1, <2>2, <2>3, <2>4 DEF RequestStep
<1>6. InForce(ip)'
  BY <1>0, <1>3, <1>4, <1>5, ForceFrame
<1>7. CASE RecordBan(h)
  <2> DEFINE e == [type |-> "ban", ip |-> handlers[h].ip, expires_at |-> handlers[h].expires_at]
  <2>1. handlers[h].ip \in Ip /\ handlers[h].expires_at \in Nat
    BY <1>0, <1>7 DEF RecordBan, HandlerState
  <2>2. /\ e \in StorageEvent /\ e.type = "ban" /\ e.ip = handlers[h].ip
        /\ e.expires_at = handlers[h].expires_at
    BY <2>1 DEF StorageEvent, BanRecord
  <2>3. queue' = Append(queue, e)
    BY <1>7 DEF RecordBan, Recorded
  <2> HIDE DEF e
  <2>4. CASE ip = handlers[h].ip
    <3>1. decided'[ip] <= e.expires_at + MaxBlock
      BY <1>0, <1>4, <1>7, <2>1, <2>2, <2>4, ConfigAssumption DEF RecordBan, BlockInv
    <3>2. /\ Records(ip, queue') = Records(ip, queue) \cup {Len(queue) + 1}
          /\ Len(queue') = Len(queue) + 1 /\ Len(queue) \in Nat
          /\ queue'[Len(queue) + 1] = e
      BY <2>2, <2>3, <2>4, AppendRecords, LenProperties, SMTT(30) DEF TypeOK
    <3>3. Records(ip, queue)' # {}
      BY <3>2 DEF Records
    <3>4. ASSUME NEW i \in 1..Len(queue'), LastAt(ip, queue', i)
          PROVE  decided'[ip] <= queue'[i].expires_at + MaxBlock
      <4>1. i = Len(queue) + 1
        BY <3>2, <3>4 DEF LastAt
      <4> QED BY <3>1, <3>2, <4>1
    <3>5. Lasting(ip, queue)'
      BY <3>4 DEF Lasting, LastAt, Records
    <3> QED BY <1>6, <3>3, <3>5 DEF OnItsWay
  <2>5. CASE ip # handlers[h].ip
    <3>1. /\ UNCHANGED <<clock, decided, table, batch>>
          /\ \A g \in Handler : g # h => handlers'[g] = handlers[g]
      BY <1>7 DEF RecordBan, TypeOK, history
    <3> QED BY <1>3, <1>6, <2>2, <2>3, <2>5, <3>1, PersistAppend
  <2> QED BY <2>4, <2>5
<1>8. CASE RecordSecurity(h)
  <2>1. Event \in StorageEvent /\ Event.type # "ban"
    BY DEF Event, StorageEvent, SecurityEvent
  <2>2. /\ UNCHANGED <<clock, decided, table, batch>>
        /\ \A g \in Handler : g # h => handlers'[g] = handlers[g]
        /\ queue' = Append(queue, Event)
        /\ handlers[h].pc # "record"
    BY <1>8 DEF RecordSecurity, TypeOK, history
  <2> QED BY <1>3, <1>6, <2>1, <2>2, PersistAppend
<1>9. CASE ~RecordBan(h) /\ ~RecordSecurity(h)
  <2>1. UNCHANGED queue
    BY <1>9 DEF RequestStep, Check, Pass, Serve, Ban, BanUnsent, EventUnsent
  <2>2. \A g \in Handler : handlers[g].pc = "record" /\ handlers[g].ip = ip
                              => handlers'[g] = handlers[g]
    <3>1. ASSUME NEW j \in Ip, Check(h, j)
          PROVE  \A g \in Handler : handlers[g].pc = "record" => handlers'[g] = handlers[g]
      BY <3>1, SMTT(30) DEF Check, Idle, TypeOK
    <3>2. ASSUME NEW j \in Ip, Pass(h, j)
          PROVE  \A g \in Handler : handlers[g].pc = "record" => handlers'[g] = handlers[g]
      BY <3>2 DEF Pass, Idle, TypeOK
    <3>3. CASE Serve(h) \/ Ban(h) \/ EventUnsent(h)
      BY <3>3 DEF Serve, Ban, EventUnsent, TypeOK
    <3>4. CASE BanUnsent(h)
      BY <3>4 DEF BanUnsent, TypeOK
    <3> QED BY <1>9, <3>1, <3>2, <3>3, <3>4 DEF RequestStep
  <2> QED BY <1>0, <1>3, <1>4, <1>6, <2>1, <2>2, PersistFrame
<1> QED BY <1>7, <1>8, <1>9

\* Receiving a batch: ip's last record is among the received or stays behind.
LEMMA PersistReceive ==
  ASSUME TypeOK, TypeOK', NEW ip \in Ip, OnItsWay(ip),
         NEW n \in 1..BatchSize, n <= Len(queue), Receive(n)
  PROVE  OnItsWay(ip)'
<1>1. Len(queue) \in Nat /\ n \in 0..Len(queue) /\ DOMAIN queue = 1..Len(queue)
  BY ConfigAssumption, LenProperties DEF TypeOK
<1>2. Len(batch') = n /\ \A i \in 1..n : batch'[i] = queue[i]
  BY <1>1, Stretch, SMTT(30) DEF Receive, TypeOK
<1>3. Len(queue') = Len(queue) - n /\ \A i \in 1..(Len(queue) - n) : queue'[i] = queue[n + i]
  <2>1. queue \in Seq(StorageEvent) /\ queue' = SubSeq(queue, n + 1, Len(queue))
    BY DEF Receive, TypeOK
  <2>2. n + 1 \in 1..(Len(queue) + 1) /\ Len(queue) \in (n + 1 - 1)..Len(queue)
    BY <1>1
  <2>3. /\ Len(queue') = Len(queue) - (n + 1) + 1
        /\ \A i \in 1..(Len(queue) - (n + 1) + 1) : queue'[i] = queue[n + 1 + i - 1]
    BY <2>1, <2>2, Stretch
  <2>4. /\ Len(queue) - (n + 1) + 1 = Len(queue) - n
        /\ \A i \in 1..(Len(queue) - n) : n + 1 + i - 1 = n + i
    BY <1>1
  <2> QED BY <2>3, <2>4
<1>4. DOMAIN batch' = 1..n /\ DOMAIN queue' = 1..(Len(queue) - n)
  BY <1>2, <1>3, LenProperties DEF TypeOK
<1>5. Records(ip, batch') = {i \in Records(ip, queue) : i <= n}
  BY <1>1, <1>2, <1>4 DEF Records
<1>6. \A i : i \in Records(ip, queue') <=> i \in 1..(Len(queue) - n) /\ n + i \in Records(ip, queue)
  BY <1>1, <1>3, <1>4 DEF Records
<1>7. Records(ip, batch) = {}
  BY EmptySeq DEF Receive, Records
<1>8. /\ Records(ip, queue)' = Records(ip, queue') /\ Records(ip, batch)' = Records(ip, batch')
      /\ UNCHANGED <<decided, clock, table, handlers>>
  BY DEF Receive, Records, history
<1>9. Records(ip, queue) \subseteq 1..Len(queue)
  BY <1>1 DEF Records
<1>10. CASE \E h \in Handler : handlers[h].pc = "record" /\ handlers[h].ip = ip
  BY <1>8, <1>10 DEF OnItsWay
<1>11. CASE Records(ip, queue) # {} /\ Lasting(ip, queue)
  <2>1. CASE Records(ip, queue') # {}
    <3>1. ASSUME NEW i \in 1..Len(queue'), LastAt(ip, queue', i)
          PROVE  decided[ip] <= queue'[i].expires_at + MaxBlock
      <4>1. n + i \in Records(ip, queue) /\ i \in 1..(Len(queue) - n)
        BY <1>6, <3>1 DEF LastAt
      <4>2. ASSUME NEW j \in Records(ip, queue)
            PROVE  j <= n + i
        <5>1. CASE j <= n
          BY <1>1, <1>9, <4>1, <5>1
        <5>2. CASE j > n
          <6>1. j - n \in 1..(Len(queue) - n) /\ n + (j - n) = j
            BY <1>1, <1>9, <5>2
          <6>2. j - n \in Records(ip, queue')
            BY <1>6, <6>1
          <6> QED BY <1>1, <1>9, <3>1, <4>1, <6>1, <6>2 DEF LastAt
        <5> QED BY <1>1, <1>9, <5>1, <5>2
      <4>3. LastAt(ip, queue, n + i) /\ n + i \in 1..Len(queue)
        BY <1>9, <4>1, <4>2 DEF LastAt
      <4> QED BY <1>3, <1>11, <4>1, <4>3 DEF Lasting
    <3>2. Lasting(ip, queue)'
      BY <1>8, <3>1 DEF Lasting, LastAt, Records
    <3> QED BY <1>8, <2>1, <3>2 DEF OnItsWay
  <2>2. CASE Records(ip, queue') = {}
    <3>1. ASSUME NEW j \in Records(ip, queue)
          PROVE  j <= n
      <4>1. CASE j > n
        <5>1. j - n \in 1..(Len(queue) - n) /\ n + (j - n) = j
          BY <1>1, <1>9, <4>1
        <5> QED BY <1>6, <2>2, <5>1
      <4> QED BY <1>1, <1>9, <4>1
    <3>2. Records(ip, batch') = Records(ip, queue)
      BY <1>5, <3>1
    <3>3. ASSUME NEW i \in 1..Len(batch'), LastAt(ip, batch', i)
          PROVE  decided[ip] <= batch'[i].expires_at + MaxBlock
      <4>1. LastAt(ip, queue, i) /\ i \in 1..n /\ i \in 1..Len(queue)
        BY <1>1, <1>2, <1>9, <3>2, <3>3 DEF LastAt
      <4> QED BY <1>2, <1>11, <4>1 DEF Lasting
    <3>4. Lasting(ip, batch)'
      BY <1>8, <3>3 DEF Lasting, LastAt, Records
    <3> QED BY <1>8, <1>11, <2>2, <3>2, <3>4 DEF OnItsWay
  <2> QED BY <2>1, <2>2
<1>12. CASE /\ Records(ip, queue) = {} /\ Records(ip, batch) = {}
            /\ decided[ip] <= clock + MaxBlock \/ decided[ip] <= table[ip] + MaxBlock
  <2>1. Records(ip, queue') = {} /\ Records(ip, batch') = {}
    BY <1>5, <1>6, <1>12
  <2> QED BY <1>8, <1>12, <2>1 DEF OnItsWay
<1> QED BY <1>7, <1>10, <1>11, <1>12 DEF OnItsWay

\* The table changes, and the batch is done with.
LEMMA PersistTable ==
  ASSUME TypeOK, NEW ip \in Ip, OnItsWay(ip), NEW row \in Nat,
         UNCHANGED <<clock, decided, queue, handlers>>, batch' = <<>>,
         \/ Records(ip, batch) = {} /\ row = table[ip]
         \/ \E i \in 1..Len(batch) : LastAt(ip, batch, i) /\ row = batch[i].expires_at,
         table'[ip] = IF row > clock THEN row ELSE 0
  PROVE  OnItsWay(ip)'
<1>1. /\ Records(ip, queue)' = Records(ip, queue)
      /\ Lasting(ip, queue) => Lasting(ip, queue)'
  BY DEF Records, Lasting, LastAt
<1>2. Records(ip, batch)' = {}
  BY EmptySeq DEF Records
<1>3. decided[ip] \in Nat /\ clock \in Nat
  BY DEF TypeOK
<1>4. decided[ip] <= row + MaxBlock =>
        decided'[ip] <= clock' + MaxBlock \/ decided'[ip] <= table'[ip] + MaxBlock
  BY <1>3, ConfigAssumption
<1>5. CASE Records(ip, queue) = {} /\ Records(ip, batch) # {} /\ Lasting(ip, batch)
  <2>1. decided[ip] <= row + MaxBlock
    BY <1>5 DEF Lasting
  <2> QED BY <1>1, <1>2, <1>4, <1>5, <2>1 DEF OnItsWay
<1>6. CASE /\ Records(ip, queue) = {} /\ Records(ip, batch) = {}
           /\ decided[ip] <= clock + MaxBlock \/ decided[ip] <= table[ip] + MaxBlock
  <2>1. row = table[ip]
    BY <1>6 DEF LastAt
  <2> QED BY <1>1, <1>2, <1>4, <1>6, <2>1 DEF OnItsWay
<1> QED BY <1>1, <1>5, <1>6 DEF OnItsWay

LEMMA PersistWriter ==
  ASSUME TypeOK, TypeOK', PersistInv, WriterStep
  PROVE  PersistInv'
<1> SUFFICES ASSUME NEW ip \in Ip, ip \notin touched \cup lost, ip \notin lost',
                    OnItsWay(ip), InForce(ip)
             PROVE  OnItsWay(ip)' /\ InForce(ip)'
  <2>1. touched' = touched /\ lost \subseteq lost'
    BY DEF WriterStep, OpenDatabase, CannotOpen, Receive, Commit, Fail, CleanUp, history
  <2> QED BY <2>1 DEF PersistInv
<1>0. UNCHANGED <<clock, bans, decided, handlers>> /\ clock <= clock'
  BY DEF WriterStep, OpenDatabase, CannotOpen, Receive, Commit, Fail, CleanUp, history, TypeOK
<1> SUFFICES OnItsWay(ip)'
  BY <1>0, ForceFrame
<1>1. ASSUME NEW n \in 1..BatchSize, n <= Len(queue), Receive(n)
      PROVE  OnItsWay(ip)'
  BY <1>1, PersistReceive
<1>2. CASE Commit
  <2> DEFINE row == Written(table, batch)[ip]
  <2>1. row \in Nat
    <3>1. Written(table, batch) \in [Ip -> Nat]
      BY WrittenType DEF TypeOK
    <3> QED BY <3>1
  <2>2. table'[ip] = IF row > clock THEN row ELSE 0
    BY <1>2 DEF Commit, Unexpired
  <2>3. \/ Records(ip, batch) = {} /\ row = table[ip]
        \/ \E i \in 1..Len(batch) : LastAt(ip, batch, i) /\ row = batch[i].expires_at
    <3>1. batch \in Seq(StorageEvent)
      BY DEF TypeOK
    <3> QED BY <3>1, WrittenRow
  <2>4. UNCHANGED queue /\ batch' = <<>>
    BY <1>2 DEF Commit
  <2> HIDE DEF row
  <2> QED BY <1>0, <2>1, <2>2, <2>3, <2>4, PersistTable
<1>3. CASE Fail \/ CleanUp
  <2>1. Records(ip, batch) = {}
    <3>1. CASE Fail
      BY <3>1 DEF Fail
    <3>2. CASE CleanUp
      BY <3>2, EmptySeq DEF CleanUp, Records
    <3> QED BY <1>3, <3>1, <3>2
  <2>2. table[ip] \in Nat /\ table'[ip] = IF table[ip] > clock THEN table[ip] ELSE 0
    BY <1>3 DEF Fail, CleanUp, Unexpired, TypeOK
  <2>3. UNCHANGED queue /\ batch' = <<>>
    BY <1>3 DEF Fail, CleanUp
  <2> QED BY <1>0, <2>1, <2>2, <2>3, PersistTable
<1>4. CASE OpenDatabase
  <2>1. UNCHANGED <<queue, batch, table>>
    BY <1>4 DEF OpenDatabase
  <2> QED BY <1>0, <2>1, PersistFrame
\* What is dropped holds no record of ip: ip would be lost.
<1>5. CASE CannotOpen
  <2>1. Records(ip, queue) = {} /\ UNCHANGED <<batch, table>>
    BY <1>5 DEF CannotOpen
  <2>2. Records(ip, queue)' = {}
    BY <1>5, EmptySeq DEF CannotOpen, Records
  <2>3. Records(ip, batch)' = Records(ip, batch) /\ (Lasting(ip, batch) => Lasting(ip, batch)')
    BY <1>0, <2>1 DEF Records, Lasting, LastAt
  <2> QED BY <1>0, <2>1, <2>2, <2>3 DEF OnItsWay
<1> QED BY <1>1, <1>2, <1>3, <1>4, <1>5 DEF WriterStep

LEMMA PersistAdmin ==
  ASSUME TypeOK, TypeOK', BlockInv, PersistInv, NEW a \in Admin, AdminStep(a)
  PROVE  PersistInv'
<1> SUFFICES ASSUME NEW ip \in Ip, ip \notin touched \cup lost, ip \notin touched',
                    OnItsWay(ip), InForce(ip)
             PROVE  OnItsWay(ip)' /\ InForce(ip)'
  <2>1. lost' = lost /\ touched \subseteq touched'
    BY DEF AdminStep, SetBan, SetManualBan, ClearBan, ClearBanEntry, history
  <2> QED BY <2>1 DEF PersistInv
<1>1. UNCHANGED <<clock, queue, batch, handlers>> /\ clock <= clock'
  BY DEF AdminStep, SetBan, SetManualBan, ClearBan, ClearBanEntry, TypeOK
<1>2. table'[ip] = table[ip] /\ decided'[ip] = decided[ip]
  BY DEF AdminStep, SetBan, SetManualBan, ClearBan, ClearBanEntry, TypeOK, history
<1>3. bans'[ip] = bans[ip]
  <2>1. CASE SetManualBan(a) \/ ClearBanEntry(a)
    <3>1. admins[a].pc # "idle"
      BY <2>1 DEF SetManualBan, ClearBanEntry
    <3>2. admins[a].ip # ip
      BY <3>1 DEF BlockInv
    <3>3. bans \in [Ip -> Nat]
      BY DEF TypeOK
    <3> QED BY <2>1, <3>2, <3>3 DEF SetManualBan, ClearBanEntry
  <2>2. CASE ~(SetManualBan(a) \/ ClearBanEntry(a))
    BY <2>2 DEF AdminStep, SetBan, ClearBan
  <2> QED BY <2>1, <2>2
<1> QED BY <1>1, <1>2, <1>3, PersistFrame, ForceFrame

\* What is loaded is what has been written: records on their way are lost.
LEMMA PersistRestart ==
  ASSUME TypeOK, TypeOK', PersistInv, Restart
  PROVE  PersistInv'
<1> SUFFICES ASSUME NEW ip \in Ip, ip \notin touched \cup lost, ~Pending(ip)
             PROVE  OnItsWay(ip)' /\ InForce(ip)'
  BY DEF PersistInv, Restart
<1>0. clock \in Nat /\ decided[ip] \in Nat /\ table[ip] \in Nat /\ MaxBlock \in Nat
  BY ConfigAssumption DEF TypeOK
<1>1. decided[ip] <= clock + MaxBlock \/ decided[ip] <= table[ip] + MaxBlock
  BY DEF PersistInv, OnItsWay, Pending
<1>2. Records(ip, queue)' = {} /\ Records(ip, batch)' = {}
  BY EmptySeq DEF Restart, Records
<1>3. UNCHANGED <<clock, table, decided>>
  BY DEF Restart
<1>4. bans'[ip] = IF table[ip] > clock THEN table[ip] ELSE 0
  BY DEF Restart, Loaded, Unexpired
<1>5. decided[ip] <= clock + MaxBlock \/ decided[ip] <= bans'[ip] + MaxBlock
  BY <1>0, <1>1, <1>4
<1> QED BY <1>1, <1>2, <1>3, <1>5 DEF OnItsWay, InForce

LEMMA PersistStep ==
  TypeOK /\ TypeOK' /\ TermInv /\ BlockInv /\ PersistInv /\ [Next]_vars => PersistInv'
<1> SUFFICES ASSUME TypeOK, TypeOK', TermInv, BlockInv, PersistInv, [Next]_vars
             PROVE  PersistInv'
  OBVIOUS
<1>1. ASSUME Tick \/ UNCHANGED vars
      PROVE  PersistInv'
  <2>1. /\ UNCHANGED <<queue, batch, handlers, bans, table, touched, lost, decided>>
        /\ clock <= clock'
    BY <1>1 DEF Tick, vars, history, TypeOK
  <2>2. ASSUME NEW ip \in Ip, OnItsWay(ip), InForce(ip)
        PROVE  OnItsWay(ip)' /\ InForce(ip)'
    BY <2>1, <2>2, PersistFrame, ForceFrame
  <2> QED BY <2>1, <2>2 DEF PersistInv
<1> QED BY <1>1, PersistRequest, PersistWriter, PersistAdmin, PersistRestart DEF Next

LEMMA PersistBound == TypeOK /\ PersistInv => BansPersisted
<1> SUFFICES ASSUME TypeOK, PersistInv, NEW ip \in Ip \ (touched \cup lost),
                    decided[ip] > clock + MaxBlock
             PROVE  /\ bans[ip] + MaxBlock >= decided[ip]
                    /\ Pending(ip) \/ table[ip] + MaxBlock >= decided[ip]
  BY DEF BansPersisted
<1>1. OnItsWay(ip) /\ InForce(ip)
  BY DEF PersistInv
<1>2. /\ bans[ip] \in Nat /\ clock \in Nat /\ table[ip] \in Nat /\ decided[ip] \in Nat
      /\ MaxBlock \in Nat
  BY ConfigAssumption DEF TypeOK
<1>3. bans[ip] + MaxBlock >= decided[ip]
  BY <1>1, <1>2 DEF InForce
<1>4. CASE Pending(ip)
  BY <1>3, <1>4
<1>5. CASE ~Pending(ip)
  <2>1. decided[ip] <= clock + MaxBlock \/ decided[ip] <= table[ip] + MaxBlock
    BY <1>1, <1>5 DEF OnItsWay, Pending
  <2> QED BY <1>2, <1>3, <2>1
<1> QED BY <1>4, <1>5

\* Whatever the order in which requests set the map and queue their records, and
\* wherever the process stops, an automatic ban with more than the longest wait
\* left is in force, and in the table or on its way there, unless a record of it
\* went with a failed batch, a writer that never opened its database, or a stop.
THEOREM BansArePersisted == Spec => []BansPersisted
<1>1. Init => TermInv /\ BlockInv /\ PersistInv
  BY TermInit, BlockInit, PersistInit
<1>2. TypeOK /\ TypeOK' /\ TermInv /\ [Next]_vars => TermInv'
  BY TermStep
<1>3. TypeOK /\ BlockInv /\ [Next]_vars => BlockInv'
  BY BlockStep
<1>4. TypeOK /\ TypeOK' /\ TermInv /\ BlockInv /\ PersistInv /\ [Next]_vars => PersistInv'
  BY PersistStep
<1>5. TypeOK /\ PersistInv => BansPersisted
  BY PersistBound
<1> QED BY <1>1, <1>2, <1>3, <1>4, <1>5, TypeCorrect, PTL DEF Spec

---------------------------------------------------------------------------
(* What an administrator decides.                                           *)

\* The decision that stands for ip is the table's row at once, and the map's
\* entry when the call that made it is over; no record is about to change it.
Stands(ip) ==
  /\ standing[ip] = Lifted =>
       /\ ~Pending(ip) /\ table[ip] = 0
       /\ bans[ip] <= clock \/ Editing(ip)
       /\ \A a \in Admin : admins[a].pc # "idle" /\ admins[a].ip = ip => admins[a].pc = "lift"
  /\ standing[ip] > clock =>
       /\ ~Pending(ip) /\ table[ip] = standing[ip]
       /\ bans[ip] = standing[ip] \/ Editing(ip)
       /\ \A a \in Admin : admins[a].pc # "idle" /\ admins[a].ip = ip =>
            admins[a].pc = "apply" /\ admins[a].expires_at = standing[ip]

EditInv == \A ip \in Ip \ crossed : Stands(ip)

LEMMA EditInit == Init => EditInv
BY DEF Init, EditInv, Stands, Nothing, Lifted

\* No new record, no administrator's step, and nothing in the map or the table
\* but what has expired.
LEMMA EditFrame ==
  ASSUME TypeOK, TypeOK', NEW ip \in Ip, Stands(ip), Pending(ip)' => Pending(ip),
         UNCHANGED <<admins, standing>>, clock <= clock',
         bans'[ip] = bans[ip] \/ (bans'[ip] = 0 /\ bans[ip] <= clock),
         ~Pending(ip) => \/ table'[ip] = table[ip]
                         \/ table'[ip] = 0 /\ table[ip] <= clock
  PROVE  Stands(ip)'
<1>1. /\ clock \in Nat /\ clock' \in Nat /\ standing[ip] \in Int
      /\ bans[ip] \in Nat /\ table[ip] \in Nat
  BY DEF TypeOK
<1>2. Editing(ip)' = Editing(ip)
  BY DEF Editing
<1>3. CASE standing[ip] = Lifted
  <2>1. ~(standing'[ip] > clock')
    BY <1>1, <1>3 DEF Lifted
  <2>2. table'[ip] = 0 /\ (bans'[ip] <= clock' \/ Editing(ip)')
    BY <1>1, <1>2, <1>3 DEF Stands
  <2>3. ~Pending(ip)'
    BY <1>3 DEF Stands
  <2>4. \A a \in Admin : admins[a].pc # "idle" /\ admins[a].ip = ip => admins[a].pc = "lift"
    BY <1>3 DEF Stands
  <2> QED BY <2>1, <2>2, <2>3, <2>4 DEF Stands
<1>4. CASE standing[ip] # Lifted /\ standing[ip] > clock'
  <2>1. standing[ip] > clock
    BY <1>1, <1>4
  <2>2. ~Pending(ip)' /\ table'[ip] = standing[ip]
    BY <1>1, <2>1 DEF Stands
  <2>3. bans'[ip] = standing[ip] \/ Editing(ip)'
    BY <1>1, <1>2, <2>1 DEF Stands
  <2>4. \A a \in Admin : admins[a].pc # "idle" /\ admins[a].ip = ip =>
            admins[a].pc = "apply" /\ admins[a].expires_at = standing[ip]
    BY <2>1 DEF Stands
  <2> QED BY <1>4, <2>2, <2>3, <2>4 DEF Stands
<1>5. CASE standing[ip] # Lifted /\ ~(standing[ip] > clock')
  BY <1>5 DEF Stands
<1> QED BY <1>3, <1>4, <1>5

LEMMA EditRequest ==
  ASSUME TypeOK, TypeOK', EditInv, NEW h \in Handler, RequestStep(h)
  PROVE  EditInv'
<1>0. handlers[h] \in HandlerState
  BY DEF TypeOK
<1>1. CASE Ban(h)
  <2>0. PICK ip \in Ip : ip = handlers[h].ip
    BY <1>0, <1>1 DEF Ban, HandlerState
  <2>1. clock \in Nat /\ standing \in [Ip -> Int]
    BY DEF TypeOK
  <2>2. ip \in crossed' \/ (standing'[ip] # Lifted /\ ~(standing'[ip] > clock'))
    BY <1>1, <2>0, <2>1 DEF Ban, Nothing, Lifted
  <2>3. ASSUME NEW j \in Ip, j # ip, j \notin crossed'
        PROVE  Stands(j)'
    <3>1. Stands(j) /\ standing'[j] = standing[j] /\ bans'[j] = bans[j]
      BY <1>1, <2>0, <2>1, <2>3 DEF Ban, EditInv, TypeOK
    <3>2. Pending(j)' => Pending(j)
      <4>1. \A g \in Handler : handlers'[g].pc = "record" /\ handlers'[g].ip = j
                                 => handlers[g].pc = "record" /\ handlers[g].ip = j
        BY <1>1, <2>0, <2>3 DEF Ban, TypeOK
      <4>2. UNCHANGED <<queue, batch>>
        BY <1>1 DEF Ban
      <4> QED BY <4>1, <4>2 DEF Pending, Records
    <3>3. UNCHANGED <<clock, admins, table>>
      BY <1>1 DEF Ban
    <3>4. Editing(j)' = Editing(j)
      BY <3>3 DEF Editing
    <3> QED BY <3>1, <3>2, <3>3, <3>4 DEF Stands
  <2>4. ASSUME ip \notin crossed'
        PROVE  Stands(ip)'
    BY <2>2, <2>4 DEF Stands
  <2> QED BY <2>3, <2>4 DEF EditInv
<1>2. ASSUME ~Ban(h), NEW ip \in Ip, ip \notin crossed'
      PROVE  Stands(ip)'
  <2>1. /\ UNCHANGED <<clock, table, admins, standing, crossed, batch>>
        /\ clock <= clock'
    <3>0. clock <= clock
      BY DEF TypeOK
    <3>1. ASSUME NEW j \in Ip, Check(h, j) \/ Pass(h, j)
          PROVE  /\ UNCHANGED <<clock, table, admins, standing, crossed, batch>>
                 /\ clock <= clock'
      BY <3>0, <3>1 DEF Check, Pass, history
    <3>2. CASE Serve(h) \/ RecordBan(h)
      BY <3>0, <3>2 DEF Serve, RecordBan, history
    <3>3. CASE BanUnsent(h)
      BY <3>0, <3>3 DEF BanUnsent
    <3>4. CASE RecordSecurity(h) \/ EventUnsent(h)
      BY <3>0, <3>4 DEF RecordSecurity, EventUnsent, history
    <3> QED BY <1>2, <3>1, <3>2, <3>3, <3>4 DEF RequestStep
  <2>2. bans'[ip] = bans[ip] \/ (bans'[ip] = 0 /\ bans[ip] <= clock)
    <3>1. ASSUME NEW j \in Ip, Check(h, j)
          PROVE  bans'[ip] = bans[ip] \/ (bans'[ip] = 0 /\ bans[ip] <= clock)
      BY <3>1, UnexpiredRow DEF Check, TypeOK
    <3>2. CASE Serve(h) \/ RecordBan(h) \/ BanUnsent(h) \/ RecordSecurity(h) \/ EventUnsent(h)
      BY <3>2 DEF Serve, RecordBan, BanUnsent, RecordSecurity, EventUnsent
    <3>3. ASSUME NEW j \in Ip, Pass(h, j)
          PROVE  bans'[ip] = bans[ip]
      BY <3>3 DEF Pass
    <3> QED BY <1>2, <3>1, <3>2, <3>3 DEF RequestStep
  <2>3. Pending(ip)' => Pending(ip)
    <3>1. \A g \in Handler : handlers'[g].pc = "record" => handlers'[g] = handlers[g]
      <4>1. ASSUME NEW j \in Ip, Check(h, j)
            PROVE  \A g \in Handler : handlers'[g].pc = "record" => handlers'[g] = handlers[g]
        BY <4>1 DEF Check, TypeOK, Idle
      <4>2. CASE Serve(h) \/ RecordBan(h) \/ BanUnsent(h) \/ RecordSecurity(h) \/ EventUnsent(h)
        BY <4>2 DEF Serve, RecordBan, BanUnsent, RecordSecurity, EventUnsent, TypeOK, Idle
      <4>3. ASSUME NEW j \in Ip, Pass(h, j)
            PROVE  \A g \in Handler : handlers'[g].pc = "record" => handlers'[g] = handlers[g]
        BY <4>3 DEF Pass, TypeOK
      <4> QED BY <1>2, <4>1, <4>2, <4>3 DEF RequestStep
    <3>2. Records(ip, queue') # {} => Pending(ip)
      <4>1. CASE RecordBan(h)
        <5> DEFINE e == [type |-> "ban", ip |-> handlers[h].ip,
                         expires_at |-> handlers[h].expires_at]
        <5>1. handlers[h].ip \in Ip /\ handlers[h].expires_at \in Nat
          BY <1>0, <4>1 DEF RecordBan, HandlerState
        <5>2. e \in StorageEvent /\ e.ip = handlers[h].ip
          BY <5>1 DEF StorageEvent, BanRecord
        <5>3. queue' = Append(queue, e)
          BY <4>1 DEF RecordBan, Recorded
        <5> HIDE DEF e
        <5>4. Records(ip, queue') \subseteq Records(ip, queue) \/ ip = handlers[h].ip
          BY <5>2, <5>3, AppendRecords DEF TypeOK
        <5> QED BY <4>1, <5>4 DEF RecordBan, Pending
      <4>2. CASE RecordSecurity(h)
        <5>1. Event \in StorageEvent /\ Event.type # "ban"
          BY DEF Event, StorageEvent, SecurityEvent
        <5>2. queue' = Append(queue, Event)
          BY <4>2 DEF RecordSecurity
        <5>3. Records(ip, queue') = Records(ip, queue)
          <6>1. Records(ip, Append(queue, Event)) =
                  Records(ip, queue)
                    \cup (IF Event.type = "ban" /\ Event.ip = ip THEN {Len(queue) + 1} ELSE {})
            BY <5>1, AppendRecords DEF TypeOK
          <6> QED BY <5>1, <5>2, <6>1
        <5> QED BY <5>3 DEF Pending
      <4>3. CASE ~RecordBan(h) /\ ~RecordSecurity(h)
        <5>1. queue' = queue
          BY <1>2, <4>3 DEF RequestStep, Check, Pass, Serve, BanUnsent, EventUnsent
        <5> QED BY <5>1 DEF Pending
      <4> QED BY <4>1, <4>2, <4>3
    <3>3. Records(ip, queue)' = Records(ip, queue') /\ Records(ip, batch)' = Records(ip, batch)
      BY <2>1 DEF Records
    <3> QED BY <3>1, <3>2, <3>3 DEF Pending
  <2>4. Stands(ip)
    BY <1>2, <2>1 DEF EditInv
  <2> QED BY <2>1, <2>2, <2>3, <2>4, EditFrame
<1> QED BY <1>1, <1>2 DEF EditInv

LEMMA EditWriter ==
  ASSUME TypeOK, TypeOK', EditInv, WriterStep
  PROVE  EditInv'
<1>1. UNCHANGED <<clock, bans, handlers, admins, standing, crossed>> /\ clock <= clock'
  BY DEF WriterStep, OpenDatabase, CannotOpen, Receive, Commit, Fail, CleanUp, history, TypeOK
<1> SUFFICES ASSUME NEW ip \in Ip, ip \notin crossed
             PROVE  Stands(ip)'
  BY <1>1 DEF EditInv
<1>2. Stands(ip)
  BY DEF EditInv
<1>3. ASSUME NEW n \in 1..BatchSize, n <= Len(queue), Receive(n)
      PROVE  Stands(ip)'
  <2>1. Len(queue) \in Nat /\ n \in 0..Len(queue)
    BY <1>3, ConfigAssumption, LenProperties DEF TypeOK
  <2>2. Len(batch') = n /\ \A i \in 1..n : batch'[i] = queue[i]
    BY <1>3, <2>1, Stretch DEF Receive, TypeOK
  <2>3. Len(queue') = Len(queue) - n /\ \A i \in 1..(Len(queue) - n) : queue'[i] = queue[n + i]
    BY <1>3, <2>1, Stretch DEF Receive, TypeOK
  <2>4. /\ DOMAIN queue = 1..Len(queue) /\ DOMAIN queue' = 1..(Len(queue) - n)
        /\ DOMAIN batch' = 1..n
    BY <2>2, <2>3, LenProperties DEF TypeOK
  <2>5. Records(ip, batch') # {} => Records(ip, queue) # {}
    <3>1. \A i \in 1..n : i \in 1..Len(queue)
      BY <2>1
    <3> QED BY <2>2, <2>4, <3>1 DEF Records
  <2>6. Records(ip, queue') # {} => Records(ip, queue) # {}
    <3>1. \A i \in 1..(Len(queue) - n) : n + i \in 1..Len(queue)
      BY <2>1
    <3>2. ASSUME NEW i \in Records(ip, queue')
          PROVE  n + i \in Records(ip, queue)
      BY <2>3, <2>4, <3>1 DEF Records
    <3> QED BY <3>2
  <2>7. Records(ip, queue)' = Records(ip, queue') /\ Records(ip, batch)' = Records(ip, batch')
    BY DEF Records
  <2>8. Pending(ip)' => Pending(ip)
    BY <1>1, <2>5, <2>6, <2>7 DEF Pending
  <2>9. table' = table
    BY <1>3 DEF Receive
  <2> QED BY <1>1, <1>2, <2>8, <2>9, EditFrame
<1>4. CASE Commit \/ Fail \/ CleanUp
  <2>1. Pending(ip)' => Pending(ip)
    <3>1. queue' = queue /\ (batch' = <<>> \/ batch' = batch)
      BY <1>4 DEF Commit, Fail, CleanUp
    <3>2. \A s : s = <<>> => Records(ip, s) = {}
      BY EmptySeq DEF Records
    <3>3. Records(ip, queue)' = Records(ip, queue') /\ Records(ip, batch)' = Records(ip, batch')
      BY DEF Records
    <3> QED BY <1>1, <3>1, <3>2, <3>3 DEF Pending
  <2>2. ASSUME ~Pending(ip)
        PROVE  table'[ip] = table[ip] \/ (table'[ip] = 0 /\ table[ip] <= clock)
    <3>1. CASE Commit
      <4>1. batch \in Seq(StorageEvent) /\ table \in [Ip -> Nat] /\ clock \in Nat
        BY DEF TypeOK
      <4>2. Written(table, batch)[ip] = table[ip]
        BY <2>2 DEF Pending, Written
      <4>3. Written(table, batch) \in [Ip -> Nat]
        BY <4>1, WrittenType
      <4> QED BY <3>1, <4>1, <4>2, <4>3, UnexpiredRow DEF Commit
    <3>2. CASE Fail \/ CleanUp
      BY <3>2, UnexpiredRow DEF Fail, CleanUp, TypeOK
    <3> QED BY <1>4, <3>1, <3>2
  <2> QED BY <1>1, <1>2, <2>1, <2>2, EditFrame
<1>5. CASE OpenDatabase \/ CannotOpen
  <2>1. Pending(ip)' => Pending(ip)
    <3>1. batch' = batch /\ (queue' = <<>> \/ queue' = queue)
      BY <1>5 DEF OpenDatabase, CannotOpen
    <3>2. \A s : s = <<>> => Records(ip, s) = {}
      BY EmptySeq DEF Records
    <3>3. Records(ip, queue)' = Records(ip, queue') /\ Records(ip, batch)' = Records(ip, batch')
      BY DEF Records
    <3> QED BY <1>1, <3>1, <3>2, <3>3 DEF Pending
  <2>2. table' = table
    BY <1>5 DEF OpenDatabase, CannotOpen
  <2> QED BY <1>1, <1>2, <2>1, <2>2, EditFrame
<1> QED BY <1>3, <1>4, <1>5 DEF WriterStep

LEMMA EditAdmin ==
  ASSUME TypeOK, TypeOK', EditInv, NEW a \in Admin, AdminStep(a)
  PROVE  EditInv'
<1>0. admins[a] \in AdminState /\ Admin = DOMAIN admins
  BY DEF TypeOK
<1>1. UNCHANGED <<clock, queue, batch, handlers>>
  BY DEF AdminStep, SetBan, SetManualBan, ClearBan, ClearBanEntry
<1>2. \A ip \in Ip : Pending(ip)' = Pending(ip)
  BY <1>1 DEF Pending, Records
<1>3. /\ clock \in Nat /\ bans \in [Ip -> Nat] /\ table \in [Ip -> Nat]
      /\ standing \in [Ip -> Int]
  BY DEF TypeOK
\* Other addresses than the one the call is about.
<1>4. ASSUME NEW ip \in Ip, NEW other \in Ip, other # ip, other \notin crossed, Stands(other),
             admins[a].pc = "idle" \/ admins[a].ip = ip,
             admins'[a].pc = "idle" \/ admins'[a].ip = ip,
             \A b \in Admin \ {a} : admins'[b] = admins[b],
             bans'[other] = bans[other], table'[other] = table[other],
             standing'[other] = standing[other]
      PROVE  Stands(other)'
  <2>1. Editing(other)' = Editing(other)
    BY <1>4 DEF Editing
  <2>2. \A b \in Admin : admins'[b].pc # "idle" /\ admins'[b].ip = other =>
                            admins'[b] = admins[b]
    BY <1>4
  <2> QED BY <1>1, <1>2, <1>4, <2>1, <2>2 DEF Stands
<1>5. ASSUME NEW ip \in Ip, ClearBan(a, ip)
      PROVE  EditInv'
  <2>1. /\ admins[a] = Idle /\ admins' = [admins EXCEPT ![a] = [pc |-> "lift", ip |-> ip]]
        /\ table' = [table EXCEPT ![ip] = 0] /\ bans' = bans
        /\ standing' = [standing EXCEPT ![ip] = Lifted] /\ crossed' = Crossed(ip)
    BY <1>5 DEF ClearBan
  <2>2. /\ admins'[a].pc = "lift" /\ admins'[a].ip = ip /\ admins[a].pc = "idle"
        /\ \A b \in Admin \ {a} : admins'[b] = admins[b]
    BY <1>0, <2>1 DEF Idle
  <2>3. ASSUME ip \notin crossed'
        PROVE  Stands(ip)'
    <3>1. ~Pending(ip) /\ ~Editing(ip)
      BY <2>1, <2>3 DEF Crossed
    <3>2. \A b \in Admin : admins'[b].pc # "idle" /\ admins'[b].ip = ip => admins'[b].pc = "lift"
      BY <2>2, <3>1 DEF Editing
    <3>3. Editing(ip)' /\ table'[ip] = 0 /\ standing'[ip] = Lifted
      BY <1>3, <2>1, <2>2 DEF Editing
    <3>4. ~(standing'[ip] > clock')
      BY <1>1, <1>3, <3>3 DEF Lifted
    <3> QED BY <1>2, <3>1, <3>2, <3>3, <3>4 DEF Stands
  <2>4. ASSUME NEW other \in Ip, other # ip, other \notin crossed'
        PROVE  Stands(other)'
    <3>1. other \notin crossed
      BY <2>1, <2>4 DEF Crossed
    <3> QED BY <1>3, <1>4, <2>1, <2>2, <2>4, <3>1 DEF EditInv
  <2> QED BY <2>3, <2>4 DEF EditInv
<1>6. ASSUME NEW ip \in Ip, NEW term \in Term, SetBan(a, ip, term)
      PROVE  EditInv'
  <2>0. PICK e \in Nat : e = clock + term /\ e > clock
    BY <1>3, ConfigAssumption
  <2>1. /\ admins[a] = Idle
        /\ admins' = [admins EXCEPT ![a] = [pc |-> "apply", ip |-> ip, expires_at |-> e]]
        /\ table' = [table EXCEPT ![ip] = e] /\ bans' = bans
        /\ standing' = [standing EXCEPT ![ip] = e] /\ crossed' = Crossed(ip)
    BY <1>6, <2>0 DEF SetBan
  <2>2. /\ admins'[a].pc = "apply" /\ admins'[a].ip = ip /\ admins'[a].expires_at = e
        /\ admins[a].pc = "idle"
        /\ \A b \in Admin \ {a} : admins'[b] = admins[b]
    BY <1>0, <2>1 DEF Idle
  <2>3. ASSUME ip \notin crossed'
        PROVE  Stands(ip)'
    <3>1. ~Pending(ip) /\ ~Editing(ip)
      BY <2>1, <2>3 DEF Crossed
    <3>2. \A b \in Admin : admins'[b].pc # "idle" /\ admins'[b].ip = ip =>
                              admins'[b].pc = "apply" /\ admins'[b].expires_at = e
      BY <2>2, <3>1 DEF Editing
    <3>3. Editing(ip)' /\ table'[ip] = e /\ standing'[ip] = e
      BY <1>3, <2>1, <2>2 DEF Editing
    <3>4. standing'[ip] # Lifted
      BY <2>0, <3>3 DEF Lifted
    <3> QED BY <1>2, <3>1, <3>2, <3>3, <3>4 DEF Stands
  <2>4. ASSUME NEW other \in Ip, other # ip, other \notin crossed'
        PROVE  Stands(other)'
    <3>1. other \notin crossed
      BY <2>1, <2>4 DEF Crossed
    <3> QED BY <1>3, <1>4, <2>1, <2>2, <2>4, <3>1 DEF EditInv
  <2> QED BY <2>3, <2>4 DEF EditInv
<1>7. CASE SetManualBan(a) \/ ClearBanEntry(a)
  <2>0. PICK ip \in Ip : ip = admins[a].ip
    BY <1>0, <1>7 DEF SetManualBan, ClearBanEntry, AdminState
  <2>1. /\ admins' = [admins EXCEPT ![a] = Idle] /\ admins[a].pc # "idle"
        /\ UNCHANGED <<table, standing, crossed>>
        /\ \A j \in Ip \ {ip} : bans'[j] = bans[j]
    BY <1>3, <1>7, <2>0 DEF SetManualBan, ClearBanEntry, history
  <2>2. /\ admins'[a].pc = "idle" /\ \A b \in Admin \ {a} : admins'[b] = admins[b]
    BY <1>0, <2>1 DEF Idle
  <2>3. ASSUME NEW other \in Ip, other # ip, other \notin crossed'
        PROVE  Stands(other)'
    BY <1>4, <2>0, <2>1, <2>2, <2>3 DEF EditInv
  <2>4. ASSUME ip \notin crossed', standing[ip] = Lifted
        PROVE  Stands(ip)'
    <3>1. Stands(ip)
      BY <2>1, <2>4 DEF EditInv
    <3>2. admins[a].pc = "lift"
      BY <2>0, <2>1, <2>4, <3>1 DEF Stands
    <3>3. bans'[ip] = 0
      BY <1>3, <1>7, <2>0, <3>2 DEF SetManualBan, ClearBanEntry
    <3>4. ~(standing'[ip] > clock')
      BY <1>1, <1>3, <2>1, <2>4 DEF Lifted
    <3>5. \A b \in Admin : admins'[b].pc # "idle" => admins'[b] = admins[b]
      BY <2>2
    <3> QED BY <1>1, <1>2, <1>3, <2>1, <2>4, <3>1, <3>3, <3>4, <3>5 DEF Stands
  <2>5. ASSUME ip \notin crossed', standing[ip] > clock
        PROVE  Stands(ip)'
    <3>1. Stands(ip)
      BY <2>1, <2>5 DEF EditInv
    <3>2. admins[a].pc = "apply" /\ admins[a].expires_at = standing[ip]
      BY <2>0, <2>1, <2>5, <3>1 DEF Stands
    <3>3. bans'[ip] = standing[ip]
      BY <1>3, <1>7, <2>0, <2>5, <3>2 DEF SetManualBan, ClearBanEntry, Armed
    <3>4. standing'[ip] # Lifted
      BY <1>3, <2>1, <2>5 DEF Lifted
    <3>5. \A b \in Admin : admins'[b].pc # "idle" => admins'[b] = admins[b]
      BY <2>2
    <3> QED BY <1>1, <1>2, <2>1, <2>5, <3>1, <3>3, <3>4, <3>5 DEF Stands
  <2>6. ASSUME standing[ip] # Lifted, ~(standing[ip] > clock)
        PROVE  Stands(ip)'
    BY <1>1, <2>1, <2>6 DEF Stands
  <2> QED BY <2>1, <2>3, <2>4, <2>5, <2>6 DEF EditInv
<1> QED BY <1>5, <1>6, <1>7 DEF AdminStep

LEMMA EditStep == TypeOK /\ TypeOK' /\ EditInv /\ [Next]_vars => EditInv'
<1> SUFFICES ASSUME TypeOK, TypeOK', EditInv, [Next]_vars
             PROVE  EditInv'
  OBVIOUS
<1>1. ASSUME Tick \/ UNCHANGED vars
      PROVE  EditInv'
  <2>1. /\ UNCHANGED <<queue, batch, handlers, bans, table, admins, standing, crossed>>
        /\ clock <= clock'
    BY <1>1 DEF Tick, vars, history, TypeOK
  <2>2. \A ip \in Ip : Pending(ip)' = Pending(ip)
    BY <2>1 DEF Pending, Records
  <2>3. ASSUME NEW ip \in Ip, ip \notin crossed
        PROVE  Stands(ip)'
    BY <2>1, <2>2, <2>3, EditFrame DEF EditInv
  <2> QED BY <2>1, <2>3 DEF EditInv
<1>2. CASE Restart
  <2>1. /\ bans' = Unexpired(table) /\ UNCHANGED <<clock, table, crossed>>
        /\ \A a \in Admin : admins'[a].pc = "idle"
        /\ \A h \in Handler : handlers'[h].pc = "idle"
        /\ queue' = <<>> /\ batch' = <<>>
    BY <1>2 DEF Restart, Loaded, Idle
  <2>2. ASSUME NEW ip \in Ip, ip \notin crossed
        PROVE  Stands(ip)'
    <3>1. ~Pending(ip)'
      BY <2>1, EmptySeq DEF Pending, Records
    <3>2. standing'[ip] = standing[ip] \/ standing'[ip] = Nothing
      BY <1>2 DEF Restart
    <3>3. /\ clock \in Nat /\ standing[ip] \in Int
          /\ bans'[ip] = IF table[ip] > clock THEN table[ip] ELSE 0
      BY <2>1 DEF TypeOK, Unexpired
    <3>4. Stands(ip)
      BY <2>2 DEF EditInv
    <3>5. standing[ip] = Lifted => table[ip] = 0
      BY <3>4 DEF Stands
    <3>6. standing[ip] > clock => table[ip] = standing[ip]
      BY <3>4 DEF Stands
    <3>7. standing'[ip] = Lifted => bans'[ip] <= clock' /\ table'[ip] = 0
      BY <2>1, <3>2, <3>3, <3>5 DEF Lifted, Nothing
    <3>8. standing'[ip] > clock' => bans'[ip] = standing'[ip] /\ table'[ip] = standing'[ip]
      BY <2>1, <3>2, <3>3, <3>6 DEF Nothing
    <3> QED BY <2>1, <3>1, <3>7, <3>8 DEF Stands
  <2> QED BY <2>1, <2>2 DEF EditInv
<1> QED BY <1>1, <1>2, EditRequest, EditWriter, EditAdmin DEF Next

\* Whatever requests, other administrators, the writer and restarts do, an
\* administrator's decision is what map and table say, unless it met another
\* decision in flight.  The counterexamples of LiftedStaysLifted and of
\* AdminTermStands are such meetings, and the only ones there are.
THEOREM EditsAreKept == Spec => []EditsStand
<1>1. Init => EditInv
  BY EditInit
<1>2. TypeOK /\ TypeOK' /\ EditInv /\ [Next]_vars => EditInv'
  BY EditStep
<1>3. EditInv => EditsStand
  BY DEF EditInv, Stands, EditsStand
<1> QED BY <1>1, <1>2, <1>3, TypeCorrect, PTL DEF Spec
===========================================================================
