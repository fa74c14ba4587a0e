-------------------------- MODULE RateLimitProofs --------------------------
(***************************************************************************)
(* Theorems about RateLimit, for every set of requests and every burst,     *)
(* token cost, idle time and delay.                                         *)
(***************************************************************************)
EXTENDS RateLimit, FiniteSetTheorems, TLAPS

---------------------------------------------------------------------------
(* Facts about the operators.                                               *)

LEMMA RefillBounds ==
  ASSUME NEW n \in 0..Burst, NEW e \in Nat
  PROVE  /\ Refill(n, e) \in 0..Burst
         /\ n <= Refill(n, e)
         /\ Refill(n, e) <= n + e
BY ConfigAssumption DEF Refill

\* Refilling in two stretches is refilling once.
LEMMA RefillTwice ==
  ASSUME NEW n \in 0..Burst, NEW d \in Nat, NEW e \in Nat
  PROVE  Refill(Refill(n, d), e) = Refill(n, d + e)
BY ConfigAssumption DEF Refill

LEMMA RefillMonotone ==
  ASSUME NEW m \in 0..Burst, NEW n \in 0..Burst, m <= n, NEW e \in Nat
  PROVE  Refill(m, e) <= Refill(n, e)
BY ConfigAssumption DEF Refill

LEMMA SinceType ==
  ASSUME NEW past \in Nat, NEW now \in Nat
  PROVE  Since(past, now) \in Nat
BY DEF Since

LEMMA KeysOfType ==
  ASSUME NEW c \in Client, NEW d \in Host, NEW p \in Path
  PROVE  /\ KeysOf(c, d, p) \in [1..4 -> Key]
         /\ KeysOf(c, d, p)[1] = Global
<1> DEFINE ks == KeysOf(c, d, p)
<1>1. ks[1] = Global /\ ks[2] = <<"ip", c>> /\ ks[3] = <<"host", d>> /\ ks[4] = <<"path", d, p>>
  BY DEF KeysOf
<1>2. ks[1] \in Key /\ ks[2] \in Key /\ ks[3] \in Key /\ ks[4] \in Key
  BY <1>1 DEF Key
<1>3. DOMAIN ks = 1..4 /\ ks = [i \in 1..4 |-> ks[i]]
  BY DEF KeysOf
<1> QED BY <1>1, <1>2, <1>3

LEMMA GlobalIsKey == Global \in Key
BY DEF Key

---------------------------------------------------------------------------
(* What a locked section does to one key.                                   *)

\* A key's level is a legal number of tokens.
LEMMA LevelType ==
  ASSUME TypeOK, NEW k \in Key, NEW now \in Nat
  PROVE  Level(k, now) \in 0..Burst
<1>1. CASE k \in Kept(now)
  <2>1. k \in DOMAIN buckets /\ buckets[k] \in TokenBucket
    BY <1>1 DEF Kept, TypeOK
  <2> QED BY <1>1, <2>1, SinceType, RefillBounds DEF Level, TokenBucket
<1>2. CASE k \notin Kept(now)
  BY <1>2, ConfigAssumption DEF Level
<1> QED BY <1>1, <1>2

\* The global key is the first: it is always reached, and no other key is
\* charged unless it was.
LEMMA GlobalFirst ==
  ASSUME NEW keys \in [1..4 -> Key], keys[1] = Global, NEW now
  PROVE  /\ Reached(keys, now) \subseteq Key
         /\ Global \in Reached(keys, now)
         /\ Charged(keys, now) # {} => Enough(Global, now)
<1>1. Reached(keys, now) \subseteq Key
  BY DEF Reached
<1>2. Global \in Reached(keys, now)
  <2>1. 1 \in {i \in 1..4 : \A j \in 1..(i - 1) : Enough(keys[j], now)}
    OBVIOUS
  <2> QED BY <2>1 DEF Reached
<1>3. ASSUME NEW k \in Charged(keys, now)
      PROVE  Enough(Global, now)
  <2>1. PICK i \in 1..4 : k = keys[i] /\ \A j \in 1..(i - 1) : Enough(keys[j], now)
    BY DEF Charged, Reached
  <2>2. Enough(k, now)
    BY DEF Charged
  <2>3. CASE i = 1
    BY <2>1, <2>2, <2>3
  <2>4. CASE i # 1
    <3>1. 1 \in 1..(i - 1)
      BY <2>4
    <3> QED BY <2>1, <3>1
  <2> QED BY <2>3, <2>4
<1> QED BY <1>1, <1>2, <1>3

---------------------------------------------------------------------------
(* Type correctness.                                                        *)

LEMMA TypeInit == Init => TypeOK
BY DEF Init, TypeOK, HandlerState, Idle, TokenBucket

LEMMA TypeCharge ==
  ASSUME TypeOK, NEW h \in Handler, Charge(h)
  PROVE  TypeOK'
<1> DEFINE hs == handlers[h]
           now == hs.now
           reached == Reached(hs.keys, now)
           charged == Charged(hs.keys, now)
<1>1. hs \in HandlerState /\ hs.pc = "lock"
  BY DEF TypeOK, Charge
<1>2. now \in Nat /\ hs.keys \in [1..4 -> Key]
  BY <1>1 DEF HandlerState
<1>3. reached \subseteq Key /\ charged \subseteq reached
  BY <1>2 DEF Reached, Charged
<1>4. Kept(now) \subseteq DOMAIN buckets /\ DOMAIN buckets \subseteq Key
  BY DEF Kept, TypeOK
<1>5. DOMAIN buckets' = Kept(now) \cup reached
  BY DEF Charge
<1>6. ASSUME NEW k \in Kept(now) \cup reached
      PROVE  buckets'[k] \in TokenBucket
  <2>1. CASE k \in reached
    <3> DEFINE left == Level(k, now) - (IF k \in charged THEN Cost ELSE 0)
    <3>1. buckets'[k] = [tokens |-> left, last_refill |-> now]
      BY <2>1 DEF Charge, Stamp
    <3>2. Level(k, now) \in 0..Burst
      BY <1>2, <1>3, <2>1, LevelType
    <3>3. k \in charged => Level(k, now) >= Cost
      BY DEF Charged, Enough
    <3>4. left \in 0..Burst
      BY <3>2, <3>3, ConfigAssumption
    <3> HIDE DEF left, now
    <3> QED BY <1>2, <3>1, <3>4 DEF TokenBucket
  <2>2. CASE k \notin reached
    <3>1. k \in Kept(now) /\ k \in DOMAIN buckets
      BY <2>2, <1>4
    <3>2. buckets'[k] = buckets[k]
      BY <2>2, <3>1 DEF Charge
    <3> QED BY <3>1, <3>2 DEF TypeOK
  <2> QED BY <2>1, <2>2
<1>7. buckets' \in [DOMAIN buckets' -> TokenBucket] /\ DOMAIN buckets' \subseteq Key
  <2>1. buckets' = [k \in Kept(now) \cup reached |-> buckets'[k]]
    BY DEF Charge
  <2> HIDE DEF reached, now
  <2> QED BY <1>3, <1>4, <1>5, <1>6, <2>1
<1>8. taken' \in [Key -> Nat]
  BY ConfigAssumption DEF Charge, TypeOK
<1>9. rewound' \in [Key -> Nat]
  <2>1. ASSUME NEW k \in Key
        PROVE  rewound[k] + (IF k \in reached \cap Kept(now)
                             THEN Since(now, buckets[k].last_refill) ELSE 0) \in Nat
    <3>1. rewound[k] \in Nat
      BY DEF TypeOK
    <3>2. CASE k \in reached \cap Kept(now)
      <4>1. buckets[k].last_refill \in Nat
        BY <3>2, <1>4 DEF TypeOK, TokenBucket
      <4>2. Since(now, buckets[k].last_refill) \in Nat
        BY <1>2, <4>1, SinceType
      <4> QED BY <3>1, <3>2, <4>2
    <3>3. CASE k \notin reached \cap Kept(now)
      BY <3>1, <3>3
    <3> QED BY <3>2, <3>3
  <2> QED BY <2>1 DEF Charge
<1>10. handlers' \in [Handler -> HandlerState] /\ clock' \in Nat
  BY DEF Charge, TypeOK, HandlerState, Idle
<1> QED BY <1>7, <1>8, <1>9, <1>10 DEF TypeOK

LEMMA TypeReadClock ==
  ASSUME TypeOK, NEW h \in Handler, NEW c \in Client, NEW d \in Host, NEW p \in Path,
         ReadClock(h, c, d, p)
  PROVE  TypeOK'
<1> DEFINE ks == KeysOf(c, d, p)
<1>1. ks \in [1..4 -> Key]
  BY KeysOfType
<1>2. handlers' = [handlers EXCEPT ![h] = [pc |-> "lock", keys |-> ks, now |-> clock]]
  BY DEF ReadClock
<1> HIDE DEF ks
<1>3. [pc |-> "lock", keys |-> ks, now |-> clock] \in HandlerState
  BY <1>1 DEF HandlerState, TypeOK
<1>4. handlers' \in [Handler -> HandlerState]
  BY <1>2, <1>3 DEF TypeOK
<1> QED BY <1>4 DEF ReadClock, TypeOK

LEMMA TypeStep == TypeOK /\ [Next]_vars => TypeOK'
<1> SUFFICES ASSUME TypeOK, [Next]_vars
             PROVE  TypeOK'
  OBVIOUS
<1>1. ASSUME NEW h \in Handler, NEW c \in Client, NEW d \in Host, NEW p \in Path,
             ReadClock(h, c, d, p)
      PROVE  TypeOK'
  BY <1>1, TypeReadClock
<1>2. ASSUME NEW h \in Handler, Charge(h)
      PROVE  TypeOK'
  BY <1>2, TypeCharge
<1>3. CASE Tick
  BY <1>3 DEF Tick, TypeOK
<1>4. CASE UNCHANGED vars
  BY <1>4 DEF vars, TypeOK
<1> QED BY <1>1, <1>2, <1>3, <1>4 DEF Next

\* Every reachable state is well typed; in particular a bucket never holds less
\* than nothing nor more than the burst.
THEOREM TypeCorrect == Spec => []TypeOK
<1>1. Init => TypeOK
  BY TypeInit
<1>2. TypeOK /\ [Next]_vars => TypeOK'
  BY TypeStep
<1> QED BY <1>1, <1>2, PTL DEF Spec

---------------------------------------------------------------------------
(* Clock readings are at most MaxStall old; no bucket is from the future.   *)

ClockInv ==
  /\ \A k \in DOMAIN buckets : buckets[k].last_refill <= clock
  /\ \A h \in Handler : handlers[h].pc = "lock" =>
       handlers[h].now <= clock /\ clock <= handlers[h].now + MaxStall

\* What the locked section of a handler works with.
LEMMA Locked ==
  ASSUME TypeOK, ClockInv, NEW h \in Handler, Charge(h)
  PROVE  /\ handlers[h].now \in Nat
         /\ handlers[h].now <= clock
         /\ clock <= handlers[h].now + MaxStall
         /\ handlers[h].keys \in [1..4 -> Key]
         /\ Reached(handlers[h].keys, handlers[h].now) \subseteq Key
         /\ Charged(handlers[h].keys, handlers[h].now)
              \subseteq Reached(handlers[h].keys, handlers[h].now)
<1>1. handlers[h] \in HandlerState /\ handlers[h].pc = "lock"
  BY DEF TypeOK, Charge
<1>2. handlers[h].now \in Nat /\ handlers[h].keys \in [1..4 -> Key]
  BY <1>1 DEF HandlerState
<1> QED BY <1>1, <1>2 DEF ClockInv, Reached, Charged

\* What it leaves of each key.
LEMMA ChargedKey ==
  ASSUME TypeOK, ClockInv, NEW h \in Handler, Charge(h), NEW k \in Key,
         NEW now, now = handlers[h].now,
         NEW reached, reached = Reached(handlers[h].keys, now),
         NEW charged, charged = Charged(handlers[h].keys, now)
  PROVE  /\ k \in DOMAIN buckets' <=> k \in Kept(now) \/ k \in reached
         /\ k \in reached =>
              /\ buckets'[k].tokens = Level(k, now) - (IF k \in charged THEN Cost ELSE 0)
              /\ buckets'[k].last_refill = now
         /\ k \in Kept(now) /\ k \notin reached => buckets'[k] = buckets[k]
         /\ taken'[k] = taken[k] + (IF k \in charged THEN Cost ELSE 0)
         /\ rewound'[k] = rewound[k] +
              (IF k \in reached \cap Kept(now)
               THEN Since(now, buckets[k].last_refill) ELSE 0)
<1>1. DOMAIN buckets' = Kept(now) \cup reached
  BY DEF Charge
<1>2. ASSUME k \in reached
      PROVE  buckets'[k] = [tokens |-> Level(k, now) - (IF k \in charged THEN Cost ELSE 0),
                            last_refill |-> now]
  BY <1>2 DEF Charge, Stamp
<1>3. k \in Kept(now) /\ k \notin reached => buckets'[k] = buckets[k]
  BY DEF Charge
<1>4. taken'[k] = taken[k] + (IF k \in charged THEN Cost ELSE 0)
  BY DEF Charge
<1>5. rewound'[k] = rewound[k] +
        (IF k \in reached \cap Kept(now) THEN Since(now, buckets[k].last_refill) ELSE 0)
  BY DEF Charge
<1> QED BY <1>1, <1>2, <1>3, <1>4, <1>5

LEMMA ClockInit == Init => ClockInv
BY DEF Init, ClockInv, Idle

LEMMA ClockCharge ==
  ASSUME TypeOK, ClockInv, NEW h \in Handler, Charge(h)
  PROVE  ClockInv'
<1> DEFINE now == handlers[h].now
           reached == Reached(handlers[h].keys, now)
<1>1. now \in Nat /\ now <= clock /\ reached \subseteq Key
  BY Locked
<1>2. clock' = clock
  BY DEF Charge
<1>3. ASSUME NEW k \in DOMAIN buckets'
      PROVE  buckets'[k].last_refill <= clock'
  <2>1. DOMAIN buckets' = Kept(now) \cup reached
    BY DEF Charge
  <2>2. k \in Kept(now) => k \in DOMAIN buckets
    BY DEF Kept
  <2>3. k \in Key
    BY <1>1, <1>3, <2>1, <2>2 DEF TypeOK
  <2> QED BY <1>1, <1>2, <1>3, <2>1, <2>2, <2>3, ChargedKey DEF ClockInv
<1>4. ASSUME NEW g \in Handler, handlers'[g].pc = "lock"
      PROVE  handlers'[g] = handlers[g]
  BY <1>4 DEF Charge, TypeOK, Idle
<1> QED BY <1>2, <1>3, <1>4 DEF ClockInv

LEMMA ClockReadClock ==
  ASSUME TypeOK, ClockInv,
         NEW h \in Handler, NEW c \in Client, NEW d \in Host, NEW p \in Path,
         ReadClock(h, c, d, p)
  PROVE  ClockInv'
<1>1. clock' = clock /\ buckets' = buckets
  BY DEF ReadClock
<1>2. ASSUME NEW g \in Handler
      PROVE  IF g = h THEN handlers'[g].now = clock ELSE handlers'[g] = handlers[g]
  BY DEF ReadClock, TypeOK
<1> QED BY <1>1, <1>2, ConfigAssumption DEF ClockInv, TypeOK

LEMMA ClockTick ==
  ASSUME TypeOK, ClockInv, Tick
  PROVE  ClockInv'
<1>1. ASSUME NEW k \in DOMAIN buckets
      PROVE  buckets[k].last_refill \in Nat
  BY DEF TypeOK, TokenBucket
<1>2. ASSUME NEW h \in Handler, handlers[h].pc = "lock"
      PROVE  handlers[h].now \in Nat
  <2>1. handlers[h] \in HandlerState
    BY DEF TypeOK
  <2> QED BY <1>2, <2>1 DEF HandlerState
<1> QED BY <1>1, <1>2, ConfigAssumption DEF ClockInv, Tick, TypeOK

LEMMA ClockStep == TypeOK /\ ClockInv /\ [Next]_vars => ClockInv'
<1> SUFFICES ASSUME TypeOK, ClockInv, [Next]_vars
             PROVE  ClockInv'
  OBVIOUS
<1>1. ASSUME UNCHANGED vars
      PROVE  ClockInv'
  BY <1>1 DEF vars, ClockInv
<1> QED BY <1>1, ClockReadClock, ClockCharge, ClockTick DEF Next

---------------------------------------------------------------------------
(* The token bucket law.  A key that has no bucket was never charged, or was *)
(* dropped so long ago that a full bucket is no more than it earned.         *)

CreditInv ==
  \A k \in Key :
    IF k \in DOMAIN buckets
    THEN taken[k] + buckets[k].tokens
           <= Burst + buckets[k].last_refill + rewound[k]
    ELSE taken[k] = 0 \/ taken[k] + MaxStall <= clock + rewound[k]

LEMMA CreditInit == Init => CreditInv
BY DEF Init, CreditInv

\* What is left of a key's credit when its level is computed, before it is
\* charged: the four cases are a bucket that is refilled, one that is rewound,
\* one just dropped and one long gone.
LEMMA CreditLevel ==
  ASSUME TypeOK, ClockInv, CreditInv, EvictionHarmless, NEW k \in Key,
         NEW now \in Nat, now <= clock, clock <= now + MaxStall
  PROVE  /\ k \in Kept(now) =>
              taken[k] + Level(k, now)
                <= Burst + now + rewound[k] + Since(now, buckets[k].last_refill)
         /\ k \notin Kept(now) => taken[k] + Level(k, now) <= Burst + now + rewound[k]
         /\ k \in DOMAIN buckets /\ k \notin Kept(now) =>
              taken[k] + MaxStall <= clock + rewound[k]
<1>1. taken[k] \in Nat /\ rewound[k] \in Nat /\ clock \in Nat
  BY DEF TypeOK
<1>2. CASE k \in DOMAIN buckets
  <2> DEFINE n == buckets[k].tokens
             last == buckets[k].last_refill
  <2>1. n \in 0..Burst /\ last \in Nat
    BY <1>2 DEF TypeOK, TokenBucket
  <2>2. taken[k] + n <= Burst + last + rewound[k]
    BY <1>2 DEF CreditInv
  <2>3. CASE k \in Kept(now)
    <3>1. Level(k, now) = Refill(n, Since(last, now))
      BY <2>3 DEF Level
    <3>2. Refill(n, Since(last, now)) <= n + Since(last, now)
      BY <2>1, RefillBounds, SinceType
    <3>3. Since(last, now) + last = now + Since(now, last)
      BY <2>1 DEF Since
    <3>4. Level(k, now) \in 0..Burst /\ Since(last, now) \in Nat /\ Since(now, last) \in Nat
      BY <2>1, LevelType, SinceType
    <3> HIDE DEF n, last
    <3>5. taken[k] + Level(k, now) <= Burst + now + rewound[k] + Since(now, last)
      BY <1>1, <2>1, <2>2, <3>1, <3>2, <3>3, <3>4, ConfigAssumption
    <3> QED BY <2>3, <3>5 DEF last
  <2>4. CASE k \notin Kept(now)
    <3>1. Level(k, now) = Burst
      BY <2>4 DEF Level
    <3>2. Since(last, now) >= IdleTTL
      BY <1>2, <2>1, <2>4, ConfigAssumption DEF Kept, Since
    <3>3. now - last >= IdleTTL
      BY <2>1, <3>2, ConfigAssumption DEF Since
    <3> HIDE DEF n, last
    <3> QED BY <1>1, <2>1, <2>2, <2>4, <3>1, <3>3, ConfigAssumption DEF EvictionHarmless
  <2> QED BY <2>3, <2>4
<1>3. CASE k \notin DOMAIN buckets
  <2>1. k \notin Kept(now) /\ Level(k, now) = Burst
    BY <1>3 DEF Kept, Level
  <2>2. taken[k] = 0 \/ taken[k] + MaxStall <= clock + rewound[k]
    BY <1>3 DEF CreditInv
  <2> QED BY <1>1, <1>3, <2>1, <2>2, ConfigAssumption
<1> QED BY <1>2, <1>3

LEMMA CreditCharge ==
  ASSUME TypeOK, ClockInv, CreditInv, EvictionHarmless, NEW h \in Handler, Charge(h)
  PROVE  CreditInv'
<1> SUFFICES ASSUME NEW k \in Key
             PROVE  IF k \in DOMAIN buckets'
                    THEN taken'[k] + buckets'[k].tokens
                           <= Burst + buckets'[k].last_refill + rewound'[k]
                    ELSE taken'[k] = 0 \/ taken'[k] + MaxStall <= clock' + rewound'[k]
  BY DEF CreditInv
<1> DEFINE now == handlers[h].now
           reached == Reached(handlers[h].keys, now)
           charged == Charged(handlers[h].keys, now)
           paid == IF k \in charged THEN Cost ELSE 0
           back == IF k \in reached \cap Kept(now)
                   THEN Since(now, buckets[k].last_refill) ELSE 0
<1>1. now \in Nat /\ now <= clock /\ clock <= now + MaxStall /\ charged \subseteq reached
  BY Locked
<1>2. /\ k \in DOMAIN buckets' <=> k \in Kept(now) \/ k \in reached
      /\ k \in reached =>
           buckets'[k].tokens = Level(k, now) - paid /\ buckets'[k].last_refill = now
      /\ k \in Kept(now) /\ k \notin reached => buckets'[k] = buckets[k]
      /\ taken'[k] = taken[k] + paid
      /\ rewound'[k] = rewound[k] + back
  BY ChargedKey
<1>3. /\ k \in Kept(now) =>
           taken[k] + Level(k, now)
             <= Burst + now + rewound[k] + Since(now, buckets[k].last_refill)
      /\ k \notin Kept(now) => taken[k] + Level(k, now) <= Burst + now + rewound[k]
      /\ k \in DOMAIN buckets /\ k \notin Kept(now) =>
           taken[k] + MaxStall <= clock + rewound[k]
  BY <1>1, CreditLevel
<1>4. /\ taken[k] \in Nat /\ rewound[k] \in Nat /\ clock' = clock
      /\ Level(k, now) \in 0..Burst /\ paid \in Nat
      /\ Kept(now) \subseteq DOMAIN buckets
  BY <1>1, LevelType, ConfigAssumption DEF TypeOK, Kept, Charge
<1>5. CASE k \in reached
  <2>1. k \in Kept(now) => back = Since(now, buckets[k].last_refill)
    BY <1>5
  <2>2. k \notin Kept(now) => back = 0
    OBVIOUS
  <2>3. k \in Kept(now) => Since(now, buckets[k].last_refill) \in Nat
    BY <1>1, <1>4, SinceType DEF TypeOK, TokenBucket
  <2> HIDE DEF now, reached, charged, paid, back
  <2> QED BY <1>1, <1>2, <1>3, <1>4, <1>5, <2>1, <2>2, <2>3, ConfigAssumption
<1>6. CASE k \notin reached
  <2>1. paid = 0 /\ back = 0
    BY <1>1, <1>6
  <2> HIDE DEF now, reached, charged, paid, back
  <2>2. taken'[k] = taken[k] /\ rewound'[k] = rewound[k]
    BY <1>2, <1>4, <2>1
  <2>3. CASE k \in Kept(now)
    BY <1>2, <1>4, <1>6, <2>2, <2>3 DEF CreditInv
  <2>4. CASE k \notin Kept(now)
    BY <1>2, <1>3, <1>4, <1>6, <2>2, <2>4 DEF CreditInv
  <2> QED BY <2>3, <2>4
<1> QED BY <1>5, <1>6

LEMMA CreditStep ==
  TypeOK /\ ClockInv /\ (EvictionHarmless => CreditInv) /\ [Next]_vars
    => ClockInv' /\ (EvictionHarmless => CreditInv')
<1> SUFFICES ASSUME TypeOK, ClockInv, EvictionHarmless => CreditInv, [Next]_vars
             PROVE  ClockInv' /\ (EvictionHarmless => CreditInv')
  OBVIOUS
<1>1. ASSUME NEW h \in Handler, NEW c \in Client, NEW d \in Host, NEW p \in Path,
             ReadClock(h, c, d, p)
      PROVE  ClockInv' /\ (EvictionHarmless => CreditInv')
  BY <1>1, ClockReadClock DEF ReadClock, CreditInv
<1>2. ASSUME NEW h \in Handler, Charge(h)
      PROVE  ClockInv' /\ (EvictionHarmless => CreditInv')
  BY <1>2, ClockCharge, CreditCharge
<1>3. CASE Tick
  <2>1. ClockInv'
    BY <1>3, ClockTick
  <2>2. ASSUME EvictionHarmless
        PROVE  CreditInv'
    BY <1>3, <2>2, ConfigAssumption DEF Tick, CreditInv, TypeOK
  <2> QED BY <2>1, <2>2
<1>4. CASE UNCHANGED vars
  BY <1>4 DEF vars, ClockInv, CreditInv
<1> QED BY <1>1, <1>2, <1>3, <1>4 DEF Next

LEMMA CreditBound == TypeOK /\ ClockInv /\ (EvictionHarmless => CreditInv) => TakenBounded
<1> SUFFICES ASSUME TypeOK, ClockInv, EvictionHarmless, CreditInv, NEW k \in Key
             PROVE  taken[k] <= Burst + clock + rewound[k]
  BY DEF TakenBounded
<1>1. taken[k] \in Nat /\ rewound[k] \in Nat /\ clock \in Nat
  BY DEF TypeOK
<1>2. CASE k \in DOMAIN buckets
  <2>1. buckets[k].tokens \in 0..Burst /\ buckets[k].last_refill \in Nat
    BY <1>2 DEF TypeOK, TokenBucket
  <2> QED BY <1>1, <1>2, <2>1, ConfigAssumption DEF CreditInv, ClockInv
<1>3. CASE k \notin DOMAIN buckets
  BY <1>1, <1>3, ConfigAssumption DEF CreditInv
<1> QED BY <1>2, <1>3

\* However the locked sections are ordered, no key is charged more than a burst,
\* what the elapsed time earned, and what late lockers had credited twice.
THEOREM TakenIsBounded == Spec => []TakenBounded
<1>1. Init => ClockInv /\ (EvictionHarmless => CreditInv)
  BY ClockInit, CreditInit
<1>2. TypeOK /\ ClockInv /\ (EvictionHarmless => CreditInv) /\ [Next]_vars
        => ClockInv' /\ (EvictionHarmless => CreditInv)'
  BY CreditStep DEF EvictionHarmless
<1>3. TypeOK /\ ClockInv /\ (EvictionHarmless => CreditInv) => TakenBounded
  BY CreditBound
<1> QED BY <1>1, <1>2, <1>3, TypeCorrect, PTL DEF Spec

---------------------------------------------------------------------------
(* The global bucket.                                                       *)

Unwound == \A k \in Key : rewound[k] = 0

\* At the global bucket's last refill no other bucket held less.
DominanceInv ==
  /\ \A h \in Handler : handlers[h].pc = "lock" => handlers[h].keys[1] = Global
  /\ Unwound => \A k \in DOMAIN buckets :
       /\ Global \in DOMAIN buckets
       /\ buckets[k].last_refill <= buckets[Global].last_refill
       /\ buckets[Global].tokens
            <= Refill(buckets[k].tokens,
                      buckets[Global].last_refill - buckets[k].last_refill)

LEMMA DominanceInit == Init => DominanceInv
BY DEF Init, DominanceInv, Idle

\* From then on it stays so, whatever is dropped as idle.
LEMMA LevelDominance ==
  ASSUME TypeOK, DominanceInv, Unwound, NEW k \in Key, NEW now \in Nat,
         Global \in Kept(now) => buckets[Global].last_refill <= now
  PROVE  Level(Global, now) <= Level(k, now)
<1>0. Level(Global, now) \in 0..Burst /\ Level(k, now) \in 0..Burst
  BY GlobalIsKey, LevelType
<1>1. CASE k \notin Kept(now)
  <2>1. Level(k, now) = Burst
    BY <1>1 DEF Level
  <2> QED BY <1>0, <2>1, ConfigAssumption
<1>2. CASE k \in Kept(now)
  <2> DEFINE g == buckets[Global].tokens
             gl == buckets[Global].last_refill
             n == buckets[k].tokens
             l == buckets[k].last_refill
  <2>1. k \in DOMAIN buckets /\ Since(l, now) < IdleTTL
    BY <1>2 DEF Kept
  <2>2. Global \in DOMAIN buckets /\ l <= gl /\ g <= Refill(n, gl - l)
    BY <2>1 DEF DominanceInv
  <2>3. g \in 0..Burst /\ gl \in Nat /\ n \in 0..Burst /\ l \in Nat
    BY <2>1, <2>2 DEF TypeOK, TokenBucket
  <2>4. Since(gl, now) < IdleTTL
    BY <2>1, <2>2, <2>3, ConfigAssumption DEF Since
  <2>5. Global \in Kept(now) /\ gl <= now
    BY <2>2, <2>4 DEF Kept
  <2>6. Level(Global, now) = Refill(g, Since(gl, now)) /\ Level(k, now) = Refill(n, Since(l, now))
    BY <1>2, <2>5 DEF Level
  <2> HIDE DEF g, gl, n, l
  <2>7. /\ Since(gl, now) = now - gl /\ Since(l, now) = (gl - l) + (now - gl)
        /\ now - gl \in Nat /\ gl - l \in Nat
    BY <2>2, <2>3, <2>5 DEF Since
  <2>8. Refill(n, gl - l) \in 0..Burst
    BY <2>3, <2>7, RefillBounds
  <2>9. Refill(g, now - gl) <= Refill(Refill(n, gl - l), now - gl)
    BY <2>2, <2>3, <2>7, <2>8, RefillMonotone
  <2>10. Refill(Refill(n, gl - l), now - gl) = Refill(n, (gl - l) + (now - gl))
    BY <2>3, <2>7, RefillTwice
  <2> QED BY <2>6, <2>7, <2>9, <2>10
<1> QED BY <1>1, <1>2

\* While no bucket is rewound, a request is charged at a time that no bucket it
\* reaches is ahead of.
LEMMA UnwoundCharge ==
  ASSUME TypeOK, ClockInv, NEW h \in Handler, Charge(h), Unwound'
  PROVE  /\ Unwound
         /\ \A j \in Reached(handlers[h].keys, handlers[h].now) \cap Kept(handlers[h].now) :
              buckets[j].last_refill <= handlers[h].now
<1> DEFINE now == handlers[h].now
           reached == Reached(handlers[h].keys, now)
<1>1. now \in Nat /\ reached \subseteq Key
  BY Locked
<1>2. ASSUME NEW j \in Key
      PROVE  rewound[j] = 0 /\ (j \in reached \cap Kept(now) => buckets[j].last_refill <= now)
  <2>1. rewound'[j] = 0
    BY DEF Unwound
  <2> DEFINE back == IF j \in reached \cap Kept(now)
                     THEN Since(now, buckets[j].last_refill) ELSE 0
  <2>2. rewound'[j] = rewound[j] + back
    BY ChargedKey
  <2>3. j \in Kept(now) => buckets[j].last_refill \in Nat
    BY DEF Kept, TypeOK, TokenBucket
  <2>4. CASE j \in reached \cap Kept(now)
    <3>1. Since(now, buckets[j].last_refill) \in Nat /\ back = Since(now, buckets[j].last_refill)
      BY <1>1, <2>3, <2>4, SinceType
    <3>2. rewound[j] = 0 /\ Since(now, buckets[j].last_refill) = 0
      BY <2>1, <2>2, <3>1 DEF TypeOK
    <3> QED BY <1>1, <2>3, <2>4, <3>2 DEF Since
  <2>5. CASE j \notin reached \cap Kept(now)
    <3>1. back = 0
      BY <2>5
    <3> QED BY <2>1, <2>2, <2>5, <3>1 DEF TypeOK
  <2> QED BY <2>4, <2>5
<1> QED BY <1>1, <1>2 DEF Unwound

LEMMA DominanceCharge ==
  ASSUME TypeOK, ClockInv, DominanceInv, NEW h \in Handler, Charge(h)
  PROVE  DominanceInv'
<1> DEFINE now == handlers[h].now
           keys == handlers[h].keys
           reached == Reached(keys, now)
           charged == Charged(keys, now)
           paid(k) == IF k \in charged THEN Cost ELSE 0
<1>1. ASSUME NEW g \in Handler, handlers'[g].pc = "lock"
      PROVE  handlers'[g].keys[1] = Global
  <2>1. handlers'[g] = handlers[g]
    BY <1>1 DEF Charge, TypeOK, Idle
  <2> QED BY <1>1, <2>1 DEF DominanceInv
<1>2. ASSUME Unwound', NEW k \in DOMAIN buckets'
      PROVE  /\ Global \in DOMAIN buckets'
             /\ buckets'[k].last_refill <= buckets'[Global].last_refill
             /\ buckets'[Global].tokens
                  <= Refill(buckets'[k].tokens,
                            buckets'[Global].last_refill - buckets'[k].last_refill)
  <2>1. /\ now \in Nat /\ now <= clock /\ keys \in [1..4 -> Key] /\ reached \subseteq Key
    BY Locked
  <2>2. keys[1] = Global
    BY DEF Charge, DominanceInv
  <2>3. Global \in Key /\ Global \in reached /\ (charged # {} => Enough(Global, now))
    BY <2>1, <2>2, GlobalFirst, GlobalIsKey
  <2>4. k \in Key /\ (k \in Kept(now) \/ k \in reached)
    BY <1>2, <2>1 DEF Charge, Kept, TypeOK
  <2>6. Unwound /\ (Global \in Kept(now) => buckets[Global].last_refill <= now)
    BY <1>2, <2>3, UnwoundCharge
  <2>7. Level(Global, now) <= Level(k, now)
    BY <2>1, <2>4, <2>6, LevelDominance
  <2>8. Level(Global, now) \in 0..Burst /\ Level(k, now) \in 0..Burst
    BY <2>1, <2>3, <2>4, LevelType
  <2>9. /\ Global \in DOMAIN buckets'
        /\ buckets'[Global].tokens = Level(Global, now) - paid(Global)
        /\ buckets'[Global].last_refill = now
    BY <2>3, ChargedKey
  <2>10. CASE k \in reached
    <3>1. buckets'[k].tokens = Level(k, now) - paid(k) /\ buckets'[k].last_refill = now
      BY <2>4, <2>10, ChargedKey
    <3>2. k \in charged => Global \in charged
      BY <2>3 DEF Charged
    <3>3. Level(Global, now) - paid(Global) <= Level(k, now) - paid(k)
      BY <2>7, <2>8, <3>2, ConfigAssumption
    <3>4. Level(k, now) - paid(k) \in 0..Burst
      BY <2>8, ConfigAssumption DEF Charged, Enough
    <3>5. Level(Global, now) - paid(Global) \in Int
      BY <2>8, ConfigAssumption
    <3> DEFINE a == Level(Global, now) - paid(Global)
               b == Level(k, now) - paid(k)
    <3>6. a \in Int /\ b \in 0..Burst /\ a <= b
      BY <3>3, <3>4, <3>5
    <3>7. buckets'[Global].tokens = a /\ buckets'[k].tokens = b
      BY <2>9, <3>1
    <3> HIDE DEF a, b, now, paid
    <3>8. now - now = 0
      BY <2>1
    <3>9. b <= Refill(b, 0) /\ Refill(b, 0) \in Int
      BY <3>6, RefillBounds
    <3> QED BY <2>1, <2>9, <3>1, <3>6, <3>7, <3>8, <3>9
  <2>11. CASE k \notin reached
    <3>1. k \in Kept(now) /\ buckets'[k] = buckets[k] /\ k \in DOMAIN buckets
      BY <2>4, <2>11, ChargedKey DEF Kept
    <3> DEFINE n == buckets[k].tokens
               l == buckets[k].last_refill
    <3>2. n \in 0..Burst /\ l \in Nat
      BY <3>1 DEF TypeOK, TokenBucket
    <3>3. Global \in DOMAIN buckets /\ l <= buckets[Global].last_refill
      BY <2>6, <3>1 DEF DominanceInv
    <3>4. buckets[Global].last_refill \in Nat
      BY <3>3 DEF TypeOK, TokenBucket
    <3>5. Global \in Kept(now)
      BY <2>1, <3>1, <3>2, <3>3, <3>4, ConfigAssumption DEF Kept, Since
    <3>6. l <= now
      BY <2>1, <2>6, <3>2, <3>3, <3>4, <3>5
    <3>7. Level(k, now) = Refill(n, now - l)
      <4>1. Since(l, now) = now - l
        BY <2>1, <3>2, <3>6 DEF Since
      <4> QED BY <3>1, <4>1 DEF Level
    <3>8. Level(Global, now) - paid(Global) <= Level(k, now)
      BY <2>7, <2>8, ConfigAssumption
    <3> QED BY <2>9, <3>1, <3>2, <3>6, <3>7, <3>8
  <2> QED BY <2>10, <2>11
<1> QED BY <1>1, <1>2 DEF DominanceInv

LEMMA DominanceStep ==
  TypeOK /\ ClockInv /\ DominanceInv /\ [Next]_vars => DominanceInv'
<1> SUFFICES ASSUME TypeOK, ClockInv, DominanceInv, [Next]_vars
             PROVE  DominanceInv'
  OBVIOUS
<1>1. ASSUME NEW h \in Handler, NEW c \in Client, NEW d \in Host, NEW p \in Path,
             ReadClock(h, c, d, p)
      PROVE  DominanceInv'
  <2>1. UNCHANGED <<buckets, rewound>>
    BY <1>1 DEF ReadClock
  <2>2. ASSUME NEW g \in Handler, handlers'[g].pc = "lock"
        PROVE  handlers'[g].keys[1] = Global
    <3>1. IF g = h THEN handlers'[g].keys = KeysOf(c, d, p) ELSE handlers'[g] = handlers[g]
      BY <1>1 DEF ReadClock, TypeOK
    <3> QED BY <2>2, <3>1, KeysOfType DEF DominanceInv
  <2> QED BY <2>1, <2>2 DEF DominanceInv, Unwound
<1>2. ASSUME NEW h \in Handler, Charge(h)
      PROVE  DominanceInv'
  BY <1>2, DominanceCharge
<1>3. CASE Tick
  BY <1>3 DEF Tick, DominanceInv, Unwound
<1>4. CASE UNCHANGED vars
  BY <1>4 DEF vars, DominanceInv, Unwound
<1> QED BY <1>1, <1>2, <1>3, <1>4 DEF Next

LEMMA DominanceBound == TypeOK /\ ClockInv /\ DominanceInv => GlobalDominates
<1> SUFFICES ASSUME TypeOK, ClockInv, DominanceInv, Unwound, NEW k \in Key
             PROVE  Level(Global, clock) <= Level(k, clock)
  BY DEF GlobalDominates, Unwound
<1>1. clock \in Nat
  BY DEF TypeOK
<1>2. Global \in Kept(clock) => buckets[Global].last_refill <= clock
  BY DEF Kept, ClockInv
<1> QED BY <1>1, <1>2, LevelDominance

\* While no lock section runs late, the global bucket is the emptiest, so it is
\* the only one that ever refuses.
THEOREM GlobalIsEmptiest == Spec => []GlobalDominates
<1>1. Init => ClockInv /\ DominanceInv
  BY ClockInit, DominanceInit
<1>2. TypeOK /\ ClockInv /\ [Next]_vars => ClockInv'
  BY ClockStep
<1>3. TypeOK /\ ClockInv /\ DominanceInv /\ [Next]_vars => DominanceInv'
  BY DominanceStep
<1>4. TypeOK /\ ClockInv /\ DominanceInv => GlobalDominates
  BY DominanceBound
<1> QED BY <1>1, <1>2, <1>3, <1>4, TypeCorrect, PTL DEF Spec

---------------------------------------------------------------------------
(* The number of buckets.                                                   *)

LEMMA AtMostThree ==
  ASSUME NEW a, NEW b, NEW c, NEW S, S \subseteq {a, b, c}
  PROVE  IsFiniteSet(S) /\ Cardinality(S) <= 3
<1>1. IsFiniteSet({a}) /\ Cardinality({a}) = 1
  BY FS_Singleton
<1>2. IsFiniteSet({a} \cup {b}) /\ Cardinality({a} \cup {b}) \in {1, 2}
  BY <1>1, FS_AddElement
<1>3. /\ IsFiniteSet(({a} \cup {b}) \cup {c})
      /\ Cardinality(({a} \cup {b}) \cup {c}) \in {1, 2, 3}
  BY <1>2, FS_AddElement
<1> DEFINE T == ({a} \cup {b}) \cup {c}
<1>4. S \in SUBSET T
  OBVIOUS
<1>5. IsFiniteSet(T) /\ Cardinality(T) \in {1, 2, 3}
  BY <1>3
<1> HIDE DEF T
<1>6. IsFiniteSet(S) /\ Cardinality(S) <= Cardinality(T)
  BY <1>4, <1>5, FS_Subset
<1>7. Cardinality(S) \in Nat
  BY <1>6, FS_CardinalityType
<1> QED BY <1>5, <1>6, <1>7

\* A request reaches three keys beside the global one, and none when that one
\* refuses it.
LEMMA ReachedBeside ==
  ASSUME NEW keys \in [1..4 -> Key], keys[1] = Global, NEW now
  PROVE  /\ Reached(keys, now) \subseteq {Global, keys[2], keys[3], keys[4]}
         /\ Reached(keys, now) \ {Global} # {} => Enough(Global, now)
<1>1. 1..4 = {1, 2, 3, 4}
  OBVIOUS
<1>2. ASSUME NEW k \in Reached(keys, now), k # Global
      PROVE  Enough(Global, now)
  <2>1. PICK i \in 1..4 : k = keys[i] /\ \A j \in 1..(i - 1) : Enough(keys[j], now)
    BY DEF Reached
  <2>2. 1 \in 1..(i - 1)
    BY <1>2, <2>1
  <2> QED BY <2>1, <2>2
<1> QED BY <1>1, <1>2 DEF Reached

LEMMA CostTimes ==
  /\ Cost * 0 = 0 /\ Cost * 1 = Cost
  /\ \A c \in Nat : Cost * c \in Nat /\ Cost * (c + 1) = Cost * c + Cost
BY ConfigAssumption

LEMMA CostDivision ==
  ASSUME NEW a \in Nat, NEW c \in Nat, Cost * c <= a
  PROVE  c <= a \div Cost
<1> DEFINE q == a \div Cost
           r == a % Cost
<1>1. q \in Nat /\ a < Cost * (q + 1)
  <2>1. Cost \in Nat /\ Cost > 0
    BY ConfigAssumption
  <2>2. q \in Int /\ r \in 0..(Cost - 1) /\ a = Cost * q + r
    BY <2>1
  <2> HIDE DEF q, r
  <2>3. Cost * (q + 1) = Cost * q + Cost /\ Cost * q \in Int
    BY <2>1, <2>2
  <2>4. q >= 0
    <3>1. ASSUME q + 1 <= 0
          PROVE  FALSE
      <4>1. Cost * (0 - (q + 1)) >= 0
        BY <2>1, <2>2, <3>1
      <4>2. Cost * (0 - (q + 1)) = 0 - (Cost * q + Cost)
        BY <2>1, <2>2
      <4> QED BY <2>1, <2>2, <2>3, <4>1, <4>2
    <3> QED BY <2>2, <3>1
  <2> QED BY <2>1, <2>2, <2>3, <2>4
<1> HIDE DEF q, r
<1>2. ASSUME c > q
      PROVE  FALSE
  <2>1. c - (q + 1) \in Nat
    BY <1>1, <1>2
  <2>2. Cost * (c - (q + 1)) >= 0
    BY <2>1, ConfigAssumption
  <2>3. Cost * c = Cost * (q + 1) + Cost * (c - (q + 1))
    BY <1>1, <2>1, ConfigAssumption
  <2>4. Cost * c \in Int /\ Cost * (q + 1) \in Int /\ Cost * (c - (q + 1)) \in Int
    BY <1>1, <2>1, ConfigAssumption
  <2> QED BY <1>1, <2>2, <2>3, <2>4
<1> QED BY <1>1, <1>2 DEF q

\* The other buckets that were charged or refused at time x or later.
Recent(x) == {k \in DOMAIN buckets \ {Global} : buckets[k].last_refill >= x}

\* Since a time x, a number c of requests got past the global bucket: they
\* reached the other recent buckets, three each, and were paid for by what the
\* global bucket had and earned.
Paid(x) ==
  \E c \in Nat :
    /\ IsFiniteSet(Recent(x)) /\ Cardinality(Recent(x)) <= 3 * c
    /\ Cost * c + buckets[Global].tokens <= Burst + (buckets[Global].last_refill - x)

\* BucketsBounded is about the buckets of now; the invariant counts those used
\* since any time x, for the purge may come at any time.
PaceInv ==
  Unwound =>
    /\ \A k \in DOMAIN buckets :
         buckets[Global].last_refill < buckets[k].last_refill + IdleTTL
    /\ Global \in DOMAIN buckets =>
         \A x \in Int : x <= buckets[Global].last_refill => Paid(x)

LEMMA PaceCharge ==
  ASSUME TypeOK, ClockInv, DominanceInv, PaceInv, NEW h \in Handler, Charge(h)
  PROVE  PaceInv'
<1> SUFFICES ASSUME Unwound'
             PROVE  /\ \A k \in DOMAIN buckets' :
                         buckets'[Global].last_refill < buckets'[k].last_refill + IdleTTL
                    /\ \A x \in Int : x <= buckets'[Global].last_refill => Paid(x)'
  BY DEF PaceInv
<1> DEFINE now == handlers[h].now
           keys == handlers[h].keys
           reached == Reached(keys, now)
           charged == Charged(keys, now)
           beside == reached \ {Global}
           paid == IF Global \in charged THEN Cost ELSE 0
           had == buckets[Global].tokens
           last == buckets[Global].last_refill
           lvl == Level(Global, now)
<1>1. /\ now \in Nat /\ keys \in [1..4 -> Key] /\ reached \subseteq Key /\ keys[1] = Global
  BY Locked DEF Charge, DominanceInv
<1>2. Global \in Key /\ Global \in reached
  BY <1>1, GlobalFirst, GlobalIsKey
<1>3. Unwound /\ (Global \in Kept(now) => last <= now)
  BY <1>2, UnwoundCharge
<1>4. /\ DOMAIN buckets' = Kept(now) \cup reached
      /\ buckets'[Global].tokens = lvl - paid /\ buckets'[Global].last_refill = now
      /\ \A k \in reached : buckets'[k].last_refill = now
      /\ \A k \in Kept(now) : k \notin reached => buckets'[k] = buckets[k]
  <2>1. DOMAIN buckets' = Kept(now) \cup reached
    BY DEF Charge
  <2>2. buckets'[Global].tokens = lvl - paid /\ buckets'[Global].last_refill = now
    BY <1>2, ChargedKey
  <2>3. Kept(now) \subseteq Key
    BY DEF Kept, TypeOK
  <2>4. ASSUME NEW k \in Key
        PROVE  /\ k \in reached => buckets'[k].last_refill = now
               /\ k \in Kept(now) /\ k \notin reached => buckets'[k] = buckets[k]
    BY ChargedKey
  <2> QED BY <1>1, <2>1, <2>2, <2>3, <2>4
<1>5. \A k \in DOMAIN buckets :
        /\ buckets[k].last_refill \in Nat /\ last \in Nat /\ had \in 0..Burst
        /\ Global \in DOMAIN buckets /\ buckets[k].last_refill <= last
  BY <1>3 DEF TypeOK, TokenBucket, DominanceInv
<1>6. /\ lvl \in 0..Burst
      /\ Global \in Kept(now) => lvl <= had + (now - last)
      /\ Global \notin Kept(now) => lvl = Burst
  <2>1. lvl \in 0..Burst
    BY <1>1, <1>2, LevelType
  <2>2. ASSUME Global \in Kept(now)
        PROVE  lvl <= had + (now - last)
    <3>1. Global \in DOMAIN buckets
      BY <2>2 DEF Kept
    <3>2. last \in Nat /\ had \in 0..Burst /\ last <= now
      BY <1>3, <1>5, <2>2, <3>1
    <3>3. Since(last, now) = now - last
      BY <1>1, <3>2 DEF Since
    <3>4. lvl = Refill(had, now - last)
      BY <2>2, <3>3 DEF Level
    <3> HIDE DEF had, last, now, lvl
    <3> QED BY <1>1, <3>2, <3>4, RefillBounds
  <2> QED BY <2>1, <2>2 DEF Level
\* A bucket that is kept when the global one is not does not exist.
<1>7. \A k \in Kept(now) : k \in DOMAIN buckets /\ Global \in Kept(now)
  <2> SUFFICES ASSUME NEW k \in Kept(now)
               PROVE  k \in DOMAIN buckets /\ Global \in Kept(now)
    OBVIOUS
  <2>1. k \in DOMAIN buckets /\ Since(buckets[k].last_refill, now) < IdleTTL
    BY DEF Kept
  <2>2. Since(last, now) < IdleTTL
    BY <1>1, <1>5, <2>1, ConfigAssumption DEF Since
  <2> QED BY <1>5, <2>1, <2>2 DEF Kept
<1>8. ASSUME NEW k \in DOMAIN buckets'
      PROVE  now < buckets'[k].last_refill + IdleTTL
  <2>1. CASE k \in reached
    BY <1>1, <1>4, <2>1, ConfigAssumption
  <2>2. CASE k \notin reached
    <3>1. k \in Kept(now) /\ buckets'[k] = buckets[k] /\ k \in DOMAIN buckets
      BY <1>4, <1>7, <2>2
    <3>2. Since(buckets[k].last_refill, now) < IdleTTL /\ buckets[k].last_refill \in Nat
      BY <1>5, <3>1 DEF Kept
    <3> QED BY <1>1, <3>1, <3>2, ConfigAssumption DEF Since
  <2> QED BY <2>1, <2>2
<1>9. /\ IsFiniteSet(beside) /\ Cardinality(beside) \in 0..3
      /\ beside # {} => paid = Cost
      /\ paid \in {0, Cost} /\ (paid = Cost => lvl >= Cost)
  <2>1. beside \subseteq {keys[2], keys[3], keys[4]}
    BY <1>1, ReachedBeside
  <2>2. IsFiniteSet(beside) /\ Cardinality(beside) <= 3
    BY <2>1, AtMostThree
  <2>3. Cardinality(beside) \in Nat
    BY <2>2, FS_CardinalityType
  <2>4. beside # {} => Global \in charged
    BY <1>1, <1>2, ReachedBeside DEF Charged
  <2>5. Global \in charged => lvl >= Cost
    BY DEF Charged, Enough
  <2> HIDE DEF beside
  <2>6. Cardinality(beside) \in 0..3
    BY <2>2, <2>3
  <2> QED BY <2>2, <2>4, <2>5, <2>6, <1>6, ConfigAssumption
<1> HIDE DEF now, keys, reached, charged, paid, had, last, lvl
<1>10. ASSUME NEW x \in Int, x <= now
       PROVE  Paid(x)'
  <2>0. Recent(x)' = {k \in (Kept(now) \cup reached) \ {Global} : buckets'[k].last_refill >= x}
    BY <1>4 DEF Recent
  <2>1. CASE Global \in Kept(now) /\ x <= last
    <3>1. Global \in DOMAIN buckets
      BY <1>7, <2>1
    <3>2. PICK c \in Nat :
            /\ IsFiniteSet(Recent(x)) /\ Cardinality(Recent(x)) <= 3 * c
            /\ Cost * c + had <= Burst + (last - x)
      BY <1>3, <2>1, <3>1 DEF PaceInv, Paid, had, last
    <3>3. Recent(x)' \in SUBSET (Recent(x) \cup beside)
      BY <1>4, <1>7, <2>0 DEF Recent
    <3>4. /\ IsFiniteSet(Recent(x) \cup beside)
          /\ Cardinality(Recent(x) \cup beside) =
               Cardinality(Recent(x)) + Cardinality(beside) - Cardinality(Recent(x) \cap beside)
      BY <1>9, <3>2, FS_Union
    <3>5. /\ Cardinality(Recent(x) \cap beside) \in Nat /\ Cardinality(Recent(x)) \in Nat
          /\ Cardinality(Recent(x) \cup beside) \in Nat
      BY <3>2, <3>4, FS_Intersection, FS_CardinalityType
    <3>6. /\ IsFiniteSet(Recent(x)')
          /\ Cardinality(Recent(x)') <= Cardinality(Recent(x) \cup beside)
          /\ Cardinality(Recent(x)') \in Nat
      BY <3>3, <3>4, FS_Subset, FS_CardinalityType
    <3>7. Cardinality(Recent(x)') <= 3 * c + Cardinality(beside)
      BY <1>9, <3>2, <3>4, <3>5, <3>6
    <3>8. /\ last \in Nat /\ had \in Nat /\ lvl \in Nat /\ Burst \in Nat /\ Cost \in Nat
          /\ lvl <= had + (now - last)
      BY <1>5, <1>6, <2>1, <3>1, ConfigAssumption
    <3>9. CASE paid = Cost
      <4>1. Cardinality(Recent(x)') <= 3 * (c + 1)
        BY <1>9, <3>5, <3>6, <3>7
      <4>2. Cost * (c + 1) = Cost * c + Cost /\ Cost * c \in Nat
        BY CostTimes
      <4>3. Cost * (c + 1) + buckets'[Global].tokens <= Burst + (now - x)
        BY <1>1, <1>4, <3>2, <3>8, <3>9, <4>2
      <4> QED BY <1>4, <3>6, <4>1, <4>3 DEF Paid
    <3>10. CASE beside = {} /\ paid = 0
      <4>1. Cardinality(Recent(x)') <= 3 * c
        BY <3>6, <3>7, <3>10, FS_EmptySet
      <4>2. Cost * c \in Nat
        BY CostTimes
      <4>3. Cost * c + buckets'[Global].tokens <= Burst + (now - x)
        BY <1>1, <1>4, <3>2, <3>8, <3>10, <4>2
      <4> QED BY <1>4, <3>6, <4>1, <4>3 DEF Paid
    <3> QED BY <1>9, <3>9, <3>10
  <2>2. CASE ~(Global \in Kept(now) /\ x <= last)
    <3>1. Recent(x)' \in SUBSET beside
      <4> SUFFICES ASSUME NEW k \in Kept(now), k \notin reached, buckets'[k].last_refill >= x
                   PROVE  FALSE
        BY <2>0
      <4>1. k \in DOMAIN buckets /\ Global \in Kept(now) /\ buckets'[k] = buckets[k]
        BY <1>4, <1>7
      <4> QED BY <1>5, <2>2, <4>1
    <3>2. /\ IsFiniteSet(Recent(x)') /\ Cardinality(Recent(x)') \in Nat
          /\ Cardinality(Recent(x)') <= Cardinality(beside)
      BY <1>9, <3>1, FS_Subset, FS_CardinalityType
    <3>3. CASE paid = Cost
      <4>1. Cardinality(Recent(x)') <= 3 * 1
        BY <1>9, <3>2
      <4>2. Cost * 1 + buckets'[Global].tokens <= Burst + (now - x)
        BY <1>1, <1>4, <1>6, <1>10, <3>3, CostTimes, ConfigAssumption
      <4> QED BY <1>4, <3>2, <4>1, <4>2 DEF Paid
    <3>4. CASE beside = {} /\ paid = 0
      <4>1. Cardinality(Recent(x)') <= 3 * 0
        BY <3>2, <3>4, FS_EmptySet
      <4>2. Cost * 0 + buckets'[Global].tokens <= Burst + (now - x)
        BY <1>1, <1>4, <1>6, <1>10, <3>4, CostTimes, ConfigAssumption
      <4> QED BY <1>4, <3>2, <4>1, <4>2 DEF Paid
    <3> QED BY <1>9, <3>3, <3>4
  <2> QED BY <2>1, <2>2
<1> QED BY <1>4, <1>8, <1>10

LEMMA PaceStep ==
  TypeOK /\ ClockInv /\ DominanceInv /\ PaceInv /\ [Next]_vars => PaceInv'
<1> SUFFICES ASSUME TypeOK, ClockInv, DominanceInv, PaceInv, [Next]_vars
             PROVE  PaceInv'
  OBVIOUS
<1>1. ASSUME NEW h \in Handler, Charge(h)
      PROVE  PaceInv'
  BY <1>1, PaceCharge
<1>2. ASSUME UNCHANGED <<buckets, rewound>>
      PROVE  PaceInv'
  BY <1>2 DEF PaceInv, Unwound, Paid, Recent
<1> QED BY <1>1, <1>2 DEF Next, ReadClock, Tick, vars

LEMMA PaceBound == TypeOK /\ DominanceInv /\ PaceInv => BucketsBounded
<1> SUFFICES ASSUME TypeOK, DominanceInv, PaceInv, Unwound
             PROVE  Cardinality(DOMAIN buckets) <= 1 + 3 * ((Burst + IdleTTL - 1) \div Cost)
  BY DEF BucketsBounded, Unwound
<1> DEFINE a == Burst + IdleTTL - 1
           q == a \div Cost
<1>0. a \in Nat /\ Cost * 0 <= a
  BY CostTimes, ConfigAssumption
<1> HIDE DEF a
<1>1. CASE DOMAIN buckets = {}
  <2>1. 0 <= q
    BY <1>0, CostDivision
  <2>2. q \in Int
    BY <1>0, ConfigAssumption
  <2>3. Cardinality(DOMAIN buckets) = 0
    BY <1>1, FS_EmptySet
  <2> HIDE DEF q
  <2>4. 0 <= 1 + 3 * q
    BY <2>1, <2>2
  <2> QED BY <2>3, <2>4 DEF q, a
<1>2. CASE DOMAIN buckets # {}
  <2> DEFINE last == buckets[Global].last_refill
             had == buckets[Global].tokens
             x == last - IdleTTL + 1
             rest == Recent(x)
  <2>1. /\ Global \in DOMAIN buckets /\ last \in Nat /\ had \in Nat
        /\ \A k \in DOMAIN buckets :
             buckets[k].last_refill \in Nat /\ last < buckets[k].last_refill + IdleTTL
    BY <1>2 DEF DominanceInv, PaceInv, TypeOK, TokenBucket
  <2> HIDE DEF last, had
  <2>2. x \in Int /\ x <= last
    BY <2>1, ConfigAssumption
  <2>3. PICK c \in Nat :
          /\ IsFiniteSet(rest) /\ Cardinality(rest) <= 3 * c
          /\ Cost * c + had <= Burst + (last - x)
    BY <2>1, <2>2 DEF PaceInv, Paid, last, had
  <2>4. Cost * c <= a
    <3>1. Cost * c \in Nat
      BY CostTimes
    <3> QED BY <2>1, <2>3, <3>1, ConfigAssumption DEF a
  <2>5. c <= q
    BY <1>0, <2>4, CostDivision
  <2>6. DOMAIN buckets = rest \cup {Global}
    BY <2>1, ConfigAssumption DEF Recent
  <2> HIDE DEF rest, x
  <2>7. Cardinality(rest \cup {Global}) <= Cardinality(rest) + 1 /\ Cardinality(rest) \in Nat
    <3>1. Cardinality(rest) \in Nat
      BY <2>3, FS_CardinalityType
    <3>2. Cardinality(rest \cup {Global}) \in {Cardinality(rest), Cardinality(rest) + 1}
      BY <2>3, FS_AddElement
    <3> QED BY <3>1, <3>2
  <2>8. Cardinality(rest \cup {Global}) \in Nat
    BY <2>3, FS_AddElement, FS_CardinalityType
  <2>9. q \in Int
    BY <1>0, ConfigAssumption
  <2> HIDE DEF q
  <2>10. Cardinality(DOMAIN buckets) <= 1 + 3 * q
    BY <2>3, <2>5, <2>6, <2>7, <2>8, <2>9
  <2> QED BY <2>10 DEF q, a
<1> QED BY <1>1, <1>2

\* While no lock section runs late, the buckets held at once are at most three
\* for each token the global bucket can give within the idle time, and itself.
THEOREM BucketsAreBounded == Spec => []BucketsBounded
<1>1. Init => ClockInv /\ DominanceInv /\ PaceInv
  BY ClockInit, DominanceInit DEF Init, PaceInv
<1>2. TypeOK /\ ClockInv /\ [Next]_vars => ClockInv'
  BY ClockStep
<1>3. TypeOK /\ ClockInv /\ DominanceInv /\ [Next]_vars => DominanceInv'
  BY DominanceStep
<1>4. TypeOK /\ ClockInv /\ DominanceInv /\ PaceInv /\ [Next]_vars => PaceInv'
  BY PaceStep
<1>5. TypeOK /\ DominanceInv /\ PaceInv => BucketsBounded
  BY PaceBound
<1> QED BY <1>1, <1>2, <1>3, <1>4, <1>5, TypeCorrect, PTL DEF Spec

---------------------------------------------------------------------------
(* Leaky buckets. *)

\* A request charges the keys of its address, host and path.
KeysInv == \A h \in Handler : handlers[h].pc = "lock" =>
             \E c \in Client, d \in Host, p \in Path : handlers[h].keys = KeysOf(c, d, p)

LEMMA KeysStep == TypeOK /\ KeysInv /\ [Next]_vars => KeysInv'
<1> SUFFICES ASSUME TypeOK, KeysInv, [Next]_vars
             PROVE  KeysInv'
  OBVIOUS
<1>1. CASE UNCHANGED handlers
  BY <1>1 DEF KeysInv
<1>2. ASSUME NEW h \in Handler, NEW c \in Client, NEW d \in Host, NEW p \in Path,
             ReadClock(h, c, d, p)
      PROVE  KeysInv'
  <2> DEFINE ks == KeysOf(c, d, p)
  <2>1. handlers' = [handlers EXCEPT ![h] = [pc |-> "lock", keys |-> ks, now |-> clock]]
    BY <1>2 DEF ReadClock
  <2> HIDE DEF ks
  <2>2. handlers'[h].keys = ks /\ \A g \in Handler \ {h} : handlers'[g] = handlers[g]
    BY <2>1 DEF TypeOK
  <2> QED BY <2>2 DEF KeysInv, ks
<1>3. ASSUME NEW h \in Handler, Charge(h)
      PROVE  KeysInv'
  <2>1. \A g \in Handler : handlers'[g].pc = "lock" => handlers'[g] = handlers[g]
    BY <1>3 DEF Charge, TypeOK, Idle
  <2> QED BY <2>1 DEF KeysInv
<1> QED BY <1>1, <1>2, <1>3 DEF Next, Tick, vars

LEMMA UnearnedType ==
  ASSUME TypeOK, NEW k \in Key
  PROVE  /\ Unearned(k) \in Nat
         /\ k \in DOMAIN buckets => FullAt(k) \in Nat
<1>1. clock \in Nat
  BY DEF TypeOK
<1>2. CASE k \in DOMAIN buckets
  <2>1. buckets[k].tokens \in 0..Burst /\ buckets[k].last_refill \in Nat
    BY <1>2 DEF TypeOK, TokenBucket
  <2>2. FullAt(k) \in Nat
    BY <2>1, ConfigAssumption DEF FullAt
  <2> QED BY <1>1, <1>2, <2>2, ConfigAssumption DEF Unearned
<1>3. CASE k \notin DOMAIN buckets
  BY <1>3 DEF Unearned
<1> QED BY <1>2, <1>3

\* A bucket that is dropped has been full for longer than any clock reading
\* can be late.
LEMMA DroppedIsFull ==
  ASSUME TypeOK, EvictionHarmless, NEW k \in Key, NEW now \in Nat, now <= clock,
         k \notin Kept(now)
  PROVE  Unearned(k) = 0
<1>1. CASE k \in DOMAIN buckets
  <2> DEFINE last == buckets[k].last_refill
  <2>1. buckets[k].tokens \in 0..Burst /\ last \in Nat /\ clock \in Nat
    BY <1>1 DEF TypeOK, TokenBucket
  <2>2. ~(Since(last, now) < IdleTTL)
    BY <1>1 DEF Kept
  <2>3. now - last >= IdleTTL
    BY <2>1, <2>2, ConfigAssumption DEF Since
  <2>4. FullAt(k) <= clock - MaxStall
    BY <2>1, <2>3, ConfigAssumption DEF FullAt, EvictionHarmless
  <2>5. FullAt(k) \in Nat
    BY <1>1, UnearnedType
  <2> HIDE DEF last
  <2> QED BY <2>1, <2>4, <2>5, ConfigAssumption DEF Unearned
<1>2. CASE k \notin DOMAIN buckets
  BY <1>2 DEF Unearned
<1> QED BY <1>1, <1>2

\* What a key holds at now is what has leaked out of its counter by then.
LEMMA LevelIsMet ==
  ASSUME TypeOK, EvictionHarmless, NEW k \in Key,
         NEW now \in Nat, now <= clock, clock <= now + MaxStall,
         k \in Kept(now) => buckets[k].last_refill <= now
  PROVE  /\ Leaky!Met(k, clock - now) \in Nat
         /\ Level(k, now) = Burst + (MaxStall - (clock - now)) - Leaky!Met(k, clock - now)
         /\ Leaky!Fits(k, clock - now) <=> Enough(k, now)
<1> DEFINE room == MaxStall - (clock - now)
           met == IF Unearned(k) > room THEN Unearned(k) ELSE room
<1>1. /\ clock \in Nat /\ room \in Nat /\ Unearned(k) \in Nat
      /\ clock - MaxStall = now - room
  BY UnearnedType, ConfigAssumption DEF TypeOK
<1>2. Leaky!Met(k, clock - now) = met
  BY DEF Leaky!Met
<1>3. met \in Nat
  BY <1>1
<1>4. Level(k, now) = Burst + room - met
  <2>1. CASE k \in Kept(now)
    <3> DEFINE n == buckets[k].tokens
               last == buckets[k].last_refill
    <3>1. k \in DOMAIN buckets /\ n \in 0..Burst /\ last \in Nat /\ last <= now
      BY <2>1 DEF Kept, TypeOK, TokenBucket
    <3>2. Level(k, now) = Refill(n, Since(last, now))
      BY <2>1 DEF Level
    <3>3. Since(last, now) = now - last
      BY <3>1 DEF Since
    <3>4. /\ Unearned(k) = IF FullAt(k) > now - room THEN FullAt(k) - (now - room) ELSE 0
          /\ FullAt(k) = last + Burst - n
      BY <1>1, <3>1 DEF Unearned, FullAt
    <3> HIDE DEF n, last, room
    <3>5. met = IF FullAt(k) > now THEN FullAt(k) - (now - room) ELSE room
      BY <1>1, <3>1, <3>4, ConfigAssumption
    <3> HIDE DEF met
    <3> QED BY <1>1, <3>1, <3>2, <3>3, <3>4, <3>5, ConfigAssumption DEF Refill
  <2>2. CASE k \notin Kept(now)
    <3>1. Level(k, now) = Burst /\ Unearned(k) = 0
      BY <2>2, DroppedIsFull DEF Level
    <3>2. met = room
      BY <1>1, <3>1
    <3> HIDE DEF met, room
    <3> QED BY <1>1, <3>1, <3>2, ConfigAssumption
  <2> QED BY <2>1, <2>2
<1>5. Leaky!Fits(k, clock - now) <=> met + Cost <= Burst + room
  BY <1>2 DEF Leaky!Fits
<1> HIDE DEF met, room
<1>6. Leaky!Fits(k, clock - now) <=> Enough(k, now)
  BY <1>1, <1>3, <1>4, <1>5, ConfigAssumption DEF Enough
<1> QED BY <1>2, <1>3, <1>4, <1>6 DEF room

\* The keys that a request is charged for are those that it pours into.
LEMMA ChargedIsPoured ==
  ASSUME NEW keys \in [1..4 -> Key], NEW now, NEW lag,
         \A k \in Reached(keys, now) : Leaky!Fits(k, lag) <=> Enough(k, now)
  PROVE  Leaky!Poured(keys, lag) = Charged(keys, now)
<1> DEFINE enough(i) == \A j \in 1..i : Enough(keys[j], now)
           fits(i) == \A j \in 1..i : Leaky!Fits(keys[j], lag)
<1>1. ASSUME NEW i \in 1..4, enough(i - 1)
      PROVE  Leaky!Fits(keys[i], lag) <=> Enough(keys[i], now)
  BY <1>1 DEF Reached
<1>2. \A i \in 1..4 : 1..i = 1..(i - 1) \cup {i}
  OBVIOUS
<1>3. ASSUME NEW i \in 1..4, enough(i - 1) <=> fits(i - 1)
      PROVE  enough(i) <=> fits(i)
  BY <1>1, <1>2, <1>3
<1>4. enough(1 - 1) <=> fits(1 - 1)
  OBVIOUS
<1>5. enough(1) <=> fits(1)
  BY <1>3, <1>4
<1>6. enough(2) <=> fits(2)
  <2>1. 2 \in 1..4 /\ 2 - 1 = 1
    OBVIOUS
  <2> QED BY <1>3, <1>5, <2>1
<1>7. enough(3) <=> fits(3)
  <2>1. 3 \in 1..4 /\ 3 - 1 = 2
    OBVIOUS
  <2> QED BY <1>3, <1>6, <2>1
<1>8. enough(4) <=> fits(4)
  <2>1. 4 \in 1..4 /\ 4 - 1 = 3
    OBVIOUS
  <2> QED BY <1>3, <1>7, <2>1
<1>9. \A i \in 1..4 : i = 1 \/ i = 2 \/ i = 3 \/ i = 4
  OBVIOUS
<1>10. \A i \in 1..4 : enough(i) <=> fits(i)
  BY <1>5, <1>6, <1>7, <1>8, <1>9
<1>11. Leaky!Poured(keys, lag) = {keys[i] : i \in {i \in 1..4 : fits(i)}}
  BY DEF Leaky!Poured
<1>12. \A i \in 1..4 : enough(i) <=> enough(i - 1) /\ Enough(keys[i], now)
  BY <1>2
<1>13. Reached(keys, now) = {keys[i] : i \in {i \in 1..4 : enough(i - 1)}}
  BY DEF Reached
<1> HIDE DEF enough, fits
<1>14. \A k : k \in Charged(keys, now) <=> \E i \in 1..4 : enough(i) /\ k = keys[i]
  <2>1. ASSUME NEW k \in Charged(keys, now)
        PROVE  \E i \in 1..4 : enough(i) /\ k = keys[i]
    BY <1>12, <1>13 DEF Charged
  <2>2. ASSUME NEW i \in 1..4, enough(i)
        PROVE  keys[i] \in Charged(keys, now)
    BY <1>12, <1>13, <2>2 DEF Charged
  <2> QED BY <2>1, <2>2
<1> QED BY <1>10, <1>11, <1>14

\* The locked section pours, however late its clock reading.
LEMMA ChargeIsPour ==
  ASSUME TypeOK, ClockInv, KeysInv, EvictionHarmless, NEW h \in Handler, Charge(h), Unwound'
  PROVE  \E lag \in 0..MaxStall : Leaky!Pour(handlers[h].keys, lag)
<1> DEFINE now == handlers[h].now
           keys == handlers[h].keys
           lag == clock - now
           reached == Reached(keys, now)
           charged == Charged(keys, now)
<1>1. /\ now \in Nat /\ now <= clock /\ clock <= now + MaxStall /\ clock \in Nat
      /\ keys \in [1..4 -> Key] /\ reached \subseteq Key /\ charged \subseteq reached
      /\ clock' = clock
  BY Locked DEF Charge, TypeOK
<1>2. \A k \in reached \cap Kept(now) : buckets[k].last_refill <= now
  BY UnwoundCharge
<1>3. lag \in 0..MaxStall
  BY <1>1, ConfigAssumption
<1>4. TypeOK'
  BY TypeCharge
<1> HIDE DEF reached, charged, lag, now, keys
<1>5. ASSUME NEW k \in reached
      PROVE  /\ Leaky!Met(k, lag) \in Nat
             /\ Level(k, now) = Burst + (MaxStall - lag) - Leaky!Met(k, lag)
             /\ Leaky!Fits(k, lag) <=> Enough(k, now)
  BY <1>1, <1>2, <1>5, LevelIsMet DEF lag
<1>6. Leaky!Poured(keys, lag) = charged
  BY <1>1, <1>5, ChargedIsPoured DEF reached, charged
<1>7. ASSUME NEW k \in Key
      PROVE  Unearned(k)' = IF k \in charged THEN Leaky!Met(k, lag) + Cost ELSE Unearned(k)
  <2>1. /\ k \in DOMAIN buckets' <=> k \in Kept(now) \/ k \in reached
        /\ k \in reached =>
             /\ buckets'[k].tokens = Level(k, now) - (IF k \in charged THEN Cost ELSE 0)
             /\ buckets'[k].last_refill = now
        /\ k \in Kept(now) /\ k \notin reached => buckets'[k] = buckets[k]
    BY ChargedKey DEF now, keys, reached, charged
  <2>2. Leaky!Met(k, lag) = IF Unearned(k) > MaxStall - lag THEN Unearned(k) ELSE MaxStall - lag
    BY DEF Leaky!Met
  <2>3. Unearned(k) \in Nat /\ MaxStall - lag \in Nat /\ clock - MaxStall = now - (MaxStall - lag)
    BY <1>1, <1>3, UnearnedType, ConfigAssumption DEF lag
  <2>4. CASE k \in reached
    <3> DEFINE room == MaxStall - lag
               met == Leaky!Met(k, lag)
               paid == IF k \in charged THEN Cost ELSE 0
    <3>1. k \in DOMAIN buckets' /\ FullAt(k)' = now + Burst - (Level(k, now) - paid)
      BY <2>1, <2>4 DEF FullAt
    <3>2. FullAt(k)' = now - room + met + paid
      BY <1>1, <1>5, <2>3, <2>4, <3>1, ConfigAssumption
    <3>3. Unearned(k)' = IF FullAt(k)' > now - room THEN FullAt(k)' - (now - room) ELSE 0
      BY <1>1, <2>3, <3>1 DEF Unearned
    <3>4. met \in Nat /\ room \in Nat /\ paid \in Nat
      BY <1>5, <2>3, <2>4, ConfigAssumption
    <3> HIDE DEF room, met, paid
    <3>5. Unearned(k)' = met + paid
      BY <1>1, <3>2, <3>3, <3>4
    <3>6. CASE k \in charged
      BY <3>5, <3>6 DEF met, paid
    <3>7. CASE k \notin charged
      <4>1. Level(k, now) < Cost
        <5>1. ~Enough(k, now)
          BY <2>4, <3>7 DEF Charged, charged, reached
        <5>2. Level(k, now) \in 0..Burst
          BY <1>1, LevelType
        <5> QED BY <5>1, <5>2, ConfigAssumption DEF Enough
      <4>2. met > room
        BY <1>5, <2>4, <3>4, <4>1, ConfigAssumption DEF met, room
      <4>3. met = Unearned(k) /\ paid = 0
        BY <2>2, <2>3, <3>4, <3>7, <4>2 DEF met, room, paid
      <4> QED BY <2>3, <3>5, <3>7, <4>3
    <3> QED BY <3>6, <3>7
  <2>5. CASE k \notin reached /\ k \in Kept(now)
    <3>1. k \in DOMAIN buckets /\ k \in DOMAIN buckets' /\ buckets'[k] = buckets[k]
      BY <2>1, <2>5 DEF Kept
    <3> QED BY <1>1, <2>5, <3>1 DEF Unearned, FullAt
  <2>6. CASE k \notin reached /\ k \notin Kept(now)
    <3>1. Unearned(k) = 0
      BY <1>1, <2>6, DroppedIsFull
    <3>2. Unearned(k)' = 0
      BY <2>1, <2>6 DEF Unearned
    <3> QED BY <1>1, <2>6, <3>1, <3>2
  <2> QED BY <2>4, <2>5, <2>6
<1>8. Leaky!Pour(keys, lag)
  BY <1>6, <1>7 DEF Leaky!Pour
<1> QED BY <1>3, <1>8 DEF keys

LEMMA TickIsLeak ==
  ASSUME TypeOK, Tick
  PROVE  Leaky!Leak
<1>1. clock \in Nat /\ clock' = clock + 1 /\ buckets' = buckets
  BY DEF TypeOK, Tick
<1>2. ASSUME NEW k \in Key
      PROVE  Unearned(k)' = IF Unearned(k) > 0 THEN Unearned(k) - 1 ELSE 0
  <2>1. CASE k \in DOMAIN buckets
    <3>1. FullAt(k) \in Nat /\ FullAt(k)' = FullAt(k) /\ k \in DOMAIN buckets'
      BY <1>1, <2>1, UnearnedType DEF FullAt
    <3> QED BY <1>1, <2>1, <3>1, ConfigAssumption DEF Unearned
  <2>2. CASE k \notin DOMAIN buckets
    BY <1>1, <2>2 DEF Unearned
  <2> QED BY <2>1, <2>2
<1> QED BY <1>2 DEF Leaky!Leak

LEMMA LeakyStep == TypeOK /\ ClockInv /\ KeysInv /\ [Next]_vars => [Leaky!Next]_Leaky!vars
<1> SUFFICES ASSUME TypeOK, ClockInv, KeysInv, [Next]_vars
             PROVE  [Leaky!Next]_Leaky!vars
  OBVIOUS
<1>1. CASE UNCHANGED <<clock, buckets, rewound>>
  <2>1. \A k : Unearned(k)' = Unearned(k)
    BY <1>1 DEF Unearned, FullAt
  <2> QED BY <1>1, <2>1 DEF Leaky!vars, EvictionHarmless
<1>2. CASE ~(EvictionHarmless /\ Unwound)'
  BY <1>2 DEF Leaky!Next, Unwound
<1>3. ASSUME NEW h \in Handler, Charge(h), EvictionHarmless, Unwound'
      PROVE  Leaky!Next
  <2>1. Unwound
    BY <1>3, UnwoundCharge
  <2>2. \E c \in Client, d \in Host, p \in Path : handlers[h].keys = KeysOf(c, d, p)
    BY <1>3 DEF Charge, KeysInv
  <2>3. \E lag \in 0..MaxStall : Leaky!Pour(handlers[h].keys, lag)
    BY <1>3, ChargeIsPour
  <2> QED BY <1>3, <2>1, <2>2, <2>3 DEF Leaky!Next, Unwound, EvictionHarmless
<1>4. CASE Tick /\ EvictionHarmless
  <2>1. rewound' = rewound /\ Leaky!Leak
    BY <1>4, TickIsLeak DEF Tick
  <2> QED BY <1>2, <1>4, <2>1 DEF Leaky!Next, Unwound, EvictionHarmless
<1>5. ASSUME NEW h \in Handler, NEW c \in Client, NEW d \in Host, NEW p \in Path,
             ReadClock(h, c, d, p)
      PROVE  UNCHANGED <<clock, buckets, rewound>>
  BY <1>5 DEF ReadClock
<1>6. EvictionHarmless' <=> EvictionHarmless
  BY DEF EvictionHarmless
<1> QED BY <1>1, <1>2, <1>3, <1>4, <1>5, <1>6 DEF Next, vars

\* With lazy refills, dropped buckets and clock readings from before the lock
\* the limiter decides as leaky buckets do that are never dropped, as long as
\* the idle time is worth a burst and no bucket is moved back.
THEOREM LimiterImplementsLeaky == Spec => ImplementsLeaky
<1>1. Init => ClockInv /\ KeysInv /\ Leaky!Init
  <2> SUFFICES ASSUME Init
               PROVE  KeysInv /\ Leaky!Init
    BY ClockInit
  <2>1. KeysInv
    BY DEF Init, KeysInv, Idle
  <2>2. \A k : Unearned(k) = 0
    BY DEF Init, Unearned
  <2> QED BY <2>1, <2>2 DEF Leaky!Init
<1>2. TypeOK /\ ClockInv /\ KeysInv /\ [Next]_vars => ClockInv' /\ KeysInv'
  BY ClockStep, KeysStep
<1>3. TypeOK /\ ClockInv /\ KeysInv /\ [Next]_vars => [Leaky!Next]_Leaky!vars
  BY LeakyStep
<1> QED BY <1>1, <1>2, <1>3, TypeCorrect, PTL DEF Spec, ImplementsLeaky, Leaky!Spec
===========================================================================
