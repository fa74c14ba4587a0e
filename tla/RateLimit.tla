----------------------------- MODULE RateLimit -----------------------------
(***************************************************************************)
(* The token buckets of SecurityState::allow_rate (backend/src/security.rs).*)
(* A request is charged to four buckets in turn, all with the same rate and *)
(* burst: one for the whole gateway, one for its address, one for its host  *)
(* and one for its host and path.  The first empty bucket refuses it, and   *)
(* what the earlier ones were charged is not given back.                    *)
(*                                                                         *)
(* The clock is read before the lock is taken, so a request can be charged  *)
(* at a time earlier than one already charged: a bucket's last_refill then  *)
(* moves back, and the time between is credited a second time.              *)
(*                                                                         *)
(* Time is counted in ticks that earn one unit; a token is Cost units, so   *)
(* fractions of tokens are kept to that precision.  The limiter is enabled. *)
(***************************************************************************)
EXTENDS Integers, FiniteSets

CONSTANTS Client, Host, Path,
          Exempt,    \* addresses whose whitelist rule skips the limiter
          Handler,   \* concurrent request handlers
          Cost,      \* units in one token
          Burst,     \* capacity of a bucket, in units
          IdleTTL,   \* 300 s: an idle bucket is dropped
          MaxStall,  \* bound: ticks between the clock reading and the lock
          MaxClock   \* bound: the last tick

ASSUME ConfigAssumption ==
  /\ Exempt \subseteq Client
  /\ Cost \in Nat \ {0}
  /\ Burst \in Nat /\ Burst >= Cost
  /\ IdleTTL \in Nat \ {0}
  /\ MaxStall \in Nat /\ MaxClock \in Nat

VARIABLES clock,     \* Instant::now()
          buckets,   \* SecurityState.buckets
          handlers,  \* the requests between clock reading and lock
          taken,     \* history: units ever charged to a key
          rewound    \* history: ticks by which a key's last_refill moved back

vars == <<clock, buckets, handlers, taken, rewound>>

Global == <<"global">>
Key == {Global} \cup {<<"ip", c>> : c \in Client} \cup {<<"host", h>> : h \in Host}
         \cup {<<"path", h, p>> : h \in Host, p \in Path}

\* The order in which a request is charged.
GlobalLast(c, h, p) == <<<<"ip", c>>, <<"host", h>>, <<"path", h, p>>, Global>>  \* mutant
KeysOf(c, h, p) == <<Global, <<"ip", c>>, <<"host", h>>, <<"path", h, p>>>>

TokenBucket == [tokens: 0..Burst, last_refill: Nat]
Idle == [pc |-> "idle"]
HandlerState ==
  [pc: {"idle"}] \cup [pc: {"lock"}, keys: [1..4 -> Key], now: Nat]

TypeOK ==
  /\ clock \in Nat
  /\ DOMAIN buckets \subseteq Key
  /\ buckets \in [DOMAIN buckets -> TokenBucket]
  /\ handlers \in [Handler -> HandlerState]
  /\ taken \in [Key -> Nat]
  /\ rewound \in [Key -> Nat]

Init ==
  /\ clock = 0
  /\ buckets = [k \in {} |-> [tokens |-> Burst, last_refill |-> 0]]
  /\ handlers = [h \in Handler |-> Idle]
  /\ taken = [k \in Key |-> 0]
  /\ rewound = [k \in Key |-> 0]

---------------------------------------------------------------------------
\* Instant::duration_since saturates at zero.
Since(past, now) == IF now > past THEN now - past ELSE 0

KeptTooShort(now) ==                                              \* mutant
  {k \in DOMAIN buckets : Since(buckets[k].last_refill, now) < IdleTTL - 1}

\* The buckets the purge at the start of the locked section leaves.
Kept(now) == {k \in DOMAIN buckets : Since(buckets[k].last_refill, now) < IdleTTL}

Refill(tokens, elapsed) ==
  IF tokens + elapsed < Burst THEN tokens + elapsed ELSE Burst

\* What key k holds once it has been created or refilled at now.
Level(k, now) ==
  IF k \in Kept(now)
  THEN Refill(buckets[k].tokens, Since(buckets[k].last_refill, now))
  ELSE Burst

Enough(k, now) == Level(k, now) >= Cost

\* The keys the loop gets to, and those it charges: it returns at the first
\* key without a token, whose bucket has been refilled by then.
Reached(keys, now) ==
  {keys[i] : i \in {i \in 1..4 : \A j \in 1..(i - 1) : Enough(keys[j], now)}}
ChargedEmpty(keys, now) == Reached(keys, now)                     \* mutant
Charged(keys, now) == {k \in Reached(keys, now) : Enough(k, now)}

\* The last_refill a reached bucket is left with.
StampForgotten(k, now) == IF k \in Kept(now) THEN buckets[k].last_refill ELSE now  \* mutant
Stamp(k, now) == now

ReadClock(h, client, host, path) ==
  /\ handlers[h] = Idle
  /\ client \notin Exempt
  /\ handlers' = [handlers EXCEPT ![h] =
       [pc |-> "lock", keys |-> KeysOf(client, host, path), now |-> clock]]
  /\ UNCHANGED <<clock, buckets, taken, rewound>>

\* The locked section: purge, then charge the keys in turn.
Charge(h) ==
  LET now == handlers[h].now
      reached == Reached(handlers[h].keys, now)
      charged == Charged(handlers[h].keys, now) IN
  /\ handlers[h].pc = "lock"
  /\ buckets' = [k \in Kept(now) \cup reached |->
       IF k \in reached
       THEN [tokens |-> Level(k, now) - (IF k \in charged THEN Cost ELSE 0),
             last_refill |-> Stamp(k, now)]
       ELSE buckets[k]]
  /\ taken' = [k \in Key |-> taken[k] + (IF k \in charged THEN Cost ELSE 0)]
  /\ rewound' = [k \in Key |-> rewound[k] +
       (IF k \in reached \cap Kept(now) THEN Since(now, buckets[k].last_refill) ELSE 0)]
  /\ handlers' = [handlers EXCEPT ![h] = Idle]
  /\ UNCHANGED clock

Tick ==
  /\ clock < MaxClock
  /\ \A h \in Handler : handlers[h].pc = "lock" => clock < handlers[h].now + MaxStall
  /\ clock' = clock + 1
  /\ UNCHANGED <<buckets, handlers, taken, rewound>>

Next ==
  \/ \E h \in Handler :
       \/ \E client \in Client, host \in Host, path \in Path :
            ReadClock(h, client, host, path)
       \/ Charge(h)
  \/ Tick

Spec == Init /\ [][Next]_vars

---------------------------------------------------------------------------
(* Properties.                                                              *)

\* A dropped bucket comes back full.  That is what it would have earned only if
\* the idle time is worth a burst, which validate_config does not require.
EvictionHarmless == Burst + MaxStall <= IdleTTL

\* The token bucket law for each of the four kinds of key: since the start no
\* more was charged than one burst and what the elapsed time earned, but for the
\* time that late lockers caused to be credited twice.
TakenBounded ==
  EvictionHarmless => \A k \in Key : taken[k] <= Burst + clock + rewound[k]

\* All buckets have the same rate and burst and every request is charged to the
\* global one first, so no other bucket is ever emptier: unless lock sections
\* are out of order, the address, host and path buckets never refuse anything.
GlobalDominates ==
  (\A k \in Key : rewound[k] = 0)
    => \A k \in Key : Level(Global, clock) <= Level(k, clock)

\* docs/SECURITY.md: rate-limit counters remain bounded in memory.  The map has
\* no cap; it is the global bucket, charged first, that keeps the number of
\* keys within three for each token it can give while a bucket is kept.
BucketsBounded ==
  (\A k \in Key : rewound[k] = 0)
    => Cardinality(DOMAIN buckets) <= 1 + 3 * ((Burst + IdleTTL - 1) \div Cost)

\* The time at which a bucket is full if nobody asks, and what is left of it
\* for the oldest clock reading that can still reach the lock.
FullAt(k) == buckets[k].last_refill + Burst - buckets[k].tokens
Unearned(k) ==
  IF k \in DOMAIN buckets /\ FullAt(k) > clock - MaxStall
  THEN FullAt(k) - (clock - MaxStall) ELSE 0

\* Refills that wait for the next request, buckets that are dropped and clock
\* readings from before the lock change no decision: until a late locker moves
\* a bucket back, this is a set of leaky buckets that are never dropped.
Leaky == INSTANCE LeakyBuckets WITH
  Requests <- {KeysOf(c, h, p) : c \in Client, h \in Host, p \in Path},
  MaxLag <- MaxStall,
  level <- [k \in Key |-> Unearned(k)],
  disturbed <- ~(EvictionHarmless /\ \A k \in Key : rewound[k] = 0)

ImplementsLeaky == Leaky!Spec
===========================================================================
