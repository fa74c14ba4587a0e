--------------------------- MODULE LeakyBuckets ---------------------------
(***************************************************************************)
(* What the rate limiter amounts to: a counter for each key that leaks one *)
(* unit a tick, for ever, with no map, no time stamps and nothing dropped. *)
(* A request pours Cost into its keys in turn, up to the first that would  *)
(* overflow.  It may count for a moment up to MaxLag ticks ago, so levels  *)
(* are kept as of that earliest moment.                                    *)
(* Once something has been disturbed, nothing is promised.                 *)
(***************************************************************************)
EXTENDS Naturals

CONSTANTS Key, Requests,  \* sequences of keys, in the order they are charged
          Cost, Burst, MaxLag

VARIABLES level,      \* what each key held MaxLag ticks ago, with what was poured since
          disturbed

vars == <<level, disturbed>>

Init == /\ level = [k \in Key |-> 0]
        /\ disturbed \in BOOLEAN

\* By the time of a request MaxLag - lag units have leaked, as far as there were
\* any; what it pours comes on top of what is left.
Met(k, lag) == IF level[k] > MaxLag - lag THEN level[k] ELSE MaxLag - lag
Fits(k, lag) == Met(k, lag) + Cost <= Burst + (MaxLag - lag)
Poured(keys, lag) ==
  {keys[i] : i \in {i \in DOMAIN keys : \A j \in 1..i : Fits(keys[j], lag)}}

Pour(keys, lag) ==
  level' = [k \in Key |-> IF k \in Poured(keys, lag) THEN Met(k, lag) + Cost ELSE level[k]]

Leak == level' = [k \in Key |-> IF level[k] > 0 THEN level[k] - 1 ELSE 0]

Next == \/ disturbed'
        \/ /\ ~disturbed /\ ~disturbed'
           /\ \/ Leak
              \/ \E keys \in Requests, lag \in 0..MaxLag : Pour(keys, lag)

Spec == Init /\ [][Next]_vars
===========================================================================
