--------------------------- MODULE OneTimeGrant ---------------------------
(***************************************************************************)
(* What browser verification promises, with every mechanism left out: a    *)
(* ticket (the state token of a redirect) is offered at most once, it is   *)
(* exchanged for at most one pass (a challenge), and a pass is honoured    *)
(* (a cookie is issued) at most once.  docs/SECURITY.md calls challenges   *)
(* one-use and says a successful one is consumed before the cookie is      *)
(* issued.                                                                 *)
(***************************************************************************)
EXTENDS Naturals

CONSTANTS Ticket, Pass

VARIABLES offered,  \* tickets handed to visitors
          opened,   \* the pairs <<ticket, pass>> exchanged
          honoured  \* how often each pass was honoured

vars == <<offered, opened, honoured>>

Init == /\ offered = {}
        /\ opened = {}
        /\ honoured = [p \in Pass |-> 0]

Offer(t) == /\ t \notin offered
            /\ offered' = offered \cup {t}
            /\ UNCHANGED <<opened, honoured>>

Exchange(t, p) == /\ t \in offered
                  /\ \A e \in opened : e[1] # t /\ e[2] # p
                  /\ opened' = opened \cup {<<t, p>>}
                  /\ UNCHANGED <<offered, honoured>>

Honour(t, p) == /\ <<t, p>> \in opened
                /\ honoured[p] = 0
                /\ honoured' = [honoured EXCEPT ![p] = 1]
                /\ UNCHANGED <<offered, opened>>

Next == \E t \in Ticket : \/ Offer(t)
                          \/ \E p \in Pass : Exchange(t, p) \/ Honour(t, p)

Spec == Init /\ [][Next]_vars
===========================================================================
