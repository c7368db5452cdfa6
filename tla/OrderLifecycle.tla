---------------------------- MODULE OrderLifecycle ----------------------------
(***************************************************************************)
(* What the strategy promises of its virtual orders, whatever the market   *)
(* does: an order is placed once, under a number never used before, keeps  *)
(* its terms, only ever gets smaller, and once gone - filled or canceled - *)
(* never comes back.                                                       *)
(***************************************************************************)
EXTENDS Integers

VARIABLES
  book,     (* id -> [side, price, remaining] of the orders a trade can fill *)
  lastId    (* no id beyond this one was ever given out                      *)

Terms(o) == <<o.side, o.price>>

Init == book = [i \in {} |-> i] /\ lastId = 0

(***************************************************************************)
(* A trade takes some of an order, or the last of it.                      *)
(***************************************************************************)
Fill ==
  /\ UNCHANGED lastId
  /\ \E i \in DOMAIN book :
       /\ DOMAIN book' \in {DOMAIN book, DOMAIN book \ {i}}
       /\ \A j \in DOMAIN book' \ {i} : book'[j] = book[j]
       /\ i \in DOMAIN book' =>
            /\ Terms(book'[i]) = Terms(book[i])
            /\ 0 < book'[i].remaining /\ book'[i].remaining < book[i].remaining

(***************************************************************************)
(* Some orders are canceled and some placed, with fresh ids.               *)
(***************************************************************************)
Requote ==
  /\ lastId' >= lastId
  /\ \A i \in DOMAIN book' :
       \/ i \in DOMAIN book /\ book'[i] = book[i]
       \/ i > lastId /\ i <= lastId' /\ book'[i].remaining > 0

Next == Fill \/ Requote

Spec == Init /\ [][Next]_<<book, lastId>>
===============================================================================
