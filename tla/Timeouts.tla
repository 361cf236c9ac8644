------------------------------ MODULE Timeouts ------------------------------
(***************************************************************************)
(* What the timer promises its clients (the comment at Timers.cpp:143-157, *)
(* as the code keeps it): a timeout that was set stays pending until its   *)
(* callback runs, which happens once, not before its time, not before that *)
(* of an earlier one, and eventually.                                      *)
(***************************************************************************)
EXTENDS Integers

CONSTANTS Clients, Delays, MaxLate

VARIABLE pending  \* the time left, for every client with a timeout set

Init == pending = [c \in {} |-> 0]

\* The caller may have been interrupted between the start of its delay and now.
Set(c) ==
  /\ c \notin DOMAIN pending
  /\ \E l \in (-MaxLate) .. MaxLate :
       /\ \E d \in Delays : l <= d
       /\ pending' = [x \in DOMAIN pending \cup {c} |->
                        IF x = c THEN l ELSE pending[x]]

Elapse ==
  pending' = [c \in DOMAIN pending |->
                IF pending[c] > -MaxLate THEN pending[c] - 1 ELSE pending[c]]

Fire(c) ==
  /\ c \in DOMAIN pending
  /\ pending[c] <= 0
  /\ \A x \in DOMAIN pending : pending[c] <= pending[x]
  /\ pending' = [x \in DOMAIN pending \ {c} |-> pending[x]]

Next == Elapse \/ \E c \in Clients : Set(c) \/ Fire(c)

Spec == Init /\ [][Next]_pending

\* A timeout that remains due is fired: time passes until it is due, and then
\* its turn comes.
Fires(c) == c \in DOMAIN pending ~> c \notin DOMAIN pending

FairSpec == Spec /\ \A c \in Clients : Fires(c)
=============================================================================
