----------------------------- MODULE Datagrams -----------------------------
(***************************************************************************)
(* The datagram service that Sensorino::sendMessage and radioCheckPacket   *)
(* build on: a message that was accepted for sending is received at most   *)
(* once, as it was sent and after those its sender sent before; one whose  *)
(* sending was confirmed is received.                                      *)
(***************************************************************************)
EXTENDS Integers, Sequences

CONSTANTS Senders, Lens, MaxMessages

VARIABLES accepted, confirmed, got

vars == <<accepted, confirmed, got>>

Messages == [from : Senders, num : 1 .. MaxMessages, len : Lens]

Init == accepted = {} /\ confirmed = {} /\ got = <<>>

Accept(m) ==
  /\ \A x \in accepted : x.from = m.from => x.num < m.num
  /\ accepted' = accepted \cup {m}
  /\ UNCHANGED <<confirmed, got>>

Confirm(m) ==
  /\ m \in accepted
  /\ confirmed' = confirmed \cup {m}
  /\ UNCHANGED <<accepted, got>>

Receive(m) ==
  /\ m \in accepted
  /\ \A i \in DOMAIN got : got[i].from = m.from => got[i].num < m.num
  /\ got' = Append(got, m)
  /\ UNCHANGED <<accepted, confirmed>>

Next == \E m \in Messages : Accept(m) \/ Confirm(m) \/ Receive(m)

Spec == Init /\ [][Next]_vars

ConfirmedArrives ==
  \A m \in Messages : m \in confirmed ~> \E i \in DOMAIN got : got[i] = m

FairSpec == Spec /\ ConfirmedArrives
=============================================================================
