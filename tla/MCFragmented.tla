---------------------------- MODULE MCFragmented ----------------------------
(***************************************************************************)
(* Two kinds of behaviour.  A calm one has one sender, loses no            *)
(* acknowledgement, and its receiver gives up only when nothing is being   *)
(* sent: there the fragments are a datagram service.  In the others two    *)
(* senders send messages of Longest, and everything may happen.            *)
(***************************************************************************)
EXTENDS FragmentedDatagram, Functions

CONSTANTS Calm, Longest

VARIABLE calm

AckLost(s) == SendFailed(s) /\ losses' = losses

Quiet ==
  /\ \A m \in started' : m.from = Calm
  /\ \A s \in Senders : ~AckLost(s)
  /\ GiveUp => \A s \in Senders : sending[s].pc = "idle"

Stormy ==
  /\ \A m \in started' : m.len = Longest
  /\ Cardinality(started') <= MaxMessages
  /\ losses' < MaxLosses

MixedInit == Init /\ calm \in BOOLEAN /\ msgId[Calm] = 0
MixedNext == Next /\ (IF calm THEN Quiet ELSE Stormy) /\ UNCHANGED calm

\* The receiver's code runs while the radio has something for it, its wait ends,
\* and a sender waits for an acknowledgement or a failure only so long.
MixedSpec ==
  /\ MixedInit /\ [][MixedNext]_<<vars, calm>>
  /\ WF_vars((Receive \/ ReadLast \/ ReadMore \/ GiveUp) /\ MixedNext)
  /\ \A s \in Senders : WF_vars((SendAcked(s) \/ SendFailed(s)) /\ MixedNext)

\* Calm behaviour as the service sees it; what is received but was not sent is an
\* Idle that no step of the service receives.
Service == INSTANCE Datagrams WITH
  Senders <- {Calm},
  accepted <- IF calm THEN started ELSE {},
  confirmed <- IF calm THEN succeeded ELSE {},
  got <- IF calm THEN [i \in DOMAIN delivered |->
                         IF IsWhole(delivered[i]) THEN delivered[i][1].msg ELSE Idle]
         ELSE <<>>

\* While no acknowledgement is lost, datagrams arrive whole, once and in order, and
\* those the sender was told have arrived do arrive (FragmentedDatagram implements
\* the service of Datagrams, with liveness).
ImplementsDatagrams == Service!FairSpec

\* What is received is from one message: the id check tells a fragment that goes on
\* from "a start of a new sequence" (FragmentedDatagram.h:57-60).
NeverJoined ==
  \A i \in DOMAIN delivered : \A f, g \in Range(delivered[i]) : f.msg = g.msg
=============================================================================
