------------------------- MODULE FragmentedDatagram -------------------------
(***************************************************************************)
(* Sensorino/FragmentedDatagram.h over the reliable datagrams of           *)
(* mini-radiohead.cpp: messages cut into numbered fragments by any number  *)
(* of senders, and put together again by one receiver.                     *)
(*                                                                         *)
(* The datagrams below are acknowledged and retried by the radio chip.     *)
(* One can still be lost (the receiver is out of reach, or its FIFO stays  *)
(* full), and so can the acknowledgements of one that has arrived: in both *)
(* cases the sender's sendtoWait reports a failure.                        *)
(*                                                                         *)
(* A fragment's data is the range of bytes it carries of which message.    *)
(***************************************************************************)
EXTENDS Integers, Sequences, FiniteSets

CONSTANTS
  Senders,
  Lens,         \* lengths of messages, in bytes
  FragMax,      \* template parameter: bytes in a datagram, the header included
  TotalMax,     \* template parameter: bytes in a message
  IdMod,        \* values of the id in the header (7 bits)
  FifoSize,     \* datagrams the receiving chip holds
  MaxMessages,  \* bound: messages each sender sends
  MaxLosses,    \* bound: datagrams that are lost
  AckLoss,      \* whether acknowledgements may be lost
  Timeouts      \* whether the receiver may give up while fragments are on the way

ASSUME SizesAssumption ==
  /\ FragMax \in Nat /\ FragMax >= 3
  /\ TotalMax \in Nat /\ TotalMax >= FragMax
  /\ IdMod \in Nat \ {0}
  /\ FifoSize \in Nat \ {0}
  /\ Lens \subseteq Nat \ {0}
  /\ MaxMessages \in Nat /\ MaxLosses \in Nat
  /\ {AckLoss, Timeouts} \subseteq BOOLEAN

VARIABLES
  msgId,      \* msgId of every sender, modulo IdMod
  sending,    \* the message each sender is sending, with the offset reached
  started,    \* the messages sendtoWait was called for
  succeeded,  \* those for which it returned 1
  fifo,       \* datagrams in the receiver's chip
  rx,         \* recvfromAck at the receiver
  delivered,  \* what recvfromAck has returned, oldest first
  losses

vars == <<msgId, sending, started, succeeded, fifo, rx, delivered, losses>>

Idle == [pc |-> "idle"]

Messages == [from : Senders, num : 1 .. MaxMessages, len : Lens]

Count(s) == Cardinality({m \in started : m.from = s})

MinOf(a, b) == IF a < b THEN a ELSE b

-----------------------------------------------------------------------------
Init ==
  /\ msgId \in [Senders -> 0 .. (IdMod - 1)]  \* never initialised
  /\ sending = [s \in Senders |-> Idle]
  /\ started = {}
  /\ succeeded = {}
  /\ fifo = <<>>
  /\ rx = Idle
  /\ delivered = <<>>
  /\ losses = 0

-----------------------------------------------------------------------------
(* sendtoWait *)

Start(s) ==
  /\ sending[s].pc = "idle"
  /\ Count(s) < MaxMessages
  /\ \E l \in Lens :
       LET m == [from |-> s, num |-> Count(s) + 1, len |-> l]
       IN  /\ sending' = [sending EXCEPT ![s] =
                            [pc |-> "sending", msg |-> m, off |-> 0]]
           /\ started' = started \cup {m}
  /\ UNCHANGED <<msgId, succeeded, fifo, rx, delivered, losses>>

\* The next fragment of s: as much as fits beside the header.
Fragment(s) ==
  LET m == sending[s].msg
      off == sending[s].off
      n == MinOf(FragMax - 1, m.len - off)
  IN  [msg |-> m, off |-> off, n |-> n, id |-> msgId[s],
       more |-> off + n < m.len]

\* Mutant of NextId: the id stays when a message is given up.
NextIdOfSent(s, ok) == IF ok THEN (msgId[s] + 1) % IdMod ELSE msgId[s]

\* msgId++, before it is known whether the fragment arrives.
NextId(s, ok) == (msgId[s] + 1) % IdMod

\* The datagram is acknowledged: on to the next fragment, or return 1.
SendAcked(s) ==
  /\ sending[s].pc # "idle"
  /\ Len(fifo) < FifoSize
  /\ LET f == Fragment(s)
     IN  /\ fifo' = Append(fifo, f)
         /\ IF f.more
            THEN /\ sending' = [sending EXCEPT ![s] =
                                  [@ EXCEPT !.off = f.off + f.n]]
                 /\ UNCHANGED succeeded
            ELSE /\ sending' = [sending EXCEPT ![s] = Idle]
                 /\ succeeded' = succeeded \cup {f.msg}
  /\ msgId' = [msgId EXCEPT ![s] = NextId(s, TRUE)]
  /\ UNCHANGED <<started, rx, delivered, losses>>

\* It is not: return 0, the rest of the message is not sent.
SendFailed(s) ==
  /\ sending[s].pc # "idle"
  /\ \/ /\ losses < MaxLosses
        /\ losses' = losses + 1
        /\ UNCHANGED fifo
     \/ /\ AckLoss /\ Len(fifo) < FifoSize
        /\ fifo' = Append(fifo, Fragment(s))
        /\ UNCHANGED losses
  /\ sending' = [sending EXCEPT ![s] = Idle]
  /\ msgId' = [msgId EXCEPT ![s] = NextId(s, FALSE)]
  /\ UNCHANGED <<started, succeeded, rx, delivered>>

-----------------------------------------------------------------------------
(* recvfromAck *)

\* Called when the radio has something.
Receive ==
  /\ rx.pc = "idle" /\ fifo # <<>>
  /\ rx' = [pc |-> "first"]
  /\ UNCHANGED <<msgId, sending, started, succeeded, fifo, delivered, losses>>

\* Mutant of Continues: any fragment continues the message begun before.
ContinuesAlways(f) == rx.pc = "next"

\* A message has been begun and the fragment has the id that was expected.
Continues(f) == rx.pc = "next" /\ f.id = rx.curMsgId

\* The buffer after the fragment: its fragments so far, and their length.
Gathered(f) == IF Continues(f) THEN Append(rx.frags, f) ELSE <<f>>
GatheredLen(f) == (IF Continues(f) THEN rx.len ELSE 0) + f.n

OutOfSpace(len) == len > TotalMax - FragMax

\* The last fragment completes a message.
ReadLast ==
  /\ rx.pc # "idle" /\ fifo # <<>>
  /\ ~Head(fifo).more
  /\ fifo' = Tail(fifo)
  /\ delivered' = Append(delivered, Gathered(Head(fifo)))
  /\ rx' = Idle
  /\ UNCHANGED <<msgId, sending, started, succeeded, losses>>

\* Another is to come: if there is room, wait for it, else return 0.
ReadMore ==
  /\ rx.pc # "idle" /\ fifo # <<>>
  /\ LET f == Head(fifo)
     IN  /\ f.more
         /\ rx' = IF OutOfSpace(GatheredLen(f))
                  THEN Idle
                  ELSE [pc |-> "next", frags |-> Gathered(f),
                        len |-> GatheredLen(f),
                        curMsgId |-> (f.id + 1) % IdMod]
  /\ fifo' = Tail(fifo)
  /\ UNCHANGED <<msgId, sending, started, succeeded, delivered, losses>>

\* 65535 polls have found nothing: the next read fails and 0 is returned.
GiveUp ==
  /\ rx.pc = "next" /\ fifo = <<>>
  /\ Timeouts \/ \A s \in Senders : sending[s].pc = "idle"
  /\ rx' = Idle
  /\ UNCHANGED <<msgId, sending, started, succeeded, fifo, delivered, losses>>

-----------------------------------------------------------------------------
Next ==
  \/ \E s \in Senders : Start(s) \/ SendAcked(s) \/ SendFailed(s)
  \/ Receive \/ ReadLast \/ ReadMore \/ GiveUp

Spec == Init /\ [][Next]_vars

-----------------------------------------------------------------------------
Fragments == [msg : Messages, off : Nat, n : 1 .. (FragMax - 1),
              id : 0 .. (IdMod - 1), more : BOOLEAN]

TypeOK ==
  /\ msgId \in [Senders -> 0 .. (IdMod - 1)]
  /\ sending \in [Senders -> {Idle}
                    \cup [pc : {"sending"}, msg : Messages, off : Nat]]
  /\ started \subseteq Messages
  /\ succeeded \subseteq started
  /\ fifo \in Seq(Fragments) /\ Len(fifo) <= FifoSize
  /\ rx \in {Idle, [pc |-> "first"]}
       \cup [pc : {"next"}, frags : Seq(Fragments), len : Nat,
             curMsgId : 0 .. (IdMod - 1)]
  /\ delivered \in Seq(Seq(Fragments))
  /\ losses \in 0 .. MaxLosses

\* A datagram is read, header and all, to the place in the buffer that the
\* fragments before it have reached: the buffer of TotalMax bytes always has
\* room for a full datagram there, whatever mixture of fragments of how many
\* senders arrives.
BufferFits == rx.pc = "next" => rx.len + FragMax <= TotalMax

\* What recvfromAck returns is a run of fragments with consecutive ids of which
\* the last one, and no other, is marked as the last, however many senders,
\* losses and timeouts there were.
IsRun(d) ==
  /\ d # <<>>
  /\ \A i \in 1 .. (Len(d) - 1) : d[i].more /\ d[i + 1].id = (d[i].id + 1) % IdMod
  /\ ~d[Len(d)].more
DeliversRuns == \A i \in DOMAIN delivered : IsRun(delivered[i])

\* All the fragments of one message in their order and nothing else.
IsWhole(d) ==
  /\ d # <<>>
  /\ \A i \in DOMAIN d : d[i].msg = d[1].msg
  /\ d[1].off = 0
  /\ \A i \in 1 .. (Len(d) - 1) : d[i + 1].off = d[i].off + d[i].n
  /\ d[Len(d)].off + d[Len(d)].n = d[1].msg.len
=============================================================================
