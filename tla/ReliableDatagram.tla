------------------------- MODULE ReliableDatagram -------------------------
(***************************************************************************)
(* RadioHead's RHReliableDatagram over RHDatagram and a driver: messages   *)
(* with an 8-bit id, acknowledged by the receiver and sent again until the *)
(* acknowledgement comes, between nodes that share one medium.             *)
(*                                                                         *)
(* A driver holds at most one received frame until it is read and is deaf  *)
(* meanwhile; a frame on the air is heard by any of the nodes it is        *)
(* addressed to that listen, or by none.                                   *)
(***************************************************************************)
EXTENDS Integers, Sequences, FiniteSets, Functions

CONSTANTS
  Nodes,        \* addresses
  Broadcast,    \* RH_BROADCAST_ADDRESS
  Mod,          \* values of an id (2^8)
  Retries,      \* _retries
  SharedBuf,    \* nodes whose driver transmits from the buffer it receives into
  MaxSends,     \* bound: calls of sendtoWait of all nodes
  MaxRestarts   \* bound: nodes that restart, each once

ASSUME ReliableAssumption ==
  /\ Broadcast \notin Nodes
  /\ Mod \in Nat /\ Mod >= 2
  /\ Retries \in Nat  \* at most 254: with 255 retries++ <= _retries never fails
  /\ SharedBuf \subseteq Nodes
  /\ MaxSends \in Nat /\ MaxRestarts \in Nat

VARIABLES
  rx,      \* the frame a node's driver holds
  last,    \* _lastSequenceNumber
  seen,    \* _seenIds
  call,    \* the sendtoWait in progress
  boots,   \* how often a node has restarted
  sends,   \* how often it has called sendtoWait
  acked,   \* messages for which sendtoWait returned true after a wait
  got      \* what recvfromAck returned, oldest first

vars == <<rx, last, seen, call, boots, sends, acked, got>>

NoFrame == [type |-> "none"]
NotSending == [pc |-> "idle"]

-----------------------------------------------------------------------------
Init ==
  /\ rx = [n \in Nodes |-> NoFrame]
  /\ last = [n \in Nodes |-> 0]
  /\ seen = [n \in Nodes |-> [m \in Nodes |-> 0]]
  /\ call = [n \in Nodes |-> NotSending]
  /\ boots = [n \in Nodes |-> 0]
  /\ sends = [n \in Nodes |-> 0]
  /\ acked = {}
  /\ got = [n \in Nodes |-> <<>>]

\* n transmits frame f, its driver then holding mine.
Transmit(n, f, mine) ==
  \E heard \in SUBSET {m \in Nodes \ {n} : rx[m] = NoFrame /\ f.to \in {m, Broadcast}} :
    rx' = [m \in Nodes |-> IF m \in heard THEN f
                           ELSE IF m = n THEN mine ELSE rx[m]]

Ack(n, f) == [type |-> "ack", from |-> n, to |-> f.from, id |-> f.id]

-----------------------------------------------------------------------------
(* sendtoWait *)

\* ++_lastSequenceNumber
NextId(n) == (last[n] + 1) % Mod

SendtoWait(n, to) ==
  /\ call[n] = NotSending
  /\ FoldFunction(+, 0, sends) < MaxSends
  /\ last' = [last EXCEPT ![n] = NextId(n)]
  /\ sends' = [sends EXCEPT ![n] = @ + 1]
  /\ call' = [call EXCEPT ![n] =
       [pc |-> "send", id |-> NextId(n), retries |-> 0,
        msg |-> [from |-> n, to |-> to, num |-> sends[n] + 1, boot |-> boots[n]]]]
  /\ UNCHANGED <<rx, seen, boots, acked, got>>

\* Mutant of Unread: every driver has one buffer.
UnreadOverwritten(n, m) == IF rx[n].type = "data" THEN [rx[n] EXCEPT !.msg = m] ELSE rx[n]

\* The frame n has not read yet when it transmits message m.
Unread(n, m) ==
  IF n \in SharedBuf /\ rx[n].type = "data" THEN [rx[n] EXCEPT !.msg = m] ELSE rx[n]

\* Mutant of Tried: the counter stays.
TriedNot(r) == r

\* retries++
Tried(r) == r + 1

\* A turn of the loop over retries: transmit, and wait unless it is a broadcast.
Send(n) ==
  /\ call[n].pc = "send"
  /\ call[n].retries <= Retries
  /\ LET c == call[n]
         f == [type |-> "data", from |-> n, to |-> c.msg.to, id |-> c.id, msg |-> c.msg]
     IN  /\ Transmit(n, f, Unread(n, c.msg))
         /\ call' = [call EXCEPT ![n] =
              IF c.msg.to = Broadcast THEN NotSending
              ELSE [c EXCEPT !.pc = "wait", !.retries = Tried(@)]]
  /\ UNCHANGED <<last, seen, boots, sends, acked, got>>

\* Retries exhausted: return false.
Fail(n) ==
  /\ call[n].pc = "send"
  /\ call[n].retries > Retries
  /\ call' = [call EXCEPT ![n] = NotSending]
  /\ UNCHANGED <<rx, last, seen, boots, sends, acked, got>>

\* Mutant of IsMyAck: the id is not looked at.
IsMyAckOfAnyId(n, f) == f.type = "ack" /\ f.from = call[n].msg.to /\ f.to = n

IsMyAck(n, f) ==
  /\ f.type = "ack" /\ f.id = call[n].id
  /\ f.from = call[n].msg.to /\ f.to = n

\* A request already received is acknowledged again, even a broadcast.
AckAgain(n, f) == f.type = "data" /\ f.id = seen[n][f.from]

\* A frame is read while waiting: the acknowledgement, a request to acknowledge
\* again, or something to discard.
Wait(n) ==
  /\ call[n].pc = "wait"
  /\ rx[n] # NoFrame
  /\ LET f == rx[n]
     IN  \/ /\ IsMyAck(n, f)
            /\ rx' = [rx EXCEPT ![n] = NoFrame]
            /\ call' = [call EXCEPT ![n] = NotSending]
            /\ acked' = acked \cup {call[n].msg}
         \/ /\ ~IsMyAck(n, f)
            /\ IF AckAgain(n, f) THEN Transmit(n, Ack(n, f), NoFrame)
                                 ELSE rx' = [rx EXCEPT ![n] = NoFrame]
            /\ UNCHANGED <<call, acked>>
  /\ UNCHANGED <<last, seen, boots, sends, got>>

\* The random timeout has passed. The frame that was there when the waiting
\* began has been read by then.
Timeout(n) ==
  /\ call[n].pc = "wait"
  /\ rx[n].type = "data" => rx[n].msg.from # n
  /\ call' = [call EXCEPT ![n].pc = "send"]
  /\ UNCHANGED <<rx, last, seen, boots, sends, acked, got>>

-----------------------------------------------------------------------------
(* recvfromAck *)

\* Mutant of IsNew: every message is new.
IsNewAlways(n, f) == TRUE

IsNew(n, f) == f.id # seen[n][f.from]

RecvfromAck(n) ==
  /\ call[n] = NotSending
  /\ rx[n] # NoFrame
  /\ LET f == rx[n]
         new == f.type = "data" /\ IsNew(n, f)
     IN  /\ IF f.type = "data" /\ f.to # Broadcast
            THEN Transmit(n, Ack(n, f), NoFrame)
            ELSE rx' = [rx EXCEPT ![n] = NoFrame]
         /\ seen' = IF new THEN [seen EXCEPT ![n][f.from] = f.id] ELSE seen
         /\ got' = IF new THEN [got EXCEPT ![n] = Append(@,
                      [from |-> f.from, msg |-> f.msg, boot |-> boots[n]])] ELSE got
  /\ UNCHANGED <<last, call, boots, sends, acked>>

-----------------------------------------------------------------------------
\* Power fails: the objects are static, their memory is zero after a reset.
Restart(n) ==
  /\ boots[n] = 0
  /\ Cardinality({m \in Nodes : boots[m] > 0}) < MaxRestarts
  /\ boots' = [boots EXCEPT ![n] = @ + 1]
  /\ rx' = [rx EXCEPT ![n] = NoFrame]
  /\ last' = [last EXCEPT ![n] = 0]
  /\ seen' = [seen EXCEPT ![n] = [m \in Nodes |-> 0]]
  /\ call' = [call EXCEPT ![n] = NotSending]
  /\ UNCHANGED <<sends, acked, got>>

Next ==
  \E n \in Nodes :
    \/ \E to \in (Nodes \ {n}) \cup {Broadcast} : SendtoWait(n, to)
    \/ Send(n) \/ Fail(n) \/ Wait(n) \/ Timeout(n)
    \/ RecvfromAck(n)
    \/ Restart(n)

Spec == Init /\ [][Next]_vars

\* The loop of sendtoWait runs, and its timeouts expire.
FairSpec ==
  Spec /\ \A n \in Nodes : WF_vars(Send(n) \/ Fail(n) \/ Timeout(n)) /\ WF_vars(Wait(n))

-----------------------------------------------------------------------------
Numbers(n, m) == {got[n][i].msg.num : i \in {j \in DOMAIN got[n] : got[n][j].msg.from = m}}

\* sendtoWait returns true only for a message that the receiver's application
\* gets, until ids are used a second time or 0 is used (the receiver may take the
\* message for one it has seen, the sender an acknowledgement that lay unread in
\* its driver for the one it waits for), one of them restarts, or the receiver's
\* single buffer holds something else by then.
AckedIsReceived ==
  \A m \in acked :
    \/ m.num \in Numbers(m.to, m.from)
    \/ boots[m.from] + boots[m.to] > 0 \/ m.to \in SharedBuf
    \/ m.num >= Mod

\* However often a message and its acknowledgement are lost, the application of
\* a node that has not restarted meanwhile gets a sender's messages at most once
\* and in the order they were sent.
OnceInOrder ==
  \A n \in Nodes : \A i, j \in DOMAIN got[n] :
    (i < j /\ got[n][i].msg.from = got[n][j].msg.from /\ got[n][i].boot = got[n][j].boot)
      => got[n][i].msg.num < got[n][j].msg.num

\* What recvfromAck returns as a message of another node is what that node sent;
\* where the driver has a single buffer it may be a broadcast of the node itself
\* instead, sent while the message waited to be read, but nothing else.
Genuine ==
  \A n \in Nodes : \A i \in DOMAIN got[n] :
    \/ got[n][i].msg.from = got[n][i].from /\ got[n][i].msg.to \in {n, Broadcast}
    \/ n \in SharedBuf /\ got[n][i].msg.from = n /\ got[n][i].msg.to = Broadcast

\* sendtoWait returns, whatever is lost, whoever restarts or keeps transmitting.
SendReturns == \A n \in Nodes : call[n] # NotSending ~> call[n] = NotSending
=============================================================================
