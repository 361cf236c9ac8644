--------------------------- MODULE RadioHeadProofs ---------------------------
(***************************************************************************)
(* Proofs about RadioHead.                                                 *)
(*                                                                         *)
(* ReliableDatagram, for any nodes, ids, retries, restarts and drivers:    *)
(* messages reach an application at most once and in order, are what was   *)
(* sent, and those acknowledged have arrived.                              *)
(*                                                                         *)
(* The five drivers, for any length and number of messages and frames:     *)
(* what goes over the air is one message, and what recv returns is one     *)
(* frame.  Each driver has an inductive invariant, about what its buffer   *)
(* and its chip's FIFO hold at each step of the program, and next to it    *)
(* the lemmas that the driver's Init and Next keep it.                     *)
(***************************************************************************)
EXTENDS ReliableDatagram, MCDrivers, SequenceTheorems, WellFoundedInduction, TLAPS

-----------------------------------------------------------------------------
(* ReliableDatagram: what is in its state *)

Ids == 0 .. (Mod - 1)
SentMessages == [from : Nodes, to : Nodes \cup {Broadcast}, num : Nat \ {0}, boot : Nat]
DataFrames == [type : {"data"}, from : Nodes, to : Nodes \cup {Broadcast}, id : Ids,
               msg : SentMessages]
AckFrames == [type : {"ack"}, from : Nodes, to : Nodes, id : Ids]
Calls == [pc : {"send", "wait"}, id : Ids, retries : Nat, msg : SentMessages]
Received == [from : Nodes, msg : SentMessages, boot : Nat]

TypeOK ==
  /\ rx \in [Nodes -> {NoFrame} \cup DataFrames \cup AckFrames]
  /\ last \in [Nodes -> Ids]
  /\ seen \in [Nodes -> [Nodes -> Ids]]
  /\ call \in [Nodes -> {NotSending} \cup Calls]
  /\ boots \in [Nodes -> Nat]
  /\ sends \in [Nodes -> Nat]
  /\ acked \subseteq SentMessages
  /\ got \in [Nodes -> Seq(Received)]

Calling(n) == call[n] # NotSending
HoldsData(n) == rx[n].type = "data"

\* A node sends its latest message, and not to itself; it waits for no broadcast.
LatestSent ==
  \A n \in Nodes : Calling(n) =>
    /\ call[n].msg.from = n /\ call[n].msg.to # n
    /\ call[n].msg.num = sends[n]
    /\ call[n].pc = "wait" => call[n].msg.to # Broadcast

\* A driver holds frames for its node, of others.
Addressed ==
  \A n \in Nodes : rx[n] # NoFrame => rx[n].from # n /\ rx[n].to \in {n, Broadcast}

\* Data a driver holds is what its sender sent, or what the node itself has written
\* over it: a broadcast, or the message it waits for an acknowledgement of.
DataGenuine ==
  \A n \in Nodes : HoldsData(n) =>
    /\ rx[n].msg.num <= sends[rx[n].msg.from]
    /\ \/ rx[n].msg.from = rx[n].from /\ rx[n].msg.to = rx[n].to
       \/ /\ n \in SharedBuf /\ rx[n].msg.from = n
          /\ rx[n].msg.to = Broadcast \/ call[n].pc = "wait"

\* A frame with the message its sender is still sending has the id of that.
SameId ==
  \A n \in Nodes : HoldsData(n) =>
    LET m == rx[n].from
    IN  (rx[n].msg.from = m /\ Calling(m) /\ rx[n].msg.num = call[m].msg.num)
          => rx[n].id = call[m].id

\* What n was given, entry e, is of a message sent, and of no later boot.
EntryOf(n, e) ==
  /\ e.from # n /\ e.boot <= boots[n] /\ e.msg.num <= sends[e.msg.from]
  /\ \/ e.msg.from = e.from /\ e.msg.to \in {n, Broadcast}
     \/ n \in SharedBuf /\ e.msg.from = n /\ e.msg.to = Broadcast

\* Nothing that n's driver holds is older than e; if it is the same message its id
\* is the one n has seen.
HeldIsNewer(n, e) ==
  (HoldsData(n) /\ rx[n].msg.from = e.msg.from) =>
    /\ e.msg.num <= rx[n].msg.num
    /\ e.msg.num = rx[n].msg.num =>
         e.msg.from # n /\ rx[n].id = seen[n][e.msg.from]

\* If e's message is still being sent, n has seen its id and holds no frame of
\* its sender with another one.
SentIsSeen(n, e) ==
  LET m == e.msg.from
  IN  (Calling(m) /\ e.msg.num = call[m].msg.num) =>
        /\ m # n /\ call[m].id = seen[n][m]
        /\ HoldsData(n) /\ rx[n].from = m => rx[n].id = call[m].id

Given ==
  \A n \in Nodes : \A i \in DOMAIN got[n] :
    LET e == got[n][i]
    IN  /\ EntryOf(n, e)
        /\ e.boot = boots[n] => HeldIsNewer(n, e) /\ SentIsSeen(n, e)

\* The inductive invariant for OnceInOrder and Genuine.
OrderInv ==
  /\ TypeOK /\ LatestSent /\ Addressed /\ DataGenuine /\ SameId /\ Given
  /\ OnceInOrder

-----------------------------------------------------------------------------
\* n and p have not restarted, p's driver has two buffers and n has not run out of
\* ids: for n's messages to p ids are numbers.
Plain(n, p) ==
  n # p /\ boots[n] = 0 /\ boots[p] = 0 /\ p \notin SharedBuf /\ sends[n] < Mod

IdIsNumber(n, p) ==
  /\ last[n] = sends[n]
  /\ Calling(n) => call[n].id = call[n].msg.num
  /\ HoldsData(p) /\ rx[p].from = n => rx[p].id = rx[p].msg.num
  /\ seen[p][n] = 0 \/ seen[p][n] \in Numbers(p, n)
  /\ rx[n].type = "ack" /\ rx[n].from = p => rx[n].id \in Numbers(p, n)

\* The inductive invariant for AckedIsReceived, beside OrderInv.
AckInv ==
  /\ \A n, p \in Nodes : Plain(n, p) => IdIsNumber(n, p)
  /\ AckedIsReceived

-----------------------------------------------------------------------------
\* Whatever n transmits, another driver keeps its frame or, when it has none, may
\* take the one that is sent.
LEMMA TransmitEffect ==
  ASSUME TypeOK, NEW n \in Nodes, NEW f, NEW mine, Transmit(n, f, mine)
  PROVE  /\ rx' = [m \in Nodes |-> rx'[m]]
         /\ rx'[n] = mine
         /\ \A m \in Nodes \ {n} :
              rx'[m] = rx[m] \/ (rx[m] = NoFrame /\ rx'[m] = f /\ f.to \in {m, Broadcast})
BY DEF Transmit, TypeOK

\* A driver that is read is empty, and another may have got an acknowledgement
\* of the data that was in it.
Read(n) ==
  /\ rx' = [m \in Nodes |-> rx'[m]]
  /\ rx'[n] = NoFrame
  /\ \A m \in Nodes \ {n} :
       \/ rx'[m] = rx[m]
       \/ rx[m] = NoFrame /\ HoldsData(n) /\ m = rx[n].from /\ rx'[m] = Ack(n, rx[n])

LEMMA AckReads ==
  ASSUME TypeOK, Addressed, NEW n \in Nodes, rx[n] # NoFrame, HoldsData(n),
         Transmit(n, Ack(n, rx[n]), NoFrame)
  PROVE  Read(n)
<1>1. rx[n] \in DataFrames /\ rx[n].from \in Nodes
  BY DEF TypeOK, HoldsData, NoFrame, AckFrames, DataFrames
<1>2. Ack(n, rx[n]).to = rx[n].from /\ rx[n].from # Broadcast
  BY <1>1, ReliableAssumption DEF Ack
<1>. QED
  BY <1>1, <1>2, TransmitEffect, ReliableAssumption DEF Read

LEMMA DropReads ==
  ASSUME TypeOK, NEW n \in Nodes, rx' = [rx EXCEPT ![n] = NoFrame]
  PROVE  Read(n)
BY DEF Read, TypeOK

LEMMA ReadingStep ==
  ASSUME TypeOK, Addressed, NEW n \in Nodes, Wait(n) \/ RecvfromAck(n)
  PROVE  Read(n) /\ rx[n] # NoFrame
BY AckReads, DropReads DEF Wait, RecvfromAck, AckAgain, HoldsData

\* What a step that reads leaves in the drivers is well formed, and no data is new.
LEMMA ReadFrames ==
  ASSUME TypeOK, Addressed, NEW n \in Nodes, Read(n)
  PROVE  /\ rx' \in [Nodes -> {NoFrame} \cup DataFrames \cup AckFrames]
         /\ Addressed'
         /\ \A m \in Nodes : HoldsData(m)' => HoldsData(m) /\ m # n /\ rx'[m] = rx[m]
<1>1. HoldsData(n) => /\ Ack(n, rx[n]) \in AckFrames
                      /\ Ack(n, rx[n]).from = n /\ Ack(n, rx[n]).to = rx[n].from
                      /\ rx[n].from # n
  BY DEF HoldsData, TypeOK, NoFrame, AckFrames, DataFrames, Ack, Addressed
<1>2. rx' \in [Nodes -> {NoFrame} \cup DataFrames \cup AckFrames]
  BY <1>1 DEF Read, TypeOK
<1>3. Addressed'
  BY <1>1 DEF Read, Addressed
<1>4. \A m \in Nodes : HoldsData(m)' => HoldsData(m) /\ m # n /\ rx'[m] = rx[m]
  BY <1>1 DEF Read, HoldsData, NoFrame, AckFrames
<1>. QED
  BY <1>2, <1>3, <1>4

-----------------------------------------------------------------------------
(* Messages once and in order, and what was sent.                         *)

LEMMA InitOrder == Init => OrderInv
<1>. SUFFICES ASSUME Init PROVE OrderInv
  OBVIOUS
<1>1. 0 \in Ids
  BY ReliableAssumption DEF Ids
<1>2. TypeOK
  BY <1>1 DEF Init, TypeOK
<1>3. LatestSent /\ Addressed /\ DataGenuine /\ SameId
  BY DEF Init, LatestSent, Addressed, DataGenuine, SameId, Calling, HoldsData, NoFrame
<1>4. Given /\ OnceInOrder
  BY DEF Init, Given, OnceInOrder
<1>. QED
  BY <1>2, <1>3, <1>4 DEF OrderInv

\* The types of what n was given, and of data that n holds.
LEMMA EntryType ==
  ASSUME TypeOK, NEW n \in Nodes, NEW i \in DOMAIN got[n]
  PROVE  /\ got[n][i] \in Received
         /\ got[n][i].from \in Nodes /\ got[n][i].boot \in Nat
         /\ got[n][i].msg \in SentMessages
         /\ got[n][i].msg.from \in Nodes /\ got[n][i].msg.num \in Nat \ {0}
<1>1. got[n][i] \in Received
  BY DEF TypeOK
<1>. QED
  BY <1>1 DEF Received, SentMessages

LEMMA DataType ==
  ASSUME TypeOK, NEW n \in Nodes, HoldsData(n)
  PROVE  /\ rx[n] \in DataFrames /\ rx[n] # NoFrame
         /\ rx[n].from \in Nodes /\ rx[n].id \in Ids /\ rx[n].msg \in SentMessages
         /\ rx[n].msg.from \in Nodes /\ rx[n].msg.num \in Nat \ {0}
<1>1. rx[n] \in DataFrames /\ rx[n] # NoFrame
  BY DEF HoldsData, TypeOK, DataFrames, AckFrames, NoFrame
<1>. QED
  BY <1>1 DEF DataFrames, SentMessages

LEMMA NextIdType ==
  ASSUME TypeOK, NEW n \in Nodes
  PROVE  NextId(n) \in Ids
BY ReliableAssumption DEF TypeOK, NextId, Ids

\* What n was given stays right while got, boots and seen stay, the numbers sent do
\* not fall, and what is held and sent is right for it.
LEMMA GivenKept ==
  ASSUME TypeOK, Given, OnceInOrder, UNCHANGED <<got, boots, seen>>,
         \A m \in Nodes : sends'[m] \in Nat /\ sends[m] <= sends'[m],
         \A n \in Nodes : \A i \in DOMAIN got[n] :
           LET e == got[n][i]
           IN  (e.boot = boots[n] /\ EntryOf(n, e) /\ HeldIsNewer(n, e) /\ SentIsSeen(n, e))
                 => HeldIsNewer(n, e)' /\ SentIsSeen(n, e)'
  PROVE  Given' /\ OnceInOrder'
<1>1. OnceInOrder'
  BY DEF OnceInOrder
<1>2. ASSUME NEW n \in Nodes, NEW i \in DOMAIN got[n]
      PROVE  LET e == got[n][i]
             IN  EntryOf(n, e)' /\ (e.boot = boots[n] => HeldIsNewer(n, e)' /\ SentIsSeen(n, e)')
  <2>. DEFINE e == got[n][i]
  <2>2. e.msg.from \in Nodes /\ e.msg.num \in Nat /\ sends[e.msg.from] \in Nat
    BY EntryType DEF TypeOK
  <2>3. EntryOf(n, e) /\ (e.boot = boots[n] => HeldIsNewer(n, e) /\ SentIsSeen(n, e))
    BY DEF Given
  <2>4. EntryOf(n, e)'
    BY <2>2, <2>3 DEF EntryOf
  <2>. QED
    BY <2>3, <2>4
<1>. QED
  BY <1>1, <1>2 DEF Given

\* A call begins: its number is above every number sent before.
LEMMA SendtoWaitOrder ==
  ASSUME OrderInv, NEW n \in Nodes, NEW to \in (Nodes \ {n}) \cup {Broadcast},
         SendtoWait(n, to)
  PROVE  OrderInv'
<1>. USE DEF OrderInv
<1>. DEFINE c == [pc |-> "send", id |-> NextId(n), retries |-> 0,
                  msg |-> [from |-> n, to |-> to, num |-> sends[n] + 1, boot |-> boots[n]]]
<1>1. /\ call[n] = NotSending
      /\ last' = [last EXCEPT ![n] = NextId(n)]
      /\ sends' = [sends EXCEPT ![n] = @ + 1]
      /\ call' = [call EXCEPT ![n] = c]
      /\ UNCHANGED <<rx, seen, boots, acked, got>>
  BY DEF SendtoWait
<1>2. c \in Calls /\ c.msg.from = n /\ c.msg.to # n /\ c.msg.num = sends[n] + 1 /\ c.pc = "send"
  BY NextIdType, ReliableAssumption DEF Calls, SentMessages, TypeOK
<1>3. sends[n] \in Nat /\ sends[n] < sends'[n] /\ \A m \in Nodes : sends'[m] \in Nat /\ sends[m] <= sends'[m]
  BY <1>1 DEF TypeOK
<1>. HIDE DEF c
<1>4. TypeOK'
  BY <1>1, <1>2, <1>3, NextIdType DEF TypeOK
<1>5. LatestSent'
  BY <1>1, <1>2 DEF LatestSent, Calling, TypeOK
<1>6. Addressed'
  BY <1>1 DEF Addressed
<1>7. \A m \in Nodes : HoldsData(m) => /\ rx[m].from \in Nodes /\ rx[m].msg.from \in Nodes
                                        /\ rx[m].msg.num \in Nat
  BY DataType
<1>8. DataGenuine'
  BY <1>1, <1>3, <1>7, SMTT(40) DEF DataGenuine, HoldsData, NotSending, TypeOK
<1>9. SameId'
  <2>1. ASSUME NEW m \in Nodes, HoldsData(m), rx[m].msg.from = n
        PROVE  rx[m].msg.num # call'[n].msg.num
    <3>1. rx[m].msg.num <= sends[n] /\ rx[m].msg.num \in Nat
      BY <2>1, <1>7 DEF DataGenuine
    <3>2. call'[n].msg.num = sends[n] + 1
      BY <1>1, <1>2 DEF TypeOK
    <3>. QED
      BY <3>1, <3>2, <1>3
  <2>. QED
    BY <1>1, <1>7, <2>1 DEF SameId, HoldsData, Calling, TypeOK
<1>10. ASSUME NEW m \in Nodes, NEW i \in DOMAIN got[m],
              EntryOf(m, got[m][i]), HeldIsNewer(m, got[m][i]), SentIsSeen(m, got[m][i])
       PROVE  HeldIsNewer(m, got[m][i])' /\ SentIsSeen(m, got[m][i])'
  <2>. DEFINE e == got[m][i]
  <2>1. e.msg.from \in Nodes /\ e.msg.num \in Nat
    BY EntryType
  <2>2. HeldIsNewer(m, e)'
    BY <1>1, <1>10 DEF HeldIsNewer, HoldsData
  <2>3. SentIsSeen(m, e)'
    BY <1>1, <1>2, <1>3, <1>10, <2>1 DEF SentIsSeen, HoldsData, Calling, EntryOf, TypeOK
  <2>. QED
    BY <2>2, <2>3, <1>1
<1>11. Given' /\ OnceInOrder'
  BY <1>1, <1>3, <1>10, GivenKept
<1>. QED
  BY <1>4, <1>5, <1>6, <1>8, <1>9, <1>11

\* Data is only lost and calls only end.
Lessens ==
  /\ \A m \in Nodes : HoldsData(m)' => HoldsData(m) /\ rx'[m] = rx[m]
  /\ \A m \in Nodes :
       Calling(m)' => /\ Calling(m)
                      /\ call'[m].msg = call[m].msg /\ call'[m].id = call[m].id

LEMMA LessKept ==
  ASSUME TypeOK, SameId, Given, OnceInOrder, Lessens, UNCHANGED <<seen, boots, sends, got>>
  PROVE  SameId' /\ Given' /\ OnceInOrder'
<1>1. SameId'
  <2>. SUFFICES ASSUME NEW n \in Nodes, HoldsData(n)',
                       rx'[n].msg.from = rx'[n].from, call'[rx'[n].from] # NotSending,
                       rx'[n].msg.num = call'[rx'[n].from].msg.num
                PROVE  rx'[n].id = call'[rx'[n].from].id
    BY DEF SameId, Calling
  <2>1. HoldsData(n) /\ rx'[n] = rx[n] /\ rx[n].from \in Nodes
    BY DataType DEF Lessens
  <2>. QED
    BY <2>1 DEF Lessens, SameId, Calling
<1>2. ASSUME NEW m \in Nodes, NEW i \in DOMAIN got[m],
             HeldIsNewer(m, got[m][i]), SentIsSeen(m, got[m][i])
      PROVE  HeldIsNewer(m, got[m][i])' /\ SentIsSeen(m, got[m][i])'
  <2>. DEFINE e == got[m][i]
  <2>1. e.msg.from \in Nodes
    BY EntryType
  <2>2. got'[m][i] = e
    OBVIOUS
  <2>. HIDE DEF e
  <2>3. HeldIsNewer(m, e)'
    BY <1>2, <2>2 DEF HeldIsNewer, Lessens, e
  <2>4. SentIsSeen(m, e)'
    BY <1>2, <2>1, <2>2 DEF SentIsSeen, Lessens, e
  <2>. QED
    BY <2>3, <2>4 DEF e
<1>3. \A m \in Nodes : sends'[m] \in Nat /\ sends[m] <= sends'[m]
  BY DEF TypeOK
<1>. QED
  BY <1>1, <1>2, <1>3, GivenKept

\* The retries are exhausted.
LEMMA FailOrder ==
  ASSUME OrderInv, NEW n \in Nodes, Fail(n)
  PROVE  OrderInv'
<1>. USE DEF OrderInv
<1>1. TypeOK' /\ LatestSent' /\ Addressed'
  BY DEF Fail, TypeOK, LatestSent, Addressed, Calling
<1>2. DataGenuine'
  BY DEF Fail, DataGenuine, HoldsData, TypeOK
<1>3. Lessens
  BY DEF Fail, Lessens, HoldsData, Calling, TypeOK
<1>4. UNCHANGED <<seen, boots, sends, got>>
  BY DEF Fail
<1>. QED
  BY <1>1, <1>2, <1>3, <1>4, LessKept

\* The timeout has passed.
LEMMA TimeoutOrder ==
  ASSUME OrderInv, NEW n \in Nodes, Timeout(n)
  PROVE  OrderInv'
<1>. USE DEF OrderInv
<1>1. call[n] \in Calls /\ Calling(n)
  BY DEF Timeout, TypeOK, NotSending, Calling
<1>2. /\ call' = [call EXCEPT ![n] = [call[n] EXCEPT !.pc = "send"]]
      /\ [call[n] EXCEPT !.pc = "send"] \in Calls
      /\ UNCHANGED <<rx, last, seen, boots, sends, acked, got>>
  BY <1>1 DEF Timeout, Calls
<1>3. TypeOK' /\ Addressed'
  BY <1>2 DEF TypeOK, Addressed
<1>4. /\ call'[n].msg = call[n].msg /\ call'[n].id = call[n].id /\ call'[n].pc = "send"
      /\ \A m \in Nodes \ {n} : call'[m] = call[m]
  BY <1>1, <1>2 DEF TypeOK, Calls
<1>5. Lessens
  BY <1>1, <1>2, <1>4 DEF Lessens, HoldsData, Calling
<1>6. LatestSent'
  BY <1>1, <1>2, <1>4 DEF LatestSent, Calling
<1>7. DataGenuine'
  <2>. SUFFICES ASSUME NEW m \in Nodes, HoldsData(m)
                PROVE  \/ rx[m].msg.from = rx[m].from /\ rx[m].msg.to = rx[m].to
                       \/ /\ m \in SharedBuf /\ rx[m].msg.from = m
                          /\ rx[m].msg.to = Broadcast \/ call'[m].pc = "wait"
    BY <1>2 DEF DataGenuine, HoldsData
  <2>1. CASE m = n
    BY <2>1 DEF Timeout, DataGenuine, HoldsData
  <2>2. CASE m # n
    BY <2>2, <1>4 DEF DataGenuine
  <2>. QED
    BY <2>1, <2>2
<1>. QED
  BY <1>2, <1>3, <1>5, <1>6, <1>7, LessKept

\* A frame is read while waiting.
LEMMA WaitOrder ==
  ASSUME OrderInv, NEW n \in Nodes, Wait(n)
  PROVE  OrderInv'
<1>. USE DEF OrderInv
<1>1. call[n] \in Calls /\ Calling(n) /\ call[n].msg \in SentMessages
  BY DEF Wait, TypeOK, NotSending, Calling, Calls
<1>2. /\ Read(n)
      /\ call' = [call EXCEPT ![n] = NotSending] \/ call' = call
      /\ acked' = acked \cup {call[n].msg} \/ acked' = acked
      /\ UNCHANGED <<last, seen, boots, sends, got>>
  BY ReadingStep DEF Wait
<1>3. TypeOK' /\ Addressed'
  BY <1>1, <1>2, ReadFrames DEF TypeOK
<1>4. Lessens
  BY <1>2, ReadFrames DEF Lessens, Calling, TypeOK
<1>5. LatestSent'
  BY <1>2 DEF LatestSent, Calling, TypeOK
<1>6. \A m \in Nodes : HoldsData(m)' => m # n /\ HoldsData(m) /\ rx'[m] = rx[m] /\ call'[m] = call[m]
  BY <1>2, ReadFrames DEF TypeOK
<1>7. DataGenuine'
  BY <1>2, <1>6 DEF DataGenuine
<1>. QED
  BY <1>2, <1>3, <1>4, <1>5, <1>7, LessKept

\* A call that has transmitted waits for the acknowledgement of the same message.
LEMMA WaitingCall ==
  ASSUME NEW c \in Calls, NEW r \in Nat
  PROVE  LET d == [c EXCEPT !.pc = "wait", !.retries = r]
         IN  d \in Calls /\ d.msg = c.msg /\ d.id = c.id /\ d.pc = "wait"
BY DEF Calls

\* A message is transmitted, the first time or again; what the node itself has
\* not read yet may be overwritten by it.
LEMMA SendOrder ==
  ASSUME OrderInv, NEW n \in Nodes, Send(n)
  PROVE  OrderInv'
<1>. USE DEF OrderInv
<1>. DEFINE c == call[n]
            f == [type |-> "data", from |-> n, to |-> c.msg.to, id |-> c.id, msg |-> c.msg]
            ended == [c EXCEPT !.pc = "wait", !.retries = Tried(@)]
<1>1. /\ c \in Calls /\ Calling(n) /\ c.pc = "send" /\ c.id \in Ids /\ c.msg \in SentMessages
      /\ c.msg.from = n /\ c.msg.to # n /\ c.msg.num = sends[n]
      /\ c.msg.to \in Nodes \cup {Broadcast}
  BY DEF Send, TypeOK, NotSending, Calling, Calls, SentMessages, LatestSent
<1>2. /\ Transmit(n, f, Unread(n, c.msg))
      /\ call' = [call EXCEPT ![n] = IF c.msg.to = Broadcast THEN NotSending ELSE ended]
      /\ UNCHANGED <<last, seen, boots, sends, acked, got>>
  BY DEF Send
<1>3. f \in DataFrames
  BY <1>1 DEF DataFrames
<1>4. ended \in Calls /\ ended.msg = c.msg /\ ended.id = c.id /\ ended.pc = "wait"
  <2>1. Tried(c.retries) \in Nat
    BY <1>1 DEF Calls, Tried
  <2>. QED
    BY <1>1, <2>1, WaitingCall
<1>5. /\ f.type = "data" /\ f.from = n /\ f.to = c.msg.to /\ f.id = c.id /\ f.msg = c.msg
  OBVIOUS
<1>. HIDE DEF f, ended
<1>6. /\ rx' = [m \in Nodes |-> rx'[m]]
      /\ rx'[n] = Unread(n, c.msg)
      /\ \A m \in Nodes \ {n} :
           rx'[m] = rx[m] \/ (rx'[m] = f /\ c.msg.to \in {m, Broadcast})
  BY <1>2, <1>5, TransmitEffect
<1>7. \/ rx'[n] = rx[n]
      \/ /\ n \in SharedBuf /\ HoldsData(n) /\ rx'[n] \in DataFrames
         /\ rx'[n].type = "data" /\ rx'[n].from = rx[n].from /\ rx'[n].to = rx[n].to
         /\ rx'[n].id = rx[n].id /\ rx'[n].msg = c.msg
  BY <1>1, <1>6, DataType DEF Unread, HoldsData, DataFrames
<1>8. TypeOK'
  <2>1. rx' \in [Nodes -> {NoFrame} \cup DataFrames \cup AckFrames]
    BY <1>3, <1>6, <1>7 DEF TypeOK
  <2>. QED
    BY <1>2, <1>4, <2>1 DEF TypeOK
<1>9. /\ \A m \in Nodes \ {n} : call'[m] = call[m]
      /\ call'[n] # NotSending => call'[n] = ended /\ c.msg.to # Broadcast
      /\ c.msg.to = Broadcast \/ call'[n] = ended
  BY <1>2 DEF TypeOK
<1>10. LatestSent'
  BY <1>1, <1>2, <1>4, <1>9 DEF LatestSent, Calling
<1>11. Addressed'
  <2>1. HoldsData(n) => rx[n] # NoFrame
    BY DataType
  <2>. QED
    BY <1>1, <1>5, <1>6, <1>7, <2>1 DEF Addressed
\* What each driver holds now.
<1>12. ASSUME NEW m \in Nodes, HoldsData(m)'
       PROVE  \/ rx'[m] = rx[m] /\ HoldsData(m)
              \/ m # n /\ rx'[m] = f
              \/ /\ m = n /\ n \in SharedBuf /\ HoldsData(n)
                 /\ rx'[n].from = rx[n].from /\ rx'[n].from # n
                 /\ rx'[n].id = rx[n].id /\ rx'[n].msg = c.msg
  BY <1>6, <1>7, <1>12, DataType DEF HoldsData, Addressed
<1>13. DataGenuine'
  <2>. SUFFICES ASSUME NEW m \in Nodes, HoldsData(m)'
                PROVE  /\ rx'[m].msg.num <= sends[rx'[m].msg.from]
                       /\ \/ rx'[m].msg.from = rx'[m].from /\ rx'[m].msg.to = rx'[m].to
                          \/ /\ m \in SharedBuf /\ rx'[m].msg.from = m
                             /\ rx'[m].msg.to = Broadcast \/ call'[m].pc = "wait"
    BY <1>2 DEF DataGenuine
  <2>1. sends[n] \in Nat
    BY DEF TypeOK
  <2>2. CASE rx'[m] = rx[m] /\ HoldsData(m)
    BY <1>1, <1>9, <2>2 DEF DataGenuine
  <2>3. CASE rx'[m] = f
    BY <1>1, <1>5, <2>1, <2>3
  <2>4. CASE m = n /\ n \in SharedBuf /\ rx'[n].msg = c.msg
    BY <1>1, <1>4, <1>9, <2>1, <2>4
  <2>. QED
    BY <1>12, <2>2, <2>3, <2>4
<1>14. \A k \in Nodes : Calling(k)' =>
         Calling(k) /\ call'[k].msg = call[k].msg /\ call'[k].id = call[k].id
  BY <1>1, <1>4, <1>9 DEF Calling
<1>15. SameId'
  <2>. SUFFICES ASSUME NEW m \in Nodes, HoldsData(m)', NEW k \in Nodes, k = rx'[m].from,
                       rx'[m].msg.from = k, Calling(k)', rx'[m].msg.num = call'[k].msg.num
                PROVE  rx'[m].id = call'[k].id
    <3>1. \A m \in Nodes : HoldsData(m)' => rx'[m].from \in Nodes
      BY <1>5, <1>12, DataType
    <3>. QED
      BY <3>1 DEF SameId, Calling
  <2>. QED
    BY <1>1, <1>5, <1>12, <1>14 DEF SameId
<1>16. ASSUME NEW m \in Nodes, NEW i \in DOMAIN got[m],
              EntryOf(m, got[m][i]), HeldIsNewer(m, got[m][i]), SentIsSeen(m, got[m][i])
       PROVE  HeldIsNewer(m, got[m][i])' /\ SentIsSeen(m, got[m][i])'
  <2>. DEFINE e == got[m][i]
  <2>1. e.msg.from \in Nodes /\ e.msg.num \in Nat /\ sends[n] \in Nat /\ got'[m][i] = e
    BY <1>2, EntryType DEF TypeOK
  <2>. HIDE DEF e
  <2>2. HeldIsNewer(m, e)'
    BY <1>1, <1>2, <1>5, <1>12, <1>16, <2>1 DEF HeldIsNewer, SentIsSeen, EntryOf, e
  <2>3. SentIsSeen(m, e)'
    BY <1>1, <1>2, <1>5, <1>12, <1>14, <1>16, <2>1 DEF SentIsSeen, e
  <2>. QED
    BY <2>1, <2>2, <2>3 DEF e
<1>17. \A m \in Nodes : sends'[m] \in Nat /\ sends[m] <= sends'[m]
  BY <1>2 DEF TypeOK
<1>18. Given' /\ OnceInOrder'
  BY <1>2, <1>16, <1>17, GivenKept
<1>. QED
  BY <1>8, <1>10, <1>11, <1>13, <1>15, <1>18

\* Given after a step, said of each entry by itself.
LEMMA GivenFrom ==
  ASSUME \A n \in Nodes : \A i \in DOMAIN got'[n] : \A x : x = got'[n][i] =>
           EntryOf(n, x)' /\ (x.boot = boots'[n] => HeldIsNewer(n, x)' /\ SentIsSeen(n, x)')
  PROVE  Given'
<1>. SUFFICES ASSUME NEW n \in Nodes, NEW i \in DOMAIN got'[n]
              PROVE  LET e == got[n][i]
                     IN  (EntryOf(n, e) /\ (e.boot = boots[n] => HeldIsNewer(n, e) /\ SentIsSeen(n, e)))'
  BY DEF Given
<1>1. PICK x : x = got'[n][i]
  OBVIOUS
<1>2. EntryOf(n, x)' /\ (x.boot = boots'[n] => HeldIsNewer(n, x)' /\ SentIsSeen(n, x)')
  BY <1>1
<1>. QED
  BY <1>1, <1>2 DEF EntryOf, HeldIsNewer, SentIsSeen

\* The application takes a frame; only data whose id it has not just seen is given
\* to it, and that is no older than anything it was given before.
LEMMA RecvfromAckOrder ==
  ASSUME OrderInv, NEW n \in Nodes, RecvfromAck(n)
  PROVE  OrderInv'
<1>. USE DEF OrderInv
<1>. DEFINE f == rx[n]
            new == f.type = "data" /\ IsNew(n, f)
            e0 == [from |-> f.from, msg |-> f.msg, boot |-> boots[n]]
<1>1. /\ Read(n) /\ rx'[n] = NoFrame /\ call[n] = NotSending
      /\ seen' = IF new THEN [seen EXCEPT ![n][f.from] = f.id] ELSE seen
      /\ got' = IF new THEN [got EXCEPT ![n] = Append(@, e0)] ELSE got
      /\ UNCHANGED <<last, call, boots, sends, acked>>
  BY ReadingStep DEF RecvfromAck, Read
<1>2. new => /\ HoldsData(n) /\ f.from \in Nodes /\ f.id \in Ids /\ f.msg \in SentMessages
             /\ f.msg.from \in Nodes /\ f.msg.num \in Nat
             /\ e0 \in Received /\ f.id # seen[n][f.from] /\ f.from # n
             /\ f.msg.num <= sends[f.msg.from]
             /\ f.to \in {n, Broadcast}
             /\ \/ f.msg.from = f.from /\ f.msg.to = f.to
                \/ n \in SharedBuf /\ f.msg.from = n /\ f.msg.to = Broadcast
  <2>. SUFFICES ASSUME new
                PROVE  /\ HoldsData(n) /\ f.from \in Nodes /\ f.id \in Ids /\ f.msg \in SentMessages
                       /\ f.msg.from \in Nodes /\ f.msg.num \in Nat
                       /\ e0 \in Received /\ f.id # seen[n][f.from] /\ f.from # n
                       /\ f.msg.num <= sends[f.msg.from]
                       /\ f.to \in {n, Broadcast}
                       /\ \/ f.msg.from = f.from /\ f.msg.to = f.to
                          \/ n \in SharedBuf /\ f.msg.from = n /\ f.msg.to = Broadcast
    OBVIOUS
  <2>1. HoldsData(n) /\ boots[n] \in Nat
    BY DEF HoldsData, TypeOK
  <2>2. /\ f # NoFrame /\ f.from \in Nodes /\ f.id \in Ids /\ f.msg \in SentMessages
        /\ f.msg.from \in Nodes /\ f.msg.num \in Nat
    BY <2>1, DataType
  <2>3. e0 \in Received
    BY <2>1, <2>2 DEF Received
  <2>4. f.id # seen[n][f.from]
    BY DEF IsNew
  <2>5. f.from # n /\ f.to \in {n, Broadcast}
    BY <2>2 DEF Addressed
  <2>6. call[n].pc # "wait"
    BY <1>1 DEF NotSending
  <2>. QED
    BY <2>1, <2>2, <2>3, <2>4, <2>5, <2>6 DEF DataGenuine
<1>3. TypeOK' /\ Addressed'
  <2>1. seen' \in [Nodes -> [Nodes -> Ids]]
    BY <1>1, <1>2 DEF TypeOK
  <2>2. got' \in [Nodes -> Seq(Received)]
    BY <1>1, <1>2 DEF TypeOK
  <2>. QED
    BY <1>1, <2>1, <2>2, ReadFrames DEF TypeOK
<1>4. Lessens
  BY <1>1, ReadFrames DEF Lessens, Calling
<1>5. LatestSent'
  BY <1>1 DEF LatestSent, Calling
<1>6. DataGenuine'
  <2>1. \A m \in Nodes : HoldsData(m)' => m # n /\ HoldsData(m) /\ rx'[m] = rx[m]
    BY <1>1, ReadFrames
  <2>. QED
    BY <1>1, <2>1 DEF DataGenuine
<1>7. CASE ~new
  BY <1>1, <1>3, <1>4, <1>5, <1>6, <1>7, LessKept
<1>8. CASE new
  <2>. HIDE DEF new
  <2>1. /\ \A m \in Nodes \ {n} : got'[m] = got[m]
        /\ got'[n] = Append(got[n], e0) /\ got[n] \in Seq(Received)
        /\ \A m \in Nodes \ {n} : seen'[m] = seen[m]
        /\ seen'[n][f.from] = f.id
        /\ \A k \in Nodes \ {f.from} : seen'[n][k] = seen[n][k]
    BY <1>1, <1>2, <1>8 DEF TypeOK
  <2>2. /\ Len(got'[n]) = Len(got[n]) + 1 /\ Len(got[n]) \in Nat
        /\ \A i \in 1 .. Len(got[n]) : got'[n][i] = got[n][i]
        /\ got'[n][Len(got[n]) + 1] = e0
    BY <1>2, <1>8, <2>1
  <2>3. DOMAIN got'[n] = 1 .. (Len(got[n]) + 1) /\ DOMAIN got[n] = 1 .. Len(got[n])
    BY <2>1, <2>2, <1>3 DEF TypeOK
  <2>4. SameId'
    <3>. SUFFICES ASSUME NEW m \in Nodes, HoldsData(m)'
                  PROVE  (rx'[m].msg.from = rx'[m].from /\ call'[rx'[m].from] # NotSending
                            /\ rx'[m].msg.num = call'[rx'[m].from].msg.num)
                           => rx'[m].id = call'[rx'[m].from].id
      BY DEF SameId, Calling
    <3>1. HoldsData(m) /\ rx'[m] = rx[m]
      BY <1>4 DEF Lessens
    <3>. QED
      BY <1>1, <3>1 DEF SameId, Calling
\* The new entry.
  <2>5. ASSUME NEW x, x = e0
        PROVE  EntryOf(n, x)' /\ HeldIsNewer(n, x)' /\ SentIsSeen(n, x)'
    <3>1. /\ x.from = f.from /\ x.msg = f.msg /\ x.boot = boots[n]
          /\ x.msg.from \in Nodes /\ x.msg.num \in Nat
      BY <1>2, <1>8, <2>5
    <3>2. EntryOf(n, x)'
      <4>1. boots[n] \in Nat
        BY DEF TypeOK
      <4>. QED
        BY <1>1, <1>2, <1>8, <3>1, <4>1 DEF EntryOf
    <3>3. rx'[n].type # "data"
      BY <1>1 DEF NoFrame
    <3>4. HeldIsNewer(n, x)'
      BY <3>3 DEF HeldIsNewer, HoldsData
    <3>5. SentIsSeen(n, x)'
      <4>. SUFFICES ASSUME call[x.msg.from] # NotSending, x.msg.num = call[x.msg.from].msg.num
                    PROVE  x.msg.from # n /\ call[x.msg.from].id = seen'[n][x.msg.from]
        BY <1>1, <3>3 DEF SentIsSeen, Calling, HoldsData
      <4>1. x.msg.from # n /\ f.msg.from = f.from
        BY <1>1, <1>2, <1>8, <3>1
      <4>2. f.id = call[f.from].id
        BY <1>2, <1>8, <3>1, <4>1 DEF SameId, Calling
      <4>. QED
        BY <2>1, <3>1, <4>1, <4>2
    <3>. QED
      BY <3>2, <3>4, <3>5
\* What was given before.
  <2>6. ASSUME NEW m \in Nodes, NEW i \in DOMAIN got[m], NEW x, x = got[m][i]
        PROVE  EntryOf(m, x)' /\ (x.boot = boots[m] => HeldIsNewer(m, x)' /\ SentIsSeen(m, x)')
    <3>1. /\ x.msg.from \in Nodes /\ EntryOf(m, x)
          /\ x.boot = boots[m] => HeldIsNewer(m, x) /\ SentIsSeen(m, x)
      BY <2>6, EntryType DEF Given
    <3>2. EntryOf(m, x)'
      BY <1>1, <3>1 DEF EntryOf
    <3>3. CASE m # n
      BY <1>1, <1>4, <2>1, <3>1, <3>2, <3>3 DEF HeldIsNewer, SentIsSeen, Lessens
    <3>4. CASE m = n
      <4>1. rx'[n].type # "data"
        BY <1>1 DEF NoFrame
      <4>2. HeldIsNewer(n, x)'
        BY <4>1 DEF HeldIsNewer, HoldsData
      <4>3. ASSUME x.boot = boots[n] PROVE SentIsSeen(n, x)'
        BY <1>1, <1>2, <1>8, <2>1, <3>1, <3>4, <4>1, <4>3
           DEF SentIsSeen, HoldsData, Calling
      <4>. QED
        BY <3>2, <3>4, <4>2, <4>3
    <3>. QED
      BY <3>3, <3>4
  <2>7. Given'
    <3>1. ASSUME NEW m \in Nodes, NEW i \in DOMAIN got'[m], NEW x, x = got'[m][i]
          PROVE  EntryOf(m, x)' /\ (x.boot = boots[m]' => HeldIsNewer(m, x)' /\ SentIsSeen(m, x)')
      <4>1. \/ i \in DOMAIN got[m] /\ got'[m][i] = got[m][i]
            \/ m = n /\ got'[m][i] = e0
        BY <2>1, <2>2, <2>3
      <4>. QED
        BY <1>1, <2>5, <2>6, <3>1, <4>1
    <3>. QED
      BY <3>1, GivenFrom
  <2>8. OnceInOrder'
    <3>. SUFFICES ASSUME NEW m \in Nodes, NEW i \in DOMAIN got'[m], NEW j \in DOMAIN got'[m],
                         i < j, got'[m][i].msg.from = got'[m][j].msg.from,
                         got'[m][i].boot = got'[m][j].boot
                  PROVE  got'[m][i].msg.num < got'[m][j].msg.num
      BY DEF OnceInOrder
    <3>1. CASE m # n
      BY <2>1, <3>1 DEF OnceInOrder
    <3>2. CASE m = n /\ j \in DOMAIN got[n]
      <4>1. i \in DOMAIN got[n]
        BY <2>2, <2>3, <3>2
      <4>. QED
        BY <2>2, <2>3, <3>2, <4>1 DEF OnceInOrder
    <3>3. CASE m = n /\ j = Len(got[n]) + 1
      <4>. DEFINE e == got[n][i]
      <4>1. i \in DOMAIN got[n] /\ got'[n][i] = e /\ got'[n][j] = e0
        BY <2>2, <2>3, <3>3
      <4>2. e.msg.from = f.msg.from /\ e.boot = boots[n] /\ e.msg.num \in Nat
        BY <3>3, <4>1, EntryType
      <4>3. HeldIsNewer(n, e)
        BY <4>1, <4>2 DEF Given
      <4>. QED
        BY <1>2, <1>8, <3>3, <4>1, <4>2, <4>3 DEF HeldIsNewer
    <3>. QED
      BY <2>3, <3>1, <3>2, <3>3
  <2>. QED
    BY <1>3, <1>5, <1>6, <2>4, <2>7, <2>8
<1>. QED
  BY <1>7, <1>8

\* A restarted node forgets what it has seen, and so begins a new boot; it keeps no
\* frame and no call.
LEMMA RestartOrder ==
  ASSUME OrderInv, NEW n \in Nodes, Restart(n)
  PROVE  OrderInv'
<1>. USE DEF OrderInv
<1>1. /\ boots' = [boots EXCEPT ![n] = @ + 1]
      /\ rx' = [rx EXCEPT ![n] = NoFrame]
      /\ last' = [last EXCEPT ![n] = 0]
      /\ seen' = [seen EXCEPT ![n] = [m \in Nodes |-> 0]]
      /\ call' = [call EXCEPT ![n] = NotSending]
      /\ UNCHANGED <<sends, acked, got>>
  BY DEF Restart
<1>2. 0 \in Ids
  BY ReliableAssumption DEF Ids
<1>3. TypeOK'
  BY <1>1, <1>2 DEF TypeOK
<1>4. LatestSent' /\ Addressed'
  BY <1>1 DEF LatestSent, Addressed, Calling, TypeOK
<1>5. Lessens
  BY <1>1 DEF Lessens, HoldsData, Calling, TypeOK, NoFrame
<1>6. \A m \in Nodes : HoldsData(m)' => HoldsData(m) /\ rx'[m] = rx[m] /\ m # n
  BY <1>1 DEF HoldsData, TypeOK, NoFrame
<1>7. DataGenuine'
  BY <1>1, <1>6 DEF DataGenuine, TypeOK
<1>8. SameId'
  <2>. SUFFICES ASSUME NEW m \in Nodes, HoldsData(m)'
                PROVE  (rx'[m].msg.from = rx'[m].from /\ call'[rx'[m].from] # NotSending
                          /\ rx'[m].msg.num = call'[rx'[m].from].msg.num)
                         => rx'[m].id = call'[rx'[m].from].id
    BY DEF SameId, Calling
  <2>1. HoldsData(m) /\ rx'[m] = rx[m] /\ rx[m].from \in Nodes
    BY <1>6, DataType
  <2>. QED
    BY <1>5, <2>1 DEF Lessens, SameId, Calling
<1>9. ASSUME NEW m \in Nodes, NEW i \in DOMAIN got'[m], NEW x, x = got'[m][i]
      PROVE  EntryOf(m, x)' /\ (x.boot = boots'[m] => HeldIsNewer(m, x)' /\ SentIsSeen(m, x)')
  <2>1. /\ i \in DOMAIN got[m] /\ x = got[m][i]
        /\ x.msg.from \in Nodes /\ x.boot \in Nat
    BY <1>1, <1>9, EntryType
  <2>2. /\ EntryOf(m, x)
        /\ x.boot = boots[m] => HeldIsNewer(m, x) /\ SentIsSeen(m, x)
    BY <2>1 DEF Given
  <2>3. boots[m] \in Nat /\ boots'[m] = IF m = n THEN boots[m] + 1 ELSE boots[m]
    BY <1>1 DEF TypeOK
  <2>4. EntryOf(m, x)'
    BY <1>1, <2>1, <2>2, <2>3 DEF EntryOf
  <2>5. ASSUME x.boot = boots'[m] PROVE HeldIsNewer(m, x)' /\ SentIsSeen(m, x)'
    <3>1. m # n
      BY <2>1, <2>2, <2>3, <2>5 DEF EntryOf
    <3>2. seen'[m] = seen[m] /\ HeldIsNewer(m, x) /\ SentIsSeen(m, x)
      BY <1>1, <2>2, <2>3, <2>5, <3>1 DEF TypeOK
    <3>. QED
      BY <1>5, <2>1, <3>1, <3>2 DEF HeldIsNewer, SentIsSeen, Lessens
  <2>. QED
    BY <2>4, <2>5
<1>10. Given' /\ OnceInOrder'
  BY <1>1, <1>9, GivenFrom DEF OnceInOrder
<1>. QED
  BY <1>3, <1>4, <1>7, <1>8, <1>10

LEMMA NextOrder == OrderInv /\ [Next]_vars => OrderInv'
<1>. SUFFICES ASSUME OrderInv, [Next]_vars PROVE OrderInv'
  OBVIOUS
<1>1. CASE Next
  BY <1>1, SendtoWaitOrder, SendOrder, FailOrder, WaitOrder, TimeoutOrder, RecvfromAckOrder,
     RestartOrder DEF Next
<1>2. CASE UNCHANGED vars
  <2>. USE DEF OrderInv
  <2>1. TypeOK' /\ LatestSent' /\ Addressed' /\ DataGenuine'
    BY <1>2 DEF vars, TypeOK, LatestSent, Addressed, DataGenuine, Calling, HoldsData
  <2>2. Lessens /\ UNCHANGED <<seen, boots, sends, got>>
    BY <1>2 DEF vars, Lessens, HoldsData, Calling
  <2>. QED
    BY <2>1, <2>2, LessKept
<1>. QED
  BY <1>1, <1>2

LEMMA OrderInvariant == Spec => []OrderInv
BY InitOrder, NextOrder, PTL DEF Spec

\* What is held, sent and seen has its type, whatever is lost and whoever restarts:
\* ids keep within their bits (RHReliableDatagram.cpp).
THEOREM TypeCorrect == Spec => []TypeOK
<1>1. OrderInv => TypeOK
  BY DEF OrderInv
<1>. QED
  BY <1>1, OrderInvariant, PTL

\* However often messages and acknowledgements are lost, an application that does
\* not restart gets each sender's messages at most once and in the order they were
\* sent (recvfromAck's test of _seenIds).
THEOREM InOrder == Spec => []OnceInOrder
<1>1. OrderInv => OnceInOrder
  BY DEF OrderInv
<1>. QED
  BY <1>1, OrderInvariant, PTL

\* What recvfromAck returns is what the named node sent to this node or to all, but
\* for a single buffer overwritten by a broadcast of the node itself.
THEOREM ReceivedGenuine == Spec => []Genuine
<1>1. OrderInv => Genuine
  BY DEF OrderInv, Given, EntryOf, Genuine
<1>. QED
  BY <1>1, OrderInvariant, PTL

-----------------------------------------------------------------------------
(* What is acknowledged has been received.                                 *)

LEMMA InitAck == Init => AckInv
BY DEF Init, AckInv, IdIsNumber, AckedIsReceived, Plain, Calling, HoldsData, NoFrame, Numbers

\* No node unlearns a number, restarts backwards or sends fewer messages.
Grows ==
  /\ \A p, n \in Nodes : Numbers(p, n) \subseteq Numbers(p, n)'
  /\ \A n \in Nodes : boots[n] <= boots'[n] /\ sends[n] <= sends'[n]

LEMMA PlainBefore ==
  ASSUME TypeOK, TypeOK', Grows, NEW n \in Nodes, NEW p \in Nodes, Plain(n, p)'
  PROVE  Plain(n, p)
<1>1. /\ boots[n] \in Nat /\ boots[p] \in Nat /\ sends[n] \in Nat /\ sends'[n] \in Nat
      /\ Mod \in Nat
  BY ReliableAssumption DEF TypeOK
<1>. QED
  BY <1>1 DEF Plain, Grows

LEMMA AckedStays ==
  ASSUME TypeOK, TypeOK', AckedIsReceived, Grows,
         \A m \in acked' \ acked :
            \/ m.num \in Numbers(m.to, m.from)
            \/ boots[m.from] + boots[m.to] > 0 \/ m.to \in SharedBuf \/ m.num >= Mod,
         \A m \in acked' : m.from \in Nodes /\ m.to \in Nodes
  PROVE  AckedIsReceived'
<1>. SUFFICES ASSUME NEW m \in acked'
              PROVE  \/ m.num \in Numbers(m.to, m.from)'
                     \/ boots'[m.from] + boots'[m.to] > 0 \/ m.to \in SharedBuf
                     \/ m.num >= Mod
  BY DEF AckedIsReceived
<1>1. m.from \in Nodes /\ m.to \in Nodes
  OBVIOUS
<1>2. /\ boots[m.from] \in Nat /\ boots[m.to] \in Nat
      /\ boots'[m.from] \in Nat /\ boots'[m.to] \in Nat
  BY <1>1 DEF TypeOK
<1>3. \/ m.num \in Numbers(m.to, m.from)
      \/ boots[m.from] + boots[m.to] > 0 \/ m.to \in SharedBuf \/ m.num >= Mod
  BY DEF AckedIsReceived
<1>. QED
  BY <1>1, <1>2, <1>3 DEF Grows

\* What a message acknowledged is to, is a node.
AckedTo == \A m \in acked : m.from \in Nodes /\ m.to \in Nodes

\* The two invariants and AckedTo, which AckedIsReceived leaves out.
AllInv == OrderInv /\ AckInv /\ AckedTo

\* A step that gives no application anything.
LEMMA NothingGiven ==
  ASSUME TypeOK, UNCHANGED got, UNCHANGED boots \/ (\A n \in Nodes : boots[n] <= boots'[n]),
         \A n \in Nodes : sends[n] <= sends'[n]
  PROVE  Grows /\ \A p, n \in Nodes : Numbers(p, n)' = Numbers(p, n)
<1>1. \A n \in Nodes : boots[n] <= boots'[n]
  BY DEF TypeOK
<1>. QED
  BY <1>1 DEF Grows, Numbers

LEMMA SendtoWaitAck ==
  ASSUME AllInv, OrderInv', NEW k \in Nodes, NEW to \in (Nodes \ {k}) \cup {Broadcast},
         SendtoWait(k, to)
  PROVE  AckInv' /\ AckedTo'
<1>. USE DEF AllInv, AckInv
<1>1. TypeOK /\ TypeOK'
  BY DEF OrderInv
<1>. DEFINE c == [pc |-> "send", id |-> NextId(k), retries |-> 0,
                  msg |-> [from |-> k, to |-> to, num |-> sends[k] + 1, boot |-> boots[k]]]
<1>2. /\ last' = [last EXCEPT ![k] = NextId(k)]
      /\ sends' = [sends EXCEPT ![k] = @ + 1]
      /\ call' = [call EXCEPT ![k] = c]
      /\ UNCHANGED <<rx, seen, boots, acked, got>>
  BY DEF SendtoWait
<1>3. c.id = NextId(k) /\ c.msg.num = sends[k] + 1
  OBVIOUS
<1>. HIDE DEF c
<1>4. Grows /\ \A p, n \in Nodes : Numbers(p, n)' = Numbers(p, n)
  BY <1>1, <1>2, NothingGiven DEF TypeOK
<1>5. ASSUME NEW n \in Nodes, NEW p \in Nodes, Plain(n, p)' PROVE IdIsNumber(n, p)'
  <2>1. Plain(n, p) /\ IdIsNumber(n, p)
    BY <1>1, <1>4, <1>5, PlainBefore
  <2>2. last'[n] = sends'[n]
    <3>1. CASE n = k
      <4>1. sends'[n] = last[n] + 1 /\ sends'[n] < Mod /\ last[n] \in Nat /\ Mod \in Nat
        BY <1>1, <1>2, <1>5, <2>1, <3>1, ReliableAssumption DEF IdIsNumber, Plain, TypeOK, Ids
      <4>2. NextId(n) = last[n] + 1
        BY <4>1 DEF NextId
      <4>. QED
        BY <1>1, <1>2, <3>1, <4>1, <4>2 DEF TypeOK
    <3>2. CASE n # k
      BY <1>1, <1>2, <2>1, <3>2 DEF IdIsNumber, TypeOK
    <3>. QED
      BY <3>1, <3>2
  <2>3. Calling(n)' => call'[n].id = call'[n].msg.num
    BY <1>1, <1>2, <1>3, <2>1, <2>2 DEF IdIsNumber, Calling, TypeOK
  <2>. QED
    BY <1>2, <1>4, <2>1, <2>2, <2>3 DEF IdIsNumber, HoldsData
<1>6. AckedIsReceived'
  BY <1>1, <1>2, <1>4, AckedStays DEF AckedTo
<1>. QED
  BY <1>2, <1>5, <1>6 DEF AckedTo

LEMMA SendAck ==
  ASSUME AllInv, OrderInv', NEW k \in Nodes, Send(k)
  PROVE  AckInv' /\ AckedTo'
<1>. USE DEF AllInv, AckInv
<1>1. TypeOK /\ TypeOK'
  BY DEF OrderInv
<1>. DEFINE c == call[k]
            f == [type |-> "data", from |-> k, to |-> c.msg.to, id |-> c.id, msg |-> c.msg]
            ended == [c EXCEPT !.pc = "wait", !.retries = Tried(@)]
<1>2. /\ Transmit(k, f, Unread(k, c.msg))
      /\ call' = [call EXCEPT ![k] = IF c.msg.to = Broadcast THEN NotSending ELSE ended]
      /\ UNCHANGED <<last, seen, boots, sends, acked, got>>
  BY DEF Send
<1>3. c \in Calls /\ Calling(k) /\ Tried(c.retries) \in Nat
  BY <1>1 DEF Send, TypeOK, NotSending, Calling, Calls, Tried
<1>4. ended.msg = c.msg /\ ended.id = c.id
  BY <1>3, WaitingCall
<1>5. f.type = "data" /\ f.from = k /\ f.id = c.id /\ f.msg = c.msg
  OBVIOUS
<1>. HIDE DEF f, ended
<1>6. /\ rx'[k] = Unread(k, c.msg)
      /\ \A m \in Nodes \ {k} : rx'[m] = rx[m] \/ rx'[m] = f
  BY <1>1, <1>2, TransmitEffect
<1>7. Grows /\ \A p, n \in Nodes : Numbers(p, n)' = Numbers(p, n)
  BY <1>1, <1>2, NothingGiven DEF TypeOK
<1>8. ASSUME NEW n \in Nodes, NEW p \in Nodes, Plain(n, p)' PROVE IdIsNumber(n, p)'
  <2>1. Plain(n, p) /\ IdIsNumber(n, p)
    BY <1>1, <1>7, <1>8, PlainBefore
  <2>2. Calling(n)' => call'[n].id = call'[n].msg.num
    BY <1>1, <1>2, <1>3, <1>4, <2>1 DEF IdIsNumber, Calling, TypeOK
  <2>3. rx'[p] = rx[p] \/ rx'[p] = f
    BY <1>6, <2>1 DEF Plain, Unread
  <2>4. HoldsData(p)' /\ rx'[p].from = n => rx'[p].id = rx'[p].msg.num
    BY <1>3, <1>5, <2>1, <2>3 DEF IdIsNumber, HoldsData
  <2>5. rx'[n].type = "ack" => rx'[n] = rx[n]
    <3>1. CASE n = k /\ HoldsData(n)
      BY <1>1, <1>6, <3>1, DataType DEF Unread, DataFrames
    <3>2. CASE n = k /\ ~HoldsData(n)
      BY <1>6, <3>2 DEF Unread, HoldsData
    <3>3. CASE n # k
      BY <1>5, <1>6, <3>3
    <3>. QED
      BY <3>1, <3>2, <3>3
  <2>. QED
    BY <1>2, <1>7, <2>1, <2>2, <2>4, <2>5 DEF IdIsNumber
<1>9. AckedIsReceived'
  BY <1>1, <1>2, <1>7, AckedStays DEF AckedTo
<1>. QED
  BY <1>2, <1>8, <1>9 DEF AckedTo

LEMMA FailOrTimeoutAck ==
  ASSUME AllInv, OrderInv', NEW k \in Nodes, Fail(k) \/ Timeout(k)
  PROVE  AckInv' /\ AckedTo'
<1>. USE DEF AllInv, AckInv
<1>1. TypeOK /\ TypeOK'
  BY DEF OrderInv
<1>2. /\ \A n \in Nodes : Calling(n)' => /\ Calling(n) /\ call'[n].id = call[n].id
                                          /\ call'[n].msg = call[n].msg
      /\ UNCHANGED <<rx, last, seen, boots, sends, acked, got>>
  <2>1. CASE Fail(k)
    BY <1>1, <2>1 DEF Fail, Calling, TypeOK
  <2>2. CASE Timeout(k)
    <3>1. call[k] \in Calls /\ Calling(k)
      BY <1>1, <2>2 DEF Timeout, TypeOK, NotSending, Calling
    <3>. QED
      BY <1>1, <2>2, <3>1 DEF Timeout, Calling, TypeOK, Calls
  <2>. QED
    BY <2>1, <2>2
<1>3. Grows /\ \A p, n \in Nodes : Numbers(p, n)' = Numbers(p, n)
  BY <1>1, <1>2, NothingGiven DEF TypeOK
<1>4. ASSUME NEW n \in Nodes, NEW p \in Nodes, Plain(n, p)' PROVE IdIsNumber(n, p)'
  <2>1. Plain(n, p) /\ IdIsNumber(n, p)
    BY <1>1, <1>3, <1>4, PlainBefore
  <2>. QED
    BY <1>2, <1>3, <2>1 DEF IdIsNumber, HoldsData
<1>5. AckedIsReceived'
  BY <1>1, <1>2, <1>3, AckedStays DEF AckedTo
<1>. QED
  BY <1>2, <1>4, <1>5 DEF AckedTo

\* The acknowledgement that is read is of the message being sent.
LEMMA WaitAck ==
  ASSUME AllInv, OrderInv', NEW k \in Nodes, Wait(k)
  PROVE  AckInv' /\ AckedTo'
<1>. USE DEF AllInv, AckInv
<1>1. TypeOK /\ TypeOK' /\ Addressed
  BY DEF OrderInv
<1>. DEFINE c == call[k]
<1>2. /\ Read(k) /\ rx'[k] = NoFrame /\ rx[k] # NoFrame
      /\ UNCHANGED <<last, seen, boots, sends, got>>
      /\ \/ /\ IsMyAck(k, rx[k]) /\ rx' = [rx EXCEPT ![k] = NoFrame]
            /\ call' = [call EXCEPT ![k] = NotSending] /\ acked' = acked \cup {c.msg}
         \/ /\ AckAgain(k, rx[k]) \/ rx' = [rx EXCEPT ![k] = NoFrame]
            /\ UNCHANGED <<call, acked>>
  BY <1>1, ReadingStep DEF Wait, Read
<1>3. /\ c \in Calls /\ Calling(k) /\ c.msg \in SentMessages /\ c.msg.from = k /\ c.msg.num = sends[k]
      /\ c.msg.to \in Nodes \ {k} /\ c.msg.num \in Nat
  <2>1. c \in Calls /\ Calling(k) /\ c.pc = "wait"
    BY <1>1 DEF Wait, TypeOK, NotSending, Calling
  <2>2. c.msg.from = k /\ c.msg.num = sends[k] /\ c.msg.to # k /\ c.msg.to # Broadcast
    BY <2>1 DEF OrderInv, LatestSent
  <2>. QED
    BY <2>1, <2>2 DEF Calls, SentMessages
<1>4. Grows /\ \A p, n \in Nodes : Numbers(p, n)' = Numbers(p, n)
  BY <1>1, <1>2, NothingGiven DEF TypeOK
<1>5. ASSUME NEW n \in Nodes, NEW p \in Nodes, Plain(n, p)' PROVE IdIsNumber(n, p)'
  <2>1. Plain(n, p) /\ IdIsNumber(n, p)
    BY <1>1, <1>4, <1>5, PlainBefore
  <2>2. Calling(n)' => call'[n] = call[n] /\ Calling(n)
    BY <1>1, <1>2 DEF Calling, TypeOK
  <2>3. HoldsData(p)' => HoldsData(p) /\ rx'[p] = rx[p]
    BY <1>1, <1>2, ReadFrames
  <2>4. ASSUME rx'[n].type = "ack", rx'[n].from = p PROVE rx'[n].id \in Numbers(p, n)
    <3>1. CASE rx'[n] = rx[n]
      BY <2>1, <2>4, <3>1 DEF IdIsNumber
    <3>2. CASE rx'[n] # rx[n]
      <4>1. n # k /\ rx[n] = NoFrame /\ HoldsData(k) /\ n = rx[k].from /\ rx'[n] = Ack(k, rx[k])
        BY <1>2, <2>4, <3>2 DEF Read, NoFrame
      <4>2. p = k /\ rx'[n].id = rx[p].id
        BY <2>4, <4>1 DEF Ack
      <4>3. AckAgain(p, rx[p])
        BY <1>1, <1>2, <3>2, <4>1, <4>2 DEF TypeOK
      <4>4. rx[p].id = rx[p].msg.num /\ rx[p].msg.num # 0
        BY <1>1, <2>1, <4>1, <4>2, DataType DEF IdIsNumber
      <4>. QED
        BY <2>1, <4>1, <4>2, <4>3, <4>4 DEF AckAgain, IdIsNumber
    <3>. QED
      BY <3>1, <3>2
  <2>. QED
    BY <1>2, <1>4, <2>1, <2>2, <2>3, <2>4 DEF IdIsNumber
<1>6. ASSUME NEW m \in acked' \ acked
      PROVE  \/ m.num \in Numbers(m.to, m.from)
             \/ boots[m.from] + boots[m.to] > 0 \/ m.to \in SharedBuf \/ m.num >= Mod
  <2>1. m = c.msg /\ IsMyAck(k, rx[k])
    BY <1>2
  <2>2. SUFFICES ASSUME ~(boots[m.from] + boots[m.to] > 0), m.to \notin SharedBuf, ~(m.num >= Mod)
                 PROVE  m.num \in Numbers(m.to, m.from)
    OBVIOUS
  <2>3. boots[k] \in Nat /\ boots[c.msg.to] \in Nat /\ Mod \in Nat
    BY <1>1, <1>3, ReliableAssumption DEF TypeOK
  <2>4. Plain(k, c.msg.to)
    BY <1>3, <2>1, <2>2, <2>3 DEF Plain
  <2>5. IdIsNumber(k, c.msg.to)
    BY <1>3, <2>4
  <2>. QED
    BY <1>3, <2>1, <2>5 DEF IdIsNumber, IsMyAck
<1>7. AckedTo'
  BY <1>2, <1>3 DEF AckedTo
<1>8. AckedIsReceived'
  BY <1>1, <1>4, <1>6, <1>7, AckedStays DEF AckedTo
<1>. QED
  BY <1>5, <1>7, <1>8

\* What is received is acknowledged when it is given to the application, or has been.
LEMMA RecvfromAckAck ==
  ASSUME AllInv, OrderInv', NEW k \in Nodes, RecvfromAck(k)
  PROVE  AckInv' /\ AckedTo'
<1>. USE DEF AllInv, AckInv
<1>1. TypeOK /\ TypeOK' /\ Addressed /\ DataGenuine
  BY DEF OrderInv
<1>. DEFINE f == rx[k]
            new == f.type = "data" /\ IsNew(k, f)
            e0 == [from |-> f.from, msg |-> f.msg, boot |-> boots[k]]
<1>2. /\ Read(k) /\ call[k] = NotSending
      /\ seen' = IF new THEN [seen EXCEPT ![k][f.from] = f.id] ELSE seen
      /\ got' = IF new THEN [got EXCEPT ![k] = Append(@, e0)] ELSE got
      /\ UNCHANGED <<last, call, boots, sends, acked>>
  BY <1>1, ReadingStep DEF RecvfromAck
<1>3. HoldsData(k) => /\ f.from \in Nodes /\ f.msg \in SentMessages /\ f.id \in Ids
                      /\ f.msg.num \in Nat \ {0} /\ e0 \in Received
  <2>. SUFFICES ASSUME HoldsData(k)
                PROVE  /\ f.from \in Nodes /\ f.msg \in SentMessages /\ f.id \in Ids
                       /\ f.msg.num \in Nat \ {0} /\ e0 \in Received
    OBVIOUS
  <2>1. boots[k] \in Nat
    BY <1>1 DEF TypeOK
  <2>2. /\ f.from \in Nodes /\ f.msg \in SentMessages /\ f.id \in Ids /\ f.msg.num \in Nat \ {0}
    BY <1>1, DataType
  <2>. QED
    BY <2>1, <2>2 DEF Received
<1>4. /\ \A p, n \in Nodes : Numbers(p, n) \subseteq Numbers(p, n)'
      /\ new => \A n \in Nodes : n = f.msg.from => f.msg.num \in Numbers(k, n)'
  <2>1. CASE ~new
    BY <1>2, <2>1 DEF Numbers
  <2>2. CASE new
    <3>1. e0 \in Received /\ got[k] \in Seq(Received)
      BY <1>1, <1>3, <2>2 DEF HoldsData, TypeOK
    <3>2. /\ got'[k] = Append(got[k], e0)
          /\ \A p \in Nodes \ {k} : got'[p] = got[p]
      BY <1>1, <1>2, <2>2 DEF TypeOK
    <3>3. /\ Len(got[k]) + 1 \in DOMAIN got'[k] /\ got'[k][Len(got[k]) + 1] = e0
          /\ \A i \in DOMAIN got[k] : i \in DOMAIN got'[k] /\ got'[k][i] = got[k][i]
      BY <3>1, <3>2
    <3>4. \A n \in Nodes : n = f.msg.from => f.msg.num \in Numbers(k, n)'
      BY <3>3 DEF Numbers
    <3>5. \A p, n \in Nodes : Numbers(p, n) \subseteq Numbers(p, n)'
      BY <3>2, <3>3 DEF Numbers
    <3>. QED
      BY <3>4, <3>5
  <2>. QED
    BY <2>1, <2>2
<1>5. Grows
  BY <1>1, <1>2, <1>4 DEF Grows, TypeOK
<1>. HIDE DEF new
<1>6. ASSUME NEW n \in Nodes, NEW p \in Nodes, Plain(n, p)' PROVE IdIsNumber(n, p)'
  <2>1. Plain(n, p) /\ IdIsNumber(n, p)
    BY <1>1, <1>5, <1>6, PlainBefore
\* What p takes from n has the number of its message as id, and n's message in it.
  <2>2. ASSUME k = p, HoldsData(k), f.from = n
        PROVE  f.id = f.msg.num /\ f.msg.from = n /\ f.id # 0
    BY <1>1, <1>3, <2>1, <2>2 DEF IdIsNumber, Plain, DataGenuine
  <2>3. seen'[p][n] = 0 \/ seen'[p][n] \in Numbers(p, n)'
    <3>1. CASE new /\ k = p /\ f.from = n
      <4>1. HoldsData(k) /\ seen'[p][n] = f.id
        BY <1>1, <1>2, <3>1 DEF new, HoldsData, TypeOK
      <4>. QED
        BY <1>4, <2>2, <3>1, <4>1
    <3>2. CASE ~(new /\ k = p /\ f.from = n)
      <4>1. seen'[p][n] = seen[p][n]
        BY <1>1, <1>2, <3>2 DEF TypeOK
      <4>. QED
        BY <1>4, <2>1, <4>1 DEF IdIsNumber
    <3>. QED
      BY <3>1, <3>2
  <2>4. HoldsData(p)' => HoldsData(p) /\ rx'[p] = rx[p]
    BY <1>1, <1>2, ReadFrames
  <2>5. ASSUME rx'[n].type = "ack", rx'[n].from = p PROVE rx'[n].id \in Numbers(p, n)'
    <3>1. CASE rx'[n] = rx[n]
      BY <1>4, <2>1, <2>5, <3>1 DEF IdIsNumber
    <3>2. CASE rx'[n] # rx[n]
      <4>1. n # k /\ HoldsData(k) /\ n = f.from /\ rx'[n] = Ack(k, f)
        BY <1>2, <2>5, <3>2 DEF Read, NoFrame
      <4>2. p = k /\ rx'[n].id = f.id
        BY <2>5, <4>1 DEF Ack
      <4>3. f.id = f.msg.num /\ f.msg.from = n /\ f.id # 0
        BY <2>2, <4>1, <4>2
      <4>4. CASE new
        BY <1>4, <4>2, <4>3, <4>4
      <4>5. CASE ~new
        <5>1. f.id = seen[p][n]
          BY <4>1, <4>2, <4>5 DEF new, IsNew, HoldsData
        <5>. QED
          BY <1>4, <2>1, <4>2, <4>3, <5>1 DEF IdIsNumber
      <4>. QED
        BY <4>4, <4>5
    <3>. QED
      BY <3>1, <3>2
  <2>. QED
    BY <1>2, <2>1, <2>3, <2>4, <2>5 DEF IdIsNumber, Calling
<1>7. AckedIsReceived'
  BY <1>1, <1>2, <1>5, AckedStays DEF AckedTo
<1>. QED
  BY <1>2, <1>6, <1>7 DEF AckedTo

LEMMA RestartAck ==
  ASSUME AllInv, OrderInv', NEW k \in Nodes, Restart(k)
  PROVE  AckInv' /\ AckedTo'
<1>. USE DEF AllInv, AckInv
<1>1. TypeOK /\ TypeOK'
  BY DEF OrderInv
<1>2. /\ boots' = [boots EXCEPT ![k] = @ + 1]
      /\ \A n \in Nodes \ {k} : rx'[n] = rx[n] /\ last'[n] = last[n] /\ seen'[n] = seen[n]
                                /\ call'[n] = call[n]
      /\ UNCHANGED <<sends, acked, got>>
  BY <1>1 DEF Restart, TypeOK
<1>3. /\ \A n \in Nodes : boots[n] <= boots'[n] /\ sends[n] <= sends'[n]
      /\ boots'[k] # 0
  BY <1>1, <1>2 DEF TypeOK
<1>4. Grows /\ \A p, n \in Nodes : Numbers(p, n)' = Numbers(p, n)
  BY <1>1, <1>2, <1>3, NothingGiven
<1>5. ASSUME NEW n \in Nodes, NEW p \in Nodes, Plain(n, p)' PROVE IdIsNumber(n, p)'
  <2>1. Plain(n, p) /\ IdIsNumber(n, p)
    BY <1>1, <1>4, <1>5, PlainBefore
  <2>2. n # k /\ p # k
    BY <1>3, <1>5 DEF Plain
  <2>. QED
    BY <1>2, <1>4, <2>1, <2>2 DEF IdIsNumber, Calling, HoldsData
<1>6. AckedIsReceived'
  BY <1>1, <1>2, <1>4, AckedStays DEF AckedTo
<1>. QED
  BY <1>2, <1>5, <1>6 DEF AckedTo

LEMMA NextAck == AllInv /\ [Next]_vars => AllInv'
<1>. SUFFICES ASSUME AllInv, [Next]_vars PROVE AllInv'
  OBVIOUS
<1>1. OrderInv'
  BY NextOrder DEF AllInv
<1>2. CASE Next
  BY <1>1, <1>2, SendtoWaitAck, SendAck, FailOrTimeoutAck, WaitAck, RecvfromAckAck, RestartAck
     DEF Next, AllInv
<1>3. CASE UNCHANGED vars
  BY <1>1, <1>3 DEF vars, AllInv, AckInv, AckedTo, AckedIsReceived, IdIsNumber, Plain, Numbers,
                    Calling, HoldsData
<1>. QED
  BY <1>2, <1>3

\* sendtoWait returns true after a wait only for a message that the application of
\* the node it was for has been given, as long as ids are not used again, neither
\* node restarts and the receiver's driver has two buffers (the comparison of the
\* acknowledgement's id and sender in sendtoWait).
THEOREM AckedReceived == Spec => []AckedIsReceived
<1>1. Init => AllInv
  BY InitOrder, InitAck DEF AllInv, AckedTo, Init
<1>2. AllInv => AckedIsReceived
  BY DEF AllInv, AckInv
<1>. QED
  BY <1>1, <1>2, NextAck, PTL DEF Spec

-----------------------------------------------------------------------------
(* Bytes of frames *)

\* A frame on the air, and what a byte of a buffer or FIFO is: a byte of a frame,
\* by its position, or a header the RF69's chip holds beside them.
Frame == [of : {"none", "air", "me"}, n : Nat, len : Nat, mine : BOOLEAN]
Cell == Frame \X (Nat \cup {"len", "to", "from"})

\* The bytes of a frame.
LEMMA BytesSeq ==
  ASSUME NEW f \in Frame
  PROVE  /\ Bytes(f) \in Seq(Cell) /\ Len(Bytes(f)) = f.len
         /\ \A i \in 1 .. f.len : Bytes(f)[i] = <<f, i>>
         /\ Whole(Bytes(f))
<1>1. f.len \in Nat
  BY DEF Frame
<1>. PICK n \in Nat : n = f.len
  BY <1>1
<1>. PICK b : b = [i \in 1 .. n |-> <<f, i>>]
  OBVIOUS
<1>2. Bytes(f) = b
  BY DEF Bytes
<1>3. b \in Seq(Cell) /\ Len(b) = n
  BY SMTT(40) DEF Cell
<1>4. \A i \in 1 .. n : b[i] = <<f, i>>
  OBVIOUS
<1>5. Whole(b)
  <2>1. CASE n = 0
    BY <1>3, <2>1 DEF Whole
  <2>2. CASE n # 0
    <3>1. b[1] = <<f, 1>>
      BY <1>4, <2>2
    <3>2. b[1][1] = f
      BY <3>1
    <3>. QED
      BY <1>2, <3>2 DEF Whole
  <2>. QED
    BY <2>1, <2>2
<1>. QED
  BY <1>2, <1>3, <1>4, <1>5

\* What is put over a buffer is at its beginning, and the buffer does not shrink.
LEMMA OverSeq ==
  ASSUME NEW buf \in Seq(Cell), NEW d \in Seq(Cell)
  PROVE  /\ Over(buf, d) \in Seq(Cell)
         /\ SubSeq(Over(buf, d), 1, Len(d)) = d
         /\ Len(Over(buf, d)) >= Len(d) /\ Len(Over(buf, d)) >= Len(buf)
         /\ Len(Over(buf, d)) \in Nat /\ Len(buf) \in Nat
<1>. PICK n \in Nat : n = Len(d)
  OBVIOUS
<1>. PICK m \in Nat : m = Len(buf)
  OBVIOUS
<1>. PICK r : r = SubSeq(buf, n + 1, m)
  OBVIOUS
<1>1. r \in Seq(Cell) /\ Len(r) = (IF n + 1 <= m THEN m - n ELSE 0)
  OBVIOUS
<1>2. Over(buf, d) = d \o r
  BY DEF Over
<1>3. d \o r \in Seq(Cell) /\ Len(d \o r) = n + Len(r)
      /\ \A i \in 1 .. n : (d \o r)[i] = d[i]
  BY <1>1
<1>. PICK q \in Seq(Cell) : q = d \o r
  BY <1>3
<1>4. SubSeq(q, 1, n) = d
  <2>1. Len(q) \in Nat /\ n <= Len(q)
    BY <1>1, <1>3
  <2>2. SubSeq(q, 1, n) \in Seq(Cell) /\ Len(SubSeq(q, 1, n)) = n
        /\ \A i \in 1 .. n : SubSeq(q, 1, n)[i] = q[i]
    BY <2>1
  <2>. QED
    BY <1>3, <2>2
<1>. QED
  BY <1>2, <1>3, <1>4

\* A frame put at the beginning of the buffer that serves both directions.
LEMMA OverBytes ==
  ASSUME NEW buf \in Seq(Cell), NEW f \in Frame
  PROVE  /\ Over(buf, Bytes(f)) \in Seq(Cell)
         /\ SubSeq(Over(buf, Bytes(f)), 1, f.len) = Bytes(f)
         /\ Len(Over(buf, Bytes(f))) >= f.len /\ Len(Over(buf, Bytes(f))) >= Len(buf)
         /\ Len(Over(buf, Bytes(f))) \in Nat /\ Len(buf) \in Nat /\ f.len \in Nat
<1>1. PICK d \in Seq(Cell) : d = Bytes(f) /\ Len(d) = f.len
  BY BytesSeq
<1>2. PICK o : o = Over(buf, d)
  OBVIOUS
<1>3. /\ o \in Seq(Cell) /\ SubSeq(o, 1, Len(d)) = d /\ Len(o) >= Len(d)
      /\ Len(o) >= Len(buf) /\ Len(o) \in Nat /\ Len(buf) \in Nat
  BY <1>2, OverSeq
<1>4. f.len \in Nat
  BY DEF Frame
<1>. QED
  BY <1>1, <1>2, <1>3, <1>4

\* What the histories of the drivers hold; got is told for each.
LogType(G) ==
  log \in [heard : Nat, asked : Frame, aired : Seq(Cell), got : G, late : BOOLEAN]

\* A frame heard, and one of this node's messages, are frames.
LEMMA NewFrames ==
  ASSUME NEW G, LogType(G), NEW len \in Nat, NEW mine \in BOOLEAN
  PROVE  Heard(len, mine) \in Frame /\ Asked(len) \in Frame
BY DEF LogType, Heard, Asked, Frame

\* Nothing is a whole frame.
LEMMA Empty == Whole(<<>>) /\ <<>> \in Seq(Cell) /\ None \in Frame
BY DEF Whole, None, Frame

-----------------------------------------------------------------------------
(* NRF905 *)

\* The instance's operators on constants are Driver's.
LEMMA Bytes905 == ASSUME NEW f PROVE N905!Bytes(f) = Bytes(f)
BY DEF N905!Bytes, Bytes
LEMMA Whole905 == ASSUME NEW d PROVE N905!Whole(d) = Whole(d)
BY DEF N905!Bytes, Bytes, N905!Whole, Whole
LEMMA Over905 == ASSUME NEW b, NEW d PROVE N905!Over(b, d) = Over(b, d)
BY DEF N905!Over, Over
LEMMA Heard905 == ASSUME NEW l, NEW m PROVE N905!Heard(l, m) = Heard(l, m)
BY DEF N905!Heard, Heard
LEMMA Asked905 == ASSUME NEW l PROVE N905!Asked(l) = Asked(l)
BY DEF N905!Asked, Asked

Got905 == {<<>>} \cup (Seq(Cell) \X Frame \X BOOLEAN)

Type905 ==
  /\ drv \in [mode : {"idle", "rx", "tx"}, buf : Seq(Cell), len : Nat, header : Frame,
              valid : BOOLEAN]
  /\ chip \in [mode : {"idle", "rx", "tx"}, frame : Frame, ready : BOOLEAN]
  /\ pc \in [at : {"idle", "wait", "poll", "recv"}]
  /\ LogType(Got905)

\* The buffer holds the frame of the headers, unless something was sent over it.
Inv905 ==
  /\ Type905
  /\ Whole(log.aired)
  /\ log.got # <<>> /\ ~log.got[3] => log.got[1] = Bytes(log.got[2])
  /\ drv.valid /\ ~log.late => SubSeq(drv.buf, 1, drv.len) = Bytes(drv.header)
  /\ pc.at = "recv" => drv.valid
  /\ pc.at = "poll" => ~drv.valid
  /\ drv.len <= Len(drv.buf)

\* Every step of the NRF905's driver, its chip and the air keeps the invariant.
LEMMA Next905 ==
  ASSUME Inv905, N905!Next, DriverAssumption
  PROVE  Inv905'
<1>. USE DEF LogType
<1>t. /\ drv \in [mode : {"idle", "rx", "tx"}, buf : Seq(Cell), len : Nat,
                   header : Frame, valid : BOOLEAN]
      /\ chip \in [mode : {"idle", "rx", "tx"}, frame : Frame, ready : BOOLEAN]
      /\ pc \in [at : {"idle", "wait", "poll", "recv"}]
      /\ log \in [heard : Nat, asked : Frame, aired : Seq(Cell), got : Got905,
                   late : BOOLEAN]
  BY DEF Inv905, Type905
<1>h. /\ Whole(log.aired)
      /\ log.got # <<>> /\ ~log.got[3] => log.got[1] = Bytes(log.got[2])
      /\ drv.valid /\ ~log.late => SubSeq(drv.buf, 1, drv.len) = Bytes(drv.header)
      /\ pc.at = "recv" => drv.valid
      /\ pc.at = "poll" => ~drv.valid
      /\ drv.len <= Len(drv.buf)
  BY DEF Inv905
<1>0. \A len \in N905!Lengths : len \in Nat
  BY DEF DriverAssumption, N905!Lengths
<1>1. ASSUME NEW len \in N905!Lengths, N905!Send(len) PROVE Inv905'
  <2>1. PICK m : m = N905!Asked(len)
    OBVIOUS
  <2>2. m \in Frame
    BY <1>0, <1>t, <2>1, NewFrames, Asked905
  <2>3. PICK b : b = N905!Over(drv.buf, N905!Bytes(m))
    OBVIOUS
  <2>4. b \in Seq(Cell) /\ Len(b) >= Len(drv.buf) /\ Len(drv.buf) \in Nat /\ Len(b) \in Nat
    BY <1>t, <2>2, <2>3, Bytes905, Over905, OverBytes
  <2>5. pc' = [at |-> "wait"]
    BY <1>1 DEF N905!Send, N905!Goto
  <2>6. CASE len > MaxLen
    <3>1. log' = [log EXCEPT !.asked = m] /\ drv' = drv /\ chip' = chip
      BY <1>1, <2>1, <2>6 DEF N905!Send
    <3>. QED
      BY <1>t, <1>h, <2>2, <2>5, <3>1 DEF Inv905, Type905
  <2>7. CASE ~(len > MaxLen)
    <3>1. /\ log' = [log EXCEPT !.asked = m, !.late = @ \/ drv.valid]
          /\ drv' = [drv EXCEPT !.buf = b, !.mode = "tx"]
          /\ chip' = [N905!OpMode(chip, "tx") EXCEPT !.frame = m]
      BY <1>1, <2>1, <2>3, <2>7 DEF N905!Send
    <3>2. Type905'
      BY <1>t, <2>2, <2>4, <2>5, <3>1 DEF Type905, N905!OpMode
    <3>3. drv'.len <= Len(drv'.buf) /\ (drv'.valid => log'.late)
      BY <1>t, <1>h, <2>4, <3>1
    <3>. QED
      BY <1>t, <1>h, <2>5, <3>1, <3>2, <3>3 DEF Inv905
  <2>. QED
    BY <2>6, <2>7
<1>2. CASE N905!PacketSent
  <2>1. /\ pc' = [at |-> "idle"] /\ log' = log
        /\ \/ drv' = drv /\ chip' = chip
           \/ chip' = N905!OpMode(chip, "idle") /\ drv' = [drv EXCEPT !.mode = "idle"]
    BY <1>2 DEF N905!PacketSent, N905!Goto
  <2>2. Type905'
    BY <1>t, <2>1 DEF Type905, N905!OpMode
  <2>. QED
    BY <1>t, <1>h, <2>1, <2>2 DEF Inv905
<1>3. CASE N905!Listen
  <2>1. /\ log' = log
        /\ \/ drv.valid /\ drv' = drv /\ chip' = chip /\ pc' = [at |-> "recv"]
           \/ /\ ~drv.valid /\ pc' = [at |-> "poll"]
              /\ chip' = N905!OpMode(chip, "rx") /\ drv' = [drv EXCEPT !.mode = "rx"]
    BY <1>3 DEF N905!Listen, N905!Goto
  <2>2. CASE drv.valid
    BY <1>t, <1>h, <2>1, <2>2 DEF Inv905, Type905
  <2>3. CASE ~drv.valid
    <3>1. /\ pc' = [at |-> "poll"] /\ log' = log
          /\ chip' = N905!OpMode(chip, "rx") /\ drv' = [drv EXCEPT !.mode = "rx"]
      BY <2>1, <2>3
    <3>2. Type905'
      BY <1>t, <3>1 DEF Type905, N905!OpMode
    <3>3. ~drv'.valid /\ drv'.len = drv.len /\ drv'.buf = drv.buf
      BY <1>t, <2>3, <3>1
    <3>. QED
      BY <1>h, <3>1, <3>2, <3>3 DEF Inv905
  <2>. QED
    BY <2>2, <2>3
<1>4. CASE N905!Available
  <2>0. pc.at = "poll" /\ log' = log
    BY <1>4 DEF N905!Available
  <2>1. CASE ~chip.ready
    <3>1. drv' = drv /\ chip' = chip /\ pc' = [at |-> "idle"]
      BY <1>4, <2>1 DEF N905!Available, N905!Goto
    <3>. QED
      BY <1>t, <1>h, <2>0, <3>1 DEF Inv905, Type905
  <2>2. CASE chip.ready
    <3>1. PICK f \in Frame : f = chip.frame
      BY <1>t
    <3>2. PICK b : b = N905!Over(drv.buf, N905!Bytes(f))
      OBVIOUS
    <3>3. /\ b \in Seq(Cell) /\ SubSeq(b, 1, f.len) = Bytes(f)
          /\ Len(b) >= f.len /\ Len(b) >= Len(drv.buf) /\ f.len \in Nat
          /\ Len(drv.buf) \in Nat /\ Len(b) \in Nat
      BY <1>t, <3>2, Bytes905, Over905, OverBytes
    <3>6. CASE N905!Valid(f)
      <4>1. /\ drv' = [drv EXCEPT !.buf = b, !.valid = TRUE, !.mode = "idle",
                                  !.len = f.len, !.header = f]
            /\ chip' = N905!OpMode([chip EXCEPT !.ready = FALSE], "idle")
            /\ pc' = [at |-> "recv"]
        BY <1>4, <2>2, <3>1, <3>2, <3>6 DEF N905!Available, N905!Goto
      <4>2. Type905'
        BY <1>t, <2>0, <3>3, <4>1 DEF Type905, N905!OpMode
      <4>3. drv'.buf = b /\ drv'.valid /\ drv'.len = f.len /\ drv'.header = f
        BY <1>t, <4>1
      <4>. QED
        BY <1>h, <2>0, <3>3, <4>1, <4>2, <4>3 DEF Inv905
    <3>7. CASE ~N905!Valid(f)
      <4>1. /\ drv' = [drv EXCEPT !.buf = b]
            /\ chip' = [chip EXCEPT !.ready = FALSE]
            /\ pc' = [at |-> "idle"]
        BY <1>4, <2>2, <3>1, <3>2, <3>7 DEF N905!Available, N905!Goto
      <4>2. drv'.buf = b /\ ~drv'.valid /\ drv'.len = drv.len
        BY <1>t, <1>h, <2>0, <4>1
      <4>3. Type905'
        BY <1>t, <2>0, <3>3, <4>1 DEF Type905
      <4>. QED
        BY <1>t, <1>h, <2>0, <3>3, <4>1, <4>2, <4>3 DEF Inv905
    <3>. QED
      BY <3>6, <3>7
  <2>. QED
    BY <2>1, <2>2
<1>5. CASE N905!Recv
  <2>1. PICK d : d = SubSeq(drv.buf, 1, drv.len)
    OBVIOUS
  <2>2. d \in Seq(Cell)
    BY <1>t, <1>h, <2>1
  <2>3. /\ log' = [log EXCEPT !.got = <<d, drv.header, log.late>>, !.late = FALSE]
        /\ drv' = [drv EXCEPT !.valid = FALSE, !.len = 0]
        /\ pc' = [at |-> "idle"] /\ chip' = chip /\ pc.at = "recv"
    BY <1>5, <2>1 DEF N905!Recv, N905!Goto
  <2>4. Type905'
    BY <1>t, <2>2, <2>3 DEF Type905, Got905
  <2>5. /\ log'.got = <<d, drv.header, log.late>> /\ log'.aired = log.aired
        /\ ~drv'.valid /\ drv'.len = 0 /\ drv'.buf = drv.buf
        /\ drv.valid /\ Len(drv.buf) \in Nat
    BY <1>t, <1>h, <2>3
  <2>. QED
    BY <1>t, <1>h, <2>1, <2>3, <2>4, <2>5 DEF Inv905
<1>6. ASSUME NEW len \in N905!Lengths, NEW mine \in BOOLEAN, N905!Received(len, mine)
      PROVE  Inv905'
  <2>1. PICK f : f = N905!Heard(len, mine)
    OBVIOUS
  <2>2. f \in Frame
    BY <1>0, <1>t, <2>1, NewFrames, Heard905
  <2>3. /\ chip' = [chip EXCEPT !.frame = f, !.ready = TRUE]
        /\ log' = [log EXCEPT !.heard = @ + 1]
        /\ drv' = drv /\ pc' = pc
    BY <1>6, <2>1 DEF N905!Received
  <2>4. Type905'
    <3>0. PICK n \in Nat : n = log.heard + 1
      BY <1>t
    <3>1. LogType(Got905)'
      BY <1>t, <2>3, <3>0
    <3>2. chip' \in [mode : {"idle", "rx", "tx"}, frame : Frame, ready : BOOLEAN]
      BY <1>t, <2>2, <2>3
    <3>. QED
      BY <1>t, <2>3, <3>1, <3>2 DEF Type905
  <2>. QED
    BY <1>t, <1>h, <2>3, <2>4 DEF Inv905
<1>7. CASE N905!Transmitted
  <2>1. PICK d : d = N905!Bytes(chip.frame)
    OBVIOUS
  <2>2. Whole(d) /\ d \in Seq(Cell)
    BY <1>t, <2>1, Bytes905, BytesSeq
  <2>3. /\ chip' = [chip EXCEPT !.ready = TRUE]
        /\ log' = [log EXCEPT !.aired = d]
        /\ drv' = drv /\ pc' = pc
    BY <1>7, <2>1 DEF N905!Transmitted
  <2>4. Type905'
    <3>1. LogType(Got905)'
      BY <1>t, <2>2, <2>3
    <3>2. chip' \in [mode : {"idle", "rx", "tx"}, frame : Frame, ready : BOOLEAN]
      BY <1>t, <2>3
    <3>. QED
      BY <1>t, <2>3, <3>1, <3>2 DEF Type905
  <2>. QED
    BY <1>t, <1>h, <2>2, <2>3, <2>4 DEF Inv905
<1>. QED
  BY <1>1, <1>2, <1>3, <1>4, <1>5, <1>6, <1>7 DEF N905!Next

\* It holds at the start.
LEMMA Init905 == N905!Init => Inv905
<1>. SUFFICES ASSUME N905!Init PROVE Inv905
  OBVIOUS
<1>1. N905!None = None
  BY DEF N905!None, None
<1>2. N905!NoLog = NoLog
  BY DEF N905!NoLog, NoLog, N905!None, None
<1>. QED
  BY <1>1, <1>2, Empty DEF N905!Init, NoLog, Inv905, Type905, LogType, Got905

-----------------------------------------------------------------------------
(* NRF24 *)

\* The instance's operators on constants are Driver's.
LEMMA Bytes24 == ASSUME NEW f PROVE N24!Bytes(f) = Bytes(f)
BY DEF N24!Bytes, Bytes
LEMMA Over24 == ASSUME NEW b, NEW d PROVE N24!Over(b, d) = Over(b, d)
BY DEF N24!Over, Over
LEMMA Whole24 == ASSUME NEW d PROVE N24!Whole(d) = Whole(d)
BY DEF N24!Bytes, Bytes, N24!Whole, Whole
LEMMA Heard24 == ASSUME NEW l, NEW m PROVE N24!Heard(l, m) = Heard(l, m)
BY DEF N24!Heard, Heard
LEMMA Asked24 == ASSUME NEW l PROVE N24!Asked(l) = Asked(l)
BY DEF N24!Asked, Asked

Drv24 == [mode : {"idle", "rx", "tx"}, buf : Seq(Cell), len : Nat, header : Frame,
          valid : BOOLEAN]
Chip24 == [mode : {"off", "rx", "tx"}, rx : Seq(Frame), tx : Seq(Frame), sent : BOOLEAN]

Type24 ==
  /\ drv \in Drv24
  /\ chip \in Chip24
  /\ pc \in [at : {"idle", "wait", "poll", "recv"}]
  /\ LogType(Got905)

\* As for the NRF905; the chip's queues hold frames whole.
Inv24 ==
  /\ Type24
  /\ Whole(log.aired)
  /\ log.got # <<>> /\ ~log.got[3] => log.got[1] = Bytes(log.got[2])
  /\ drv.valid /\ ~log.late => SubSeq(drv.buf, 1, drv.len) = Bytes(drv.header)
  /\ pc.at = "recv" => drv.valid
  /\ pc.at = "poll" => ~drv.valid
  /\ drv.len <= Len(drv.buf)

\* Every step of the NRF24's driver, its chip and the air keeps the invariant.
LEMMA Next24 ==
  ASSUME Inv24, N24!Next, DriverAssumption
  PROVE  Inv24'
<1>. USE DEF LogType
<1>t. /\ drv \in Drv24
      /\ chip \in Chip24
      /\ pc \in [at : {"idle", "wait", "poll", "recv"}]
      /\ log \in [heard : Nat, asked : Frame, aired : Seq(Cell), got : Got905,
                   late : BOOLEAN]
  BY DEF Inv24, Type24
<1>h. /\ Whole(log.aired)
      /\ log.got # <<>> /\ ~log.got[3] => log.got[1] = Bytes(log.got[2])
      /\ drv.valid /\ ~log.late => SubSeq(drv.buf, 1, drv.len) = Bytes(drv.header)
      /\ pc.at = "recv" => drv.valid
      /\ pc.at = "poll" => ~drv.valid
      /\ drv.len <= Len(drv.buf)
  BY DEF Inv24
<1>b. drv.buf \in Seq(Cell) /\ drv.len \in Nat /\ chip.rx \in Seq(Frame)
      /\ chip.tx \in Seq(Frame) /\ Len(drv.buf) \in Nat
  BY <1>t DEF Drv24, Chip24
<1>0. \A len \in N24!Lengths : len \in Nat
  BY DEF DriverAssumption, N24!Lengths
<1>1. ASSUME NEW len \in N24!Lengths, N24!Send(len) PROVE Inv24'
  <2>1. PICK m : m = N24!Asked(len)
    OBVIOUS
  <2>2. m \in Frame
    BY <1>0, <1>t, <2>1, NewFrames, Asked24
  <2>3. PICK b : b = N24!Over(drv.buf, N24!Bytes(m))
    OBVIOUS
  <2>4. b \in Seq(Cell) /\ Len(b) >= Len(drv.buf) /\ Len(b) \in Nat
    BY <1>b, <2>2, <2>3, Bytes24, Over24, OverBytes
  <2>5. pc' = [at |-> "wait"]
    BY <1>1 DEF N24!Send, N24!Goto
  <2>6. CASE len > MaxLen
    <3>1. log' = [log EXCEPT !.asked = m] /\ drv' = drv /\ chip' = chip
      BY <1>1, <2>1, <2>6 DEF N24!Send
    <3>. QED
      BY <1>t, <1>h, <2>2, <2>5, <3>1 DEF Inv24, Type24
  <2>7. CASE ~(len > MaxLen)
    <3>0. PICK q \in Seq(Frame) : q = Append(chip.tx, m)
      <4>1. Append(chip.tx, m) \in Seq(Frame)
        BY <1>b, <2>2, AppendProperties
      <4>. QED
        BY <4>1
    <3>1. /\ log' = [log EXCEPT !.asked = m, !.late = @ \/ drv.valid]
          /\ drv' = [drv EXCEPT !.buf = b, !.mode = "tx"]
          /\ chip' = [chip EXCEPT !.mode = "tx", !.tx = q]
      BY <1>1, <1>t, <2>1, <2>3, <2>7, <3>0 DEF N24!Send, N24!OpMode, Chip24
    <3>2. drv' \in Drv24
      BY <1>t, <2>4, <3>1 DEF Drv24
    <3>3. chip' \in Chip24
      BY <1>t, <3>1 DEF Chip24
    <3>4. LogType(Got905)'
      BY <1>t, <2>2, <3>1 DEF Drv24
    <3>5. Type24'
      BY <2>5, <3>2, <3>3, <3>4 DEF Type24
    <3>6. drv'.buf = b /\ drv'.len = drv.len /\ log'.aired = log.aired
          /\ log'.got = log.got /\ (drv'.valid => log'.late)
      BY <1>t, <3>1 DEF Drv24
    <3>. QED
      BY <1>b, <1>h, <2>4, <2>5, <3>5, <3>6 DEF Inv24
  <2>. QED
    BY <2>6, <2>7
<1>2. CASE N24!PacketSent
  <2>1. pc' = [at |-> "idle"] /\ log' = log
    BY <1>2 DEF N24!PacketSent, N24!Goto
  <2>2. CASE chip.mode = "rx"
    <3>1. drv' = drv /\ chip' = chip
      BY <1>2, <2>2 DEF N24!PacketSent
    <3>. QED
      BY <1>t, <1>h, <2>1, <3>1 DEF Inv24, Type24
  <2>3. CASE chip.mode # "rx"
    <3>1. /\ chip' = [chip EXCEPT !.mode = "off", !.sent = FALSE]
          /\ drv' = [drv EXCEPT !.mode = "idle"]
      BY <1>2, <1>t, <2>3 DEF N24!PacketSent, N24!OpMode, Chip24
    <3>2. Type24'
      BY <1>t, <2>1, <3>1 DEF Type24, Drv24, Chip24
    <3>3. drv'.buf = drv.buf /\ drv'.len = drv.len /\ drv'.valid = drv.valid
          /\ drv'.header = drv.header
      BY <1>t, <3>1 DEF Drv24
    <3>. QED
      BY <1>h, <2>1, <3>2, <3>3 DEF Inv24
  <2>. QED
    BY <2>2, <2>3
<1>3. CASE N24!Listen
  <2>1. CASE drv.valid
    <3>1. drv' = drv /\ chip' = chip /\ pc' = [at |-> "recv"] /\ log' = log
      BY <1>3, <2>1 DEF N24!Listen, N24!Goto
    <3>. QED
      BY <1>t, <1>h, <2>1, <3>1 DEF Inv24, Type24
  <2>2. CASE ~drv.valid
    <3>1. /\ pc' = [at |-> "poll"] /\ log' = log
          /\ chip' = [chip EXCEPT !.mode = "rx"] /\ drv' = [drv EXCEPT !.mode = "rx"]
      BY <1>3, <2>2 DEF N24!Listen, N24!Goto, N24!OpMode
    <3>2. Type24'
      BY <1>t, <3>1 DEF Type24, Drv24, Chip24
    <3>3. ~drv'.valid /\ drv'.len = drv.len /\ drv'.buf = drv.buf
      BY <1>t, <2>2, <3>1 DEF Drv24
    <3>. QED
      BY <1>h, <3>1, <3>2, <3>3 DEF Inv24
  <2>. QED
    BY <2>1, <2>2
<1>4. CASE N24!Discard
  <2>1. /\ drv' = [drv EXCEPT !.len = 0, !.mode = "idle"]
        /\ chip' = [chip EXCEPT !.mode = "off", !.rx = <<>>]
        /\ pc' = [at |-> "idle"] /\ log' = log /\ pc.at = "poll"
    BY <1>4, <1>t DEF N24!Discard, N24!Goto, N24!OpMode, Chip24
  <2>2. <<>> \in Seq(Frame)
    OBVIOUS
  <2>3. drv' \in Drv24 /\ chip' \in Chip24
    BY <1>t, <2>1, <2>2 DEF Drv24, Chip24
  <2>4. Type24'
    BY <1>t, <2>1, <2>3 DEF Type24
  <2>5. ~drv'.valid /\ drv'.len = 0 /\ drv'.buf = drv.buf
    BY <1>t, <1>h, <2>1 DEF Drv24
  <2>. QED
    BY <1>b, <1>h, <2>1, <2>4, <2>5 DEF Inv24
<1>5. CASE N24!Available
  <2>0. pc.at = "poll" /\ log' = log
    BY <1>5 DEF N24!Available
  <2>1. CASE chip.rx = <<>>
    <3>1. drv' = drv /\ chip' = chip /\ pc' = [at |-> "idle"]
      BY <1>5, <2>1 DEF N24!Available, N24!Goto
    <3>. QED
      BY <1>t, <1>h, <2>0, <3>1 DEF Inv24, Type24
  <2>2. CASE chip.rx # <<>>
    <3>1. PICK f \in Frame : f = Head(chip.rx)
      BY <1>b, <2>2
    <3>2. PICK q \in Seq(Frame) : q = Tail(chip.rx)
      <4>1. Tail(chip.rx) \in Seq(Frame)
        BY <1>b, <2>2, HeadTailProperties
      <4>. QED
        BY <4>1
    <3>3. PICK b : b = N24!Over(drv.buf, N24!Bytes(f))
      OBVIOUS
    <3>4. /\ b \in Seq(Cell) /\ SubSeq(b, 1, f.len) = Bytes(f)
          /\ Len(b) >= f.len /\ Len(b) >= Len(drv.buf) /\ f.len \in Nat /\ Len(b) \in Nat
      BY <1>b, <3>3, Bytes24, Over24, OverBytes
    <3>5. PICK v \in BOOLEAN : v = f.mine
      BY DEF Frame
    <3>6. CASE v
      <4>1. /\ drv' = [drv EXCEPT !.buf = b, !.len = f.len, !.header = f,
                                  !.valid = TRUE, !.mode = "idle"]
            /\ chip' = [chip EXCEPT !.rx = q, !.mode = "off"]
            /\ pc' = [at |-> "recv"]
        BY <1>5, <1>t, <2>2, <3>1, <3>2, <3>3, <3>5, <3>6
           DEF N24!Available, N24!Goto, N24!OpMode, Drv24, Chip24
      <4>2. drv' \in Drv24 /\ chip' \in Chip24
        BY <1>t, <3>4, <4>1 DEF Drv24, Chip24
      <4>3. Type24'
        BY <1>t, <2>0, <4>1, <4>2 DEF Type24
      <4>4. drv'.buf = b /\ drv'.valid /\ drv'.len = f.len /\ drv'.header = f
        BY <1>t, <4>1 DEF Drv24
      <4>. QED
        BY <1>h, <2>0, <3>4, <4>1, <4>3, <4>4 DEF Inv24
    <3>7. CASE ~v
      <4>1. /\ drv' = [drv EXCEPT !.buf = b, !.len = f.len, !.header = f]
            /\ chip' = [chip EXCEPT !.rx = q]
            /\ pc' = [at |-> "idle"]
        BY <1>5, <1>t, <2>2, <3>1, <3>2, <3>3, <3>5, <3>7
           DEF N24!Available, N24!Goto, Drv24, Chip24
      <4>2. drv' \in Drv24 /\ chip' \in Chip24
        BY <1>t, <3>4, <4>1 DEF Drv24, Chip24
      <4>3. Type24'
        BY <1>t, <2>0, <4>1, <4>2 DEF Type24
      <4>4. drv'.buf = b /\ ~drv'.valid /\ drv'.len = f.len
        BY <1>t, <1>h, <2>0, <4>1 DEF Drv24
      <4>. QED
        BY <1>h, <2>0, <3>4, <4>1, <4>3, <4>4 DEF Inv24
    <3>. QED
      BY <3>6, <3>7
  <2>. QED
    BY <2>1, <2>2
<1>6. CASE N24!Recv
  <2>1. PICK d : d = SubSeq(drv.buf, 1, drv.len)
    OBVIOUS
  <2>2. d \in Seq(Cell)
    BY <1>b, <1>h, <2>1
  <2>3. /\ log' = [log EXCEPT !.got = <<d, drv.header, log.late>>, !.late = FALSE]
        /\ drv' = [drv EXCEPT !.valid = FALSE, !.len = 0]
        /\ pc' = [at |-> "idle"] /\ chip' = chip /\ pc.at = "recv"
    BY <1>6, <2>1 DEF N24!Recv, N24!Goto
  <2>4. Type24'
    BY <1>t, <2>2, <2>3 DEF Type24, Got905, Drv24
  <2>5. /\ log'.got = <<d, drv.header, log.late>> /\ log'.aired = log.aired
        /\ ~drv'.valid /\ drv'.len = 0 /\ drv'.buf = drv.buf /\ drv.valid
    BY <1>t, <1>h, <2>3 DEF Drv24
  <2>. QED
    BY <1>b, <1>h, <2>1, <2>3, <2>4, <2>5 DEF Inv24
<1>7. ASSUME NEW len \in N24!Lengths, NEW mine \in BOOLEAN, N24!Received(len, mine)
      PROVE  Inv24'
  <2>1. PICK f : f = N24!Heard(len, mine)
    OBVIOUS
  <2>2. f \in Frame
    BY <1>0, <1>t, <2>1, NewFrames, Heard24
  <2>3. PICK q \in Seq(Frame) : q = Append(chip.rx, f)
    <3>1. Append(chip.rx, f) \in Seq(Frame)
      BY <1>b, <2>2, AppendProperties
    <3>. QED
      BY <3>1
  <2>4. PICK n \in Nat : n = log.heard + 1
    BY <1>t
  <2>5. /\ chip' = [chip EXCEPT !.rx = q]
        /\ log' = [log EXCEPT !.heard = n]
        /\ drv' = drv /\ pc' = pc
    BY <1>7, <2>1, <2>3, <2>4 DEF N24!Received
  <2>6. Type24'
    BY <1>t, <2>5 DEF Type24, Chip24
  <2>. QED
    BY <1>t, <1>h, <2>5, <2>6 DEF Inv24
<1>8. CASE N24!Transmitted
  <2>0. chip.tx # <<>>
    BY <1>8 DEF N24!Transmitted
  <2>1. PICK d : d = N24!Bytes(Head(chip.tx))
    OBVIOUS
  <2>2. Whole(d) /\ d \in Seq(Cell)
    BY <1>b, <2>0, <2>1, Bytes24, BytesSeq
  <2>3. PICK q \in Seq(Frame) : q = Tail(chip.tx)
    <3>1. Tail(chip.tx) \in Seq(Frame)
      BY <1>b, <2>0, HeadTailProperties
    <3>. QED
      BY <3>1
  <2>4. /\ chip' = [chip EXCEPT !.tx = q, !.sent = TRUE]
        /\ log' = [log EXCEPT !.aired = d]
        /\ drv' = drv /\ pc' = pc
    BY <1>8, <2>1, <2>3 DEF N24!Transmitted
  <2>5. Type24'
    <3>1. LogType(Got905)'
      BY <1>t, <2>2, <2>4
    <3>2. chip' \in Chip24
      BY <1>t, <2>4 DEF Chip24
    <3>. QED
      BY <1>t, <2>4, <3>1, <3>2 DEF Type24
  <2>. QED
    BY <1>t, <1>h, <2>2, <2>4, <2>5 DEF Inv24
<1>. QED
  BY <1>1, <1>2, <1>3, <1>4, <1>5, <1>6, <1>7, <1>8 DEF N24!Next

\* It holds at the start.
LEMMA Init24 == N24!Init => Inv24
<1>. SUFFICES ASSUME N24!Init PROVE Inv24
  OBVIOUS
<1>1. N24!None = None
  BY DEF N24!None, None
<1>2. N24!NoLog = NoLog
  BY DEF N24!NoLog, NoLog, N24!None, None
<1>3. <<>> \in Seq(Frame)
  OBVIOUS
<1>. QED
  BY <1>1, <1>2, <1>3, Empty
     DEF N24!Init, NoLog, Inv24, Type24, LogType, Got905, Drv24, Chip24

-----------------------------------------------------------------------------
(* RF69 *)

\* The instance's operators on constants are Driver's.
LEMMA Bytes69 == ASSUME NEW f PROVE R69!Bytes(f) = Bytes(f)
BY DEF R69!Bytes, Bytes
LEMMA Whole69 == ASSUME NEW d PROVE R69!Whole(d) = Whole(d)
BY DEF R69!Bytes, Bytes, R69!Whole, Whole
LEMMA Heard69 == ASSUME NEW l, NEW m PROVE R69!Heard(l, m) = Heard(l, m)
BY DEF R69!Heard, Heard
LEMMA Asked69 == ASSUME NEW l PROVE R69!Asked(l) = Asked(l)
BY DEF R69!Asked, Asked
LEMMA None69 == R69!None = None
BY DEF R69!None, None

\* A packet names its frame first, and holds its bytes behind the headers.
LEMMA PacketParts ==
  ASSUME NEW f \in Frame
  PROVE  /\ R69!Packet(f) \in Seq(Cell) /\ Len(R69!Packet(f)) >= 3
         /\ R69!Packet(f)[1][1] = f
         /\ SubSeq(R69!Packet(f), 4, Len(R69!Packet(f))) = Bytes(f)
<1>0. PICK a \in Cell, b \in Cell, c \in Cell :
        a = <<f, "len">> /\ b = <<f, "to">> /\ c = <<f, "from">>
  BY DEF Cell
<1>1. PICK h \in Seq(Cell) : h = <<a, b, c>>
  <2>1. <<a, b, c>> \in Seq(Cell)
    OBVIOUS
  <2>. QED
    BY <2>1
<1>2. Len(h) = 3 /\ h[1] = <<f, "len">>
  BY <1>0, <1>1
<1>3. PICK d \in Seq(Cell) : d = Bytes(f)
  BY BytesSeq
<1>4. PICK p \in Seq(Cell) : p = h \o d
  <2>1. h \o d \in Seq(Cell)
    BY <1>1, <1>3, ConcatProperties
  <2>. QED
    BY <2>1
<1>5. PICK n \in Nat : n = Len(d)
  BY <1>3
<1>6. /\ Len(p) = n + 3
      /\ \A i \in 1 .. 3 : p[i] = h[i]
      /\ \A i \in 1 .. n : p[3 + i] = d[i]
  <2>1. /\ Len(p) = Len(h) + Len(d)
        /\ \A i \in 1 .. Len(h) : p[i] = h[i]
        /\ \A i \in 1 .. Len(d) : p[Len(h) + i] = d[i]
    BY <1>4, ConcatProperties
  <2>. QED
    BY <1>2, <1>5, <2>1
<1>7. p = R69!Packet(f)
  BY <1>0, <1>1, <1>3, <1>4, Bytes69 DEF R69!Packet
<1>8. p[1][1] = f
  BY <1>2, <1>6
<1>9. SubSeq(p, 4, Len(p)) = d
  <2>1. PICK q : q = SubSeq(p, 4, n + 3)
    OBVIOUS
  <2>2. q \in Seq(Cell) /\ Len(q) = n
    BY <1>5, <1>6, <2>1
  <2>3. \A i \in 1 .. n : q[i] = d[i]
    <3>. SUFFICES ASSUME NEW i \in 1 .. n PROVE q[i] = d[i]
      OBVIOUS
    <3>1. q[i] = p[3 + i]
      BY <1>5, <1>6, <2>1
    <3>. QED
      BY <1>6, <3>1
  <2>. QED
    BY <1>5, <1>6, <2>1, <2>2, <2>3
<1>. QED
  BY <1>3, <1>5, <1>6, <1>7, <1>8, <1>9

\* d is nothing, or one frame from the air not later than the n-th.
AirOld(d, n) ==
  Whole(d) /\ (d # <<>> => d[1][1].of = "air" /\ d[1][1].n <= n)

\* A frame from the air is not later than itself.
LEMMA AirOldBytes ==
  ASSUME NEW f \in Frame, f = None \/ f.of = "air"
  PROVE  AirOld(Bytes(f), f.n)
<1>1. PICK d \in Seq(Cell) : d = Bytes(f) /\ Len(d) = f.len /\ Whole(d)
  BY BytesSeq
<1>2. f.len \in Nat /\ f.n \in Nat /\ \A i \in 1 .. f.len : d[i] = <<f, i>>
  BY <1>1, BytesSeq DEF Frame
<1>3. CASE d = <<>>
  BY <1>1, <1>3 DEF AirOld
<1>4. CASE d # <<>>
  <2>1. f.len > 0
    BY <1>1, <1>2, <1>4
  <2>2. d[1] = <<f, 1>>
    BY <1>2, <2>1
  <2>3. d[1][1] = f
    BY <2>2
  <2>4. f.of = "air"
    BY <2>1 DEF None
  <2>. QED
    BY <1>1, <1>2, <2>3, <2>4 DEF AirOld
<1>. QED
  BY <1>3, <1>4

\* What is not later than the n-th is not later than a later one.
LEMMA AirOldLater ==
  ASSUME NEW d, NEW n \in Nat, NEW m \in Nat, n <= m, AirOld(d, n),
         d # <<>> => d[1][1].n \in Nat
  PROVE  AirOld(d, m)
BY DEF AirOld

Drv69 == [mode : {"idle", "rx", "tx"}, buf : Seq(Cell), header : Frame, valid : BOOLEAN]
Chip69 == [mode : {"standby", "rx", "tx"}, fifo : Seq(Cell), dio : {"ready", "sent"},
           hears : Frame, ready : BOOLEAN, sent : BOOLEAN, line : BOOLEAN]
Pc69 == [at : {"idle", "send", "standby", "fill", "mode", "transmit", "wait",
               "listening", "polled", "copy"}]
Data69 == [at : {"clear", "header"}, data : Seq(Cell)]
Got69 == {<<>>} \cup (Seq(Cell) \X Frame)

Type69 ==
  /\ drv \in Drv69
  /\ chip \in Chip69
  /\ pc \in Pc69 \cup Data69
  /\ LogType(Got69)

\* The chip's mode and the driver's, at each step of the program.
Modes69 ==
  /\ drv.mode = "tx" => pc.at = "wait"
  /\ pc.at \in {"fill", "mode", "transmit", "listening"} => drv.mode # "rx"
  /\ chip.mode = "tx" => drv.mode = "tx" \/ pc.at = "transmit"
  /\ drv.mode = "idle" /\ pc.at \notin {"listening", "transmit"} => chip.mode = "standby"
  /\ pc.at = "standby" => chip.mode = "standby"
  /\ pc.at = "transmit" => chip.mode = "tx" /\ ~chip.sent
  /\ pc.at = "listening" => ~chip.ready

Holds(f) == chip.fifo = R69!Packet(f)

\* What the FIFO holds from the moment a packet is written until it has been
\* sent, and from the moment one has been received until the driver reads it.
Fifo69 ==
  /\ \/ pc.at \in {"mode", "transmit"}
     \/ chip.mode = "tx" /\ ~chip.sent
     => log.late \/ \E f \in Frame : Holds(f)
  /\ drv.mode = "rx" /\ chip.ready =>
       \E f \in Frame : Holds(f) /\ f.of = "air" /\ f.n = log.heard
  /\ chip.hears # None => chip.hears.of = "air" /\ chip.hears.n = log.heard

\* The buffer, and what has been taken from it.
Buf69 ==
  /\ drv.buf = Bytes(drv.header)
  /\ drv.header = None \/ drv.header.of = "air"
  /\ drv.header.n <= log.heard
  /\ pc.at \in {"clear", "header"} => AirOld(pc.data, drv.header.n)

Hist69 ==
  /\ log.late \/ Whole(log.aired)
  /\ log.got # <<>> => AirOld(log.got[1], log.got[2].n)

Inv69 == Type69 /\ Modes69 /\ Fifo69 /\ Buf69 /\ Hist69

\* The bytes of a sequence of cells that names its frame.
LEMMA NumberOfFirst ==
  ASSUME NEW d \in Seq(Cell), d # <<>>
  PROVE  d[1][1].n \in Nat
<1>1. d[1] \in Cell
  OBVIOUS
<1>2. d[1][1] \in Frame
  BY <1>1 DEF Cell
<1>. QED
  BY <1>2 DEF Frame

\* The invariant holds at the start.
LEMMA Init69 == R69!Init => Inv69
<1>. SUFFICES ASSUME R69!Init PROVE Inv69
  OBVIOUS
<1>1. R69!NoLog = NoLog
  BY DEF R69!NoLog, NoLog, R69!None, None
<1>2. /\ drv = [mode |-> "idle", buf |-> <<>>, header |-> None, valid |-> FALSE]
      /\ chip = [mode |-> "standby", fifo |-> <<>>, dio |-> "ready", hears |-> None,
                 ready |-> FALSE, sent |-> FALSE, line |-> FALSE]
      /\ pc = [at |-> "idle"] /\ log = NoLog
  BY <1>1, None69 DEF R69!Init
<1>3. Type69
  BY <1>2, Empty DEF Type69, Drv69, Chip69, Pc69, LogType, Got69, NoLog
<1>4. Modes69 /\ Fifo69
  BY <1>2 DEF Modes69, Fifo69
<1>5. Bytes(None) = <<>> /\ None.n = 0
  <2>1. None \in Frame /\ None.len = 0 /\ None.n = 0
    BY Empty DEF None
  <2>. QED
    BY <2>1, BytesSeq
<1>6. Buf69 /\ Hist69
  BY <1>2, <1>5, Empty DEF Buf69, Hist69, NoLog
<1>. QED
  BY <1>3, <1>4, <1>6 DEF Inv69

\* setOpMode, on the chip's part of the state.
Mode69(c, m) ==
  IF m = c.mode THEN c
  ELSE [c EXCEPT !.mode = m, !.hears = None,
                 !.fifo = IF m = "rx" \/ c.mode = "tx" THEN <<>> ELSE @,
                 !.ready = @ /\ m = "standby", !.sent = FALSE]

\* The chip's change of mode, without the record of both.
LEMMA OpMode69 ==
  ASSUME NEW v, NEW c \in Chip69, NEW m
  PROVE  R69!OpMode([drv |-> v, chip |-> c], m) = [drv |-> v, chip |-> Mode69(c, m)]
BY None69 DEF R69!OpMode, Mode69, Chip69

\* setModeIdle leaves the chip alone if the driver believes it idle.
LEMMA SetModeIdle69 ==
  ASSUME NEW v \in Drv69, NEW c \in Chip69
  PROVE  R69!SetModeIdle([drv |-> v, chip |-> c]) =
           [drv |-> [v EXCEPT !.mode = "idle"],
            chip |-> IF v.mode = "idle" THEN c ELSE Mode69(c, "standby")]
<1>1. CASE v.mode = "idle"
  <2>1. [v EXCEPT !.mode = "idle"] = v
    BY <1>1 DEF Drv69
  <2>. QED
    BY <1>1, <2>1 DEF R69!SetModeIdle
<1>2. CASE v.mode # "idle"
  <2>1. PICK m : m = Mode69(c, "standby")
    OBVIOUS
  <2>2. PICK x : x = [drv |-> v, chip |-> m]
    OBVIOUS
  <2>3. R69!OpMode([drv |-> v, chip |-> c], "standby") = x
    BY <2>1, <2>2, OpMode69
  <2>4. R69!SetModeIdle([drv |-> v, chip |-> c]) = [x EXCEPT !.drv.mode = "idle"]
    BY <1>2, <2>3 DEF R69!SetModeIdle
  <2>5. [x EXCEPT !.drv.mode = "idle"] = [drv |-> [v EXCEPT !.mode = "idle"], chip |-> m]
    BY <2>2
  <2>. QED
    BY <1>2, <2>1, <2>4, <2>5
<1>. QED
  BY <1>1, <1>2

\* What a change of mode does to the chip, field by field.
LEMMA ModeType69 ==
  ASSUME NEW c \in Chip69, NEW m \in {"standby", "rx", "tx"}
  PROVE  /\ Mode69(c, m) \in Chip69
         /\ Mode69(c, m).mode = m /\ Mode69(c, m).dio = c.dio /\ Mode69(c, m).line = c.line
         /\ m # c.mode => /\ Mode69(c, m).hears = None /\ ~Mode69(c, m).sent
                          /\ Mode69(c, m).ready = (c.ready /\ m = "standby")
                          /\ Mode69(c, m).fifo =
                               IF m = "rx" \/ c.mode = "tx" THEN <<>> ELSE c.fifo
         /\ m = c.mode => Mode69(c, m) = c
<1>. USE DEF Chip69
<1>1. <<>> \in Seq(Cell) /\ None \in Frame
  BY Empty
<1>. QED
  BY <1>1 DEF Mode69

\* Nested EXCEPTs on the record of driver and chip are records of the two.
LEMMA ChipLine ==
  ASSUME NEW v, NEW k, NEW x, x = [drv |-> v, chip |-> k]
  PROVE  [x EXCEPT !.chip.line = FALSE] = [drv |-> v, chip |-> [k EXCEPT !.line = FALSE]]
<1>1. x.chip = k
  OBVIOUS
<1>2. [x EXCEPT !.chip.line = FALSE] = [x EXCEPT !.chip = [k EXCEPT !.line = FALSE]]
  BY <1>1
<1>3. PICK w : w = [k EXCEPT !.line = FALSE]
  OBVIOUS
<1>4. [x EXCEPT !.chip = w] = [drv |-> v, chip |-> w]
  OBVIOUS
<1>. QED
  BY <1>2, <1>3, <1>4

\* As for line.
LEMMA ChipDio ==
  ASSUME NEW v, NEW k, NEW x, x = [drv |-> v, chip |-> k], NEW r
  PROVE  [x EXCEPT !.chip.dio = r] = [drv |-> v, chip |-> [k EXCEPT !.dio = r]]
<1>1. x.chip = k
  OBVIOUS
<1>2. [x EXCEPT !.chip.dio = r] = [x EXCEPT !.chip = [k EXCEPT !.dio = r]]
  BY <1>1
<1>3. PICK w : w = [k EXCEPT !.dio = r]
  OBVIOUS
<1>4. [x EXCEPT !.chip = w] = [drv |-> v, chip |-> w]
  OBVIOUS
<1>. QED
  BY <1>2, <1>3, <1>4

\* What setModeRx and setModeTx do to the chip.
LEMMA Switch69 ==
  ASSUME NEW m, NEW r, drv \in Drv69, chip \in Chip69,
         R69!Becomes([R69!OpMode(R69!State, m) EXCEPT !.chip.dio = r])
  PROVE  drv' = drv /\ chip' = [Mode69(chip, m) EXCEPT !.dio = r]
<1>1. PICK v : v = drv
  OBVIOUS
<1>2. PICK c : c = Mode69(chip, m)
  OBVIOUS
<1>3. PICK x : x = [drv |-> v, chip |-> c]
  OBVIOUS
<1>4. R69!OpMode(R69!State, m) = x
  BY <1>1, <1>2, <1>3, OpMode69 DEF R69!State
<1>5. [x EXCEPT !.chip.dio = r] = [drv |-> v, chip |-> [c EXCEPT !.dio = r]]
  BY ONLY <1>3, ChipDio
<1>6. PICK w : w = [c EXCEPT !.dio = r]
  OBVIOUS
<1>7. PICK z : z = [drv |-> v, chip |-> w]
  OBVIOUS
<1>8. [R69!OpMode(R69!State, m) EXCEPT !.chip.dio = r] = z
  BY ONLY <1>4, <1>5, <1>6, <1>7, Zenon
<1>9. drv' = z.drv /\ chip' = z.chip
  BY <1>8 DEF R69!Becomes
<1>. QED
  BY <1>1, <1>2, <1>6, <1>7, <1>9

\* handleInterrupt: the transmitter is switched off, a packet is read, or
\* nothing happens.
Handles69(c, m, q) ==
  \/ /\ drv.mode = "tx" /\ chip.sent
     /\ drv' = [drv EXCEPT !.mode = "idle"]
     /\ chip' = m
  \/ /\ drv.mode = "rx" /\ chip.ready
     /\ \/ /\ drv' = [drv EXCEPT !.mode = "idle"]
           /\ \E p \in {Tail(q), Tail(Tail(q))} :
                 chip' = [m EXCEPT !.fifo = p, !.ready = FALSE]
        \/ /\ drv' = [drv EXCEPT !.mode = "idle", !.buf = SubSeq(q, 4, Len(q)),
                                 !.header = q[1][1], !.valid = TRUE]
           /\ chip' = [m EXCEPT !.fifo = <<>>, !.ready = FALSE]
  \/ drv' = drv /\ chip' = c

\* handleInterrupt takes a packet sent, one received, or does nothing.
LEMMA Interrupt69 ==
  ASSUME drv \in Drv69, chip \in Chip69, R69!HandleInterrupt,
         NEW c, c = [chip EXCEPT !.line = FALSE],
         NEW m, m = Mode69(c, "standby"), NEW q, q = m.fifo
  PROVE  Handles69(c, m, q)
<1>. USE DEF Handles69
<1>. PICK s : s = [drv |-> drv, chip |-> c]
  OBVIOUS
<1>0. s.drv = drv /\ s.chip = c /\ c \in Chip69 /\ c.sent = chip.sent /\ c.ready = chip.ready
  BY DEF Chip69
<1>1. s = [R69!State EXCEPT !.chip.line = FALSE]
  <2>1. R69!State = [drv |-> drv, chip |-> chip]
    BY DEF R69!State
  <2>2. [[drv |-> drv, chip |-> chip] EXCEPT !.chip.line = FALSE]
        = [drv |-> drv, chip |-> c]
    <3>1. PICK k : k = chip
      OBVIOUS
    <3>2. PICK v : v = drv
      OBVIOUS
    <3>3. PICK x : x = [drv |-> v, chip |-> k]
      OBVIOUS
    <3>4. c = [k EXCEPT !.line = FALSE]
      BY <3>1
    <3>5. [x EXCEPT !.chip.line = FALSE] = [drv |-> v, chip |-> c]
      <4>1. [x EXCEPT !.chip.line = FALSE]
            = [drv |-> v, chip |-> [k EXCEPT !.line = FALSE]]
        BY ONLY <3>3, ChipLine
      <4>. QED
        BY ONLY <3>4, <4>1, Zenon
    <3>. QED
      BY <3>1, <3>2, <3>3, <3>5
  <2>. QED
    BY <2>1, <2>2
<1>2. drv' = R69!Handled(s).drv /\ chip' = R69!Handled(s).chip
  BY <1>1 DEF R69!HandleInterrupt, R69!Becomes
<1>3. drv.mode # "idle" =>
        R69!SetModeIdle(s) = [drv |-> [drv EXCEPT !.mode = "idle"],
                              chip |-> Mode69(c, "standby")]
  BY <1>0, SetModeIdle69
<1>4. CASE drv.mode = "tx" /\ chip.sent
  <2>1. PICK t : t = [drv |-> [drv EXCEPT !.mode = "idle"], chip |-> Mode69(c, "standby")]
    OBVIOUS
  <2>2. t.drv.mode = "idle"
    BY <2>1 DEF Drv69
  <2>3. R69!SetModeIdle(s) = t
    BY <1>3, <1>4, <2>1
  <2>4. R69!Handled(s) = t
    BY <1>0, <1>4, <2>2, <2>3 DEF R69!Handled
  <2>5. drv' = t.drv /\ chip' = t.chip
    BY <1>2, <2>4
  <2>6. t.drv = [drv EXCEPT !.mode = "idle"] /\ t.chip = Mode69(c, "standby")
    BY <2>1
  <2>. QED
    BY <1>4, <2>5, <2>6
<1>5. CASE drv.mode = "rx" /\ chip.ready
  <2>a. PICK v : v = [drv EXCEPT !.mode = "idle"]
    OBVIOUS
  <2>1. v = [drv EXCEPT !.mode = "idle"] /\ m = Mode69(c, "standby")
    BY <2>a
  <2>2. q = m.fifo
    OBVIOUS
  <2>3. m \in Chip69 /\ v \in Drv69
    BY <1>0, <2>1, ModeType69 DEF Drv69
  <2>4. PICK u : u = [drv |-> v, chip |-> m]
    OBVIOUS
  <2>5. R69!SetModeIdle(s) = u
    BY <1>3, <1>5, <2>1, <2>4
  <2>6. R69!Handled(s) = [R69!ReadFifo(u) EXCEPT !.chip.ready = FALSE]
    BY <1>0, <1>5, <2>5 DEF R69!Handled
  <2>7. ASSUME NEW p, R69!ReadFifo(u) = [u EXCEPT !.chip.fifo = p]
        PROVE  drv' = v /\ chip' = [m EXCEPT !.fifo = p, !.ready = FALSE]
    <3>1. PICK x : x = [drv |-> v, chip |-> [m EXCEPT !.fifo = p]]
      OBVIOUS
    <3>2. [u EXCEPT !.chip.fifo = p] = x
      BY ONLY <2>4, <3>1
    <3>3. [x EXCEPT !.chip.ready = FALSE]
          = [drv |-> v, chip |-> [[m EXCEPT !.fifo = p] EXCEPT !.ready = FALSE]]
      BY <3>1
    <3>4. [[m EXCEPT !.fifo = p] EXCEPT !.ready = FALSE] = [m EXCEPT !.fifo = p, !.ready = FALSE]
      OBVIOUS
    <3>5. R69!Handled(s) = [drv |-> v, chip |-> [m EXCEPT !.fifo = p, !.ready = FALSE]]
      BY <2>6, <2>7, <3>2, <3>3, <3>4
    <3>. QED
      BY <1>2, <3>5
  <2>8. PICK f : f = q[1][1]
    OBVIOUS
  <2>9. u.chip.fifo = q
    BY <2>2, <2>4
  <2>10. CASE f.len > MaxLen
    <3>1. R69!ReadFifo(u) = [u EXCEPT !.chip.fifo = Tail(q)]
      BY <2>8, <2>9, <2>10 DEF R69!ReadFifo
    <3>. QED
      BY <1>5, <2>1, <2>2, <2>7, <3>1
  <2>11. CASE ~(f.len > MaxLen) /\ ~f.mine
    <3>1. R69!ReadFifo(u) = [u EXCEPT !.chip.fifo = Tail(Tail(q))]
      BY <2>8, <2>9, <2>11 DEF R69!ReadFifo
    <3>. QED
      BY <1>5, <2>1, <2>2, <2>7, <3>1
  <2>12. CASE ~(f.len > MaxLen) /\ f.mine
    <3>1. PICK w : w = [v EXCEPT !.buf = SubSeq(q, 4, Len(q)), !.header = f, !.valid = TRUE]
      OBVIOUS
    <3>2. PICK y : y = [m EXCEPT !.fifo = <<>>]
      OBVIOUS
    <3>3. R69!ReadFifo(u) = [u EXCEPT !.chip.fifo = <<>>, !.drv.buf = SubSeq(q, 4, Len(q)),
                                      !.drv.header = f, !.drv.valid = TRUE]
      BY <2>8, <2>9, <2>12 DEF R69!ReadFifo
    <3>4. R69!ReadFifo(u) = [drv |-> w, chip |-> y]
      BY <2>3, <2>4, <3>1, <3>2, <3>3 DEF Drv69, Chip69
    <3>a. PICK x : x = [drv |-> w, chip |-> y]
      OBVIOUS
    <3>b. PICK r : r = [y EXCEPT !.ready = FALSE]
      OBVIOUS
    <3>z. PICK z : z = [drv |-> w, chip |-> r]
      OBVIOUS
    <3>c. [x EXCEPT !.chip.ready = FALSE] = z
      <4>1. [x EXCEPT !.chip.ready = FALSE] = [x EXCEPT !.chip = [y EXCEPT !.ready = FALSE]]
        BY <3>a
      <4>2. [x EXCEPT !.chip = r] = z
        BY <3>a, <3>z
      <4>. QED
        BY <3>b, <4>1, <4>2
    <3>5. R69!Handled(s) = z
      BY <2>6, <3>4, <3>a, <3>c
    <3>d. drv' = z.drv /\ chip' = z.chip
      BY <1>2, <3>5
    <3>6. drv' = w /\ chip' = [y EXCEPT !.ready = FALSE]
      BY <3>b, <3>z, <3>d
    <3>7. chip' = [m EXCEPT !.fifo = <<>>, !.ready = FALSE]
      BY <3>2, <3>6
    <3>8. drv' = [drv EXCEPT !.mode = "idle", !.buf = SubSeq(q, 4, Len(q)),
                             !.header = f, !.valid = TRUE]
      BY <2>1, <3>1, <3>6
    <3>. QED
      BY <1>5, <2>1, <2>2, <2>8, <3>7, <3>8
  <2>. QED
    BY <2>10, <2>11, <2>12
<1>6. CASE ~(drv.mode = "tx" /\ chip.sent) /\ ~(drv.mode = "rx" /\ chip.ready)
  <2>1. R69!Handled(s) = s
    BY <1>0, <1>6 DEF R69!Handled
  <2>. QED
    BY <1>0, <1>2, <2>1
<1>. QED
  BY <1>4, <1>5, <1>6

\* Every step of the RF69's driver, its chip and the air keeps the invariant.
LEMMA Next69 ==
  ASSUME Inv69, R69!Next, DriverAssumption
  PROVE  Inv69'
<1>. USE DEF LogType, Got69
<1>t. /\ drv \in Drv69
      /\ chip \in Chip69
      /\ pc \in Pc69 \cup Data69
      /\ log \in [heard : Nat, asked : Frame, aired : Seq(Cell), got : Got69,
                  late : BOOLEAN]
  BY DEF Inv69, Type69
<1>m. Modes69
  BY DEF Inv69
<1>f. Fifo69
  BY DEF Inv69
<1>b. Buf69
  BY DEF Inv69
<1>h. Hist69
  BY DEF Inv69
<1>i. ASSUME Type69', Modes69', Fifo69', Buf69', Hist69'
      PROVE  Inv69'
  BY <1>i DEF Inv69
<1>0. \A len \in R69!Lengths : len \in Nat
  BY DEF DriverAssumption, R69!Lengths
\* A step that only the program's place shows.
<1>g. ASSUME UNCHANGED <<drv, chip, log>>, pc' \in Pc69,
             pc'.at \notin {"mode", "transmit"}, Modes69'
      PROVE  Inv69'
  <2>1. Type69'
    BY <1>t, <1>g DEF Type69
  <2>2. pc'.at \notin {"clear", "header"}
    BY <1>g DEF Pc69
  <2>3. Buf69' /\ Hist69'
    BY <1>b, <1>h, <1>g, <2>2 DEF Buf69, Hist69
  <2>4. Fifo69'
    BY <1>f, <1>g DEF Fifo69, Holds
  <2>. QED
    BY <1>i, <1>g, <2>1, <2>3, <2>4
<1>1. ASSUME NEW len \in R69!Lengths, R69!Send(len) PROVE Inv69'
  <2>1. PICK m \in Frame : m = R69!Asked(len)
    BY <1>0, <1>t, NewFrames, Asked69
  <2>2. /\ pc.at = "idle" /\ UNCHANGED <<drv, chip>>
        /\ pc' = [at |-> IF len > MaxLen THEN "wait" ELSE "send"]
        /\ log' = [log EXCEPT !.asked = m]
    BY <1>1, <2>1 DEF R69!Send, R69!Goto
  <2>3. pc' \in Pc69 /\ pc'.at \in {"wait", "send"}
    BY <2>2 DEF Pc69
  <2>4. Type69'
    BY <1>t, <2>1, <2>2, <2>3 DEF Type69
  <2>5. Modes69'
    BY <1>m, <2>2, <2>3 DEF Modes69
  <2>6. log'.heard = log.heard /\ log'.aired = log.aired /\ log'.got = log.got
        /\ log'.late = log.late
    BY <1>t, <2>2
  <2>7. Fifo69' /\ Buf69' /\ Hist69'
    BY <1>f, <1>b, <1>h, <2>2, <2>3, <2>6 DEF Fifo69, Buf69, Hist69, Holds
  <2>. QED
    BY <1>i, <2>4, <2>5, <2>7
<1>2. ASSUME R69!Standby PROVE Inv69'
  <2>1. pc.at = "send" /\ drv.mode # "tx" /\ UNCHANGED log
    BY <1>2 DEF R69!Standby
  <2>2. CASE drv.mode = "idle"
    <3>1. UNCHANGED <<drv, chip, log>> /\ pc' = [at |-> "fill"]
      BY <1>2, <2>2 DEF R69!Standby, R69!Becomes, R69!State, R69!Goto
    <3>2. pc' \in Pc69
      BY <3>1 DEF Pc69
    <3>3. Modes69'
      BY <1>m, <2>1, <2>2, <3>1 DEF Modes69
    <3>. QED
      BY <1>g, <3>1, <3>2, <3>3
  <2>3. CASE drv.mode # "idle"
    <3>1. PICK c : c = Mode69(chip, "standby")
      OBVIOUS
    <3>2. PICK x : x = [drv |-> drv, chip |-> c]
      OBVIOUS
    <3>3. R69!OpMode(R69!State, "standby") = x
      BY <1>t, <3>1, <3>2, OpMode69 DEF R69!State
    <3>4. drv' = x.drv /\ chip' = x.chip /\ pc' = [at |-> "standby"]
      BY <1>2, <2>3, <3>3 DEF R69!Standby, R69!Becomes, R69!Goto
    <3>5. drv' = drv /\ chip' = c
      BY <3>2, <3>4
    <3>6. c \in Chip69 /\ c.mode = "standby"
      BY <1>t, <3>1, ModeType69
    <3>7. (c.ready => chip.ready) /\ (c.hears = None \/ c.hears = chip.hears)
          /\ (chip.mode # "tx" => c.fifo = chip.fifo)
      <4>1. CASE chip.mode = "standby"
        <5>1. c = chip
          BY <1>t, <3>1, <4>1, ModeType69
        <5>. QED
          BY <5>1
      <4>2. CASE chip.mode # "standby"
        <5>1. /\ c.hears = None
              /\ c.ready = (chip.ready /\ TRUE)
              /\ c.fifo = IF chip.mode = "tx" THEN <<>> ELSE chip.fifo
          BY <1>t, <3>1, <4>2, ModeType69
        <5>. QED
          BY <5>1
      <4>. QED
        BY <4>1, <4>2
    <3>8. chip.mode # "tx"
      BY <1>m, <2>1 DEF Modes69
    <3>9. Type69'
      BY <1>t, <2>1, <3>4, <3>5, <3>6 DEF Type69, Pc69
    <3>10. Modes69'
      BY <1>m, <2>1, <2>3, <3>4, <3>5, <3>6 DEF Modes69
    <3>11. Fifo69'
      BY <1>f, <2>1, <2>3, <3>4, <3>5, <3>6, <3>7, <3>8 DEF Fifo69, Holds
    <3>12. Buf69' /\ Hist69'
      BY <1>b, <1>h, <2>1, <3>4, <3>5 DEF Buf69, Hist69
    <3>. QED
      BY <1>i, <3>9, <3>10, <3>11, <3>12
  <2>. QED
    BY <2>2, <2>3
<1>3. ASSUME R69!InStandby PROVE Inv69'
  <2>1. /\ pc.at = "standby" /\ drv' = [drv EXCEPT !.mode = "idle"]
        /\ UNCHANGED <<chip, log>> /\ pc' = [at |-> "fill"]
    BY <1>3 DEF R69!InStandby, R69!Goto
  <2>2. drv' \in Drv69 /\ drv'.mode = "idle" /\ drv'.buf = drv.buf
        /\ drv'.header = drv.header
    BY <1>t, <2>1 DEF Drv69
  <2>3. Type69'
    BY <1>t, <2>1, <2>2 DEF Type69, Pc69
  <2>4. Modes69'
    BY <1>m, <2>1, <2>2 DEF Modes69
  <2>5. Fifo69' /\ Buf69' /\ Hist69'
    BY <1>m, <1>f, <1>b, <1>h, <2>1, <2>2 DEF Modes69, Fifo69, Buf69, Hist69, Holds
  <2>. QED
    BY <1>i, <2>3, <2>4, <2>5
<1>4. ASSUME R69!FillFifo PROVE Inv69'
  <2>1. PICK m \in Frame : m = log.asked
    BY <1>t
  <2>2. PICK q \in Seq(Cell) : q = chip.fifo
    BY <1>t DEF Chip69
  <2>3. PICK p \in Seq(Cell) : p = R69!Packet(m)
    BY PacketParts
  <2>4. PICK r \in Seq(Cell) : r = q \o p
    <3>1. q \o p \in Seq(Cell)
      BY ConcatProperties
    <3>. QED
      BY <3>1
  <2>5. q = <<>> => r = p
    BY <2>4
  <2>6. /\ pc.at = "fill" /\ UNCHANGED drv /\ pc' = [at |-> "mode"]
        /\ chip' = [chip EXCEPT !.fifo = r]
        /\ log' = [log EXCEPT !.late = (q # <<>>), !.aired = <<>>]
    BY <1>4, <2>1, <2>2, <2>3, <2>4 DEF R69!FillFifo, R69!Goto
  <2>7. chip' \in Chip69 /\ chip'.fifo = r /\ chip'.mode = chip.mode
        /\ chip'.hears = chip.hears /\ chip'.ready = chip.ready /\ chip'.sent = chip.sent
    BY <1>t, <2>6 DEF Chip69
  <2>8. log'.heard = log.heard /\ log'.aired = <<>> /\ log'.got = log.got
        /\ (log'.late <=> q # <<>>)
    BY <1>t, <2>6
  <2>9. Type69'
    BY <1>t, <2>6, <2>7, Empty DEF Type69, Pc69
  <2>10. Modes69'
    BY <1>m, <2>6, <2>7 DEF Modes69
  <2>11. Fifo69'
    BY <1>m, <1>f, <2>1, <2>3, <2>5, <2>6, <2>7, <2>8 DEF Modes69, Fifo69, Holds
  <2>12. Buf69' /\ Hist69'
    BY <1>b, <1>h, <2>6, <2>8, Empty DEF Buf69, Hist69
  <2>. QED
    BY <1>i, <2>9, <2>10, <2>11, <2>12
<1>5. ASSUME R69!Transmit PROVE Inv69'
  <2>1. /\ pc.at = "mode" /\ UNCHANGED log /\ pc' = [at |-> "transmit"]
        /\ drv' = drv /\ chip' = [Mode69(chip, "tx") EXCEPT !.dio = "sent"]
    BY <1>5, <1>t, Switch69 DEF R69!Transmit, R69!Goto
  <2>2. PICK c \in Chip69 : c = Mode69(chip, "tx")
    BY <1>t, ModeType69
  <2>3. chip.mode = "standby" /\ drv.mode = "idle"
    BY <1>t, <1>m, <2>1 DEF Modes69, Drv69
  <2>4. c.mode = "tx" /\ c.fifo = chip.fifo /\ ~c.sent /\ c.hears = None
    BY <1>t, <2>2, <2>3, ModeType69
  <2>5. chip' \in Chip69 /\ chip'.mode = "tx" /\ chip'.fifo = chip.fifo /\ ~chip'.sent
        /\ chip'.hears = None
    BY <2>1, <2>2, <2>4 DEF Chip69
  <2>6. Type69'
    BY <1>t, <2>1, <2>5 DEF Type69, Pc69
  <2>7. Modes69'
    BY <2>1, <2>3, <2>5 DEF Modes69
  <2>8. Fifo69' /\ Buf69' /\ Hist69'
    BY <1>f, <1>b, <1>h, <2>1, <2>3, <2>5 DEF Fifo69, Buf69, Hist69, Holds
  <2>. QED
    BY <1>i, <2>6, <2>7, <2>8
<1>6. ASSUME R69!Transmitting PROVE Inv69'
  <2>1. /\ pc.at = "transmit" /\ drv' = [drv EXCEPT !.mode = "tx"]
        /\ UNCHANGED <<chip, log>> /\ pc' = [at |-> "wait"]
    BY <1>6 DEF R69!Transmitting, R69!Goto
  <2>2. drv' \in Drv69 /\ drv'.mode = "tx" /\ drv'.buf = drv.buf
        /\ drv'.header = drv.header
    BY <1>t, <2>1 DEF Drv69
  <2>3. Type69'
    BY <1>t, <2>1, <2>2 DEF Type69, Pc69
  <2>4. Modes69'
    BY <1>m, <2>1, <2>2 DEF Modes69
  <2>5. Fifo69' /\ Buf69' /\ Hist69'
    BY <1>f, <1>b, <1>h, <2>1, <2>2 DEF Fifo69, Buf69, Hist69, Holds
  <2>. QED
    BY <1>i, <2>3, <2>4, <2>5
<1>7. ASSUME R69!PacketSent PROVE Inv69'
  <2>1. /\ pc.at = "wait" /\ drv.mode # "tx" /\ UNCHANGED <<drv, chip, log>>
        /\ pc' = [at |-> "idle"]
    BY <1>7 DEF R69!PacketSent, R69!Goto
  <2>2. pc' \in Pc69 /\ Modes69'
    BY <1>m, <2>1 DEF Pc69, Modes69
  <2>. QED
    BY <1>g, <2>1, <2>2
<1>8. ASSUME R69!Listen PROVE Inv69'
  <2>1. CASE drv.mode = "rx"
    <3>1. pc.at = "idle" /\ UNCHANGED <<drv, chip, log>> /\ pc' = [at |-> "polled"]
      BY <1>8, <2>1 DEF R69!Listen, R69!Becomes, R69!State, R69!Goto
    <3>2. pc' \in Pc69 /\ Modes69'
      BY <1>m, <3>1 DEF Pc69, Modes69
    <3>. QED
      BY <1>g, <3>1, <3>2
  <2>2. CASE drv.mode # "rx"
    <3>1. /\ pc.at = "idle" /\ UNCHANGED log /\ pc' = [at |-> "listening"]
          /\ drv' = drv /\ chip' = [Mode69(chip, "rx") EXCEPT !.dio = "ready"]
      BY <1>8, <1>t, <2>2, Switch69 DEF R69!Listen, R69!Goto
    <3>2. PICK c \in Chip69 : c = Mode69(chip, "rx")
      BY <1>t, ModeType69
    <3>3. chip.mode = "standby" /\ drv.mode = "idle"
      BY <1>t, <1>m, <2>2, <3>1 DEF Modes69, Drv69
    <3>4. c.mode = "rx" /\ ~c.ready /\ ~c.sent /\ c.hears = None
      BY <1>t, <3>2, <3>3, ModeType69
    <3>5. chip' \in Chip69 /\ chip'.mode = "rx" /\ ~chip'.ready /\ chip'.hears = None
      BY <3>1, <3>2, <3>4 DEF Chip69
    <3>6. Type69'
      BY <1>t, <3>1, <3>5 DEF Type69, Pc69
    <3>7. Modes69'
      BY <3>1, <3>3, <3>5 DEF Modes69
    <3>8. Fifo69' /\ Buf69' /\ Hist69'
      BY <1>b, <1>h, <3>1, <3>3, <3>5 DEF Fifo69, Buf69, Hist69, Holds
    <3>. QED
      BY <1>i, <3>6, <3>7, <3>8
  <2>. QED
    BY <2>1, <2>2
<1>9. ASSUME R69!Listening PROVE Inv69'
  <2>1. /\ pc.at = "listening" /\ drv' = [drv EXCEPT !.mode = "rx"]
        /\ UNCHANGED <<chip, log>> /\ pc' = [at |-> "polled"]
    BY <1>9 DEF R69!Listening, R69!Goto
  <2>2. drv' \in Drv69 /\ drv'.mode = "rx" /\ drv'.buf = drv.buf
        /\ drv'.header = drv.header
    BY <1>t, <2>1 DEF Drv69
  <2>3. Type69'
    BY <1>t, <2>1, <2>2 DEF Type69, Pc69
  <2>4. chip.mode # "tx" /\ ~chip.ready
    BY <1>m, <2>1 DEF Modes69
  <2>5. Modes69'
    BY <2>1, <2>2, <2>4 DEF Modes69
  <2>6. Fifo69' /\ Buf69' /\ Hist69'
    BY <1>f, <1>b, <1>h, <2>1, <2>2, <2>4 DEF Fifo69, Buf69, Hist69, Holds
  <2>. QED
    BY <1>i, <2>3, <2>5, <2>6
<1>10. ASSUME R69!Polled PROVE Inv69'
  <2>1. /\ pc.at = "polled" /\ UNCHANGED <<drv, chip, log>>
        /\ pc' = [at |-> IF drv.valid THEN "copy" ELSE "idle"]
    BY <1>10 DEF R69!Polled, R69!Goto
  <2>2. pc' \in Pc69 /\ Modes69'
    BY <1>m, <2>1 DEF Pc69, Modes69
  <2>. QED
    BY <1>g, <2>1, <2>2
<1>11. ASSUME R69!Copy PROVE Inv69'
  <2>1. PICK b \in Seq(Cell) : b = drv.buf
    BY <1>t DEF Drv69
  <2>2. /\ pc.at = "copy" /\ UNCHANGED <<drv, chip, log>>
        /\ pc' = [at |-> "clear", data |-> b]
    BY <1>11, <2>1 DEF R69!Copy
  <2>3. pc' \in Data69 /\ pc'.at = "clear" /\ pc'.data = b
    BY <2>1, <2>2 DEF Data69
  <2>4. PICK f \in Frame : f = drv.header
    BY <1>t DEF Drv69
  <2>5. AirOld(b, f.n)
    BY <1>b, <2>1, <2>4, AirOldBytes DEF Buf69
  <2>6. Type69'
    BY <1>t, <2>2, <2>3 DEF Type69
  <2>7. Modes69'
    BY <1>m, <2>2, <2>3 DEF Modes69
  <2>8. Fifo69' /\ Hist69'
    BY <1>f, <1>h, <2>2, <2>3 DEF Fifo69, Hist69, Holds
  <2>9. Buf69'
    BY <1>b, <2>2, <2>3, <2>4, <2>5 DEF Buf69
  <2>. QED
    BY <1>i, <2>6, <2>7, <2>8, <2>9
<1>12. ASSUME R69!Clear PROVE Inv69'
  <2>1. /\ pc.at = "clear" /\ drv' = [drv EXCEPT !.valid = FALSE]
        /\ pc' = [pc EXCEPT !.at = "header"] /\ UNCHANGED <<chip, log>>
    BY <1>12 DEF R69!Clear
  <2>2. pc \in Data69
    BY <1>t, <2>1 DEF Pc69
  <2>3. pc' \in Data69 /\ pc'.at = "header" /\ pc'.data = pc.data
    BY <2>1, <2>2 DEF Data69
  <2>4. drv' \in Drv69 /\ drv'.mode = drv.mode /\ drv'.buf = drv.buf
        /\ drv'.header = drv.header
    BY <1>t, <2>1 DEF Drv69
  <2>5. Type69'
    BY <1>t, <2>1, <2>3, <2>4 DEF Type69
  <2>6. Modes69'
    BY <1>m, <2>1, <2>3, <2>4 DEF Modes69
  <2>7. Fifo69' /\ Buf69' /\ Hist69'
    BY <1>f, <1>b, <1>h, <2>1, <2>3, <2>4 DEF Fifo69, Buf69, Hist69, Holds
  <2>. QED
    BY <1>i, <2>5, <2>6, <2>7
<1>13. ASSUME R69!Header PROVE Inv69'
  <2>1. /\ pc.at = "header" /\ pc' = [at |-> "idle"] /\ UNCHANGED <<drv, chip>>
        /\ log' = [log EXCEPT !.got = <<pc.data, drv.header>>]
    BY <1>13 DEF R69!Header, R69!Goto
  <2>2. pc \in Data69
    BY <1>t, <2>1 DEF Pc69
  <2>3. PICK d \in Seq(Cell) : d = pc.data
    BY <2>2 DEF Data69
  <2>4. PICK f \in Frame : f = drv.header
    BY <1>t DEF Drv69
  <2>5. PICK g : g = <<d, f>>
    OBVIOUS
  <2>6. g \in Got69 /\ g[1] = d /\ g[2] = f
    BY <2>5
  <2>7. log'.heard = log.heard /\ log'.aired = log.aired /\ log'.late = log.late
        /\ log'.got = g /\ LogType(Got69)'
    BY <1>t, <2>1, <2>3, <2>4, <2>5, <2>6
  <2>8. AirOld(d, f.n)
    BY <1>b, <2>1, <2>3, <2>4 DEF Buf69
  <2>9. Type69'
    BY <1>t, <2>1, <2>7 DEF Type69, Pc69
  <2>10. Modes69'
    BY <1>m, <2>1 DEF Modes69
  <2>11. Fifo69' /\ Buf69'
    BY <1>f, <1>b, <2>1, <2>7 DEF Fifo69, Buf69, Holds
  <2>12. Hist69'
    BY <1>h, <2>6, <2>7, <2>8 DEF Hist69
  <2>. QED
    BY <1>i, <2>9, <2>10, <2>11, <2>12
<1>14. ASSUME R69!HandleInterrupt PROVE Inv69'
  <2>1. PICK c : c = [chip EXCEPT !.line = FALSE]
    OBVIOUS
  <2>2. c \in Chip69 /\ c.mode = chip.mode /\ c.fifo = chip.fifo /\ c.hears = chip.hears
        /\ c.ready = chip.ready /\ c.sent = chip.sent
    BY <1>t, <2>1 DEF Chip69
  <2>3. UNCHANGED <<pc, log>>
    BY <1>14 DEF R69!HandleInterrupt
  <2>4. PICK m \in Chip69 : m = Mode69(c, "standby")
    BY <2>2, ModeType69
  <2>5. m.mode = "standby" /\ (m.hears = None \/ m.hears = chip.hears)
        /\ (chip.mode # "tx" => m.fifo = chip.fifo)
    BY <2>2, <2>4, ModeType69
  <2>q. PICK q \in Seq(Cell) : q = m.fifo
    BY <2>4 DEF Chip69
  <2>i. Handles69(c, m, q)
    <3>1. drv \in Drv69 /\ chip \in Chip69
      BY <1>t
    <3>. QED
      BY ONLY <1>14, <3>1, <2>1, <2>4, <2>q, Interrupt69
  <2>6. CASE /\ drv.mode = "tx" /\ chip.sent
             /\ drv' = [drv EXCEPT !.mode = "idle"]
             /\ chip' = m
    <3>1. drv' \in Drv69 /\ drv'.mode = "idle" /\ drv'.buf = drv.buf
          /\ drv'.header = drv.header
      BY <1>t, <2>6 DEF Drv69
    <3>2. pc.at = "wait"
      BY <1>m, <2>6 DEF Modes69
    <3>3. Type69'
      BY <1>t, <2>3, <2>4, <2>6, <3>1 DEF Type69
    <3>4. Modes69'
      BY <2>3, <2>5, <2>6, <3>1, <3>2 DEF Modes69
    <3>5. Fifo69' /\ Buf69' /\ Hist69'
      BY <1>f, <1>b, <1>h, <2>3, <2>5, <2>6, <3>1, <3>2
         DEF Fifo69, Buf69, Hist69, Holds
    <3>. QED
      BY <1>i, <3>3, <3>4, <3>5
  <2>7. CASE /\ drv.mode = "rx" /\ chip.ready
             /\ \/ /\ drv' = [drv EXCEPT !.mode = "idle"]
                   /\ \E p \in {Tail(q), Tail(Tail(q))} :
                         chip' = [m EXCEPT !.fifo = p, !.ready = FALSE]
                \/ /\ drv' = [drv EXCEPT !.mode = "idle", !.buf = SubSeq(q, 4, Len(q)),
                                         !.header = q[1][1], !.valid = TRUE]
                   /\ chip' = [m EXCEPT !.fifo = <<>>, !.ready = FALSE]
    <3>1. chip.mode # "tx" /\ pc.at \notin {"fill", "mode", "transmit", "listening"}
      BY <1>m, <2>7 DEF Modes69
    <3>2. PICK f \in Frame : m.fifo = R69!Packet(f) /\ f.of = "air" /\ f.n = log.heard
      BY <1>f, <2>5, <2>7, <3>1 DEF Fifo69, Holds
    <3>3. q = m.fifo
      BY <2>q
    <3>4. Len(q) >= 3 /\ q[1][1] = f /\ SubSeq(q, 4, Len(q)) = Bytes(f)
      BY <3>2, <3>3, PacketParts
    <3>5. Tail(q) \in Seq(Cell) /\ Tail(Tail(q)) \in Seq(Cell)
      <4>1. PICK r \in Seq(Cell) : r = Tail(q) /\ Len(r) = Len(q) - 1
        <5>1. q # <<>>
          BY <3>4
        <5>2. Tail(q) \in Seq(Cell) /\ Len(Tail(q)) = Len(q) - 1
          BY <5>1
        <5>. QED
          BY <5>2
      <4>2. r # <<>>
        <5>1. Len(q) \in Nat /\ Len(r) >= 2
          BY <3>4, <4>1
        <5>. QED
          BY <5>1
      <4>3. Tail(r) \in Seq(Cell)
        BY <4>2
      <4>. QED
        BY <4>1, <4>3
    <3>6. ASSUME NEW p \in Seq(Cell), chip' = [m EXCEPT !.fifo = p, !.ready = FALSE],
                 drv' \in Drv69, drv'.mode = "idle", Buf69'
          PROVE  Inv69'
      <4>1. chip' \in Chip69 /\ chip'.mode = "standby" /\ ~chip'.ready
            /\ chip'.hears = m.hears
        BY <2>4, <2>5, <3>6 DEF Chip69
      <4>2. Type69'
        BY <1>t, <2>3, <3>6, <4>1 DEF Type69
      <4>3. Modes69'
        BY <2>3, <3>1, <3>6, <4>1 DEF Modes69
      <4>4. Fifo69' /\ Hist69'
        BY <1>f, <1>h, <2>3, <2>5, <3>1, <3>6, <4>1 DEF Fifo69, Hist69, Holds
      <4>. QED
        BY <1>i, <3>6, <4>2, <4>3, <4>4
    <3>7. CASE /\ drv' = [drv EXCEPT !.mode = "idle"]
               /\ \E p \in {Tail(q), Tail(Tail(q))} :
                     chip' = [m EXCEPT !.fifo = p, !.ready = FALSE]
      <4>1. drv' \in Drv69 /\ drv'.mode = "idle" /\ drv'.buf = drv.buf
            /\ drv'.header = drv.header
        BY <1>t, <3>7 DEF Drv69
      <4>2. Buf69'
        BY <1>b, <2>3, <4>1 DEF Buf69
      <4>3. PICK p \in Seq(Cell) : chip' = [m EXCEPT !.fifo = p, !.ready = FALSE]
        BY <3>5, <3>7
      <4>. QED
        BY <3>6, <4>1, <4>2, <4>3
    <3>8. CASE /\ drv' = [drv EXCEPT !.mode = "idle", !.buf = SubSeq(q, 4, Len(q)),
                                     !.header = q[1][1], !.valid = TRUE]
               /\ chip' = [m EXCEPT !.fifo = <<>>, !.ready = FALSE]
      <4>1. PICK b \in Seq(Cell) : b = Bytes(f)
        BY BytesSeq
      <4>2. drv' = [drv EXCEPT !.mode = "idle", !.buf = b, !.header = f, !.valid = TRUE]
        BY <3>4, <3>8, <4>1
      <4>3. drv' \in Drv69 /\ drv'.mode = "idle" /\ drv'.buf = b /\ drv'.header = f
        BY <1>t, <4>2 DEF Drv69
      <4>4. PICK h \in Frame : h = drv.header
        BY <1>t DEF Drv69
      <4>5. h.n \in Nat /\ f.n \in Nat /\ h.n <= f.n
        BY <1>b, <3>2, <4>4 DEF Buf69, Frame
      <4>6. ASSUME pc.at \in {"clear", "header"} PROVE AirOld(pc.data, f.n)
        <5>1. pc \in Data69
          BY <1>t, <4>6 DEF Pc69
        <5>2. PICK d \in Seq(Cell) : d = pc.data
          BY <5>1 DEF Data69
        <5>3. AirOld(d, h.n)
          BY <1>b, <4>4, <4>6, <5>2 DEF Buf69
        <5>. QED
          BY <4>5, <5>2, <5>3, NumberOfFirst, AirOldLater
      <4>7. Buf69'
        BY <2>3, <3>2, <4>1, <4>3, <4>5, <4>6 DEF Buf69
      <4>. QED
        BY <3>6, <3>8, <4>3, <4>7, Empty
    <3>. QED
      BY <2>7, <3>7, <3>8
  <2>8. CASE drv' = drv /\ chip' = c
    <3>1. Type69'
      BY <1>t, <2>2, <2>3, <2>8 DEF Type69
    <3>2. Modes69'
      BY <1>m, <2>2, <2>3, <2>8 DEF Modes69
    <3>3. Fifo69' /\ Buf69' /\ Hist69'
      BY <1>f, <1>b, <1>h, <2>2, <2>3, <2>8 DEF Fifo69, Buf69, Hist69, Holds
    <3>. QED
      BY <1>i, <3>1, <3>2, <3>3
  <2>. QED
    BY <2>i, <2>6, <2>7, <2>8 DEF Handles69
<1>15. ASSUME NEW len \in R69!Lengths, NEW mine \in BOOLEAN, R69!Hear(len, mine)
       PROVE  Inv69'
  <2>1. PICK m \in Frame : m = R69!Heard(len, mine)
    BY <1>0, <1>t, NewFrames, Heard69
  <2>2. m.of = "air" /\ m.n = log.heard + 1
    BY <2>1 DEF R69!Heard
  <2>3. PICK n \in Nat : n = log.heard + 1
    BY <1>t
  <2>4. /\ chip.mode = "rx" /\ ~chip.ready /\ UNCHANGED <<drv, pc>>
        /\ log' = [log EXCEPT !.heard = n]
        /\ chip' = [chip EXCEPT !.hears = m]
    BY <1>15, <2>1, <2>3 DEF R69!Hear
  <2>5. chip' \in Chip69 /\ chip'.mode = "rx" /\ ~chip'.ready /\ chip'.hears = m
    /\ chip'.sent = chip.sent
    BY <1>t, <2>4 DEF Chip69
  <2>6. log'.heard = n /\ log'.aired = log.aired /\ log'.got = log.got
        /\ log'.late = log.late /\ LogType(Got69)'
    BY <1>t, <2>4
  <2>7. pc.at \notin {"mode", "transmit"}
    BY <1>t, <1>m, <2>4 DEF Modes69, Drv69
  <2>8. Type69'
    BY <1>t, <2>4, <2>5, <2>6 DEF Type69
  <2>9. Modes69'
    BY <1>m, <2>4, <2>5 DEF Modes69
  <2>10. Fifo69'
    BY <2>2, <2>3, <2>4, <2>5, <2>6, <2>7 DEF Fifo69
  <2>11. Buf69' /\ Hist69'
    <3>1. PICK k \in Nat : k = drv.header.n
      BY <1>t DEF Drv69, Frame
    <3>. QED
      BY <1>t, <1>b, <1>h, <2>3, <2>4, <2>6, <3>1 DEF Buf69, Hist69
  <2>. QED
    BY <1>i, <2>8, <2>9, <2>10, <2>11
<1>16. ASSUME NEW good \in BOOLEAN, R69!Received(good) PROVE Inv69'
  <2>1. PICK f \in Frame : f = chip.hears
    BY <1>t DEF Chip69
  <2>2. PICK p \in Seq(Cell) : p = R69!Packet(f)
    BY PacketParts
  <2>3. chip.mode = "rx" /\ f # None /\ pc.at # "listening" /\ UNCHANGED <<drv, pc, log>>
    BY <1>16, <2>1, None69 DEF R69!Received
  <2>4. f.of = "air" /\ f.n = log.heard
    BY <1>f, <2>1, <2>3 DEF Fifo69
  <2>5. pc.at \notin {"mode", "transmit"}
    BY <1>t, <1>m, <2>3 DEF Modes69, Drv69
  <2>6. /\ chip' \in Chip69 /\ chip'.mode = "rx" /\ chip'.hears = None
        /\ \/ chip'.fifo = p
           \/ chip'.ready = chip.ready /\ chip'.fifo = chip.fifo
    <3>1. CASE good
      <4>1. PICK l \in BOOLEAN : l = (chip.line \/ chip.dio = "ready")
        OBVIOUS
      <4>2. chip' = [chip EXCEPT !.hears = None, !.fifo = p, !.ready = TRUE, !.line = l]
        BY <1>16, <2>1, <2>2, <3>1, <4>1, None69 DEF R69!Received
      <4>. QED
        BY <1>t, <2>3, <4>2, Empty DEF Chip69
    <3>2. CASE ~good
      <4>1. chip' = [chip EXCEPT !.hears = None]
        BY <1>16, <3>2, None69 DEF R69!Received
      <4>. QED
        BY <1>t, <2>3, <4>1, Empty DEF Chip69
    <3>. QED
      BY <3>1, <3>2
  <2>7. Type69'
    BY <1>t, <2>3, <2>6 DEF Type69
  <2>8. Modes69'
    BY <1>m, <2>3, <2>5, <2>6 DEF Modes69
  <2>9. Fifo69'
    BY <1>f, <2>2, <2>3, <2>4, <2>5, <2>6 DEF Fifo69, Holds
  <2>10. Buf69' /\ Hist69'
    BY <1>b, <1>h, <2>3 DEF Buf69, Hist69
  <2>. QED
    BY <1>i, <2>7, <2>8, <2>9, <2>10
<1>17. ASSUME R69!Transmitted PROVE Inv69'
  <2>1. PICK q \in Seq(Cell) : q = chip.fifo
    BY <1>t DEF Chip69
  <2>2. PICK d \in Seq(Cell) : d = SubSeq(q, 4, Len(q))
    <3>1. SubSeq(q, 4, Len(q)) \in Seq(Cell)
      OBVIOUS
    <3>. QED
      BY <3>1
  <2>3. PICK l \in BOOLEAN : l = (chip.line \/ chip.dio = "sent")
    OBVIOUS
  <2>4. /\ chip.mode = "tx" /\ ~chip.sent /\ pc.at # "transmit" /\ UNCHANGED <<drv, pc>>
        /\ chip' = [chip EXCEPT !.fifo = <<>>, !.sent = TRUE, !.line = l]
        /\ log' = [log EXCEPT !.aired = d]
    BY <1>17, <2>1, <2>2, <2>3 DEF R69!Transmitted
  <2>5. chip' \in Chip69 /\ chip'.mode = "tx" /\ chip'.sent /\ chip'.hears = chip.hears
    BY <1>t, <2>4, Empty DEF Chip69
  <2>6. log'.heard = log.heard /\ log'.aired = d /\ log'.got = log.got
        /\ log'.late = log.late /\ LogType(Got69)'
    BY <1>t, <2>4
  <2>7. drv.mode = "tx" /\ pc.at = "wait"
    BY <1>m, <2>4 DEF Modes69
  <2>8. log.late \/ Whole(d)
    <3>1. CASE ~log.late
      <4>1. PICK f \in Frame : q = R69!Packet(f)
        BY <1>f, <2>1, <2>4, <3>1 DEF Fifo69, Holds
      <4>2. d = Bytes(f)
        BY <2>2, <4>1, PacketParts
      <4>. QED
        BY <4>2, BytesSeq
    <3>. QED
      BY <3>1
  <2>9. Type69'
    BY <1>t, <2>4, <2>5, <2>6 DEF Type69
  <2>10. Modes69'
    BY <2>4, <2>5, <2>7 DEF Modes69
  <2>11. Fifo69'
    BY <1>f, <2>4, <2>5, <2>6, <2>7 DEF Fifo69
  <2>12. Buf69' /\ Hist69'
    BY <1>b, <1>h, <2>4, <2>6, <2>8 DEF Buf69, Hist69
  <2>. QED
    BY <1>i, <2>9, <2>10, <2>11, <2>12
<1>. QED
  BY <1>1, <1>2, <1>3, <1>4, <1>5, <1>6, <1>7, <1>8, <1>9, <1>10, <1>11, <1>12, <1>13,
     <1>14, <1>15, <1>16, <1>17 DEF R69!Next

-----------------------------------------------------------------------------
(* RF22 *)

\* The instance's operators on constants are Driver's.
LEMMA Bytes22 == ASSUME NEW f PROVE R22!Bytes(f) = Bytes(f)
BY DEF R22!Bytes, Bytes
LEMMA Whole22 == ASSUME NEW d PROVE R22!Whole(d) = Whole(d)
BY DEF R22!Bytes, Bytes, R22!Whole, Whole
LEMMA Heard22 == ASSUME NEW l, NEW m PROVE R22!Heard(l, m) = Heard(l, m)
BY DEF R22!Heard, Heard
LEMMA Asked22 == ASSUME NEW l PROVE R22!Asked(l) = Asked(l)
BY DEF R22!Asked, Asked
LEMMA None22 == R22!None = None
BY DEF R22!None, None

Rx22 == {"FFERR", "RXFFAFULL", "PKVALID", "CRCERROR", "PREAVAL"}
Flag22 == Rx22 \cup {"TXFFAEM", "PKSENT"}
Drv22 == [mode : {"idle", "rx", "tx"}, buf : Seq(Cell), sent : Nat, valid : BOOLEAN]
Chip22 == [mode : {"idle", "rx", "tx"}, rx : Seq(Cell), tx : Seq(Cell), length : Nat,
           rxLength : Nat, header : Frame, hears : Frame, out : Seq(Cell),
           flags : SUBSET Flag22]
S22 == [drv : Drv22, chip : Chip22]
Pc22 == [at : {"idle", "send", "mode", "wait", "listen", "listening", "polled", "copy"}]

Type22 ==
  /\ drv \in Drv22
  /\ chip \in Chip22
  /\ pc \in Pc22 \cup Data69
  /\ LogType(Got69)

\* d is nothing, or one frame, if from the air not later than the n-th.
Part(d, n) ==
  Whole(d) /\ (d # <<>> /\ d[1][1].of = "air" => d[1][1].n <= n)

\* The chip's mode and the driver's, at each step of the program.
Modes22 ==
  /\ drv.mode = "tx" => pc.at = "wait"
  /\ chip.mode = "tx" => drv.mode = "tx"
  /\ chip.mode = "rx" => drv.mode = "rx" \/ pc.at = "listening"
  /\ pc.at = "listening" => chip.mode = "rx" /\ drv.mode = "idle"

\* Which flags can be up.
Flags22 ==
  /\ chip.flags # {} => \/ drv.mode \in {"rx", "tx"}
                        \/ pc.at = "listening" /\ chip.flags = {"PREAVAL"}
  /\ drv.mode = "rx" => chip.flags \subseteq Rx22
  /\ chip.flags \cap {"PKVALID", "CRCERROR"} # {} => chip.mode = "idle"
  /\ chip.hears # None => /\ chip.mode = "rx" /\ chip.hears.of = "air"
                          /\ chip.hears.n = log.heard
                          /\ "PREAVAL" \in chip.flags \/ chip.flags = {}

\* A frame finds the FIFO and the buffer empty once its preamble has been seen
\* to, and fills the buffer unless another has been announced.
Buf22 ==
  /\ chip.hears # None /\ "PREAVAL" \notin chip.flags /\ pc.at # "mode" =>
       chip.rx = <<>> /\ drv.buf = <<>>
  /\ "PKVALID" \in chip.flags /\ "PREAVAL" \notin chip.flags /\ pc.at # "mode" =>
       /\ drv.buf = <<>> /\ chip.rx = Bytes(chip.header)
       /\ chip.rxLength = chip.header.len /\ chip.header.of = "air"
       /\ "FFERR" \notin chip.flags /\ "CRCERROR" \notin chip.flags
  /\ chip.header.n <= log.heard
  /\ Part(drv.buf, chip.header.n)
  /\ pc.at \in {"clear", "header"} => Part(pc.data, chip.header.n)

\* A message from FillTxBuf until it has gone out.
Loaded22 == drv.buf = Bytes(log.asked) /\ drv.sent = log.asked.len

Tx22 ==
  /\ log.asked.of # "air"
  /\ drv.mode = "tx" =>
       /\ Loaded22
       /\ \/ /\ chip.mode = "tx" /\ chip.flags = {} /\ chip.length = log.asked.len
             /\ chip.out \o chip.tx = Bytes(log.asked)
          \/ chip.mode = "idle" /\ chip.flags = {"PKSENT", "TXFFAEM"} /\ chip.tx = <<>>
  /\ pc.at = "mode" =>
       Loaded22 /\ chip.tx = Bytes(log.asked) /\ chip.length = log.asked.len
  /\ drv.mode # "tx" /\ pc.at # "mode" => chip.tx = <<>>

Hist22 ==
  /\ Whole(log.aired)
  /\ log.got # <<>> => Part(log.got[1], log.got[2].n)

\* Once the receiver has raised a flag while the transmitter was being loaded,
\* nothing is promised.
Late22 == "late" \in DOMAIN log /\ log.late
Good22 == Type22 /\ ~log.late /\ Modes22 /\ Flags22 /\ Buf22 /\ Tx22 /\ Hist22
Inv22 == Late22 \/ Good22

\* A frame is not later than itself.
LEMMA PartBytes ==
  ASSUME NEW f \in Frame PROVE Part(Bytes(f), f.n)
<1>1. PICK d \in Seq(Cell) : d = Bytes(f) /\ Len(d) = f.len /\ Whole(d)
  BY BytesSeq
<1>2. f.len \in Nat /\ f.n \in Nat /\ \A i \in 1 .. f.len : d[i] = <<f, i>>
  BY <1>1, BytesSeq DEF Frame
<1>3. CASE d = <<>>
  BY <1>1, <1>3 DEF Part
<1>4. CASE d # <<>>
  <2>1. f.len > 0
    BY <1>1, <1>2, <1>4
  <2>2. d[1] = <<f, 1>>
    BY <1>2, <2>1
  <2>3. d[1][1] = f
    BY <2>2
  <2>. QED
    BY <1>1, <1>2, <2>3 DEF Part
<1>. QED
  BY <1>3, <1>4

\* A message of the node's own is no frame from the air.
LEMMA PartOwn ==
  ASSUME NEW f \in Frame, f.of # "air", NEW n PROVE Part(Bytes(f), n)
<1>1. PICK d \in Seq(Cell) : d = Bytes(f) /\ Len(d) = f.len /\ Whole(d)
  BY BytesSeq
<1>2. f.len \in Nat /\ \A i \in 1 .. f.len : d[i] = <<f, i>>
  BY <1>1, BytesSeq DEF Frame
<1>3. CASE d = <<>>
  BY <1>1, <1>3 DEF Part
<1>4. CASE d # <<>>
  <2>1. f.len > 0
    BY <1>1, <1>2, <1>4
  <2>2. d[1] = <<f, 1>>
    BY <1>2, <2>1
  <2>3. d[1][1] = f
    BY <2>2
  <2>. QED
    BY <1>1, <2>3 DEF Part
<1>. QED
  BY <1>3, <1>4

\* What is not later than the n-th is not later than a later one.
LEMMA PartLater ==
  ASSUME NEW d \in Seq(Cell), NEW n \in Nat, NEW m \in Nat, n <= m, Part(d, n)
  PROVE  Part(d, m)
<1>1. CASE d = <<>>
  BY <1>1 DEF Part
<1>2. CASE d # <<>>
  <2>1. d[1][1].n \in Nat
    BY <1>2, NumberOfFirst
  <2>. QED
    BY <2>1 DEF Part
<1>. QED
  BY <1>1, <1>2

\* Nothing is not late.
LEMMA PartEmpty == ASSUME NEW n PROVE Part(<<>>, n)
BY DEF Part, Whole

-----------------------------------------------------------------------------
(* What the driver's operators do to s, field by field. *)

\* clearRxBuf empties the buffer.
LEMMA ClearRx22 ==
  ASSUME NEW s \in S22, NEW t, t = R22!ClearRxBuf(s)
  PROVE  /\ t \in S22 /\ t.chip = s.chip
         /\ t.drv.buf = <<>> /\ t.drv.mode = s.drv.mode
BY Empty DEF S22, Drv22, R22!ClearRxBuf

\* resetRxFifo empties the receiver's FIFO and no other.
LEMMA ResetRx22 ==
  ASSUME NEW s \in S22, NEW t, t = R22!ResetRxFifo(s)
  PROVE  /\ t \in S22 /\ t.drv = s.drv
         /\ t.chip.rx = <<>> /\ t.chip.tx = s.chip.tx /\ t.chip.mode = s.chip.mode
         /\ t.chip.hears = s.chip.hears /\ t.chip.header = s.chip.header
         /\ t.chip.flags = s.chip.flags /\ t.chip.rxLength = s.chip.rxLength
         /\ t.chip.out = s.chip.out /\ t.chip.length = s.chip.length
BY Empty DEF S22, Chip22, R22!ResetRxFifo

\* resetFifos empties both.
LEMMA Reset22 ==
  ASSUME NEW s \in S22, NEW t, t = R22!ResetFifos(s)
  PROVE  /\ t \in S22 /\ t.drv = s.drv
         /\ t.chip.rx = <<>> /\ t.chip.tx = <<>> /\ t.chip.mode = s.chip.mode
         /\ t.chip.hears = s.chip.hears /\ t.chip.header = s.chip.header
         /\ t.chip.flags = s.chip.flags /\ t.chip.rxLength = s.chip.rxLength
<1>1. PICK u : u = R22!ResetRxFifo(s)
  OBVIOUS
<1>2. /\ u \in S22 /\ u.drv = s.drv
      /\ u.chip.rx = <<>> /\ u.chip.mode = s.chip.mode
      /\ u.chip.hears = s.chip.hears /\ u.chip.header = s.chip.header
      /\ u.chip.flags = s.chip.flags /\ u.chip.rxLength = s.chip.rxLength
  BY <1>1, ResetRx22
<1>3. t = [u EXCEPT !.chip.tx = <<>>]
  BY <1>1 DEF R22!ResetFifos
<1>4. /\ t \in S22 /\ t.drv = u.drv
      /\ t.chip.rx = u.chip.rx /\ t.chip.tx = <<>> /\ t.chip.mode = u.chip.mode
      /\ t.chip.hears = u.chip.hears /\ t.chip.header = u.chip.header
      /\ t.chip.flags = u.chip.flags /\ t.chip.rxLength = u.chip.rxLength
  <2>1. u \in S22
    BY <1>2
  <2>. QED
    BY ONLY <2>1, <1>3, Empty DEF S22, Chip22
<1>. QED
  BY <1>2, <1>4

\* A change of the chip's mode ends what it was receiving or sending.
LEMMA OpMode22 ==
  ASSUME NEW s \in S22, NEW m \in {"idle", "rx", "tx"}, NEW t, t = R22!OpMode(s, m)
  PROVE  /\ t \in S22 /\ t.drv = s.drv
         /\ t.chip.mode = m /\ t.chip.hears = None /\ t.chip.out = <<>>
         /\ t.chip.rx = s.chip.rx /\ t.chip.tx = s.chip.tx
         /\ t.chip.header = s.chip.header /\ t.chip.flags = s.chip.flags
         /\ t.chip.length = s.chip.length
BY Empty, None22 DEF S22, Chip22, R22!OpMode

\* A change of the driver's mode alone.
LEMMA DrvMode22 ==
  ASSUME NEW s \in S22, NEW m \in {"idle", "rx", "tx"},
         NEW t, t = [s EXCEPT !.drv.mode = m]
  PROVE  /\ t \in S22 /\ t.chip = s.chip
         /\ t.drv.mode = m /\ t.drv.buf = s.drv.buf /\ t.drv.sent = s.drv.sent
BY DEF S22, Drv22

\* setModeRx, when the driver is not receiving already.
LEMMA SetModeRx22 ==
  ASSUME NEW s \in S22, s.drv.mode # "rx", NEW t, t = R22!SetModeRx(s)
  PROVE  /\ t \in S22 /\ t.drv.mode = "rx" /\ t.drv.buf = s.drv.buf
         /\ t.chip.mode = "rx" /\ t.chip.hears = None
         /\ t.chip.rx = s.chip.rx /\ t.chip.tx = s.chip.tx
         /\ t.chip.header = s.chip.header /\ t.chip.flags = s.chip.flags
<1>1. PICK u : u = R22!OpMode(s, "rx")
  OBVIOUS
<1>2. /\ u \in S22 /\ u.drv = s.drv
      /\ u.chip.mode = "rx" /\ u.chip.hears = None
      /\ u.chip.rx = s.chip.rx /\ u.chip.tx = s.chip.tx
      /\ u.chip.header = s.chip.header /\ u.chip.flags = s.chip.flags
  BY <1>1, OpMode22
<1>3. t = [u EXCEPT !.drv.mode = "rx"]
  BY <1>1 DEF R22!SetModeRx
<1>4. t \in S22 /\ t.chip = u.chip /\ t.drv.mode = "rx" /\ t.drv.buf = u.drv.buf
  BY <1>2, <1>3, DrvMode22
<1>. QED
  BY <1>2, <1>4

\* setModeTx, when the driver is not transmitting already.
LEMMA SetModeTx22 ==
  ASSUME NEW s \in S22, s.drv.mode # "tx", NEW t, t = R22!SetModeTx(s)
  PROVE  /\ t \in S22 /\ t.drv.mode = "tx" /\ t.drv.buf = s.drv.buf
         /\ t.drv.sent = s.drv.sent
         /\ t.chip.mode = "tx" /\ t.chip.hears = None /\ t.chip.out = <<>>
         /\ t.chip.tx = s.chip.tx /\ t.chip.length = s.chip.length
         /\ t.chip.header = s.chip.header /\ t.chip.flags = s.chip.flags
<1>1. PICK u : u = R22!OpMode(s, "tx")
  OBVIOUS
<1>2. /\ u \in S22 /\ u.drv = s.drv
      /\ u.chip.mode = "tx" /\ u.chip.hears = None /\ u.chip.out = <<>>
      /\ u.chip.tx = s.chip.tx /\ u.chip.length = s.chip.length
      /\ u.chip.header = s.chip.header /\ u.chip.flags = s.chip.flags
  BY <1>1, OpMode22
<1>3. PICK w : w = [u EXCEPT !.drv.mode = "tx"]
  OBVIOUS
<1>4. w \in S22 /\ w.chip = u.chip /\ w.drv.mode = "tx" /\ w.drv.buf = u.drv.buf
      /\ w.drv.sent = u.drv.sent
  BY <1>2, <1>3, DrvMode22
<1>5. t = R22!ResetRxFifo(w)
  BY <1>1, <1>3 DEF R22!SetModeTx
<1>6. /\ t \in S22 /\ t.drv = w.drv
      /\ t.chip.tx = w.chip.tx /\ t.chip.mode = w.chip.mode
      /\ t.chip.hears = w.chip.hears /\ t.chip.header = w.chip.header
      /\ t.chip.flags = w.chip.flags
      /\ t.chip.out = w.chip.out /\ t.chip.length = w.chip.length
  BY <1>4, <1>5, ResetRx22
<1>. QED
  BY <1>2, <1>4, <1>6

\* A frame in the FIFO is read as it came.
LEMMA Read22 ==
  ASSUME NEW s \in S22, NEW k \in Nat, NEW t, t = R22!Read(s, k)
  PROVE  /\ t \in S22 /\ t.drv.mode = s.drv.mode
         /\ t.chip.mode = s.chip.mode /\ t.chip.hears = s.chip.hears
         /\ t.chip.tx = s.chip.tx /\ t.chip.header = s.chip.header
         /\ t.chip.flags = s.chip.flags
         /\ s.drv.buf = <<>> /\ k = Len(s.chip.rx) => t.drv.buf = s.chip.rx
<1>1. PICK q \in Seq(Cell) : q = s.chip.rx
  BY DEF S22, Chip22
<1>2. PICK b \in Seq(Cell) : b = s.drv.buf
  BY DEF S22, Drv22
<1>3. PICK n \in Nat : n = Len(q)
  OBVIOUS
<1>4. PICK g : g = [i \in 1 .. k |-> IF i <= n THEN q[i] ELSE <<None, 0>>]
  OBVIOUS
<1>5. g \in Seq(Cell) /\ Len(g) = k
  <2>1. <<None, 0>> \in Cell
    BY Empty DEF Cell
  <2>2. \A i \in 1 .. k : g[i] \in Cell
    <3>. SUFFICES ASSUME NEW i \in 1 .. k PROVE g[i] \in Cell
      OBVIOUS
    <3>1. i <= n => q[i] \in Cell
      BY <1>3
    <3>. QED
      BY <1>4, <2>1, <3>1
  <2>3. g \in [1 .. k -> Cell]
    BY <1>4, <2>2
  <2>. QED
    BY <2>3
<1>6. PICK d \in Seq(Cell) : d = b \o g
  <2>1. b \o g \in Seq(Cell)
    BY <1>2, <1>5, ConcatProperties
  <2>. QED
    BY <2>1
<1>7. PICK r \in Seq(Cell) : r = SubSeq(q, k + 1, n)
  <2>1. SubSeq(q, k + 1, n) \in Seq(Cell)
    BY <1>3
  <2>. QED
    BY <2>1
<1>8. t = [s EXCEPT !.drv.buf = d, !.chip.rx = r]
  BY <1>1, <1>2, <1>3, <1>4, <1>6, <1>7, None22 DEF R22!Read
<1>9. /\ t \in S22 /\ t.drv.mode = s.drv.mode /\ t.drv.buf = d
      /\ t.chip.mode = s.chip.mode /\ t.chip.hears = s.chip.hears
      /\ t.chip.tx = s.chip.tx /\ t.chip.header = s.chip.header
      /\ t.chip.flags = s.chip.flags
  BY ONLY <1>6, <1>7, <1>8, s \in S22 DEF S22, Drv22, Chip22
<1>10. b = <<>> /\ k = n => d = q
  <2>. SUFFICES ASSUME b = <<>>, k = n PROVE d = q
    OBVIOUS
  <2>1. g = q
    BY <1>3, <1>4, <1>5
  <2>. QED
    BY <1>5, <1>6, <2>1
<1>. QED
  BY <1>1, <1>2, <1>3, <1>9, <1>10

-----------------------------------------------------------------------------
(* handleInterrupt, when the radio is receiving *)

\* After a FIFO error nothing is left.
LEMMA FifoError22 ==
  ASSUME NEW s \in S22, NEW f, s.drv.mode # "tx", "FFERR" \in f => s.drv.mode = "rx",
         NEW t, t = R22!OnFifoError(s, f)
  PROVE  /\ t \in S22 /\ t.drv.mode = s.drv.mode
         /\ t.chip.mode = s.chip.mode /\ t.chip.hears = s.chip.hears
         /\ s.chip.tx = <<>> => t.chip.tx = <<>>
         /\ t.chip.header = s.chip.header /\ t.chip.flags = s.chip.flags
         /\ t.chip.rxLength = s.chip.rxLength
         /\ t = s \/ (t.drv.buf = <<>> /\ t.chip.rx = <<>> /\ "FFERR" \in f)
<1>1. CASE "FFERR" \notin f
  BY <1>1 DEF R22!OnFifoError
<1>2. CASE "FFERR" \in f
  <2>1. PICK u : u = R22!ResetFifos(s)
    OBVIOUS
  <2>2. /\ u \in S22 /\ u.drv = s.drv
        /\ u.chip.rx = <<>> /\ u.chip.tx = <<>> /\ u.chip.mode = s.chip.mode
        /\ u.chip.hears = s.chip.hears /\ u.chip.header = s.chip.header
        /\ u.chip.flags = s.chip.flags /\ u.chip.rxLength = s.chip.rxLength
    BY <2>1, Reset22
  <2>3. t = R22!ClearRxBuf(u)
    BY <1>2, <2>1 DEF R22!OnFifoError
  <2>4. t \in S22 /\ t.chip = u.chip /\ t.drv.buf = <<>> /\ t.drv.mode = u.drv.mode
    BY <2>2, <2>3, ClearRx22
  <2>. QED
    BY <1>2, <2>2, <2>4
<1>. QED
  BY <1>1, <1>2

\* A valid packet is read, or dropped for its length.
LEMMA Valid22 ==
  ASSUME NEW s \in S22, NEW f, NEW t, t = R22!OnValid(s, f)
  PROVE  /\ t \in S22
         /\ t.chip.mode = s.chip.mode /\ t.chip.hears = s.chip.hears
         /\ t.chip.tx = s.chip.tx
         /\ t.chip.header = s.chip.header /\ t.chip.flags = s.chip.flags
         /\ "PKVALID" \notin f => t = s
         /\ "PKVALID" \in f => t.drv.mode = "idle"
         /\ "PKVALID" \in f /\ R22!BadLength(s) => t.drv.buf = <<>>
         /\ "PKVALID" \in f /\ s.drv.buf = <<>> /\ s.chip.rxLength = Len(s.chip.rx) =>
              t.drv.buf \in {<<>>, s.chip.rx}
<1>1. CASE "PKVALID" \notin f
  BY <1>1 DEF R22!OnValid
<1>2. CASE "PKVALID" \in f /\ R22!BadLength(s)
  <2>1. PICK u : u = R22!ClearRxBuf(s)
    OBVIOUS
  <2>2. u \in S22 /\ u.chip = s.chip /\ u.drv.buf = <<>>
    BY <2>1, ClearRx22
  <2>3. t = [u EXCEPT !.drv.mode = "idle"]
    BY <1>2, <2>1 DEF R22!OnValid
  <2>4. t \in S22 /\ t.chip = u.chip /\ t.drv.mode = "idle" /\ t.drv.buf = u.drv.buf
    BY <2>2, <2>3, DrvMode22
  <2>. QED
    BY <1>2, <2>2, <2>4
<1>3. CASE "PKVALID" \in f /\ ~R22!BadLength(s)
  <2>1. s.chip.rxLength \in Nat /\ Len(s.drv.buf) \in Nat
    BY DEF S22, Chip22, Drv22
  <2>2. PICK k \in Nat : k = s.chip.rxLength - Len(s.drv.buf)
    BY <1>3, <2>1 DEF R22!BadLength
  <2>3. PICK u : u = R22!Read(s, k)
    OBVIOUS
  <2>4. /\ u \in S22
        /\ u.chip.mode = s.chip.mode /\ u.chip.hears = s.chip.hears
        /\ u.chip.tx = s.chip.tx /\ u.chip.header = s.chip.header
        /\ u.chip.flags = s.chip.flags
        /\ s.drv.buf = <<>> /\ k = Len(s.chip.rx) => u.drv.buf = s.chip.rx
    BY <2>3, Read22
  <2>5. t = [u EXCEPT !.drv.mode = "idle", !.drv.valid = TRUE]
    BY <1>3, <2>2, <2>3 DEF R22!OnValid
  <2>6. /\ t \in S22 /\ t.chip = u.chip /\ t.drv.mode = "idle" /\ t.drv.buf = u.drv.buf
    <3>1. u \in S22
      BY <2>4
    <3>. QED
      BY ONLY <2>5, <3>1 DEF S22, Drv22
  <2>7. s.drv.buf = <<>> => k = s.chip.rxLength
    BY <2>1, <2>2
  <2>. QED
    BY <1>3, <2>4, <2>6, <2>7
<1>. QED
  BY <1>1, <1>2, <1>3

\* After a frame with a wrong CRC the receiver is switched on again.
LEMMA CrcError22 ==
  ASSUME NEW s \in S22, NEW f, NEW t, t = R22!OnCrcError(s, f)
  PROVE  /\ t \in S22 /\ (s.chip.tx = t.chip.tx)
         /\ t.chip.header = s.chip.header /\ t.chip.flags = s.chip.flags
         /\ \/ "CRCERROR" \notin f /\ t = s
            \/ /\ "CRCERROR" \in f /\ t.drv.mode = "rx" /\ t.chip.mode = "rx"
               /\ t.chip.hears = None /\ t.drv.buf = <<>> /\ t.chip.rx = <<>>
<1>1. CASE "CRCERROR" \notin f
  BY <1>1 DEF R22!OnCrcError
<1>2. CASE "CRCERROR" \in f
  <2>1. PICK u : u = R22!ClearRxBuf(s)
    OBVIOUS
  <2>2. u \in S22 /\ u.chip = s.chip /\ u.drv.buf = <<>>
    BY <2>1, ClearRx22
  <2>3. PICK v : v = R22!ResetRxFifo(u)
    OBVIOUS
  <2>4. /\ v \in S22 /\ v.drv = u.drv /\ v.chip.rx = <<>> /\ v.chip.tx = u.chip.tx
        /\ v.chip.header = u.chip.header /\ v.chip.flags = u.chip.flags
    BY <2>2, <2>3, ResetRx22
  <2>5. PICK w : w = [v EXCEPT !.drv.mode = "idle"]
    OBVIOUS
  <2>6. w \in S22 /\ w.chip = v.chip /\ w.drv.mode = "idle" /\ w.drv.buf = v.drv.buf
    BY <2>4, <2>5, DrvMode22
  <2>7. t = R22!SetModeRx(w)
    BY <1>2, <2>1, <2>3, <2>5 DEF R22!OnCrcError
  <2>8. w.drv.mode # "rx"
    BY <2>6
  <2>9. /\ t \in S22 /\ t.drv.mode = "rx" /\ t.drv.buf = w.drv.buf
        /\ t.chip.mode = "rx" /\ t.chip.hears = None
        /\ t.chip.rx = w.chip.rx /\ t.chip.tx = w.chip.tx
        /\ t.chip.header = w.chip.header /\ t.chip.flags = w.chip.flags
    BY <2>6, <2>7, <2>8, SetModeRx22
  <2>. QED
    BY <1>2, <2>2, <2>4, <2>6, <2>9
<1>. QED
  BY <1>1, <1>2

\* After a preamble nothing is left of what came before.
LEMMA Preamble22 ==
  ASSUME NEW s \in S22, NEW f, NEW t, t = R22!OnPreamble(s, f)
  PROVE  /\ t \in S22 /\ t.drv.mode = s.drv.mode /\ t.chip.mode = s.chip.mode
         /\ t.chip.hears = s.chip.hears /\ t.chip.tx = s.chip.tx
         /\ t.chip.header = s.chip.header /\ t.chip.flags = s.chip.flags
         /\ \/ "PREAVAL" \notin f /\ t = s
            \/ "PREAVAL" \in f /\ t.drv.buf = <<>> /\ t.chip.rx = <<>>
<1>1. CASE "PREAVAL" \notin f
  BY <1>1 DEF R22!OnPreamble
<1>2. CASE "PREAVAL" \in f
  <2>1. PICK u : u = R22!ResetRxFifo(s)
    OBVIOUS
  <2>2. /\ u \in S22 /\ u.drv = s.drv
        /\ u.chip.rx = <<>> /\ u.chip.mode = s.chip.mode
        /\ u.chip.hears = s.chip.hears /\ u.chip.header = s.chip.header
        /\ u.chip.flags = s.chip.flags /\ u.chip.tx = s.chip.tx
    BY <2>1, ResetRx22
  <2>3. t = R22!ClearRxBuf(u)
    BY <1>2, <2>1 DEF R22!OnPreamble
  <2>4. t \in S22 /\ t.chip = u.chip /\ t.drv.buf = <<>> /\ t.drv.mode = u.drv.mode
    BY <2>2, <2>3, ClearRx22
  <2>. QED
    BY <1>2, <2>2, <2>4
<1>. QED
  BY <1>1, <1>2

\* What the flags f, up while receiving, make of s: the receiver switched on
\* again, a packet taken or dropped, or the modes as they were.
Outcome22(s, f, t) ==
  /\ t \in S22 /\ (s.chip.tx = <<>> => t.chip.tx = <<>>)
  /\ t.chip.header = s.chip.header /\ t.chip.flags = s.chip.flags
  /\ \/ /\ "CRCERROR" \in f /\ t.drv.mode = "rx" /\ t.chip.mode = "rx"
        /\ t.chip.hears = None /\ t.drv.buf = <<>>
     \/ /\ "PKVALID" \in f /\ t.drv.mode = "idle"
        /\ t.chip.mode = s.chip.mode /\ t.chip.hears = s.chip.hears
        /\ "PREAVAL" \in f => t.drv.buf = <<>>
        /\ /\ "PREAVAL" \notin f /\ "FFERR" \notin f
           /\ s.drv.buf = <<>> /\ s.chip.rxLength = Len(s.chip.rx)
           => t.drv.buf \in {<<>>, s.chip.rx}
     \/ /\ f \cap {"PKVALID", "CRCERROR"} = {} /\ t.drv.mode = s.drv.mode
        /\ t.chip.mode = s.chip.mode /\ t.chip.hears = s.chip.hears
        /\ "PREAVAL" \in f => t.drv.buf = <<>> /\ t.chip.rx = <<>>
        /\ t.drv.buf \in {<<>>, s.drv.buf} /\ t.chip.rx \in {<<>>, s.chip.rx}

\* The handler with the receiver's flags up.
LEMMA Receiving22 ==
  ASSUME NEW s \in S22, NEW f \in SUBSET Rx22, s.drv.mode # "tx",
         "FFERR" \in f => s.drv.mode = "rx", RadioAssumption, DriverAssumption,
         NEW t, t = R22!Handled(s, f)
  PROVE  Outcome22(s, f, t)
<1>. USE DEF Outcome22
<1>1. PICK a : a = R22!OnFifoError(s, f)
  OBVIOUS
<1>2. /\ a \in S22 /\ a.drv.mode = s.drv.mode
      /\ a.chip.mode = s.chip.mode /\ a.chip.hears = s.chip.hears
      /\ s.chip.tx = <<>> => a.chip.tx = <<>>
      /\ a.chip.header = s.chip.header /\ a.chip.flags = s.chip.flags
      /\ a.chip.rxLength = s.chip.rxLength
      /\ a = s \/ (a.drv.buf = <<>> /\ a.chip.rx = <<>> /\ "FFERR" \in f)
  BY <1>1, FifoError22
<1>3. R22!OnSent(R22!OnAlmostFull(R22!OnAlmostEmpty(a, f), f), f) = a
  <2>1. "TXFFAEM" \notin f /\ "PKSENT" \notin f
    BY DEF Rx22
  <2>2. PICK n \in Nat : n = Len(a.drv.buf)
    BY <1>2 DEF S22, Drv22
  <2>3. n + RxAlmost > MaxLen
    BY DEF RadioAssumption, DriverAssumption
  <2>4. R22!ReadNextFragment(a) = a
    BY <2>2, <2>3 DEF R22!ReadNextFragment
  <2>5. R22!OnAlmostEmpty(a, f) = a
    BY <2>1 DEF R22!OnAlmostEmpty
  <2>6. R22!OnAlmostFull(a, f) = a
    BY <2>4 DEF R22!OnAlmostFull
  <2>7. R22!OnSent(a, f) = a
    BY <2>1 DEF R22!OnSent
  <2>. QED
    BY <2>5, <2>6, <2>7
<1>4. PICK v : v = R22!OnValid(a, f)
  OBVIOUS
<1>5. /\ v \in S22
      /\ v.chip.mode = a.chip.mode /\ v.chip.hears = a.chip.hears
      /\ v.chip.tx = a.chip.tx
      /\ v.chip.header = a.chip.header /\ v.chip.flags = a.chip.flags
      /\ "PKVALID" \notin f => v = a
      /\ "PKVALID" \in f => v.drv.mode = "idle"
      /\ "PKVALID" \in f /\ R22!BadLength(a) => v.drv.buf = <<>>
      /\ "PKVALID" \in f /\ a.drv.buf = <<>> /\ a.chip.rxLength = Len(a.chip.rx) =>
           v.drv.buf \in {<<>>, a.chip.rx}
  BY <1>2, <1>4, Valid22
<1>6. CASE "PKVALID" \in f /\ R22!BadLength(a)
  <2>1. t = v
    BY <1>1, <1>3, <1>4, <1>6 DEF R22!Handled
  <2>. QED
    BY <1>2, <1>5, <1>6, <2>1
<1>7. CASE ~("PKVALID" \in f /\ R22!BadLength(a))
  <2>1. PICK w : w = R22!OnCrcError(v, f)
    OBVIOUS
  <2>2. /\ w \in S22 /\ (v.chip.tx = w.chip.tx)
        /\ w.chip.header = v.chip.header /\ w.chip.flags = v.chip.flags
        /\ \/ "CRCERROR" \notin f /\ w = v
           \/ /\ "CRCERROR" \in f /\ w.drv.mode = "rx" /\ w.chip.mode = "rx"
              /\ w.chip.hears = None /\ w.drv.buf = <<>> /\ w.chip.rx = <<>>
    BY <1>5, <2>1, CrcError22
  <2>3. t = R22!OnPreamble(w, f)
    BY <1>1, <1>3, <1>4, <1>7, <2>1 DEF R22!Handled
  <2>4. /\ t \in S22 /\ t.drv.mode = w.drv.mode /\ t.chip.mode = w.chip.mode
        /\ t.chip.hears = w.chip.hears /\ t.chip.tx = w.chip.tx
        /\ t.chip.header = w.chip.header /\ t.chip.flags = w.chip.flags
        /\ \/ "PREAVAL" \notin f /\ t = w
           \/ "PREAVAL" \in f /\ t.drv.buf = <<>> /\ t.chip.rx = <<>>
    BY <2>2, <2>3, Preamble22
  <2>5. CASE "CRCERROR" \in f
    BY <1>2, <1>5, <2>2, <2>4, <2>5
  <2>6. CASE "CRCERROR" \notin f /\ "PKVALID" \in f
    BY <1>2, <1>5, <2>2, <2>4, <2>6
  <2>7. CASE "CRCERROR" \notin f /\ "PKVALID" \notin f
    <3>1. v = a /\ w = a
      BY <1>5, <2>2, <2>7
    <3>. QED
      BY <1>2, <2>4, <2>7, <3>1
  <2>. QED
    BY <2>5, <2>6, <2>7
<1>. QED
  BY <1>6, <1>7

\* handleInterrupt, when a packet has been sent
LEMMA Sent22 ==
  ASSUME NEW s \in S22, s.drv.sent = Len(s.drv.buf),
         NEW f, f = {"PKSENT", "TXFFAEM"}, NEW t, t = R22!Handled(s, f)
  PROVE  /\ t \in S22 /\ t.chip = s.chip
         /\ t.drv.mode = "idle" /\ t.drv.buf = s.drv.buf
<1>0. /\ "PKSENT" \in f /\ "TXFFAEM" \in f
      /\ "FFERR" \notin f /\ "RXFFAFULL" \notin f
      /\ "PKVALID" \notin f /\ "CRCERROR" \notin f /\ "PREAVAL" \notin f
  OBVIOUS
<1>1. PICK n \in Nat : n = Len(s.drv.buf)
  BY DEF S22, Drv22
<1>2. R22!SendNextFragment(s) = s
  BY <1>1 DEF R22!SendNextFragment
<1>3. /\ R22!OnFifoError(s, f) = s /\ R22!OnAlmostEmpty(s, f) = s
      /\ R22!OnAlmostFull(s, f) = s
  BY <1>0, <1>2 DEF R22!OnFifoError, R22!OnAlmostEmpty, R22!OnAlmostFull
<1>4. PICK u : u = [s EXCEPT !.drv.mode = "idle"]
  OBVIOUS
<1>5. R22!OnSent(s, f) = u
  BY <1>0, <1>4 DEF R22!OnSent
<1>6. R22!OnValid(u, f) = u /\ R22!OnCrcError(u, f) = u /\ R22!OnPreamble(u, f) = u
  BY <1>0 DEF R22!OnValid, R22!OnCrcError, R22!OnPreamble
<1>7. t = u
  BY <1>0, <1>3, <1>5, <1>6 DEF R22!Handled
<1>. QED
  BY <1>4, <1>7, DrvMode22

-----------------------------------------------------------------------------
(* The program and the chip *)

\* What waits in the FIFO after send has filled it.
LEMMA Fill22 ==
  ASSUME NEW s \in S22, s.chip.tx = <<>>, NEW m \in Frame, m.len > 0,
         NEW t, t = R22!Loaded([R22!ClearTxBuf(s) EXCEPT !.drv.buf = R22!Bytes(m)])
  PROVE  /\ t \in S22 /\ t.drv.mode = s.drv.mode
         /\ t.drv.buf = Bytes(m) /\ t.drv.sent = m.len
         /\ t.chip.tx = Bytes(m) /\ t.chip.length = m.len
         /\ t.chip.mode = s.chip.mode /\ t.chip.hears = s.chip.hears
         /\ t.chip.header = s.chip.header /\ t.chip.flags = s.chip.flags
<1>1. PICK b \in Seq(Cell) : b = Bytes(m) /\ Len(b) = m.len
  BY BytesSeq
<1>2. PICK n \in Nat : n = m.len
  BY DEF Frame
<1>3. PICK u : u = R22!ClearTxBuf(s)
  OBVIOUS
<1>4. u \in S22 /\ u.chip = s.chip /\ u.drv.mode = s.drv.mode /\ u.drv.sent = 0
  BY <1>3, Empty DEF S22, Drv22, R22!ClearTxBuf
<1>5. PICK v : v = [u EXCEPT !.drv.buf = b]
  OBVIOUS
<1>6. v \in S22 /\ v.chip = u.chip /\ v.drv.mode = u.drv.mode /\ v.drv.sent = u.drv.sent
      /\ v.drv.buf = b
  <2>1. u \in S22
    BY <1>4
  <2>. QED
    BY ONLY <1>1, <1>5, <2>1 DEF S22, Drv22
<1>7. SubSeq(b, 1, n) = b
  BY <1>1, <1>2
<1>8. <<>> \o b = b
  BY <1>1
<1>9. PICK w : w = [v EXCEPT !.chip.tx = b, !.drv.sent = n]
  OBVIOUS
<1>10. R22!SendNextFragment(v) = w
  <2>1. /\ v.chip.tx = <<>> /\ v.drv.sent = 0 /\ v.drv.buf = b /\ Len(b) = n /\ ~(0 >= n)
    BY <1>1, <1>2, <1>4, <1>6
  <2>2. R22!SendNextFragment(v)
        = [v EXCEPT !.chip.tx = @ \o SubSeq(v.drv.buf, v.drv.sent + 1, Len(v.drv.buf)),
                    !.drv.sent = Len(v.drv.buf)]
    BY <2>1 DEF R22!SendNextFragment
  <2>3. PICK p : p = v.chip.tx \o SubSeq(v.drv.buf, v.drv.sent + 1, Len(v.drv.buf))
    OBVIOUS
  <2>4. p = b
    BY <1>7, <1>8, <2>1, <2>3
  <2>5. R22!SendNextFragment(v) = [v EXCEPT !.chip.tx = p, !.drv.sent = Len(v.drv.buf)]
    BY <2>2, <2>3
  <2>. QED
    BY <1>9, <2>1, <2>4, <2>5
<1>11. /\ w \in S22 /\ w.drv.mode = v.drv.mode /\ w.drv.buf = v.drv.buf /\ w.drv.sent = n
       /\ w.chip.tx = b
       /\ w.chip.mode = v.chip.mode /\ w.chip.hears = v.chip.hears
       /\ w.chip.header = v.chip.header /\ w.chip.flags = v.chip.flags
  <2>1. v \in S22
    BY <1>6
  <2>. QED
    BY ONLY <1>1, <1>2, <1>9, <2>1 DEF S22, Drv22, Chip22
<1>12. t = [w EXCEPT !.chip.length = n]
  <2>1. Len(w.drv.buf) = n
    BY <1>1, <1>2, <1>6, <1>11
  <2>. QED
    BY <1>1, <1>3, <1>5, <1>10, <2>1, Bytes22 DEF R22!Loaded
<1>13. /\ t \in S22 /\ t.drv = w.drv /\ t.chip.tx = w.chip.tx /\ t.chip.length = n
       /\ t.chip.mode = w.chip.mode /\ t.chip.hears = w.chip.hears
       /\ t.chip.header = w.chip.header /\ t.chip.flags = w.chip.flags
  <2>1. w \in S22
    BY <1>11
  <2>. QED
    BY ONLY <1>2, <1>12, <2>1 DEF S22, Chip22
<1>. QED
  BY <1>1, <1>2, <1>4, <1>6, <1>11, <1>13

\* A byte taken from one queue and put to the other.
LEMMA ByteMoved ==
  ASSUME NEW o \in Seq(Cell), NEW q \in Seq(Cell), q # <<>>
  PROVE  /\ Append(o, Head(q)) \in Seq(Cell) /\ Tail(q) \in Seq(Cell)
         /\ Append(o, Head(q)) \o Tail(q) = o \o q
<1>1. PICK h \in Cell : h = Head(q)
  BY HeadTailProperties
<1>2. PICK t \in Seq(Cell) : t = Tail(q) /\ Len(t) = Len(q) - 1
                             /\ \A i \in 1 .. Len(t) : t[i] = q[i + 1]
  <2>1. Tail(q) \in Seq(Cell) /\ Len(Tail(q)) = Len(q) - 1
        /\ \A i \in 1 .. Len(Tail(q)) : Tail(q)[i] = q[i + 1]
    BY HeadTailProperties
  <2>. QED
    BY <2>1
<1>3. PICK a \in Seq(Cell) : a = Append(o, h) /\ Len(a) = Len(o) + 1
                             /\ a[Len(o) + 1] = h /\ \A i \in 1 .. Len(o) : a[i] = o[i]
  <2>1. Append(o, h) \in Seq(Cell) /\ Len(Append(o, h)) = Len(o) + 1
        /\ Append(o, h)[Len(o) + 1] = h
        /\ \A i \in 1 .. Len(o) : Append(o, h)[i] = o[i]
    BY AppendProperties
  <2>. QED
    BY <2>1
<1>4. PICK x \in Seq(Cell) : x = a \o t /\ Len(x) = Len(a) + Len(t)
        /\ (\A i \in 1 .. Len(a) : x[i] = a[i])
        /\ \A i \in 1 .. Len(t) : x[Len(a) + i] = t[i]
  <2>1. a \o t \in Seq(Cell) /\ Len(a \o t) = Len(a) + Len(t)
        /\ (\A i \in 1 .. Len(a) : (a \o t)[i] = a[i])
        /\ \A i \in 1 .. Len(t) : (a \o t)[Len(a) + i] = t[i]
    BY ConcatProperties
  <2>. QED
    BY <2>1
<1>5. PICK y \in Seq(Cell) : y = o \o q /\ Len(y) = Len(o) + Len(q)
        /\ (\A i \in 1 .. Len(o) : y[i] = o[i])
        /\ \A i \in 1 .. Len(q) : y[Len(o) + i] = q[i]
  <2>1. o \o q \in Seq(Cell) /\ Len(o \o q) = Len(o) + Len(q)
        /\ (\A i \in 1 .. Len(o) : (o \o q)[i] = o[i])
        /\ \A i \in 1 .. Len(q) : (o \o q)[Len(o) + i] = q[i]
    BY ConcatProperties
  <2>. QED
    BY <2>1
<1>6. PICK k \in Nat : k = Len(o)
  OBVIOUS
<1>7. PICK m \in Nat : m = Len(q) /\ m >= 1 /\ q[1] = h
  <2>1. Len(q) \in Nat /\ Len(q) # 0 /\ q[1] = h
    BY <1>1, HeadTailProperties
  <2>. QED
    BY <2>1
<1>8. Len(x) = k + m /\ Len(y) = k + m
  BY <1>2, <1>3, <1>4, <1>5, <1>6, <1>7
<1>9. \A i \in 1 .. k + m : x[i] = y[i]
  <2>. SUFFICES ASSUME NEW i \in 1 .. k + m PROVE x[i] = y[i]
    OBVIOUS
  <2>1. CASE i <= k
    BY <1>3, <1>4, <1>5, <1>6, <2>1
  <2>2. CASE i = k + 1
    <3>1. x[i] = h
      BY <1>3, <1>4, <1>6, <2>2
    <3>2. y[k + 1] = q[1]
      BY <1>5, <1>6, <1>7
    <3>. QED
      BY <1>7, <2>2, <3>1, <3>2
  <2>3. CASE i > k + 1
    <3>1. PICK j \in Nat : j = i - (k + 1)
      BY <2>3
    <3>2. j \in 1 .. Len(t) /\ j + 1 \in 1 .. m /\ i = (k + 1) + j /\ i = k + (j + 1)
      BY <1>2, <1>7, <2>3, <3>1
    <3>3. x[(k + 1) + j] = t[j]
      BY <1>3, <1>4, <1>6, <3>2
    <3>4. y[k + (j + 1)] = q[j + 1]
      BY <1>5, <1>6, <1>7, <3>2
    <3>. QED
      BY <1>2, <3>2, <3>3, <3>4
  <2>. QED
    BY <2>1, <2>2, <2>3
<1>. QED
  BY <1>1, <1>2, <1>3, <1>4, <1>5, <1>8, <1>9, SMTT(40)

\* How far a message has gone out tells what is left of it.
LEMMA BytesOut ==
  ASSUME NEW o \in Seq(Cell), NEW q \in Seq(Cell), NEW f \in Frame,
         o \o q = Bytes(f)
  PROVE  /\ Len(o) < f.len => q # <<>>
         /\ Len(o) = f.len => q = <<>> /\ o = Bytes(f)
<1>1. PICK k \in Nat : k = Len(o)
  OBVIOUS
<1>2. PICK m \in Nat : m = Len(q)
  OBVIOUS
<1>3. Len(o \o q) = k + m /\ Len(Bytes(f)) = f.len
  BY <1>1, <1>2, BytesSeq, ConcatProperties
<1>4. f.len = k + m
  BY <1>3
<1>5. m = 0 => q = <<>>
  BY <1>2, EmptySeq
<1>6. o \o <<>> = o
  OBVIOUS
<1>7. q = <<>> => m = 0
  BY <1>2
<1>. QED
  BY <1>1, <1>4, <1>5, <1>6, <1>7

\* The invariant holds at the start.
LEMMA Init22 == R22!Init => Inv22
<1>. SUFFICES ASSUME R22!Init PROVE Inv22
  OBVIOUS
<1>1. R22!NoLog = NoLog
  BY DEF R22!NoLog, NoLog, R22!None, None
<1>2. /\ drv = [mode |-> "idle", buf |-> <<>>, sent |-> 0, valid |-> FALSE]
      /\ chip = [mode |-> "idle", rx |-> <<>>, tx |-> <<>>, length |-> 0, rxLength |-> 0,
                 header |-> None, hears |-> None, out |-> <<>>, flags |-> {}]
      /\ pc = [at |-> "idle"] /\ log = NoLog
  BY <1>1, None22 DEF R22!Init
<1>3. Type22
  BY <1>2, Empty DEF Type22, Drv22, Chip22, Pc22, LogType, Got69, NoLog
<1>4. Modes22 /\ Flags22
  BY <1>2 DEF Modes22, Flags22
<1>5. Buf22 /\ Tx22 /\ Hist22 /\ ~log.late
  BY <1>2, Empty DEF Buf22, Tx22, Hist22, NoLog, Part, None
<1>. QED
  BY <1>3, <1>4, <1>5 DEF Inv22, Good22

\* Once a flag has been late the history says so for ever.
LEMMA Late22Stays ==
  ASSUME Late22, R22!Next PROVE Late22'
<1>. USE DEF Late22
<1>1. ASSUME UNCHANGED log PROVE Late22'
  BY <1>1
<1>2. ASSUME NEW len \in R22!Lengths, R22!Send(len) PROVE Late22'
  BY <1>2 DEF R22!Send
<1>3. ASSUME R22!FillTxBuf \/ R22!PacketSent \/ R22!Recv \/ R22!Listen \/ R22!Listening
             \/ R22!Polled \/ R22!Copy \/ R22!Clear \/ R22!HandleInterrupt
             \/ R22!TransmitByte \/ \E good \in BOOLEAN : R22!Received(good)
      PROVE  Late22'
  BY <1>1, <1>3
     DEF R22!FillTxBuf, R22!PacketSent, R22!Recv, R22!Listen, R22!Listening, R22!Polled,
         R22!Copy, R22!Clear, R22!HandleInterrupt, R22!TransmitByte, R22!Received
<1>4. ASSUME R22!StartTransmit PROVE Late22'
  BY <1>4 DEF R22!StartTransmit
<1>5. ASSUME R22!Header PROVE Late22'
  BY <1>5 DEF R22!Header
<1>6. ASSUME NEW len \in R22!Lengths, R22!Preamble(len) PROVE Late22'
  BY <1>6 DEF R22!Preamble
<1>7. ASSUME R22!Transmitted PROVE Late22'
  BY <1>7 DEF R22!Transmitted
<1>. QED
  BY <1>2, <1>3, <1>4, <1>5, <1>6, <1>7 DEF R22!Next

\* Before that, every step of the RF22's driver, its chip and the air keeps the
\* invariant.
LEMMA Next22 ==
  ASSUME Good22, R22!Next, DriverAssumption, RadioAssumption
  PROVE  Inv22'
<1>. USE DEF LogType, Got69
<1>t. /\ drv \in Drv22
      /\ chip \in Chip22
      /\ pc \in Pc22 \cup Data69
      /\ log \in [heard : Nat, asked : Frame, aired : Seq(Cell), got : Got69,
                  late : BOOLEAN]
  BY DEF Good22, Type22
<1>l. ~log.late
  BY DEF Good22
<1>m. Modes22
  BY DEF Good22
<1>f. Flags22
  BY DEF Good22
<1>b. Buf22
  BY DEF Good22
<1>x. Tx22
  BY DEF Good22
<1>h. Hist22
  BY DEF Good22
<1>i. ASSUME Type22', ~log'.late, Modes22', Flags22', Buf22', Tx22', Hist22'
      PROVE  Inv22'
  BY <1>i DEF Inv22, Good22
<1>0. \A len \in R22!Lengths : len \in Nat
  BY DEF DriverAssumption, R22!Lengths
\* The state of driver and chip, and the driver's operators on it
<1>s. PICK s \in S22 : s = R22!State /\ s.drv = drv /\ s.chip = chip
  <2>1. PICK s : s = [drv |-> drv, chip |-> chip]
    OBVIOUS
  <2>2. s \in S22 /\ s.drv = drv /\ s.chip = chip /\ s = R22!State
    BY <1>t, <2>1 DEF S22, R22!State
  <2>. QED
    BY <2>2
<1>c. ASSUME NEW t \in S22, R22!Becomes(t)
      PROVE  drv' = t.drv /\ chip' = t.chip /\ drv' \in Drv22 /\ chip' \in Chip22
  BY <1>c DEF R22!Becomes, S22
\* A step that only the program's place shows.
<1>g. ASSUME UNCHANGED <<drv, chip, log>>, pc' \in Pc22, pc.at \notin {"mode", "listening"},
             pc'.at \notin {"mode", "listening"}, drv.mode = "tx" => pc'.at = "wait"
      PROVE  Inv22'
  <2>1. Type22' /\ ~log'.late
    BY <1>t, <1>l, <1>g DEF Type22
  <2>2. pc'.at \notin {"clear", "header"}
    BY <1>g DEF Pc22
  <2>3. Modes22' /\ Flags22'
    BY <1>m, <1>f, <1>g DEF Modes22, Flags22
  <2>4. Buf22' /\ Hist22'
    BY <1>b, <1>h, <1>g, <2>2 DEF Buf22, Hist22
  <2>5. Tx22'
    BY <1>x, <1>g DEF Tx22, Loaded22
  <2>. QED
    BY <1>i, <2>1, <2>3, <2>4, <2>5
<1>1. ASSUME NEW len \in R22!Lengths, R22!Send(len) PROVE Inv22'
  <2>1. PICK m \in Frame : m = R22!Asked(len) /\ m.of = "me"
    <3>1. R22!Asked(len).of = "me"
      BY DEF R22!Asked
    <3>. QED
      BY <1>0, <1>t, <3>1, NewFrames, Asked22
  <2>2. /\ pc.at = "idle" /\ UNCHANGED <<drv, chip>>
        /\ pc' = [at |-> "send"] /\ log' = [log EXCEPT !.asked = m]
    BY <1>1, <2>1 DEF R22!Send, R22!Goto
  <2>3. Type22'
    BY <1>t, <2>1, <2>2 DEF Type22, Pc22
  <2>4. log'.heard = log.heard /\ log'.aired = log.aired /\ log'.got = log.got
        /\ ~log'.late /\ log'.asked = m
    BY <1>t, <1>l, <2>2
  <2>5. Modes22' /\ Flags22'
    BY <1>m, <1>f, <2>2, <2>4 DEF Modes22, Flags22
  <2>6. Buf22' /\ Hist22'
    BY <1>b, <1>h, <2>2, <2>4 DEF Buf22, Hist22
  <2>7. Tx22'
    BY <1>m, <1>x, <2>1, <2>2, <2>4 DEF Modes22, Tx22
  <2>. QED
    BY <1>i, <2>3, <2>4, <2>5, <2>6, <2>7
<1>2. ASSUME R22!FillTxBuf PROVE Inv22'
  <2>1. pc.at = "send" /\ drv.mode # "tx" /\ UNCHANGED log
    BY <1>2 DEF R22!FillTxBuf
  <2>2. PICK m \in Frame : m = log.asked /\ m.of # "air"
    BY <1>t, <1>x DEF Tx22
  <2>3. chip.tx = <<>>
    BY <1>x, <2>1 DEF Tx22
  <2>4. CASE m.len \in 1 .. MaxLen
    <3>1. PICK t : t = R22!Loaded([R22!ClearTxBuf(s) EXCEPT !.drv.buf = R22!Bytes(m)])
      OBVIOUS
    <3>2. R22!Becomes(t) /\ pc' = [at |-> "mode"]
      BY <1>2, <1>s, <2>2, <2>4, <3>1 DEF R22!FillTxBuf, R22!Goto
    <3>3. m.len > 0
      BY <2>4 DEF DriverAssumption
    <3>4. s.chip.tx = <<>>
      BY <1>s, <2>3
    <3>5. /\ t \in S22 /\ t.drv.mode = s.drv.mode
          /\ t.drv.buf = Bytes(m) /\ t.drv.sent = m.len
          /\ t.chip.tx = Bytes(m) /\ t.chip.length = m.len
          /\ t.chip.mode = s.chip.mode /\ t.chip.hears = s.chip.hears
          /\ t.chip.header = s.chip.header /\ t.chip.flags = s.chip.flags
      BY <3>1, <3>3, <3>4, Fill22
    <3>6. /\ drv' \in Drv22 /\ chip' \in Chip22 /\ drv'.mode = drv.mode
          /\ drv'.buf = Bytes(m) /\ drv'.sent = m.len
          /\ chip'.tx = Bytes(m) /\ chip'.length = m.len
          /\ chip'.mode = chip.mode /\ chip'.hears = chip.hears
          /\ chip'.header = chip.header /\ chip'.flags = chip.flags
      BY <1>c, <1>s, <3>2, <3>5
    <3>7. Type22'
      BY <1>t, <2>1, <3>2, <3>6 DEF Type22, Pc22
    <3>8. Modes22' /\ Flags22'
      BY <1>m, <1>f, <2>1, <3>2, <3>6 DEF Modes22, Flags22
    <3>9. Part(Bytes(m), chip.header.n)
      BY <2>2, PartOwn
    <3>10. Buf22' /\ Hist22'
      BY <1>b, <1>h, <2>1, <3>2, <3>6, <3>9 DEF Buf22, Hist22
    <3>11. Tx22'
      BY <2>1, <2>2, <3>2, <3>6 DEF Tx22, Loaded22
    <3>. QED
      BY <1>i, <1>l, <2>1, <3>7, <3>8, <3>10, <3>11
  <2>5. CASE m.len \notin 1 .. MaxLen
    <3>1. PICK t : t = R22!ClearTxBuf(s)
      OBVIOUS
    <3>2. R22!Becomes(t) /\ pc' = [at |-> "wait"]
      BY <1>2, <1>s, <2>2, <2>5, <3>1 DEF R22!FillTxBuf, R22!Goto
    <3>3. t \in S22 /\ t.chip = s.chip /\ t.drv.mode = s.drv.mode /\ t.drv.buf = <<>>
      BY <3>1, Empty DEF S22, Drv22, R22!ClearTxBuf
    <3>4. drv' \in Drv22 /\ chip' = chip /\ drv'.mode = drv.mode /\ drv'.buf = <<>>
      BY <1>c, <1>s, <3>2, <3>3
    <3>5. Type22'
      BY <1>t, <2>1, <3>2, <3>4 DEF Type22, Pc22
    <3>6. Modes22' /\ Flags22'
      BY <1>m, <1>f, <2>1, <3>2, <3>4 DEF Modes22, Flags22
    <3>7. Buf22' /\ Hist22'
      BY <1>b, <1>h, <2>1, <3>2, <3>4, PartEmpty DEF Buf22, Hist22
    <3>8. Tx22'
      BY <1>x, <2>1, <3>2, <3>4 DEF Tx22
    <3>. QED
      BY <1>i, <1>l, <2>1, <3>5, <3>6, <3>7, <3>8
  <2>. QED
    BY <2>4, <2>5
<1>3. ASSUME R22!StartTransmit PROVE Inv22'
  <2>1. /\ pc.at = "mode" /\ R22!Becomes(R22!SetModeTx(s)) /\ pc' = [at |-> "wait"]
        /\ log' = [log EXCEPT !.late = @ \/ chip.flags # {}]
    BY <1>3, <1>s DEF R22!StartTransmit, R22!Goto
  <2>2. CASE chip.flags # {}
    <3>1. log' = [log EXCEPT !.late = TRUE]
      BY <1>t, <2>1, <2>2
    <3>2. Late22'
      BY <1>t, <3>1 DEF Late22
    <3>. QED
      BY <3>2 DEF Inv22
  <2>3. CASE chip.flags = {}
    <3>1. PICK t : t = R22!SetModeTx(s)
      OBVIOUS
    <3>2. s.drv.mode # "tx"
      BY <1>m, <1>s, <2>1 DEF Modes22
    <3>3. /\ t \in S22 /\ t.drv.mode = "tx" /\ t.drv.buf = s.drv.buf
          /\ t.drv.sent = s.drv.sent
          /\ t.chip.mode = "tx" /\ t.chip.hears = None /\ t.chip.out = <<>>
          /\ t.chip.tx = s.chip.tx /\ t.chip.length = s.chip.length
          /\ t.chip.header = s.chip.header /\ t.chip.flags = s.chip.flags
      BY <3>1, <3>2, SetModeTx22
    <3>4. /\ drv' \in Drv22 /\ chip' \in Chip22 /\ drv'.mode = "tx" /\ drv'.buf = drv.buf
          /\ drv'.sent = drv.sent
          /\ chip'.mode = "tx" /\ chip'.hears = None /\ chip'.out = <<>>
          /\ chip'.tx = chip.tx /\ chip'.length = chip.length
          /\ chip'.header = chip.header /\ chip'.flags = {}
      BY <1>c, <1>s, <2>1, <2>3, <3>1, <3>3
    <3>5. log' = [log EXCEPT !.late = FALSE]
      BY <1>t, <1>l, <2>1, <2>3
    <3>6. /\ ~log'.late /\ log'.heard = log.heard /\ log'.asked = log.asked
          /\ log'.aired = log.aired /\ log'.got = log.got
      BY <1>t, <3>5
    <3>7. Type22'
      BY <1>t, <2>1, <3>4, <3>5 DEF Type22, Pc22
    <3>8. Modes22' /\ Flags22'
      BY <2>1, <3>4 DEF Modes22, Flags22
    <3>9. Buf22' /\ Hist22'
      BY <1>b, <1>h, <2>1, <3>4, <3>6 DEF Buf22, Hist22
    <3>10. chip'.out \o chip'.tx = Bytes(log.asked)
      <4>1. PICK b \in Seq(Cell) : b = Bytes(log.asked)
        BY <1>t, BytesSeq
      <4>2. <<>> \o b = b
        OBVIOUS
      <4>. QED
        BY <1>x, <2>1, <3>4, <4>1, <4>2 DEF Tx22
    <3>11. Tx22'
      BY <1>x, <2>1, <3>4, <3>6, <3>10 DEF Tx22, Loaded22
    <3>. QED
      BY <1>i, <3>6, <3>7, <3>8, <3>9, <3>11
  <2>. QED
    BY <2>2, <2>3
<1>4. ASSUME R22!PacketSent PROVE Inv22'
  <2>1. /\ pc.at = "wait" /\ drv.mode # "tx" /\ UNCHANGED <<drv, chip, log>>
        /\ pc' = [at |-> "idle"]
    BY <1>4 DEF R22!PacketSent, R22!Goto
  <2>2. pc' \in Pc22 /\ pc'.at = "idle"
    BY <2>1 DEF Pc22
  <2>. QED
    BY <1>g, <2>1, <2>2
<1>5. ASSUME R22!Recv PROVE Inv22'
  <2>1. /\ pc.at = "idle" /\ UNCHANGED <<drv, chip, log>>
        /\ pc' = [at |-> IF drv.valid THEN "copy" ELSE "listen"]
    BY <1>5 DEF R22!Recv, R22!Goto
  <2>2. pc' \in Pc22 /\ pc'.at \in {"copy", "listen"} /\ drv.mode # "tx"
    BY <1>m, <2>1 DEF Pc22, Modes22
  <2>. QED
    BY <1>g, <2>1, <2>2
<1>6. ASSUME R22!Listen PROVE Inv22'
  <2>1. pc.at = "listen" /\ UNCHANGED log
    BY <1>6 DEF R22!Listen
  <2>2. CASE drv.mode = "rx"
    <3>1. UNCHANGED <<drv, chip, log>> /\ pc' = [at |-> "polled"]
      BY <1>6, <2>2 DEF R22!Listen, R22!Becomes, R22!State, R22!Goto
    <3>2. pc' \in Pc22 /\ pc'.at = "polled"
      BY <3>1 DEF Pc22
    <3>. QED
      BY <1>g, <2>1, <2>2, <3>1, <3>2
  <2>3. CASE drv.mode # "rx"
    <3>1. PICK t : t = R22!OpMode(s, "rx")
      OBVIOUS
    <3>2. R22!Becomes(t) /\ pc' = [at |-> "listening"]
      BY <1>6, <1>s, <2>3, <3>1 DEF R22!Listen, R22!Goto
    <3>3. /\ t \in S22 /\ t.drv = s.drv
          /\ t.chip.mode = "rx" /\ t.chip.hears = None
          /\ t.chip.tx = s.chip.tx
          /\ t.chip.header = s.chip.header /\ t.chip.flags = s.chip.flags
      BY <3>1, OpMode22
    <3>4. /\ drv' = drv /\ chip' \in Chip22
          /\ chip'.mode = "rx" /\ chip'.hears = None /\ chip'.tx = chip.tx
          /\ chip'.header = chip.header /\ chip'.flags = chip.flags
      BY <1>c, <1>s, <3>2, <3>3
    <3>5. drv.mode = "idle"
      BY <1>t, <1>m, <2>1, <2>3 DEF Modes22, Drv22
    <3>6. chip.flags = {}
      BY <1>f, <2>1, <3>5 DEF Flags22
    <3>7. Type22'
      BY <1>t, <2>1, <3>2, <3>4 DEF Type22, Pc22
    <3>8. Modes22' /\ Flags22'
      BY <3>2, <3>4, <3>5, <3>6 DEF Modes22, Flags22
    <3>9. Buf22' /\ Hist22'
      BY <1>b, <1>h, <2>1, <3>2, <3>4, <3>6 DEF Buf22, Hist22
    <3>10. Tx22'
      BY <1>x, <2>1, <3>2, <3>4, <3>5 DEF Tx22
    <3>. QED
      BY <1>i, <1>l, <2>1, <3>7, <3>8, <3>9, <3>10
  <2>. QED
    BY <2>2, <2>3
<1>7. ASSUME R22!Listening PROVE Inv22'
  <2>1. /\ pc.at = "listening" /\ drv' = [drv EXCEPT !.mode = "rx"]
        /\ UNCHANGED <<chip, log>> /\ pc' = [at |-> "polled"]
    BY <1>7 DEF R22!Listening, R22!Goto
  <2>2. drv' \in Drv22 /\ drv'.mode = "rx" /\ drv'.buf = drv.buf
    BY <1>t, <2>1 DEF Drv22
  <2>3. chip.mode = "rx" /\ drv.mode = "idle" /\ chip.flags \subseteq {"PREAVAL"}
    BY <1>m, <1>f, <2>1 DEF Modes22, Flags22
  <2>4. Type22'
    BY <1>t, <2>1, <2>2 DEF Type22, Pc22
  <2>5. Modes22'
    BY <2>1, <2>2, <2>3 DEF Modes22
  <2>6. Flags22'
    BY <1>f, <2>1, <2>2, <2>3 DEF Flags22, Rx22
  <2>7. Buf22' /\ Hist22'
    BY <1>b, <1>h, <2>1, <2>2 DEF Buf22, Hist22
  <2>8. Tx22'
    BY <1>x, <2>1, <2>2, <2>3 DEF Tx22
  <2>. QED
    BY <1>i, <1>l, <2>1, <2>4, <2>5, <2>6, <2>7, <2>8
<1>8. ASSUME R22!Polled PROVE Inv22'
  <2>1. /\ pc.at = "polled" /\ UNCHANGED <<drv, chip, log>>
        /\ pc' = [at |-> IF drv.valid THEN "copy" ELSE "idle"]
    BY <1>8 DEF R22!Polled, R22!Goto
  <2>2. pc' \in Pc22 /\ pc'.at \in {"copy", "idle"} /\ drv.mode # "tx"
    BY <1>m, <2>1 DEF Pc22, Modes22
  <2>. QED
    BY <1>g, <2>1, <2>2
<1>9. ASSUME R22!Copy PROVE Inv22'
  <2>1. PICK b \in Seq(Cell) : b = drv.buf
    BY <1>t DEF Drv22
  <2>2. /\ pc.at = "copy" /\ UNCHANGED <<drv, chip, log>>
        /\ pc' = [at |-> "clear", data |-> b]
    BY <1>9, <2>1 DEF R22!Copy
  <2>3. pc' \in Data69 /\ pc'.at = "clear" /\ pc'.data = b
    BY <2>1, <2>2 DEF Data69
  <2>4. Type22' /\ ~log'.late
    BY <1>t, <1>l, <2>2, <2>3 DEF Type22
  <2>5. Modes22' /\ Flags22'
    BY <1>m, <1>f, <2>2, <2>3 DEF Modes22, Flags22
  <2>6. Buf22' /\ Hist22'
    BY <1>b, <1>h, <2>1, <2>2, <2>3 DEF Buf22, Hist22
  <2>7. Tx22'
    BY <1>m, <1>x, <2>2, <2>3 DEF Modes22, Tx22
  <2>. QED
    BY <1>i, <2>4, <2>5, <2>6, <2>7
<1>10. ASSUME R22!Clear PROVE Inv22'
  <2>1. /\ pc.at = "clear" /\ R22!Becomes(R22!ClearRxBuf(s))
        /\ pc' = [pc EXCEPT !.at = "header"] /\ UNCHANGED log
    BY <1>10, <1>s DEF R22!Clear
  <2>2. pc \in Data69
    BY <1>t, <2>1 DEF Pc22
  <2>3. pc' \in Data69 /\ pc'.at = "header" /\ pc'.data = pc.data
    BY <2>1, <2>2 DEF Data69
  <2>4. PICK t : t = R22!ClearRxBuf(s)
    OBVIOUS
  <2>5. t \in S22 /\ t.chip = s.chip /\ t.drv.buf = <<>> /\ t.drv.mode = s.drv.mode
    BY <2>4, ClearRx22
  <2>6. drv' \in Drv22 /\ chip' = chip /\ drv'.buf = <<>> /\ drv'.mode = drv.mode
    BY <1>c, <1>s, <2>1, <2>4, <2>5
  <2>7. Type22' /\ ~log'.late
    BY <1>t, <1>l, <2>1, <2>3, <2>6 DEF Type22
  <2>8. Modes22' /\ Flags22'
    BY <1>m, <1>f, <2>1, <2>3, <2>6 DEF Modes22, Flags22
  <2>9. Buf22' /\ Hist22'
    BY <1>b, <1>h, <2>1, <2>3, <2>6, PartEmpty DEF Buf22, Hist22
  <2>10. Tx22'
    BY <1>m, <1>x, <2>1, <2>3, <2>6 DEF Modes22, Tx22
  <2>. QED
    BY <1>i, <2>7, <2>8, <2>9, <2>10
<1>11. ASSUME R22!Header PROVE Inv22'
  <2>1. /\ pc.at = "header" /\ pc' = [at |-> "idle"] /\ UNCHANGED <<drv, chip>>
        /\ log' = [log EXCEPT !.got = <<pc.data, chip.header>>]
    BY <1>11 DEF R22!Header, R22!Goto
  <2>2. pc \in Data69
    BY <1>t, <2>1 DEF Pc22
  <2>3. PICK d \in Seq(Cell) : d = pc.data
    BY <2>2 DEF Data69
  <2>4. PICK f \in Frame : f = chip.header
    BY <1>t DEF Chip22
  <2>5. PICK g : g = <<d, f>>
    OBVIOUS
  <2>6. g \in Got69 /\ g[1] = d /\ g[2] = f
    BY <2>5
  <2>7. log'.heard = log.heard /\ log'.aired = log.aired /\ ~log'.late
        /\ log'.got = g /\ log'.asked = log.asked /\ LogType(Got69)'
    BY <1>t, <1>l, <2>1, <2>3, <2>4, <2>5, <2>6
  <2>8. Part(d, f.n)
    BY <1>b, <2>1, <2>3, <2>4 DEF Buf22
  <2>9. Type22'
    BY <1>t, <2>1, <2>7 DEF Type22, Pc22
  <2>10. Modes22' /\ Flags22'
    BY <1>m, <1>f, <2>1, <2>7 DEF Modes22, Flags22
  <2>11. Buf22'
    BY <1>b, <2>1, <2>7 DEF Buf22
  <2>12. Hist22'
    BY <1>h, <2>6, <2>7, <2>8 DEF Hist22
  <2>13. Tx22'
    BY <1>m, <1>x, <2>1, <2>7 DEF Modes22, Tx22
  <2>. QED
    BY <1>i, <2>7, <2>9, <2>10, <2>11, <2>12, <2>13
<1>12. ASSUME R22!HandleInterrupt PROVE Inv22'
  <2>1. chip.flags # {} /\ pc.at # "mode" /\ UNCHANGED <<pc, log>>
    BY <1>12 DEF R22!HandleInterrupt
  <2>2. PICK f \in SUBSET Flag22 : f = chip.flags
    BY <1>t DEF Chip22
  <2>3. PICK u : u = [s EXCEPT !.chip.flags = {}]
    OBVIOUS
  <2>4. /\ u \in S22 /\ u.drv = drv /\ u.chip.flags = {}
        /\ u.chip.mode = chip.mode /\ u.chip.hears = chip.hears /\ u.chip.tx = chip.tx
        /\ u.chip.header = chip.header /\ u.chip.rx = chip.rx
        /\ u.chip.rxLength = chip.rxLength
    <3>1. /\ u \in S22 /\ u.drv = s.drv /\ u.chip.flags = {}
          /\ u.chip.mode = s.chip.mode /\ u.chip.hears = s.chip.hears
          /\ u.chip.tx = s.chip.tx
          /\ u.chip.header = s.chip.header /\ u.chip.rx = s.chip.rx
          /\ u.chip.rxLength = s.chip.rxLength
      BY ONLY <2>3, s \in S22 DEF S22, Chip22
    <3>. QED
      BY <1>s, <3>1
  <2>5. PICK t : t = R22!Handled(u, f)
    OBVIOUS
  <2>6. R22!Becomes(t)
    BY <1>12, <1>s, <2>2, <2>3, <2>5 DEF R22!HandleInterrupt
  <2>7. CASE drv.mode = "tx"
    <3>1. /\ f = {"PKSENT", "TXFFAEM"} /\ chip.mode = "idle" /\ chip.tx = <<>>
          /\ drv.buf = Bytes(log.asked) /\ drv.sent = log.asked.len
      BY <1>x, <2>1, <2>2, <2>7 DEF Tx22, Loaded22
    <3>2. u.drv.sent = Len(u.drv.buf)
      BY <1>t, <2>4, <3>1, BytesSeq
    <3>3. t \in S22 /\ t.chip = u.chip /\ t.drv.mode = "idle" /\ t.drv.buf = u.drv.buf
      BY <2>4, <2>5, <3>1, <3>2, Sent22
    <3>4. /\ drv' \in Drv22 /\ chip' \in Chip22 /\ drv'.mode = "idle" /\ drv'.buf = drv.buf
          /\ chip'.flags = {} /\ chip'.mode = "idle" /\ chip'.hears = chip.hears
          /\ chip'.tx = <<>> /\ chip'.header = chip.header
      BY <1>c, <2>4, <2>6, <3>1, <3>3
    <3>5. chip.hears = None
      BY <1>f, <3>1 DEF Flags22
    <3>6. Type22' /\ ~log'.late
      BY <1>t, <1>l, <2>1, <3>4 DEF Type22
    <3>7. pc.at = "wait"
      BY <1>m, <2>7 DEF Modes22
    <3>8. Modes22' /\ Flags22'
      BY <2>1, <3>4, <3>5, <3>7 DEF Modes22, Flags22
    <3>9. Buf22' /\ Hist22'
      BY <1>b, <1>h, <2>1, <3>4, <3>5, <3>7 DEF Buf22, Hist22
    <3>10. Tx22'
      BY <1>x, <2>1, <3>4, <3>7 DEF Tx22
    <3>. QED
      BY <1>i, <3>6, <3>8, <3>9, <3>10
  <2>8. CASE drv.mode # "tx"
    <3>1. f \in SUBSET Rx22 /\ ("FFERR" \in f => drv.mode = "rx")
          /\ (pc.at = "listening" => f = {"PREAVAL"})
      BY <1>m, <1>f, <2>1, <2>2, <2>8 DEF Modes22, Flags22, Rx22
    <3>2. u.drv.mode # "tx" /\ ("FFERR" \in f => u.drv.mode = "rx")
      BY <2>4, <2>8, <3>1
    <3>a. Outcome22(u, f, t)
      BY <2>4, <2>5, <3>1, <3>2, Receiving22
    <3>3. /\ t \in S22 /\ (u.chip.tx = <<>> => t.chip.tx = <<>>)
          /\ t.chip.header = u.chip.header /\ t.chip.flags = u.chip.flags
          /\ \/ /\ "CRCERROR" \in f /\ t.drv.mode = "rx" /\ t.chip.mode = "rx"
                /\ t.chip.hears = None /\ t.drv.buf = <<>>
             \/ /\ "PKVALID" \in f /\ t.drv.mode = "idle"
                /\ t.chip.mode = u.chip.mode /\ t.chip.hears = u.chip.hears
                /\ "PREAVAL" \in f => t.drv.buf = <<>>
                /\ /\ "PREAVAL" \notin f /\ "FFERR" \notin f
                   /\ u.drv.buf = <<>> /\ u.chip.rxLength = Len(u.chip.rx)
                   => t.drv.buf \in {<<>>, u.chip.rx}
             \/ /\ f \cap {"PKVALID", "CRCERROR"} = {} /\ t.drv.mode = u.drv.mode
                /\ t.chip.mode = u.chip.mode /\ t.chip.hears = u.chip.hears
                /\ "PREAVAL" \in f => t.drv.buf = <<>> /\ t.chip.rx = <<>>
                /\ t.drv.buf \in {<<>>, u.drv.buf} /\ t.chip.rx \in {<<>>, u.chip.rx}
      BY <3>a DEF Outcome22
    <3>4. chip.tx = <<>>
      BY <1>x, <2>1, <2>8 DEF Tx22
    <3>5. /\ drv' \in Drv22 /\ chip' \in Chip22 /\ chip'.tx = <<>>
          /\ chip'.header = chip.header /\ chip'.flags = {}
          /\ drv' = t.drv /\ chip' = t.chip
      BY <1>c, <2>4, <2>6, <3>3, <3>4
    \* What each outcome has to show
    <3>6. ASSUME drv'.mode # "tx", chip'.mode = "tx" => FALSE,
                 chip'.mode = "rx" => drv'.mode = "rx" \/ pc.at = "listening",
                 pc.at = "listening" => chip'.mode = "rx" /\ drv'.mode = "idle",
                 chip'.hears # None => /\ chip'.mode = "rx" /\ chip'.hears = chip.hears
                                       /\ chip'.rx = <<>> /\ drv'.buf = <<>>,
                 Part(drv'.buf, chip.header.n)
          PROVE  Inv22'
      <4>1. Type22' /\ ~log'.late
        BY <1>t, <1>l, <2>1, <3>5 DEF Type22
      <4>2. Modes22'
        BY <2>1, <3>6 DEF Modes22
      <4>3. Flags22'
        BY <1>f, <2>1, <3>5, <3>6 DEF Flags22
      <4>4. Buf22' /\ Hist22'
        BY <1>b, <1>h, <2>1, <3>5, <3>6 DEF Buf22, Hist22
      <4>5. Tx22'
        BY <1>x, <2>1, <3>5, <3>6 DEF Tx22
      <4>. QED
        BY <1>i, <4>1, <4>2, <4>3, <4>4, <4>5
    <3>7. CASE /\ "CRCERROR" \in f /\ t.drv.mode = "rx" /\ t.chip.mode = "rx"
               /\ t.chip.hears = None /\ t.drv.buf = <<>>
      <4>1. pc.at # "listening"
        BY <3>1, <3>7
      <4>. QED
        BY <3>5, <3>6, <3>7, <4>1, PartEmpty
    <3>8. CASE /\ "PKVALID" \in f /\ t.drv.mode = "idle"
               /\ t.chip.mode = u.chip.mode /\ t.chip.hears = u.chip.hears
               /\ "PREAVAL" \in f => t.drv.buf = <<>>
               /\ /\ "PREAVAL" \notin f /\ "FFERR" \notin f
                  /\ u.drv.buf = <<>> /\ u.chip.rxLength = Len(u.chip.rx)
                  => t.drv.buf \in {<<>>, u.chip.rx}
      <4>1. pc.at # "listening"
        BY <3>1, <3>8
      <4>2. chip.mode = "idle" /\ chip.hears = None
        BY <1>f, <2>2, <3>8 DEF Flags22
      <4>3. Part(t.drv.buf, chip.header.n)
        <5>1. CASE "PREAVAL" \in f
          BY <3>8, <5>1, PartEmpty
        <5>2. CASE "PREAVAL" \notin f
          <6>1. PICK h \in Frame : h = chip.header
            BY <1>t DEF Chip22
          <6>2. /\ drv.buf = <<>> /\ chip.rx = Bytes(h) /\ chip.rxLength = h.len
                /\ "FFERR" \notin f
            BY <1>b, <2>1, <2>2, <3>8, <5>2, <6>1 DEF Buf22
          <6>3. chip.rxLength = Len(chip.rx)
            BY <6>2, BytesSeq
          <6>4. t.drv.buf \in {<<>>, Bytes(h)}
            BY <2>4, <3>8, <5>2, <6>2, <6>3
          <6>. QED
            BY <6>1, <6>4, PartBytes, PartEmpty
        <5>. QED
          BY <5>1, <5>2
      <4>. QED
        BY <2>4, <3>5, <3>6, <3>8, <4>1, <4>2, <4>3
    <3>9. CASE /\ f \cap {"PKVALID", "CRCERROR"} = {} /\ t.drv.mode = u.drv.mode
               /\ t.chip.mode = u.chip.mode /\ t.chip.hears = u.chip.hears
               /\ "PREAVAL" \in f => t.drv.buf = <<>> /\ t.chip.rx = <<>>
               /\ t.drv.buf \in {<<>>, u.drv.buf} /\ t.chip.rx \in {<<>>, u.chip.rx}
      <4>1. drv'.mode = drv.mode /\ chip'.mode = chip.mode /\ chip'.hears = chip.hears
        BY <2>4, <3>5, <3>9
      <4>2. chip.hears # None => chip.mode = "rx" /\ "PREAVAL" \in f
        BY <1>f, <2>1, <2>2 DEF Flags22
      <4>3. chip.hears # None => drv'.buf = <<>> /\ chip'.rx = <<>>
        BY <3>5, <3>9, <4>2
      <4>4. Part(drv'.buf, chip.header.n)
        BY <1>b, <2>4, <3>5, <3>9, PartEmpty DEF Buf22
      <4>5. chip.mode # "tx" /\ (chip.mode = "rx" => drv.mode = "rx" \/ pc.at = "listening")
            /\ (pc.at = "listening" => chip.mode = "rx" /\ drv.mode = "idle")
        BY <1>m, <2>8 DEF Modes22
      <4>. QED
        BY <2>8, <3>6, <4>1, <4>2, <4>3, <4>4, <4>5
    <3>. QED
      BY <3>3, <3>7, <3>8, <3>9
  <2>. QED
    BY <2>7, <2>8
<1>13. ASSUME NEW len \in R22!Lengths, R22!Preamble(len) PROVE Inv22'
  <2>1. PICK m \in Frame : m = R22!Heard(len, TRUE)
    BY <1>0, <1>t, NewFrames, Heard22
  <2>2. m.of = "air" /\ m.n = log.heard + 1
    BY <2>1 DEF R22!Heard
  <2>3. PICK n \in Nat : n = log.heard + 1
    BY <1>t
  <2>4. PICK g \in SUBSET Flag22 : g = chip.flags \cup {"PREAVAL"}
    BY <1>t DEF Chip22, Flag22, Rx22
  <2>5. /\ chip.mode = "rx" /\ UNCHANGED <<drv, pc>>
        /\ log' = [log EXCEPT !.heard = n]
        /\ chip' = [chip EXCEPT !.hears = m, !.flags = g]
    BY <1>13, <2>1, <2>3, <2>4 DEF R22!Preamble
  <2>6. /\ chip' \in Chip22 /\ chip'.mode = "rx" /\ chip'.hears = m /\ chip'.flags = g
        /\ chip'.tx = chip.tx /\ chip'.header = chip.header /\ chip'.length = chip.length
    BY <1>t, <2>5 DEF Chip22
  <2>7. log'.heard = n /\ log'.aired = log.aired /\ log'.got = log.got
        /\ ~log'.late /\ log'.asked = log.asked /\ LogType(Got69)'
    BY <1>t, <1>l, <2>5
  <2>8. drv.mode = "rx" \/ (pc.at = "listening" /\ drv.mode = "idle")
    BY <1>m, <2>5 DEF Modes22
  <2>9. Type22'
    BY <1>t, <2>5, <2>6, <2>7 DEF Type22
  <2>10. Modes22'
    BY <1>m, <2>5, <2>6 DEF Modes22
  <2>11. Flags22'
    BY <1>f, <2>2, <2>3, <2>4, <2>5, <2>6, <2>7, <2>8 DEF Flags22, Rx22
  <2>12. Buf22' /\ Hist22'
    <3>1. PICK k \in Nat : k = chip.header.n
      BY <1>t DEF Chip22, Frame
    <3>2. PICK j \in Nat : j = log.heard
      BY <1>t
    <3>3. k <= n
      BY <1>b, <2>3, <3>1, <3>2 DEF Buf22
    <3>. QED
      BY <1>b, <1>h, <2>4, <2>5, <2>6, <2>7, <3>1, <3>3 DEF Buf22, Hist22
  <2>13. Tx22'
    BY <1>x, <2>5, <2>6, <2>7, <2>8 DEF Tx22, Loaded22
  <2>. QED
    BY <1>i, <2>7, <2>9, <2>10, <2>11, <2>12, <2>13
<1>14. ASSUME NEW good \in BOOLEAN, R22!Received(good) PROVE Inv22'
  <2>1. PICK f \in Frame : f = chip.hears
    BY <1>t DEF Chip22
  <2>2. PICK b \in Seq(Cell) : b = Bytes(f)
    BY BytesSeq
  <2>3. PICK r \in Seq(Cell) : r = chip.rx
    BY <1>t DEF Chip22
  <2>4. PICK q \in Seq(Cell) : q = r \o b
    <3>1. r \o b \in Seq(Cell)
      BY ConcatProperties
    <3>. QED
      BY <3>1
  <2>5. chip.mode = "rx" /\ f # None /\ pc.at # "listening" /\ UNCHANGED <<drv, pc, log>>
    BY <1>14, <2>1, None22 DEF R22!Received
  <2>6. drv.mode = "rx"
    BY <1>m, <2>5 DEF Modes22
  <2>7. f.of = "air" /\ f.n = log.heard /\ ("PREAVAL" \in chip.flags \/ chip.flags = {})
        /\ "PKVALID" \notin chip.flags /\ "CRCERROR" \notin chip.flags
        /\ chip.flags \subseteq Rx22
    BY <1>f, <2>1, <2>5, <2>6 DEF Flags22
  <2>8. CASE Len(q) > Fifo
    <3>1. PICK g \in SUBSET Flag22 : g = chip.flags \cup {"FFERR", "RXFFAFULL"}
      BY <1>t DEF Chip22, Flag22, Rx22
    <3>2. chip' = [chip EXCEPT !.hears = None, !.flags = g]
      BY <1>14, <2>1, <2>2, <2>3, <2>4, <2>8, <3>1, None22, Bytes22 DEF R22!Received
    <3>3. /\ chip' \in Chip22 /\ chip'.mode = "rx" /\ chip'.hears = None /\ chip'.flags = g
          /\ chip'.tx = chip.tx /\ chip'.header = chip.header /\ chip'.length = chip.length
      BY <1>t, <2>5, <3>2, Empty DEF Chip22
    <3>4. "PKVALID" \notin g /\ "CRCERROR" \notin g /\ g \subseteq Rx22
      BY <2>7, <3>1 DEF Rx22
    <3>5. Type22' /\ ~log'.late
      BY <1>t, <1>l, <2>5, <3>3 DEF Type22
    <3>6. Modes22'
      BY <1>m, <2>5, <3>3 DEF Modes22
    <3>7. Flags22'
      BY <2>5, <2>6, <3>3, <3>4 DEF Flags22
    <3>8. Buf22' /\ Hist22'
      BY <1>b, <1>h, <2>5, <3>3, <3>4 DEF Buf22, Hist22
    <3>9. Tx22'
      BY <1>x, <2>5, <2>6, <3>3 DEF Tx22, Loaded22
    <3>. QED
      BY <1>i, <3>5, <3>6, <3>7, <3>8, <3>9
  <2>9. CASE ~(Len(q) > Fifo)
    <3>1. PICK g : g = chip.flags \cup {IF good THEN "PKVALID" ELSE "CRCERROR"}
                         \cup (IF Len(q) >= RxAlmost THEN {"RXFFAFULL"} ELSE {})
      OBVIOUS
    <3>2. /\ g \in SUBSET Flag22 /\ g \subseteq Rx22
          /\ "PREAVAL" \in chip.flags => "PREAVAL" \in g
          /\ "PKVALID" \in g => good
          /\ chip.flags = {} /\ good => "FFERR" \notin g /\ "CRCERROR" \notin g
      BY <2>7, <3>1 DEF Flag22, Rx22
    <3>3. PICK h \in Frame : h = IF good THEN f ELSE chip.header
      BY <1>t, <2>1 DEF Chip22
    <3>4. PICK l \in Nat : l = f.len
      BY DEF Frame
    <3>5. chip' = [chip EXCEPT !.hears = None, !.rx = q, !.mode = "idle", !.rxLength = l,
                               !.header = h, !.flags = g]
      BY <1>14, <1>t, <2>1, <2>2, <2>3, <2>4, <2>9, <3>1, <3>3, <3>4, None22, Bytes22
         DEF R22!Received, Chip22
    <3>6. /\ chip' \in Chip22 /\ chip'.mode = "idle" /\ chip'.hears = None
          /\ chip'.flags = g /\ chip'.rx = q /\ chip'.rxLength = l /\ chip'.header = h
          /\ chip'.tx = chip.tx /\ chip'.length = chip.length
      BY <1>t, <3>2, <3>5, Empty DEF Chip22
    <3>7. Type22' /\ ~log'.late
      BY <1>t, <1>l, <2>5, <3>6 DEF Type22
    <3>8. Modes22'
      BY <1>m, <2>5, <2>6, <3>6 DEF Modes22
    <3>9. Flags22'
      BY <2>5, <2>6, <3>2, <3>6 DEF Flags22
    <3>10. PICK k \in Frame : k = chip.header
      BY <1>t DEF Chip22
    <3>11. k.n \in Nat /\ h.n \in Nat /\ k.n <= h.n /\ h.n <= log.heard
      BY <1>b, <1>t, <2>7, <3>3, <3>10 DEF Buf22, Frame
    <3>12. Part(drv.buf, h.n)
      <4>1. PICK d \in Seq(Cell) : d = drv.buf
        BY <1>t DEF Drv22
      <4>2. Part(d, k.n)
        BY <1>b, <3>10, <4>1 DEF Buf22
      <4>. QED
        BY <3>11, <4>1, <4>2, PartLater
    <3>13. ASSUME pc.at \in {"clear", "header"} PROVE Part(pc.data, h.n)
      <4>1. pc \in Data69
        BY <1>t, <3>13 DEF Pc22
      <4>2. PICK d \in Seq(Cell) : d = pc.data
        BY <4>1 DEF Data69
      <4>3. Part(d, k.n)
        BY <1>b, <3>10, <3>13, <4>2 DEF Buf22
      <4>. QED
        BY <3>11, <4>2, <4>3, PartLater
    <3>14. ASSUME "PKVALID" \in g, "PREAVAL" \notin g, pc.at # "mode"
           PROVE  /\ drv.buf = <<>> /\ q = Bytes(h) /\ l = h.len /\ h.of = "air"
                  /\ "FFERR" \notin g /\ "CRCERROR" \notin g
      <4>1. good /\ chip.flags = {} /\ h = f
        BY <2>7, <3>2, <3>3, <3>14
      <4>2. chip.rx = <<>> /\ drv.buf = <<>>
        BY <1>b, <2>1, <2>5, <3>14, <4>1 DEF Buf22
      <4>3. <<>> \o b = b
        OBVIOUS
      <4>. QED
        BY <2>2, <2>3, <2>4, <2>7, <3>2, <3>4, <4>1, <4>2, <4>3
    <3>15. Buf22'
      BY <2>5, <3>6, <3>11, <3>12, <3>13, <3>14 DEF Buf22
    <3>16. Hist22'
      BY <1>h, <2>5 DEF Hist22
    <3>17. Tx22'
      BY <1>x, <2>5, <2>6, <3>6 DEF Tx22, Loaded22
    <3>. QED
      BY <1>i, <3>7, <3>8, <3>9, <3>15, <3>16, <3>17
  <2>. QED
    BY <2>8, <2>9
<1>15. ASSUME R22!TransmitByte PROVE Inv22'
  <2>1. chip.mode = "tx" /\ UNCHANGED <<drv, pc, log>>
    BY <1>15 DEF R22!TransmitByte
  <2>2. drv.mode = "tx" /\ pc.at = "wait"
    BY <1>m, <2>1 DEF Modes22
  <2>3. PICK m \in Frame : m = log.asked
    BY <1>t
  <2>4. Loaded22 /\ chip.flags = {} /\ chip.length = m.len /\ chip.out \o chip.tx = Bytes(m)
    BY <1>x, <2>1, <2>2, <2>3 DEF Tx22
  <2>5. PICK o \in Seq(Cell) : o = chip.out
    BY <1>t DEF Chip22
  <2>6. PICK q \in Seq(Cell) : q = chip.tx
    BY <1>t DEF Chip22
  <2>7. Len(o) < m.len
    BY <1>15, <2>4, <2>5 DEF R22!TransmitByte
  <2>8. q # <<>>
    BY <2>4, <2>5, <2>6, <2>7, BytesOut
  <2>9. PICK a \in Seq(Cell) : a = Append(o, Head(q))
    BY <2>8, ByteMoved
  <2>10. PICK r \in Seq(Cell) : r = Tail(q)
    BY <2>8, ByteMoved
  <2>11. chip' = [chip EXCEPT !.out = a, !.tx = r]
    BY <1>15, <2>5, <2>6, <2>8, <2>9, <2>10 DEF R22!TransmitByte
  <2>12. a \o r = Bytes(m)
    BY <2>4, <2>5, <2>6, <2>8, <2>9, <2>10, ByteMoved
  <2>13. /\ chip' \in Chip22 /\ chip'.mode = "tx" /\ chip'.flags = {} /\ chip'.hears = chip.hears
         /\ chip'.out = a /\ chip'.tx = r /\ chip'.length = m.len
         /\ chip'.header = chip.header
    BY <1>t, <2>1, <2>4, <2>11 DEF Chip22
  <2>14. chip.hears = None
    BY <1>f, <2>1 DEF Flags22
  <2>15. Type22' /\ ~log'.late
    BY <1>t, <1>l, <2>1, <2>13 DEF Type22
  <2>16. Modes22' /\ Flags22'
    BY <2>1, <2>2, <2>13, <2>14 DEF Modes22, Flags22
  <2>17. Buf22' /\ Hist22'
    BY <1>b, <1>h, <2>1, <2>13, <2>14 DEF Buf22, Hist22
  <2>18. Tx22'
    BY <1>x, <2>1, <2>2, <2>3, <2>4, <2>12, <2>13 DEF Tx22, Loaded22
  <2>. QED
    BY <1>i, <2>15, <2>16, <2>17, <2>18
<1>16. ASSUME R22!Transmitted PROVE Inv22'
  <2>1. chip.mode = "tx" /\ Len(chip.out) = chip.length /\ UNCHANGED <<drv, pc>>
    BY <1>16 DEF R22!Transmitted
  <2>2. drv.mode = "tx" /\ pc.at = "wait"
    BY <1>m, <2>1 DEF Modes22
  <2>3. PICK m \in Frame : m = log.asked
    BY <1>t
  <2>4. Loaded22 /\ chip.flags = {} /\ chip.length = m.len /\ chip.out \o chip.tx = Bytes(m)
    BY <1>x, <2>1, <2>2, <2>3 DEF Tx22
  <2>5. PICK o \in Seq(Cell) : o = chip.out
    BY <1>t DEF Chip22
  <2>6. PICK q \in Seq(Cell) : q = chip.tx
    BY <1>t DEF Chip22
  <2>7. q = <<>> /\ o = Bytes(m)
    BY <2>1, <2>4, <2>5, <2>6, BytesOut
  <2>8. PICK g \in SUBSET Flag22 : g = {"PKSENT", "TXFFAEM"}
    BY DEF Flag22
  <2>9. /\ chip' = [chip EXCEPT !.mode = "idle", !.out = <<>>, !.flags = g]
        /\ log' = [log EXCEPT !.aired = o]
    BY <1>16, <2>4, <2>5, <2>8 DEF R22!Transmitted
  <2>10. /\ chip' \in Chip22 /\ chip'.mode = "idle" /\ chip'.flags = g
         /\ chip'.hears = chip.hears /\ chip'.tx = chip.tx /\ chip'.header = chip.header
    BY <1>t, <2>9, Empty DEF Chip22
  <2>11. log'.heard = log.heard /\ log'.aired = o /\ log'.got = log.got
         /\ ~log'.late /\ log'.asked = log.asked /\ LogType(Got69)'
    BY <1>t, <1>l, <2>9
  <2>12. chip.hears = None
    BY <1>f, <2>1, <2>4 DEF Flags22
  <2>13. Type22'
    BY <1>t, <2>1, <2>10, <2>11 DEF Type22
  <2>14. Modes22' /\ Flags22'
    BY <2>1, <2>2, <2>8, <2>10, <2>12 DEF Modes22, Flags22
  <2>15. Buf22'
    BY <1>b, <2>1, <2>8, <2>10, <2>11, <2>12 DEF Buf22
  <2>16. Hist22'
    BY <1>h, <2>7, <2>11, BytesSeq DEF Hist22
  <2>17. Tx22'
    BY <1>x, <2>1, <2>2, <2>4, <2>6, <2>7, <2>8, <2>10, <2>11 DEF Tx22, Loaded22
  <2>. QED
    BY <1>i, <2>11, <2>13, <2>14, <2>15, <2>16, <2>17
<1>. QED
  BY <1>1, <1>2, <1>3, <1>4, <1>5, <1>6, <1>7, <1>8, <1>9, <1>10, <1>11, <1>12, <1>13,
     <1>14, <1>15, <1>16 DEF R22!Next

-----------------------------------------------------------------------------
(* SerialLine *)

\* A set of numbers that is not empty has a least one.
LEMMA FirstSuch ==
  ASSUME NEW T \in SUBSET Nat, T # {}
  PROVE  \E m \in T : \A k \in T : ~(k < m)
<1>1. \E x \in T : \A y \in T : ~(<<y, x>> \in OpToRel(<, Nat))
  BY NatLessThanWellFounded, WFMin, Zenon
<1>. QED
  BY <1>1 DEF OpToRel

\* The recursive function of Ser!FlattenSeq exists, and its values are sequences.
LEMMA Flattened ==
  ASSUME NEW S, NEW q \in Seq(Seq(S))
  PROVE  Ser!FlattenSeq(q) \in Seq(S)
<1>1. PICK n \in Nat : n = Len(q)
  OBVIOUS
<1>2. CASE n = 0
  <2>1. q = <<>>
    BY <1>1, <1>2, EmptySeq
  <2>2. Ser!FlattenSeq(q) = <<>>
    BY <1>1, <1>2, <2>1 DEF Ser!FlattenSeq
  <2>3. <<>> \in Seq(S)
    OBVIOUS
  <2>. QED
    BY <2>2, <2>3
<1>3. CASE n # 0
  <2>1. \A i \in 1 .. n : q[i] \in Seq(S)
    BY <1>1
  <2> DEFINE Upto(k, g) ==
        /\ g = [i \in 1 .. k |-> IF i = 1 THEN q[i] ELSE g[i - 1] \o q[i]]
        /\ \A i \in 1 .. k : g[i] \in Seq(S)
             T == {k \in Nat : k <= n /\ ~ \E g : Upto(k, g)}
  <2>2. T = {}
    <3>. SUFFICES ASSUME T # {} PROVE FALSE
      OBVIOUS
    <3>1. PICK m \in T : \A k \in T : ~(k < m)
      BY FirstSuch
    <3>2. m \in Nat /\ m <= n
      BY <3>1
    <3>3. CASE m = 0
      <4>1. PICK e : e = [i \in 1 .. 0 |-> IF i = 1 THEN q[i] ELSE <<>>]
        OBVIOUS
      <4>2. Upto(0, e)
        BY <4>1
      <4>. QED
        BY <3>1, <3>3, <4>2
    <3>4. CASE m # 0
      <4>1. m - 1 \in Nat /\ m - 1 <= n /\ m - 1 < m
        BY <3>2, <3>4
      <4>2. PICK g : Upto(m - 1, g)
        BY <3>1, <4>1
      <4>3. PICK x : x = IF m = 1 THEN q[m] ELSE g[m - 1] \o q[m]
        OBVIOUS
      <4>4. x \in Seq(S)
        <5>1. q[m] \in Seq(S)
          BY <2>1, <3>2, <3>4
        <5>2. CASE m = 1
          BY <4>3, <5>1, <5>2
        <5>3. CASE m # 1
          <6>1. g[m - 1] \in Seq(S)
            BY <3>2, <3>4, <4>2, <5>3
          <6>. QED
            BY <4>3, <5>1, <5>3, <6>1, ConcatProperties
        <5>. QED
          BY <5>2, <5>3
      <4>5. PICK h : h = [i \in 1 .. m |-> IF i < m THEN g[i] ELSE x]
        OBVIOUS
      <4>6. \A i \in 1 .. m - 1 : h[i] = g[i]
        BY <3>2, <3>4, <4>5
      <4>7. h[m] = x
        BY <3>2, <3>4, <4>5
      <4>8. \A i \in 1 .. m : h[i] = (IF i = 1 THEN q[i] ELSE h[i - 1] \o q[i])
        <5>. SUFFICES ASSUME NEW i \in 1 .. m
                      PROVE  h[i] = (IF i = 1 THEN q[i] ELSE h[i - 1] \o q[i])
          OBVIOUS
        <5>1. CASE i = m
          BY <3>2, <4>3, <4>6, <4>7, <5>1
        <5>2. CASE i # m
          <6>1. i \in 1 .. m - 1 /\ (i # 1 => i - 1 \in 1 .. m - 1)
            BY <3>2, <5>2
          <6>2. g[i] = (IF i = 1 THEN q[i] ELSE g[i - 1] \o q[i])
            BY <4>2, <6>1
          <6>. QED
            BY <4>6, <6>1, <6>2
        <5>. QED
          BY <5>1, <5>2
      <4>9. \A i \in 1 .. m : h[i] \in Seq(S)
        <5>. SUFFICES ASSUME NEW i \in 1 .. m PROVE h[i] \in Seq(S)
          OBVIOUS
        <5>1. CASE i = m
          BY <4>4, <4>7, <5>1
        <5>2. CASE i # m
          <6>1. i \in 1 .. m - 1
            BY <3>2, <5>2
          <6>. QED
            BY <4>2, <4>6, <6>1
        <5>. QED
          BY <5>1, <5>2
      <4>10. h = [i \in 1 .. m |-> IF i = 1 THEN q[i] ELSE h[i - 1] \o q[i]]
        BY <4>5, <4>8
      <4>. QED
        BY <3>1, <4>9, <4>10
    <3>. QED
      BY <3>3, <3>4
  <2>3. \E g : Upto(n, g)
    <3>1. n \notin T
      BY <2>2
    <3>2. n <= n
      OBVIOUS
    <3>. QED
      BY <3>1, <3>2
  <2>4. PICK f : f = CHOOSE g : g = [i \in 1 .. n |-> IF i = 1 THEN q[i] ELSE g[i - 1] \o q[i]]
    OBVIOUS
  <2>5. f = [i \in 1 .. n |-> IF i = 1 THEN q[i] ELSE f[i - 1] \o q[i]]
    BY <2>3, <2>4
  <2>6. Ser!FlattenSeq(q) = f[n]
    BY <1>1, <1>3, <2>4 DEF Ser!FlattenSeq
  <2>7. \A i \in 1 .. n : f[i] \in Seq(S)
    <3> DEFINE B == {k \in Nat : k \in 1 .. n /\ f[k] \notin Seq(S)}
    <3>. SUFFICES ASSUME B # {} PROVE FALSE
      OBVIOUS
    <3>1. PICK m \in B : \A k \in B : ~(k < m)
      BY FirstSuch
    <3>2. m \in 1 .. n /\ f[m] \notin Seq(S)
      BY <3>1
    <3>3. CASE m = 1
      BY <2>1, <2>5, <3>2, <3>3
    <3>4. CASE m # 1
      <4>1. m - 1 \in 1 .. n /\ m - 1 \in Nat /\ m - 1 < m
        BY <3>2, <3>4
      <4>2. f[m - 1] \in Seq(S)
        BY <3>1, <4>1
      <4>3. f[m] = f[m - 1] \o q[m]
        BY <2>5, <3>2, <3>4
      <4>4. q[m] \in Seq(S)
        BY <2>1, <3>2
      <4>. QED
        BY <3>2, <4>2, <4>3, <4>4, ConcatProperties
    <3>. QED
      BY <3>3, <3>4
  <2>. QED
    BY <1>3, <2>6, <2>7
<1>. QED
  BY <1>2, <1>3

Letter == Noise \cup Looks \cup {"DLE", "STX", "ETX", "x"}

\* A byte of an FCS is the one of the bytes it was computed from, or no such.
Fcs == {<<>>} \cup (Seq(Letter) \X {"hi", "lo"})
LineCell == [is : Letter, fcs : Fcs]

SerStates == {"Idle", "DLE", "Data", "Escape", "Fcs1", "Fcs2"}
DrvS == [state : SerStates, buf : Seq(Letter), fcs : Seq(Letter), recd : Seq(Fcs),
         valid : BOOLEAN]

TypeS ==
  /\ drv \in DrvS
  /\ chip \in Seq(LineCell)
  /\ log \in [sent : Seq(Messages), misleads : [1 .. 2 -> BOOLEAN], hurt : [1 .. 2 -> BOOLEAN],
              faults : Nat, got : Seq(Seq(Letter))]

\* A message that was sent, and an FCS byte of one.
IsSent(d) == \E k \in DOMAIN log.sent : d = log.sent[k]
Right(s) == s # <<>> => \E d \in Seq(Letter) : IsSent(d) /\ s[1] = Ser!Covered(d)

\* The FCS is that of the buffer, the bytes received for it are those of one
\* message, and what is valid is a message.
Receiver(r) ==
  /\ r.state \in {"Data", "Escape"} => r.fcs = r.buf
  /\ r.state \in {"Fcs1", "Fcs2"} => r.fcs = Ser!Covered(r.buf)
  /\ r.state = "Fcs2" => \E s \in Fcs : r.recd = <<s>> /\ Right(s)
  /\ r.valid => r.state \in {"Idle", "DLE"} /\ IsSent(r.buf)

InvS ==
  /\ TypeS
  /\ Receiver(drv)
  /\ \A i \in 1 .. Len(chip) : Right(chip[i].fcs)
  /\ log.got # <<>> => IsSent(log.got[1])

\* Two elements make a sequence.
LEMMA PairSeq ==
  ASSUME NEW S, NEW a \in S, NEW b \in S
  PROVE  /\ <<a, b>> \in Seq(S) /\ Len(<<a, b>>) = 2
         /\ <<a, b>>[1] = a /\ <<a, b>>[2] = b
OBVIOUS

\* A sequence with two elements put after it.
LEMMA ConcatPair ==
  ASSUME NEW S, NEW p \in Seq(S), NEW t \in Seq(S), Len(t) = 2
  PROVE  /\ p \o t \in Seq(S) /\ Len(p \o t) = Len(p) + 2
         /\ \A i \in 1 .. Len(p) : (p \o t)[i] = p[i]
         /\ (p \o t)[Len(p) + 1] = t[1] /\ (p \o t)[Len(p) + 2] = t[2]
<1>1. /\ p \o t \in Seq(S) /\ Len(p \o t) = Len(p) + Len(t)
      /\ \A i \in 1 .. Len(p) + Len(t) :
           (p \o t)[i] = IF i <= Len(p) THEN p[i] ELSE t[i - Len(p)]
  BY ConcatProperties
<1>2. PICK q : q = p \o t
  OBVIOUS
<1>3. PICK n \in Nat : n = Len(p)
  OBVIOUS
<1>4. \A i \in 1 .. n + 2 : q[i] = IF i <= n THEN p[i] ELSE t[i - n]
  BY <1>1, <1>2, <1>3
<1>5. n + 1 \in 1 .. n + 2 /\ ~(n + 1 <= n) /\ (n + 1) - n = 1
      /\ n + 2 \in 1 .. n + 2 /\ ~(n + 2 <= n) /\ (n + 2) - n = 2
  OBVIOUS
<1>6. q[n + 1] = t[1] /\ q[n + 2] = t[2]
  BY <1>4, <1>5
<1>7. \A i \in 1 .. n : i \in 1 .. n + 2 /\ i <= n
  OBVIOUS
<1>8. \A i \in 1 .. n : q[i] = p[i]
  BY <1>4, <1>7
<1>. QED
  BY <1>1, <1>2, <1>3, <1>6, <1>8

\* Two elements make a function.
LEMMA PairFunction ==
  ASSUME NEW S, NEW a \in S, NEW b \in S
  PROVE  <<a, b>> \in [1 .. 2 -> S]
<1>0. <<a, b>> \in Seq(S) /\ Len(<<a, b>>) = 2
  BY PairSeq
<1>1. PICK q \in Seq(S) : q = <<a, b>> /\ Len(q) = 2
  BY <1>0
<1>2. q \in [1 .. 2 -> S]
  BY <1>1
<1>. QED
  BY <1>1, <1>2

\* The messages are sequences of letters.
LEMMA MessageLetters == \A d \in Messages : d \in Seq(Letter)
<1>1. "DLE" \in Letter /\ "STX" \in Letter /\ "x" \in Letter
  BY DEF Letter
<1>2. /\ <<"DLE">> \in Seq(Letter) /\ <<"DLE", "STX">> \in Seq(Letter)
      /\ <<"x", "DLE">> \in Seq(Letter) /\ <<"DLE", "x", "x">> \in Seq(Letter)
  BY <1>1
<1>. QED
  BY <1>2 DEF Messages

\* So is a stuffed message.
LEMMA StuffedLetters ==
  ASSUME NEW d \in Seq(Letter)
  PROVE  Ser!Stuffed(d) \in Seq(Letter)
<1>1. PICK n \in Nat : n = Len(d) /\ DOMAIN d = 1 .. n
  OBVIOUS
<1>2. \A i \in 1 .. n : d[i] \in Letter
  BY <1>1
<1>3. "DLE" \in Letter
  BY DEF Letter
<1>4. \A a, b \in Letter : <<a>> \in Seq(Letter) /\ <<a, b>> \in Seq(Letter)
  OBVIOUS
<1>5. PICK q : q = [i \in 1 .. n |-> IF d[i] = "DLE" THEN <<"DLE", "DLE">> ELSE <<d[i]>>]
  OBVIOUS
<1>6. \A i \in 1 .. n : (IF d[i] = "DLE" THEN <<"DLE", "DLE">> ELSE <<d[i]>>) \in Seq(Letter)
  BY <1>2, <1>3, <1>4
<1>7. q \in [1 .. n -> Seq(Letter)]
  BY <1>5, <1>6
<1>8. q \in Seq(Seq(Letter))
  BY <1>7
<1>9. Ser!Stuffed(d) = Ser!FlattenSeq(q)
  BY <1>1, <1>5 DEF Ser!Stuffed, Ser!DLE
<1>. QED
  BY <1>8, <1>9, Flattened

\* So is what the FCS covers.
LEMMA CoveredLetters ==
  ASSUME NEW d \in Seq(Letter)
  PROVE  Ser!Covered(d) \in Seq(Letter)
<1>1. <<"DLE", "ETX">> \in Seq(Letter)
  <2>1. "DLE" \in Letter /\ "ETX" \in Letter
    BY DEF Letter
  <2>. QED
    BY <2>1
<1>. QED
  BY <1>1, ConcatProperties DEF Ser!Covered, Ser!DLE, Ser!ETX

\* The FCS covers one message only.
LEMMA CoveredOnce ==
  ASSUME NEW d \in Seq(Letter), NEW e \in Seq(Letter), Ser!Covered(d) = Ser!Covered(e)
  PROVE  d = e
<1>1. <<"DLE", "ETX">> \in Seq(Letter)
  <2>1. "DLE" \in Letter /\ "ETX" \in Letter
    BY DEF Letter
  <2>. QED
    BY <2>1
<1>2. PICK t \in Seq(Letter) : t = <<"DLE", "ETX">> /\ Len(t) = 2
  BY <1>1
<1>3. d \o t = e \o t
  BY <1>2 DEF Ser!Covered, Ser!DLE, Ser!ETX
<1>4. Len(d \o t) = Len(d) + 2 /\ Len(e \o t) = Len(e) + 2
  BY <1>2, ConcatProperties
<1>5. Len(d) = Len(e)
  <2>1. Len(d) \in Nat /\ Len(e) \in Nat
    OBVIOUS
  <2>. QED
    BY <1>3, <1>4, <2>1
<1>6. \A i \in 1 .. Len(d) : d[i] = e[i]
  <2>1. \A i \in 1 .. Len(d) : (d \o t)[i] = d[i]
    BY <1>2, ConcatProperties
  <2>2. \A i \in 1 .. Len(e) : (e \o t)[i] = e[i]
    BY <1>2, ConcatProperties
  <2>. QED
    BY <1>3, <1>5, <2>1, <2>2
<1>. QED
  BY <1>5, <1>6, SeqEqual

\* A frame on the line: its FCS is that of its message.
LEMMA FrameCells ==
  ASSUME NEW d \in Seq(Letter), NEW hi \in Letter, NEW lo \in Letter
  PROVE  /\ Ser!Frame(d, hi, lo) \in Seq(LineCell)
         /\ \A i \in 1 .. Len(Ser!Frame(d, hi, lo)) :
              LET s == Ser!Frame(d, hi, lo)[i].fcs
              IN  s # <<>> => s[1] = Ser!Covered(d)
<1>1. "DLE" \in Letter /\ "STX" \in Letter /\ "ETX" \in Letter
  BY DEF Letter
<1>2. PICK a \in Seq(Letter) : a = <<"DLE", "STX">>
  BY <1>1, PairSeq
<1>3. PICK z \in Seq(Letter) : z = <<"DLE", "ETX">>
  BY <1>1, PairSeq
<1>4. PICK w \in Seq(Letter) : w = Ser!Stuffed(d)
  BY StuffedLetters
<1>5. a \o w \in Seq(Letter)
  BY ConcatProperties
<1>6. (a \o w) \o z \in Seq(Letter)
  BY <1>5, ConcatProperties
<1>7. PICK body \in Seq(Letter) : body = <<"DLE", "STX">> \o w \o <<"DLE", "ETX">>
  BY <1>2, <1>3, <1>6
<1>8. PICK n \in Nat : n = Len(body) /\ DOMAIN body = 1 .. n
  OBVIOUS
<1>9. PICK p : p = [i \in 1 .. n |-> [is |-> body[i], fcs |-> <<>>]]
  OBVIOUS
<1>10. \A i \in 1 .. n : body[i] \in Letter
  BY <1>8
<1>11. \A i \in 1 .. n : p[i] \in LineCell /\ p[i].fcs = <<>>
  BY <1>9, <1>10 DEF LineCell, Fcs
<1>12. p \in Seq(LineCell) /\ Len(p) = n
  BY <1>9, <1>11
<1>13. PICK c \in Seq(Letter) : c = Ser!Covered(d)
  BY CoveredLetters
<1>14. PICK x \in LineCell : x = [is |-> hi, fcs |-> <<c, "hi">>]
  BY DEF LineCell, Fcs
<1>15. PICK y \in LineCell : y = [is |-> lo, fcs |-> <<c, "lo">>]
  BY DEF LineCell, Fcs
<1>16. x.fcs[1] = c /\ y.fcs[1] = c
  BY <1>14, <1>15
<1>17. PICK t \in Seq(LineCell) : t = <<x, y>>
  BY PairSeq
<1>18. Ser!Frame(d, hi, lo) = p \o t
  BY <1>4, <1>7, <1>8, <1>9, <1>13, <1>14, <1>15, <1>17
     DEF Ser!Frame, Ser!Byte, Ser!FcsBytes, Ser!DLE, Ser!STX, Ser!ETX
<1>19. Len(t) = 2 /\ t[1] = x /\ t[2] = y
  BY <1>17, PairSeq
<1>20. /\ p \o t \in Seq(LineCell) /\ Len(p \o t) = n + 2
       /\ \A i \in 1 .. n : (p \o t)[i] = p[i]
       /\ (p \o t)[n + 1] = x /\ (p \o t)[n + 2] = y
  BY <1>12, <1>19, ConcatPair
<1>21. PICK q \in Seq(LineCell) : q = p \o t
  BY <1>20
<1>22. ASSUME NEW i \in 1 .. Len(q), q[i].fcs # <<>> PROVE q[i].fcs[1] = c
  <2>1. i \in 1 .. n \/ i = n + 1 \/ i = n + 2
    BY <1>20, <1>21
  <2>. QED
    BY <1>11, <1>16, <1>20, <1>21, <1>22, <2>1
<1>. QED
  BY <1>13, <1>18, <1>21, <1>22

\* One byte is handled: the receiver's invariant is kept.
LEMMA HandledS ==
  ASSUME NEW r \in DrvS, NEW c \in LineCell, Receiver(r), Right(c.fcs),
         MaxLen \in Nat
  PROVE  Ser!Handled(r, c) \in DrvS /\ Receiver(Ser!Handled(r, c))
<1>. USE DEF Ser!To, Ser!DLE, Ser!STX, Ser!ETX
<1>1. PICK b \in Letter : b = c.is
  BY DEF LineCell
<1>2. PICK f \in Fcs : f = c.fcs
  BY DEF LineCell
<1>3. PICK t : t = Ser!Handled(r, c)
  OBVIOUS
<1>4. <<>> \in Seq(Letter)
  OBVIOUS
<1>5. CASE r.state = "Idle"
  <2>1. t = (IF b = "DLE" THEN [r EXCEPT !.state = "DLE"] ELSE r)
    BY <1>1, <1>3, <1>5 DEF Ser!Handled
  <2>2. t \in DrvS /\ t.state \in {"Idle", "DLE"} /\ t.valid = r.valid /\ t.buf = r.buf
    BY <1>5, <2>1 DEF DrvS, SerStates
  <2>. QED
    BY <1>3, <2>2 DEF Receiver
<1>6. CASE r.state = "DLE"
  <2>1. CASE b = "STX"
    <3>1. t = [[r EXCEPT !.valid = FALSE, !.fcs = <<>>, !.buf = <<>>] EXCEPT !.state = "Data"]
      BY <1>1, <1>3, <1>6, <2>1 DEF Ser!Handled, Ser!ClearRxBuf
    <3>2. t \in DrvS /\ t.state = "Data" /\ ~t.valid /\ t.buf = <<>> /\ t.fcs = <<>>
      BY <1>4, <3>1 DEF DrvS, SerStates
    <3>. QED
      BY <1>3, <3>2 DEF Receiver
  <2>2. CASE b # "STX"
    <3>1. t = [r EXCEPT !.state = "Idle"]
      BY <1>1, <1>3, <1>6, <2>2 DEF Ser!Handled
    <3>2. t \in DrvS /\ t.state = "Idle" /\ t.valid = r.valid /\ t.buf = r.buf
      BY <3>1 DEF DrvS, SerStates
    <3>. QED
      BY <1>3, <3>2 DEF Receiver
  <2>. QED
    BY <2>1, <2>2
<1>7. ASSUME r.state \in {"Data", "Escape"}
      PROVE  \E u \in DrvS : /\ u = Ser!AppendRxBuf(r, b) /\ u.buf = u.fcs /\ ~u.valid
                             /\ u.state = r.state
  <2>1. PICK d \in Seq(Letter) : d = r.buf /\ d = r.fcs
    BY <1>7 DEF Receiver, DrvS
  <2>2. PICK e \in Seq(Letter) : e = Append(d, b)
    <3>1. Append(d, b) \in Seq(Letter)
      BY AppendProperties
    <3>. QED
      BY <3>1
  <2>3. PICK u : u = Ser!AppendRxBuf(r, b)
    OBVIOUS
  <2>4. u = (IF Len(d) < MaxLen THEN [r EXCEPT !.buf = e, !.fcs = e] ELSE r)
    BY <2>1, <2>2, <2>3 DEF Ser!AppendRxBuf, DrvS
  <2>5. ~r.valid
    BY <1>7 DEF Receiver
  <2>6. u \in DrvS /\ u.buf = u.fcs /\ ~u.valid /\ u.state = r.state
    BY <2>1, <2>4, <2>5 DEF DrvS
  <2>. QED
    BY <2>3, <2>6
<1>8. CASE r.state = "Data"
  <2>1. CASE b = "DLE"
    <3>1. t = [r EXCEPT !.state = "Escape"]
      BY <1>1, <1>3, <1>8, <2>1 DEF Ser!Handled
    <3>2. t \in DrvS /\ t.state = "Escape" /\ t.valid = r.valid /\ t.buf = r.buf
          /\ t.fcs = r.fcs
      BY <3>1 DEF DrvS, SerStates
    <3>. QED
      BY <1>3, <1>8, <3>2 DEF Receiver
  <2>2. CASE b # "DLE"
    <3>1. t = Ser!AppendRxBuf(r, b)
      BY <1>1, <1>3, <1>8, <2>2 DEF Ser!Handled
    <3>2. t \in DrvS /\ t.buf = t.fcs /\ ~t.valid /\ t.state = "Data"
      BY <1>7, <1>8, <3>1
    <3>. QED
      BY <1>3, <3>2 DEF Receiver
  <2>. QED
    BY <2>1, <2>2
<1>9. CASE r.state = "Escape"
  <2>0. ~r.valid /\ r.fcs = r.buf
    BY <1>9 DEF Receiver
  <2>1. CASE b = "ETX"
    <3>1. PICK d \in Seq(Letter) : d = Ser!Covered(r.fcs)
      <4>1. r.fcs \in Seq(Letter)
        BY DEF DrvS
      <4>. QED
        BY <4>1, CoveredLetters
    <3>2. t = [r EXCEPT !.state = "Fcs1", !.fcs = d]
      BY <1>1, <1>3, <1>9, <2>1, <3>1 DEF Ser!Handled, DrvS
    <3>3. t \in DrvS /\ t.state = "Fcs1" /\ ~t.valid /\ t.buf = r.buf /\ t.fcs = d
      BY <2>0, <3>2 DEF DrvS, SerStates
    <3>. QED
      BY <1>3, <2>0, <3>1, <3>3 DEF Receiver
  <2>2. CASE b = "DLE"
    <3>1. PICK u \in DrvS : /\ u = Ser!AppendRxBuf(r, b) /\ u.buf = u.fcs /\ ~u.valid
      BY <1>7, <1>9
    <3>2. t = [u EXCEPT !.state = "Data"]
      BY <1>1, <1>3, <1>9, <2>2, <3>1 DEF Ser!Handled
    <3>3. t \in DrvS /\ t.state = "Data" /\ ~t.valid /\ t.buf = t.fcs
      BY <3>1, <3>2 DEF DrvS, SerStates
    <3>. QED
      BY <1>3, <3>3 DEF Receiver
  <2>3. CASE b \notin {"ETX", "DLE"}
    <3>1. t = [r EXCEPT !.state = "Idle"]
      BY <1>1, <1>3, <1>9, <2>3 DEF Ser!Handled
    <3>2. t \in DrvS /\ t.state = "Idle" /\ ~t.valid
      BY <2>0, <3>1 DEF DrvS, SerStates
    <3>. QED
      BY <1>3, <3>2 DEF Receiver
  <2>. QED
    BY <2>1, <2>2, <2>3
<1>10. CASE r.state = "Fcs1"
  <2>1. PICK w \in Seq(Fcs) : w = <<f>>
    <3>1. <<f>> \in Seq(Fcs)
      OBVIOUS
    <3>. QED
      BY <3>1
  <2>2. t = [r EXCEPT !.state = "Fcs2", !.recd = w]
    BY <1>2, <1>3, <1>10, <2>1 DEF Ser!Handled, DrvS
  <2>3. t \in DrvS /\ t.state = "Fcs2" /\ t.valid = r.valid /\ t.buf = r.buf
        /\ t.fcs = r.fcs /\ t.recd = <<f>>
    BY <2>1, <2>2 DEF DrvS, SerStates
  <2>4. ~r.valid /\ r.fcs = Ser!Covered(r.buf)
    BY <1>10 DEF Receiver
  <2>. QED
    BY <1>2, <1>3, <2>3, <2>4 DEF Receiver
<1>11. CASE r.state = "Fcs2"
  <2>1. ~r.valid /\ r.fcs = Ser!Covered(r.buf)
    BY <1>11 DEF Receiver
  <2>2. PICK s \in Fcs : r.recd = <<s>> /\ Right(s)
    BY <1>11 DEF Receiver
  <2>3. PICK w \in Seq(Fcs) : w = <<s, f>>
    BY PairSeq
  <2>4. w = Append(r.recd, f)
    BY <2>2, <2>3
  <2>5. PICK u \in DrvS : u = [r EXCEPT !.state = "Idle", !.recd = w]
    BY DEF DrvS, SerStates
  <2>6. u.state = "Idle" /\ ~u.valid /\ u.buf = r.buf /\ u.fcs = r.fcs /\ u.recd = w
    BY <2>1, <2>5 DEF DrvS
  <2>7. t = Ser!ValidateRxBuf(u)
    BY <1>2, <1>3, <1>11, <2>4, <2>5 DEF Ser!Handled, DrvS
  <2>8. CASE t = u
    BY <1>3, <2>6, <2>8 DEF Receiver
  <2>9. CASE t # u
    <3>1. u.recd = <<<<u.fcs, "hi">>, <<u.fcs, "lo">>>> /\ t = [u EXCEPT !.valid = TRUE]
      BY <2>7, <2>9 DEF Ser!ValidateRxBuf
    <3>2. t \in DrvS /\ t.state = "Idle" /\ t.valid /\ t.buf = r.buf
      BY <2>6, <3>1 DEF DrvS
    <3>3. s = <<u.fcs, "hi">>
      BY <2>3, <2>6, <3>1
    <3>4. s # <<>> /\ s[1] = Ser!Covered(r.buf)
      BY <2>1, <2>6, <3>3
    <3>5. PICK d \in Seq(Letter) : IsSent(d) /\ s[1] = Ser!Covered(d)
      BY <2>2, <3>4 DEF Right
    <3>6. r.buf \in Seq(Letter)
      BY DEF DrvS
    <3>7. r.buf = d
      BY <3>4, <3>5, <3>6, CoveredOnce
    <3>. QED
      BY <1>3, <3>2, <3>5, <3>7 DEF Receiver
  <2>. QED
    BY <2>8, <2>9
<1>. QED
  BY <1>5, <1>6, <1>8, <1>9, <1>10, <1>11 DEF DrvS, SerStates

\* The invariant holds at the start.
LEMMA InitS == Ser!Init => InvS
<1>. SUFFICES ASSUME Ser!Init PROVE InvS
  OBVIOUS
<1>1. /\ drv = [state |-> "Idle", buf |-> <<>>, fcs |-> <<>>, recd |-> <<>>, valid |-> FALSE]
      /\ chip = <<>>
      /\ log = [sent |-> <<>>, misleads |-> <<FALSE, FALSE>>, hurt |-> <<FALSE, FALSE>>, faults |-> 0,
                got |-> <<>>]
  BY DEF Ser!Init
<1>2. \A T : <<>> \in Seq(T)
  OBVIOUS
<1>3. <<FALSE, FALSE>> \in [1 .. 2 -> BOOLEAN]
  BY PairFunction
<1>4. TypeS
  <2>1. drv \in DrvS
    BY <1>1, <1>2 DEF DrvS, SerStates
  <2>2. log \in [sent : Seq(Messages), misleads : [1 .. 2 -> BOOLEAN], hurt : [1 .. 2 -> BOOLEAN],
                 faults : Nat, got : Seq(Seq(Letter))]
    BY <1>1, <1>2, <1>3
  <2>. QED
    BY <1>1, <1>2, <2>1, <2>2 DEF TypeS
<1>5. Receiver(drv)
  BY <1>1 DEF Receiver
<1>6. Len(chip) = 0 /\ log.got = <<>>
  BY <1>1
<1>. QED
  BY <1>4, <1>5, <1>6 DEF InvS

\* What follows the first byte on the line is as right as the line.
LEMMA TailRight ==
  ASSUME NEW q \in Seq(LineCell), q # <<>>, \A i \in 1 .. Len(q) : Right(q[i].fcs)
  PROVE  /\ Tail(q) \in Seq(LineCell)
         /\ \A i \in 1 .. Len(Tail(q)) : Right(Tail(q)[i].fcs)
<1>1. PICK t \in Seq(LineCell) : t = Tail(q)
  <2>1. Tail(q) \in Seq(LineCell)
    BY HeadTailProperties
  <2>. QED
    BY <2>1
<1>2. Len(t) = Len(q) - 1 /\ \A i \in 1 .. Len(t) : t[i] = q[i + 1]
  BY <1>1, HeadTailProperties
<1>3. \A i \in 1 .. Len(t) : i + 1 \in 1 .. Len(q)
  BY <1>2
<1>4. \A i \in 1 .. Len(t) : Right(t[i].fcs)
  BY <1>2, <1>3
<1>. QED
  BY <1>1, <1>4

\* Every step of sender, line and receiver keeps the invariant.
LEMMA NextS ==
  ASSUME InvS, Ser!Next, DriverAssumption
  PROVE  InvS'
<1>l. log \in [sent : Seq(Messages), misleads : [1 .. 2 -> BOOLEAN], hurt : [1 .. 2 -> BOOLEAN],
              faults : Nat, got : Seq(Seq(Letter))]
  BY DEF InvS, TypeS
<1>t. drv \in DrvS /\ chip \in Seq(LineCell)
  BY DEF InvS, TypeS
<1>i. /\ Receiver(drv)
      /\ \A i \in 1 .. Len(chip) : Right(chip[i].fcs)
      /\ log.got # <<>> => IsSent(log.got[1])
  BY DEF InvS
<1>1. ASSUME NEW d \in Messages, NEW hi \in Looks, NEW lo \in Looks, Ser!Send(d, hi, lo)
      PROVE  InvS'
  <2>1. d \in Seq(Letter) /\ hi \in Letter /\ lo \in Letter
    BY MessageLetters DEF Letter
  <2>2. PICK s \in Seq(Messages) : s = log.sent
    BY <1>l
  <2>3. PICK t \in Seq(Messages) : t = Append(s, d)
    <3>1. Append(s, d) \in Seq(Messages)
      BY AppendProperties
    <3>. QED
      BY <3>1
  <2>4. PICK e \in [1 .. 2 -> BOOLEAN] : e = <<log.misleads[2], Ser!Misleads(hi, lo)>>
    <3>1. log.misleads[2] \in BOOLEAN
      BY <1>l
    <3>2. Ser!Misleads(hi, lo) \in BOOLEAN
      BY DEF Ser!Misleads
    <3>. QED
      BY <3>1, <3>2, PairFunction
  <2>5. PICK h \in [1 .. 2 -> BOOLEAN] : h = <<log.hurt[2], FALSE>>
    <3>1. log.hurt[2] \in BOOLEAN
      BY <1>l
    <3>. QED
      BY <3>1, PairFunction
  <2>6. PICK f \in Seq(LineCell) :
          /\ f = Ser!Frame(d, hi, lo)
          /\ \A i \in 1 .. Len(f) : f[i].fcs # <<>> => f[i].fcs[1] = Ser!Covered(d)
    BY <2>1, FrameCells
  <2>7. /\ drv' = drv /\ chip' = f
        /\ log' = [log EXCEPT !.sent = t, !.misleads = e, !.hurt = h]
    BY <1>1, <1>l, <2>2, <2>3, <2>4, <2>5, <2>6 DEF Ser!Send
  <2>8. log'.sent = t /\ log'.got = log.got /\ TypeS'
    BY <1>l, <1>t, <2>7 DEF TypeS
  <2>9. /\ Len(t) = Len(s) + 1 /\ t[Len(s) + 1] = d
        /\ \A k \in 1 .. Len(s) : t[k] = s[k]
    BY <2>3, AppendProperties
  <2>10. DOMAIN s = 1 .. Len(s) /\ DOMAIN t = 1 .. Len(t) /\ Len(s) \in Nat
    OBVIOUS
  <2>11. ASSUME NEW m, IsSent(m) PROVE IsSent(m)'
    <3>1. PICK k \in 1 .. Len(s) : m = s[k]
      BY <2>2, <2>10, <2>11 DEF IsSent
    <3>2. k \in DOMAIN t /\ m = t[k]
      BY <2>9, <2>10, <3>1
    <3>. QED
      BY <2>8, <3>2 DEF IsSent
  <2>12. IsSent(d)'
    <3>1. Len(s) + 1 \in DOMAIN t
      BY <2>9, <2>10
    <3>. QED
      BY <2>8, <2>9, <3>1 DEF IsSent
  <2>13. ASSUME NEW x, Right(x) PROVE Right(x)'
    BY <2>11, <2>13 DEF Right
  <2>14. Receiver(drv)'
    BY <1>i, <2>7, <2>11, <2>13 DEF Receiver
  <2>15. (\A i \in 1 .. Len(chip) : Right(chip[i].fcs))'
    BY <2>1, <2>6, <2>7, <2>12 DEF Right
  <2>. QED
    BY <1>i, <2>8, <2>11, <2>14, <2>15 DEF InvS
<1>2. CASE Ser!Available
  <2>1. UNCHANGED <<drv, chip, log>>
    BY <1>2 DEF Ser!Available
  <2>. QED
    BY <1>l, <1>t, <1>i, <2>1 DEF InvS, TypeS, Receiver, Right, IsSent
<1>3. CASE Ser!HandleRx
  <2>0. chip # <<>> /\ log' = log
    BY <1>3 DEF Ser!HandleRx
  <2>1. PICK c \in LineCell : c = Head(chip) /\ Right(c.fcs)
    <3>1. Head(chip) \in LineCell /\ Head(chip) = chip[1] /\ 1 \in 1 .. Len(chip)
      BY <1>t, <2>0
    <3>. QED
      BY <1>i, <3>1
  <2>2. PICK q \in Seq(LineCell) : q = Tail(chip) /\ \A i \in 1 .. Len(q) : Right(q[i].fcs)
    BY <1>t, <1>i, <2>0, TailRight
  <2>3. drv' = Ser!Handled(drv, c) /\ chip' = q
    BY <1>3, <2>1, <2>2 DEF Ser!HandleRx
  <2>4. drv' \in DrvS /\ Receiver(drv')
    BY <1>t, <1>i, <2>1, <2>3, HandledS, DriverAssumption
  <2>5. TypeS'
    BY <1>l, <2>0, <2>3, <2>4 DEF TypeS
  <2>6. Receiver(drv)'
    BY <2>0, <2>4 DEF Receiver, Right, IsSent
  <2>7. (\A i \in 1 .. Len(chip) : Right(chip[i].fcs))'
    BY <2>0, <2>2, <2>3 DEF Right, IsSent
  <2>. QED
    BY <1>i, <2>0, <2>5, <2>6, <2>7 DEF InvS, IsSent
<1>4. CASE Ser!Recv
  <2>1. CASE ~drv.valid
    <3>1. UNCHANGED <<drv, chip, log>>
      BY <1>4, <2>1 DEF Ser!Recv
    <3>. QED
      BY <1>l, <1>t, <1>i, <3>1 DEF InvS, TypeS, Receiver, Right, IsSent
  <2>2. CASE drv.valid
    <3>1. PICK d \in Seq(Letter) : d = drv.buf
      BY <1>t DEF DrvS
    <3>2. PICK g \in Seq(Seq(Letter)) : g = <<d>> /\ g[1] = d
      <4>1. <<d>> \in Seq(Seq(Letter)) /\ <<d>>[1] = d
        OBVIOUS
      <4>. QED
        BY <4>1
    <3>3. /\ log' = [log EXCEPT !.got = g] /\ chip' = chip
          /\ drv' = [drv EXCEPT !.valid = FALSE, !.fcs = <<>>, !.buf = <<>>]
      BY <1>4, <2>2, <3>1, <3>2 DEF Ser!Recv, Ser!ClearRxBuf
    <3>4. log'.got = g /\ log'.sent = log.sent
      BY <1>l, <3>3
    <3>5. <<>> \in Seq(Letter)
      OBVIOUS
    <3>6. drv' \in DrvS /\ ~drv'.valid /\ drv'.state = drv.state
      BY <1>t, <3>3, <3>5 DEF DrvS
    <3>7. TypeS'
      BY <1>l, <1>t, <3>3, <3>6 DEF TypeS
    <3>8. drv.state \in {"Idle", "DLE"} /\ IsSent(d)
      BY <1>i, <2>2, <3>1 DEF Receiver
    <3>9. Receiver(drv)'
      BY <3>6, <3>8 DEF Receiver
    <3>10. (\A i \in 1 .. Len(chip) : Right(chip[i].fcs))'
      BY <1>i, <3>3, <3>4 DEF Right, IsSent
    <3>. QED
      BY <3>2, <3>4, <3>7, <3>8, <3>9, <3>10 DEF InvS, IsSent
  <2>. QED
    BY <2>1, <2>2
<1>5. ASSUME NEW b \in Noise \cup {"lost"}, Ser!Fault(b) PROVE InvS'
  <2>1. chip # <<>> /\ drv' = drv
    BY <1>5 DEF Ser!Fault
  <2>2. PICK q \in Seq(LineCell) : q = Tail(chip) /\ \A i \in 1 .. Len(q) : Right(q[i].fcs)
    BY <1>t, <1>i, <2>1, TailRight
  <2>3. PICK n \in Nat : n = log.faults + 1
    BY <1>l
  <2>4. PICK h \in [1 .. 2 -> BOOLEAN] : h = [log.hurt EXCEPT ![2] = TRUE]
    <3>1. PICK g \in [1 .. 2 -> BOOLEAN] : g = log.hurt
      BY <1>l
    <3>2. [g EXCEPT ![2] = TRUE] \in [1 .. 2 -> BOOLEAN]
      OBVIOUS
    <3>. QED
      BY <3>1, <3>2
  <2>5. log' = [log EXCEPT !.faults = n, !.hurt = h]
    BY <1>5, <1>l, <2>3, <2>4 DEF Ser!Fault
  <2>6. log'.sent = log.sent /\ log'.got = log.got
    BY <1>l, <2>5
  <2>7. log' \in [sent : Seq(Messages), misleads : [1 .. 2 -> BOOLEAN], hurt : [1 .. 2 -> BOOLEAN],
                  faults : Nat, got : Seq(Seq(Letter))]
    BY <1>l, <2>5
  <2>8. /\ chip' \in Seq(LineCell) /\ (\A i \in 1 .. Len(chip) : Right(chip[i].fcs))'
    <3>1. CASE b = "lost"
      <4>1. chip' = q
        BY <1>5, <2>2, <3>1 DEF Ser!Fault
      <4>. QED
        BY <2>2, <2>6, <4>1 DEF Right, IsSent
    <3>2. CASE b # "lost"
      <4>1. PICK c \in LineCell : c = [is |-> b, fcs |-> <<>>]
        BY <3>2 DEF LineCell, Fcs, Letter
      <4>2. PICK w \in Seq(LineCell) : /\ w = <<c>> \o q
                                       /\ \A i \in 1 .. Len(w) : i = 1 \/ i - 1 \in 1 .. Len(q)
                                       /\ w[1] = c
                                       /\ \A i \in 1 .. Len(q) : w[i + 1] = q[i]
        <5>1. <<c>> \o q \in Seq(LineCell)
          OBVIOUS
        <5>2. PICK w \in Seq(LineCell) : w = <<c>> \o q
          BY <5>1
        <5>3. Len(w) = Len(q) + 1 /\ w[1] = c /\ \A i \in 1 .. Len(q) : w[i + 1] = q[i]
          BY <5>2
        <5>4. \A i \in 1 .. Len(w) : i = 1 \/ i - 1 \in 1 .. Len(q)
          BY <5>3
        <5>. QED
          BY <5>2, <5>3, <5>4
      <4>3. chip' = w
        BY <1>5, <2>2, <3>2, <4>1, <4>2 DEF Ser!Fault, Ser!Byte
      <4>4. ASSUME NEW i \in 1 .. Len(w) PROVE Right(w[i].fcs)
        <5>1. CASE i = 1
          BY <4>1, <4>2, <5>1 DEF Right
        <5>2. CASE i # 1
          <6>1. i - 1 \in 1 .. Len(q) /\ (i - 1) + 1 = i
            BY <4>2, <5>2
          <6>2. w[i] = q[i - 1]
            BY <4>2, <6>1
          <6>. QED
            BY <2>2, <6>1, <6>2
        <5>. QED
          BY <5>1, <5>2
      <4>. QED
        BY <2>6, <4>3, <4>4 DEF Right, IsSent
    <3>. QED
      BY <3>1, <3>2
  <2>9. Receiver(drv)'
    BY <1>i, <2>1, <2>6 DEF Receiver, Right, IsSent
  <2>. QED
    BY <1>i, <1>t, <2>1, <2>6, <2>7, <2>8, <2>9 DEF InvS, TypeS, IsSent
<1>. QED
  BY <1>1, <1>2, <1>3, <1>4, <1>5 DEF Ser!Next

-----------------------------------------------------------------------------
(* What the drivers promise *)

\* The inductive invariant of the driver that the node has.
DriversInv ==
  \/ kind = "rf22" /\ Inv22
  \/ kind = "rf69" /\ Inv69
  \/ kind = "nrf24" /\ Inv24
  \/ kind = "nrf905" /\ Inv905
  \/ kind = "serial" /\ InvS

\* The invariant of the driver that the node has holds at the start.
LEMMA DriversStart == AnyInit => DriversInv
BY Init22, Init69, Init24, Init905, InitS DEF AnyInit, DriversInv

\* It speaks of nothing that a step of nothing changes.
LEMMA DriversStay ==
  ASSUME DriversInv, UNCHANGED all
  PROVE  DriversInv'
<1>. USE DEF all, driver, LogType
<1>1. ASSUME Inv22 PROVE Inv22'
  BY <1>1 DEF Inv22, Late22, Good22, Type22, Modes22, Flags22, Buf22, Tx22, Loaded22, Hist22
<1>2. ASSUME Inv69 PROVE Inv69'
  BY <1>2 DEF Inv69, Type69, Modes69, Fifo69, Holds, Buf69, Hist69
<1>3. ASSUME Inv24 PROVE Inv24'
  BY <1>3 DEF Inv24, Type24
<1>4. ASSUME Inv905 PROVE Inv905'
  BY <1>4 DEF Inv905, Type905
<1>5. ASSUME InvS PROVE InvS'
  BY <1>5 DEF InvS, TypeS, Receiver, Right, IsSent
<1>. QED
  BY <1>1, <1>2, <1>3, <1>4, <1>5 DEF DriversInv

\* It is inductive: the driver stays the same, and each keeps its own.
LEMMA DriversStep ==
  ASSUME DriversInv, [AnyNext]_all
  PROVE  DriversInv'
<1>1. CASE UNCHANGED all
  BY <1>1, DriversStay
<1>2. CASE AnyNext
  <2>0. kind' = kind
    BY <1>2 DEF AnyNext
  <2>1. CASE kind = "rf22"
    <3>1. Inv22 /\ R22!Next
      BY <1>2, <2>1 DEF AnyNext, DriversInv
    <3>2. Inv22'
      BY <3>1, Late22Stays, Next22, DriverAssumption, RadioAssumption DEF Inv22
    <3>. QED
      BY <2>0, <2>1, <3>2 DEF DriversInv
  <2>2. CASE kind = "rf69"
    <3>1. Inv69 /\ R69!Next
      BY <1>2, <2>2 DEF AnyNext, DriversInv
    <3>2. Inv69'
      BY <3>1, Next69, DriverAssumption
    <3>. QED
      BY <2>0, <2>2, <3>2 DEF DriversInv
  <2>3. CASE kind = "nrf24"
    <3>1. Inv24 /\ N24!Next
      BY <1>2, <2>3 DEF AnyNext, DriversInv
    <3>2. Inv24'
      BY <3>1, Next24, DriverAssumption
    <3>. QED
      BY <2>0, <2>3, <3>2 DEF DriversInv
  <2>4. CASE kind = "nrf905"
    <3>1. Inv905 /\ N905!Next
      BY <1>2, <2>4 DEF AnyNext, DriversInv
    <3>2. Inv905'
      BY <3>1, Next905, DriverAssumption
    <3>. QED
      BY <2>0, <2>4, <3>2 DEF DriversInv
  <2>5. CASE kind = "serial"
    <3>1. InvS /\ Ser!Next
      BY <1>2, <2>5 DEF AnyNext, DriversInv
    <3>2. InvS'
      BY <3>1, NextS, DriverAssumption
    <3>. QED
      BY <2>0, <2>5, <3>2 DEF DriversInv
  <2>. QED
    BY <2>1, <2>2, <2>3, <2>4, <2>5 DEF DriversInv
<1>. QED
  BY <1>1, <1>2

\* The inductive invariant holds in every state.
LEMMA DriversInvariant == AnySpec => []DriversInv
<1>1. DriversInv /\ [AnyNext]_all => DriversInv'
  BY DriversStep
<1>. QED
  BY <1>1, DriversStart, PTL DEF AnySpec

\* What each driver's invariant says of its messages.
LEMMA Promises22 == Inv22 => R22!SentWhole /\ R22!GotWhole
BY Whole22 DEF Inv22, Late22, Good22, Hist22, Part, R22!SentWhole, R22!GotWhole

LEMMA Promises69 == Inv69 => R69!SentWhole /\ R69!GotWhole
BY Whole69 DEF Inv69, Hist69, AirOld, R69!SentWhole, R69!GotWhole

LEMMA Promises24 == Inv24 => N24!SentWhole /\ N24!GotWhole
BY Whole24, Bytes24 DEF Inv24, N24!SentWhole, N24!GotWhole

LEMMA Promises905 == Inv905 => N905!SentWhole /\ N905!GotWhole
BY Whole905, Bytes905 DEF Inv905, N905!SentWhole, N905!GotWhole

LEMMA PromisesS == InvS => Ser!GotWhole
BY DEF InvS, IsSent, Ser!GotWhole

\* Whatever driver a node has, what goes over the air is one message as it was
\* given to send: its bytes in order, none missing, and none of another message
\* or of what was received into the same buffer or FIFO. It is said of RH_RF69
\* only of a message written into an empty FIFO, and of RH_RF22 until a flag has
\* come up while a message was being loaded.
THEOREM SendsWhole == AnySpec => []SentWhole
<1>1. DriversInv => SentWhole
  BY Promises22, Promises69, Promises24, Promises905 DEF DriversInv, SentWhole
<1>. QED
  BY <1>1, DriversInvariant, PTL

\* Whatever driver a node has, what its recv returns is one frame that was
\* received, and from the serial line a message that was sent: never parts of
\* two, though interrupts, later frames and damaged bytes came between its first
\* byte and the call. It is said of the drivers with one buffer only of messages
\* over which no other was sent, and of RH_RF22 until a flag has come up while a
\* message was being loaded.
THEOREM ReceivesWhole == AnySpec => []GotWhole
<1>1. DriversInv => GotWhole
  BY Promises22, Promises69, Promises24, Promises905, PromisesS DEF DriversInv, GotWhole
<1>. QED
  BY <1>1, DriversInvariant, PTL

=============================================================================
