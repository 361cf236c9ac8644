-------------------------- MODULE FragmentedProofs --------------------------
(***************************************************************************)
(* Proofs about FragmentedDatagram, for any number of senders, lengths,    *)
(* buffer sizes, losses and timeouts: recvfromAck never reads past its     *)
(* buffer, and what it returns is a run of consecutive fragments.  With    *)
(* one sender and no acknowledgement lost it returns the messages that     *)
(* were sent: the fragments implement Datagrams.                           *)
(***************************************************************************)
EXTENDS MCFragmented, FiniteSetTheorems, SequenceTheorems, TLAPS

\* While a message is being sent some of it is left to send, so that no
\* fragment is empty, and it is one that was started.
SomeLeft ==
  \A s \in Senders : sending[s].pc # "idle" =>
    sending[s].off < sending[s].msg.len /\ sending[s].msg \in started

\* The fragments put together so far are a run that the last one, of the
\* expected id, would complete.
IsPrefix(d, expected) ==
  /\ d # <<>>
  /\ \A i \in 1 .. (Len(d) - 1) : d[i + 1].id = (d[i].id + 1) % IdMod
  /\ \A i \in DOMAIN d : d[i].more
  /\ expected = (d[Len(d)].id + 1) % IdMod

GatheringRun == rx.pc = "next" => IsPrefix(rx.frags, rx.curMsgId)

\* The inductive invariant.
IInv ==
  /\ TypeOK
  /\ IsFiniteSet(started)
  /\ SomeLeft
  /\ BufferFits
  /\ GatheringRun
  /\ DeliversRuns

-----------------------------------------------------------------------------
\* The messages of one sender that were started are counted.
LEMMA CountType ==
  ASSUME IsFiniteSet(started), NEW s \in Senders
  PROVE  Count(s) \in Nat
BY FS_Subset, FS_CardinalityType DEF Count

\* The next fragment is well formed, not empty and at most as long as fits
\* beside the header; if more is to come, something is left after it.
LEMMA FragmentType ==
  ASSUME TypeOK, SomeLeft, NEW s \in Senders, sending[s].pc # "idle"
  PROVE  /\ Fragment(s) \in Fragments
         /\ Fragment(s).msg = sending[s].msg
         /\ Fragment(s).more => sending[s].off + Fragment(s).n < sending[s].msg.len
<1>1. /\ sending[s] \in [pc : {"sending"}, msg : Messages, off : Nat]
      /\ msgId[s] \in 0 .. (IdMod - 1)
  BY DEF TypeOK, Idle
<1>2. /\ sending[s].msg.len \in Nat \ {0}
      /\ sending[s].off < sending[s].msg.len
  BY <1>1, SizesAssumption DEF SomeLeft, Messages
<1>. DEFINE m == sending[s].msg
            off == sending[s].off
            n == MinOf(FragMax - 1, m.len - off)
<1>3. n \in 1 .. (FragMax - 1) /\ n <= m.len - off
  BY <1>1, <1>2, SizesAssumption DEF MinOf
<1>4. Fragment(s) = [msg |-> m, off |-> off, n |-> n, id |-> msgId[s],
                     more |-> off + n < m.len]
  BY DEF Fragment
<1>5. n \in Int /\ FragMax - 1 \in Int
  BY <1>3, SizesAssumption
<1>. HIDE DEF n
<1>6. Fragment(s) \in Fragments
  BY <1>1, <1>3, <1>4 DEF Fragments
<1>7. Fragment(s).n = n /\ Fragment(s).more = (off + n < m.len) /\ Fragment(s).msg = m
  BY <1>4
<1>. QED
  BY <1>6, <1>7

\* The id stays in its seven bits.
LEMMA NextIdType ==
  ASSUME TypeOK, NEW s \in Senders, NEW ok \in BOOLEAN
  PROVE  NextId(s, ok) \in 0 .. (IdMod - 1)
BY SizesAssumption DEF TypeOK, NextId

\* The first datagram in the chip is a fragment, and taking it leaves fragments.
LEMMA HeadType ==
  ASSUME TypeOK, fifo # <<>>
  PROVE  /\ Head(fifo) \in Fragments
         /\ Tail(fifo) \in Seq(Fragments)
         /\ Len(Tail(fifo)) <= FifoSize
BY SizesAssumption DEF TypeOK

\* A fragment that finds room in the chip joins the fragments there.
LEMMA AppendType ==
  ASSUME TypeOK, NEW f \in Fragments, Len(fifo) < FifoSize
  PROVE  Append(fifo, f) \in Seq(Fragments) /\ Len(Append(fifo, f)) <= FifoSize
<1>1. fifo \in Seq(Fragments)
  BY DEF TypeOK
<1>2. Append(fifo, f) \in Seq(Fragments) /\ Len(Append(fifo, f)) = Len(fifo) + 1
  BY <1>1
<1>. QED
  BY <1>1, <1>2, SizesAssumption

\* What the buffer holds after a fragment is a sequence of fragments.
LEMMA GatheredType ==
  ASSUME TypeOK, NEW f \in Fragments
  PROVE  /\ Gathered(f) \in Seq(Fragments)
         /\ GatheredLen(f) \in Nat
<1>1. f.n \in Nat
  BY SizesAssumption DEF Fragments
<1>2. CASE Continues(f)
  <2>1. rx.frags \in Seq(Fragments) /\ rx.len \in Nat
    BY <1>2 DEF TypeOK, Continues, Idle
  <2>. QED
    BY <1>1, <1>2, <2>1 DEF Gathered, GatheredLen
<1>3. CASE ~Continues(f)
  BY <1>1, <1>3 DEF Gathered, GatheredLen
<1>. QED
  BY <1>2, <1>3

\* A fragment either continues the run in the buffer or starts a new one.
LEMMA GatheredRun ==
  ASSUME TypeOK, GatheringRun, NEW f \in Fragments
  PROVE  LET g == Gathered(f)
         IN  /\ g # <<>>
             /\ g[Len(g)] = f
             /\ \A i \in 1 .. (Len(g) - 1) :
                  g[i].more /\ g[i + 1].id = (g[i].id + 1) % IdMod
<1>1. CASE Continues(f)
  <2>1. /\ rx.frags \in Seq(Fragments)
        /\ IsPrefix(rx.frags, f.id)
    BY <1>1 DEF TypeOK, Continues, Idle, GatheringRun
  <2>2. Gathered(f) = Append(rx.frags, f)
    BY <1>1 DEF Gathered
  <2>. QED
    BY <2>1, <2>2 DEF IsPrefix
<1>2. CASE ~Continues(f)
  BY <1>2 DEF Gathered
<1>. QED
  BY <1>1, <1>2

-----------------------------------------------------------------------------
LEMMA InitInvariant == Init => IInv
<1>. SUFFICES ASSUME Init PROVE IInv
  OBVIOUS
<1>1. TypeOK
  BY SizesAssumption DEF Init, TypeOK, Idle
<1>2. IsFiniteSet(started)
  BY FS_EmptySet DEF Init
<1>3. SomeLeft /\ BufferFits /\ GatheringRun /\ DeliversRuns
  BY DEF Init, Idle, SomeLeft, BufferFits, GatheringRun, DeliversRuns
<1>. QED
  BY <1>1, <1>2, <1>3 DEF IInv

LEMMA NextInvariant == IInv /\ [Next]_vars => IInv'
<1>. SUFFICES ASSUME IInv, [Next]_vars PROVE IInv'
  OBVIOUS
<1>. USE DEF IInv
<1>1. ASSUME NEW s \in Senders, Start(s) PROVE IInv'
  <2>. PICK l \in Lens :
         LET m == [from |-> s, num |-> Count(s) + 1, len |-> l]
         IN  /\ sending' = [sending EXCEPT ![s] =
                              [pc |-> "sending", msg |-> m, off |-> 0]]
             /\ started' = started \cup {m}
    BY <1>1 DEF Start
  <2>. DEFINE m == [from |-> s, num |-> Count(s) + 1, len |-> l]
  <2>1. m \in Messages
    BY <1>1, CountType, SizesAssumption DEF Start, Messages
  <2>2. UNCHANGED <<msgId, succeeded, fifo, rx, delivered, losses>>
    BY <1>1 DEF Start
  <2>3. TypeOK'
    BY <2>1, <2>2 DEF TypeOK
  <2>4. IsFiniteSet(started)'
    BY FS_AddElement
  <2>5. SomeLeft'
    <3>. SUFFICES ASSUME NEW x \in Senders, sending'[x].pc # "idle"
                  PROVE  /\ sending'[x].off < sending'[x].msg.len
                         /\ sending'[x].msg \in started'
      BY DEF SomeLeft
    <3>1. CASE x = s
      BY <3>1, SizesAssumption DEF TypeOK
    <3>2. CASE x # s
      BY <3>2 DEF TypeOK, SomeLeft
    <3>. QED
      BY <3>1, <3>2
  <2>6. (BufferFits /\ GatheringRun /\ DeliversRuns)'
    BY <2>2 DEF BufferFits, GatheringRun, DeliversRuns
  <2>. QED
    BY <2>3, <2>4, <2>5, <2>6
<1>2. ASSUME NEW s \in Senders, SendAcked(s) PROVE IInv'
  <2>. DEFINE f == Fragment(s)
  <2>1. /\ f \in Fragments
        /\ f.msg = sending[s].msg
        /\ f.more => sending[s].off + f.n < sending[s].msg.len
        /\ NextId(s, TRUE) \in 0 .. (IdMod - 1)
    BY <1>2, FragmentType, NextIdType DEF SendAcked
  <2>2. /\ sending[s] \in [pc : {"sending"}, msg : Messages, off : Nat]
        /\ sending[s].msg \in started
        /\ f.n \in Nat
    <3>1. f.n \in Nat
      <4>. HIDE DEF f
      <4>. QED
        BY <2>1, SizesAssumption DEF Fragments
    <3>. QED
      BY <1>2, <3>1 DEF SendAcked, TypeOK, Idle, SomeLeft
  <2>3. /\ fifo' = Append(fifo, f)
        /\ msgId' = [msgId EXCEPT ![s] = NextId(s, TRUE)]
        /\ UNCHANGED <<started, rx, delivered, losses>>
        /\ Len(fifo) < FifoSize
    BY <1>2 DEF SendAcked
  <2>. HIDE DEF f
  <2>4. /\ fifo' \in Seq(Fragments) /\ Len(fifo') <= FifoSize
        /\ msgId' \in [Senders -> 0 .. (IdMod - 1)]
    BY <2>1, <2>3, AppendType DEF TypeOK
  <2>5. CASE f.more
    <3>1. /\ sending' = [sending EXCEPT ![s] = [@ EXCEPT !.off = f.off + f.n]]
          /\ succeeded' = succeeded
      BY <1>2, <2>5 DEF SendAcked, f
    <3>2. f.off = sending[s].off
      BY DEF f, Fragment
    <3>3. sending'[s] = [pc |-> "sending", msg |-> sending[s].msg,
                         off |-> sending[s].off + f.n]
      BY <2>2, <3>1, <3>2 DEF TypeOK
    <3>4. TypeOK'
      <4>1. sending'[s] \in [pc : {"sending"}, msg : Messages, off : Nat]
        BY <2>2, <3>3
      <4>. QED
        BY <2>3, <2>4, <3>1, <4>1 DEF TypeOK
    <3>5. SomeLeft'
      BY <2>1, <2>2, <2>3, <2>5, <3>1, <3>3 DEF SomeLeft, TypeOK
    <3>. QED
      BY <2>3, <3>4, <3>5 DEF BufferFits, GatheringRun, DeliversRuns
  <2>6. CASE ~f.more
    <3>1. /\ sending' = [sending EXCEPT ![s] = Idle]
          /\ succeeded' = succeeded \cup {sending[s].msg}
      BY <1>2, <2>1, <2>6 DEF SendAcked, f
    <3>2. TypeOK'
      BY <2>2, <2>3, <2>4, <3>1 DEF TypeOK
    <3>3. SomeLeft'
      BY <2>3, <3>1 DEF SomeLeft, TypeOK, Idle
    <3>. QED
      BY <2>3, <3>2, <3>3 DEF BufferFits, GatheringRun, DeliversRuns
  <2>. QED
    BY <2>5, <2>6
<1>3. ASSUME NEW s \in Senders, SendFailed(s) PROVE IInv'
  <2>1. /\ Fragment(s) \in Fragments
        /\ NextId(s, FALSE) \in 0 .. (IdMod - 1)
    BY <1>3, FragmentType, NextIdType DEF SendFailed
  <2>2. /\ sending' = [sending EXCEPT ![s] = Idle]
        /\ msgId' = [msgId EXCEPT ![s] = NextId(s, FALSE)]
        /\ UNCHANGED <<started, succeeded, rx, delivered>>
    BY <1>3 DEF SendFailed
  <2>3. /\ fifo' \in Seq(Fragments) /\ Len(fifo') <= FifoSize
        /\ losses' \in 0 .. MaxLosses
    <3>1. CASE losses < MaxLosses /\ losses' = losses + 1 /\ UNCHANGED fifo
      BY <3>1, SizesAssumption DEF TypeOK
    <3>2. CASE Len(fifo) < FifoSize /\ fifo' = Append(fifo, Fragment(s))
                 /\ UNCHANGED losses
      BY <2>1, <3>2, AppendType DEF TypeOK
    <3>. QED
      BY <1>3, <3>1, <3>2 DEF SendFailed
  <2>4. TypeOK'
    BY <2>1, <2>2, <2>3 DEF TypeOK
  <2>5. SomeLeft'
    BY <2>2 DEF SomeLeft, TypeOK, Idle
  <2>. QED
    BY <2>2, <2>4, <2>5 DEF BufferFits, GatheringRun, DeliversRuns
<1>4. ASSUME Receive PROVE IInv'
  <2>1. TypeOK'
    BY <1>4 DEF Receive, TypeOK
  <2>. QED
    BY <1>4, <2>1 DEF Receive, SomeLeft, BufferFits, GatheringRun, DeliversRuns
<1>5. ASSUME ReadLast PROVE IInv'
  <2>. DEFINE f == Head(fifo)
              g == Gathered(f)
  <2>1. /\ f \in Fragments /\ ~f.more
        /\ Tail(fifo) \in Seq(Fragments) /\ Len(Tail(fifo)) <= FifoSize
    BY <1>5, HeadType DEF ReadLast
  <2>2. g \in Seq(Fragments) /\ IsRun(g)
    BY <2>1, GatheredType, GatheredRun DEF IsRun
  <2>3. /\ fifo' = Tail(fifo) /\ rx' = Idle
        /\ delivered' = Append(delivered, g)
        /\ UNCHANGED <<msgId, sending, started, succeeded, losses>>
    BY <1>5 DEF ReadLast
  <2>. HIDE DEF f, g
  <2>4. TypeOK'
    BY <2>1, <2>2, <2>3 DEF TypeOK
  <2>5. DeliversRuns'
    BY <2>2, <2>3 DEF DeliversRuns, TypeOK
  <2>. QED
    BY <2>3, <2>4, <2>5 DEF SomeLeft, BufferFits, GatheringRun, Idle
<1>6. ASSUME ReadMore PROVE IInv'
  <2>. DEFINE f == Head(fifo)
              g == Gathered(f)
              n == GatheredLen(f)
  <2>1. /\ f \in Fragments /\ f.more
        /\ Tail(fifo) \in Seq(Fragments) /\ Len(Tail(fifo)) <= FifoSize
    BY <1>6, HeadType DEF ReadMore
  <2>2. /\ g \in Seq(Fragments) /\ n \in Nat
        /\ IsPrefix(g, (f.id + 1) % IdMod)
    <3>1. g \in Seq(Fragments) /\ n \in Nat
      BY <2>1, GatheredType
    <3>2. /\ g # <<>> /\ g[Len(g)] = f
          /\ \A i \in 1 .. (Len(g) - 1) :
               g[i].more /\ g[i + 1].id = (g[i].id + 1) % IdMod
      BY <2>1, GatheredRun
    <3>. HIDE DEF f, g, n
    <3>. QED
      BY <2>1, <3>1, <3>2 DEF IsPrefix
  <2>3. /\ fifo' = Tail(fifo)
        /\ rx' = IF OutOfSpace(n)
                 THEN Idle
                 ELSE [pc |-> "next", frags |-> g, len |-> n,
                       curMsgId |-> (f.id + 1) % IdMod]
        /\ UNCHANGED <<msgId, sending, started, succeeded, delivered, losses>>
    BY <1>6 DEF ReadMore
  <2>4. (f.id + 1) % IdMod \in 0 .. (IdMod - 1)
    <3>1. f.id \in Nat /\ IdMod \in Nat \ {0}
      BY <2>1, SizesAssumption DEF Fragments
    <3>. HIDE DEF f
    <3>. QED
      BY <3>1
  <2>. HIDE DEF f, g, n
  <2>5. TypeOK'
    <3>1. CASE OutOfSpace(n)
      BY SMTT(30), <2>1, <2>3, <3>1 DEF TypeOK, Idle
    <3>2. CASE ~OutOfSpace(n)
      BY SMTT(30), <2>1, <2>2, <2>3, <2>4, <3>2 DEF TypeOK
    <3>. QED
      BY <3>1, <3>2
  <2>6. BufferFits' /\ GatheringRun'
    BY <2>2, <2>3, SizesAssumption DEF BufferFits, GatheringRun, OutOfSpace, Idle
  <2>. QED
    BY <2>3, <2>5, <2>6 DEF SomeLeft, DeliversRuns
<1>7. ASSUME GiveUp PROVE IInv'
  <2>1. TypeOK'
    BY <1>7 DEF GiveUp, TypeOK
  <2>. QED
    BY <1>7, <2>1 DEF GiveUp, SomeLeft, BufferFits, GatheringRun, DeliversRuns, Idle
<1>8. CASE UNCHANGED vars
  BY <1>8 DEF vars, TypeOK, SomeLeft, BufferFits, GatheringRun, DeliversRuns
<1>. QED
  BY <1>1, <1>2, <1>3, <1>4, <1>5, <1>6, <1>7, <1>8 DEF Next

\* The inductive invariant holds in every state.
LEMMA Invariant == Spec => []IInv
BY InitInvariant, NextInvariant, PTL DEF Spec

-----------------------------------------------------------------------------
\* Type correctness: ids stay in seven bits, every datagram carries at least
\* one byte and at most what fits beside its header.
THEOREM TypeCorrect == Spec => []TypeOK
BY Invariant, PTL DEF IInv

\* recvfromAck reads each datagram to the place its buffer has been filled up
\* to: there is room for a whole datagram there, whoever sends what.
THEOREM BufferNeverOverrun == Spec => []BufferFits
BY Invariant, PTL DEF IInv

\* What recvfromAck returns has consecutive ids and ends with the first fragment
\* that is marked as the last, whatever is lost or mixed.
THEOREM OnlyRunsDelivered == Spec => []DeliversRuns
BY Invariant, PTL DEF IInv

-----------------------------------------------------------------------------
(* Calm behaviour implements Datagrams: the fragments on their way, those  *)
(* in the buffer before those in the chip, and the fragment that is sent   *)
(* next form a stream in which each one goes on where the one before it    *)
(* ended, or begins a message, and then it does not have the id that the   *)
(* receiver expects.                                                       *)

\* The buffer has room for a datagram wherever a fragment of a message begins.
MessagesFit ==
  \A l \in Lens, k \in Nat :
    k * (FragMax - 1) < l => k * (FragMax - 1) <= TotalMax - FragMax

AtCut(o) == \E k \in Nat : o = k * (FragMax - 1)

\* f is a piece of a message that was sent.
IsPiece(f) ==
  /\ f.msg \in started
  /\ f.off + f.n <= f.msg.len
  /\ f.more <=> f.off + f.n < f.msg.len
  /\ f.more => AtCut(f.off + f.n)

NextOf(id) == (id + 1) % IdMod

GoesOn(f, g) == f.more /\ g.msg = f.msg /\ g.off = f.off + f.n /\ g.id = NextOf(f.id)
Begins(f, g) == g.off = 0 /\ (f.more => g.id # NextOf(f.id))
Follows(f, g) == GoesOn(f, g) \/ Begins(f, g)

IsSending == sending[Calm].pc # "idle"
AtStart == IsSending => sending[Calm].off = 0

\* The sender is behind fragment f: it goes on with its message, or with another
\* after l losses, which have used up as many ids.
Behind(f) ==
  \/ /\ f.more /\ IsSending /\ sending[Calm].msg = f.msg
     /\ sending[Calm].off = f.off + f.n /\ msgId[Calm] = NextOf(f.id)
  \/ /\ AtStart
     /\ f.more => \E l \in 1 .. losses :
                    msgId[Calm] \in {f.id + 1 + l, f.id + 1 + l - IdMod}

\* The fragments of one message from its first.
IsBeginning(d) ==
  /\ \A i \in DOMAIN d : d[i].msg = d[1].msg /\ IsPiece(d[i])
  /\ d[1].off = 0
  /\ \A i \in 1 .. (Len(d) - 1) : d[i + 1].off = d[i].off + d[i].n

Latest == rx.frags[Len(rx.frags)]

OneSender ==
  /\ \A m \in started : m.from = Calm /\ m.num <= Count(Calm)
  /\ \A s \in Senders \ {Calm} : sending[s] = Idle
  /\ IsSending => AtCut(sending[Calm].off)

Stream ==
  /\ \A i \in DOMAIN fifo : IsPiece(fifo[i])
  /\ \A i \in 1 .. (Len(fifo) - 1) : Follows(fifo[i], fifo[i + 1])
  /\ rx.pc = "next" => IsBeginning(rx.frags) /\ rx.len = Latest.off + Latest.n
  /\ fifo # <<>> =>
       /\ Behind(fifo[Len(fifo)])
       /\ IF rx.pc = "next" THEN Follows(Latest, fifo[1]) ELSE fifo[1].off = 0
  /\ fifo = <<>> => IF rx.pc = "next" THEN Behind(Latest) ELSE AtStart

\* Message m is not older than fragment f, and newer than one that f completes.
NotOlder(m, f) == f.msg.num <= m.num /\ (~f.more => f.msg.num < m.num)

InOrder ==
  /\ \A i, j \in DOMAIN fifo : i < j => NotOlder(fifo[j].msg, fifo[i])
  /\ IsSending => \A i \in DOMAIN fifo : NotOlder(sending[Calm].msg, fifo[i])

Num(i) == delivered[i][1].msg.num

\* What is delivered is whole, and older than what is still on its way.
DeliversWhole ==
  \A i \in DOMAIN delivered :
    /\ IsWhole(delivered[i]) /\ delivered[i][1].msg \in started
    /\ \A j \in DOMAIN fifo : Num(i) < fifo[j].msg.num
    /\ IsSending => Num(i) < sending[Calm].msg.num
    /\ rx.pc = "next" => Num(i) < rx.frags[1].msg.num

CalmInv == OneSender /\ Stream /\ InOrder /\ DeliversWhole

\* Fewer datagrams are lost than there are ids, 128: after so many losses a fragment
\* may have the id that a receiver which is still waiting expects.
FewLosses == Calm \in Senders /\ MessagesFit /\ MaxLosses < IdMod

-----------------------------------------------------------------------------
\* Ids go up by one, and round.
LEMMA NextOfId ==
  ASSUME NEW id \in 0 .. (IdMod - 1)
  PROVE  NextOf(id) = IF id = IdMod - 1 THEN 0 ELSE id + 1
<1>. DEFINE x == id + 1
            d == x \div IdMod
            m == x % IdMod
<1>1. x \in Int /\ x >= 1 /\ x <= IdMod /\ IdMod \in Nat \ {0}
  BY SizesAssumption
<1>2. d \in Int /\ m \in 0 .. (IdMod - 1) /\ m \in Int
  BY <1>1
<1>3. \A i, j \in Int : i = x \div IdMod /\ j = x % IdMod => x = IdMod * i + j
  BY <1>1, Z3
<1>4. NextOf(id) = m
  BY DEF NextOf
<1>5. x = IdMod * d + m
  BY <1>2, <1>3
<1>. HIDE DEF x, d, m
<1>6. \A n \in Nat : /\ d = n => IdMod * d = IdMod * n
                     /\ IdMod * (n + 2) = IdMod * n + IdMod + IdMod /\ IdMod * n \in Nat
                     /\ IdMod * (-(n + 1)) = -(IdMod * n) - IdMod
  BY <1>1
<1>7. ~(d >= 2)
  <2>. SUFFICES ASSUME d >= 2 PROVE FALSE
    OBVIOUS
  <2>. DEFINE n == d - 2
  <2>1. n \in Nat /\ d = n + 2
    BY <1>2
  <2>2. IdMod * d = IdMod * n + IdMod + IdMod /\ IdMod * n \in Nat
    BY <1>6, <2>1
  <2>. QED
    BY <1>1, <1>2, <1>5, <2>2
<1>8. ~(d < 0)
  <2>. SUFFICES ASSUME d < 0 PROVE FALSE
    OBVIOUS
  <2>. DEFINE n == -d - 1
  <2>1. n \in Nat /\ d = -(n + 1)
    BY <1>2
  <2>2. IdMod * d = -(IdMod * n) - IdMod /\ IdMod * n \in Nat
    BY <1>6, <2>1
  <2>. QED
    BY <1>1, <1>2, <1>5, <2>2
<1>9. d = 0 \/ d = 1
  BY <1>2, <1>7, <1>8
<1>10. IdMod * 0 = 0 /\ IdMod * 1 = IdMod
  BY <1>1
<1>11. m = id + 1 \/ m = id + 1 - IdMod
  BY <1>1, <1>2, <1>5, <1>9, <1>10 DEF x
<1>. QED
  BY <1>1, <1>2, <1>4, <1>11

\* The fragment that is sent next is a piece of the message that is being sent, with
\* the offset and the id that the sender has come to.
LEMMA NextFragment ==
  ASSUME IInv, OneSender, Calm \in Senders, IsSending
  PROVE  LET f == Fragment(Calm)
         IN  /\ f \in Fragments /\ f.n \in Nat
             /\ f.msg = sending[Calm].msg /\ f.off = sending[Calm].off
             /\ f.id = msgId[Calm] /\ IsPiece(f)
<1>. DEFINE m == sending[Calm].msg
            off == sending[Calm].off
            p == FragMax - 1
            n == MinOf(p, m.len - off)
<1>1. /\ m \in Messages /\ off \in Nat /\ m \in started
      /\ off < m.len /\ m.len \in Nat /\ p \in Nat
  <2>1. sending[Calm] \in [pc : {"sending"}, msg : Messages, off : Nat]
    BY DEF IInv, TypeOK, IsSending, Idle
  <2>2. off < m.len /\ m \in started
    BY DEF IInv, SomeLeft, IsSending
  <2>3. m \in Messages /\ off \in Nat
    BY <2>1
  <2>4. p \in Nat /\ Lens \subseteq Nat
    BY SizesAssumption
  <2>5. m.len \in Lens
    BY <2>3 DEF Messages
  <2>. QED
    BY <2>2, <2>3, <2>4, <2>5
<1>2. n \in Nat /\ off + n <= m.len /\ (off + n < m.len => n = p)
  BY <1>1 DEF MinOf
<1>3. Fragment(Calm) = [msg |-> m, off |-> off, n |-> n, id |-> msgId[Calm],
                        more |-> off + n < m.len]
  BY DEF Fragment
<1>4. Fragment(Calm) \in Fragments
  BY FragmentType DEF IInv, IsSending
<1>5. off + n < m.len => AtCut(off + n)
  <2>. SUFFICES ASSUME off + n < m.len PROVE AtCut(off + n)
    OBVIOUS
  <2>1. PICK k \in Nat : off = k * p
    BY DEF OneSender, AtCut
  <2>. HIDE DEF n, off, p
  <2>2. off + n = (k + 1) * p /\ k + 1 \in Nat
    BY <1>1, <1>2, <2>1
  <2>. QED
    BY <2>2 DEF AtCut, p
<1>. HIDE DEF n, m, off, p
<1>6. /\ Fragment(Calm).msg = m /\ Fragment(Calm).off = off /\ Fragment(Calm).n = n
      /\ Fragment(Calm).id = msgId[Calm] /\ Fragment(Calm).more = (off + n < m.len)
  BY <1>3
<1>7. IsPiece(Fragment(Calm))
  BY <1>1, <1>2, <1>5, <1>6 DEF IsPiece
<1>. QED
  BY <1>2, <1>4, <1>6, <1>7 DEF m, off

\* Whatever fragment the sender is behind, the next one follows it.
LEMMA NextFollows ==
  ASSUME IInv, OneSender, FewLosses, IsSending, NEW g \in Fragments, Behind(g)
  PROVE  Follows(g, Fragment(Calm))
<1>. DEFINE f == Fragment(Calm)
<1>1. /\ f.msg = sending[Calm].msg /\ f.off = sending[Calm].off /\ f.id = msgId[Calm]
  BY NextFragment DEF FewLosses
<1>. HIDE DEF f
<1>2. CASE /\ g.more /\ IsSending /\ sending[Calm].msg = g.msg
           /\ sending[Calm].off = g.off + g.n /\ msgId[Calm] = NextOf(g.id)
  BY <1>1, <1>2 DEF Follows, GoesOn, f
<1>3. CASE /\ AtStart
           /\ g.more => \E l \in 1 .. losses :
                          msgId[Calm] \in {g.id + 1 + l, g.id + 1 + l - IdMod}
  <2>1. f.off = 0
    BY <1>1, <1>3 DEF AtStart
  <2>2. ASSUME g.more PROVE f.id # NextOf(g.id)
    <3>1. PICK l \in 1 .. losses : f.id \in {g.id + 1 + l, g.id + 1 + l - IdMod}
      BY <1>1, <1>3, <2>2
    <3>2. losses \in Nat /\ losses < IdMod /\ g.id \in 0 .. (IdMod - 1)
          /\ f.id \in 0 .. (IdMod - 1)
      BY <1>1, SizesAssumption DEF IInv, TypeOK, FewLosses, Fragments
    <3>3. NextOf(g.id) = IF g.id = IdMod - 1 THEN 0 ELSE g.id + 1
      BY <3>2, NextOfId
    <3>. QED
      BY <3>1, <3>2, <3>3, SizesAssumption
  <2>. QED
    BY <2>1, <2>2 DEF Follows, Begins, f
<1>. QED
  BY <1>2, <1>3 DEF Behind

\* With one sender, the messages it started are counted.
LEMMA CountOne ==
  ASSUME IsFiniteSet(started), OneSender, NEW m, m.from = Calm, m.num = Count(Calm) + 1,
         started' = started \cup {m}
  PROVE  Count(Calm)' = Count(Calm) + 1
<1>. DEFINE mine == {x \in started : x.from = Calm}
<1>1. {x \in started' : x.from = Calm} = mine \cup {m}
  OBVIOUS
<1>2. IsFiniteSet(mine) /\ Cardinality(mine) \in Nat
  BY FS_Subset, FS_CardinalityType
<1>3. m \notin mine
  BY <1>2 DEF OneSender, Count
<1>4. Cardinality(mine \cup {m}) = Cardinality(mine) + 1
  BY <1>2, <1>3, FS_AddElement
<1>. QED
  BY <1>1, <1>4 DEF Count

-----------------------------------------------------------------------------
LEMMA CalmStart ==
  ASSUME IInv, CalmInv, Calm \in Senders, NEW s \in Senders, Start(s),
         \A m \in started' : m.from = Calm
  PROVE  CalmInv'
<1>. PICK l \in Lens :
       LET m == [from |-> s, num |-> Count(s) + 1, len |-> l]
       IN  /\ sending' = [sending EXCEPT ![s] =
                            [pc |-> "sending", msg |-> m, off |-> 0]]
           /\ started' = started \cup {m}
  BY DEF Start
<1>. DEFINE m == [from |-> s, num |-> Count(s) + 1, len |-> l]
<1>1. s = Calm /\ ~IsSending
  <2>1. m \in started' /\ m.from = s
    OBVIOUS
  <2>. QED
    BY <2>1 DEF Start, IsSending
<1>2. sending' = [sending EXCEPT ![Calm] = [pc |-> "sending", msg |-> m, off |-> 0]]
      /\ started' = started \cup {m} /\ m.from = Calm /\ m.num = Count(Calm) + 1
  BY <1>1
<1>. HIDE DEF m
<1>3. /\ sending'[Calm] = [pc |-> "sending", msg |-> m, off |-> 0]
      /\ \A x \in Senders \ {Calm} : sending'[x] = sending[x]
  BY <1>2 DEF IInv, TypeOK
<1>4. UNCHANGED <<msgId, succeeded, fifo, rx, delivered, losses>>
  BY DEF Start
<1>5. Count(Calm)' = Count(Calm) + 1 /\ Count(Calm) \in Nat
  <2>1. IsFiniteSet(started) /\ OneSender
    BY DEF IInv, CalmInv
  <2>. QED
    BY <1>2, <2>1, CountOne, CountType
<1>6. \A x \in started : x.num <= Count(Calm) /\ x.num \in Nat
  BY DEF CalmInv, OneSender, IInv, TypeOK, Messages
<1>7. IsSending' /\ AtStart'
  BY <1>3 DEF IsSending, AtStart
<1>8. OneSender'
  <2>1. AtCut(0)
    BY SizesAssumption DEF AtCut
  <2>2. \A x \in started' : x.from = Calm /\ x.num <= Count(Calm)'
    BY <1>2, <1>5, <1>6 DEF CalmInv, OneSender
  <2>. QED
    BY <1>3, <2>1, <2>2 DEF CalmInv, OneSender, AtCut
<1>9. \A f : /\ IsPiece(f) => IsPiece(f)'
             /\ Behind(f) => Behind(f)'
  BY <1>1, <1>2, <1>4, <1>7 DEF IsPiece, Behind
<1>10. Stream'
  BY <1>4, <1>7, <1>9 DEF CalmInv, Stream, IsBeginning, Latest
<1>11. InOrder'
  <2>1. \A i \in DOMAIN fifo : NotOlder(m, fifo[i])
    BY <1>2, <1>5, <1>6 DEF CalmInv, Stream, IsPiece, NotOlder
  <2>. QED
    BY <1>3, <1>4, <2>1 DEF CalmInv, InOrder
<1>12. DeliversWhole'
  BY <1>2, <1>3, <1>4, <1>5, <1>6 DEF CalmInv, DeliversWhole, Num
<1>. QED
  BY <1>8, <1>10, <1>11, <1>12 DEF CalmInv

LEMMA CalmSendAcked ==
  ASSUME IInv, CalmInv, FewLosses, NEW s \in Senders, SendAcked(s)
  PROVE  CalmInv'
<1>. PICK f : f = Fragment(Calm)
  OBVIOUS
<1>1. s = Calm /\ IsSending /\ OneSender
  BY DEF SendAcked, CalmInv, OneSender, Idle, IsSending
<1>2. /\ f \in Fragments /\ f.n \in Nat
      /\ f.msg = sending[Calm].msg /\ f.off = sending[Calm].off
      /\ f.id = msgId[Calm] /\ IsPiece(f)
  BY <1>1, NextFragment DEF FewLosses
<1>3. /\ fifo' = Append(fifo, f)
      /\ msgId' = [msgId EXCEPT ![Calm] = NextId(Calm, TRUE)]
      /\ IF f.more
         THEN sending' = [sending EXCEPT ![Calm] = [@ EXCEPT !.off = f.off + f.n]]
         ELSE sending' = [sending EXCEPT ![Calm] = Idle]
      /\ UNCHANGED <<started, rx, delivered, losses>>
  BY <1>1 DEF SendAcked
<1>4. /\ sending[Calm] \in [pc : {"sending"}, msg : Messages, off : Nat]
      /\ fifo \in Seq(Fragments) /\ Calm \in DOMAIN msgId
  BY <1>1, <1>2 DEF IInv, TypeOK, Idle, IsSending, FewLosses
<1>5. \A g \in Fragments : Behind(g) => Follows(g, f)
  BY <1>1, NextFollows
<1>6. /\ msgId'[Calm] = NextOf(f.id)
      /\ \A x \in Senders \ {Calm} : sending'[x] = sending[x]
      /\ f.more => /\ sending'[Calm] = [pc |-> "sending", msg |-> f.msg, off |-> f.off + f.n]
                   /\ IsSending'
      /\ ~f.more => ~IsSending'
  <2>1. msgId'[Calm] = NextOf(f.id)
    BY <1>2, <1>3, <1>4 DEF NextOf, NextId
  <2>2. CASE f.more
    <3>1. /\ sending' = [sending EXCEPT ![Calm] = [@ EXCEPT !.off = f.off + f.n]]
          /\ sending \in [Senders -> {Idle} \cup [pc : {"sending"}, msg : Messages, off : Nat]]
      BY <1>3, <2>2 DEF IInv, TypeOK
    <3>2. sending'[Calm] = [pc |-> "sending", msg |-> f.msg, off |-> f.off + f.n]
      BY <1>2, <1>4, <3>1 DEF FewLosses
    <3>. QED
      BY <2>1, <2>2, <3>1, <3>2 DEF IsSending
  <2>3. CASE ~f.more
    <3>1. /\ sending' = [sending EXCEPT ![Calm] = Idle]
          /\ sending \in [Senders -> {Idle} \cup [pc : {"sending"}, msg : Messages, off : Nat]]
      BY <1>3, <2>3 DEF IInv, TypeOK
    <3>2. sending'[Calm] = Idle /\ Idle.pc = "idle"
      BY <3>1 DEF FewLosses, Idle
    <3>. QED
      BY <2>1, <2>3, <3>1, <3>2 DEF IsSending
  <2>. QED
    BY <2>2, <2>3
<1>7. OneSender'
  <2>1. \A x \in Senders \ {Calm} : sending'[x] = Idle
    BY <1>6 DEF CalmInv, OneSender
  <2>2. IsSending' => AtCut(sending'[Calm].off)
    BY <1>2, <1>6 DEF IsPiece
  <2>. QED
    BY <1>3, <2>1, <2>2 DEF CalmInv, OneSender, Count, AtCut
<1>8. Behind(f)'
  <2>1. CASE f.more
    BY <1>6, <2>1 DEF Behind
  <2>2. CASE ~f.more
    BY <1>6, <2>2 DEF Behind, AtStart
  <2>. QED
    BY <2>1, <2>2
<1>9. \A g : IsPiece(g) => IsPiece(g)'
  BY <1>3 DEF IsPiece
<1>10. /\ Len(fifo') = Len(fifo) + 1 /\ fifo'[Len(fifo')] = f /\ fifo' # <<>>
       /\ \A i \in DOMAIN fifo : fifo'[i] = fifo[i] /\ fifo[i] \in Fragments
       /\ DOMAIN fifo' = DOMAIN fifo \cup {Len(fifo) + 1}
       /\ DOMAIN fifo = 1 .. Len(fifo) /\ Len(fifo) \in Nat
  BY <1>3, <1>4
<1>11. fifo # <<>> => Follows(fifo[Len(fifo)], f)
  BY <1>5, <1>10 DEF CalmInv, Stream
<1>12. fifo = <<>> => IF rx.pc = "next" THEN Follows(Latest, f) ELSE f.off = 0
  <2>1. rx.pc = "next" => Latest \in Fragments
    BY DEF IInv, TypeOK, GatheringRun, IsPrefix, Idle, Latest
  <2>. QED
    BY <1>1, <1>2, <1>5, <2>1 DEF CalmInv, Stream, AtStart
<1>13. Stream'
  <2>1. (\A i \in DOMAIN fifo : IsPiece(fifo[i]))'
    <3>1. \A i \in DOMAIN fifo' : IsPiece(fifo'[i])
      BY <1>2, <1>10 DEF CalmInv, Stream
    <3>. QED
      BY <1>3, <3>1 DEF IsPiece
  <2>2. \A i \in 1 .. (Len(fifo') - 1) : Follows(fifo'[i], fifo'[i + 1])
    BY <1>10, <1>11 DEF CalmInv, Stream
  <2>3. rx.pc = "next" => IsBeginning(rx.frags)'
    BY <1>3, <1>9 DEF CalmInv, Stream, IsBeginning
  <2>4. IF rx.pc = "next" THEN Follows(Latest, fifo'[1]) ELSE fifo'[1].off = 0
    BY <1>10, <1>12 DEF CalmInv, Stream
  <2>. QED
    BY <1>3, <1>8, <1>10, <2>1, <2>2, <2>3, <2>4
       DEF CalmInv, Stream, Latest, Follows, GoesOn, Begins
<1>14. InOrder'
  <2>1. \A i \in DOMAIN fifo : NotOlder(f.msg, fifo[i])
    BY <1>1, <1>2 DEF CalmInv, InOrder
  <2>2. \A i, j \in DOMAIN fifo' : i < j => NotOlder(fifo'[j].msg, fifo'[i])
    BY <1>10, <2>1 DEF CalmInv, InOrder
  <2>3. IsSending' => /\ f.more /\ sending'[Calm].msg = f.msg /\ f.msg.num \in Int
    BY <1>2, <1>6 DEF Fragments, Messages
  <2>4. IsSending' => \A i \in DOMAIN fifo' : NotOlder(sending'[Calm].msg, fifo'[i])
    BY <1>10, <2>1, <2>3 DEF NotOlder
  <2>. QED
    BY <2>2, <2>4 DEF InOrder, NotOlder
<1>15. DeliversWhole'
  BY <1>1, <1>2, <1>3, <1>6, <1>10 DEF CalmInv, DeliversWhole, Num
<1>. QED
  BY <1>7, <1>13, <1>14, <1>15 DEF CalmInv

LEMMA CalmSendFailed ==
  ASSUME IInv, CalmInv, FewLosses, NEW s \in Senders, SendFailed(s), ~AckLost(s)
  PROVE  CalmInv'
<1>1. s = Calm /\ IsSending
  BY DEF SendFailed, CalmInv, OneSender, Idle, IsSending
<1>2. /\ losses < MaxLosses /\ losses' = losses + 1 /\ fifo' = fifo
      /\ sending' = [sending EXCEPT ![Calm] = Idle]
      /\ msgId' = [msgId EXCEPT ![Calm] = NextId(Calm, FALSE)]
      /\ UNCHANGED <<started, succeeded, rx, delivered>>
  BY <1>1 DEF SendFailed, AckLost
<1>3. /\ ~IsSending' /\ AtStart'
      /\ \A x \in Senders \ {Calm} : sending'[x] = sending[x]
  BY <1>2 DEF IInv, TypeOK, FewLosses, IsSending, AtStart, Idle
<1>4. /\ msgId[Calm] \in 0 .. (IdMod - 1) /\ losses \in Nat /\ IdMod \in Nat \ {0}
      /\ losses + 1 < IdMod /\ msgId'[Calm] = NextOf(msgId[Calm])
  BY <1>2, SizesAssumption DEF IInv, TypeOK, FewLosses, NextId, NextOf
<1>5. ASSUME NEW g \in Fragments, Behind(g) PROVE Behind(g)'
  <2>1. g.id \in 0 .. (IdMod - 1)
    BY DEF Fragments
  <2>. DEFINE Near(l) == msgId'[Calm] \in {g.id + 1 + l, g.id + 1 + l - IdMod}
  <2>2. SUFFICES ASSUME g.more PROVE \E l \in 1 .. losses + 1 : Near(l)
    BY <1>2, <1>3 DEF Behind
  <2>3. NextOf(msgId[Calm]) = IF msgId[Calm] = IdMod - 1 THEN 0 ELSE msgId[Calm] + 1
    BY <1>4, NextOfId
  <2>4. CASE msgId[Calm] = NextOf(g.id)
    <3>1. NextOf(g.id) = IF g.id = IdMod - 1 THEN 0 ELSE g.id + 1
      BY <2>1, NextOfId
    <3>2. Near(1) /\ 1 \in 1 .. losses + 1
      BY <1>4, <2>1, <2>3, <2>4, <3>1
    <3>. QED
      BY <3>2
  <2>5. CASE \E l \in 1 .. losses : msgId[Calm] \in {g.id + 1 + l, g.id + 1 + l - IdMod}
    <3>1. PICK l \in 1 .. losses : msgId[Calm] \in {g.id + 1 + l, g.id + 1 + l - IdMod}
      BY <2>5
    <3>2. Near(l + 1) /\ l + 1 \in 1 .. losses + 1
      BY <1>4, <2>1, <2>3, <3>1
    <3>. QED
      BY <3>2
  <2>6. \/ msgId[Calm] = NextOf(g.id)
        \/ \E l \in 1 .. losses : msgId[Calm] \in {g.id + 1 + l, g.id + 1 + l - IdMod}
    BY <1>5, <2>2 DEF Behind
  <2>. QED
    BY <2>4, <2>5, <2>6
<1>6. OneSender'
  BY <1>2, <1>3 DEF CalmInv, OneSender, Count
<1>7. Stream'
  <2>1. fifo # <<>> => fifo[Len(fifo)] \in Fragments
    BY DEF IInv, TypeOK
  <2>2. fifo # <<>> => Behind(fifo[Len(fifo)])'
    BY <1>2, <1>5, <2>1 DEF CalmInv, Stream, Behind
  <2>3. rx.pc = "next" => Latest \in Fragments
    BY DEF IInv, TypeOK, GatheringRun, IsPrefix, Idle, Latest
  <2>4. fifo = <<>> /\ rx.pc = "next" => Behind(Latest)'
    <3>1. Latest' = Latest
      BY <1>2 DEF Latest
    <3>. QED
      BY <1>5, <2>3, <3>1 DEF CalmInv, Stream, Behind
  <2>. QED
    BY <1>2, <1>3, <2>2, <2>4 DEF CalmInv, Stream, IsBeginning, IsPiece, Latest
<1>8. InOrder' /\ DeliversWhole'
  BY <1>2, <1>3 DEF CalmInv, InOrder, DeliversWhole, Num
<1>. QED
  BY <1>6, <1>7, <1>8 DEF CalmInv

LEMMA CalmReceive ==
  ASSUME IInv, CalmInv, Receive
  PROVE  CalmInv'
<1>1. /\ rx.pc = "idle" /\ rx'.pc = "first" /\ fifo # <<>>
      /\ UNCHANGED <<msgId, sending, started, succeeded, fifo, delivered, losses>>
  BY DEF Receive
<1>. QED
  BY <1>1 DEF CalmInv, OneSender, IsSending, Count, AtStart, Stream, IsPiece, Behind, InOrder,
              DeliversWhole, Num

\* The receiver has waited in vain, and the sender sends nothing.
LEMMA CalmGiveUp ==
  ASSUME IInv, CalmInv, GiveUp, ~IsSending
  PROVE  CalmInv'
<1>1. /\ rx' = Idle /\ Idle.pc = "idle" /\ fifo = <<>>
      /\ UNCHANGED <<msgId, sending, started, succeeded, fifo, delivered, losses>>
  BY DEF GiveUp, Idle
<1>. QED
  BY <1>1 DEF CalmInv, OneSender, IsSending, Count, AtStart, Stream, InOrder,
              DeliversWhole, Num

\* Reading fragment f: it goes on with the message in the buffer, or begins one.
LEMMA ReadPiece ==
  ASSUME IInv, CalmInv, rx.pc # "idle", fifo # <<>>
  PROVE  LET f == Head(fifo)
             g == Gathered(f)
         IN  /\ f = fifo[1] /\ f \in Fragments /\ IsPiece(f)
             /\ g # <<>> /\ g \in Seq(Fragments) /\ g[Len(g)] = f
             /\ IsBeginning(g) /\ g[1].msg = f.msg
             /\ GatheredLen(f) = f.off + f.n
<1>. PICK f : f = Head(fifo)
  OBVIOUS
<1>1. f = fifo[1] /\ f \in Fragments /\ IsPiece(f)
  BY HeadType DEF IInv, TypeOK, CalmInv, Stream
<1>2. Gathered(f) # <<>> /\ Gathered(f) \in Seq(Fragments)
      /\ Gathered(f)[Len(Gathered(f))] = f
  BY <1>1, GatheredType, GatheredRun DEF IInv
<1>3. CASE Continues(f)
  <2>. DEFINE d == rx.frags
  <2>1. /\ rx.pc = "next" /\ d \in Seq(Fragments) /\ f.id = rx.curMsgId
        /\ IsPrefix(d, rx.curMsgId) /\ IsBeginning(d)
        /\ rx.len = Latest.off + Latest.n /\ Follows(Latest, f)
    BY <1>1, <1>3 DEF Continues, IInv, TypeOK, Idle, GatheringRun, CalmInv, Stream
  <2>2. /\ d # <<>> /\ Latest = d[Len(d)] /\ Latest.more /\ f.id = NextOf(Latest.id)
    BY <2>1 DEF IsPrefix, Latest, NextOf
  <2>3. GoesOn(Latest, f)
    BY <2>1, <2>2 DEF Follows, Begins
  <2>4. Gathered(f) = Append(d, f) /\ GatheredLen(f) = rx.len + f.n
    BY <1>3 DEF Gathered, GatheredLen
  <2>. HIDE DEF d
  <2>5. /\ Len(d) \in Nat \ {0} /\ Len(Append(d, f)) = Len(d) + 1
        /\ Append(d, f)[Len(d) + 1] = f
        /\ \A i \in 1 .. Len(d) : Append(d, f)[i] = d[i]
        /\ DOMAIN Append(d, f) = 1 .. Len(d) + 1 /\ DOMAIN d = 1 .. Len(d)
    BY <2>1, <2>2
  <2>6. f.msg = d[1].msg
    BY <2>1, <2>2, <2>3, <2>5 DEF IsBeginning, GoesOn
  <2>7. IsBeginning(Append(d, f))
    <3>1. \A i \in DOMAIN Append(d, f) : Append(d, f)[i].msg = d[1].msg /\ IsPiece(Append(d, f)[i])
      BY <1>1, <2>1, <2>5, <2>6 DEF IsBeginning
    <3>2. Append(d, f)[1] = d[1] /\ d[1].off = 0
      BY <2>1, <2>5 DEF IsBeginning
    <3>3. \A i \in 1 .. Len(d) : Append(d, f)[i + 1].off = Append(d, f)[i].off + Append(d, f)[i].n
      <4>1. TAKE i \in 1 .. Len(d)
      <4>2. CASE i = Len(d)
        BY <2>2, <2>3, <2>5, <4>2 DEF GoesOn
      <4>3. CASE i # Len(d)
        <5>0. Len(d) \in Nat
          BY <2>5
        <5>1. i \in 1 .. (Len(d) - 1) /\ i + 1 \in 1 .. Len(d)
          BY <4>3, <5>0
        <5>. QED
          BY <2>1, <2>5, <5>1 DEF IsBeginning
      <4>. QED
        BY <4>2, <4>3
    <3>. QED
      BY <2>5, <3>1, <3>2, <3>3 DEF IsBeginning
  <2>8. GatheredLen(f) = f.off + f.n
    BY <2>1, <2>3, <2>4 DEF GoesOn
  <2>. QED
    <3>1. Append(d, f)[1].msg = f.msg
      BY <2>5, <2>6
    <3>. QED
      BY <1>1, <1>2, <2>4, <2>7, <2>8, <3>1
<1>4. CASE ~Continues(f)
  <2>1. f.off = 0
    <3>1. CASE rx.pc = "next"
      <4>1. /\ rx.frags \in Seq(Fragments) /\ IsPrefix(rx.frags, rx.curMsgId)
            /\ f.id # rx.curMsgId /\ Follows(Latest, f)
        BY <1>1, <1>4, <3>1 DEF Continues, IInv, TypeOK, Idle, GatheringRun, CalmInv, Stream
      <4>2. rx.curMsgId = NextOf(Latest.id)
        BY <4>1 DEF IsPrefix, Latest, NextOf
      <4>. QED
        BY <4>1, <4>2 DEF Follows, GoesOn, Begins
    <3>2. CASE rx.pc # "next"
      BY <1>1, <3>2 DEF CalmInv, Stream
    <3>. QED
      BY <3>1, <3>2
  <2>2. Gathered(f) = <<f>> /\ GatheredLen(f) = 0 + f.n /\ f.n \in Nat
    <3>1. f.n \in Nat
      BY <1>1, SizesAssumption DEF Fragments
    <3>. QED
      BY <1>4, <3>1 DEF Gathered, GatheredLen
  <2>3. IsBeginning(<<f>>)
    BY <1>1, <2>1 DEF IsBeginning
  <2>. QED
    BY <1>1, <1>2, <2>1, <2>2, <2>3
<1>. QED
  BY <1>3, <1>4

\* When the first fragment is taken, the next one follows it, or the sender is
\* behind it.
LEMMA TailFollows ==
  ASSUME IInv, CalmInv, fifo # <<>>
  PROVE  LET f == Head(fifo)
             t == Tail(fifo)
         IN  /\ DOMAIN t = 1 .. Len(t) /\ Len(t) = Len(fifo) - 1
             /\ \A i \in DOMAIN t : t[i] = fifo[i + 1] /\ i + 1 \in DOMAIN fifo
             /\ t = <<>> => Behind(f)
             /\ t # <<>> => Follows(f, t[1]) /\ Behind(t[Len(t)])
             /\ \A i \in 1 .. (Len(t) - 1) : Follows(t[i], t[i + 1])
<1>1. /\ DOMAIN Tail(fifo) = 1 .. Len(Tail(fifo)) /\ Len(Tail(fifo)) = Len(fifo) - 1
      /\ Len(fifo) \in Nat \ {0} /\ DOMAIN fifo = 1 .. Len(fifo) /\ Head(fifo) = fifo[1]
      /\ \A i \in 1 .. (Len(fifo) - 1) : Tail(fifo)[i] = fifo[i + 1]
  BY DEF IInv, TypeOK
<1>2. Tail(fifo) = <<>> <=> Len(fifo) = 1
  <2>1. Tail(fifo) \in Seq(Fragments)
    BY DEF IInv, TypeOK
  <2>2. Tail(fifo) = <<>> <=> Len(Tail(fifo)) = 0
    BY <2>1, EmptySeq
  <2>. QED
    BY <1>1, <2>2
<1>3. /\ Behind(fifo[Len(fifo)])
      /\ \A i \in 1 .. (Len(fifo) - 1) : Follows(fifo[i], fifo[i + 1])
  BY DEF CalmInv, Stream
<1>. HIDE DEF CalmInv, IInv
<1>. QED
  BY <1>1, <1>2, <1>3

LEMMA CalmReadMore ==
  ASSUME IInv, CalmInv, FewLosses, ReadMore
  PROVE  CalmInv'
<1>. PICK f : f = Head(fifo)
  OBVIOUS
<1>. PICK g : g = Gathered(f)
  OBVIOUS
<1>. PICK t : t = Tail(fifo)
  OBVIOUS
<1>1. /\ f = fifo[1] /\ f \in Fragments /\ IsPiece(f) /\ f.more
      /\ g # <<>> /\ g \in Seq(Fragments) /\ g[Len(g)] = f
      /\ IsBeginning(g) /\ g[1].msg = f.msg
      /\ GatheredLen(f) = f.off + f.n
  BY ReadPiece DEF ReadMore
<1>2. ~OutOfSpace(f.off + f.n)
  <2>1. /\ f.msg.len \in Lens /\ f.msg.len \in Nat /\ f.off \in Nat /\ f.n \in Nat
        /\ f.off + f.n < f.msg.len
    <3>1. f.msg \in Messages /\ f.off \in Nat /\ f.n \in 1 .. (FragMax - 1)
      BY <1>1 DEF Fragments
    <3>2. FragMax \in Nat /\ Lens \subseteq Nat
      BY SizesAssumption
    <3>3. f.off + f.n < f.msg.len
      BY <1>1 DEF IsPiece
    <3>4. f.msg.len \in Lens
      BY <3>1 DEF Messages
    <3>5. f.n \in Nat
      BY <3>1, <3>2
    <3>. QED
      BY <3>1, <3>2, <3>3, <3>4, <3>5
  <2>2. PICK k \in Nat : f.off + f.n = k * (FragMax - 1)
    BY <1>1 DEF IsPiece, AtCut
  <2>3. k * (FragMax - 1) <= TotalMax - FragMax
    BY <2>1, <2>2 DEF FewLosses, MessagesFit
  <2>. QED
    BY <2>1, <2>2, <2>3, SizesAssumption DEF OutOfSpace
<1>3. /\ rx' = [pc |-> "next", frags |-> g, len |-> f.off + f.n,
                curMsgId |-> (f.id + 1) % IdMod]
      /\ fifo' = t
      /\ UNCHANGED <<msgId, sending, started, succeeded, delivered, losses>>
  BY <1>1, <1>2 DEF ReadMore
<1>4. /\ DOMAIN t = 1 .. Len(t) /\ Len(t) = Len(fifo) - 1
      /\ \A i \in DOMAIN t : t[i] = fifo[i + 1] /\ i + 1 \in DOMAIN fifo
      /\ t = <<>> => Behind(f)
      /\ t # <<>> => Follows(f, t[1]) /\ Behind(t[Len(t)])
      /\ \A i \in 1 .. (Len(t) - 1) : Follows(t[i], t[i + 1])
  BY TailFollows DEF ReadMore
<1>5. OneSender'
  BY <1>3 DEF CalmInv, OneSender, Count, IsSending
<1>6. Latest' = f /\ rx'.pc = "next" /\ rx'.frags = g /\ rx'.len = f.off + f.n
  BY <1>1, <1>3 DEF Latest
<1>7. \A x : /\ IsPiece(x) => IsPiece(x)'
             /\ Behind(x) => Behind(x)'
             /\ IsBeginning(x) => IsBeginning(x)'
  BY <1>3 DEF IsPiece, Behind, IsBeginning, AtStart, IsSending
<1>8. Stream'
  <2>1. \A i \in DOMAIN t : IsPiece(t[i])'
    BY <1>4, <1>7 DEF CalmInv, Stream
  <2>2. IsBeginning(g)'
    BY <1>1, <1>7
  <2>3. /\ t # <<>> => Behind(t[Len(t)])'
        /\ t = <<>> => Behind(f)'
    BY <1>4, <1>7
  <2>. QED
    BY <1>3, <1>4, <1>6, <2>1, <2>2, <2>3 DEF Stream, Follows, GoesOn, Begins
<1>9. InOrder'
  BY <1>3, <1>4 DEF CalmInv, InOrder, IsSending
<1>10. DeliversWhole'
  <2>1. 1 \in DOMAIN fifo
    BY DEF ReadMore, IInv, TypeOK
  <2>. QED
    BY <1>1, <1>3, <1>4, <1>6, <2>1 DEF CalmInv, DeliversWhole, Num, IsSending
<1>. QED
  BY <1>5, <1>8, <1>9, <1>10 DEF CalmInv

LEMMA CalmReadLast ==
  ASSUME IInv, CalmInv, ReadLast
  PROVE  CalmInv'
<1>. PICK f : f = Head(fifo)
  OBVIOUS
<1>. PICK g : g = Gathered(f)
  OBVIOUS
<1>. PICK t : t = Tail(fifo)
  OBVIOUS
<1>1. /\ f = fifo[1] /\ f \in Fragments /\ IsPiece(f) /\ ~f.more
      /\ g # <<>> /\ g \in Seq(Fragments) /\ g[Len(g)] = f
      /\ IsBeginning(g) /\ g[1].msg = f.msg
  BY ReadPiece DEF ReadLast
<1>2. /\ rx' = Idle /\ Idle.pc = "idle" /\ fifo' = t
      /\ delivered' = Append(delivered, g)
      /\ UNCHANGED <<msgId, sending, started, succeeded, losses>>
  BY <1>1 DEF ReadLast, Idle
<1>3. /\ DOMAIN t = 1 .. Len(t) /\ Len(t) = Len(fifo) - 1
      /\ \A i \in DOMAIN t : t[i] = fifo[i + 1] /\ i + 1 \in DOMAIN fifo
      /\ t = <<>> => Behind(f)
      /\ t # <<>> => Follows(f, t[1]) /\ Behind(t[Len(t)])
      /\ \A i \in 1 .. (Len(t) - 1) : Follows(t[i], t[i + 1])
  BY TailFollows DEF ReadLast
<1>4. OneSender'
  BY <1>2 DEF CalmInv, OneSender, Count, IsSending
<1>5. \A x : /\ IsPiece(x) => IsPiece(x)'
             /\ Behind(x) => Behind(x)'
  BY <1>2 DEF IsPiece, Behind, AtStart, IsSending
<1>6. Stream'
  <2>1. \A i \in DOMAIN t : IsPiece(t[i])'
    BY <1>3, <1>5 DEF CalmInv, Stream
  <2>2. t # <<>> => Behind(t[Len(t)])' /\ t[1].off = 0
    BY <1>1, <1>3, <1>5 DEF Follows, GoesOn, Begins
  <2>3. t = <<>> => AtStart'
    BY <1>1, <1>2, <1>3 DEF Behind, AtStart, IsSending
  <2>. QED
    BY <1>2, <1>3, <2>1, <2>2, <2>3 DEF Stream, Follows, GoesOn, Begins
<1>7. InOrder'
  BY <1>2, <1>3 DEF CalmInv, InOrder, IsSending
<1>8. IsWhole(g) /\ g[1].msg \in started
  <2>1. f.msg.len \in Nat /\ f.off \in Nat /\ f.n \in Nat
    <3>1. f.msg \in Messages /\ f.off \in Nat /\ f.n \in 1 .. (FragMax - 1)
      BY <1>1 DEF Fragments
    <3>2. FragMax \in Nat /\ Lens \subseteq Nat
      BY SizesAssumption
    <3>3. f.msg.len \in Lens
      BY <3>1 DEF Messages
    <3>4. f.n \in Nat
      BY <3>1, <3>2
    <3>. QED
      BY <3>1, <3>2, <3>3, <3>4
  <2>2. f.off + f.n = f.msg.len /\ f.msg \in started
    <3>1. /\ f.off + f.n <= f.msg.len /\ ~(f.off + f.n < f.msg.len)
          /\ f.msg \in started
      BY <1>1, Zenon DEF IsPiece
    <3>. QED
      BY <2>1, <3>1
  <2>. QED
    BY <1>1, <2>2 DEF IsWhole, IsBeginning
<1>9. DeliversWhole'
  <2>1. /\ delivered \in Seq(Seq(Fragments)) /\ Len(delivered) \in Nat
        /\ DOMAIN delivered' = DOMAIN delivered \cup {Len(delivered) + 1}
        /\ delivered'[Len(delivered) + 1] = g
        /\ \A i \in DOMAIN delivered : delivered'[i] = delivered[i]
    BY <1>2 DEF IInv, TypeOK
  <2>2. 1 \in DOMAIN fifo /\ DOMAIN fifo = 1 .. Len(fifo)
    BY DEF ReadLast, IInv, TypeOK
  <2>3. /\ \A j \in DOMAIN t : f.msg.num < t[j].msg.num
        /\ IsSending => f.msg.num < sending[Calm].msg.num
    <3>1. \A j \in DOMAIN t : j + 1 \in DOMAIN fifo /\ 1 < j + 1 /\ t[j] = fifo[j + 1]
      BY <1>3
    <3>. QED
      BY <1>1, <2>2, <3>1 DEF CalmInv, InOrder, NotOlder
  <2>4. \A i \in DOMAIN delivered :
          /\ IsWhole(delivered[i]) /\ delivered[i][1].msg \in started
          /\ \A j \in DOMAIN t : Num(i) < t[j].msg.num
          /\ IsSending => Num(i) < sending[Calm].msg.num
    BY <1>3 DEF CalmInv, DeliversWhole
  <2>. DEFINE Good(d) ==
         /\ IsWhole(d) /\ d[1].msg \in started
         /\ \A j \in DOMAIN t : d[1].msg.num < t[j].msg.num
         /\ IsSending => d[1].msg.num < sending[Calm].msg.num
  <2>5. Good(g) /\ \A i \in DOMAIN delivered : Good(delivered[i])
    BY <1>1, <1>8, <2>3, <2>4 DEF Num
  <2>. HIDE DEF Good
  <2>6. \A i \in DOMAIN delivered' : Good(delivered'[i])
    BY <2>1, <2>5
  <2>7. /\ DOMAIN fifo' = DOMAIN t /\ \A j \in DOMAIN t : fifo'[j] = t[j]
        /\ rx'.pc # "next" /\ IsSending' = IsSending /\ UNCHANGED <<started, sending>>
    BY <1>2 DEF IsSending
  <2>. QED
    BY <2>6, <2>7 DEF Good, DeliversWhole, Num
<1>. QED
  BY <1>4, <1>6, <1>7, <1>9 DEF CalmInv

-----------------------------------------------------------------------------
(* The refinement: what a calm behaviour has done is what a service for    *)
(* datagrams may have done.                                                *)

MixedInv == IInv /\ calm \in BOOLEAN /\ (calm => CalmInv)

LEMMA MixedInitial ==
  ASSUME Calm \in Senders, MixedInit
  PROVE  MixedInv
<1>1. IInv /\ calm \in BOOLEAN
  BY InitInvariant DEF MixedInit
<1>2. /\ ~IsSending /\ started = {} /\ fifo = <<>> /\ delivered = <<>>
      /\ rx.pc # "next" /\ \A s \in Senders : sending[s] = Idle
  BY DEF MixedInit, Init, Idle, IsSending
<1>3. CalmInv
  BY <1>2 DEF CalmInv, OneSender, Stream, AtStart, InOrder, DeliversWhole
<1>. QED
  BY <1>1, <1>3 DEF MixedInv

LEMMA MixedStep ==
  ASSUME FewLosses, MixedInv, [MixedNext]_<<vars, calm>>
  PROVE  MixedInv'
<1>1. IInv' /\ calm' = calm
  BY NextInvariant DEF MixedInv, MixedNext, vars
<1>2. ASSUME calm PROVE CalmInv'
  <2>1. IInv /\ CalmInv /\ Calm \in Senders
    BY <1>2 DEF MixedInv, FewLosses
  <2>2. CASE UNCHANGED vars
    BY <2>1, <2>2 DEF vars, CalmInv, OneSender, IsSending, Count, AtStart, Stream, IsPiece,
                      Behind, IsBeginning, Latest, InOrder, DeliversWhole, Num
  <2>3. CASE Next /\ Quiet
    <3>1. /\ \A m \in started' : m.from = Calm
          /\ \A s \in Senders : ~AckLost(s)
          /\ GiveUp => ~IsSending
      BY <2>1, <2>3 DEF Quiet, IsSending
    <3>2. ASSUME NEW s \in Senders, Start(s) PROVE CalmInv'
      BY <2>1, <3>1, <3>2, CalmStart
    <3>3. ASSUME NEW s \in Senders, SendAcked(s) PROVE CalmInv'
      BY <2>1, <3>3, CalmSendAcked
    <3>4. ASSUME NEW s \in Senders, SendFailed(s) PROVE CalmInv'
      BY <2>1, <3>1, <3>4, CalmSendFailed
    <3>5. CASE Receive
      BY <2>1, <3>5, CalmReceive
    <3>6. CASE ReadLast
      BY <2>1, <3>6, CalmReadLast
    <3>7. CASE ReadMore
      BY <2>1, <3>7, CalmReadMore
    <3>8. CASE GiveUp
      BY <2>1, <3>1, <3>8, CalmGiveUp
    <3>. QED
      BY <2>3, <3>2, <3>3, <3>4, <3>5, <3>6, <3>7, <3>8 DEF Next
  <2>. QED
    BY <1>2, <2>2, <2>3 DEF MixedNext, vars
<1>. QED
  BY <1>1, <1>2 DEF MixedInv

LEMMA MixedInvariant ==
  ASSUME FewLosses
  PROVE  MixedSpec => []MixedInv
<1>1. MixedInit => MixedInv
  BY MixedInitial DEF FewLosses
<1>2. MixedInv /\ [MixedNext]_<<vars, calm>> => MixedInv'
  BY MixedStep
<1>. QED
  BY <1>1, <1>2, PTL DEF MixedSpec

\* The message that was received, from the fragments.
Told(d) == IF IsWhole(d) THEN d[1].msg ELSE Idle

\* Appending to what was delivered appends to what was received.
LEMMA ToldAppend ==
  ASSUME NEW ds \in Seq(Seq(Fragments)), NEW d \in Seq(Fragments), IsWhole(d),
         \A i \in DOMAIN ds : IsWhole(ds[i]) /\ ds[i] # <<>>, d # <<>>
  PROVE  [i \in DOMAIN Append(ds, d) |-> Told(Append(ds, d)[i])]
           = Append([i \in DOMAIN ds |-> Told(ds[i])], d[1].msg)
<1>. DEFINE new == Append(ds, d)
            s == [i \in DOMAIN ds |-> Told(ds[i])]
            t == [i \in DOMAIN new |-> Told(new[i])]
<1>1. /\ Len(ds) \in Nat /\ DOMAIN ds = 1 .. Len(ds)
      /\ new \in Seq(Seq(Fragments)) /\ Len(new) = Len(ds) + 1 /\ DOMAIN new = 1 .. Len(ds) + 1
      /\ \A i \in 1 .. Len(ds) : new[i] = ds[i]
      /\ new[Len(ds) + 1] = d
  OBVIOUS
<1>2. \A x \in Seq(Fragments) : x # <<>> /\ IsWhole(x) => Told(x) \in Messages
  <2>. SUFFICES ASSUME NEW x \in Seq(Fragments), x # <<>>, IsWhole(x)
                PROVE  Told(x) \in Messages
    OBVIOUS
  <2>1. x[1] \in Fragments
    OBVIOUS
  <2>. QED
    BY <2>1 DEF Told, Fragments
<1>3. \A i \in 1 .. Len(ds) : ds[i] \in Seq(Fragments)
  BY <1>1
<1>4. d[1].msg = Told(d) /\ d[1].msg \in Messages
  BY <1>2 DEF Told
<1>. HIDE DEF new
<1>5. s \in Seq(Messages) /\ Len(s) = Len(ds) /\ \A i \in 1 .. Len(ds) : s[i] = Told(ds[i])
  <2>1. \A i \in 1 .. Len(ds) : Told(ds[i]) \in Messages
    BY <1>1, <1>2, <1>3
  <2>2. s \in [1 .. Len(ds) -> Messages]
    BY <1>1, <2>1
  <2>. QED
    BY <1>1, <2>2
<1>6. t \in Seq(Messages) /\ Len(t) = Len(ds) + 1
      /\ \A i \in 1 .. Len(ds) + 1 : t[i] = Told(new[i])
  <2>1. \A i \in 1 .. Len(ds) + 1 : Told(new[i]) \in Messages
    <3>1. TAKE i \in 1 .. Len(ds) + 1
    <3>2. CASE i = Len(ds) + 1
      BY <1>1, <1>4, <3>2
    <3>3. CASE i # Len(ds) + 1
      <4>1. i \in 1 .. Len(ds)
        BY <1>1, <3>3
      <4>. QED
        BY <1>1, <1>2, <1>3, <4>1
    <3>. QED
      BY <3>2, <3>3
  <2>2. t \in [1 .. Len(ds) + 1 -> Messages] /\ Len(ds) + 1 \in Nat
    BY <1>1, <2>1
  <2>. QED
    BY <1>1, <2>2
<1>. HIDE DEF s, t
<1>7. /\ Append(s, d[1].msg) \in Seq(Messages) /\ Len(Append(s, d[1].msg)) = Len(ds) + 1
      /\ Append(s, d[1].msg)[Len(ds) + 1] = d[1].msg
      /\ \A i \in 1 .. Len(ds) : Append(s, d[1].msg)[i] = s[i]
  BY <1>4, <1>5
<1>8. \A i \in 1 .. Len(ds) + 1 : t[i] = Append(s, d[1].msg)[i]
  <2>1. TAKE i \in 1 .. Len(ds) + 1
  <2>2. CASE i = Len(ds) + 1
    BY <1>1, <1>4, <1>6, <1>7, <2>2
  <2>3. CASE i # Len(ds) + 1
    <3>1. i \in 1 .. Len(ds)
      BY <1>1, <2>3
    <3>. QED
      BY <1>1, <1>5, <1>6, <1>7, <3>1
  <2>. QED
    BY <2>2, <2>3
<1>9. t = Append(s, d[1].msg)
  BY <1>6, <1>7, <1>8, SeqEqual
<1>. QED
  BY <1>9 DEF s, t, new

\* A message of the calm sender, as the service sees it.
LEMMA ServiceMessage ==
  ASSUME MixedInv, calm, NEW m \in started
  PROVE  m \in Service!Messages
BY DEF MixedInv, IInv, TypeOK, CalmInv, OneSender, Messages, Service!Messages

\* Every step of the code in a calm behaviour is one of the service or none.
LEMMA ServiceStep ==
  ASSUME FewLosses, MixedInv, [MixedNext]_<<vars, calm>>
  PROVE  [Service!Next]_Service!vars
<1>. USE DEF Service!vars
<1>1. CASE ~calm \/ UNCHANGED <<vars, calm>>
  <2>1. calm' = calm
    BY <1>1 DEF MixedNext
  <2>2. CASE ~calm
    BY <2>1, <2>2
  <2>3. CASE UNCHANGED <<vars, calm>>
    BY <2>3 DEF vars
  <2>. QED
    BY <1>1, <2>2, <2>3
<1>2. CASE calm /\ MixedNext
  <2>1. /\ calm /\ calm' /\ Next /\ IInv /\ CalmInv /\ Calm \in Senders
        /\ \A m \in started' : m.from = Calm
    BY <1>2 DEF MixedNext, MixedInv, Quiet, FewLosses
  <2>2. MixedInv'
    BY <1>2, MixedStep
  <2>3. ASSUME NEW s \in Senders, Start(s) PROVE Service!Next
    <3>. PICK l \in Lens : started' = started \cup {[from |-> s, num |-> Count(s) + 1, len |-> l]}
      BY <2>3 DEF Start
    <3>. PICK m : m = [from |-> s, num |-> Count(s) + 1, len |-> l]
      OBVIOUS
    <3>1. started' = started \cup {m} /\ m.num = Count(s) + 1
          /\ UNCHANGED <<succeeded, delivered>>
      BY <2>3 DEF Start
    <3>2. m \in started' /\ m.from = s
      BY <3>1
    <3>3. m \in Service!Messages /\ s = Calm
      <4>1. m \in Messages
        BY <2>2, <3>2 DEF MixedInv, IInv, TypeOK
      <4>2. m.from = Calm
        BY <2>1, <3>2
      <4>. QED
        BY <3>2, <4>1, <4>2 DEF Messages, Service!Messages
    <3>4. \A x \in started : x.from = Calm /\ x.num < m.num
      <4>1. Count(Calm) \in Nat
        BY <2>1, CountType DEF IInv
      <4>2. \A x \in started : x.num \in Nat /\ x.num <= Count(Calm) /\ x.from = Calm
        BY <2>1 DEF CalmInv, OneSender, IInv, TypeOK, Messages
      <4>. QED
        BY <3>1, <3>3, <4>1, <4>2
    <3>5. Service!Accept(m)
      BY <2>1, <3>1, <3>4 DEF Service!Accept
    <3>. QED
      BY <3>3, <3>5 DEF Service!Next
  <2>4. ASSUME NEW s \in Senders, SendAcked(s) PROVE [Service!Next]_Service!vars
    <3>1. started' = started /\ delivered' = delivered
          /\ (succeeded' = succeeded \/ succeeded' = succeeded \cup {Fragment(s).msg})
      BY <2>4 DEF SendAcked
    <3>2. CASE succeeded' = succeeded
      BY <2>1, <3>1, <3>2
    <3>3. CASE succeeded' = succeeded \cup {Fragment(s).msg}
      <4>. PICK m : m = Fragment(s).msg
        OBVIOUS
      <4>1. m \in started
        <5>1. Fragment(s).msg = sending[s].msg /\ sending[s].pc # "idle"
          BY <2>4 DEF SendAcked, Fragment
        <5>. QED
          BY <2>1, <5>1 DEF IInv, SomeLeft
      <4>2. m \in Service!Messages
        BY <2>1, <4>1, ServiceMessage
      <4>3. Service!Confirm(m)
        BY <2>1, <3>1, <3>3, <4>1 DEF Service!Confirm
      <4>. QED
        BY <4>2, <4>3 DEF Service!Next
    <3>. QED
      BY <3>1, <3>2, <3>3
  <2>5. CASE ReadLast
    <3>. PICK d : d = Gathered(Head(fifo))
      OBVIOUS
    <3>1. /\ delivered' = Append(delivered, d) /\ UNCHANGED <<started, succeeded>>
          /\ rx.pc # "idle" /\ fifo # <<>>
      BY <2>5 DEF ReadLast
    <3>2. d # <<>> /\ d \in Seq(Fragments) /\ delivered \in Seq(Seq(Fragments))
          /\ delivered' \in Seq(Seq(Fragments))
      BY <2>1, <3>1, ReadPiece DEF IInv, TypeOK
    <3>3. /\ CalmInv' /\ Len(delivered) \in Nat
          /\ DOMAIN delivered' = 1 .. Len(delivered) + 1 /\ DOMAIN delivered = 1 .. Len(delivered)
          /\ delivered'[Len(delivered) + 1] = d
      BY <2>1, <2>2, <3>1, <3>2 DEF MixedInv
    <3>4. IsWhole(d) /\ d[1].msg \in started
      <4>1. Len(delivered) + 1 \in DOMAIN delivered'
        BY <3>3
      <4>. QED
        BY <3>1, <3>3, <4>1 DEF CalmInv, DeliversWhole
    <3>5. \A i \in DOMAIN delivered :
            IsWhole(delivered[i]) /\ delivered[i] # <<>> /\ Num(i) < d[1].msg.num
      <4>1. d[1].msg = fifo[1].msg /\ 1 \in DOMAIN fifo
        BY <2>1, <3>1, ReadPiece DEF IInv, TypeOK
      <4>. QED
        BY <2>1, <4>1 DEF CalmInv, DeliversWhole, IsWhole
    <3>. PICK m : m = d[1].msg
      OBVIOUS
    <3>6. m \in Service!Messages
      BY <2>1, <3>4, ServiceMessage
    <3>. PICK before : before = [i \in DOMAIN delivered |-> Told(delivered[i])]
      OBVIOUS
    <3>7. [i \in DOMAIN delivered' |-> Told(delivered'[i])] = Append(before, m)
      <4>1. [i \in DOMAIN Append(delivered, d) |-> Told(Append(delivered, d)[i])]
              = Append([i \in DOMAIN delivered |-> Told(delivered[i])], d[1].msg)
        BY <3>2, <3>4, <3>5, ToldAppend, Zenon
      <4>. QED
        BY <3>1, <4>1, Zenon
    <3>8. \A i \in DOMAIN before : before[i].num < m.num
      BY <3>5 DEF Told, Num
    <3>9. Service!Receive(m)
      BY <2>1, <3>1, <3>4, <3>7, <3>8 DEF Service!Receive, Told
    <3>. QED
      BY <3>6, <3>9 DEF Service!Next
  <2>6. ASSUME NEW s \in Senders, SendFailed(s) PROVE UNCHANGED Service!vars
    BY <2>1, <2>6 DEF SendFailed
  <2>7. CASE Receive \/ ReadMore \/ GiveUp
    BY <2>1, <2>7 DEF Receive, ReadMore, GiveUp
  <2>. QED
    BY <2>1, <2>3, <2>4, <2>5, <2>6, <2>7 DEF Next
<1>. QED
  BY <1>1, <1>2

\* The fragments implement the service of Datagrams, its liveness aside: for one
\* sender, while no acknowledgement is lost and the receiver waits for what is still
\* being sent, sendtoWait and recvfromAck (FragmentedDatagram.h) pass messages whole,
\* each at most once, in the order they were sent, whatever fragments are lost, if
\* they are fewer than there are ids.
THEOREM DatagramsImplemented == ASSUME FewLosses PROVE MixedSpec => Service!Spec
<1>1. MixedInit => Service!Init
  BY DEF MixedInit, Init, Service!Init
<1>2. MixedInv /\ [MixedNext]_<<vars, calm>> => [Service!Next]_Service!vars
  BY ServiceStep
<1>. QED
  BY <1>1, <1>2, MixedInvariant, PTL DEF MixedSpec, Service!Spec
=============================================================================
