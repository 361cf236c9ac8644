---------------------------- MODULE TimersProofs ----------------------------
(***************************************************************************)
(* Proofs about Timers, for every width of the counter, every number of    *)
(* timeouts and whatever the callbacks set: type correctness, that the     *)
(* compare interrupt finds a head on the list, that the registers and      *)
(* now() tell the truth at every step (RegInv), and how late a callback    *)
(* may start (TimeInv).                                                    *)
(***************************************************************************)
EXTENDS MCTimers, SequenceTheorems, WellFoundedInduction, TLAPS

\* Before the timer is initialised the counter stays between 0 and BootTop and
\* is at neither end in the wrong direction.
BootInv ==
  ~inited => /\ falling => 1 <= TCNT1 /\ TCNT1 <= BootTop
             /\ ~falling => TCNT1 < BootTop

TypeInv == TypeOK /\ BootInv

\* Why the compare interrupt has a head: it is enabled only when update_timeouts
\* saw one, and inside the interrupt, where the list may run empty, "updated"
\* remembers whether that was since the last callback was taken.  An interrupt
\* can only be enabled once the timer is initialised, which is what lets the end
\* of the interrupt disable it.  And now() is run for set_timeout or for the loop of
\* the interrupt, not while registers are still to be written.
ArmedInv ==
  /\ OCIE \/ Updating \/ isr # "none" => inited
  /\ OCIE /\ (isr = "none" \/ updated) => queue # <<>>
  /\ Updating => queue # <<>>
  /\ InNow => ~Updating /\ (call[Active].pc = "now" \/ isr = "loop")
  /\ isr # "callback" => call["isr"].pc = "idle"

IInv == TypeInv /\ ArmedInv

-----------------------------------------------------------------------------
(* Arithmetic and sequences *)

LEMMA WideType == Wide \in Nat \ {0} /\ Wide \div 2 \in Nat
BY SizesAssumption DEF Wide

\* A value reduced to 32 bits is a time.
LEMMA ModWide == \A x \in Int : x % Wide \in Times
BY WideType DEF Times

LEMMA ModLo == \A x \in Int : x % Lo \in 0 .. (Lo - 1)
BY SizesAssumption

LEMMA ModHi == \A x \in Int : x % Hi \in 0 .. (Hi - 1)
BY SizesAssumption

LEMMA ReadType ==
  ASSUME reading \in Readings, reading.at = "read"
  PROVE  /\ reading.lo \in 0 .. (Lo - 1) /\ reading.hi \in 0 .. (Hi - 1)
         /\ reading.slip \in Nat /\ reading.age \in Nat
BY DEF Readings, NoReading

LEMMA NowType ==
  ASSUME reading \in Readings, reading.at = "read"
  PROVE  Now(reading) \in Int
<1>1. \A x \in Int : x % Hi \in Int
  BY SizesAssumption
<1>2. reading.hi \in Int /\ reading.lo \in Int /\ Lo \in Int
  BY ReadType, SizesAssumption
<1>3. \A x, y \in Int : x * y \in Int
  OBVIOUS
<1>. QED
  BY <1>1, <1>2, <1>3 DEF Now

\* A delay is a possible time left.
LEMMA DelayType == \A d \in Delays : d \in Lefts /\ d \in Int
<1>1. Delays \subseteq 0 .. (Wide \div 2 - 1)
  BY DelaysAssumption DEF Wide
<1>2. 0 .. (Wide \div 2 - 1) \subseteq Lefts
  BY WideType, SizesAssumption DEF Lefts
<1>. QED
  BY <1>1, <1>2, WideType

\* So is what remains of it after the end of now().
LEMMA LeftType ==
  ASSUME NEW d \in Delays, NEW t \in Nat
  PROVE  LeftAfter(d, t) \in Lefts
<1>1. d \in Lefts /\ d \in Int /\ MaxLate \in Nat /\ Wide \div 2 \in Nat
  BY DelayType, SizesAssumption, WideType
<1>. QED
  BY <1>1 DEF LeftAfter, Lefts

LEMMA ElapsedType ==
  ASSUME NEW left \in Lefts
  PROVE  Elapsed(left) \in Lefts
BY WideType, SizesAssumption DEF Elapsed, Lefts

\* A non-empty set of numbers has a least one.
LEMMA LeastExists ==
  ASSUME NEW S \in SUBSET Nat, S # {}
  PROVE  \E m \in S : \A n \in S : m <= n
<1>1. PICK m \in S : \A n \in S : ~ (<<n, m>> \in OpToRel(<, Nat))
  BY NatLessThanWellFounded, WFMin
<1>2. \A n \in S : ~ (n < m)
  BY <1>1 DEF OpToRel
<1>. QED
  BY <1>2

\* The position of a new timeout is on the list or just behind it.
LEMMA PositionType ==
  ASSUME TypeOK, NEW when \in Times
  PROVE  Position(when) \in 1 .. (Len(queue) + 1)
<1>. DEFINE later == Later(when)
<1>1. queue \in Seq(Entries)
  BY DEF TypeOK
<1>2. later \in SUBSET Nat /\ \A i \in later : i \in 1 .. Len(queue)
  BY <1>1 DEF Later
<1>3. CASE later = {}
  BY <1>1, <1>3 DEF Position
<1>4. CASE later # {}
  <2>1. \E m \in later : \A n \in later : m <= n
    BY <1>2, <1>4, LeastExists
  <2>2. Position(when) = CHOOSE i \in later : \A j \in later : i <= j
    BY <1>4 DEF Position
  <2>3. Position(when) \in later
    BY <2>1, <2>2
  <2>. QED
    BY <1>1, <1>2, <2>3
<1>. QED
  BY <1>3, <1>4

\* Inserting an entry makes the list one longer.
LEMMA InsertedType ==
  ASSUME TypeOK, NEW p \in 1 .. (Len(queue) + 1), NEW e \in Entries
  PROVE  /\ Inserted(p, e) \in Seq(Entries)
         /\ Len(Inserted(p, e)) = Len(queue) + 1
<1>. DEFINE a == SubSeq(queue, 1, p - 1)
            b == SubSeq(queue, p, Len(queue))
<1>1. queue \in Seq(Entries) /\ Len(queue) \in Nat /\ p \in Nat
  BY DEF TypeOK
<1>2. a \in Seq(Entries) /\ Len(a) = p - 1
  BY <1>1, SubSeqProperties
<1>3. b \in Seq(Entries) /\ Len(b) = Len(queue) - p + 1
  BY <1>1, SubSeqProperties
<1>. HIDE DEF a, b
<1>4. Inserted(p, e) = (a \o <<e>>) \o b
  BY DEF Inserted, a, b
<1>5. a \o <<e>> \in Seq(Entries) /\ Len(a \o <<e>>) = p
  BY <1>1, <1>2
<1>. DEFINE d == a \o <<e>>
<1>6. d \in Seq(Entries) /\ Len(d) = p
  BY <1>5
<1>. HIDE DEF d
<1>7. d \o b \in Seq(Entries) /\ Len(d \o b) = Len(d) + Len(b)
  BY <1>3, <1>6
<1>. QED
  BY <1>1, <1>3, <1>4, <1>6, <1>7 DEF d

-----------------------------------------------------------------------------
(* The parts of the type invariant that many steps share *)

LEMMA CompareForType ==
  ASSUME TypeOK, NEW when \in Times, NEW cycles
  PROVE  CompareFor(when, cycles) \in 0 .. (Lo - 1)
<1>1. when \in Int /\ TCNT1 + MinDelay \in Int
  BY WideType, SizesAssumption DEF Times, TypeOK
<1>. QED
  BY <1>1, ModLo DEF CompareFor

\* update_timeouts leaves registers of their types, enables nothing itself, and
\* has something to write only if there is a head.
LEMMA UpdateTimeoutsEffect ==
  ASSUME TypeOK, NEW q \in Seq(Entries), NEW cycles, UpdateTimeouts(q, cycles)
  PROVE  /\ OCIE' \in BOOLEAN /\ updated' \in BOOLEAN
         /\ upd' \in Updates
         /\ inited => /\ OCIE' = FALSE
                      /\ q = <<>> => upd' = NoUpdate
         /\ ~inited => UNCHANGED <<OCIE, updated, upd>>
<1>1. CASE ~inited
  BY <1>1 DEF UpdateTimeouts, TypeOK
<1>2. CASE inited
  <2>1. /\ OCIE' = FALSE /\ updated' = TRUE
        /\ upd' = IF q = <<>> \/ Periods(q[1].when, cycles) > 0
                  THEN NoUpdate
                  ELSE [at |-> "write",
                        ocra |-> CompareFor(q[1].when, cycles),
                        slip |-> 0]
    BY <1>2 DEF UpdateTimeouts
  <2>2. q # <<>> => CompareFor(q[1].when, cycles) \in 0 .. (Lo - 1)
    <3>. SUFFICES ASSUME q # <<>> PROVE CompareFor(q[1].when, cycles) \in 0 .. (Lo - 1)
      OBVIOUS
    <3>1. q[1] \in Entries
      OBVIOUS
    <3>2. q[1].when \in Times
      BY <3>1 DEF Entries
    <3>. QED
      BY <3>2, CompareForType
  <2>3. upd' \in Updates
    BY <2>1, <2>2 DEF Updates
  <2>. QED
    BY <1>2, <2>1, <2>3
<1>. QED
  BY <1>1, <1>2

\* The entries of the list age, and stay on it.
LEMMA ElapseType ==
  ASSUME TypeOK, NEW t \in {0, 1}, Elapse(t), off' \in Nat
  PROVE  /\ clock' \in Times
         /\ queue' \in Seq(Entries) /\ Len(queue') = Len(queue)
         /\ call' \in [Contexts -> Calls]
<1>1. clock' \in Times
  <2>1. clock + t \in Int
    BY WideType DEF TypeOK, Times
  <2>2. clock' = (clock + t) % Wide
    BY DEF Elapse
  <2>. QED
    BY <2>1, <2>2, ModWide
<1>2. queue' \in Seq(Entries) /\ Len(queue') = Len(queue)
  <2>1. queue \in Seq(Entries)
    BY DEF TypeOK
  <2>2. CASE t = 0
    BY <2>1, <2>2 DEF Elapse
  <2>3. CASE t # 0
    <3>1. queue' = [i \in DOMAIN queue |->
                      [queue[i] EXCEPT !.left = Elapsed(queue[i].left)]]
      BY <2>3 DEF Elapse
    <3>2. \A i \in DOMAIN queue :
            [queue[i] EXCEPT !.left = Elapsed(queue[i].left)] \in Entries
      <4>. SUFFICES ASSUME NEW i \in DOMAIN queue
                    PROVE  [queue[i] EXCEPT !.left = Elapsed(queue[i].left)] \in Entries
        OBVIOUS
      <4>1. queue[i] \in Entries
        BY <2>1
      <4>2. Elapsed(queue[i].left) \in Lefts
        BY <4>1, ElapsedType DEF Entries
      <4>. QED
        BY <4>1, <4>2 DEF Entries
    <3>. QED
      BY <2>1, <3>1, <3>2
  <2>. QED
    BY <2>2, <2>3
<1>3. ASSUME NEW c \in Contexts PROVE Aged(c, t) \in Calls
  <2>. DEFINE f == call[c]
  <2>0. Slipped(c, t) \in Nat
    BY DEF Slipped
  <2>2. f \in Calls
    BY <1>3 DEF TypeOK
  <2>. HIDE DEF f
  <2>3. CASE f = NoCall
    BY <2>3 DEF Aged, f, NoCall, Calls
  <2>4. CASE f \in [pc : {"now"}, cb : Clients, timeout : Delays, slip : Nat]
    <3>1. Aged(c, t) = [f EXCEPT !.slip = @ + Slipped(c, t)]
      BY <2>4 DEF Aged, f
    <3>. QED
      BY <2>0, <2>4, <3>1 DEF Calls
  <2>5. CASE f \in [pc : {"insert"}, cb : Clients, when : Times, left : Lefts,
                    slip : Nat]
    <3>. DEFINE l == IF t = 0 THEN f.left ELSE Elapsed(f.left)
    <3>1. l \in Lefts
      BY <2>5, ElapsedType
    <3>. HIDE DEF l
    <3>2. Aged(c, t) = [f EXCEPT !.slip = f.slip + Slipped(c, t), !.left = l]
      BY <2>5 DEF Aged, f, l
    <3>3. Aged(c, t) = [pc |-> "insert", cb |-> f.cb, when |-> f.when, left |-> l,
                      slip |-> f.slip + Slipped(c, t)]
      BY <2>5, <3>2
    <3>. QED
      BY <2>0, <2>5, <3>1, <3>3 DEF Calls
  <2>. QED
    BY <2>2, <2>3, <2>4, <2>5 DEF Calls
<1>4. call' \in [Contexts -> Calls]
  BY <1>3 DEF Elapse
<1>. QED
  BY <1>1, <1>2, <1>4

\* A call stays where it is.
LEMMA AgedKeeps ==
  ASSUME NEW c \in Contexts, call[c] \in Calls, NEW t
  PROVE  Aged(c, t).pc = call[c].pc
<1>. DEFINE f == call[c]
<1>1. CASE f = NoCall
  BY <1>1 DEF Aged, NoCall
<1>2. CASE f \in [pc : {"now"}, cb : Clients, timeout : Delays, slip : Nat]
  BY <1>2 DEF Aged
<1>3. CASE f \in [pc : {"insert"}, cb : Clients, when : Times, left : Lefts, slip : Nat]
  BY <1>3 DEF Aged
<1>. QED
  BY <1>1, <1>2, <1>3 DEF Calls

\* The counts that a tick keeps, and what it leaves alone.
LEMMA TickBookkeepingType ==
  ASSUME TypeOK, TickBookkeeping
  PROVE  /\ off' \in Nat
         /\ upd' \in Updates /\ (upd'.at # "none" <=> upd.at # "none")
         /\ reading' \in Readings /\ (reading'.at # "none" <=> reading.at # "none")
         /\ UNCHANGED <<OCR1A, OCIE, I, timer_cycles, inited, updated, isr, cuts>>
<1>1. off' \in Nat
  BY DEF TypeOK, TickBookkeeping
<1>4. reading' \in Readings /\ (reading'.at # "none" <=> reading.at # "none")
  <2>1. CASE InNow
    <3>1. reading' = [reading EXCEPT !.slip = @ + 1, !.age = @ + 1]
      BY <2>1 DEF TickBookkeeping
    <3>2. reading \in Readings /\ reading.at # "none"
      BY <2>1 DEF TypeOK, InNow
    <3>3. CASE reading \in [at : {"off"}, slip : Nat, age : Nat]
      <4>1. reading' = [at |-> "off", slip |-> reading.slip + 1, age |-> reading.age + 1]
        BY <3>1, <3>3
      <4>2. reading.slip + 1 \in Nat /\ reading.age + 1 \in Nat
        BY <3>3
      <4>. QED
        BY <3>2, <4>1, <4>2 DEF Readings
    <3>4. CASE reading \in [at : {"read"}, lo : 0 .. (Lo - 1), hi : 0 .. (Hi - 1),
                           slip : Nat, age : Nat]
      <4>1. reading' = [at |-> "read", lo |-> reading.lo, hi |-> reading.hi,
                        slip |-> reading.slip + 1, age |-> reading.age + 1]
        BY <3>1, <3>4
      <4>2. reading.slip + 1 \in Nat /\ reading.age + 1 \in Nat
        BY <3>4
      <4>. QED
        BY <3>2, <3>4, <4>1, <4>2 DEF Readings
    <3>. QED
      BY <3>2, <3>3, <3>4 DEF Readings, NoReading
  <2>2. CASE ~InNow
    BY <2>2 DEF TypeOK, TickBookkeeping
  <2>. QED
    BY <2>1, <2>2
<1>2. CASE Updating
  <2>1. upd' = [upd EXCEPT !.slip = @ + 1]
    BY <1>2 DEF TickBookkeeping
  <2>2. upd \in Updates /\ upd.at # "none"
    BY <1>2 DEF TypeOK, Updating
  <2>. QED
    BY <1>1, <1>4, <2>1, <2>2 DEF Updates, NoUpdate, TickBookkeeping
<1>3. CASE ~Updating
  BY <1>1, <1>3, <1>4 DEF TypeOK, TickBookkeeping
<1>. QED
  BY <1>2, <1>3

\* timer_overflow, wherever it is called from.
LEMMA TimerOverflowEffect ==
  ASSUME IInv, TimerOverflow
  PROVE  /\ {TOV', OCIE', falling', inited', updated'} \subseteq BOOLEAN
         /\ timer_cycles' \in 0 .. (Hi - 1)
         /\ upd' \in Updates
         /\ inited => /\ inited' = TRUE /\ falling' = falling
                      /\ OCIE' = FALSE
                      /\ queue = <<>> => upd' = NoUpdate
         /\ ~inited => /\ inited' = TRUE
                       /\ UNCHANGED <<OCIE, updated, upd>>
<1>1. CASE ~inited
  BY <1>1 DEF TimerOverflow, Reprogram, IInv, TypeInv, TypeOK
<1>2. CASE inited
  <2>1. /\ timer_cycles' = (timer_cycles + 1) % Hi
        /\ UpdateTimeouts(queue, timer_cycles')
        /\ TOV' = FALSE
        /\ UNCHANGED <<inited, falling>>
    BY <1>2 DEF TimerOverflow, CountOverflow
  <2>2. timer_cycles' \in 0 .. (Hi - 1)
    <3>1. timer_cycles + 1 \in Int
      BY SizesAssumption DEF IInv, TypeInv, TypeOK
    <3>. QED
      BY <2>1, <3>1, ModHi
  <2>3. queue \in Seq(Entries) /\ {falling, inited} \subseteq BOOLEAN
    BY DEF IInv, TypeInv, TypeOK
  <2>4. /\ OCIE' \in BOOLEAN /\ updated' \in BOOLEAN
        /\ upd' \in Updates
        /\ OCIE' = FALSE
        /\ queue = <<>> => upd' = NoUpdate
    BY <1>2, <2>1, <2>3, UpdateTimeoutsEffect DEF IInv, TypeInv
  <2>. QED
    BY <1>2, <2>1, <2>2, <2>3, <2>4
<1>. QED
  BY <1>1, <1>2

-----------------------------------------------------------------------------
LEMMA InitInvariant == Init => IInv
<1>. SUFFICES ASSUME Init PROVE IInv
  OBVIOUS
<1>1. TypeOK
  <2>1. 0 \in Times /\ 0 \in 0 .. (Lo - 1) /\ 0 \in 0 .. (Hi - 1)
    BY WideType, SizesAssumption DEF Times
  <2>2. {TOV, OCF, OCIE, I, falling, inited, updated} \subseteq BOOLEAN
    BY SizesAssumption DEF Init
  <2>3. NoCall \in Calls /\ NoUpdate \in Updates /\ NoReading \in Readings
    BY DEF Calls, Updates, Readings
  <2>4. queue \in Seq(Entries) /\ Len(queue) <= MaxTimeouts
    BY SizesAssumption DEF Init
  <2>. QED
    BY <2>1, <2>2, <2>3, <2>4 DEF Init, TypeOK
<1>2. BootInv
  BY SizesAssumption DEF Init, BootInv
<1>3. ArmedInv
  BY DEF Init, ArmedInv, Updating, NoUpdate, InNow, NoReading, NoCall, Contexts
<1>. QED
  BY <1>1, <1>2, <1>3 DEF IInv, TypeInv

\* The steps of the hardware.
LEMMA TicksInvariant ==
  ASSUME IInv, Tick \/ BootTick
  PROVE  IInv'
<1>. USE DEF IInv, TypeInv
<1>1. PICK t \in {0, 1} : Elapse(t)
  BY DEF Tick, BootTick
<1>2. TickBookkeeping
  BY DEF Tick, BootTick
<1>3. /\ off' \in Nat
      /\ upd' \in Updates /\ (upd'.at # "none" <=> upd.at # "none")
      /\ reading' \in Readings /\ (reading'.at # "none" <=> reading.at # "none")
      /\ UNCHANGED <<OCR1A, OCIE, I, timer_cycles, inited, updated, isr, cuts>>
  BY <1>2, TickBookkeepingType
<1>4. /\ clock' \in Times
      /\ queue' \in Seq(Entries) /\ Len(queue') = Len(queue)
      /\ call' \in [Contexts -> Calls]
  BY <1>1, <1>3, ElapseType
<1>5. /\ TCNT1' \in 0 .. (Lo - 1)
      /\ {TOV', OCF', falling'} \subseteq BOOLEAN
      /\ BootInv'
  <2>1. CASE Tick
    <3>1. TCNT1' = (TCNT1 + 1) % Lo /\ TCNT1 + 1 \in Int
      BY <2>1, SizesAssumption DEF Tick, TypeOK
    <3>2. {TOV', OCF', falling'} \subseteq BOOLEAN
      BY <2>1 DEF Tick, TypeOK
    <3>. QED
      BY <1>3, <2>1, <3>1, <3>2, ModLo DEF Tick, BootInv
  <2>2. CASE BootTick
    <3>1. {TOV', OCF', falling'} \subseteq BOOLEAN
      BY <2>2 DEF BootTick, TypeOK
    <3>2. TCNT1 \in 0 .. (Lo - 1) /\ Lo \in Nat /\ BootTop \in 1 .. (Lo - 1)
      BY SizesAssumption DEF TypeOK
    <3>3. ASSUME falling PROVE TCNT1' \in 0 .. (Lo - 1) /\ BootInv'
      <4>1. TCNT1' = TCNT1 - 1 /\ (falling' <=> TCNT1 # 1)
        BY <2>2, <3>3 DEF BootTick
      <4>2. 1 <= TCNT1 /\ TCNT1 <= BootTop
        BY <2>2, <3>3 DEF BootTick, BootInv
      <4>. QED
        BY <3>2, <4>1, <4>2 DEF BootInv
    <3>4. ASSUME ~falling PROVE TCNT1' \in 0 .. (Lo - 1) /\ BootInv'
      <4>1. TCNT1' = TCNT1 + 1 /\ (falling' <=> TCNT1 + 1 = BootTop)
        BY <2>2, <3>4 DEF BootTick
      <4>2. TCNT1 < BootTop
        BY <2>2, <3>4 DEF BootTick, BootInv
      <4>. QED
        BY <3>2, <4>1, <4>2 DEF BootInv
    <3>5. TCNT1' \in 0 .. (Lo - 1) /\ BootInv'
      BY <3>3, <3>4
    <3>. QED
      BY <3>1, <3>5
  <2>. QED
    BY <2>1, <2>2
<1>6. TypeOK'
  BY <1>3, <1>4, <1>5 DEF TypeOK
<1>7. ArmedInv'
  <2>1. queue # <<>> => queue' # <<>>
    BY <1>4 DEF TypeOK
  <2>2. \A c \in Contexts : call'[c].pc = call[c].pc
    <3>1. ASSUME NEW c \in Contexts PROVE call[c] \in Calls /\ call'[c] = Aged(c, t)
      BY <1>1 DEF TypeOK, Elapse
    <3>. QED
      BY <3>1, AgedKeeps
  <2>. QED
    BY <1>3, <2>1, <2>2 DEF ArmedInv, Updating, InNow, Active, Contexts
<1>. QED
  BY <1>5, <1>6, <1>7

\* The steps of set_timeout before it touches the list.
LEMMA SetTimeoutInvariant ==
  ASSUME IInv, \/ \E c \in Clients, d \in Delays : SetTimeout(c, d)
               \/ NowDisable \/ NowRead \/ SetTimeoutNow
  PROVE  IInv'
<1>. USE DEF IInv, TypeInv
<1>1. Active \in Contexts
  BY DEF Active, Contexts
<1>2. ASSUME NEW c \in Clients, NEW d \in Delays, SetTimeout(c, d) PROVE IInv'
  <2>. DEFINE f == [pc |-> "now", cb |-> c, timeout |-> d, slip |-> 0]
  <2>1. f \in Calls
    BY DEF Calls
  <2>2. call' = [call EXCEPT ![Active] = f]
    BY <1>2 DEF SetTimeout
  <2>. HIDE DEF f
  <2>3. TypeOK'
    BY <1>1, <1>2, <2>1, <2>2 DEF SetTimeout, hardware, TypeOK
  <2>4. ~InNow
    BY <1>2 DEF SetTimeout, ArmedInv
  <2>5. isr # "callback" => call'["isr"].pc = "idle"
    BY <1>2, <2>2 DEF SetTimeout, ArmedInv, Active, TypeOK, Contexts
  <2>. QED
    BY <1>2, <2>3, <2>4, <2>5
    DEF SetTimeout, hardware, BootInv, ArmedInv, Updating, InNow
<1>4. ASSUME NowDisable PROVE IInv'
  <2>1. TypeOK'
    BY <1>4 DEF NowDisable, hardware, TypeOK, Readings
  <2>. QED
    BY <1>4, <2>1
    DEF NowDisable, NowDue, hardware, BootInv, ArmedInv, Updating, InNow, Active
<1>5. ASSUME NowRead PROVE IInv'
  <2>1. reading' \in Readings
    <3>1. reading.slip \in Nat
      BY <1>5 DEF NowRead, TypeOK, Readings, NoReading
    <3>2. TCNT1 \in 0 .. (Lo - 1) /\ timer_cycles \in 0 .. (Hi - 1)
      BY DEF TypeOK
    <3>. QED
      BY <1>5, <3>1, <3>2 DEF NowRead, Readings
  <2>2. TypeOK'
    BY <1>5, <2>1 DEF NowRead, hardware, TypeOK
  <2>. QED
    BY <1>5, <2>2 DEF NowRead, hardware, BootInv, ArmedInv, Updating, InNow, Active
<1>3. ASSUME SetTimeoutNow PROVE IInv'
  <2>. DEFINE f == call[Active]
              g == [pc |-> "insert", cb |-> f.cb, slip |-> f.slip,
                    left |-> LeftAfter(f.timeout, reading.age),
                    when |-> (Now(reading) + f.timeout) % Wide]
  <2>1. f \in [pc : {"now"}, cb : Clients, timeout : Delays, slip : Nat]
    BY <1>1, <1>3 DEF SetTimeoutNow, TypeOK, Calls, NoCall
  <2>0. reading \in Readings /\ reading.at = "read" /\ reading' = NoReading
    BY <1>3 DEF SetTimeoutNow, NowReturns, TypeOK
  <2>2. f.timeout \in Int /\ LeftAfter(f.timeout, reading.age) \in Lefts
    BY <2>0, <2>1, DelayType, ReadType, LeftType
  <2>3. (Now(reading) + f.timeout) % Wide \in Times
    BY <2>0, <2>2, NowType, ModWide
  <2>. HIDE DEF f
  <2>4. g \in Calls
    BY <2>1, <2>2, <2>3 DEF Calls
  <2>5. call' = [call EXCEPT ![Active] = g]
    BY <1>3 DEF SetTimeoutNow, f
  <2>. HIDE DEF g
  <2>6. TypeOK'
    BY <1>1, <1>3, <2>0, <2>4, <2>5 DEF SetTimeoutNow, hardware, TypeOK, Readings
  <2>7. ~InNow'
    BY <2>0 DEF InNow, NoReading
  <2>. QED
    BY <1>3, <2>6, <2>7 DEF SetTimeoutNow, hardware, BootInv, ArmedInv, Updating
<1>. QED
  BY <1>2, <1>3, <1>4, <1>5

\* The new timeout enters the list, at its head or behind it.
LEMMA InsertInvariant ==
  ASSUME IInv, SetTimeoutInsert
  PROVE  IInv'
<1>. USE DEF IInv, TypeInv
<1>. DEFINE f == call[Active]
            p == Position(f.when)
            e == [cb |-> f.cb, when |-> f.when, left |-> f.left]
<1>1. Active \in Contexts
  BY DEF Active, Contexts
<1>2. f \in [pc : {"insert"}, cb : Clients, when : Times, left : Lefts, slip : Nat]
  BY <1>1 DEF SetTimeoutInsert, TypeOK, Calls, NoCall
<1>3. p \in 1 .. (Len(queue) + 1)
  BY <1>2, PositionType
<1>4. /\ queue' = Inserted(p, e)
      /\ IF p = 1
         THEN UpdateTimeouts(queue', timer_cycles)
         ELSE UNCHANGED <<OCIE, updated, upd>>
      /\ call' = [call EXCEPT ![Active] = NoCall]
      /\ UNCHANGED <<TCNT1, OCR1A, TOV, OCF, I, falling, timer_cycles, inited, reading,
                     isr, clock, off>>
      /\ Len(queue) < MaxTimeouts /\ ~Updating
      /\ cuts' \in Nat
  BY DEF SetTimeoutInsert, TypeOK
<1>0. ~InNow /\ ~InNow'
  <2>1. isr # "loop"
    BY DEF SetTimeoutInsert, ArmedInv, Active
  <2>. QED
    BY <1>4, <2>1 DEF SetTimeoutInsert, ArmedInv, InNow
<1>13. isr # "callback" => call'["isr"].pc = "idle"
  <2>1. isr # "callback" => Active = "main"
    BY DEF SetTimeoutInsert, ArmedInv, Active
  <2>. QED
    BY <1>4, <2>1 DEF ArmedInv, TypeOK, Contexts
<1>5. e \in Entries
  BY <1>2 DEF Entries
<1>. HIDE DEF f, p, e
<1>6. queue' \in Seq(Entries) /\ Len(queue') = Len(queue) + 1
  BY <1>3, <1>4, <1>5, InsertedType
<1>7. /\ queue' # <<>>
      /\ Len(queue') <= MaxTimeouts
  <2>1. Len(queue) \in Nat
    BY DEF TypeOK
  <2>. QED
    BY <1>4, <1>6, <2>1, SizesAssumption
<1>8. /\ {OCIE', updated'} \subseteq BOOLEAN
      /\ upd' \in Updates
      /\ ~inited => UNCHANGED <<OCIE, updated, upd>>
  <2>1. CASE p = 1
    BY <1>4, <1>6, <2>1, UpdateTimeoutsEffect DEF TypeOK
  <2>2. CASE p # 1
    BY <1>4, <2>2 DEF TypeOK
  <2>. QED
    BY <2>1, <2>2
<1>9. call' \in [Contexts -> Calls]
  BY <1>4 DEF TypeOK, Calls
<1>10. TypeOK'
  BY <1>4, <1>6, <1>7, <1>8, <1>9 DEF TypeOK
<1>11. BootInv'
  BY <1>4 DEF BootInv
<1>12. ArmedInv'
  BY <1>0, <1>4, <1>7, <1>8, <1>13 DEF ArmedInv, Updating
<1>. QED
  BY <1>10, <1>11, <1>12

\* The register writes at the end of update_timeouts.
LEMMA WritesInvariant ==
  ASSUME IInv, WriteCompare \/ EnableCompare
  PROVE  IInv'
<1>. USE DEF IInv, TypeInv
<1>1. CASE WriteCompare
  <2>1. upd \in [at : {"write"}, ocra : 0 .. (Lo - 1), slip : Nat]
    BY <1>1 DEF WriteCompare, TypeOK, Updates, NoUpdate
  <2>2. upd' = [at |-> "enable", slip |-> upd.slip] /\ OCR1A' = upd.ocra
    BY <1>1 DEF WriteCompare
  <2>3. upd' \in Updates /\ OCR1A' \in 0 .. (Lo - 1)
    BY <2>1, <2>2 DEF Updates
  <2>4. TypeOK'
    BY <1>1, <2>3 DEF WriteCompare, TypeOK
  <2>5. ArmedInv'
    BY <1>1, <2>2 DEF WriteCompare, ArmedInv, Updating, InNow, Active
  <2>. QED
    BY <1>1, <2>4, <2>5 DEF WriteCompare, BootInv
<1>2. CASE EnableCompare
  <2>1. TypeOK'
    BY <1>2 DEF EnableCompare, ClearMatch, TypeOK, Updates
  <2>2. ArmedInv'
    BY <1>2 DEF EnableCompare, ArmedInv, Updating, NoUpdate, InNow, Active
  <2>. QED
    BY <1>2, <2>1, <2>2 DEF EnableCompare, BootInv
<1>. QED
  BY <1>1, <1>2

\* An overflow, in its interrupt or found pending by now().
LEMMA OverflowInvariant ==
  ASSUME IInv, NowOverflow \/ OverflowInterrupt
  PROVE  IInv'
<1>. USE DEF IInv, TypeInv
<1>1. /\ TimerOverflow /\ ~Updating
      /\ UNCHANGED <<TCNT1, OCR1A, OCF, I, queue, call, reading, isr, clock, off, cuts>>
      /\ ~InNow
  BY DEF NowOverflow, NowDue, OverflowInterrupt, InterruptsOn
<1>2. /\ {TOV', OCIE', falling', inited', updated'} \subseteq BOOLEAN
      /\ timer_cycles' \in 0 .. (Hi - 1)
      /\ upd' \in Updates
      /\ inited' = TRUE
      /\ inited => OCIE' = FALSE /\ (queue = <<>> => upd' = NoUpdate)
      /\ ~inited => UNCHANGED <<OCIE, updated, upd>>
  BY <1>1, TimerOverflowEffect DEF TypeOK
<1>3. TypeOK'
  BY <1>1, <1>2 DEF TypeOK
<1>4. BootInv'
  BY <1>2 DEF BootInv
<1>5. ArmedInv'
  BY <1>1, <1>2 DEF ArmedInv, Updating, NoUpdate, InNow
<1>. QED
  BY <1>3, <1>4, <1>5

\* The steps of the compare interrupt.
LEMMA CompareInvariant ==
  ASSUME IInv, \/ CompareInterrupt \/ CallbackReturns \/ LoopAgain \/ LoopExit
  PROVE  IInv'
<1>. USE DEF IInv, TypeInv
<1>1. CASE CompareInterrupt \/ LoopAgain
  <2>1. queue # <<>>
    BY <1>1 DEF CompareInterrupt, LoopAgain, InterruptsOn, ArmedInv, HeadPast
  <2>2. /\ queue \in Seq(Entries) /\ Len(queue) <= MaxTimeouts
    BY DEF TypeOK
  <2>3. queue' \in Seq(Entries) /\ Len(queue') <= MaxTimeouts
    <3>1. queue' = Tail(queue)
      BY <1>1 DEF CompareInterrupt, LoopAgain, RunHead
    <3>2. Tail(queue) \in Seq(Entries) /\ Len(Tail(queue)) = Len(queue) - 1
      BY <2>1, <2>2
    <3>. QED
      BY <2>2, <3>1, <3>2, SizesAssumption
  <2>4. CASE CompareInterrupt
    <3>0. cuts' \in Nat
      BY <2>4 DEF CompareInterrupt, TypeOK
    <3>1. TypeOK'
      BY <2>3, <2>4, <3>0 DEF CompareInterrupt, RunHead, TypeOK
    <3>2. ArmedInv'
      BY <2>4 DEF CompareInterrupt, RunHead, InterruptsOn, ArmedInv, Updating, InNow
    <3>. QED
      BY <2>4, <3>1, <3>2 DEF CompareInterrupt, BootInv
  <2>5. CASE LoopAgain
    <3>1. TypeOK'
      BY <2>3, <2>5 DEF LoopAgain, NowReturns, RunHead, hardware, TypeOK, Readings
    <3>2. ArmedInv'
      BY <2>5
      DEF LoopAgain, RunHead, NowReturns, hardware, ArmedInv, Updating, InNow, NoReading
    <3>. QED
      BY <2>5, <3>1, <3>2 DEF LoopAgain, hardware, BootInv
  <2>. QED
    BY <1>1, <2>4, <2>5
<1>2. CASE CallbackReturns
  <2>1. TypeOK'
    BY <1>2 DEF CallbackReturns, hardware, TypeOK
  <2>2. ~InNow
    BY <1>2 DEF CallbackReturns, ArmedInv, Active
  <2>. QED
    BY <1>2, <2>1, <2>2 DEF CallbackReturns, hardware, BootInv, ArmedInv, Updating, InNow
<1>3. CASE LoopExit
  <2>1. /\ isr = "loop" /\ ~Updating /\ inited
        /\ isr' = "none" /\ off' = 0 /\ Rearm /\ reading' = NoReading
        /\ UNCHANGED <<TCNT1, OCR1A, TOV, OCF, I, falling, timer_cycles, inited,
                       queue, call, clock, cuts>>
    BY <1>3 DEF LoopExit, NowReturns, ArmedInv, InNow
  <2>2. /\ {OCIE', updated'} \subseteq BOOLEAN
        /\ upd' \in Updates
        /\ updated => UNCHANGED <<OCIE, upd>>
        /\ ~updated => OCIE' = FALSE /\ (queue = <<>> => upd' = NoUpdate)
    <3>1. CASE updated
      BY <2>1, <3>1 DEF Rearm, TypeOK
    <3>2. CASE ~updated
      <4>1. UpdateTimeouts(queue, timer_cycles) /\ queue \in Seq(Entries)
        BY <2>1, <3>2 DEF Rearm, TypeOK
      <4>. QED
        BY <2>1, <3>2, <4>1, UpdateTimeoutsEffect
    <3>. QED
      BY <3>1, <3>2
  <2>3. TypeOK'
    BY <2>1, <2>2 DEF TypeOK, Readings
  <2>4. ArmedInv'
    BY <2>1, <2>2 DEF ArmedInv, Updating, NoUpdate, InNow, NoReading
  <2>. QED
    BY <2>1, <2>3, <2>4 DEF BootInv
<1>. QED
  BY <1>1, <1>2, <1>3

LEMMA NextInvariant == IInv /\ [Next]_vars => IInv'
<1>. SUFFICES ASSUME IInv, [Next]_vars PROVE IInv'
  OBVIOUS
<1>1. CASE Cli \/ Sei
  <2>1. /\ I' \in BOOLEAN /\ off' = 0
        /\ UNCHANGED <<TCNT1, OCR1A, TOV, OCF, OCIE, falling, timer_cycles, inited,
                       updated, queue, call, reading, isr, upd, clock, cuts>>
    BY <1>1 DEF Cli, Sei
  <2>2. TypeOK'
    BY <2>1 DEF IInv, TypeInv, TypeOK
  <2>. QED
    BY <2>1, <2>2 DEF IInv, TypeInv, BootInv, ArmedInv, Updating, InNow, Active
<1>2. CASE UNCHANGED vars
  <2>1. TypeOK'
    BY <1>2 DEF vars, hardware, IInv, TypeInv, TypeOK
  <2>. QED
    BY <1>2, <2>1
    DEF vars, hardware, IInv, TypeInv, BootInv, ArmedInv, Updating, InNow, Active
<1>. QED
  BY <1>1, <1>2, TicksInvariant, SetTimeoutInvariant, InsertInvariant,
     WritesInvariant, OverflowInvariant, CompareInvariant DEF Next, Code

\* The inductive invariant holds in every state.
LEMMA Invariant == Spec => []IInv
BY InitInvariant, NextInvariant, PTL DEF Spec

-----------------------------------------------------------------------------
\* Type correctness: the registers keep their widths, the list never outgrows
\* timeouts[], and a counter that is still turned around at BootTop stays below.
THEOREM TypeCorrect == Spec => []TypeOK
BY Invariant, PTL DEF IInv, TypeInv

\* When the compare interrupt is enabled and can be taken, the list has a head
\* for it: timeouts[0xff] is never run (Timers.cpp:231).
THEOREM CompareHasHead == Spec => []ArmedHasHead
<1>1. IInv => ArmedHasHead
  BY DEF IInv, ArmedInv, ArmedHasHead
<1>. QED
  BY <1>1, Invariant, PTL

-----------------------------------------------------------------------------
(* Division by the widths of the counter *)

\* A product grows by a factor when the other grows by one.
LEMMA ProductGrows ==
  ASSUME NEW b \in Nat, NEW k \in Int, NEW m \in Int, k + 1 <= m
  PROVE  b * k + b <= b * m /\ b * k \in Int /\ b * m \in Int
<1>1. PICK j \in Nat : m = k + 1 + j
  <2>1. m - k - 1 \in Nat /\ m = k + 1 + (m - k - 1)
    OBVIOUS
  <2>. QED
    BY <2>1
<1>2. b * m = b * k + b + b * j /\ b * j \in Nat /\ b * k \in Int
  BY <1>1
<1>. QED
  BY <1>2

LEMMA Products ==
  ASSUME NEW a \in Int, NEW x \in Int, NEW y \in Int
  PROVE  /\ a * x \in Int /\ a * x = x * a
         /\ a * (x + y) = a * x + a * y /\ a * (x - y) = a * x - a * y
         /\ a * (x * y) = (a * x) * y
OBVIOUS

\* Quotient and remainder, named: what divisor and remainder say of each other is
\* only seen of variables.
LEMMA Division ==
  ASSUME NEW b \in Nat \ {0}, NEW x \in Int
  PROVE  \E d \in Int, m \in 0 .. (b - 1) : d = x \div b /\ m = x % b /\ x = b * d + m
<1>. DEFINE d == x \div b
            m == x % b
<1>1. d \in Int /\ m \in 0 .. (b - 1) /\ m \in Int
  OBVIOUS
<1>2. \A i, j \in Int : i = x \div b /\ j = x % b => x = b * i + j
  BY Z3
<1>3. d = x \div b /\ m = x % b
  OBVIOUS
<1>. HIDE DEF d, m
<1>4. x = b * d + m
  BY <1>1, <1>2, <1>3, Z3
<1>. QED
  BY <1>1, <1>3, <1>4

LEMMA DivisionUnique ==
  ASSUME NEW b \in Nat \ {0}, NEW q \in Int, NEW r \in 0 .. (b - 1)
  PROVE  (b * q + r) \div b = q /\ (b * q + r) % b = r
<1>. DEFINE x == b * q + r
<1>1. x \in Int /\ b * q \in Int
  OBVIOUS
<1>2. PICK d \in Int, m \in 0 .. (b - 1) : d = x \div b /\ m = x % b /\ x = b * d + m
  BY <1>1, Division
<1>3. b * q + r = b * d + m
  BY <1>2
<1>4. ~(q + 1 <= d)
  <2>. SUFFICES ASSUME q + 1 <= d PROVE FALSE
    OBVIOUS
  <2>1. b * q + b <= b * d /\ b * d \in Int
    BY <1>2, ProductGrows
  <2>. QED
    BY <1>1, <1>2, <1>3, <2>1
<1>5. ~(d + 1 <= q)
  <2>. SUFFICES ASSUME d + 1 <= q PROVE FALSE
    OBVIOUS
  <2>1. b * d + b <= b * q /\ b * d \in Int
    BY <1>2, ProductGrows
  <2>. QED
    BY <1>1, <1>2, <1>3, <2>1
<1>6. d = q
  BY <1>2, <1>4, <1>5
<1>7. m = r
  BY <1>1, <1>2, <1>3, <1>6
<1>. QED
  BY <1>2, <1>6, <1>7

\* Whole periods do not count modulo the period.
LEMMA ModPeriods ==
  ASSUME NEW b \in Nat \ {0}, NEW x \in Int, NEW k \in Int
  PROVE  (x + b * k) % b = x % b
<1>1. PICK d \in Int, m \in 0 .. (b - 1) : d = x \div b /\ m = x % b /\ x = b * d + m
  BY Division
<1>2. x + b * k = b * (d + k) + m /\ d + k \in Int
  BY <1>1, Products
<1>3. (b * (d + k) + m) % b = m
  BY <1>1, <1>2, DivisionUnique, Zenon
<1>. QED
  BY <1>1, <1>2, <1>3

LEMMA ModSmall ==
  ASSUME NEW b \in Nat \ {0}, NEW x \in 0 .. (b - 1)
  PROVE  x % b = x
<1>1. PICK d \in Int, m \in 0 .. (b - 1) : d = x \div b /\ m = x % b /\ x = b * d + m
  BY Division
<1>2. ~(0 + 1 <= d)
  <2>. SUFFICES ASSUME 0 + 1 <= d PROVE FALSE
    OBVIOUS
  <2>1. b * 0 + b <= b * d
    BY <1>1, ProductGrows
  <2>. QED
    BY <1>1, <2>1, Products
<1>3. ~(d + 1 <= 0)
  <2>. SUFFICES ASSUME d + 1 <= 0 PROVE FALSE
    OBVIOUS
  <2>1. b * d + b <= b * 0
    BY <1>1, ProductGrows
  <2>. QED
    BY <1>1, <2>1, Products
<1>4. d = 0
  BY <1>1, <1>2, <1>3
<1>. QED
  BY <1>1, <1>4

\* Reducing before adding is the same.
LEMMA ModAdd ==
  ASSUME NEW b \in Nat \ {0}, NEW x \in Int, NEW y \in Int
  PROVE  ((x % b) + y) % b = (x + y) % b
<1>1. PICK d \in Int, m \in 0 .. (b - 1) : d = x \div b /\ m = x % b /\ x = b * d + m
  BY Division
<1>2. m + y \in Int /\ (m + y) + b * d = x + y
  BY <1>1
<1>3. ((m + y) + b * d) % b = (m + y) % b
  BY <1>1, <1>2, ModPeriods
<1>. QED
  BY <1>1, <1>2, <1>3

LEMMA WideProduct ==
  /\ Lo \in Nat \ {0} /\ Hi \in Nat \ {0} /\ Wide = Lo * Hi /\ Wide \in Nat \ {0}
  /\ Wide \div 2 \in Nat /\ Hi \div 2 \in Nat /\ Lo \div 2 \in Nat
  /\ Hi = 2 * (Hi \div 2) /\ Lo = 2 * (Lo \div 2)
  /\ Wide \div 2 = Lo * (Hi \div 2)
<1>1. Lo \in Nat \ {0} /\ Hi \in Nat \ {0} /\ Wide = Lo * Hi /\ Wide \in Nat \ {0}
  BY SizesAssumption DEF Wide
<1>2. PICK h \in Int, r \in 0 .. 1 : h = Hi \div 2 /\ r = Hi % 2 /\ Hi = 2 * h + r
  BY <1>1, Division
<1>3. PICK l \in Int, s \in 0 .. 1 : l = Lo \div 2 /\ s = Lo % 2 /\ Lo = 2 * l + s
  BY <1>1, Division
<1>4. r = 0 /\ s = 0 /\ h \in Nat /\ l \in Nat
  BY <1>1, <1>2, <1>3, SizesAssumption
<1>5. Lo * Hi = 2 * (Lo * h) + 0
  BY <1>1, <1>2, <1>4
<1>6. Lo * h \in Nat
  BY <1>1, <1>4
<1>7. (2 * (Lo * h) + 0) \div 2 = Lo * h
  BY <1>6, DivisionUnique
<1>. QED
  BY <1>1, <1>2, <1>3, <1>4, <1>5, <1>6, <1>7

\* A time of the counter and its extension, a few ticks later.
LEMMA LaterTime ==
  ASSUME NEW c \in Int, NEW n \in Nat, NEW k \in Nat, NEW t \in 0 .. (Lo - 1),
         NEW w, w = ((c % Hi) * Lo + n) % Wide, n = Lo * k + t
  PROVE  w % Lo = t /\ w \div Lo = (c + k) % Hi
<1>0. Lo \in Nat \ {0} /\ Lo \in Int /\ Hi \in Int /\ Wide = Lo * Hi /\ Wide \in Nat \ {0}
  BY WideProduct
<1>1. PICK d \in Int, m \in 0 .. (Hi - 1) : d = c \div Hi /\ m = c % Hi /\ c = Hi * d + m
  BY WideProduct, Division
<1>2. PICK e \in Int, p \in 0 .. (Hi - 1) :
        e = (c + k) \div Hi /\ p = (c + k) % Hi /\ c + k = Hi * e + p
  BY WideProduct, Division
<1>3. m * Lo + n = Lo * (m + k) + t
  BY <1>1, WideProduct
<1>4. m + k = Hi * (e - d) + p
  <2>1. e \in Int /\ d \in Int /\ Hi \in Int
    BY <1>0
  <2>2. Hi * (e - d) = Hi * e - Hi * d
    BY <2>1, Products
  <2>3. Hi * e \in Int /\ Hi * d \in Int
    BY <2>1, Products
  <2>. QED
    BY <1>1, <1>2, <2>2, <2>3
<1>5. Lo * (m + k) + t = (Lo * p + t) + Wide * (e - d)
  <2>1. Lo * (m + k) = Lo * (Hi * (e - d)) + Lo * p
    <3>1. e - d \in Int /\ p \in Int
      BY <1>1, <1>2
    <3>2. Hi * (e - d) \in Int
      BY <3>1, <1>0, Products
    <3>. QED
      BY <1>4, <3>1, <3>2, <1>0, Products
  <2>2. Lo * (Hi * (e - d)) = Wide * (e - d)
    BY <1>2, <1>1, <1>0, Products
  <2>. QED
    BY <2>1, <2>2, <1>1, <1>2, WideProduct
<1>6. Lo * p + t \in 0 .. (Wide - 1)
  <2>1. Lo * p + Lo <= Lo * Hi
    BY <1>2, WideProduct, ProductGrows
  <2>2. Lo * p \in Nat
    BY <1>2, WideProduct
  <2>. QED
    BY <2>1, <2>2, WideProduct
<1>7. w = Lo * p + t
  <2>1. (Lo * p + t) % Wide = Lo * p + t
    BY <1>6, ModSmall, WideProduct
  <2>2. ((Lo * p + t) + Wide * (e - d)) % Wide = (Lo * p + t) % Wide
    <3>1. e - d \in Int /\ Lo * p + t \in Int
      BY <1>1, <1>2, <1>6, <1>0
    <3>. QED
      BY <3>1, <1>0, ModPeriods, Zenon
  <2>. QED
    BY <1>1, <1>3, <1>5, <2>1, <2>2
<1>8. (Lo * p + t) \div Lo = p /\ (Lo * p + t) % Lo = t
  <2>1. p \in Int
    BY <1>2
  <2>. QED
    BY <2>1, <1>0, DivisionUnique, Zenon
<1>. QED
  BY <1>2, <1>7, <1>8

\* Of the same time, Periods tells the overflows to come, while they are few.
LEMMA PeriodsCount ==
  ASSUME NEW cycles \in Int, NEW when, NEW n \in Nat, n < Hi \div 2,
         when \div Lo = (cycles + n) % Hi
  PROVE  Periods(when, cycles) = n
<1>1. /\ (cycles + n) + (-cycles) = n /\ cycles + n \in Int /\ -cycles \in Int
      /\ n \in 0 .. (Hi - 1) /\ ~(n >= Hi \div 2)
  BY WideProduct
<1>2. (((cycles + n) % Hi) + (-cycles)) % Hi = ((cycles + n) + (-cycles)) % Hi
  BY <1>1, ModAdd, WideProduct, Zenon
<1>3. n % Hi = n
  BY <1>1, ModSmall, WideProduct, Zenon
<1>4. (when \div Lo - cycles) % Hi = n
  <2>1. (cycles + n) % Hi \in Int
    BY <1>1, WideProduct
  <2>2. ((cycles + n) % Hi) + (-cycles) = ((cycles + n) % Hi) - cycles
    BY <2>1
  <2>. QED
    BY <1>1, <1>2, <1>3, <2>2
<1>. QED
  BY <1>1, <1>4 DEF Periods

-----------------------------------------------------------------------------
(* What the registers tell *)

\* No flow keeps the timer waiting for half a period of the counter, and the
\* registers are written within MIN_DELAY (Timers.cpp:258-263).
Prompt == 2 * MaxOff + 3 * MaxSlip < Lo /\ 4 * MaxSlip < Lo /\ MaxSlip <= MinDelay

\* A delay ends more than a period before it would count as past.
Near == \A d \in Delays : d + Lo + 2 * MaxSlip < Wide \div 2

Overflows == IF TOV THEN 1 ELSE 0

\* Real time is what the counter, its flag and timer_cycles say together.
ClockInv == inited /\ clock = ((timer_cycles + Overflows) % Hi) * Lo + TCNT1

\* Nothing takes longer than it may.
PaceInv ==
  /\ off <= MaxOff
  /\ Updating => upd.slip <= MaxSlip /\ ~OCIE
  /\ InNow => reading.slip <= MaxSlip
  /\ isr # "none" => I
  /\ \A c \in Contexts : call[c].pc # "idle" => call[c].slip <= MaxSlip
  /\ isr # "callback" => call["isr"].pc = "idle"

\* How long ago an overflow can have been that is still pending.
FreshInv ==
  TOV =>
    /\ isr # "none" => TCNT1 <= MaxOff + 3 * MaxSlip + off
    /\ isr = "none" /\ ~I => TCNT1 <= off
    /\ InNow /\ (isr # "none" \/ ~I) => TCNT1 <= reading.slip
    /\ isr = "none" /\ I =>
         /\ Updating => TCNT1 <= 2 * MaxSlip + upd.slip
         /\ TCNT1 <= MaxOff \/ TCNT1 <= 3 * MaxSlip
         /\ call["main"].pc = "now" => TCNT1 <= MaxSlip + call["main"].slip
    /\ call[Active].pc = "insert" => TCNT1 <= MaxSlip + call[Active].slip

\* What now() has read: no overflow since, and the one that was pending then, if
\* any, fell before a low count; or one since, after a high count.
ReadInv ==
  reading.at = "read" =>
    /\ reading.hi = timer_cycles /\ reading.age <= reading.slip
    /\ \/ reading.lo + reading.age = TCNT1 /\ (TOV => reading.lo < Lo \div 2)
       \/ reading.lo + reading.age = TCNT1 + Lo /\ TOV

\* What is not due yet is due when the clock says so.
Ahead(e) ==
  /\ e.left > 0 => e.when = (clock + e.left) % Wide
  /\ e.left + Lo + 2 * MaxSlip < Wide \div 2

AheadInv ==
  /\ \A i \in DOMAIN queue : Ahead(queue[i])
  /\ \A c \in Contexts : call[c].pc = "insert" => Ahead(call[c])

\* The ticks in which the counter goes from t to o.
Between(t, o) == IF t <= o THEN o - t ELSE o - t + Lo
Distance(o) == Between(TCNT1, o)

\* A match with o is not before the head is due.
NotEarly(o) == queue[1].left <= 0 \/ queue[1].left <= Distance(o)

DueInv ==
  /\ upd.at = "write" => NotEarly(upd.ocra)
  /\ upd.at = "enable" => NotEarly(OCR1A)
  /\ OCIE /\ (isr = "none" \/ updated) =>
       NotEarly(OCR1A) /\ (OCF => queue[1].left <= 0)

\* The head is due in this period or before.
HeadDue ==
  queue # <<>> /\ ~TOV /\ Periods(queue[1].when, timer_cycles) <= 0

\* The counter comes to o, not much later than the head's time or MIN_DELAY.
Coming(o) ==
  Distance(o) <= MinDelay \/ (o = queue[1].when % Lo /\ TCNT1 <= o)

\* The same, before the registers are written.
WillCome(o) ==
  \/ Distance(o) = MinDelay - upd.slip
  \/ o = queue[1].when % Lo /\ TCNT1 + MinDelay <= o + upd.slip

MatchInv ==
  HeadDue =>
    /\ upd.at = "write" => WillCome(upd.ocra)
    /\ upd.at = "enable" => WillCome(OCR1A)
    /\ ~Updating /\ (isr = "none" \/ updated) => OCIE /\ (OCF \/ Coming(OCR1A))

RegInv == ClockInv /\ PaceInv /\ FreshInv /\ ReadInv /\ AheadInv /\ DueInv /\ MatchInv

LEMMA ProductOrder ==
  ASSUME NEW b \in Nat, NEW k \in Int, NEW m \in Int, k <= m
  PROVE  b * k <= b * m
<1>1. CASE k = m
  BY <1>1
<1>2. CASE k + 1 <= m
  <2>1. b * k + b <= b * m /\ b * k \in Int /\ b * m \in Int
    BY <1>2, ProductGrows
  <2>. QED
    BY <2>1
<1>. QED
  BY <1>1, <1>2

\* What the code makes of the time of an entry that is not due: with v overflows
\* pending and c counted it is so many periods away, and its low part is the value
\* the counter will have.
LEMMA HeadPeriods ==
  ASSUME TCNT1 \in 0 .. (Lo - 1), NEW c \in 0 .. (Hi - 1), NEW v \in {0, 1},
         clock = ((c + v) % Hi) * Lo + TCNT1, v = 1 => TCNT1 <= 2 * MaxSlip,
         NEW e, e.left \in Nat, e.left > 0, Ahead(e)
  PROVE  \E k \in Nat, r \in 0 .. (Lo - 1) :
           /\ TCNT1 + e.left = Lo * k + r
           /\ e.when % Lo = r /\ Periods(e.when, c) = k + v
<1>. DEFINE t == TCNT1
            l == e.left
            when == e.when
<1>a. l + Lo + 2 * MaxSlip < Wide \div 2
  BY DEF Ahead
<1>b. when = (((c + v) % Hi) * Lo + (t + l)) % Wide
  <2>1. when = (clock + l) % Wide
    BY DEF Ahead
  <2>2. ((c + v) % Hi) * Lo \in Int
    BY WideProduct
  <2>3. clock + l = ((c + v) % Hi) * Lo + (t + l)
    BY <2>2, WideProduct
  <2>. QED
    BY <2>1, <2>3
<1>c. t \in 0 .. (Lo - 1) /\ l \in Nat /\ (v = 1 => t <= 2 * MaxSlip)
  OBVIOUS
<1>d. ASSUME \E k \in Nat, r \in 0 .. (Lo - 1) :
               t + l = Lo * k + r /\ when % Lo = r /\ Periods(when, c) = k + v
      PROVE  \E k \in Nat, r \in 0 .. (Lo - 1) :
               /\ TCNT1 + e.left = Lo * k + r
               /\ e.when % Lo = r /\ Periods(e.when, c) = k + v
  BY <1>d
<1>. HIDE DEF t, l, when
<1>0. /\ Lo \in Nat \ {0} /\ Lo \in Int /\ MaxSlip \in Nat /\ Wide \div 2 \in Nat
      /\ Hi \div 2 \in Nat /\ Wide \div 2 = Lo * (Hi \div 2)
  BY WideProduct, SizesAssumption
<1>1. t + l \in Nat /\ t + l \in Int
  BY <1>0, <1>c
<1>2. PICK k \in Int, r \in 0 .. (Lo - 1) :
        k = (t + l) \div Lo /\ r = (t + l) % Lo /\ t + l = Lo * k + r
  BY <1>0, <1>1, Division
<1>3. k \in Nat
  <2>. SUFFICES ASSUME k + 1 <= 0 PROVE FALSE
    BY <1>2
  <2>1. Lo * k + Lo <= Lo * 0 /\ Lo * k \in Int
    BY <1>0, ProductGrows
  <2>. QED
    BY <1>0, <1>1, <1>2, <2>1
<1>4. k + v < Hi \div 2
  <2>. SUFFICES ASSUME Hi \div 2 <= k + v PROVE FALSE
    BY <1>0, <1>2
  <2>1. Lo * (Hi \div 2) <= Lo * (k + v)
    BY <1>0, <1>2, ProductOrder
  <2>2. Lo * k \in Int /\ Lo * v \in Int /\ Lo * (k + v) = Lo * k + Lo * v
    <3>1. k \in Int /\ v \in Int
      BY <1>2
    <3>. QED
      BY <1>0, <3>1, Products
  <2>3. CASE v = 0
    BY <1>0, <1>a, <1>c, <1>2, <2>1, <2>2, <2>3
  <2>4. CASE v = 1
    BY <1>0, <1>a, <1>c, <1>2, <2>1, <2>2, <2>4
  <2>. QED
    BY <2>3, <2>4
<1>5. when % Lo = r /\ when \div Lo = ((c + v) + k) % Hi
  <2>1. c + v \in Int /\ t + l \in Nat
    BY <1>1, WideProduct
  <2>. QED
    BY <1>b, <1>2, <1>3, <2>1, LaterTime
<1>6. Periods(when, c) = k + v
  <2>1. (c + v) + k = c + (k + v) /\ c \in Int /\ k + v \in Nat
    BY <1>3, WideProduct
  <2>. QED
    BY <1>4, <1>5, <2>1, PeriodsCount
<1>. QED
  BY <1>d, <1>2, <1>3, <1>5, <1>6

\* MIN_DELAY ahead of the counter it takes MIN_DELAY ticks to get there.
LEMMA MinDelayAhead ==
  ASSUME TCNT1 \in 0 .. (Lo - 1)
  PROVE  /\ (TCNT1 + MinDelay) % Lo \in 0 .. (Lo - 1)
         /\ Distance((TCNT1 + MinDelay) % Lo) = MinDelay
<1>0. Lo \in Nat \ {0} /\ MinDelay \in 1 .. (Lo - 1)
  BY SizesAssumption
<1>1. CASE TCNT1 + MinDelay < Lo
  <2>1. TCNT1 + MinDelay \in 0 .. (Lo - 1)
    BY <1>0, <1>1
  <2>2. (TCNT1 + MinDelay) % Lo = TCNT1 + MinDelay
    BY <1>0, <2>1, ModSmall
  <2>. QED
    BY <1>0, <2>1, <2>2 DEF Distance, Between
<1>2. CASE Lo <= TCNT1 + MinDelay
  <2>. DEFINE x == TCNT1 + MinDelay - Lo
  <2>1. x \in 0 .. (Lo - 1) /\ x \in Int
    BY <1>0, <1>2
  <2>2. x + Lo * 1 = TCNT1 + MinDelay /\ x < TCNT1 /\ x - TCNT1 + Lo = MinDelay
    BY <1>0, <1>2
  <2>. HIDE DEF x
  <2>3. (x + Lo * 1) % Lo = x % Lo
    <3>1. 1 \in Int
      OBVIOUS
    <3>. QED
      BY <1>0, <2>1, <3>1, ModPeriods, Zenon
  <2>4. x % Lo = x
    BY <1>0, <2>1, ModSmall
  <2>5. (TCNT1 + MinDelay) % Lo = x
    BY <2>2, <2>3, <2>4
  <2>. QED
    BY <1>0, <2>1, <2>2, <2>5 DEF Distance, Between
<1>. QED
  BY <1>0, <1>1, <1>2

\* update_timeouts, called with list q and c overflows counted (v = 1: one more is
\* pending), arms the compare register for a head that is due in this period or
\* before, neither before its time nor later than it must be.
LEMMA UpdateTells ==
  ASSUME inited, TCNT1 \in 0 .. (Lo - 1),
         NEW q \in Seq(Entries), NEW c \in 0 .. (Hi - 1), NEW v \in {0, 1},
         v = 1 => TCNT1 <= 2 * MaxSlip, clock = ((c + v) % Hi) * Lo + TCNT1,
         q # <<>> => Ahead(q[1]), UpdateTimeouts(q, c)
  PROVE  /\ OCIE' = FALSE
         /\ \/ upd' = NoUpdate
            \/ upd'.at = "write" /\ upd'.slip = 0 /\ q # <<>>
         /\ upd'.at = "write" => \/ q[1].left <= 0
                                 \/ q[1].left <= Distance(upd'.ocra)
         /\ q # <<>> /\ Periods(q[1].when, c) <= 0 =>
              /\ upd'.at = "write"
              /\ \/ Distance(upd'.ocra) = MinDelay
                 \/ upd'.ocra = q[1].when % Lo /\ TCNT1 + MinDelay <= upd'.ocra
<1>. DEFINE e == q[1]
            o == CompareFor(e.when, c)
            near == q # <<>> /\ Periods(e.when, c) <= 0
<1>0. /\ Lo \in Nat \ {0} /\ Lo \in Int /\ MinDelay \in 1 .. (Lo - 1) /\ MaxSlip \in Nat
      /\ Wide \div 2 \in Nat
  BY SizesAssumption, WideType
<1>a. NoUpdate.at # "write" /\ NoUpdate.at # "enable"
  BY DEF NoUpdate
<1>1. CASE q = <<>>
  <2>1. OCIE' = FALSE /\ upd' = NoUpdate
    BY <1>1 DEF UpdateTimeouts
  <2>2. upd'.at # "write"
    BY <1>a, <2>1, Zenon
  <2>. QED
    BY <1>1, <2>1, <2>2
<1>2. CASE q # <<>>
  <2>1. e \in Entries /\ Ahead(e)
    BY <1>2
  <2>2. e.when \in Times /\ e.when \in Int /\ e.left \in Lefts /\ e.left \in Int
    <3>1. e.when \in Times /\ e.left \in Lefts
      BY <2>1 DEF Entries
    <3>. QED
      BY <3>1, <1>0, WideType, SizesAssumption DEF Times, Lefts
  <2>3. e.left > 0 => \E k \in Nat, r \in 0 .. (Lo - 1) :
          TCNT1 + e.left = Lo * k + r /\ e.when % Lo = r /\ Periods(e.when, c) = k + v
    <3>1. e.left > 0 => e.left \in Nat
      BY <2>2
    <3>. HIDE DEF e
    <3>. QED
      BY <2>1, <3>1, HeadPeriods
  <2>. HIDE DEF e
  <2>4. \/ o = (TCNT1 + MinDelay) % Lo
        \/ /\ o = e.when % Lo /\ TCNT1 + MinDelay <= o
           /\ Periods(e.when, c) = 0
    <3>1. e.when % Lo \in Int
      BY <1>0, <2>2
    <3>. QED
      BY <1>0, <3>1, SMTT(40) DEF CompareFor
  <2>5. near => \/ Distance(o) = MinDelay
                \/ o = e.when % Lo /\ TCNT1 + MinDelay <= o
    BY <2>4, MinDelayAhead
  <2>6. near /\ e.left > 0 => e.left <= Distance(o)
    <3>. SUFFICES ASSUME near, e.left > 0 PROVE e.left <= Distance(o)
      OBVIOUS
    <3>1. PICK k \in Nat, r \in 0 .. (Lo - 1) :
            TCNT1 + e.left = Lo * k + r /\ e.when % Lo = r /\ Periods(e.when, c) = k + v
      BY <2>3
    <3>2. k = 0 /\ v = 0
      BY <3>1
    <3>3. TCNT1 + e.left = r
      BY <1>0, <2>2, <3>1, <3>2
    <3>4. CASE o = e.when % Lo
      BY <1>0, <2>2, <3>1, <3>3, <3>4 DEF Distance, Between
    <3>5. CASE o # e.when % Lo
      <4>1. r < MinDelay \/ r - MinDelay < TCNT1
        BY <3>1, <3>2, <3>5 DEF CompareFor
      <4>2. Distance(o) = MinDelay
        BY <2>4, <3>5, MinDelayAhead
      <4>. QED
        BY <1>0, <2>2, <3>3, <4>1, <4>2
    <3>. QED
      BY <3>4, <3>5
  <2>7. /\ OCIE' = FALSE
        /\ upd' = IF Periods(e.when, c) > 0 THEN NoUpdate
                  ELSE [at |-> "write", ocra |-> o, slip |-> 0]
    BY <1>2 DEF UpdateTimeouts, e
  <2>8. Periods(e.when, c) \in Int
    <3>1. (e.when \div Lo - c) % Hi \in Int
      BY <1>0, <2>2, WideProduct
    <3>. QED
      BY <3>1, WideProduct DEF Periods
  <2>. HIDE DEF o
  <2>9. CASE near
    <3>1. upd' = [at |-> "write", ocra |-> o, slip |-> 0]
      BY <2>7, <2>8, <2>9
    <3>. QED
      BY <1>2, <2>2, <2>5, <2>6, <2>7, <2>9, <3>1 DEF e
  <2>10. CASE ~near
    <3>1. OCIE' = FALSE /\ upd' = NoUpdate
      BY <1>2, <2>7, <2>8, <2>10
    <3>2. upd'.at # "write"
      BY <1>a, <3>1, Zenon
    <3>. QED
      BY <1>2, <2>10, <3>1, <3>2 DEF e
  <2>. QED
    BY <2>9, <2>10
<1>. QED
  BY <1>1, <1>2

-----------------------------------------------------------------------------
(* A tick of the hardware *)

LEMMA Bounds ==
  /\ Lo \in Nat \ {0} /\ Hi \in Nat \ {0} /\ MinDelay \in 1 .. (Lo - 1) /\ MaxTimeouts \in Nat
  /\ MaxOff \in Nat /\ MaxSlip \in Nat /\ MaxLate \in Nat
BY SizesAssumption

\* The counter does not come round while an overflow is pending.
LEMMA NoneLost ==
  ASSUME IInv, PaceInv, FreshInv, Prompt, MayTick, TOV
  PROVE  TCNT1 < Lo - 1
<1>1. off \in Nat /\ TCNT1 \in Nat /\ I \in BOOLEAN
  BY SizesAssumption DEF IInv, TypeInv, TypeOK
<1>2. CASE isr # "none"
  BY <1>1, <1>2, Bounds DEF FreshInv, MayTick, Prompt
<1>3. CASE isr = "none" /\ ~I
  BY <1>1, <1>3, Bounds DEF FreshInv, MayTick, Prompt
<1>4. CASE isr = "none" /\ I
  <2>1. Updating \/ InNow
    BY <1>4 DEF MayTick, InterruptPending, InterruptsOn
  <2>2. CASE Updating
    <3>1. TCNT1 <= 2 * MaxSlip + upd.slip /\ upd.slip < MaxSlip
      BY <1>4, <2>2 DEF FreshInv, MayTick
    <3>2. upd.slip \in Nat
      BY <2>2 DEF IInv, TypeInv, TypeOK, Updates, NoUpdate, Updating
    <3>. QED
      BY <1>1, <3>1, <3>2, Bounds DEF Prompt
  <2>3. CASE InNow
    <3>1. call["main"].pc = "now" /\ Active = "main"
      BY <1>4, <2>3 DEF IInv, ArmedInv, Active
    <3>2. TCNT1 <= MaxSlip + call["main"].slip /\ call["main"].slip < MaxSlip
      BY <1>4, <3>1 DEF FreshInv, MayTick
    <3>3. call["main"].slip \in Nat
      BY <3>1 DEF IInv, TypeInv, TypeOK, Calls, NoCall, Contexts
    <3>. QED
      BY <1>1, <3>2, <3>3, Bounds DEF Prompt
  <2>. QED
    BY <2>1, <2>2, <2>3
<1>. QED
  BY <1>2, <1>3, <1>4

\* A tick of now()'s own time.
LEMMA ReadingLater ==
  ASSUME TypeOK, Tick
  PROVE  /\ InNow' <=> InNow
         /\ InNow => /\ reading.slip \in Nat /\ reading.age \in Nat
                     /\ reading.slip < MaxSlip
                     /\ reading'.slip = reading.slip + 1
                     /\ reading'.age = reading.age + 1
         /\ reading'.at = "read" =>
              /\ reading.at = "read" /\ InNow
              /\ reading'.lo = reading.lo /\ reading'.hi = reading.hi
              /\ reading.lo \in 0 .. (Lo - 1) /\ reading.hi \in 0 .. (Hi - 1)
<1>1. /\ reading' = IF InNow THEN [reading EXCEPT !.slip = @ + 1, !.age = @ + 1] ELSE reading
      /\ reading \in Readings /\ (InNow => reading.slip < MaxSlip)
  BY DEF Tick, TickBookkeeping, MayTick, TypeOK
<1>2. CASE reading = NoReading
  BY <1>1, <1>2 DEF InNow, NoReading
<1>3. CASE reading \in [at : {"off"}, slip : Nat, age : Nat]
  <2>1. reading' = [at |-> "off", slip |-> reading.slip + 1, age |-> reading.age + 1]
    BY <1>1, <1>3 DEF InNow
  <2>. QED
    BY <1>1, <1>3, <2>1 DEF InNow
<1>4. CASE reading \in [at : {"read"}, lo : 0 .. (Lo - 1), hi : 0 .. (Hi - 1),
                       slip : Nat, age : Nat]
  <2>1. reading' = [at |-> "read", lo |-> reading.lo, hi |-> reading.hi,
                    slip |-> reading.slip + 1, age |-> reading.age + 1]
    BY <1>1, <1>4 DEF InNow
  <2>. QED
    BY <1>1, <1>4, <2>1 DEF InNow
<1>. QED
  BY <1>1, <1>2, <1>3, <1>4 DEF Readings

\* What a tick does to the counter and its flag: it goes on or round.
LEMMA CounterGoesOn ==
  ASSUME IInv, PaceInv, FreshInv, Prompt, Tick
  PROVE  /\ TCNT1' \in 0 .. (Lo - 1)
         /\ \/ /\ TCNT1 < Lo - 1 /\ TCNT1' = TCNT1 + 1 /\ TOV' = TOV
            \/ TCNT1 = Lo - 1 /\ TCNT1' = 0 /\ ~TOV /\ TOV'
<1>0. TCNT1 \in 0 .. (Lo - 1) /\ Lo \in Nat \ {0} /\ TOV \in BOOLEAN
  BY Bounds DEF IInv, TypeInv, TypeOK
<1>1. TCNT1' = (TCNT1 + 1) % Lo /\ TOV' = (TOV \/ TCNT1 = Lo - 1) /\ MayTick
  BY DEF Tick
<1>2. CASE TCNT1 < Lo - 1
  <2>1. TCNT1 + 1 \in 0 .. (Lo - 1)
    BY <1>0, <1>2
  <2>2. (TCNT1 + 1) % Lo = TCNT1 + 1
    BY <1>0, <2>1, ModSmall
  <2>. QED
    BY <1>0, <1>1, <1>2, <2>1, <2>2
<1>3. CASE TCNT1 = Lo - 1
  <2>1. ~TOV
    BY <1>0, <1>1, <1>3, NoneLost
  <2>2. 0 \in Int /\ 1 \in Int /\ 0 \in 0 .. (Lo - 1)
    BY <1>0
  <2>3. (0 + Lo * 1) % Lo = 0 % Lo
    BY <1>0, <2>2, ModPeriods, Zenon
  <2>4. 0 % Lo = 0
    BY <1>0, <2>2, ModSmall, Zenon
  <2>5. 0 + Lo * 1 = TCNT1 + 1
    BY <1>0, <1>3
  <2>. QED
    BY <1>0, <1>1, <1>3, <2>1, <2>2, <2>3, <2>4, <2>5
<1>. QED
  BY <1>0, <1>2, <1>3

LEMMA TickClock ==
  ASSUME IInv, ClockInv, PaceInv, FreshInv, Prompt, Tick
  PROVE  ClockInv'
<1>. DEFINE c == timer_cycles + Overflows
            n == TCNT1 + 1
<1>0. /\ Lo \in Nat \ {0} /\ TCNT1 \in 0 .. (Lo - 1) /\ timer_cycles \in 0 .. (Hi - 1)
      /\ TOV \in BOOLEAN /\ Overflows \in {0, 1}
  BY Bounds DEF IInv, TypeInv, TypeOK, Overflows
<1>1. PICK k \in Nat : n = Lo * k + TCNT1' /\ Overflows' = Overflows + k
  <2>1. CASE TCNT1 < Lo - 1 /\ TCNT1' = TCNT1 + 1 /\ TOV' = TOV
    <3>1. n = Lo * 0 + TCNT1'
      BY <1>0, <2>1
    <3>2. Overflows' = Overflows + 0
      BY <1>0, <2>1 DEF Overflows
    <3>. QED
      BY <3>1, <3>2
  <2>2. CASE TCNT1 = Lo - 1 /\ TCNT1' = 0 /\ ~TOV /\ TOV'
    <3>1. n = Lo * 1 + TCNT1'
      BY <1>0, <2>2
    <3>2. Overflows' = Overflows + 1
      BY <1>0, <2>2 DEF Overflows
    <3>. QED
      BY <3>1, <3>2
  <2>. QED
    BY <2>1, <2>2, CounterGoesOn
<1>2. TCNT1' \in 0 .. (Lo - 1)
  BY CounterGoesOn
<1>3. clock' = (clock + 1) % Wide /\ inited' = inited /\ timer_cycles' = timer_cycles
  BY DEF Tick, Elapse, TickBookkeeping
<1>4. clock' = ((c % Hi) * Lo + n) % Wide
  <2>1. (c % Hi) * Lo \in Int
    BY <1>0, WideProduct
  <2>2. clock + 1 = (c % Hi) * Lo + n
    BY <1>0, <2>1 DEF ClockInv
  <2>. QED
    BY <1>3, <2>2
<1>5. c \in Int /\ n \in Nat
  BY <1>0, WideProduct
<1>. HIDE DEF c, n
<1>6. clock' % Lo = TCNT1' /\ clock' \div Lo = (c + k) % Hi
  BY <1>1, <1>2, <1>4, <1>5, LaterTime
<1>7. clock' \in Int
  <2>1. (c % Hi) * Lo + n \in Int
    BY <1>5, WideProduct
  <2>. QED
    BY <1>4, <2>1, WideProduct
<1>8. clock' = Lo * ((c + k) % Hi) + TCNT1'
  <2>1. PICK d \in Int, m \in 0 .. (Lo - 1) :
          d = clock' \div Lo /\ m = clock' % Lo /\ clock' = Lo * d + m
    BY <1>0, <1>7, Division
  <2>. QED
    BY <1>6, <2>1
<1>9. c + k = timer_cycles' + Overflows'
  BY <1>0, <1>1, <1>3 DEF c
<1>10. Lo * ((c + k) % Hi) = ((c + k) % Hi) * Lo
  <2>1. (c + k) % Hi \in Int /\ Lo \in Int
    BY <1>5, WideProduct
  <2>. QED
    BY <2>1, Products
<1>. QED
  BY <1>3, <1>8, <1>9, <1>10 DEF ClockInv

\* What a tick does to the time left of anything.
LEMMA ElapsedTells ==
  ASSUME NEW l \in Lefts
  PROVE  /\ l \in Int /\ Elapsed(l) \in Int /\ Elapsed(l) <= l
         /\ l > 0 => Elapsed(l) = l - 1
         /\ l <= 0 => Elapsed(l) <= 0
BY Bounds, WideType DEF Elapsed, Lefts

\* What it does to a call of set_timeout.
LEMMA AgedTells ==
  ASSUME TypeOK, NEW c \in Contexts
  PROVE  /\ Aged(c, 1).pc = call[c].pc
         /\ call[c].pc # "idle" =>
              call[c].slip \in Nat /\ Aged(c, 1).slip = call[c].slip + Slipped(c, 1)
         /\ call[c].pc = "insert" =>
              /\ Aged(c, 1).when = call[c].when /\ call[c].when \in Times
              /\ Aged(c, 1).left = Elapsed(call[c].left) /\ call[c].left \in Lefts
<1>. DEFINE f == call[c]
<1>0. f \in Calls
  BY DEF TypeOK
<1>. HIDE DEF f
<1>1. CASE f = NoCall
  BY <1>1 DEF Aged, f, NoCall
<1>2. CASE f \in [pc : {"now"}, cb : Clients, timeout : Delays, slip : Nat]
  <2>1. Aged(c, 1) = [f EXCEPT !.slip = @ + Slipped(c, 1)]
    BY <1>2 DEF Aged, f
  <2>. QED
    BY <1>2, <2>1 DEF f
<1>3. CASE f \in [pc : {"insert"}, cb : Clients, when : Times, left : Lefts, slip : Nat]
  <2>1. Aged(c, 1) = [f EXCEPT !.slip = f.slip + Slipped(c, 1), !.left = Elapsed(f.left)]
    BY <1>3 DEF Aged, f
  <2>. QED
    BY <1>3, <2>1 DEF f
<1>. QED
  BY <1>0, <1>1, <1>2, <1>3 DEF Calls

\* What it does to the list and the calls.
LEMMA TickTells ==
  ASSUME TypeOK, Tick
  PROVE  /\ DOMAIN queue' = DOMAIN queue
         /\ \A i \in DOMAIN queue : /\ queue'[i].when = queue[i].when
                                    /\ queue'[i].left = Elapsed(queue[i].left)
                                    /\ queue[i].when \in Times /\ queue[i].left \in Lefts
         /\ \A c \in Contexts : call'[c] = Aged(c, 1)
         /\ clock' = (clock + 1) % Wide
         /\ UNCHANGED <<OCR1A, OCIE, I, timer_cycles, inited, updated, isr, falling>>
<1>1. /\ queue' = [i \in DOMAIN queue |-> [queue[i] EXCEPT !.left = Elapsed(@)]]
      /\ call' = [c \in Contexts |-> Aged(c, 1)]
      /\ clock' = (clock + 1) % Wide
      /\ UNCHANGED <<OCR1A, OCIE, I, timer_cycles, inited, updated, isr, falling>>
  BY DEF Tick, Elapse, TickBookkeeping
<1>2. \A i \in DOMAIN queue : queue[i] \in Entries
  BY DEF TypeOK
<1>3. ASSUME NEW i \in DOMAIN queue
      PROVE  /\ queue'[i].when = queue[i].when
             /\ queue'[i].left = Elapsed(queue[i].left)
             /\ queue[i].when \in Times /\ queue[i].left \in Lefts
  <2>1. queue'[i] = [queue[i] EXCEPT !.left = Elapsed(queue[i].left)]
    BY <1>1
  <2>2. queue[i] \in [cb : Clients, when : Times, left : Lefts]
    BY <1>2 DEF Entries
  <2>. QED
    BY <2>1, <2>2
<1>. QED
  BY <1>1, <1>3

\* What was ahead stays ahead of the clock.
LEMMA StaysAhead ==
  ASSUME clock \in Times, clock' = (clock + 1) % Wide,
         NEW e, e.left \in Lefts, Ahead(e), NEW l, l = Elapsed(e.left)
  PROVE  /\ l > 0 => e.when = (clock' + l) % Wide
         /\ l + Lo + 2 * MaxSlip < Wide \div 2
<1>1. /\ e.left \in Int /\ l \in Int /\ l <= e.left /\ (e.left > 0 => l = e.left - 1)
      /\ (e.left <= 0 => l <= 0)
  BY ElapsedTells
<1>2. l + Lo + 2 * MaxSlip < Wide \div 2
  BY <1>1, Bounds, WideType DEF Ahead
<1>3. ASSUME l > 0 PROVE e.when = (clock' + l) % Wide
  <2>1. e.left > 0 /\ l = e.left - 1
    BY <1>1, <1>3
  <2>2. clock + 1 \in Int /\ l \in Int /\ Wide \in Nat \ {0} /\ clock \in Int
    BY <1>1, WideType DEF Times
  <2>3. (((clock + 1) % Wide) + l) % Wide = ((clock + 1) + l) % Wide
    BY <2>2, ModAdd, Zenon
  <2>4. (clock + 1) + l = clock + e.left
    <3>1. PICK k \in Int : k = e.left
      BY <1>1
    <3>2. l = k - 1
      BY <2>1, <3>1
    <3>3. (clock + 1) + l = clock + k
      BY <2>2, <3>2
    <3>. QED
      BY <3>1, <3>3
  <2>5. e.when = (clock + e.left) % Wide
    BY <2>1 DEF Ahead
  <2>. QED
    BY <2>3, <2>4, <2>5
<1>. QED
  BY <1>2, <1>3

LEMMA TickAhead ==
  ASSUME IInv, AheadInv, Tick
  PROVE  AheadInv'
<1>0. TypeOK /\ clock \in Times
  BY DEF IInv, TypeInv, TypeOK
<1>1. ASSUME NEW i \in DOMAIN queue' PROVE Ahead(queue[i])'
  <2>1. /\ i \in DOMAIN queue /\ Ahead(queue[i]) /\ clock' = (clock + 1) % Wide
        /\ queue'[i].when = queue[i].when /\ queue'[i].left = Elapsed(queue[i].left)
        /\ queue[i].left \in Lefts
    BY <1>0, <1>1, TickTells DEF AheadInv
  <2>2. /\ queue'[i].left > 0 => queue[i].when = (clock' + queue'[i].left) % Wide
        /\ queue'[i].left + Lo + 2 * MaxSlip < Wide \div 2
    BY <1>0, <2>1, StaysAhead
  <2>. QED
    BY <2>1, <2>2 DEF Ahead
<1>2. ASSUME NEW c \in Contexts, call'[c].pc = "insert" PROVE Ahead(call[c])'
  <2>1. call'[c] = Aged(c, 1) /\ clock' = (clock + 1) % Wide
    BY <1>0, TickTells
  <2>2. /\ call[c].pc = "insert" /\ Ahead(call[c])
        /\ call'[c].when = call[c].when /\ call'[c].left = Elapsed(call[c].left)
        /\ call[c].left \in Lefts
    BY <1>0, <1>2, <2>1, AgedTells DEF AheadInv
  <2>3. /\ call'[c].left > 0 => call[c].when = (clock' + call'[c].left) % Wide
        /\ call'[c].left + Lo + 2 * MaxSlip < Wide \div 2
    BY <1>0, <2>1, <2>2, StaysAhead
  <2>. QED
    BY <2>2, <2>3 DEF Ahead
<1>. QED
  BY <1>1, <1>2 DEF AheadInv

\* What it does to the register writes that are due.
LEMMA WritesLater ==
  ASSUME TypeOK, Tick
  PROVE  /\ Updating' <=> Updating
         /\ upd'.at = upd.at
         /\ upd.at = "write" => upd'.ocra = upd.ocra /\ upd.ocra \in 0 .. (Lo - 1)
         /\ Updating => upd'.slip = upd.slip + 1 /\ upd.slip \in Nat /\ upd.slip < MaxSlip
         /\ OCR1A \in 0 .. (Lo - 1)
<1>1. upd' = IF Updating THEN [upd EXCEPT !.slip = @ + 1] ELSE upd
  BY DEF Tick, TickBookkeeping
<1>2. upd \in Updates /\ (Updating => upd.slip < MaxSlip) /\ OCR1A \in 0 .. (Lo - 1)
  BY DEF TypeOK, Tick, MayTick
<1>3. CASE upd = NoUpdate
  BY <1>1, <1>2, <1>3 DEF Updating, NoUpdate
<1>4. CASE upd \in [at : {"write"}, ocra : 0 .. (Lo - 1), slip : Nat]
  BY <1>1, <1>2, <1>4 DEF Updating
<1>5. CASE upd \in [at : {"enable"}, slip : Nat]
  BY <1>1, <1>2, <1>5 DEF Updating
<1>. QED
  BY <1>2, <1>3, <1>4, <1>5 DEF Updates

LEMMA TickPace ==
  ASSUME IInv, PaceInv, Tick
  PROVE  PaceInv'
<1>0. TypeOK /\ MayTick /\ off \in Nat
  BY DEF IInv, TypeInv, TypeOK, Tick
<1>1. off' <= MaxOff
  <2>1. off' = IF ~I \/ isr # "none" THEN off + 1 ELSE off
    BY DEF Tick, TickBookkeeping
  <2>. QED
    BY <1>0, <2>1, Bounds DEF MayTick, PaceInv
<1>2. Updating' => upd'.slip <= MaxSlip /\ ~OCIE'
  BY <1>0, WritesLater, TickTells, Bounds DEF PaceInv
<1>3. ASSUME NEW c \in Contexts, call'[c].pc # "idle" PROVE call'[c].slip <= MaxSlip
  <2>1. call'[c] = Aged(c, 1)
    BY <1>0, TickTells
  <2>2. /\ call[c].pc # "idle" /\ call[c].slip \in Nat /\ call[c].slip <= MaxSlip
        /\ call'[c].slip = call[c].slip + Slipped(c, 1)
    BY <1>0, <1>3, <2>1, AgedTells DEF PaceInv
  <2>3. CASE c = Active
    BY <1>0, <2>2, <2>3, Bounds DEF MayTick, Slipped
  <2>4. CASE c # Active
    BY <2>2, <2>4, Bounds DEF Slipped
  <2>. QED
    BY <2>3, <2>4
<1>4. isr' # "callback" => call'["isr"].pc = "idle"
  <2>1. "isr" \in Contexts /\ isr' = isr
    BY <1>0, TickTells DEF Contexts
  <2>. QED
    BY <1>0, <2>1, TickTells, AgedTells DEF PaceInv
<1>5. InNow' => reading'.slip <= MaxSlip
  BY <1>0, ReadingLater, Bounds
<1>. QED
  BY <1>0, <1>1, <1>2, <1>3, <1>4, <1>5, TickTells DEF PaceInv, Updating, InNow

LEMMA TickFresh ==
  ASSUME IInv, PaceInv, FreshInv, Prompt, Tick
  PROVE  FreshInv'
<1>0. /\ TypeOK /\ MayTick /\ off \in Nat /\ TCNT1 \in Nat /\ TOV \in BOOLEAN
      /\ I \in BOOLEAN /\ Active \in Contexts /\ "main" \in Contexts
  BY SizesAssumption DEF IInv, TypeInv, TypeOK, Tick, Active, Contexts
<1>1. isr' = isr /\ I' = I /\ Active' = Active
  BY <1>0, TickTells DEF Active
<1>2. off' = IF ~I \/ isr # "none" THEN off + 1 ELSE off
  BY DEF Tick, TickBookkeeping
<1>3. \A c \in Contexts :
        /\ call'[c].pc = call[c].pc
        /\ call[c].pc # "idle" =>
             call[c].slip \in Nat /\ call'[c].slip = call[c].slip + Slipped(c, 1)
  BY <1>0, TickTells, AgedTells
<1>4. CASE TCNT1' = 0
  <2>1. \A c \in Contexts : call'[c].pc # "idle" => call'[c].slip >= 0
    BY <1>3, Bounds DEF Slipped
  <2>2. Updating' => upd'.slip >= 0
    BY <1>0, WritesLater
  <2>3. off' >= 0
    BY <1>0, <1>2
  <2>4. "main" \in Contexts /\ Active' \in Contexts
    BY <1>0, <1>1
  <2>5. \A c \in Contexts : call'[c].pc # "idle" => 0 <= MaxSlip + call'[c].slip
    BY <1>3, Bounds DEF Slipped
  <2>6. 0 <= MaxOff + 3 * MaxSlip + off' /\ 0 <= 3 * MaxSlip
        /\ (Updating' => 0 <= 2 * MaxSlip + upd'.slip)
        /\ (InNow' => 0 <= reading'.slip)
    BY <1>0, <1>2, <2>2, Bounds, WritesLater, ReadingLater
  <2>. QED
    BY <1>4, <2>3, <2>4, <2>5, <2>6 DEF FreshInv, Updating, InNow
<1>5. CASE TCNT1' = TCNT1 + 1 /\ TOV' = TOV /\ TOV
  <2>5. InNow' /\ (isr # "none" \/ ~I) => TCNT1' <= reading'.slip
    BY <1>0, <1>5, ReadingLater DEF FreshInv
  <2>1. isr # "none" => TCNT1' <= MaxOff + 3 * MaxSlip + off'
    BY <1>0, <1>2, <1>5, Bounds DEF FreshInv
  <2>2. isr = "none" /\ ~I => TCNT1' <= off'
    BY <1>0, <1>2, <1>5 DEF FreshInv
  <2>3. ASSUME isr = "none", I
        PROVE  /\ Updating' => TCNT1' <= 2 * MaxSlip + upd'.slip
               /\ TCNT1' <= 3 * MaxSlip
               /\ call'["main"].pc = "now" => TCNT1' <= MaxSlip + call'["main"].slip
    <3>0. Active = "main"
      BY <2>3 DEF Active
    <3>1. Updating \/ InNow
      BY <1>0, <1>5, <2>3 DEF MayTick, InterruptPending, InterruptsOn
    <3>2. Updating =>
            /\ TCNT1 <= 2 * MaxSlip + upd.slip /\ upd'.slip = upd.slip + 1
            /\ upd.slip \in Nat /\ upd.slip < MaxSlip
      BY <1>0, <1>5, <2>3, WritesLater DEF FreshInv
    <3>3. call["main"].pc = "now" =>
            /\ TCNT1 <= MaxSlip + call["main"].slip /\ call["main"].slip \in Nat
            /\ call["main"].slip < MaxSlip
      BY <1>0, <1>3, <1>5, <2>3, <3>0 DEF FreshInv, MayTick
    <3>4. call["main"].pc = "now" => call'["main"].slip = call["main"].slip + 1
      BY <1>0, <1>3, <2>3, <3>0 DEF Slipped
    <3>5. InNow => call["main"].pc = "now"
      BY <2>3, <3>0 DEF IInv, ArmedInv
    <3>6. Updating' <=> Updating
      BY <1>0, WritesLater
    <3>7. TCNT1' <= 3 * MaxSlip
      BY <1>0, <1>5, <3>1, <3>2, <3>3, <3>5, Bounds
    <3>. QED
      BY <1>0, <1>3, <1>5, <3>2, <3>3, <3>4, <3>6, <3>7, Bounds
  <2>4. call'[Active].pc = "insert" => TCNT1' <= MaxSlip + call'[Active].slip
    <3>1. call[Active].pc = "insert" =>
            /\ TCNT1 <= MaxSlip + call[Active].slip /\ call[Active].slip \in Nat
            /\ call'[Active].slip = call[Active].slip + 1
      BY <1>0, <1>3, <1>5 DEF FreshInv, Slipped
    <3>. QED
      BY <1>0, <1>3, <1>5, <3>1, Bounds
  <2>. QED
    BY <1>1, <2>1, <2>2, <2>3, <2>4, <2>5 DEF FreshInv, Updating, InNow
<1>6. CASE ~TOV'
  BY <1>6 DEF FreshInv
<1>. QED
  BY <1>0, <1>4, <1>5, <1>6, CounterGoesOn

\* What now() has read stays what it was, whether the counter goes on or round.
LEMMA TickRead ==
  ASSUME IInv, PaceInv, FreshInv, ReadInv, Prompt, Tick
  PROVE  ReadInv'
<1>. SUFFICES ASSUME reading'.at = "read"
              PROVE  /\ reading'.hi = timer_cycles' /\ reading'.age <= reading'.slip
                     /\ \/ /\ reading'.lo + reading'.age = TCNT1'
                           /\ TOV' => reading'.lo < Lo \div 2
                        \/ reading'.lo + reading'.age = TCNT1' + Lo /\ TOV'
  BY DEF ReadInv
<1>0. TypeOK /\ TCNT1 \in 0 .. (Lo - 1) /\ Lo \in Nat /\ TOV \in BOOLEAN
  BY Bounds DEF IInv, TypeInv, TypeOK
<1>1. /\ reading.at = "read" /\ reading.slip \in Nat /\ reading.age \in Nat
      /\ reading'.slip = reading.slip + 1 /\ reading'.age = reading.age + 1
      /\ reading'.lo = reading.lo /\ reading'.hi = reading.hi
      /\ reading.lo \in 0 .. (Lo - 1)
  BY <1>0, ReadingLater
<1>2. timer_cycles' = timer_cycles
  BY <1>0, TickTells
<1>3. /\ reading.hi = timer_cycles /\ reading.age <= reading.slip
      /\ \/ reading.lo + reading.age = TCNT1 /\ (TOV => reading.lo < Lo \div 2)
         \/ reading.lo + reading.age = TCNT1 + Lo /\ TOV
  BY <1>1 DEF ReadInv
<1>4. CASE TCNT1 < Lo - 1 /\ TCNT1' = TCNT1 + 1 /\ TOV' = TOV
  BY <1>0, <1>1, <1>2, <1>3, <1>4
<1>5. CASE TCNT1 = Lo - 1 /\ TCNT1' = 0 /\ ~TOV /\ TOV'
  BY <1>0, <1>1, <1>2, <1>3, <1>5
<1>. QED
  BY <1>4, <1>5, CounterGoesOn

\* A tick brings the counter nearer to where it is not yet.
LEMMA Nearer ==
  ASSUME IInv, PaceInv, FreshInv, Prompt, Tick, NEW o \in 0 .. (Lo - 1)
  PROVE  /\ Distance(o) \in 0 .. (Lo - 1) /\ Between(TCNT1', o) \in 0 .. (Lo - 1)
         /\ Distance(o) = 0 <=> TCNT1 = o
         /\ Distance(o) > 0 => Between(TCNT1', o) = Distance(o) - 1
<1>1. TCNT1 \in 0 .. (Lo - 1)
  BY DEF IInv, TypeInv, TypeOK
<1>. QED
  BY <1>1, CounterGoesOn, Bounds DEF Distance, Between

\* A match that is not early stays so, and when it comes the head is due.
LEMMA StaysDue ==
  ASSUME IInv, PaceInv, FreshInv, Prompt, Tick, queue # <<>>,
         NEW o \in 0 .. (Lo - 1), NotEarly(o)
  PROVE  /\ queue'[1].left <= 0 \/ queue'[1].left <= Between(TCNT1', o)
         /\ TCNT1 = o => queue'[1].left <= 0
<1>0. TypeOK /\ 1 \in DOMAIN queue
  BY DEF IInv, TypeInv, TypeOK
<1>1. queue'[1].left = Elapsed(queue[1].left) /\ queue[1].left \in Lefts
  BY <1>0, TickTells
<1>2. /\ queue[1].left \in Int /\ Elapsed(queue[1].left) \in Int
      /\ queue[1].left > 0 => Elapsed(queue[1].left) = queue[1].left - 1
      /\ queue[1].left <= 0 => Elapsed(queue[1].left) <= 0
  BY <1>1, ElapsedTells
<1>3. /\ Distance(o) \in 0 .. (Lo - 1) /\ Between(TCNT1', o) \in 0 .. (Lo - 1)
      /\ Distance(o) = 0 <=> TCNT1 = o
      /\ Distance(o) > 0 => Between(TCNT1', o) = Distance(o) - 1
  BY Nearer
<1>. QED
  BY <1>1, <1>2, <1>3, Bounds DEF NotEarly

LEMMA TickDue ==
  ASSUME IInv, PaceInv, FreshInv, DueInv, Prompt, Tick
  PROVE  DueInv'
<1>0. /\ TypeOK /\ OCR1A \in 0 .. (Lo - 1) /\ OCF \in BOOLEAN /\ OCF' = (OCF \/ TCNT1 = OCR1A)
      /\ UNCHANGED <<OCR1A, OCIE, isr, updated>>
  BY TickTells DEF IInv, TypeInv, TypeOK, Tick
<1>1. ASSUME upd'.at = "write" PROVE NotEarly(upd.ocra)'
  <2>1. /\ upd.at = "write" /\ upd'.ocra = upd.ocra /\ upd.ocra \in 0 .. (Lo - 1)
        /\ NotEarly(upd.ocra) /\ queue # <<>>
    BY <1>0, <1>1, WritesLater DEF DueInv, IInv, ArmedInv, Updating
  <2>2. queue'[1].left <= 0 \/ queue'[1].left <= Between(TCNT1', upd.ocra)
    BY <2>1, StaysDue
  <2>. QED
    BY <2>1, <2>2 DEF NotEarly, Distance
<1>2. ASSUME upd'.at = "enable" PROVE NotEarly(OCR1A)'
  <2>1. upd.at = "enable" /\ NotEarly(OCR1A) /\ queue # <<>>
    BY <1>0, <1>2, WritesLater DEF DueInv, IInv, ArmedInv, Updating
  <2>2. queue'[1].left <= 0 \/ queue'[1].left <= Between(TCNT1', OCR1A)
    BY <1>0, <2>1, StaysDue
  <2>. QED
    BY <1>0, <2>2 DEF NotEarly, Distance
<1>3. ASSUME OCIE', isr' = "none" \/ updated'
      PROVE  NotEarly(OCR1A)' /\ (OCF' => queue'[1].left <= 0)
  <2>1. NotEarly(OCR1A) /\ (OCF => queue[1].left <= 0) /\ queue # <<>>
    BY <1>0, <1>3 DEF DueInv, IInv, ArmedInv
  <2>2. /\ queue'[1].left <= 0 \/ queue'[1].left <= Between(TCNT1', OCR1A)
        /\ TCNT1 = OCR1A => queue'[1].left <= 0
    BY <1>0, <2>1, StaysDue
  <2>3. 1 \in DOMAIN queue
    BY <1>0, <2>1 DEF TypeOK
  <2>4. queue[1].left <= 0 => queue'[1].left <= 0
    BY <1>0, <2>3, TickTells, ElapsedTells
  <2>. QED
    BY <1>0, <2>1, <2>2, <2>4 DEF NotEarly, Distance
<1>. QED
  BY <1>1, <1>2, <1>3 DEF DueInv, Updating

LEMMA TickMatch ==
  ASSUME IInv, PaceInv, FreshInv, MatchInv, Prompt, Tick
  PROVE  MatchInv'
<1>. SUFFICES ASSUME HeadDue'
              PROVE  /\ (upd.at = "write" => WillCome(upd.ocra))'
                     /\ (upd.at = "enable" => WillCome(OCR1A))'
                     /\ (~Updating /\ (isr = "none" \/ updated)
                           => OCIE /\ (OCF \/ Coming(OCR1A)))'
  BY DEF MatchInv
<1>0. /\ TypeOK /\ OCR1A \in 0 .. (Lo - 1) /\ OCF \in BOOLEAN /\ OCF' = (OCF \/ TCNT1 = OCR1A)
      /\ TCNT1 \in 0 .. (Lo - 1) /\ TOV \in BOOLEAN
      /\ UNCHANGED <<OCR1A, OCIE, isr, updated, timer_cycles>>
  BY TickTells DEF IInv, TypeInv, TypeOK, Tick
<1>1. TCNT1' = TCNT1 + 1 /\ ~TOV
  BY CounterGoesOn DEF HeadDue
<1>2. queue # <<>> /\ queue'[1].when = queue[1].when
  <2>1. 1 \in DOMAIN queue' /\ DOMAIN queue' = DOMAIN queue
    <3>1. TypeOK'
      BY TicksInvariant DEF IInv, TypeInv
    <3>. QED
      BY <1>0, <3>1, TickTells DEF HeadDue, TypeOK
  <2>. QED
    BY <1>0, <2>1, TickTells DEF TypeOK
<1>3. HeadDue
  BY <1>0, <1>1, <1>2 DEF HeadDue
<1>4. queue[1].when % Lo \in Int
  <2>1. 1 \in DOMAIN queue
    BY <1>0, <1>2 DEF TypeOK
  <2>2. queue[1].when \in Times
    BY <1>0, <2>1, TickTells
  <2>. QED
    BY <2>2, WideType, Bounds DEF Times
<1>5. ASSUME NEW o \in 0 .. (Lo - 1), Updating, WillCome(o)
      PROVE  \/ Between(TCNT1', o) = MinDelay - upd'.slip
             \/ o = queue'[1].when % Lo /\ TCNT1' + MinDelay <= o + upd'.slip
  <2>1. upd'.slip = upd.slip + 1 /\ upd.slip \in Nat /\ upd.slip < MaxSlip
    BY <1>0, <1>5, WritesLater
  <2>2. CASE Distance(o) = MinDelay - upd.slip
    <3>1. Distance(o) > 0 /\ Distance(o) \in Int
      BY <2>1, <2>2, Bounds DEF Prompt
    <3>2. Between(TCNT1', o) = Distance(o) - 1
      BY <3>1, Nearer
    <3>. QED
      BY <2>1, <2>2, <3>2, Bounds
  <2>3. CASE o = queue[1].when % Lo /\ TCNT1 + MinDelay <= o + upd.slip
    BY <1>0, <1>1, <1>2, <2>1, <2>3, Bounds
  <2>. QED
    BY <1>5, <2>2, <2>3 DEF WillCome
<1>6. ASSUME upd'.at = "write" PROVE WillCome(upd.ocra)'
  <2>1. upd.at = "write" /\ upd'.ocra = upd.ocra /\ upd.ocra \in 0 .. (Lo - 1) /\ Updating
    BY <1>0, <1>6, WritesLater DEF Updating
  <2>2. WillCome(upd.ocra)
    BY <1>3, <2>1 DEF MatchInv
  <2>. QED
    BY <1>5, <2>1, <2>2 DEF WillCome, Distance
<1>7. ASSUME upd'.at = "enable" PROVE WillCome(OCR1A)'
  <2>1. upd.at = "enable" /\ Updating
    BY <1>0, <1>7, WritesLater DEF Updating
  <2>2. WillCome(OCR1A)
    BY <1>3, <2>1 DEF MatchInv
  <2>. QED
    BY <1>0, <1>5, <2>1, <2>2 DEF WillCome, Distance
<1>8. ASSUME ~Updating', isr' = "none" \/ updated' PROVE OCIE' /\ (OCF' \/ Coming(OCR1A)')
  <2>1. OCIE /\ (OCF \/ Coming(OCR1A))
    BY <1>0, <1>3, <1>8, WritesLater DEF MatchInv
  <2>2. /\ Distance(OCR1A) \in 0 .. (Lo - 1) /\ (Distance(OCR1A) = 0 <=> TCNT1 = OCR1A)
        /\ Distance(OCR1A) > 0 => Between(TCNT1', OCR1A) = Distance(OCR1A) - 1
    BY <1>0, Nearer
  <2>3. ASSUME TCNT1 # OCR1A, Coming(OCR1A) PROVE Coming(OCR1A)'
    <3>1. CASE Distance(OCR1A) <= MinDelay
      BY <1>0, <2>2, <2>3, <3>1, Bounds DEF Coming, Distance
    <3>2. CASE OCR1A = queue[1].when % Lo /\ TCNT1 <= OCR1A
      BY <1>0, <1>1, <1>2, <2>3, <3>2, Bounds DEF Coming
    <3>. QED
      BY <2>3, <3>1, <3>2 DEF Coming
  <2>. QED
    BY <1>0, <2>1, <2>3
<1>. QED
  BY <1>6, <1>7, <1>8 DEF Updating

\* A tick keeps all of it.
LEMMA TickKeeps ==
  ASSUME IInv, RegInv, Prompt, Tick \/ BootTick
  PROVE  RegInv'
<1>1. Tick
  BY DEF RegInv, ClockInv, BootTick
<1>. QED
  BY <1>1, TickClock, TickPace, TickFresh, TickRead, TickAhead, TickDue, TickMatch DEF RegInv

-----------------------------------------------------------------------------
(* The steps of the code *)

\* now() returns the time at which it read the counter.
LEMMA NowTells ==
  ASSUME IInv, ClockInv, PaceInv, ReadInv, Prompt
  PROVE  NowExact
<1>. SUFFICES ASSUME reading.at = "read" PROVE Now(reading) = (clock - reading.age) % Wide
  BY DEF NowExact
<1>. DEFINE lo == reading.lo
            age == reading.age
            hi == timer_cycles
<1>0. /\ TCNT1 \in 0 .. (Lo - 1) /\ hi \in 0 .. (Hi - 1) /\ TOV \in BOOLEAN
      /\ lo \in 0 .. (Lo - 1) /\ age \in Nat /\ reading.slip \in Nat
      /\ InNow
  BY ReadType DEF IInv, TypeInv, TypeOK, InNow
<1>1. /\ reading.hi = hi /\ age <= MaxSlip
      /\ \/ lo + age = TCNT1 /\ (TOV => lo < Lo \div 2)
         \/ lo + age = TCNT1 + Lo /\ TOV
  <2>1. age <= reading.slip /\ reading.slip <= MaxSlip
    BY <1>0 DEF ReadInv, PaceInv
  <2>. QED
    BY <1>0, <2>1, Bounds DEF ReadInv
<1>2. clock = ((hi + Overflows) % Hi) * Lo + TCNT1
  BY DEF ClockInv
<1>3. Now(reading) = ((hi + (IF TOV /\ lo < Lo \div 2 THEN 1 ELSE 0)) % Hi) * Lo + lo
  BY <1>1 DEF Now
<1>. HIDE DEF lo, age, hi
<1>4. ASSUME NEW h \in 0 .. (Hi - 1)
      PROVE  h * Lo + lo \in 0 .. (Wide - 1) /\ h * Lo = Lo * h /\ h * Lo \in Nat
  <2>1. Lo * h + Lo <= Lo * Hi /\ Lo * h \in Nat /\ h * Lo = Lo * h
    BY WideProduct, ProductGrows
  <2>. QED
    BY <1>0, <2>1, WideProduct
<1>5. CASE lo + age = TCNT1 /\ (TOV => lo < Lo \div 2)
  <2>1. PICK h \in 0 .. (Hi - 1) : h = (hi + Overflows) % Hi
    <3>1. hi + Overflows \in Int
      BY <1>0, WideProduct DEF Overflows
    <3>. QED
      BY <3>1, ModHi
  <2>2. Now(reading) = h * Lo + lo
    BY <1>3, <1>5, <2>1 DEF Overflows
  <2>3. clock - age = h * Lo + lo
    BY <1>0, <1>2, <1>4, <1>5, <2>1
  <2>. QED
    BY <1>4, <2>1, <2>2, <2>3, ModSmall, WideProduct DEF age
<1>6. CASE lo + age = TCNT1 + Lo /\ TOV
  <2>1. lo >= Lo \div 2
    BY <1>0, <1>1, <1>6, Bounds, WideProduct DEF Prompt
  <2>2. Now(reading) = hi * Lo + lo
    <3>1. (hi + 0) % Hi = hi
      BY <1>0, ModSmall, WideProduct
    <3>2. ~(lo < Lo \div 2)
      BY <1>0, <2>1, WideProduct
    <3>. QED
      BY <1>3, <3>1, <3>2
  <2>3. clock = ((hi + 1) % Hi) * Lo + TCNT1
    BY <1>2, <1>6 DEF Overflows
  <2>4. CASE hi < Hi - 1
    <3>1. (hi + 1) % Hi = hi + 1
      BY <1>0, <2>4, ModSmall, WideProduct
    <3>2. (hi + 1) * Lo = hi * Lo + Lo
      BY <1>0, WideProduct, Products
    <3>3. clock - age = hi * Lo + lo
      BY <1>0, <1>4, <1>6, <2>3, <3>1, <3>2, WideProduct
    <3>. QED
      BY <1>0, <1>4, <2>2, <3>3, ModSmall, WideProduct DEF age
  <2>5. CASE hi = Hi - 1
    <3>1. (hi + 1) % Hi = 0
      <4>1. hi + 1 = 0 + Hi * 1 /\ 0 \in Int /\ 1 \in Int /\ 0 \in 0 .. (Hi - 1)
        BY <1>0, <2>5, WideProduct
      <4>2. (0 + Hi * 1) % Hi = 0 % Hi
        BY <4>1, ModPeriods, WideProduct, Zenon
      <4>3. 0 % Hi = 0
        BY <4>1, ModSmall, WideProduct, Zenon
      <4>. QED
        BY <4>1, <4>2, <4>3
    <3>2. clock = TCNT1
      BY <1>0, <2>3, <3>1, WideProduct
    <3>3. hi * Lo + lo = Wide - Lo + lo
      <4>1. Lo * (Hi - 1) = Lo * Hi - Lo * 1
        BY WideProduct, Products
      <4>. QED
        BY <1>0, <1>4, <2>5, <4>1, WideProduct
    <3>4. (clock - age) + Wide * 1 = hi * Lo + lo /\ clock - age \in Int /\ 1 \in Int
      BY <1>0, <1>6, <3>2, <3>3, WideProduct
    <3>5. ((clock - age) + Wide * 1) % Wide = (clock - age) % Wide
      BY <3>4, ModPeriods, WideProduct, Zenon
    <3>6. (hi * Lo + lo) % Wide = hi * Lo + lo
      BY <1>0, <1>4, ModSmall, WideProduct
    <3>. QED
      BY <2>2, <3>4, <3>5, <3>6 DEF age
  <2>. QED
    BY <1>0, <2>4, <2>5, WideProduct
<1>. QED
  BY <1>1, <1>5, <1>6

\* now() is over, or was not under way: nothing of it is left to hold.
LEMMA NoReadingTells ==
  ASSUME reading' = NoReading \/ (~InNow /\ reading' = reading)
  PROVE  ~InNow' /\ ReadInv'
BY DEF ReadInv, InNow, NoReading

LEMMA SetTimeoutKeeps ==
  ASSUME IInv, RegInv, NEW d \in Clients, NEW timeout \in Delays, SetTimeout(d, timeout)
  PROVE  RegInv'
<1>. USE DEF RegInv
<1>0. /\ UNCHANGED <<TCNT1, OCR1A, TOV, OCF, OCIE, I, falling, timer_cycles, inited, updated,
                     queue, reading, isr, upd, clock, off>>
      /\ ~Updating /\ ~InterruptPending /\ isr \in {"none", "callback"}
      /\ call[Active].pc = "idle"
      /\ call' = [call EXCEPT ![Active] =
                    [pc |-> "now", cb |-> d, timeout |-> timeout, slip |-> 0]]
  BY DEF SetTimeout, hardware
<1>a. ~InNow /\ ~InNow' /\ ReadInv'
  <2>1. ~InNow
    BY <1>0 DEF IInv, ArmedInv
  <2>. QED
    BY <1>0, <2>1, NoReadingTells
<1>1. Active \in Contexts /\ Active' = Active /\ call \in [Contexts -> Calls]
  BY <1>0 DEF Active, Contexts, IInv, TypeInv, TypeOK
<1>2. \A c \in Contexts : c # Active => call'[c] = call[c]
  BY <1>0, <1>1
<1>3. call'[Active].pc = "now" /\ call'[Active].slip = 0
  BY <1>0, <1>1
<1>4. PaceInv'
  <2>1. \A c \in Contexts : call'[c].pc # "idle" => call'[c].slip <= MaxSlip
    BY <1>2, <1>3, Bounds DEF PaceInv
  <2>2. isr' # "callback" => call'["isr"].pc = "idle"
    BY <1>0, <1>2 DEF PaceInv, Active, Contexts
  <2>. QED
    BY <1>0, <1>a, <2>1, <2>2 DEF PaceInv, Updating
<1>5. FreshInv'
  <2>1. TOV => ~(isr = "none" /\ I)
    BY <1>0, <1>a DEF InterruptPending, InterruptsOn
  <2>. QED
    BY <1>0, <1>a, <1>1, <1>3, <2>1 DEF FreshInv, Updating
<1>6. AheadInv'
  <2>1. \A c \in Contexts : call'[c].pc = "insert" => call'[c] = call[c]
    BY <1>2, <1>3
  <2>. QED
    BY <1>0, <2>1 DEF AheadInv, Ahead
<1>7. ClockInv' /\ DueInv' /\ MatchInv'
  BY <1>0 DEF ClockInv, Overflows, DueInv, NotEarly, Distance, Between, MatchInv, HeadDue,
              WillCome, Coming, Updating, Periods
<1>. QED
  BY <1>a, <1>4, <1>5, <1>6, <1>7

\* now() disables interrupts, and reads the counter, within its time.
LEMMA NowStepsKeep ==
  ASSUME IInv, RegInv, Prompt, NowDisable \/ NowRead
  PROVE  RegInv'
<1>. USE DEF RegInv
<1>0. /\ UNCHANGED <<TCNT1, OCR1A, TOV, OCF, OCIE, I, falling, timer_cycles, inited, updated,
                     queue, call, isr, upd, clock, off>>
      /\ TCNT1 \in 0 .. (Lo - 1) /\ TOV \in BOOLEAN /\ reading \in Readings
      /\ call \in [Contexts -> Calls] /\ "main" \in Contexts
  BY DEF NowDisable, NowRead, hardware, IInv, TypeInv, TypeOK, Contexts
<1>1. ClockInv' /\ AheadInv' /\ DueInv' /\ MatchInv'
  BY <1>0 DEF ClockInv, Overflows, AheadInv, Ahead, DueInv, NotEarly, Distance, Between,
              MatchInv, HeadDue, WillCome, Coming, Updating, Periods
<1>2. CASE NowDisable
  <2>1. /\ reading' = [at |-> "off", slip |-> 0, age |-> 0]
        /\ ~(TOV /\ (~I \/ isr # "none"))
    BY <1>2 DEF NowDisable, OverflowLeft
  <2>2. reading'.at = "off" /\ reading'.slip = 0
    BY <2>1
  <2>3. PaceInv'
    BY <1>0, <2>2, Bounds DEF PaceInv, Updating
  <2>4. FreshInv'
    BY <1>0, <2>1 DEF FreshInv, Updating, Active
  <2>5. ReadInv'
    BY <2>2 DEF ReadInv
  <2>. QED
    BY <1>1, <2>3, <2>4, <2>5
<1>3. CASE NowRead
  <2>1. /\ reading.at = "off" /\ InNow /\ InNow'
        /\ reading' = [at |-> "read", lo |-> TCNT1, hi |-> timer_cycles,
                        slip |-> reading.slip, age |-> 0]
    BY <1>3 DEF NowRead, InNow
  <2>2. reading.slip \in Nat /\ reading.slip <= MaxSlip
    BY <1>0, <2>1 DEF Readings, NoReading, PaceInv
  <2>3. PaceInv'
    BY <1>0, <2>1, <2>2 DEF PaceInv, Updating
  <2>4. FreshInv'
    BY <1>0, <2>1 DEF FreshInv, Updating, Active
  <2>5. TOV => TCNT1 < Lo \div 2
    <3>1. CASE isr # "none" \/ ~I
      BY <1>0, <2>1, <2>2, <3>1, Bounds, WideProduct DEF FreshInv, Prompt
    <3>2. CASE isr = "none" /\ I
      <4>1. call["main"].pc = "now"
        BY <2>1, <3>2 DEF IInv, ArmedInv, Active
      <4>2. TOV => TCNT1 <= MaxSlip + call["main"].slip
        BY <3>2, <4>1 DEF FreshInv
      <4>3. call["main"].slip \in Nat /\ call["main"].slip <= MaxSlip
        BY <1>0, <4>1 DEF Calls, NoCall, PaceInv
      <4>. QED
        BY <1>0, <4>2, <4>3, Bounds, WideProduct DEF Prompt
    <3>. QED
      BY <3>1, <3>2
  <2>6. ReadInv'
    BY <1>0, <2>1, <2>2, <2>5 DEF ReadInv
  <2>. QED
    BY <1>1, <2>3, <2>4, <2>6
<1>. QED
  BY <1>2, <1>3

\* The time of the new timeout is its delay from the time now() returned, and what
\* is left of it is the less for the end of now().
LEMMA SetTimeoutNowKeeps ==
  ASSUME IInv, RegInv, Prompt, Near, SetTimeoutNow
  PROVE  RegInv'
<1>. USE DEF RegInv
<1>. DEFINE f == call[Active]
            left == LeftAfter(f.timeout, reading.age)
            g == [pc |-> "insert", cb |-> f.cb, slip |-> f.slip, left |-> left,
                  when |-> (Now(reading) + f.timeout) % Wide]
<1>0. /\ UNCHANGED <<TCNT1, OCR1A, TOV, OCF, OCIE, I, falling, timer_cycles, inited, updated,
                     queue, isr, upd, clock, off>>
      /\ reading.at = "read" /\ reading' = NoReading /\ InNow /\ f.pc = "now"
      /\ call' = [call EXCEPT ![Active] = g]
  BY DEF SetTimeoutNow, NowReturns, hardware, InNow
<1>1. /\ Active \in Contexts /\ Active' = Active /\ call \in [Contexts -> Calls]
      /\ reading \in Readings /\ TCNT1 \in Nat /\ TOV \in BOOLEAN
  BY <1>0, Bounds DEF Active, Contexts, IInv, TypeInv, TypeOK
<1>2. \A c \in Contexts : c # Active => call'[c] = call[c]
  BY <1>0, <1>1
<1>3. f.timeout \in Delays /\ f.slip \in Nat /\ f.slip <= MaxSlip
  BY <1>0, <1>1 DEF Calls, NoCall, PaceInv
<1>4. call'[Active] = g
  BY <1>0, <1>1
<1>a. reading.age \in Nat /\ reading.slip \in Nat /\ reading.slip <= MaxSlip
  BY <1>0, <1>1, ReadType DEF PaceInv
<1>5. Now(reading) = (clock - reading.age) % Wide
  BY <1>0, NowTells DEF NowExact
<1>b. f.timeout \in Int
  BY <1>3, DelayType
<1>c. left \in Int /\ (left <= f.timeout \/ left <= 0)
  BY <1>a, <1>b, Bounds DEF LeftAfter
<1>d. left \in Int /\ (left > 0 => left = f.timeout - reading.age)
  BY <1>a, <1>b, Bounds DEF LeftAfter
<1>e. ~InNow' /\ ReadInv'
  BY <1>0, NoReadingTells
<1>f. TOV => TCNT1 <= MaxSlip + f.slip
  <2>1. CASE isr # "none" \/ ~I
    <3>1. TOV => TCNT1 <= reading.slip
      BY <1>0, <2>1 DEF FreshInv
    <3>. QED
      BY <1>1, <1>3, <1>a, <3>1, Bounds
  <2>2. CASE isr = "none" /\ I
    BY <1>0, <2>2 DEF FreshInv, f, Active
  <2>. QED
    BY <2>1, <2>2
<1>g. ~Updating /\ (isr # "callback" => call["isr"].pc = "idle")
  BY <1>0 DEF IInv, ArmedInv
<1>h. 0 + Lo + 2 * MaxSlip < Wide \div 2
  BY <1>3, <1>b, Bounds, WideType, DelaysAssumption DEF Near, Wide
<1>. HIDE DEF f, left
<1>6. /\ call'[Active].pc = "insert" /\ call'[Active].slip = f.slip
      /\ call'[Active].left = left
      /\ call'[Active].when = (Now(reading) + f.timeout) % Wide
  BY <1>4
<1>. HIDE DEF g
<1>7. PaceInv'
  <2>1. \A c \in Contexts : call'[c].pc # "idle" => call'[c].slip <= MaxSlip
    BY <1>1, <1>2, <1>3, <1>6 DEF PaceInv
  <2>2. isr' # "callback" => call'["isr"].pc = "idle"
    <3>1. isr # "callback" => Active = "main"
      BY <1>0, <1>g DEF Active, f
    <3>. QED
      BY <1>0, <1>2, <1>g, <3>1 DEF Contexts
  <2>. QED
    BY <1>0, <1>e, <2>1, <2>2 DEF PaceInv, Updating
<1>8. FreshInv'
  <2>1. isr = "none" => call'["main"].pc = "insert"
    BY <1>6 DEF Active
  <2>2. ~Updating'
    BY <1>0, <1>g DEF Updating
  <2>. QED
    BY <1>0, <1>1, <1>e, <1>6, <1>f, <2>1, <2>2 DEF FreshInv
<1>9. AheadInv'
  <2>0. left > 0 => (Now(reading) + f.timeout) % Wide = (clock + left) % Wide
    <3>1. clock \in Int /\ Wide \in Nat \ {0}
      BY WideType DEF IInv, TypeInv, TypeOK, Times
    <3>2. PICK x \in Int : x = clock - reading.age
      BY <1>a, <3>1
    <3>3. ((x % Wide) + f.timeout) % Wide = (x + f.timeout) % Wide
      BY <1>b, <3>1, ModAdd, Zenon
    <3>4. left > 0 => x + f.timeout = clock + left
      <4>1. PICK n \in Int : n = left
        BY <1>d
      <4>2. PICK d \in Int, a \in Int : d = f.timeout /\ a = reading.age
        BY <1>a, <1>b
      <4>. QED
        BY <1>d, <3>1, <3>2, <4>1, <4>2
    <3>. QED
      BY <1>5, <3>2, <3>3, <3>4
  <2>3. left + Lo + 2 * MaxSlip < Wide \div 2
    <3>1. f.timeout + Lo + 2 * MaxSlip < Wide \div 2
      BY <1>3 DEF Near
    <3>. QED
      BY <1>b, <1>c, <1>d, <1>h, <3>1, Bounds, WideType
  <2>1. ASSUME NEW c \in Contexts, call'[c].pc = "insert" PROVE Ahead(call[c])'
    <3>1. CASE c = Active
      BY <1>0, <1>6, <2>0, <2>3, <3>1 DEF Ahead
    <3>2. CASE c # Active
      BY <1>0, <1>2, <2>1, <3>2 DEF AheadInv, Ahead
    <3>. QED
      BY <3>1, <3>2
  <2>. QED
    BY <1>0, <2>1 DEF AheadInv, Ahead
<1>10. ClockInv' /\ DueInv' /\ MatchInv'
  BY <1>0 DEF ClockInv, Overflows, DueInv, NotEarly, Distance, Between, MatchInv, HeadDue,
              WillCome, Coming, Updating, Periods
<1>. QED
  BY <1>e, <1>7, <1>8, <1>9, <1>10

\* Where the entries of a list are after another has entered it.
LEMMA InsertedPlaces ==
  ASSUME TypeOK, NEW p \in 1 .. (Len(queue) + 1), NEW e \in Entries
  PROVE  /\ DOMAIN Inserted(p, e) = 1 .. (Len(queue) + 1)
         /\ DOMAIN queue = 1 .. Len(queue) /\ Len(queue) \in Nat
         /\ \A i \in 1 .. (p - 1) : i \in DOMAIN queue /\ Inserted(p, e)[i] = queue[i]
         /\ Inserted(p, e)[p] = e
         /\ \A i \in (p + 1) .. (Len(queue) + 1) :
              i - 1 \in DOMAIN queue /\ Inserted(p, e)[i] = queue[i - 1]
<1>. DEFINE a == SubSeq(queue, 1, p - 1)
            b == SubSeq(queue, p, Len(queue))
            d == a \o <<e>>
<1>1. queue \in Seq(Entries) /\ Len(queue) \in Nat /\ p \in Nat
  BY DEF TypeOK
<1>2. /\ a \in Seq(Entries) /\ Len(a) = p - 1
      /\ \A i \in 1 .. (p - 1) : a[i] = queue[i]
  BY <1>1, SubSeqProperties
<1>3. /\ b \in Seq(Entries) /\ Len(b) = Len(queue) - p + 1
      /\ \A i \in 1 .. (Len(queue) - p + 1) : b[i] = queue[p + i - 1]
  BY <1>1, SubSeqProperties
<1>. HIDE DEF a, b
<1>4. /\ d \in Seq(Entries) /\ Len(d) = p
      /\ \A i \in 1 .. (p - 1) : d[i] = a[i]
      /\ d[p] = e
  BY <1>1, <1>2
<1>. HIDE DEF d
<1>5. Inserted(p, e) = d \o b
  BY DEF Inserted, a, b, d
<1>6. /\ Len(d \o b) = Len(queue) + 1 /\ d \o b \in Seq(Entries)
      /\ \A i \in 1 .. p : (d \o b)[i] = d[i]
      /\ \A i \in (p + 1) .. (Len(queue) + 1) : (d \o b)[i] = b[i - p]
  BY <1>1, <1>3, <1>4
<1>. DEFINE s == d \o b
<1>. HIDE DEF s
<1>7. /\ s \in Seq(Entries) /\ DOMAIN s = 1 .. (Len(queue) + 1)
      /\ DOMAIN queue = 1 .. Len(queue)
  BY <1>1, <1>6 DEF s
<1>8. ASSUME NEW i \in 1 .. (p - 1) PROVE i \in DOMAIN queue /\ s[i] = queue[i]
  <2>1. i \in 1 .. p /\ i \in DOMAIN queue
    BY <1>1, <1>7
  <2>. QED
    BY <1>2, <1>4, <1>6, <2>1 DEF s
<1>9. s[p] = e
  BY <1>1, <1>4, <1>6 DEF s
<1>10. ASSUME NEW i \in (p + 1) .. (Len(queue) + 1)
       PROVE  i - 1 \in DOMAIN queue /\ s[i] = queue[i - 1]
  <2>1. i - p \in 1 .. (Len(queue) - p + 1) /\ i - 1 \in DOMAIN queue /\ p + (i - p) - 1 = i - 1
    BY <1>1, <1>7
  <2>2. s[i] = b[i - p]
    BY <1>6 DEF s
  <2>3. b[i - p] = queue[p + (i - p) - 1]
    BY <1>3, <2>1
  <2>. QED
    BY <2>1, <2>2, <2>3
<1>11. s = Inserted(p, e)
  BY <1>5 DEF s
<1>. QED
  BY <1>1, <1>7, <1>8, <1>9, <1>10, <1>11

\* A list with a new entry has the entries it had, and the new one.
LEMMA InsertedTells ==
  ASSUME TypeOK, NEW p \in 1 .. (Len(queue) + 1), NEW e \in Entries
  PROVE  /\ \A i \in DOMAIN Inserted(p, e) :
              \/ Inserted(p, e)[i] = e
              \/ \E j \in DOMAIN queue : Inserted(p, e)[i] = queue[j]
         /\ Inserted(p, e) # <<>>
         /\ p = 1 => Inserted(p, e)[1] = e
         /\ p # 1 => queue # <<>> /\ Inserted(p, e)[1] = queue[1]
<1>. DEFINE s == Inserted(p, e)
<1>. HIDE DEF s
<1>1. /\ DOMAIN s = 1 .. (Len(queue) + 1) /\ DOMAIN queue = 1 .. Len(queue) /\ Len(queue) \in Nat
      /\ \A i \in 1 .. (p - 1) : i \in DOMAIN queue /\ s[i] = queue[i]
      /\ s[p] = e
      /\ \A i \in (p + 1) .. (Len(queue) + 1) : i - 1 \in DOMAIN queue /\ s[i] = queue[i - 1]
  BY InsertedPlaces DEF s
<1>2. ASSUME NEW i \in DOMAIN s PROVE s[i] = e \/ \E j \in DOMAIN queue : s[i] = queue[j]
  <2>1. i \in 1 .. (p - 1) \/ i = p \/ i \in (p + 1) .. (Len(queue) + 1)
    BY <1>1
  <2>. QED
    BY <1>1, <2>1
<1>3. s # <<>>
  <2>1. 1 \in DOMAIN s
    BY <1>1
  <2>. QED
    BY <2>1
<1>4. p # 1 => queue # <<>> /\ s[1] = queue[1]
  <2>. SUFFICES ASSUME p # 1 PROVE queue # <<>> /\ s[1] = queue[1]
    OBVIOUS
  <2>1. 1 \in 1 .. (p - 1)
    BY <1>1
  <2>. QED
    BY <1>1, <2>1
<1>. QED
  BY <1>1, <1>2, <1>3, <1>4 DEF s

\* update_timeouts arms the head of the list that is there after it, in a state in
\* which everything it finds agrees.
LEMMA ArmingKeeps ==
  ASSUME TypeOK, inited, ~Updating, NEW c \in 0 .. (Hi - 1), NEW v \in {0, 1},
         clock = ((c + v) % Hi) * Lo + TCNT1, v = 1 => TCNT1 <= 2 * MaxSlip,
         queue' \in Seq(Entries), queue' # <<>> => Ahead(queue'[1]),
         UpdateTimeouts(queue', c), UNCHANGED <<TCNT1, clock>>,
         timer_cycles' = c, TOV' \in BOOLEAN
  PROVE  /\ Updating' => upd'.slip = 0 /\ ~OCIE'
         /\ DueInv' /\ MatchInv'
<1>1. TCNT1 \in 0 .. (Lo - 1)
  BY DEF TypeOK
<1>2. /\ OCIE' = FALSE
      /\ \/ upd' = NoUpdate
         \/ upd'.at = "write" /\ upd'.slip = 0 /\ queue' # <<>>
      /\ upd'.at = "write" => \/ queue'[1].left <= 0
                              \/ queue'[1].left <= Distance(upd'.ocra)
      /\ queue' # <<>> /\ Periods(queue'[1].when, c) <= 0 =>
           /\ upd'.at = "write"
           /\ \/ Distance(upd'.ocra) = MinDelay
              \/ upd'.ocra = queue'[1].when % Lo /\ TCNT1 + MinDelay <= upd'.ocra
  BY <1>1, UpdateTells
<1>3. Updating' => upd'.slip = 0 /\ ~OCIE'
  BY <1>2 DEF Updating, NoUpdate
<1>4. DueInv'
  <2>1. upd'.at # "enable"
    BY <1>2 DEF NoUpdate
  <2>2. upd'.at = "write" => NotEarly(upd.ocra)'
    BY <1>2 DEF NotEarly, Distance
  <2>. QED
    BY <1>2, <2>1, <2>2 DEF DueInv
<1>5. MatchInv'
  <2>. SUFFICES ASSUME HeadDue'
                PROVE  upd'.at = "write" /\ WillCome(upd.ocra)'
    BY DEF MatchInv, Updating
  <2>1. queue' # <<>> /\ Periods(queue'[1].when, c) <= 0
    BY DEF HeadDue, Periods
  <2>2. upd'.at = "write"
    BY <1>2, <2>1
  <2>3. upd'.slip = 0
    BY <1>2, <2>2 DEF NoUpdate
  <2>4. \/ Distance(upd'.ocra) = MinDelay - 0
        \/ upd'.ocra = queue'[1].when % Lo /\ TCNT1 + MinDelay <= upd'.ocra + 0
    <3>1. upd'.ocra = queue'[1].when % Lo => upd'.ocra \in Int
      <4>1. queue'[1] \in Entries
        BY <2>1
      <4>2. queue'[1].when \in Times
        BY <4>1 DEF Entries
      <4>. QED
        BY <4>2, Bounds, WideType DEF Times
    <3>. QED
      BY <1>2, <2>1, <3>1, Bounds
  <2>. QED
    BY <2>2, <2>3, <2>4 DEF WillCome, Distance
<1>. QED
  BY <1>3, <1>4, <1>5

\* The new timeout enters the list; if it is the first, it is armed.
LEMMA InsertKeeps ==
  ASSUME IInv, RegInv, SetTimeoutInsert
  PROVE  RegInv'
<1>. USE DEF RegInv
<1>. DEFINE f == call[Active]
            p == Position(f.when)
            e == [cb |-> f.cb, when |-> f.when, left |-> f.left]
<1>0. /\ UNCHANGED <<TCNT1, OCR1A, TOV, OCF, I, falling, timer_cycles, inited, reading, isr,
                     clock, off>>
      /\ ~Updating /\ f.pc = "insert"
      /\ queue' = Inserted(p, e)
      /\ IF p = 1 THEN UpdateTimeouts(queue', timer_cycles)
                  ELSE UNCHANGED <<OCIE, updated, upd>>
      /\ call' = [call EXCEPT ![Active] = NoCall]
  BY DEF SetTimeoutInsert
<1>a. ~InNow' /\ ReadInv' /\ (isr # "callback" => call["isr"].pc = "idle")
  <2>1. ~InNow
    BY <1>0 DEF IInv, ArmedInv, Active
  <2>. QED
    BY <1>0, <2>1, NoReadingTells DEF IInv, ArmedInv
<1>1. /\ Active \in Contexts /\ Active' = Active /\ call \in [Contexts -> Calls]
      /\ TypeOK /\ TypeOK'
  BY <1>0, InsertInvariant DEF Active, Contexts, IInv, TypeInv, TypeOK
<1>2. \A c \in Contexts : c # Active => call'[c] = call[c]
  BY <1>0, <1>1
<1>3. call'[Active] = NoCall /\ NoCall.pc = "idle"
  BY <1>0, <1>1 DEF NoCall
<1>4. f \in [pc : {"insert"}, cb : Clients, when : Times, left : Lefts, slip : Nat]
  BY <1>0, <1>1 DEF Calls, NoCall
<1>5. p \in 1 .. (Len(queue) + 1)
  BY <1>1, <1>4, PositionType
<1>6. TOV => TCNT1 <= MaxSlip + f.slip
  BY <1>0 DEF FreshInv
<1>7. f.slip <= MaxSlip
  BY <1>0, <1>1 DEF PaceInv
<1>8. Ahead(f)
  BY <1>0, <1>1 DEF AheadInv
<1>. HIDE DEF f
<1>9. e \in Entries /\ Ahead(e)
  BY <1>4, <1>8 DEF Entries, Ahead
<1>. HIDE DEF p, e
<1>10. /\ \A i \in DOMAIN queue' :
            queue'[i] = e \/ \E j \in DOMAIN queue : queue'[i] = queue[j]
       /\ queue' # <<>>
       /\ p = 1 => queue'[1] = e
       /\ p # 1 => queue # <<>> /\ queue'[1] = queue[1]
  BY <1>0, <1>1, <1>5, <1>9, InsertedTells
<1>12. AheadInv'
  <2>1. ASSUME NEW i \in DOMAIN queue' PROVE Ahead(queue[i])'
    <3>1. Ahead(queue'[i])
      BY <1>9, <1>10 DEF AheadInv
    <3>. QED
      BY <1>0, <3>1 DEF Ahead
  <2>2. ASSUME NEW c \in Contexts, call'[c].pc = "insert" PROVE Ahead(call[c])'
    <3>1. call'[c] = call[c] /\ call[c].pc = "insert"
      BY <1>2, <1>3, <2>2
    <3>. QED
      BY <1>0, <3>1 DEF Ahead, AheadInv
  <2>. QED
    BY <2>1, <2>2 DEF AheadInv
<1>13. ClockInv'
  BY <1>0 DEF ClockInv, Overflows
<1>14. /\ Updating' => upd'.slip = 0 /\ ~OCIE'
       /\ DueInv' /\ MatchInv'
  <2>1. CASE p = 1
    <3>1. UpdateTimeouts(queue', timer_cycles) /\ Ahead(queue'[1])
      BY <1>0, <1>9, <1>10, <2>1
    <3>2. /\ inited /\ timer_cycles \in 0 .. (Hi - 1) /\ Overflows \in {0, 1}
          /\ clock = ((timer_cycles + Overflows) % Hi) * Lo + TCNT1
          /\ TOV' \in BOOLEAN /\ queue' \in Seq(Entries)
      BY <1>1 DEF ClockInv, Overflows, TypeOK
    <3>3. Overflows = 1 => TCNT1 <= 2 * MaxSlip
      BY <1>1, <1>4, <1>6, <1>7, Bounds DEF Overflows, TypeOK
    <3>. HIDE DEF RegInv
    <3>. QED
      BY <1>0, <1>1, <3>1, <3>2, <3>3, ArmingKeeps
  <2>2. CASE p # 1
    <3>1. queue' # <<>> /\ queue # <<>> /\ queue'[1] = queue[1]
      BY <1>10, <2>2
    <3>2. UNCHANGED <<OCIE, updated, upd>>
      BY <1>0, <2>2
    <3>. QED
      BY <1>0, <3>1, <3>2 DEF DueInv, NotEarly, Distance, Between, MatchInv, HeadDue,
              WillCome, Coming, Updating, Periods
  <2>. QED
    BY <2>1, <2>2
<1>15. PaceInv'
  <2>1. \A c \in Contexts : call'[c].pc # "idle" => call'[c].slip <= MaxSlip
    BY <1>2, <1>3 DEF PaceInv
  <2>2. isr' # "callback" => call'["isr"].pc = "idle"
    BY <1>0, <1>2, <1>3 DEF PaceInv, Contexts
  <2>. QED
    BY <1>0, <1>a, <1>14, <2>1, <2>2, Bounds DEF PaceInv, Updating
<1>16. FreshInv'
  <2>1. TOV => TCNT1 <= 2 * MaxSlip /\ TCNT1 <= 3 * MaxSlip
    BY <1>1, <1>4, <1>6, <1>7, Bounds, SMTT(40) DEF TypeOK
  <2>2. isr = "none" => call'["main"].pc = "idle"
    BY <1>3 DEF Active
  <2>3. TOV /\ Updating' => TCNT1 <= 2 * MaxSlip + upd'.slip
    BY <1>14, <2>1, Bounds
  <2>. QED
    BY <1>0, <1>a, <1>1, <1>3, <2>1, <2>2, <2>3 DEF FreshInv, Updating
<1>. QED
  BY <1>a, <1>12, <1>13, <1>14, <1>15, <1>16

\* The registers are written in time.
LEMMA WritesKeep ==
  ASSUME IInv, RegInv, Prompt, WriteCompare \/ EnableCompare
  PROVE  RegInv'
<1>. USE DEF RegInv
<1>0. /\ TCNT1 \in 0 .. (Lo - 1) /\ OCR1A \in 0 .. (Lo - 1) /\ upd \in Updates
      /\ call \in [Contexts -> Calls] /\ queue \in Seq(Entries)
  BY DEF IInv, TypeInv, TypeOK
<1>1. UNCHANGED <<TCNT1, TOV, I, falling, timer_cycles, inited, updated, queue, call,
                  reading, isr, clock, off>>
  BY DEF WriteCompare, EnableCompare
<1>a. ~InNow' /\ ReadInv'
  <2>1. ~InNow
    BY DEF WriteCompare, EnableCompare, Updating, IInv, ArmedInv
  <2>. QED
    BY <1>1, <2>1, NoReadingTells
<1>2. ClockInv' /\ AheadInv'
  BY <1>1 DEF ClockInv, Overflows, AheadInv, Ahead
<1>3. HeadDue' <=> HeadDue
  BY <1>1 DEF HeadDue, Periods
<1>4. CASE WriteCompare
  <2>1. /\ upd.at = "write" /\ OCR1A' = upd.ocra /\ Updating
        /\ upd' = [at |-> "enable", slip |-> upd.slip]
        /\ UNCHANGED <<OCF, OCIE>>
    BY <1>4 DEF WriteCompare, Updating
  <2>2. upd'.at = "enable" /\ upd'.slip = upd.slip /\ Updating'
    BY <2>1 DEF Updating
  <2>3. PaceInv'
    BY <1>1, <1>a, <2>1, <2>2 DEF PaceInv, Updating
  <2>4. FreshInv'
    BY <1>1, <1>a, <2>1, <2>2 DEF FreshInv, Updating, Active
  <2>5. DueInv'
    BY <1>1, <2>1, <2>2, <2>3 DEF DueInv, NotEarly, Distance, PaceInv
  <2>6. MatchInv'
    BY <1>1, <1>3, <2>1, <2>2 DEF MatchInv, WillCome, Distance, Updating
  <2>. QED
    BY <1>a, <1>2, <2>3, <2>4, <2>5, <2>6
<1>5. CASE EnableCompare
  <2>1. /\ upd.at = "enable" /\ OCF' = FALSE /\ OCIE' = TRUE /\ upd' = NoUpdate /\ Updating
        /\ UNCHANGED OCR1A
    BY <1>5 DEF EnableCompare, ClearMatch, Updating
  <2>2. upd'.at = "none" /\ ~Updating'
    BY <2>1 DEF NoUpdate, Updating
  <2>3. PaceInv'
    BY <1>1, <1>a, <2>2 DEF PaceInv, Updating
  <2>4. FreshInv'
    BY <1>1, <1>a, <2>2 DEF FreshInv, Updating, Active
  <2>5. DueInv'
    BY <1>1, <2>1, <2>2 DEF DueInv, NotEarly, Distance
  <2>6. MatchInv'
    <3>. SUFFICES ASSUME HeadDue PROVE Coming(OCR1A)'
      BY <1>3, <2>1, <2>2 DEF MatchInv
    <3>1. upd.slip \in Nat /\ upd.slip <= MaxSlip
      BY <1>0, <2>1 DEF Updates, NoUpdate, PaceInv
    <3>2. WillCome(OCR1A)
      BY <2>1 DEF MatchInv
    <3>3. CASE Distance(OCR1A) = MinDelay - upd.slip
      <4>1. Distance(OCR1A) <= MinDelay
        BY <3>1, <3>3, Bounds
      <4>. QED
        BY <1>1, <2>1, <4>1 DEF Coming, Distance
    <3>4. CASE OCR1A = queue[1].when % Lo /\ TCNT1 + MinDelay <= OCR1A + upd.slip
      <4>1. TCNT1 <= OCR1A
        BY <1>0, <3>1, <3>4, Bounds DEF Prompt
      <4>. QED
        BY <1>1, <2>1, <3>4, <4>1 DEF Coming
    <3>. QED
      BY <3>2, <3>3, <3>4 DEF WillCome
  <2>. QED
    BY <1>a, <1>2, <2>3, <2>4, <2>5, <2>6
<1>. QED
  BY <1>4, <1>5

\* An overflow is counted, and the head that comes due in the new period is armed.
LEMMA OverflowKeeps ==
  ASSUME IInv, RegInv, NowOverflow \/ OverflowInterrupt
  PROVE  RegInv'
<1>. USE DEF RegInv
<1>0. /\ TypeOK /\ TypeOK' /\ inited /\ ~Updating /\ TOV
      /\ UNCHANGED <<TCNT1, OCR1A, OCF, I, queue, call, reading, isr, clock, off>>
  BY OverflowInvariant DEF NowOverflow, NowDue, OverflowLeft, OverflowInterrupt, InterruptsOn,
     IInv, TypeInv, ClockInv
<1>a. ~InNow' /\ ReadInv'
  <2>1. ~InNow
    BY DEF NowOverflow, NowDue, OverflowInterrupt, InterruptsOn
  <2>. QED
    BY <1>0, <2>1, NoReadingTells
<1>1. /\ TOV' = FALSE /\ timer_cycles' = (timer_cycles + 1) % Hi
      /\ UpdateTimeouts(queue, timer_cycles') /\ inited' = inited
  BY <1>0 DEF NowOverflow, OverflowInterrupt, TimerOverflow, CountOverflow
<1>2. timer_cycles' \in 0 .. (Hi - 1) /\ timer_cycles \in 0 .. (Hi - 1)
  BY <1>0 DEF TypeOK
<1>3. clock = timer_cycles' * Lo + TCNT1 /\ timer_cycles' % Hi = timer_cycles'
  BY <1>0, <1>1, <1>2, WideProduct, ModSmall DEF ClockInv, Overflows
<1>4. ClockInv'
  <2>1. Overflows' = 0
    BY <1>1 DEF Overflows
  <2>2. \A c \in 0 .. (Hi - 1), v \in {0, 1} : v = 0 => c + v = c
    BY WideProduct
  <2>3. timer_cycles' + Overflows' = timer_cycles'
    BY <1>2, <2>1, <2>2
  <2>. QED
    BY <1>0, <1>1, <1>3, <2>3 DEF ClockInv
<1>5. AheadInv'
  BY <1>0 DEF AheadInv, Ahead
<1>6. /\ Updating' => upd'.slip = 0 /\ ~OCIE'
      /\ DueInv' /\ MatchInv'
  <2>1. queue' # <<>> => Ahead(queue'[1])
    BY <1>0 DEF AheadInv, TypeOK
  <2>2. queue' \in Seq(Entries) /\ TOV' \in BOOLEAN /\ UpdateTimeouts(queue', timer_cycles')
    BY <1>0, <1>1 DEF TypeOK
  <2>. HIDE DEF RegInv
  <2>3. ASSUME NEW c \in 0 .. (Hi - 1), NEW v \in {0, 1}, c = timer_cycles', v = 0
        PROVE  /\ Updating' => upd'.slip = 0 /\ ~OCIE'
               /\ DueInv' /\ MatchInv'
    <3>a. \A x \in 0 .. (Hi - 1), y \in {0, 1} : y = 0 => x + y = x
      BY WideProduct
    <3>1. c + v = c
      BY <2>3, <3>a
    <3>2. clock = ((c + v) % Hi) * Lo + TCNT1 /\ UpdateTimeouts(queue', c)
      BY <1>3, <2>2, <2>3, <3>1
    <3>. QED
      BY <1>0, <2>1, <2>2, <2>3, <3>2, ArmingKeeps
  <2>. QED
    BY <1>2, <2>3
<1>7. PaceInv'
  BY <1>0, <1>a, <1>6, Bounds DEF PaceInv, Updating
<1>8. FreshInv'
  BY <1>1 DEF FreshInv
<1>. QED
  BY <1>a, <1>4, <1>5, <1>6, <1>7, <1>8

\* The steps of the compare interrupt: a head that is taken off the list leaves
\* "updated" unset until update_timeouts has run again.
LEMMA CompareKeeps ==
  ASSUME IInv, RegInv, \/ CompareInterrupt \/ CallbackReturns \/ LoopAgain \/ LoopExit
  PROVE  RegInv'
<1>. USE DEF RegInv
<1>0. /\ TypeOK /\ TypeOK' /\ inited /\ ~Updating /\ TOV \in BOOLEAN
      /\ call \in [Contexts -> Calls] /\ "isr" \in Contexts /\ "main" \in Contexts
      /\ UNCHANGED <<TCNT1, OCR1A, TOV, I, falling, timer_cycles, inited, call, clock>>
  <2>1. ~Updating
    BY DEF CompareInterrupt, CallbackReturns, LoopAgain, LoopExit, NowReturns, InterruptsOn,
       InNow, IInv, ArmedInv
  <2>2. TypeOK /\ TypeOK' /\ inited /\ TOV \in BOOLEAN /\ call \in [Contexts -> Calls]
    BY CompareInvariant DEF IInv, TypeInv, TypeOK, ClockInv
  <2>3. UNCHANGED <<TCNT1, OCR1A, TOV, I, falling, timer_cycles, inited, call, clock>>
    BY DEF CompareInterrupt, CallbackReturns, LoopAgain, LoopExit, hardware
  <2>. QED
    BY <2>1, <2>2, <2>3 DEF Contexts
<1>a. ~InNow' /\ ReadInv'
  <2>1. \/ reading' = NoReading
        \/ ~InNow /\ reading' = reading
    <3>1. CASE CompareInterrupt
      BY <3>1 DEF CompareInterrupt, InterruptsOn
    <3>2. CASE CallbackReturns
      BY <1>0, <3>2 DEF CallbackReturns, IInv, ArmedInv, Active
    <3>3. CASE LoopAgain \/ LoopExit
      BY <3>3 DEF LoopAgain, LoopExit, NowReturns
    <3>. QED
      BY <3>1, <3>2, <3>3
  <2>. QED
    BY <2>1, NoReadingTells
<1>1. ClockInv'
  BY <1>0 DEF ClockInv, Overflows
<1>2. CASE CompareInterrupt \/ LoopAgain
  <2>1. /\ queue # <<>> /\ queue' = Tail(queue) /\ isr' = "callback" /\ updated' = FALSE
        /\ upd' = upd /\ isr # "callback" /\ (off' = 0 \/ (off' = off /\ isr = "loop"))
        /\ CompareInterrupt => I /\ isr = "none" /\ OCIE' = FALSE
    <3>1. CASE CompareInterrupt
      <4>1. I /\ isr = "none" /\ OCIE /\ OCIE' = FALSE /\ off' = 0 /\ upd' = upd /\ RunHead
        BY <3>1 DEF CompareInterrupt, InterruptsOn
      <4>2. queue # <<>>
        BY <4>1 DEF IInv, ArmedInv
      <4>. QED
        BY <4>1, <4>2 DEF RunHead
    <3>2. CASE LoopAgain
      BY <3>2 DEF LoopAgain, CompareInterrupt, RunHead, InterruptsOn, HeadPast
    <3>. QED
      BY <1>2, <3>1, <3>2
  <2>2. \A i \in DOMAIN queue' : i + 1 \in DOMAIN queue /\ queue'[i] = queue[i + 1]
    BY <1>0, <2>1 DEF TypeOK
  <2>3. AheadInv'
    BY <1>0, <2>2 DEF AheadInv, Ahead
  <2>4. PaceInv'
    <3>1. I
      <4>1. isr # "none" => I
        BY DEF PaceInv
      <4>. QED
        BY <1>2, <2>1, <4>1 DEF LoopAgain
    <3>2. off' <= MaxOff
      BY <2>1, Bounds DEF PaceInv
    <3>. QED
      BY <1>0, <1>a, <2>1, <3>1, <3>2 DEF PaceInv, Updating
  <2>5. FreshInv'
    <3>1. call'["isr"].pc = "idle" /\ Active' = "isr"
      BY <1>0, <2>1 DEF PaceInv, Active
    <3>2. CASE CompareInterrupt
      <4>1. off' = 0 /\ I /\ isr = "none"
        BY <2>1, <3>2 DEF CompareInterrupt
      <4>2. TOV => TCNT1 <= MaxOff \/ TCNT1 <= 3 * MaxSlip
        BY <4>1 DEF FreshInv
      <4>3. TCNT1 \in Nat
        BY <1>0, Bounds DEF TypeOK
      <4>4. TOV => TCNT1 <= MaxOff + 3 * MaxSlip + off'
        BY <4>1, <4>2, <4>3, Bounds
      <4>. QED
        BY <1>0, <1>a, <2>1, <3>1, <4>4 DEF FreshInv
    <3>3. CASE LoopAgain
      <4>1. off' = off /\ isr = "loop"
        BY <3>3 DEF LoopAgain
      <4>. QED
        BY <1>0, <1>a, <2>1, <3>1, <4>1 DEF FreshInv
    <3>. QED
      BY <1>2, <3>2, <3>3
  <2>6. DueInv'
    BY <1>0, <2>1 DEF DueInv, Updating
  <2>7. MatchInv'
    BY <1>0, <2>1 DEF MatchInv, Updating
  <2>. QED
    BY <1>a, <1>1, <2>3, <2>4, <2>5, <2>6, <2>7
<1>3. CASE CallbackReturns
  <2>1. /\ isr = "callback" /\ call["isr"].pc = "idle" /\ isr' = "loop"
        /\ UNCHANGED <<OCF, OCIE, updated, queue, upd, off>>
    BY <1>3 DEF CallbackReturns, hardware
  <2>2. AheadInv' /\ DueInv' /\ MatchInv'
    BY <1>0, <2>1 DEF AheadInv, Ahead, DueInv, NotEarly, Distance, MatchInv, HeadDue, Coming,
       Updating, Periods
  <2>3. PaceInv'
    BY <1>0, <1>a, <2>1 DEF PaceInv, Updating
  <2>4. FreshInv'
    BY <1>0, <1>a, <2>1 DEF FreshInv, Updating, Active
  <2>. QED
    BY <1>a, <1>1, <2>2, <2>3, <2>4
<1>4. CASE LoopExit
  <2>1. /\ isr = "loop" /\ isr' = "none" /\ off' = 0 /\ Rearm /\ InNow
        /\ UNCHANGED <<OCF, queue>>
    BY <1>4 DEF LoopExit, NowReturns, InNow
  <2>6. TOV => TCNT1 <= MaxSlip
    <3>1. TCNT1 \in Nat /\ reading \in Readings
      BY <1>0, Bounds DEF TypeOK
    <3>2. reading.slip \in Nat /\ reading.slip <= MaxSlip
      BY <2>1, <3>1 DEF Readings, NoReading, InNow, PaceInv
    <3>. QED
      BY <2>1, <3>1, <3>2, Bounds DEF FreshInv
  <2>7. TCNT1 \in Nat /\ I \in BOOLEAN
    BY <1>0, Bounds DEF TypeOK
  <2>2. AheadInv'
    BY <1>0, <2>1 DEF AheadInv, Ahead
  <2>4. /\ Updating' => upd'.slip = 0 /\ ~OCIE'
        /\ DueInv' /\ MatchInv'
    <3>1. CASE updated
      <4>1. UNCHANGED <<OCIE, updated, upd>>
        BY <2>1, <3>1 DEF Rearm
      <4>. QED
        BY <1>0, <2>1, <3>1, <4>1 DEF DueInv, NotEarly, Distance, MatchInv, HeadDue, Coming,
           Updating, Periods
    <3>2. CASE ~updated
      <4>1. UpdateTimeouts(queue', timer_cycles)
        BY <2>1, <3>2 DEF Rearm
      <4>2. queue' # <<>> => Ahead(queue'[1])
        BY <1>0, <2>1 DEF AheadInv, TypeOK
      <4>3. Overflows \in {0, 1} /\ (Overflows = 1 => TCNT1 <= 2 * MaxSlip)
        BY <1>0, <2>6, <2>7, Bounds DEF Overflows
      <4>4. clock = ((timer_cycles + Overflows) % Hi) * Lo + TCNT1
        BY DEF ClockInv
      <4>5. timer_cycles \in 0 .. (Hi - 1) /\ queue' \in Seq(Entries) /\ TOV' \in BOOLEAN
        BY <1>0 DEF TypeOK
      <4>. HIDE DEF RegInv
      <4>. QED
        BY <1>0, <4>1, <4>2, <4>3, <4>4, <4>5, ArmingKeeps
    <3>. QED
      BY <3>1, <3>2
  <2>5. PaceInv'
    BY <1>0, <1>a, <2>1, <2>4, Bounds DEF PaceInv, Updating, IInv, ArmedInv
  <2>3. FreshInv'
    <3>1. TOV => TCNT1 <= 3 * MaxSlip
      BY <2>1, <2>6, <2>7, Bounds
    <3>2. I' /\ Active' = "main"
      BY <1>0, <2>1 DEF PaceInv, Active
    <3>3. TOV /\ call["main"].pc \in {"now", "insert"} => TCNT1 <= MaxSlip + call["main"].slip
      <4>1. call["main"].pc \in {"now", "insert"} => call["main"].slip \in Nat
        BY <1>0 DEF Calls, NoCall
      <4>. QED
        BY <2>6, <2>7, <4>1, Bounds
    <3>4. TOV /\ Updating' => TCNT1 <= 2 * MaxSlip + upd'.slip
      BY <2>4, <2>6, <2>7, Bounds
    <3>. QED
      BY <1>0, <1>a, <2>1, <3>1, <3>2, <3>3, <3>4 DEF FreshInv, Updating
  <2>. QED
    BY <1>a, <1>1, <2>2, <2>3, <2>4, <2>5
<1>. QED
  BY <1>2, <1>3, <1>4

LEMMA SectionsKeep ==
  ASSUME IInv, RegInv, Cli \/ Sei
  PROVE  RegInv'
<1>. USE DEF RegInv
<1>a. off \in Nat /\ TCNT1 \in Nat /\ I \in BOOLEAN
  BY SizesAssumption DEF IInv, TypeInv, TypeOK
<1>0. /\ ~Updating /\ isr = "none" /\ off' = 0 /\ call["main"].pc = "idle"
      /\ TOV => ~I /\ I'
      /\ UNCHANGED <<TCNT1, OCR1A, TOV, OCF, OCIE, falling, timer_cycles, inited, updated, queue,
                     call, reading, isr, upd, clock>>
  <2>1. CASE Cli
    BY <2>1 DEF Cli, InterruptsOn, InterruptPending
  <2>2. CASE Sei
    BY <2>2 DEF Sei
  <2>. QED
    BY <2>1, <2>2
<1>b. ~InNow' /\ ReadInv'
  <2>1. ~InNow
    BY <1>0 DEF IInv, ArmedInv, Active
  <2>. QED
    BY <1>0, <2>1, NoReadingTells
<1>1. ClockInv' /\ AheadInv' /\ DueInv' /\ MatchInv'
  BY <1>0 DEF ClockInv, Overflows, AheadInv, Ahead, DueInv, NotEarly, Distance, MatchInv, HeadDue,
     Coming, Updating, Periods
<1>2. PaceInv'
  BY <1>0, <1>b, Bounds DEF PaceInv, Updating
<1>3. FreshInv'
  <2>1. TOV => TCNT1 <= MaxOff /\ I'
    <3>1. TOV => TCNT1 <= off /\ off <= MaxOff /\ I'
      BY <1>0 DEF FreshInv, PaceInv
    <3>. QED
      BY <1>a, <3>1, Bounds
  <2>2. ~Updating' /\ isr' = "none" /\ call'["main"].pc = "idle" /\ Active' = "main"
    BY <1>0 DEF Updating, Active
  <2>. QED
    BY <1>0, <1>b, <2>1, <2>2 DEF FreshInv
<1>. QED
  BY <1>b, <1>1, <1>2, <1>3

LEMMA NextKeeps == IInv /\ RegInv /\ Prompt /\ Near /\ [Next]_vars => RegInv'
<1>. SUFFICES ASSUME IInv, RegInv, Prompt, Near, [Next]_vars PROVE RegInv'
  OBVIOUS
<1>1. CASE UNCHANGED vars
  BY <1>1 DEF vars, hardware, RegInv, ClockInv, Overflows, PaceInv, FreshInv, ReadInv, AheadInv, Ahead,
     DueInv, NotEarly, Distance, MatchInv, HeadDue, WillCome, Coming, Updating, InNow, Active, Periods
<1>2. CASE Next
  BY <1>2, TickKeeps, SetTimeoutKeeps, NowStepsKeep, SetTimeoutNowKeeps, InsertKeeps, WritesKeep, OverflowKeeps,
     CompareKeeps, SectionsKeep DEF Next, Code
<1>. QED
  BY <1>1, <1>2

LEMMA RegInitially == Init /\ ~Arduino => RegInv
<1>. SUFFICES ASSUME Init, ~Arduino PROVE RegInv
  OBVIOUS
<1>1. inited /\ ~Updating /\ ~InNow /\ \A c \in Contexts : call[c].pc = "idle"
  BY SizesAssumption DEF Init, Updating, NoUpdate, NoCall, InNow, NoReading
<1>3. ReadInv
  BY DEF Init, ReadInv, NoReading
<1>2. ClockInv
  <2>1. 0 \in 0 .. (Hi - 1) /\ Hi \in Nat \ {0}
    BY Bounds
  <2>2. 0 % Hi = 0
    BY <2>1, ModSmall
  <2>. QED
    BY <1>1, <2>2, Bounds DEF Init, ClockInv, Overflows
<1>. QED
  BY <1>1, <1>2, <1>3, Bounds DEF Init, RegInv, PaceInv, FreshInv, AheadInv, DueInv, MatchInv, HeadDue,
     Updating, NoUpdate, Contexts

\* The distance to where the counter goes on to is its difference modulo its width.
LEMMA DistanceModulo ==
  ASSUME TypeOK
  PROVE  (OCR1A - TCNT1) % Lo = Distance(OCR1A)
<1>1. TCNT1 \in 0 .. (Lo - 1) /\ OCR1A \in 0 .. (Lo - 1) /\ Lo \in Nat \ {0}
  BY Bounds DEF TypeOK
<1>2. CASE TCNT1 <= OCR1A
  <2>1. OCR1A - TCNT1 \in 0 .. (Lo - 1)
    BY <1>1, <1>2
  <2>. QED
    BY <1>1, <1>2, <2>1, ModSmall DEF Distance, Between
<1>3. CASE OCR1A < TCNT1
  <2>. DEFINE x == OCR1A - TCNT1
              k == x + Lo
  <2>1. k \in 0 .. (Lo - 1) /\ x \in Int /\ 1 \in Int /\ Distance(OCR1A) = k
    BY <1>1, <1>3 DEF Distance, Between
  <2>2. k = x + Lo * 1
    BY <1>1, <2>1
  <2>. HIDE DEF x, k
  <2>3. (x + Lo * 1) % Lo = x % Lo
    BY <1>1, <2>1, ModPeriods, Zenon
  <2>4. k % Lo = k
    BY <1>1, <2>1, ModSmall
  <2>. QED
    BY <2>1, <2>2, <2>3, <2>4 DEF x
<1>. QED
  BY <1>1, <1>2, <1>3

LEMMA RegistersTell ==
  ASSUME IInv, RegInv, Prompt
  PROVE  RegistersAgree
<1>1. CompareMeansDue
  BY DEF CompareMeansDue, RegInv, DueInv
<1>2. NowExact
  BY NowTells DEF RegInv
<1>3. MatchComing
  <2>. SUFFICES ASSUME HeadDue, ~Updating, isr = "none"
                PROVE  /\ OCIE
                       /\ \/ OCF
                          \/ (OCR1A - TCNT1) % Lo <= MinDelay
                          \/ OCR1A = queue[1].when % Lo /\ TCNT1 <= OCR1A
    BY DEF MatchComing, HeadDue
  <2>1. OCIE /\ (OCF \/ Coming(OCR1A))
    BY DEF RegInv, MatchInv
  <2>. QED
    BY <2>1, DistanceModulo DEF Coming, IInv, TypeInv
<1>. QED
  BY <1>1, <1>2, <1>3 DEF RegistersAgree

\* In a program that starts with an initialised timer, whose stretches without
\* interrupts take less than half a period of the counter and whose register writes
\* take no longer than MIN_DELAY, the registers tell the truth at every step: a
\* match that can interrupt means a head that is due; now() returns the time at which
\* it read the counter, wherever between its check for an overflow, its cli(), that
\* read and its last look at the flag the counter overflows; and a head that is due
\* has its match coming (Timers.cpp:94-131, 258-298).  Delays end
\* more than a period before half of the 32 bits: those of the last period below it
\* are taken for past by the 16-bit difference in update_timeouts (Timers.cpp:278).
THEOREM RegistersTrue ==
  ASSUME ~Arduino, Prompt, Near
  PROVE  EitherSpec /\ bare = TRUE => []RegistersRight
<1>1. BuildInit /\ bare = TRUE => IInv /\ RegInv /\ bare = TRUE
  BY InitInvariant, RegInitially DEF BuildInit
<1>2. IInv /\ RegInv /\ bare = TRUE /\ [In(Next)]_<<vars, bare>> => (IInv /\ RegInv /\ bare = TRUE)'
  <2>1. [In(Next)]_<<vars, bare>> => [Next]_vars /\ bare' = bare
    BY DEF In
  <2>. QED
    BY <2>1, NextInvariant, NextKeeps
<1>3. IInv /\ RegInv /\ bare = TRUE => RegistersRight
  BY RegistersTell DEF RegistersRight, RegistersAgree
<1>. QED
  BY <1>1, <1>2, <1>3, PTL DEF EitherSpec
-----------------------------------------------------------------------------
(* How late a callback may start *)

\* The bounds on how long the code takes count at least a tick, and an overflow is
\* handled, and MIN_DELAY is over, before the counter comes round again; what is
\* late is so by less than what a delay may add to it before it counts as past.
Brief ==
  /\ MaxCuts >= 1 /\ MaxSlip >= 1 /\ MaxSlip <= MaxOff
  /\ 2 * MaxOff + MinDelay < Lo
  /\ MaxOff + 3 * MaxSlip + MinDelay < Lo
  /\ LateBound <= Lo + 2 * MaxSlip

\* The lateness is counted beyond the bound.
Counted == MaxLate > LateBound

OnTime(e) == e.when = (clock + e.left) % Wide

ExactInv ==
  /\ \A i \in DOMAIN queue : OnTime(queue[i])
  /\ \A c \in Contexts : call[c].pc = "insert" => OnTime(call[c])

OrderInv == \A i, j \in DOMAIN queue : i <= j => queue[i].left <= queue[j].left

\* The end of now() counts as time that set_timeout takes.
AgeInv == InNow /\ call[Active].pc = "now" => reading.age <= call[Active].slip

\* How late a timeout may be that is not on the list yet: interrupts can come between
\* now() and cli() of the main program, not in the interrupt itself.
Cuts(n) == n * MaxOff
CallInv ==
  /\ cuts <= MaxCuts
  /\ call["main"].pc # "insert" => cuts = 0
  /\ call["isr"].pc = "insert" => -call["isr"].left <= call["isr"].slip
  /\ call["main"].pc = "insert" =>
       /\ ~I => cuts = 0
       /\ isr = "none" => -call["main"].left <= call["main"].slip + Cuts(cuts)
       /\ isr # "none" =>
            /\ cuts >= 1
            /\ -call["main"].left <= call["main"].slip + Cuts(cuts - 1) + off

\* An interrupt leaves nothing on the list that was due when it looked, so that no
\* two timeouts are late by what interrupts took.
OneLate ==
  isr = "none" /\ call["main"].pc = "insert" /\ cuts > 0 =>
    \A i \in DOMAIN queue : -queue[i].left <= MaxSlip + call["main"].slip

\* The list is late by k, and what set_timeout and an interrupt's last now() took.
Allowed(i) == IF i = 1 THEN 2 * MaxSlip + Cuts(MaxCuts) ELSE 2 * MaxSlip
LateBy(k) == \A i \in DOMAIN queue : -queue[i].left <= Allowed(i) + k

\* The ticks a pending interrupt may have waited: those of the stretch without
\* interrupts, or of now(), that delays it.
Waiting ==
  CASE ~I -> off
    [] I /\ call["main"].pc = "now" -> call["main"].slip
    [] OTHER -> MaxOff

\* The ticks since update_timeouts armed a head that was due.
Spent ==
  IF Updating THEN upd.slip
  ELSE IF OCF THEN MinDelay + Waiting
  ELSE MinDelay - Distance(OCR1A)

\* The compare register is armed, or will be, for as soon as MIN_DELAY allows.
Armed ==
  /\ upd.at = "write" => Distance(upd.ocra) = MinDelay - upd.slip
  /\ upd.at = "enable" => Distance(OCR1A) = MinDelay - upd.slip
  /\ ~Updating => OCIE /\ (OCF \/ Distance(OCR1A) <= MinDelay)

\* The ticks that may have passed when an overflow is about to arm it anew.
Waited == IF I /\ Updating THEN upd.slip ELSE MinDelay + Waiting

\* A head that is due is late by one wait for its match, or by two when the second
\* began with an overflow.
SinceRound(k) == TCNT1 <= MaxOff + k \/ TCNT1 <= 3 * MaxSlip + k
DueLate ==
  /\ TOV => LateBy(Waited)
  /\ ~TOV =>
       /\ Armed
       /\ \/ LateBy(Spent)
          \/ LateBy(MinDelay + MaxOff + Spent) /\ SinceRound(Spent)

LateInv ==
  /\ isr = "none" /\ 1 \in DOMAIN queue /\ queue[1].left <= 0 => DueLate
  /\ isr # "none" => \A i \in DOMAIN queue :
       -queue[i].left <= 2 * MaxSlip + 2 * (MaxOff + MinDelay) + off

TimeInv == ExactInv /\ OrderInv /\ AgeInv /\ CallInv /\ OneLate /\ LateInv

LEMMA CutsTell ==
  /\ \A n \in Nat : Cuts(n) \in Nat /\ Cuts(n + 1) = Cuts(n) + MaxOff
  /\ Cuts(0) = 0
  /\ \A n \in 0 .. MaxCuts : Cuts(n) <= Cuts(MaxCuts)
<1>1. MaxOff \in Nat /\ MaxCuts \in Nat
  BY Bounds, SizesAssumption
<1>2. ASSUME NEW n \in Nat PROVE Cuts(n) \in Nat /\ Cuts(n + 1) = Cuts(n) + MaxOff
  <2>1. n * MaxOff \in Nat /\ (n + 1) * MaxOff = n * MaxOff + MaxOff
    BY <1>1
  <2>. QED
    BY <2>1 DEF Cuts
<1>3. ASSUME NEW n \in 0 .. MaxCuts PROVE Cuts(n) <= Cuts(MaxCuts)
  <2>1. MaxOff * n <= MaxOff * MaxCuts
    BY <1>1, ProductOrder
  <2>2. MaxOff * n = n * MaxOff /\ MaxOff * MaxCuts = MaxCuts * MaxOff
    BY <1>1
  <2>. QED
    BY <2>1, <2>2 DEF Cuts
<1>4. Cuts(0) = 0
  BY <1>1 DEF Cuts
<1>. QED
  BY <1>2, <1>3, <1>4

\* Integers and bounds, once for all that follows.
LEMMA Sizes ==
  ASSUME Prompt, Brief
  PROVE  /\ MaxOff \in Nat /\ MaxSlip \in Nat /\ MinDelay \in Nat /\ Lo \in Nat \ {0}
         /\ MaxLate \in Nat /\ MaxCuts \in Nat \ {0}
         /\ MaxOff >= 1 /\ MaxSlip >= 1 /\ MaxSlip <= MinDelay /\ MinDelay < Lo
         /\ MaxSlip <= MaxOff /\ 2 * MaxSlip < Lo
         /\ 2 * MaxOff + MinDelay < Lo /\ MaxOff + 3 * MaxSlip + MinDelay < Lo
         /\ Cuts(MaxCuts) \in Nat /\ MaxOff <= Cuts(MaxCuts)
         /\ LateBound = 2 * MaxSlip + Cuts(MaxCuts) + 2 * (MaxOff + MinDelay)
         /\ LateBound \in Nat /\ LateBound <= Lo + 2 * MaxSlip
<1>1. /\ MaxOff \in Nat /\ MaxSlip \in Nat /\ MinDelay \in Nat /\ Lo \in Nat \ {0}
      /\ MaxLate \in Nat /\ MaxCuts \in Nat \ {0}
      /\ MaxOff >= 1 /\ MaxSlip >= 1 /\ MaxSlip <= MinDelay /\ MinDelay < Lo
      /\ MaxSlip <= MaxOff /\ 2 * MaxSlip < Lo
      /\ 2 * MaxOff + MinDelay < Lo /\ MaxOff + 3 * MaxSlip + MinDelay < Lo
  BY Bounds, SizesAssumption DEF Prompt, Brief
<1>2. Cuts(MaxCuts) \in Nat /\ MaxOff <= Cuts(MaxCuts)
  <2>1. 1 \in 0 .. MaxCuts /\ 0 \in Nat /\ 0 + 1 = 1 /\ 0 + MaxOff = MaxOff /\ MaxCuts \in Nat
    BY <1>1
  <2>. QED
    BY <2>1, CutsTell
<1>3. LateBound = 2 * MaxSlip + Cuts(MaxCuts) + 2 * (MaxOff + MinDelay)
  BY DEF LateBound, Cuts
<1>4. LateBound \in Nat /\ LateBound <= Lo + 2 * MaxSlip
  BY <1>1, <1>2, <1>3 DEF Brief
<1>. QED
  BY <1>1, <1>2, <1>3, <1>4

LEMMA AllowedTells ==
  ASSUME Prompt, Brief
  PROVE  /\ Allowed(1) = 2 * MaxSlip + Cuts(MaxCuts)
         /\ \A i \in Nat \ {1} : Allowed(i) = 2 * MaxSlip
         /\ \A i \in Nat : Allowed(i) \in Nat /\ 2 * MaxSlip <= Allowed(i)
                           /\ Allowed(i) <= 2 * MaxSlip + Cuts(MaxCuts)
<1>1. /\ Allowed(1) = 2 * MaxSlip + Cuts(MaxCuts)
      /\ \A i \in Nat \ {1} : Allowed(i) = 2 * MaxSlip
  BY DEF Allowed
<1>2. \A i \in Nat : Allowed(i) \in Nat /\ 2 * MaxSlip <= Allowed(i)
                     /\ Allowed(i) <= 2 * MaxSlip + Cuts(MaxCuts)
  BY Sizes DEF Allowed
<1>. QED
  BY <1>1, <1>2

\* The types of what is counted.
LEMMA CountsType ==
  ASSUME TypeOK
  PROVE  /\ \A i \in DOMAIN queue : /\ i \in Nat \ {0} /\ queue[i] \in Entries
                                    /\ queue[i].left \in Lefts /\ queue[i].left \in Int
                                    /\ queue[i].when \in Times /\ queue[i].when \in Int
         /\ DOMAIN queue = 1 .. Len(queue) /\ Len(queue) \in Nat
         /\ queue # <<>> => 1 \in DOMAIN queue
         /\ \A c \in Contexts :
              /\ call[c].pc # "idle" => call[c].slip \in Nat
              /\ call[c].pc = "insert" => /\ call[c].left \in Lefts /\ call[c].left \in Int
                                          /\ call[c].when \in Times /\ call[c].when \in Int
         /\ Updating => upd.slip \in Nat
         /\ upd.at = "write" => upd.ocra \in 0 .. (Lo - 1)
         /\ upd.at = "write" \/ upd.at = "enable" <=> Updating
         /\ off \in Nat /\ cuts \in Nat
         /\ clock \in Int /\ TCNT1 \in 0 .. (Lo - 1) /\ OCR1A \in 0 .. (Lo - 1)
         /\ {TOV, OCF, OCIE, I, inited, updated} \subseteq BOOLEAN
         /\ "main" \in Contexts /\ "isr" \in Contexts
<1>1. \A l \in Lefts : l \in Int
  BY ElapsedTells
<1>2. \A t \in Times : t \in Int
  BY WideType DEF Times
<1>3. ASSUME NEW i \in DOMAIN queue
      PROVE  /\ i \in Nat \ {0} /\ queue[i] \in Entries
             /\ queue[i].left \in Lefts /\ queue[i].left \in Int
             /\ queue[i].when \in Times /\ queue[i].when \in Int
  <2>1. i \in Nat \ {0} /\ queue[i] \in Entries
    BY DEF TypeOK
  <2>2. queue[i].left \in Lefts /\ queue[i].when \in Times
    BY <2>1 DEF Entries
  <2>. QED
    BY <1>1, <1>2, <2>1, <2>2
<1>4. ASSUME NEW c \in Contexts
      PROVE  /\ call[c].pc # "idle" => call[c].slip \in Nat
             /\ call[c].pc = "insert" => /\ call[c].left \in Lefts /\ call[c].left \in Int
                                         /\ call[c].when \in Times /\ call[c].when \in Int
  BY <1>1, <1>2, AgedTells
<1>5. /\ Updating => upd.slip \in Nat
      /\ upd.at = "write" => upd.ocra \in 0 .. (Lo - 1)
      /\ upd.at = "write" \/ upd.at = "enable" <=> Updating
  <2>1. upd \in Updates
    BY DEF TypeOK
  <2>2. CASE upd = NoUpdate
    BY <2>2 DEF Updating, NoUpdate
  <2>3. CASE upd \in [at : {"write"}, ocra : 0 .. (Lo - 1), slip : Nat]
    BY <2>3 DEF Updating
  <2>4. CASE upd \in [at : {"enable"}, slip : Nat]
    BY <2>4 DEF Updating
  <2>. QED
    BY <2>1, <2>2, <2>3, <2>4 DEF Updates
<1>6. /\ DOMAIN queue = 1 .. Len(queue) /\ Len(queue) \in Nat
      /\ queue # <<>> => 1 \in DOMAIN queue
  BY DEF TypeOK
<1>. QED
  BY <1>2, <1>3, <1>4, <1>5, <1>6 DEF TypeOK, Contexts

LEMMA CountsTypeNext ==
  ASSUME TypeOK'
  PROVE  off' \in Nat /\ (Updating' => upd'.slip \in Nat)
<1>1. upd' \in Updates /\ off' \in Nat
  BY DEF TypeOK
<1>. QED
  BY <1>1 DEF Updates, NoUpdate, Updating

\* update_timeouts never waits longer than for its writes, MIN_DELAY and a stretch
\* without interrupts.
LEMMA WaitsEnd ==
  ASSUME TypeOK, PaceInv, Prompt, Brief
  PROVE  /\ Waiting \in 0 .. MaxOff
         /\ Waited \in 0 .. (MinDelay + MaxOff)
         /\ Armed => Spent \in 0 .. (MinDelay + MaxOff)
<1>1. /\ off \in Nat /\ off <= MaxOff /\ (Updating => upd.slip \in Nat /\ upd.slip <= MaxSlip)
      /\ Distance(OCR1A) \in Nat
  BY CountsType, Bounds DEF PaceInv, Distance, Between
<1>2. call["main"].pc = "now" => call["main"].slip \in Nat /\ call["main"].slip <= MaxSlip
  BY CountsType DEF PaceInv
<1>3. Waiting \in 0 .. MaxOff
  BY <1>1, <1>2, Sizes DEF Waiting
<1>. HIDE DEF Waiting
<1>. QED
  BY <1>1, <1>3, Sizes DEF Waited, Spent, Armed

\* What the interrupts of one call of set_timeout took.
LEMMA CutLate ==
  ASSUME TypeOK, PaceInv, CallInv, Prompt, Brief, call["main"].pc = "insert"
  PROVE  /\ -call["main"].left <= call["main"].slip + Cuts(cuts)
         /\ Cuts(cuts) \in Nat /\ Cuts(cuts) <= Cuts(MaxCuts)
<1>1. /\ cuts \in 0 .. MaxCuts /\ off \in Nat /\ off <= MaxOff /\ MaxOff \in Nat
      /\ call["main"].left \in Int /\ call["main"].slip \in Nat
  <2>1. /\ cuts \in Nat /\ off \in Nat
        /\ call["main"].left \in Int /\ call["main"].slip \in Nat
    BY CountsType
  <2>2. cuts <= MaxCuts /\ off <= MaxOff
    BY DEF PaceInv, CallInv
  <2>. QED
    BY <2>1, <2>2, Sizes
<1>2. Cuts(cuts) \in Nat /\ Cuts(cuts) <= Cuts(MaxCuts)
  BY <1>1, CutsTell
<1>3. CASE isr = "none"
  BY <1>2, <1>3 DEF CallInv
<1>4. CASE isr # "none"
  <2>1. cuts - 1 \in Nat /\ (cuts - 1) + 1 = cuts
    BY <1>1, <1>4 DEF CallInv
  <2>2. Cuts(cuts - 1) \in Nat /\ Cuts(cuts) = Cuts(cuts - 1) + MaxOff
    BY <2>1, CutsTell
  <2>3. -call["main"].left <= call["main"].slip + Cuts(cuts - 1) + off
    BY <1>4 DEF CallInv
  <2>. QED
    BY <1>1, <1>2, <2>2, <2>3
<1>. QED
  BY <1>3, <1>4

LEMMA NowBounded ==
  ASSUME IInv, RegInv, TimeInv, Prompt, Brief
  PROVE  /\ BoundedLateness
         /\ \A c \in Contexts : call[c].pc = "insert" => -call[c].left <= LateBound
<1>0. TypeOK /\ PaceInv
  BY DEF IInv, TypeInv, RegInv
<1>1. ASSUME NEW i \in DOMAIN queue PROVE -queue[i].left <= LateBound
  <2>1. /\ i \in Nat /\ queue[i].left \in Int /\ 1 \in DOMAIN queue /\ 1 <= i
        /\ queue[1].left \in Int /\ off \in Nat /\ off <= MaxOff
    BY <1>0, CountsType DEF PaceInv
  <2>2. CASE isr # "none"
    <3>1. -queue[i].left <= 2 * MaxSlip + 2 * (MaxOff + MinDelay) + off
      BY <2>2 DEF TimeInv, LateInv
    <3>. QED
      BY <2>1, <3>1, Sizes
  <2>3. CASE queue[1].left > 0
    <3>1. queue[1].left <= queue[i].left
      BY <2>1 DEF TimeInv, OrderInv
    <3>2. 0 < queue[i].left
      BY <2>1, <2>3, <3>1
    <3>. QED
      BY <2>1, <3>2, Sizes
  <2>4. CASE isr = "none" /\ queue[1].left <= 0
    <3>1. DueLate
      BY <2>1, <2>4 DEF TimeInv, LateInv
    <3>2. \E k \in 0 .. 2 * (MaxOff + MinDelay) : LateBy(k)
      <4>1. Waited \in 0 .. (MinDelay + MaxOff) /\ (Armed => Spent \in 0 .. (MinDelay + MaxOff))
        BY <1>0, WaitsEnd
      <4>. HIDE DEF Waited, Spent, LateBy, Armed
      <4>2. /\ Waited \in 0 .. 2 * (MaxOff + MinDelay)
            /\ Armed => Spent \in 0 .. 2 * (MaxOff + MinDelay)
            /\ Armed => MinDelay + MaxOff + Spent \in 0 .. 2 * (MaxOff + MinDelay)
        BY <4>1, Bounds
      <4>. QED
        BY <3>1, <4>2 DEF DueLate
    <3>3. PICK k \in 0 .. 2 * (MaxOff + MinDelay) : -queue[i].left <= Allowed(i) + k
      BY <3>2 DEF LateBy
    <3>4. Allowed(i) \in Nat /\ Allowed(i) <= 2 * MaxSlip + Cuts(MaxCuts)
      BY <2>1, AllowedTells
    <3>. QED
      BY <2>1, <3>3, <3>4, Sizes
  <2>. QED
    BY <2>1, <2>2, <2>3, <2>4
<1>2. BoundedLateness
  <2>1. \A i \in DOMAIN queue : queue[i].left \in Int
    BY <1>0, CountsType
  <2>. QED
    BY <1>1, <2>1, Sizes DEF BoundedLateness
<1>3. ASSUME NEW c \in Contexts, call[c].pc = "insert" PROVE -call[c].left <= LateBound
  <2>1. /\ call[c].slip \in 0 .. MaxSlip /\ call[c].left \in Int
        /\ off \in Nat /\ off <= MaxOff
    BY <1>0, <1>3, CountsType, Bounds DEF PaceInv
  <2>2. CASE c = "isr"
    <3>1. -call[c].left <= call[c].slip
      BY <1>3, <2>2 DEF TimeInv, CallInv
    <3>. QED
      BY <2>1, <3>1, Sizes
  <2>3. CASE c = "main"
    <3>1. -call[c].left <= call[c].slip + Cuts(MaxCuts)
      <4>1. /\ -call[c].left <= call[c].slip + Cuts(cuts)
            /\ Cuts(cuts) \in Nat /\ Cuts(cuts) <= Cuts(MaxCuts)
        BY <1>0, <1>3, <2>3, CutLate DEF TimeInv
      <4>. QED
        BY <2>1, <4>1, Sizes
    <3>. QED
      BY <2>1, <3>1, Sizes
  <2>. QED
    BY <2>2, <2>3 DEF Contexts
<1>. QED
  BY <1>2, <1>3

\* The times of two timeouts compare as what is left of them.
LEMMA TimesCompare ==
  ASSUME clock \in Int, NEW x \in Int, NEW y \in Int,
         x - y < Wide \div 2, y - x < Wide \div 2,
         NEW a, a = (clock + x) % Wide, NEW b, b = (clock + y) % Wide
  PROVE  Before(a, b) <=> x < y
<1>. DEFINE W == Wide
            h == Wide \div 2
<1>0. W \in Nat \ {0} /\ h \in Nat /\ W = 2 * h
  <2>1. /\ Lo \in Int /\ Hi \div 2 \in Int /\ Lo \in Nat \ {0} /\ Hi = 2 * (Hi \div 2)
        /\ Wide = Lo * Hi /\ Wide \div 2 = Lo * (Hi \div 2) /\ Wide \in Nat \ {0}
        /\ Wide \div 2 \in Nat
    BY WideProduct
  <2>2. Lo * (2 * (Hi \div 2)) = 2 * (Lo * (Hi \div 2))
    BY <2>1, Products
  <2>. QED
    BY <2>1, <2>2
<1>a. a = (clock + x) % W /\ b = (clock + y) % W /\ x - y < h /\ y - x < h
  OBVIOUS
<1>b. (Before(a, b) <=> x < y) <=> ((a - b) % W >= h <=> x < y)
  BY DEF Before
<1>. HIDE DEF W, h
<1>c. clock + x \in Int /\ clock + y \in Int
  OBVIOUS
<1>1. PICK d \in Int, m \in 0 .. (W - 1) :
        d = (clock + x) \div W /\ m = (clock + x) % W /\ clock + x = W * d + m
  BY <1>0, <1>c, Division
<1>2. PICK e \in Int, n \in 0 .. (W - 1) :
        e = (clock + y) \div W /\ n = (clock + y) % W /\ clock + y = W * e + n
  BY <1>0, <1>c, Division
<1>3. a - b = (x - y) + W * (e - d)
  <2>1. W * (e - d) = W * e - W * d /\ W * e \in Int /\ W * d \in Int
    BY <1>0, <1>1, <1>2, Products
  <2>. QED
    BY <1>a, <1>1, <1>2, <2>1
<1>4. (a - b) % W = (x - y) % W
  <2>1. x - y \in Int /\ e - d \in Int
    BY <1>1, <1>2
  <2>2. ((x - y) + W * (e - d)) % W = (x - y) % W
    BY <1>0, <2>1, ModPeriods, Zenon
  <2>. QED
    BY <1>3, <2>2
<1>5. CASE y <= x
  <2>1. x - y \in 0 .. (W - 1)
    BY <1>0, <1>a, <1>5
  <2>2. (x - y) % W = x - y
    BY <1>0, <2>1, ModSmall
  <2>. QED
    BY <1>0, <1>a, <1>b, <1>4, <1>5, <2>2
<1>6. CASE x < y
  <2>. DEFINE z == x - y + W
  <2>1. z \in 0 .. (W - 1) /\ z \in Int /\ z > h /\ -1 \in Int
    BY <1>0, <1>a, <1>6
  <2>2. z + W * (-1) = x - y
    BY <1>0
  <2>. HIDE DEF z
  <2>3. (z + W * (-1)) % W = z % W
    BY <1>0, <2>1, ModPeriods, Zenon
  <2>4. z % W = z
    BY <1>0, <2>1, ModSmall
  <2>. QED
    BY <1>0, <1>b, <1>4, <1>6, <2>1, <2>2, <2>3, <2>4
<1>. QED
  BY <1>5, <1>6

\* What is left of two timeouts differs by less than what counts as past.
LEMMA Spread ==
  ASSUME Prompt, Brief, NEW e, e.left \in Int, Ahead(e),
         NEW l \in Int, -l <= LateBound
  PROVE  e.left - l < Wide \div 2
BY Sizes, WideType DEF Ahead

\* Of a time q periods ago, Periods tells q.
LEMMA PeriodsBehind ==
  ASSUME NEW c \in 0 .. (Hi - 1), NEW q \in {-2, -1, 0}, NEW when,
         when \div Lo = (c + (Hi + q)) % Hi
  PROVE  Periods(when, c) = q
<1>0. /\ Hi \in Nat \ {0} /\ Hi >= 4 /\ Hi \in Int /\ Hi \div 2 \in Nat /\ Hi = 2 * (Hi \div 2)
      /\ c \in Int /\ q \in Int /\ -c \in Int /\ Hi + q \in Int
  BY WideProduct, SizesAssumption
<1>1. CASE q = 0
  <2>1. (c + Hi * 1) % Hi = c % Hi
    <3>1. 1 \in Int
      OBVIOUS
    <3>. QED
      BY <1>0, <3>1, ModPeriods, Zenon
  <2>2. c + (Hi + q) = c + Hi * 1 /\ c + 0 = c /\ 0 \in Nat /\ 0 < Hi \div 2
    BY <1>0, <1>1
  <2>3. when \div Lo = (c + 0) % Hi
    BY <2>1, <2>2
  <2>. QED
    BY <1>0, <1>1, <2>2, <2>3, PeriodsCount
<1>2. CASE q # 0
  <2>1. Hi + q \in 0 .. (Hi - 1) /\ Hi + q >= Hi \div 2
    BY <1>0, <1>2
  <2>2. (((c + (Hi + q)) % Hi) + (-c)) % Hi = ((c + (Hi + q)) + (-c)) % Hi
    <3>1. c + (Hi + q) \in Int
      BY <1>0
    <3>. QED
      BY <1>0, <3>1, ModAdd, Zenon
  <2>3. (c + (Hi + q)) + (-c) = Hi + q
    BY <1>0
  <2>4. (Hi + q) % Hi = Hi + q
    BY <1>0, <2>1, ModSmall
  <2>5. (when \div Lo - c) % Hi = Hi + q
    <3>1. (c + (Hi + q)) % Hi \in Int
      BY <1>0
    <3>2. ((c + (Hi + q)) % Hi) + (-c) = ((c + (Hi + q)) % Hi) - c
      BY <1>0, <3>1
    <3>. QED
      BY <2>2, <2>3, <2>4, <3>2
  <2>. QED
    BY <1>0, <2>1, <2>5 DEF Periods
<1>. QED
  BY <1>1, <1>2

\* A head that is due is armed for as soon as possible, however late it is.
LEMMA OverdueHead ==
  ASSUME Prompt, Brief, TCNT1 \in 0 .. (Lo - 1), NEW c \in 0 .. (Hi - 1),
         clock = c * Lo + TCNT1, NEW e, OnTime(e),
         e.left \in Int, e.left <= 0, -e.left <= LateBound
  PROVE  /\ Periods(e.when, c) <= 0
         /\ -e.left <= TCNT1 => e.when % Lo = TCNT1 + e.left
         /\ CompareFor(e.when, c) = (TCNT1 + MinDelay) % Lo
<1>. DEFINE l == e.left
            when == e.when
            x == TCNT1 + l
            n == x + Wide
<1>0. /\ Lo \in Nat \ {0} /\ Lo \in Int /\ Hi \in Nat \ {0} /\ Hi >= 4 /\ Hi \in Int
      /\ Wide = Lo * Hi /\ Wide \in Nat \ {0} /\ MinDelay >= 1
  BY WideProduct, SizesAssumption
<1>1. /\ x \in Int /\ l \in Int /\ l <= 0 /\ x <= TCNT1 /\ -x < 2 * Lo /\ x < Lo /\ x = TCNT1 + l
      /\ MinDelay \in Nat
  BY Sizes
<1>2. when = (clock + l) % Wide
  BY DEF OnTime
<1>c. c \in Int /\ c % Hi = c /\ c * Lo \in Int
  BY <1>0, ModSmall
<1>. HIDE DEF x, l, when
<1>3. PICK q \in Int, t \in 0 .. (Lo - 1) : q = x \div Lo /\ t = x % Lo /\ x = Lo * q + t
  BY <1>0, <1>1, Division
<1>4. q \in {-2, -1, 0}
  <2>1. ~(q + 1 <= -2)
    <3>. SUFFICES ASSUME q + 1 <= -2 PROVE FALSE
      OBVIOUS
    <3>1. Lo * q + Lo <= Lo * (-2) /\ Lo * q \in Int
      BY <1>0, ProductGrows
    <3>2. Lo * (-2) = -(2 * Lo)
      BY <1>0
    <3>. QED
      BY <1>0, <1>1, <1>3, <3>1, <3>2
  <2>2. ~(0 + 1 <= q)
    <3>. SUFFICES ASSUME 0 + 1 <= q PROVE FALSE
      OBVIOUS
    <3>1. Lo * 0 + Lo <= Lo * q /\ Lo * q \in Int
      BY <1>0, ProductGrows
    <3>. QED
      BY <1>0, <1>1, <1>3, <3>1
  <2>. QED
    BY <1>3, <2>1, <2>2
<1>5. n \in Nat /\ n = Lo * (Hi + q) + t /\ Hi + q \in Nat
  <2>1. Lo * (Hi + q) = Lo * Hi + Lo * q /\ Lo * q \in Int
    BY <1>0, <1>3, Products
  <2>2. Hi + q \in Nat
    BY <1>0, <1>4
  <2>3. Lo * (Hi + q) \in Nat
    BY <1>0, <2>2
  <2>. QED
    BY <1>0, <1>1, <1>3, <2>1, <2>2, <2>3
<1>6. when = ((c % Hi) * Lo + n) % Wide
  <2>1. clock + l = c * Lo + x /\ clock + l \in Int
    BY <1>c, <1>1, <1>0
  <2>2. ((clock + l) + Wide * 1) % Wide = (clock + l) % Wide
    <3>1. 1 \in Int
      OBVIOUS
    <3>. QED
      BY <1>0, <2>1, <3>1, ModPeriods, Zenon
  <2>3. (clock + l) + Wide * 1 = (c % Hi) * Lo + n
    BY <1>0, <1>1, <1>c, <2>1
  <2>. QED
    BY <1>2, <2>2, <2>3
<1>. HIDE DEF n
<1>7. when % Lo = t /\ when \div Lo = (c + (Hi + q)) % Hi
  <2>1. PICK k \in Nat : k = Hi + q
    BY <1>5
  <2>2. n = Lo * k + t /\ n \in Nat
    BY <1>5, <2>1
  <2>3. when % Lo = t /\ when \div Lo = (c + k) % Hi
    <3>1. ASSUME NEW m \in Nat, m = n, NEW w, w = when
          PROVE  w % Lo = t /\ w \div Lo = (c + k) % Hi
      <4>1. w = ((c % Hi) * Lo + m) % Wide /\ m = Lo * k + t /\ c \in Int
        BY <1>c, <1>6, <2>2, <3>1
      <4>. QED
        BY <4>1, LaterTime
    <3>. QED
      BY <2>2, <3>1
  <2>. QED
    BY <2>1, <2>3
<1>8. Periods(when, c) = q
  BY <1>4, <1>7, PeriodsBehind
<1>9. Lo * 0 = 0
  BY <1>0
<1>10. CompareFor(when, c) = (TCNT1 + MinDelay) % Lo
  <2>1. q = 0 => t - MinDelay < TCNT1
    BY <1>0, <1>1, <1>3, <1>9
  <2>. QED
    BY <1>7, <1>8, <2>1 DEF CompareFor
<1>11. -l <= TCNT1 => when % Lo = TCNT1 + l
  <2>. SUFFICES ASSUME -l <= TCNT1 PROVE t = x
    BY <1>1, <1>7
  <2>1. x \in 0 .. (Lo - 1)
    <3>1. TCNT1 \in Nat
      OBVIOUS
    <3>. QED
      BY <1>0, <1>1, <3>1
  <2>. QED
    BY <1>0, <1>3, <2>1, ModSmall
<1>. QED
  BY <1>4, <1>8, <1>10, <1>11 DEF l, when

LEMMA HalfWide == Wide \div 2 >= 2 * Lo
<1>1. /\ Lo \in Nat /\ Hi \div 2 \in Int /\ Hi = 2 * (Hi \div 2) /\ Hi >= 4
      /\ Wide \div 2 = Lo * (Hi \div 2)
  BY WideProduct, SizesAssumption
<1>2. 2 \in Int /\ 2 <= Hi \div 2
  BY <1>1
<1>3. Lo * 2 <= Lo * (Hi \div 2)
  BY <1>1, <1>2, ProductOrder
<1>. QED
  BY <1>1, <1>3

\* The loop in the interrupt runs a callback exactly when the head was late at the
\* time that now() returns.
LEMMA HeadPastTells ==
  ASSUME IInv, RegInv, TimeInv, Prompt, Brief, reading.at = "read", 1 \in DOMAIN queue
  PROVE  /\ reading.age \in Nat /\ reading.age <= MaxSlip
         /\ HeadPast <=> queue[1].left < -reading.age
<1>0. TypeOK /\ 1 \in DOMAIN queue /\ clock \in Int /\ queue[1].left \in Int
  BY CountsType DEF IInv, TypeInv
<1>a. reading.age \in Nat /\ reading.age <= MaxSlip
  <2>1. reading \in Readings /\ InNow
    BY <1>0 DEF TypeOK, InNow
  <2>2. reading.age \in Nat /\ reading.slip \in Nat
    BY <2>1, ReadType
  <2>3. reading.age <= reading.slip /\ reading.slip <= MaxSlip
    BY <2>1 DEF RegInv, ReadInv, PaceInv
  <2>. QED
    BY <2>2, <2>3, Sizes
<1>1. Now(reading) = (clock + (-reading.age)) % Wide
  <2>1. Now(reading) = (clock - reading.age) % Wide
    BY NowTells DEF RegInv, NowExact
  <2>2. clock - reading.age = clock + (-reading.age)
    BY <1>0, <1>a
  <2>. QED
    BY <2>1, <2>2
<1>3. queue[1].when = (clock + queue[1].left) % Wide /\ Ahead(queue[1])
  BY <1>0 DEF TimeInv, ExactInv, OnTime, RegInv, AheadInv
<1>4. -queue[1].left <= LateBound
  BY <1>0, NowBounded, Sizes DEF BoundedLateness
<1>5. /\ queue[1].left - (-reading.age) < Wide \div 2
      /\ (-reading.age) - queue[1].left < Wide \div 2
  <2>1. queue[1].left + Lo + 2 * MaxSlip < Wide \div 2
    BY <1>3 DEF Ahead
  <2>. QED
    <3>1. PICK h \in Nat : h = Wide \div 2
      BY WideType
    <3>2. queue[1].left + Lo + 2 * MaxSlip < h /\ 2 * Lo <= h
      BY <2>1, <3>1, HalfWide, WideProduct
    <3>3. PICK a \in 0 .. MaxSlip : a = reading.age
      BY <1>a, Sizes
    <3>4. queue[1].left - (-a) < h /\ (-a) - queue[1].left < h
      BY <1>0, <1>4, <3>2, Sizes
    <3>. QED
      BY <3>1, <3>3, <3>4
<1>6. -reading.age \in Int
  BY <1>a
<1>7. Before(queue[1].when, Now(reading)) <=> queue[1].left < -reading.age
  BY <1>0, <1>1, <1>3, <1>5, <1>6, TimesCompare
<1>8. queue # <<>>
  OBVIOUS
<1>. QED
  BY <1>a, <1>7, <1>8 DEF HeadPast

\* A head that came due just now is armed in time.
Due(e) ==
  /\ e.left <= 0 /\ -e.left <= MaxSlip
  /\ ~TOV => -e.left <= TCNT1

LEMMA JustDue ==
  /\ IInv /\ RegInv /\ Prompt /\ Brief /\ isr = "none" /\ ~TOV /\ 1 \in DOMAIN queue
  /\ OnTime(queue[1]) /\ Due(queue[1])
  => Armed
<1>. SUFFICES ASSUME IInv, RegInv, Prompt, Brief, isr = "none", ~TOV, 1 \in DOMAIN queue,
                     OnTime(queue[1]), Due(queue[1])
              PROVE  Armed
  OBVIOUS
<1>0. /\ TypeOK /\ TCNT1 \in 0 .. (Lo - 1) /\ OCR1A \in 0 .. (Lo - 1)
      /\ timer_cycles \in 0 .. (Hi - 1)
      /\ Updating => upd.slip \in Nat /\ upd.slip <= MaxSlip
      /\ upd.at = "write" \/ upd.at = "enable" <=> Updating
      /\ upd.at = "write" => upd.ocra \in 0 .. (Lo - 1)
  BY CountsType DEF IInv, TypeInv, TypeOK, RegInv, PaceInv
<1>1. clock = timer_cycles * Lo + TCNT1
  <2>1. timer_cycles + 0 = timer_cycles /\ timer_cycles % Hi = timer_cycles
    <3>1. Hi \in Nat \ {0} /\ timer_cycles \in Int
      BY <1>0, WideProduct
    <3>. QED
      BY <1>0, <3>1, ModSmall
  <2>. QED
    BY <2>1 DEF RegInv, ClockInv, Overflows
<1>2. /\ queue[1].left \in Int /\ queue[1].left <= 0 /\ -queue[1].left <= LateBound
      /\ -queue[1].left <= TCNT1
  <2>1. queue[1].left \in Int
    BY <1>0, CountsType
  <2>2. queue[1].left <= 0 /\ -queue[1].left <= MaxSlip /\ -queue[1].left <= TCNT1
    BY DEF Due
  <2>. QED
    BY <2>1, <2>2, Sizes
<1>3. /\ Periods(queue[1].when, timer_cycles) <= 0
      /\ queue[1].when % Lo = TCNT1 + queue[1].left
  BY <1>0, <1>1, <1>2, OverdueHead
<1>4. HeadDue
  <2>1. queue # <<>>
    OBVIOUS
  <2>. QED
    BY <1>3, <2>1 DEF HeadDue
<1>5. MatchInv
  BY DEF RegInv
<1>6. ASSUME NEW o \in 0 .. (Lo - 1), WillCome(o), Updating
      PROVE  Distance(o) = MinDelay - upd.slip
  <2>1. CASE o = queue[1].when % Lo /\ TCNT1 + MinDelay <= o + upd.slip
    <3>a. o = TCNT1 + queue[1].left /\ TCNT1 + MinDelay <= o + upd.slip
      BY <1>3, <2>1
    <3>1. o = TCNT1 /\ upd.slip = MinDelay
      <4>1. upd.slip \in Int /\ upd.slip <= MinDelay
        BY <1>0, <1>6, Sizes
      <4>2. TCNT1 \in Int /\ MinDelay \in Int
        BY <1>0, Bounds
      <4>. QED
        BY <1>2, <3>a, <4>1, <4>2
    <3>2. Distance(o) = 0
      BY <1>0, <3>1 DEF Distance, Between
    <3>. QED
      BY <1>0, <1>6, <3>1, <3>2, Sizes
  <2>. QED
    BY <1>6, <2>1 DEF WillCome
<1>7. Coming(OCR1A) => Distance(OCR1A) <= MinDelay
  <2>1. OCR1A = TCNT1 => Distance(OCR1A) = 0
    BY <1>0 DEF Distance, Between
  <2>2. OCR1A = TCNT1 + queue[1].left /\ TCNT1 <= OCR1A => OCR1A = TCNT1
    BY <1>0, <1>2
  <2>. QED
    BY <1>3, <2>1, <2>2, Sizes DEF Coming
<1>. QED
  BY <1>0, <1>4, <1>5, <1>6, <1>7 DEF Armed, MatchInv

\* Then nothing is later than it may be from the start.
LEMMA JustDueLate ==
  /\ IInv /\ RegInv /\ Prompt /\ Brief /\ isr = "none" /\ 1 \in DOMAIN queue
  /\ OnTime(queue[1]) /\ OrderInv /\ Due(queue[1])
  => DueLate
<1>. SUFFICES ASSUME IInv, RegInv, Prompt, Brief, isr = "none", 1 \in DOMAIN queue,
                     OnTime(queue[1]), OrderInv, Due(queue[1])
              PROVE  DueLate
  OBVIOUS
<1>0. TypeOK /\ PaceInv
  BY DEF IInv, TypeInv, RegInv
<1>1. ASSUME NEW k \in Nat PROVE \A i \in DOMAIN queue : -queue[i].left <= Allowed(i) + k
  <2>1. ASSUME NEW i \in DOMAIN queue PROVE -queue[i].left <= Allowed(i) + k
    <3>1. i \in Nat \ {0} /\ queue[i].left \in Int
      BY <1>0, CountsType
    <3>2. queue[1].left <= queue[i].left
      BY <3>1 DEF OrderInv
    <3>3. Allowed(i) \in Nat /\ 2 * MaxSlip <= Allowed(i) /\ MaxSlip \in Nat
      BY <3>1, AllowedTells, Sizes
    <3>4. -queue[1].left <= MaxSlip /\ queue[1].left \in Int
      BY <1>0, CountsType DEF Due
    <3>. QED
      BY <3>1, <3>2, <3>3, <3>4
  <2>. QED
    BY <2>1
<1>2. LateBy(Waited)
  <2>1. Waited \in Nat
    BY <1>0, WaitsEnd
  <2>. QED
    BY <1>1, <2>1 DEF LateBy
<1>3. ~TOV => Armed /\ LateBy(Spent)
  <2>. SUFFICES ASSUME ~TOV PROVE Armed /\ LateBy(Spent)
    OBVIOUS
  <2>1. Armed
    BY JustDue
  <2>2. Spent \in Nat
    BY <1>0, <2>1, WaitsEnd
  <2>. QED
    BY <1>1, <2>1, <2>2 DEF LateBy
<1>. QED
  BY <1>2, <1>3 DEF DueLate

LEMMA JustDueNext ==
  ASSUME IInv', RegInv', Prompt, Brief, isr' = "none", 1 \in DOMAIN queue',
         OnTime(queue[1])', OrderInv', Due(queue[1])'
  PROVE  DueLate'
<1>1. (/\ IInv /\ RegInv /\ Prompt /\ Brief /\ isr = "none" /\ 1 \in DOMAIN queue
       /\ OnTime(queue[1]) /\ OrderInv /\ Due(queue[1])
       => DueLate)'
  BY JustDueLate, PTL
<1>. QED
  BY <1>1 DEF Prompt, Brief, LateBound

\* Nothing is as late as the count of the lateness goes.
LEMMA TickCounts ==
  ASSUME IInv, RegInv, TimeInv, Prompt, Brief, Counted, Tick
  PROVE  /\ DOMAIN queue' = DOMAIN queue
         /\ 1 \in DOMAIN queue' <=> 1 \in DOMAIN queue
         /\ \A i \in DOMAIN queue : /\ queue[i].left \in Int /\ queue'[i].left = queue[i].left - 1
                                    /\ queue'[i].when = queue[i].when
         /\ \A c \in Contexts :
              /\ call'[c].pc = call[c].pc
              /\ call[c].pc # "idle" =>
                   call[c].slip \in Nat /\ call'[c].slip = call[c].slip + Slipped(c, 1)
              /\ call[c].pc = "insert" =>
                   /\ call[c].left \in Int /\ call'[c].left = call[c].left - 1
                   /\ call'[c].when = call[c].when
<1>0. TypeOK /\ TypeOK'
  BY TicksInvariant DEF IInv, TypeInv
<1>1. ASSUME NEW l \in Lefts, -l <= LateBound PROVE Elapsed(l) = l - 1
  BY <1>1, Sizes, ElapsedTells DEF Elapsed, Counted
<1>2. ASSUME NEW i \in DOMAIN queue
      PROVE  /\ queue[i].left \in Int /\ queue'[i].left = queue[i].left - 1
             /\ queue'[i].when = queue[i].when
  <2>1. queue[i].left \in Int /\ queue[i].left \in Lefts
    BY <1>0, CountsType
  <2>2. -queue[i].left <= LateBound
    BY <2>1, NowBounded, Sizes DEF BoundedLateness
  <2>. QED
    BY <1>0, <1>1, <2>1, <2>2, TickTells
<1>3. ASSUME NEW c \in Contexts
      PROVE  /\ call'[c].pc = call[c].pc
             /\ call[c].pc # "idle" =>
                  call[c].slip \in Nat /\ call'[c].slip = call[c].slip + Slipped(c, 1)
             /\ call[c].pc = "insert" =>
                  /\ call[c].left \in Int /\ call'[c].left = call[c].left - 1
                  /\ call'[c].when = call[c].when
  <2>1. call'[c] = Aged(c, 1)
    BY <1>0, TickTells
  <2>2. call[c].pc = "insert" =>
          call[c].left \in Lefts /\ call[c].left \in Int /\ Elapsed(call[c].left) = call[c].left - 1
    BY <1>0, <1>1, CountsType, NowBounded
  <2>. QED
    BY <1>0, <2>1, <2>2, AgedTells
<1>4. DOMAIN queue' = DOMAIN queue
  BY <1>0, TickTells
<1>. QED
  BY <1>2, <1>3, <1>4

LEMMA TickExact ==
  ASSUME IInv, RegInv, TimeInv, Prompt, Brief, Counted, Tick
  PROVE  ExactInv' /\ OrderInv'
<1>0. TypeOK /\ clock \in Int /\ Wide \in Nat \ {0} /\ clock' = (clock + 1) % Wide
  BY CountsType, TickTells, WideProduct DEF IInv, TypeInv
<1>1. ASSUME NEW l \in Int PROVE (clock' + (l - 1)) % Wide = (clock + l) % Wide
  <2>1. (((clock + 1) % Wide) + (l - 1)) % Wide = ((clock + 1) + (l - 1)) % Wide
    <3>1. clock + 1 \in Int /\ l - 1 \in Int
      BY <1>0
    <3>. QED
      BY <1>0, <3>1, ModAdd, Zenon
  <2>2. (clock + 1) + (l - 1) = clock + l
    BY <1>0
  <2>. QED
    BY <1>0, <2>1, <2>2
<1>2. ASSUME NEW i \in DOMAIN queue' PROVE OnTime(queue[i])'
  <2>1. /\ i \in DOMAIN queue /\ queue[i].left \in Int
        /\ queue'[i].left = queue[i].left - 1 /\ queue'[i].when = queue[i].when
    BY <1>2, TickCounts
  <2>2. queue[i].when = (clock + queue[i].left) % Wide
    BY <2>1 DEF TimeInv, ExactInv, OnTime
  <2>3. (clock' + (queue[i].left - 1)) % Wide = (clock + queue[i].left) % Wide
    BY <1>1, <2>1
  <2>. QED
    BY <2>1, <2>2, <2>3 DEF OnTime
<1>3. ASSUME NEW c \in Contexts, call'[c].pc = "insert" PROVE OnTime(call[c])'
  <2>1. /\ call[c].pc = "insert" /\ call[c].left \in Int
        /\ call'[c].left = call[c].left - 1 /\ call'[c].when = call[c].when
    BY <1>3, TickCounts
  <2>2. call[c].when = (clock + call[c].left) % Wide
    BY <2>1 DEF TimeInv, ExactInv, OnTime
  <2>3. (clock' + (call[c].left - 1)) % Wide = (clock + call[c].left) % Wide
    BY <1>1, <2>1
  <2>. QED
    BY <2>1, <2>2, <2>3 DEF OnTime
<1>4. ASSUME NEW i \in DOMAIN queue', NEW j \in DOMAIN queue', i <= j
      PROVE  queue'[i].left <= queue'[j].left
  <2>1. /\ i \in DOMAIN queue /\ j \in DOMAIN queue
        /\ queue[i].left \in Int /\ queue[j].left \in Int
        /\ queue'[i].left = queue[i].left - 1 /\ queue'[j].left = queue[j].left - 1
    BY <1>4, TickCounts
  <2>2. queue[i].left <= queue[j].left
    BY <1>4, <2>1 DEF TimeInv, OrderInv
  <2>. QED
    BY <2>1, <2>2
<1>. QED
  BY <1>2, <1>3, <1>4 DEF ExactInv, OrderInv

LEMMA TickAge ==
  ASSUME IInv, RegInv, TimeInv, Prompt, Brief, Counted, Tick
  PROVE  AgeInv'
<1>. SUFFICES ASSUME InNow', call'[Active].pc = "now"
              PROVE  reading'.age <= call'[Active].slip
  <2>1. Active' = Active
    BY DEF Tick, TickBookkeeping, Active
  <2>. QED
    BY <2>1 DEF AgeInv
<1>0. TypeOK /\ Active \in Contexts /\ reading \in Readings
  BY DEF IInv, TypeInv, TypeOK, Active, Contexts
<1>1. InNow /\ reading.age \in Nat /\ reading'.age = reading.age + 1
  <2>1. InNow
    BY DEF Tick, TickBookkeeping, InNow
  <2>2. reading' = [reading EXCEPT !.slip = @ + 1, !.age = @ + 1]
    BY <2>1 DEF Tick, TickBookkeeping
  <2>3. CASE reading \in [at : {"off"}, slip : Nat, age : Nat]
    BY <2>1, <2>2, <2>3
  <2>4. CASE reading \in [at : {"read"}, lo : 0 .. (Lo - 1), hi : 0 .. (Hi - 1),
                          slip : Nat, age : Nat]
    BY <2>1, <2>2, <2>4
  <2>5. reading # NoReading
    BY <2>1 DEF InNow, NoReading
  <2>. QED
    BY <1>0, <2>3, <2>4, <2>5 DEF Readings
<1>2. /\ call[Active].pc = "now" /\ call[Active].slip \in Nat
      /\ call'[Active].slip = call[Active].slip + Slipped(Active, 1)
  BY <1>0, TickCounts
<1>3. Slipped(Active, 1) = 1
  BY DEF Slipped
<1>4. reading.age <= call[Active].slip
  BY <1>1, <1>2 DEF TimeInv, AgeInv
<1>. QED
  BY <1>1, <1>2, <1>3, <1>4

LEMMA TickCall ==
  ASSUME IInv, RegInv, TimeInv, Prompt, Brief, Counted, Tick
  PROVE  CallInv' /\ OneLate'
<1>. DEFINE t == call["main"].slip'
            k == call["main"].left'
<1>0. /\ TypeOK /\ off \in Nat /\ cuts \in Nat /\ CallInv /\ OneLate
      /\ "main" \in Contexts /\ "isr" \in Contexts /\ isr' = isr /\ I' = I /\ cuts' = cuts
      /\ off' = IF ~I \/ isr # "none" THEN off + 1 ELSE off
      /\ MaxSlip \in Nat
  BY CountsType, Bounds DEF IInv, TypeInv, Tick, TickBookkeeping, TimeInv
<1>1. call["isr"].pc' = "insert" => -(call["isr"].left') <= call["isr"].slip'
  <2>. SUFFICES ASSUME call["isr"].pc' = "insert"
                PROVE  -(call["isr"].left') <= call["isr"].slip'
    OBVIOUS
  <2>1. /\ call["isr"].pc = "insert" /\ call["isr"].left \in Int /\ call["isr"].slip \in Nat
        /\ call["isr"].left' = call["isr"].left - 1
        /\ call["isr"].slip' = call["isr"].slip + Slipped("isr", 1)
    BY <1>0, TickCounts
  <2>2. isr = "callback"
    BY <2>1 DEF RegInv, PaceInv
  <2>3. Slipped("isr", 1) = 1
    BY <2>2 DEF Slipped, Active
  <2>4. -call["isr"].left <= call["isr"].slip
    BY <1>0, <2>1 DEF CallInv
  <2>. QED
    BY <2>1, <2>3, <2>4
<1>2. call["main"].pc' = call["main"].pc
  BY <1>0, TickCounts
<1>3. ASSUME call["main"].pc = "insert"
      PROVE  \E s \in Nat, l \in Int :
                /\ s = call["main"].slip /\ l = call["main"].left /\ k = l - 1
                /\ t = s + IF isr = "none" THEN 1 ELSE 0
  <2>1. Slipped("main", 1) = IF isr = "none" THEN 1 ELSE 0
    BY DEF Slipped, Active
  <2>. QED
    BY <1>0, <1>3, <2>1, TickCounts
<1>4. ASSUME call["main"].pc = "insert"
      PROVE  /\ isr = "none" => -k <= t + Cuts(cuts)
             /\ isr # "none" => cuts >= 1 /\ -k <= t + Cuts(cuts - 1) + off'
  <2>1. PICK s \in Nat, l \in Int :
          /\ s = call["main"].slip /\ l = call["main"].left /\ k = l - 1
          /\ t = s + IF isr = "none" THEN 1 ELSE 0
    BY <1>3, <1>4
  <2>2. CASE isr = "none"
    <3>1. -l <= s + Cuts(cuts) /\ Cuts(cuts) \in Nat
      BY <1>0, <1>4, <2>1, <2>2, CutsTell DEF CallInv
    <3>. QED
      BY <2>1, <2>2, <3>1
  <2>3. CASE isr # "none"
    <3>1. cuts >= 1 /\ -l <= s + Cuts(cuts - 1) + off
      BY <1>0, <1>4, <2>1, <2>3 DEF CallInv
    <3>2. Cuts(cuts - 1) \in Nat /\ off' = off + 1
      BY <1>0, <2>3, <3>1, CutsTell
    <3>. QED
      BY <1>0, <2>1, <2>3, <3>1, <3>2
  <2>. QED
    BY <2>2, <2>3
<1>5. CallInv'
  BY <1>0, <1>1, <1>2, <1>4 DEF CallInv, Cuts
<1>6. ASSUME isr = "none", call["main"].pc = "insert", cuts > 0, NEW i \in DOMAIN queue'
      PROVE  -queue'[i].left <= MaxSlip + t
  <2>1. i \in DOMAIN queue /\ queue[i].left \in Int /\ queue'[i].left = queue[i].left - 1
    BY <1>6, TickCounts
  <2>2. PICK s \in Nat : s = call["main"].slip /\ t = s + 1
    BY <1>3, <1>6
  <2>3. -queue[i].left <= MaxSlip + s
    BY <1>0, <1>6, <2>1, <2>2 DEF OneLate
  <2>. QED
    BY <1>0, <2>1, <2>2, <2>3
<1>7. OneLate'
  BY <1>0, <1>2, <1>6 DEF OneLate
<1>. QED
  BY <1>5, <1>7

\* A wait for the match goes on by a tick, and ends when an interrupt can be taken.
LEMMA TickWaiting ==
  ASSUME IInv, PaceInv, Prompt, Brief, Tick, isr = "none"
  PROVE  /\ Waiting \in Nat /\ Waiting' \in Nat /\ Waiting' >= 1
         /\ ~Updating /\ (TOV \/ (OCIE /\ OCF)) => Waiting < MaxOff /\ Waiting' = Waiting + 1
<1>0. /\ TypeOK /\ MayTick /\ off \in Nat /\ I \in BOOLEAN /\ "main" \in Contexts
      /\ I' = I /\ (~I => off' = off + 1 /\ off < MaxOff)
  BY CountsType DEF IInv, TypeInv, Tick, TickBookkeeping, MayTick
<1>1. call'["main"].pc = call["main"].pc
  BY <1>0, TickTells, AgedTells
<1>2. call["main"].pc # "idle" =>
        /\ call["main"].slip \in Nat /\ call["main"].slip < MaxSlip
        /\ call'["main"].slip = call["main"].slip + 1
  <2>1. call["main"].pc # "idle" =>
          call["main"].slip \in Nat /\ call'["main"].slip = call["main"].slip + Slipped("main", 1)
    BY <1>0, TickTells, AgedTells
  <2>2. Active = "main" /\ Slipped("main", 1) = 1
    BY DEF Active, Slipped
  <2>. QED
    BY <1>0, <2>1, <2>2 DEF MayTick
<1>3. CASE ~I
  BY <1>0, <1>3 DEF Waiting
<1>4. CASE I /\ call["main"].pc = "now"
  <2>1. Waiting = call["main"].slip /\ Waiting' = call'["main"].slip
    BY <1>0, <1>1, <1>4 DEF Waiting
  <2>. QED
    BY <1>2, <1>4, <2>1, Sizes
<1>5. CASE I /\ call["main"].pc # "now"
  <2>1. Waiting = MaxOff /\ Waiting' = MaxOff
    BY <1>0, <1>1, <1>5 DEF Waiting
  <2>2. ~InNow
    BY <1>5 DEF IInv, ArmedInv, Active
  <2>3. Updating \/ ~(TOV \/ (OCIE /\ OCF))
    BY <1>0, <1>5, <2>2 DEF MayTick, InterruptPending, InterruptsOn
  <2>. QED
    BY <2>1, <2>3, Sizes
<1>. QED
  BY <1>0, <1>3, <1>4, <1>5

LEMMA TickSpent ==
  ASSUME IInv, PaceInv, FreshInv, Prompt, Brief, Tick, isr = "none", Armed
  PROVE  /\ Armed' /\ Spent' \in Int /\ Spent \in Int /\ Spent' >= Spent + 1
         /\ Spent < MinDelay + MaxOff
         /\ Waited' \in Int /\ Waited' >= Spent + 1
<1>0. /\ TypeOK /\ MayTick /\ off \in Nat /\ I \in BOOLEAN /\ OCIE \in BOOLEAN /\ OCF \in BOOLEAN
      /\ OCR1A \in 0 .. (Lo - 1)
      /\ upd.at = "write" \/ upd.at = "enable" <=> Updating
      /\ upd.at = "write" => upd.ocra \in 0 .. (Lo - 1)
      /\ upd.at = "write" => upd.at # "enable"
  BY CountsType DEF IInv, TypeInv, TypeOK, Tick
<1>1. /\ UNCHANGED <<OCR1A, OCIE, I, isr>> /\ OCF' = (OCF \/ TCNT1 = OCR1A)
      /\ off' = IF ~I \/ isr # "none" THEN off + 1 ELSE off
  BY <1>0, TickTells DEF Tick, TickBookkeeping
<1>2. /\ Updating' <=> Updating /\ upd'.at = upd.at
      /\ upd.at = "write" => upd'.ocra = upd.ocra
      /\ Updating => upd'.slip = upd.slip + 1 /\ upd.slip \in Nat /\ upd.slip < MaxSlip
  BY <1>0, WritesLater
<1>a. Updating' <=> Updating
  BY <1>0, WritesLater
<1>b. Waiting \in Nat /\ Waiting' \in Nat /\ Waiting' >= 1
  BY TickWaiting
<1>c. ~Updating => Waited' = MinDelay + Waiting'
  BY <1>a DEF Waited
<1>e. Updating /\ ~I => Waited' = MinDelay + (off + 1)
  BY <1>0, <1>1, <1>a DEF Waited, Waiting
<1>f. Updating /\ I => Waited' = upd'.slip
  BY <1>0, <1>1, <1>a DEF Waited
<1>. HIDE DEF Waiting
<1>d. ~Updating => ~Updating' /\ upd'.at # "write" /\ upd'.at # "enable"
  BY <1>0, <1>2 DEF Updating
<1>3. ASSUME NEW o \in 0 .. (Lo - 1)
      PROVE  /\ Distance(o) \in Nat /\ (Distance(o) = 0 <=> TCNT1 = o)
             /\ Distance(o)' = Between(TCNT1', o)
             /\ Distance(o) > 0 => Between(TCNT1', o) = Distance(o) - 1
  BY <1>3, Nearer DEF Distance
<1>4. CASE Updating
  <2>1. Spent = upd.slip /\ Spent' = upd'.slip
    BY <1>a, <1>4 DEF Spent
  <2>2. upd.at = "write" => Distance(upd.ocra)' = MinDelay - upd'.slip
    <3>. SUFFICES ASSUME upd.at = "write" PROVE Distance(upd.ocra)' = MinDelay - upd'.slip
      OBVIOUS
    <3>1. PICK o \in 0 .. (Lo - 1) : o = upd.ocra
      BY <1>0
    <3>2. Distance(o) = MinDelay - upd.slip
      BY <3>1 DEF Armed
    <3>3. Between(TCNT1', o) = Distance(o) - 1
      BY <1>2, <1>3, <1>4, <3>2, Sizes
    <3>4. Distance(upd.ocra)' = Between(TCNT1', o)
      <4>1. upd'.ocra = o
        BY <1>2, <3>1
      <4>. QED
        BY <4>1 DEF Distance
    <3>. QED
      BY <1>2, <1>4, <3>2, <3>3, <3>4, Sizes
  <2>3. upd.at = "enable" => Distance(OCR1A)' = MinDelay - upd'.slip
    <3>. SUFFICES ASSUME upd.at = "enable" PROVE Distance(OCR1A)' = MinDelay - upd'.slip
      OBVIOUS
    <3>1. PICK o \in 0 .. (Lo - 1) : o = OCR1A
      BY <1>0
    <3>2. Distance(o) = MinDelay - upd.slip
      BY <3>1 DEF Armed
    <3>3. Between(TCNT1', o) = Distance(o) - 1
      BY <1>2, <1>3, <1>4, <3>2, Sizes
    <3>4. Distance(OCR1A)' = Between(TCNT1', o)
      BY <1>1, <3>1 DEF Distance
    <3>. QED
      BY <1>2, <1>4, <3>2, <3>3, <3>4, Sizes
  <2>4. Armed'
    BY <1>a, <1>2, <1>4, <2>2, <2>3 DEF Armed
  <2>5. Waited' \in Int /\ Waited' >= Spent + 1
    BY <1>0, <1>2, <1>4, <1>e, <1>f, <2>1, Sizes
  <2>. QED
    BY <1>0, <1>2, <1>4, <2>1, <2>4, <2>5, Sizes
<1>5. CASE ~Updating /\ OCF
  <2>1. OCIE
    BY <1>0, <1>5 DEF Armed
  <2>2. OCF' /\ OCIE' /\ Waiting < MaxOff /\ Waiting' = Waiting + 1
    BY <1>1, <1>5, <2>1, TickWaiting
  <2>3. Spent = MinDelay + Waiting /\ Spent' = MinDelay + Waiting'
    BY <1>a, <1>5, <2>1, <2>2 DEF Spent
  <2>4. Armed'
    BY <1>d, <1>5, <2>2 DEF Armed
  <2>. QED
    BY <1>b, <1>c, <1>5, <2>2, <2>3, <2>4, Sizes
<1>6. CASE ~Updating /\ ~OCF
  <2>1. OCIE /\ Distance(OCR1A) <= MinDelay
    BY <1>6 DEF Armed
  <2>2. Spent = MinDelay - Distance(OCR1A)
    BY <1>6 DEF Spent
  <2>3. CASE Distance(OCR1A) = 0
    <3>1. OCF' /\ OCIE'
      BY <1>0, <1>1, <1>3, <2>1, <2>3
    <3>2. Spent' = MinDelay + Waiting'
      BY <1>a, <1>6, <3>1 DEF Spent
    <3>3. Armed'
      BY <1>d, <1>6, <3>1 DEF Armed
    <3>. QED
      BY <1>b, <1>c, <1>6, <2>2, <2>3, <3>2, <3>3, Sizes
  <2>4. CASE Distance(OCR1A) > 0
    <3>1. ~OCF' /\ OCIE'
      BY <1>0, <1>1, <1>3, <1>6, <2>1, <2>4
    <3>2. Distance(OCR1A)' = Distance(OCR1A) - 1
      <4>1. Distance(OCR1A)' = Between(TCNT1', OCR1A)
        BY <1>1 DEF Distance
      <4>. QED
        BY <1>0, <1>3, <2>4, <4>1
    <3>3. Spent' = MinDelay - Distance(OCR1A)'
      BY <1>a, <1>6, <3>1 DEF Spent
    <3>4. Distance(OCR1A) \in Nat
      BY <1>0, <1>3
    <3>5. Armed'
      <4>1. Distance(OCR1A)' <= MinDelay
        BY <2>1, <3>2, <3>4, Sizes
      <4>. QED
        BY <1>d, <1>6, <3>1, <4>1 DEF Armed
    <3>. QED
      BY <1>b, <1>c, <1>6, <2>1, <2>2, <2>4, <3>2, <3>3, <3>4, <3>5, Sizes
  <2>. QED
    BY <1>0, <1>3, <2>3, <2>4
<1>. QED
  BY <1>0, <1>4, <1>5, <1>6

LEMMA TickLate ==
  ASSUME IInv, RegInv, TimeInv, Prompt, Brief, Counted, Tick
  PROVE  LateInv'
<1>0. /\ TypeOK /\ PaceInv /\ FreshInv /\ MayTick /\ off \in Nat /\ I \in BOOLEAN
      /\ TCNT1 \in 0 .. (Lo - 1) /\ TOV \in BOOLEAN
      /\ isr' = isr /\ I' = I /\ (Updating' <=> Updating)
      /\ off' = IF ~I \/ isr # "none" THEN off + 1 ELSE off
      /\ Updating => upd'.slip = upd.slip + 1 /\ upd.slip \in Nat /\ upd.slip < MaxSlip
  BY CountsType, WritesLater, TickTells DEF IInv, TypeInv, TypeOK, RegInv, Tick, TickBookkeeping
<1>1. ASSUME isr # "none", NEW i \in DOMAIN queue'
      PROVE  -queue'[i].left <= 2 * MaxSlip + 2 * (MaxOff + MinDelay) + off'
  <2>1. i \in DOMAIN queue /\ queue[i].left \in Int /\ queue'[i].left = queue[i].left - 1
    BY <1>1, TickCounts
  <2>2. -queue[i].left <= 2 * MaxSlip + 2 * (MaxOff + MinDelay) + off
    BY <1>1, <2>1 DEF TimeInv, LateInv
  <2>3. off' = off + 1
    BY <1>0, <1>1
  <2>. QED
    BY <1>0, <2>1, <2>2, <2>3, Sizes
<1>2. ASSUME isr = "none", 1 \in DOMAIN queue', queue'[1].left <= 0 PROVE DueLate'
  <2>1. 1 \in DOMAIN queue /\ queue[1].left \in Int /\ queue'[1].left = queue[1].left - 1
    BY <1>2, TickCounts
  <2>2. CASE queue[1].left > 0
    <3>1. Due(queue[1])'
      <4>1. TCNT1' \in Nat
        BY <1>0, TicksInvariant DEF IInv, TypeInv, TypeOK
      <4>2. queue'[1].left = 0
        BY <1>2, <2>1, <2>2
      <4>. QED
        BY <4>1, <4>2, Sizes DEF Due
    <3>2. IInv' /\ RegInv'
      BY TicksInvariant, TickKeeps
    <3>3. OrderInv' /\ OnTime(queue[1])'
      BY <1>2, TickExact DEF ExactInv
    <3>. QED
      BY <1>0, <1>2, <3>1, <3>2, <3>3, JustDueNext
  <2>3. CASE queue[1].left <= 0
    <3>1. DueLate
      BY <1>2, <2>1, <2>3 DEF TimeInv, LateInv
    <3>2. ASSUME NEW k \in Int, NEW m \in Int, LateBy(k), k + 1 <= m
          PROVE  \A i \in DOMAIN queue' : -queue'[i].left <= Allowed(i) + m
      <4>1. ASSUME NEW i \in DOMAIN queue' PROVE -queue'[i].left <= Allowed(i) + m
        <5>1. /\ i \in DOMAIN queue /\ i \in Nat
              /\ queue[i].left \in Int /\ queue'[i].left = queue[i].left - 1
          BY <1>0, <4>1, TickCounts, CountsType
        <5>2. Allowed(i) \in Nat
          BY <5>1, AllowedTells
        <5>3. -queue[i].left <= Allowed(i) + k
          BY <3>2, <5>1 DEF LateBy
        <5>. QED
          BY <3>2, <5>1, <5>2, <5>3
      <4>. QED
        BY <4>1
    <3>3. Waited \in Int
      BY <1>0, WaitsEnd
    <3>4. CASE TOV
      <4>1. TOV' /\ LateBy(Waited)
        BY <3>1, <3>4 DEF DueLate, Tick
      <4>3. Waited' \in Int /\ Waited + 1 <= Waited'
        <5>1. CASE I /\ Updating
          <6>1. Waited = upd.slip /\ Waited' = upd'.slip
            BY <1>0, <5>1 DEF Waited
          <6>. QED
            BY <1>0, <5>1, <6>1
        <5>2. CASE ~I
          <6>1. Waited = MinDelay + off /\ Waited' = MinDelay + off' /\ off' = off + 1
            BY <1>0, <5>2 DEF Waited, Waiting
          <6>. QED
            BY <1>0, <6>1, Bounds
        <5>3. CASE I /\ ~Updating
          <6>1. Waited = MinDelay + Waiting /\ Waited' = MinDelay + Waiting'
            BY <1>0, <5>3 DEF Waited
          <6>2. Waiting \in Nat /\ Waiting' = Waiting + 1
            BY <1>0, <1>2, <3>4, <5>3, TickWaiting
          <6>. QED
            BY <6>1, <6>2, Bounds
        <5>. QED
          BY <1>0, <5>1, <5>2, <5>3
      <4>4. LateBy(Waited)'
        BY <3>2, <3>3, <4>1, <4>3 DEF LateBy
      <4>. QED
        BY <4>1, <4>4 DEF DueLate
    <3>5. CASE ~TOV
      <4>1. Armed /\ (LateBy(Spent) \/ (LateBy(MinDelay + MaxOff + Spent) /\ SinceRound(Spent)))
        BY <3>1, <3>5 DEF DueLate
      <4>2. /\ Armed' /\ Spent' \in Int /\ Spent \in Int /\ Spent' >= Spent + 1
            /\ Spent < MinDelay + MaxOff
            /\ Waited' \in Int /\ Waited' >= Spent + 1
        BY <1>0, <1>2, <4>1, TickSpent
      <4>3. CASE TCNT1 < Lo - 1 /\ TCNT1' = TCNT1 + 1 /\ TOV' = TOV
        <5>1. LateBy(Spent) => LateBy(Spent)'
          BY <3>2, <4>2 DEF LateBy
        <5>2. ASSUME LateBy(MinDelay + MaxOff + Spent), SinceRound(Spent)
              PROVE  LateBy(MinDelay + MaxOff + Spent)' /\ SinceRound(Spent)'
          <6>0. Spent' \in Int /\ Spent \in Int /\ Spent' >= Spent + 1
            BY <4>2
          <6>1. /\ MinDelay + MaxOff + Spent \in Int /\ MinDelay + MaxOff + Spent' \in Int
                /\ MinDelay + MaxOff + Spent + 1 <= MinDelay + MaxOff + Spent'
            BY <6>0, Sizes
          <6>3. TCNT1' <= MaxOff + Spent' \/ TCNT1' <= 3 * MaxSlip + Spent'
            <7>1. TCNT1 \in Int /\ TCNT1' = TCNT1 + 1
              BY <1>0, <4>3
            <7>2. TCNT1 <= MaxOff + Spent \/ TCNT1 <= 3 * MaxSlip + Spent
              BY <5>2 DEF SinceRound
            <7>. QED
              BY <6>0, <7>1, <7>2, Sizes
          <6>2. \A i \in DOMAIN queue' : -queue'[i].left <= Allowed(i) + (MinDelay + MaxOff + Spent')
            BY <3>2, <5>2, <6>1
          <6>. QED
            BY <6>2, <6>3 DEF LateBy, SinceRound
        <5>. QED
          BY <3>5, <4>1, <4>2, <4>3, <5>1, <5>2 DEF DueLate
      <4>4. CASE TCNT1 = Lo - 1 /\ TOV'
        <5>1. ~SinceRound(Spent)
          BY <1>0, <4>2, <4>4, Sizes DEF SinceRound
        <5>2. LateBy(Spent)
          BY <4>1, <5>1
        <5>4. LateBy(Waited)'
          BY <3>2, <4>2, <5>2 DEF LateBy
        <5>. QED
          BY <4>4, <5>4 DEF DueLate
      <4>. QED
        BY <1>0, <4>3, <4>4, CounterGoesOn
    <3>. QED
      BY <1>0, <3>4, <3>5
  <2>. QED
    BY <2>1, <2>2, <2>3
<1>. QED
  BY <1>0, <1>1, <1>2 DEF LateInv

-----------------------------------------------------------------------------
\* What is left of the timeouts does not depend on the calls, only how long a pending
\* interrupt may still have to wait.
LEMMA SameTimer ==
  ASSUME TimeInv, UNCHANGED <<TCNT1, OCR1A, TOV, OCF, OCIE, I, queue, isr, upd, clock, off>>
  PROVE  /\ \A i \in DOMAIN queue' : OnTime(queue[i])'
         /\ OrderInv'
         /\ Waiting' = Waiting => LateInv'
<1>1. /\ \A i \in DOMAIN queue' : OnTime(queue[i])'
      /\ OrderInv'
  BY DEF TimeInv, ExactInv, OnTime, OrderInv
<1>2. ASSUME Waiting' = Waiting PROVE LateInv'
  <2>1. Waited' = Waited /\ Spent' = Spent
    BY <1>2 DEF Waited, Spent, Distance, Between, Updating
  <2>. HIDE DEF Waiting, Waited, Spent
  <2>2. Armed' <=> Armed
    BY DEF Armed, Distance, Between, Updating
  <2>. HIDE DEF Armed
  <2>3. DueLate => DueLate'
    BY <2>1, <2>2 DEF DueLate, LateBy, SinceRound
  <2>. QED
    BY <2>3 DEF TimeInv, LateInv
<1>. QED
  BY <1>1, <1>2

\* It does not matter that an interrupt may have to wait longer than before.
LEMMA LateGrows ==
  ASSUME TypeOK, PaceInv, Prompt, Brief, DueLate, UNCHANGED <<TCNT1, TOV, queue>>,
         TOV => Waited' \in Int /\ Waited <= Waited',
         ~TOV /\ Armed => Armed' /\ Spent' \in Int /\ Spent <= Spent'
  PROVE  DueLate'
<1>1. ASSUME NEW k \in Int, NEW m \in Int, LateBy(k), k <= m
      PROVE  \A i \in DOMAIN queue' : -queue'[i].left <= Allowed(i) + m
  <2>1. ASSUME NEW i \in DOMAIN queue PROVE -queue[i].left <= Allowed(i) + m
    <3>1. i \in Nat /\ queue[i].left \in Int /\ Allowed(i) \in Nat
      BY CountsType, AllowedTells
    <3>2. -queue[i].left <= Allowed(i) + k
      BY <1>1 DEF LateBy
    <3>. QED
      BY <1>1, <3>1, <3>2
  <2>. QED
    BY <2>1
<1>2. CASE TOV
  <2>1. LateBy(Waited) /\ Waited \in Int
    BY <1>2, WaitsEnd DEF DueLate
  <2>2. LateBy(Waited)'
    BY <1>1, <1>2, <2>1 DEF LateBy
  <2>. QED
    BY <1>2, <2>2 DEF DueLate
<1>3. CASE ~TOV
  <2>1. Armed /\ (LateBy(Spent) \/ (LateBy(MinDelay + MaxOff + Spent) /\ SinceRound(Spent)))
    BY <1>3 DEF DueLate
  <2>2. Armed' /\ Spent' \in Int /\ Spent \in Int /\ Spent <= Spent'
    BY <1>3, <2>1, WaitsEnd
  <2>3. LateBy(Spent) => LateBy(Spent)'
    BY <1>1, <2>2 DEF LateBy
  <2>4. ASSUME LateBy(MinDelay + MaxOff + Spent), SinceRound(Spent)
        PROVE  LateBy(MinDelay + MaxOff + Spent)' /\ SinceRound(Spent)'
    <3>1. /\ MinDelay + MaxOff + Spent \in Int /\ MinDelay + MaxOff + Spent' \in Int
          /\ MinDelay + MaxOff + Spent <= MinDelay + MaxOff + Spent'
      BY <2>2, Sizes
    <3>2. \A i \in DOMAIN queue' : -queue'[i].left <= Allowed(i) + (MinDelay + MaxOff + Spent')
      BY <1>1, <2>4, <3>1
    <3>3. TCNT1' <= MaxOff + Spent' \/ TCNT1' <= 3 * MaxSlip + Spent'
      <4>1. TCNT1 \in Int /\ TCNT1' = TCNT1
        BY CountsType
      <4>2. TCNT1 <= MaxOff + Spent \/ TCNT1 <= 3 * MaxSlip + Spent
        BY <2>4 DEF SinceRound
      <4>. QED
        BY <2>2, <4>1, <4>2, Sizes
    <3>. QED
      BY <3>2, <3>3 DEF LateBy, SinceRound
  <2>. QED
    BY <1>3, <2>1, <2>2, <2>3, <2>4 DEF DueLate
<1>. QED
  BY <1>2, <1>3 DEF TypeOK

\* No interrupt is pending when the main program starts something new with interrupts
\* enabled.
LEMMA NonePending ==
  ASSUME TypeOK, DueLate, I, isr = "none", ~Updating, ~InNow, ~InterruptPending
  PROVE  ~TOV /\ Armed /\ ~OCF
<1>1. ~TOV /\ ~(OCIE /\ OCF)
  BY DEF InterruptPending, InterruptsOn
<1>2. Armed
  BY <1>1 DEF DueLate
<1>3. OCIE
  BY <1>2 DEF Armed
<1>. QED
  BY <1>1, <1>2, <1>3

LEMMA SetTimeoutTimed ==
  ASSUME IInv, RegInv, TimeInv, NEW d \in Clients, NEW timeout \in Delays, SetTimeout(d, timeout)
  PROVE  TimeInv'
<1>0. /\ UNCHANGED <<TCNT1, OCR1A, TOV, OCF, OCIE, I, falling, timer_cycles, inited, updated,
                     queue, reading, isr, upd, clock, off, cuts>>
      /\ ~Updating /\ ~InterruptPending /\ isr \in {"none", "callback"}
      /\ call[Active].pc = "idle"
      /\ call' = [call EXCEPT ![Active] =
                    [pc |-> "now", cb |-> d, timeout |-> timeout, slip |-> 0]]
      /\ CallInv /\ OneLate
  BY DEF SetTimeout, hardware, TimeInv
<1>1. /\ Active \in Contexts /\ call \in [Contexts -> Calls] /\ "main" \in Contexts
      /\ "isr" \in Contexts /\ TypeOK /\ I \in BOOLEAN
  BY <1>0 DEF Active, Contexts, IInv, TypeInv, TypeOK
<1>a. ~InNow /\ ~InNow'
  BY <1>0 DEF IInv, ArmedInv, InNow
<1>b. AgeInv'
  BY <1>a DEF AgeInv
<1>2. \A c \in Contexts : c # Active => call'[c] = call[c]
  BY <1>0, <1>1
<1>3. call'[Active].pc = "now"
  BY <1>0, <1>1
<1>4. /\ \A i \in DOMAIN queue' : OnTime(queue[i])'
      /\ OrderInv' /\ (Waiting' = Waiting => LateInv')
  BY <1>0, SameTimer
<1>5. \A c \in Contexts : call'[c].pc = "insert" => call'[c] = call[c]
  BY <1>2, <1>3
<1>6. ExactInv'
  BY <1>0, <1>4, <1>5 DEF TimeInv, ExactInv, OnTime
<1>8. CASE Active = "main"
  <2>1. isr = "none" /\ call["main"].pc = "idle"
    BY <1>0, <1>8 DEF Active
  <2>2. call'["isr"] = call["isr"] /\ call'["main"].pc = "now" /\ cuts = 0
    BY <1>0, <1>1, <1>2, <1>3, <1>8, <2>1 DEF CallInv
  <2>3. CallInv' /\ OneLate'
    BY <1>0, <2>1, <2>2 DEF CallInv, OneLate
  <2>4. LateInv'
    <3>1. CASE ~I
      <4>1. Waiting' = Waiting
        BY <1>0, <3>1 DEF Waiting
      <4>. QED
        BY <1>4, <4>1
    <3>2. CASE I
      <4>. SUFFICES ASSUME 1 \in DOMAIN queue, queue[1].left <= 0 PROVE DueLate'
        BY <1>0, <2>1 DEF LateInv
      <4>1. DueLate
        BY <2>1 DEF TimeInv, LateInv
      <4>2. ~TOV /\ Armed /\ ~OCF
        BY <1>0, <1>1, <1>a, <2>1, <3>2, <4>1, NonePending
      <4>3. Spent' = Spent
        BY <1>0, <4>2 DEF Spent, Distance, Between, Updating
      <4>4. Armed'
        BY <1>0, <4>2 DEF Armed, Distance, Between, Updating
      <4>. HIDE DEF Spent, Armed
      <4>. QED
        BY <1>0, <4>1, <4>2, <4>3, <4>4 DEF DueLate, LateBy, SinceRound
    <3>. QED
      BY <1>1, <3>1, <3>2
  <2>. QED
    BY <1>4, <1>6, <1>b, <2>3, <2>4 DEF TimeInv
<1>9. CASE Active = "isr"
  <2>1. isr # "none"
    BY <1>9 DEF Active
  <2>2. call'["main"] = call["main"] /\ call'["isr"].pc = "now"
    BY <1>1, <1>2, <1>3, <1>9
  <2>3. CallInv' /\ OneLate'
    BY <1>0, <2>1, <2>2 DEF CallInv, OneLate
  <2>4. Waiting' = Waiting
    BY <1>0, <2>2 DEF Waiting
  <2>. QED
    BY <1>4, <1>6, <1>b, <2>3, <2>4 DEF TimeInv
<1>. QED
  BY <1>1, <1>8, <1>9 DEF Contexts

\* What now() does has no part in how late the timeouts are.
LEMMA NowStepsTimed ==
  ASSUME IInv, TimeInv, NowDisable \/ NowRead
  PROVE  TimeInv'
<1>0. /\ UNCHANGED <<TCNT1, OCR1A, TOV, OCF, OCIE, I, queue, call, isr, upd, clock, off, cuts>>
      /\ reading'.age = 0
  BY DEF NowDisable, NowRead, hardware
<1>1. /\ \A i \in DOMAIN queue' : OnTime(queue[i])'
      /\ OrderInv' /\ (Waiting' = Waiting => LateInv')
  BY <1>0, SameTimer
<1>2. Waiting' = Waiting
  BY <1>0 DEF Waiting
<1>3. ExactInv' /\ CallInv' /\ OneLate'
  BY <1>0 DEF TimeInv, ExactInv, OnTime, CallInv, OneLate
<1>4. AgeInv'
  <2>1. call[Active].pc = "now" => call[Active].slip \in Nat
    <3>1. TypeOK /\ Active \in Contexts
      BY DEF IInv, TypeInv, Active, Contexts
    <3>. QED
      BY <3>1, CountsType
  <2>. QED
    BY <1>0, <2>1 DEF AgeInv, Active
<1>. QED
  BY <1>1, <1>2, <1>3, <1>4 DEF TimeInv

\* The new timeout is late by no more than the end of now().
LEMMA SetTimeoutNowTimed ==
  ASSUME IInv, RegInv, TimeInv, Prompt, Brief, Counted, SetTimeoutNow
  PROVE  TimeInv'
<1>. DEFINE f == call[Active]
            left == LeftAfter(f.timeout, reading.age)
            g == [pc |-> "insert", cb |-> f.cb, slip |-> f.slip, left |-> left,
                  when |-> (Now(reading) + f.timeout) % Wide]
<1>0. /\ UNCHANGED <<TCNT1, OCR1A, TOV, OCF, OCIE, I, falling, timer_cycles, inited, updated,
                     queue, isr, upd, clock, off, cuts>>
      /\ reading.at = "read" /\ reading' = NoReading /\ InNow /\ f.pc = "now"
      /\ call' = [call EXCEPT ![Active] = g]
      /\ CallInv /\ OneLate /\ AgeInv
  BY DEF SetTimeoutNow, NowReturns, hardware, InNow, TimeInv
<1>1. /\ Active \in Contexts /\ call \in [Contexts -> Calls] /\ TypeOK /\ PaceInv
      /\ "main" \in Contexts /\ "isr" \in Contexts /\ reading \in Readings /\ I \in BOOLEAN
  BY <1>0 DEF Active, Contexts, IInv, TypeInv, TypeOK, RegInv
<1>b. AgeInv'
  BY <1>0 DEF AgeInv, InNow, NoReading
<1>2. \A c \in Contexts : c # Active => call'[c] = call[c]
  BY <1>0, <1>1
<1>3. f.timeout \in Nat /\ f.slip \in Nat /\ f.slip <= MaxSlip
  <2>1. f \in [pc : {"now"}, cb : Clients, timeout : Delays, slip : Nat]
    BY <1>0, <1>1 DEF Calls, NoCall
  <2>2. \A d \in Delays : d \in Nat
    BY DelaysAssumption, WideProduct
  <2>3. f.slip <= MaxSlip
    BY <1>0, <1>1 DEF PaceInv
  <2>. QED
    BY <2>1, <2>2, <2>3
<1>4. call'[Active] = g
  BY <1>0, <1>1
<1>5. Now(reading) = (clock - reading.age) % Wide
  BY <1>0, NowTells DEF NowExact, RegInv
<1>c. reading.age \in Nat /\ reading.age <= f.slip
  BY <1>0, <1>1, ReadType DEF AgeInv
<1>d. left = f.timeout - reading.age /\ left \in Int /\ -left <= f.slip
  <2>1. f.timeout - reading.age > -MaxLate
    BY <1>3, <1>c, Sizes DEF Counted
  <2>. QED
    BY <1>3, <1>c, <2>1 DEF LeftAfter
<1>a. f = call[Active]
  OBVIOUS
<1>. HIDE DEF f, left
<1>6. /\ call'[Active].pc = "insert" /\ call'[Active].slip = f.slip
      /\ call'[Active].left = left
      /\ call'[Active].when = (Now(reading) + f.timeout) % Wide
  BY <1>4
<1>. HIDE DEF g
<1>e. (Now(reading) + f.timeout) % Wide = (clock + left) % Wide
  <2>1. clock \in Int /\ Wide \in Nat \ {0}
    BY <1>1, WideType, CountsType
  <2>2. PICK x \in Int : x = clock - reading.age
    BY <1>c, <2>1
  <2>3. ((x % Wide) + f.timeout) % Wide = (x + f.timeout) % Wide
    <3>1. f.timeout \in Int
      BY <1>3
    <3>. QED
      BY <2>1, <2>2, <3>1, ModAdd, Zenon
  <2>4. x + f.timeout = clock + left
    <3>1. PICK n \in Int : n = left
      BY <1>d
    <3>2. PICK d \in Int, a \in Int : d = f.timeout /\ a = reading.age
      BY <1>3, <1>c
    <3>. QED
      BY <1>d, <2>1, <2>2, <3>1, <3>2
  <2>. QED
    BY <1>5, <2>2, <2>3, <2>4
<1>7. /\ \A i \in DOMAIN queue' : OnTime(queue[i])'
      /\ OrderInv' /\ (Waiting' = Waiting => LateInv')
  BY <1>0, SameTimer
<1>8. ExactInv'
  <2>1. ASSUME NEW c \in Contexts, call'[c].pc = "insert" PROVE OnTime(call[c])'
    <3>1. CASE c = Active
      BY <1>0, <1>6, <1>e, <3>1 DEF OnTime
    <3>2. CASE c # Active
      BY <1>0, <1>2, <2>1, <3>2 DEF TimeInv, ExactInv, OnTime
    <3>. QED
      BY <3>1, <3>2
  <2>. QED
    BY <1>7, <2>1 DEF ExactInv
<1>10. CASE Active = "main"
  <2>1. /\ call'["isr"] = call["isr"] /\ isr = "none" /\ call["main"].pc = "now"
        /\ call["main"].slip = f.slip
        /\ call'["main"].pc = "insert" /\ call'["main"].slip = f.slip
        /\ call'["main"].left = left
    BY <1>0, <1>1, <1>2, <1>6, <1>10, <1>a DEF Active
  <2>2. cuts = 0 /\ Cuts(cuts) = 0
    BY <1>0, <2>1, CutsTell DEF CallInv
  <2>3. CallInv'
    <3>1. -left <= f.slip + Cuts(cuts)
      BY <1>3, <1>d, <2>2
    <3>2. cuts' = 0 /\ cuts' <= MaxCuts /\ isr' = "none"
      BY <1>0, <2>1, <2>2 DEF CallInv
    <3>3. Cuts(cuts)' = Cuts(cuts)
      BY <1>0 DEF Cuts
    <3>4. call["isr"].pc = "insert" => -call["isr"].left <= call["isr"].slip
      BY <1>0 DEF CallInv
    <3>. HIDE DEF Cuts
    <3>. QED
      BY <2>1, <3>1, <3>2, <3>3, <3>4 DEF CallInv
  <2>4. OneLate'
    BY <1>0, <2>2 DEF OneLate
  <2>5. LateInv'
    <3>1. CASE ~I
      <4>1. Waiting' = Waiting
        BY <1>0, <3>1 DEF Waiting
      <4>. QED
        BY <1>7, <4>1
    <3>2. CASE I
      <4>. SUFFICES ASSUME 1 \in DOMAIN queue, queue[1].left <= 0 PROVE DueLate'
        BY <1>0, <2>1 DEF LateInv
      <4>1. DueLate
        BY <2>1 DEF TimeInv, LateInv
      <4>2. Waiting = f.slip /\ Waiting' = MaxOff
        BY <1>0, <2>1, <3>2 DEF Waiting
      <4>3. Waiting \in Int /\ Waiting' \in Int /\ Waiting <= Waiting'
        BY <1>3, <4>2, Sizes
      <4>. HIDE DEF Waiting
      <4>4. ~Updating /\ ~Updating'
        BY <1>0 DEF IInv, ArmedInv, Updating
      <4>5. Waited' \in Int /\ Waited <= Waited'
        BY <4>3, <4>4, Sizes DEF Waited
      <4>6. Armed => Armed' /\ Spent' \in Int /\ Spent <= Spent'
        <5>. SUFFICES ASSUME Armed PROVE Armed' /\ Spent' \in Int /\ Spent <= Spent'
          OBVIOUS
        <5>1. Armed'
          BY <1>0 DEF Armed, Distance, Between, Updating
        <5>2. CASE OCF
          BY <1>0, <4>3, <4>4, <5>1, <5>2, Sizes DEF Spent
        <5>3. CASE ~OCF
          <6>1. Spent' = Spent
            BY <1>0, <4>4, <5>3 DEF Spent, Distance, Between
          <6>2. Spent \in Int
            BY <1>1, WaitsEnd
          <6>. QED
            BY <5>1, <6>1, <6>2
        <5>. QED
          BY <5>1, <5>2, <5>3
      <4>. QED
        BY <1>0, <1>1, <4>1, <4>5, <4>6, LateGrows
    <3>. QED
      BY <1>1, <3>1, <3>2
  <2>. QED
    BY <1>7, <1>8, <1>b, <2>3, <2>4, <2>5 DEF TimeInv
<1>11. CASE Active = "isr"
  <2>1. /\ call'["main"] = call["main"] /\ isr # "none"
        /\ call'["isr"].pc = "insert" /\ call'["isr"].slip = f.slip
        /\ call'["isr"].left = left
    BY <1>1, <1>2, <1>6, <1>11 DEF Active
  <2>2. Waiting' = Waiting
    BY <1>0, <2>1 DEF Waiting
  <2>3. CallInv' /\ OneLate'
    BY <1>0, <1>d, <2>1 DEF CallInv, OneLate, Cuts
  <2>. QED
    BY <1>7, <1>8, <1>b, <2>2, <2>3 DEF TimeInv
<1>. QED
  BY <1>1, <1>10, <1>11 DEF Contexts

\* A new timeout comes behind those that are not later, and before the others.
LEMMA PositionTells ==
  ASSUME TypeOK, NEW when \in Times
  PROVE  /\ Position(when) \in 1 .. (Len(queue) + 1)
         /\ \A i \in 1 .. (Position(when) - 1) : ~Before(when, queue[i].when)
         /\ Position(when) <= Len(queue) => Before(when, queue[Position(when)].when)
<1>. DEFINE later == Later(when)
            p == Position(when)
<1>1. DOMAIN queue = 1 .. Len(queue) /\ Len(queue) \in Nat
  BY DEF TypeOK
<1>2. /\ later \in SUBSET Nat
      /\ \A i \in 1 .. Len(queue) : i \in later <=> Before(when, queue[i].when)
  BY <1>1 DEF Later
<1>3. p \in 1 .. (Len(queue) + 1)
  BY PositionType
<1>4. CASE later = {}
  <2>1. p = Len(queue) + 1
    BY <1>4 DEF Position
  <2>2. \A i \in 1 .. (p - 1) : i \in 1 .. Len(queue)
    BY <1>1, <2>1
  <2>3. \A i \in 1 .. (p - 1) : ~Before(when, queue[i].when)
    BY <1>2, <1>4, <2>2
  <2>4. ~(p <= Len(queue))
    BY <1>1, <2>1
  <2>. QED
    BY <1>3, <2>3, <2>4
<1>5. CASE later # {}
  <2>1. \E m \in later : \A n \in later : m <= n
    BY <1>2, <1>5, LeastExists
  <2>2. p = CHOOSE i \in later : \A j \in later : i <= j
    BY <1>5 DEF Position
  <2>3. p \in later /\ \A j \in later : p <= j
    BY <2>1, <2>2
  <2>4. ASSUME NEW i \in 1 .. (p - 1) PROVE ~Before(when, queue[i].when)
    <3>1. i \in 1 .. Len(queue) /\ ~(p <= i)
      BY <1>1, <1>3
    <3>. QED
      BY <1>2, <2>3, <3>1
  <2>5. p <= Len(queue) => Before(when, queue[p].when)
    <3>1. p <= Len(queue) => p \in 1 .. Len(queue)
      BY <1>1, <1>3
    <3>. QED
      BY <1>2, <2>3, <3>1
  <2>. QED
    BY <1>3, <2>4, <2>5
<1>. QED
  BY <1>4, <1>5

LEMMA PositionOrders ==
  ASSUME IInv, RegInv, TimeInv, Prompt, Brief,
         NEW e \in Entries, OnTime(e), Ahead(e), -e.left <= LateBound,
         NEW p, p = Position(e.when)
  PROVE  /\ p \in 1 .. (Len(queue) + 1) /\ e.left \in Int
         /\ \A i \in 1 .. (p - 1) : i \in DOMAIN queue /\ queue[i].left <= e.left
         /\ \A i \in p .. Len(queue) : i \in DOMAIN queue /\ e.left < queue[i].left
<1>0. /\ TypeOK /\ DOMAIN queue = 1 .. Len(queue) /\ Len(queue) \in Nat /\ clock \in Int
      /\ e.when \in Times /\ e.left \in Int /\ e.when = (clock + e.left) % Wide
  <2>1. e.when \in Times /\ e.left \in Lefts
    BY DEF Entries
  <2>. QED
    BY <2>1, CountsType, ElapsedTells DEF IInv, TypeInv, OnTime
<1>1. /\ p \in 1 .. (Len(queue) + 1)
      /\ \A i \in 1 .. (p - 1) : ~Before(e.when, queue[i].when)
      /\ p <= Len(queue) => Before(e.when, queue[p].when)
  BY <1>0, PositionTells
<1>2. ASSUME NEW i \in DOMAIN queue
      PROVE  Before(e.when, queue[i].when) <=> e.left < queue[i].left
  <2>1. queue[i].left \in Int /\ OnTime(queue[i]) /\ Ahead(queue[i])
    BY <1>0, CountsType DEF TimeInv, ExactInv, RegInv, AheadInv
  <2>2. -queue[i].left <= LateBound
    BY <2>1, NowBounded, Sizes DEF BoundedLateness
  <2>3. e.left - queue[i].left < Wide \div 2
    BY <1>0, <2>1, <2>2, Spread
  <2>4. queue[i].left - e.left < Wide \div 2
    BY <1>0, <2>1, Spread
  <2>5. queue[i].when = (clock + queue[i].left) % Wide
    BY <2>1 DEF OnTime
  <2>. QED
    BY <1>0, <2>1, <2>3, <2>4, <2>5, TimesCompare
<1>3. ASSUME NEW i \in 1 .. (p - 1) PROVE i \in DOMAIN queue /\ queue[i].left <= e.left
  <2>1. i \in DOMAIN queue
    BY <1>0, <1>1
  <2>2. queue[i].left \in Int /\ ~(e.left < queue[i].left)
    BY <1>0, <1>1, <1>2, <2>1, CountsType
  <2>. QED
    BY <1>0, <2>1, <2>2
<1>4. ASSUME NEW i \in p .. Len(queue) PROVE i \in DOMAIN queue /\ e.left < queue[i].left
  <2>1. i \in DOMAIN queue /\ p \in DOMAIN queue /\ p <= i /\ p <= Len(queue)
    BY <1>0, <1>1
  <2>2. queue[i].left \in Int /\ queue[p].left \in Int /\ e.left < queue[p].left
    BY <1>0, <1>1, <1>2, <2>1, CountsType
  <2>3. queue[p].left <= queue[i].left
    BY <2>1 DEF TimeInv, OrderInv
  <2>. QED
    BY <1>0, <2>1, <2>2, <2>3
<1>. QED
  BY <1>0, <1>1, <1>3, <1>4

\* update_timeouts arms a head that is due for as soon as MIN_DELAY allows.
LEMMA ArmsLate ==
  ASSUME Prompt, Brief, inited, TCNT1 \in 0 .. (Lo - 1), NEW c \in 0 .. (Hi - 1),
         clock = c * Lo + TCNT1, 1 \in DOMAIN queue', OnTime(queue'[1]),
         queue'[1].left \in Int, queue'[1].left <= 0, -queue'[1].left <= LateBound,
         UpdateTimeouts(queue', c), TCNT1' = TCNT1
  PROVE  Armed' /\ Spent' = 0
<1>1. /\ Periods(queue'[1].when, c) <= 0
      /\ CompareFor(queue'[1].when, c) = (TCNT1 + MinDelay) % Lo
  BY OverdueHead
<1>2. ~(Periods(queue'[1].when, c) > 0)
  <2>1. Periods(queue'[1].when, c) <= 0 => ~(Periods(queue'[1].when, c) > 0)
    <3>1. queue'[1].when \in Int
      <4>1. clock \in Int
        BY WideProduct
      <4>2. (clock + queue'[1].left) % Wide \in Int
        BY <4>1, WideProduct
      <4>. QED
        BY <4>2 DEF OnTime
    <3>2. (queue'[1].when \div Lo - c) % Hi \in Int
      BY <3>1, WideProduct
    <3>3. Periods(queue'[1].when, c) \in Int
      BY <3>2, WideProduct DEF Periods
    <3>. QED
      BY <3>3
  <2>. QED
    BY <1>1, <2>1
<1>3. upd' = [at |-> "write", ocra |-> (TCNT1 + MinDelay) % Lo, slip |-> 0]
  <2>1. queue' # <<>>
    OBVIOUS
  <2>. QED
    BY <1>1, <1>2, <2>1 DEF UpdateTimeouts
<1>4. upd'.at = "write" /\ upd'.ocra = (TCNT1 + MinDelay) % Lo /\ upd'.slip = 0 /\ Updating'
  BY <1>3 DEF Updating
<1>5. Distance(upd.ocra)' = MinDelay
  <2>1. Distance(upd.ocra)' = Distance((TCNT1 + MinDelay) % Lo)
    BY <1>4 DEF Distance
  <2>. QED
    BY <2>1, MinDelayAhead
<1>6. MinDelay = MinDelay - 0
  BY Sizes
<1>. QED
  BY <1>4, <1>5, <1>6 DEF Armed, Spent

\* The list stays in order, and what the new timeout shifts does not count as first.
LEMMA InsertTimed ==
  ASSUME IInv, RegInv, TimeInv, Prompt, Brief, SetTimeoutInsert
  PROVE  TimeInv'
<1>. DEFINE f == call[Active]
            e == [cb |-> f.cb, when |-> f.when, left |-> f.left]
            p == Position(f.when)
            l == f.left
            n == Len(queue) + 1
<1>0. /\ UNCHANGED <<TCNT1, OCR1A, TOV, OCF, I, falling, timer_cycles, inited, reading, isr,
                     clock, off>>
      /\ cuts' = IF Active = "main" THEN 0 ELSE cuts
      /\ ~Updating /\ f.pc = "insert"
      /\ queue' = Inserted(p, e)
      /\ IF p = 1 THEN UpdateTimeouts(queue', timer_cycles)
                  ELSE UNCHANGED <<OCIE, updated, upd>>
      /\ call' = [call EXCEPT ![Active] = NoCall]
      /\ CallInv /\ OneLate
  BY DEF SetTimeoutInsert, TimeInv
<1>1. /\ Active \in Contexts /\ call \in [Contexts -> Calls] /\ TypeOK /\ PaceInv
      /\ "main" \in Contexts /\ "isr" \in Contexts /\ inited /\ I \in BOOLEAN
      /\ cuts \in Nat
  BY <1>0, CountsType DEF Active, Contexts, IInv, TypeInv, TypeOK, RegInv, ClockInv
<1>2. \A c \in Contexts : c # Active => call'[c] = call[c]
  BY <1>0, <1>1
<1>3. call'[Active].pc = "idle"
  BY <1>0, <1>1 DEF NoCall
<1>4. /\ f \in [pc : {"insert"}, cb : Clients, when : Times, left : Lefts, slip : Nat]
      /\ f.slip <= MaxSlip /\ OnTime(f) /\ Ahead(f) /\ -f.left <= LateBound
  BY <1>0, <1>1, NowBounded DEF Calls, NoCall, PaceInv, TimeInv, ExactInv, RegInv, AheadInv
<1>5. /\ e \in Entries /\ e.when = f.when /\ e.left = l /\ OnTime(e) /\ Ahead(e)
      /\ f.slip \in Nat /\ f.slip <= MaxSlip /\ -l <= LateBound
  BY <1>4 DEF Entries, OnTime, Ahead
<1>6. /\ p \in 1 .. n /\ l \in Int
      /\ \A i \in 1 .. (p - 1) : i \in DOMAIN queue /\ queue[i].left <= l
      /\ \A i \in p .. Len(queue) : i \in DOMAIN queue /\ l < queue[i].left
  BY <1>5, PositionOrders
<1>a. f = call[Active] /\ l = f.left
  OBVIOUS
<1>. HIDE DEF f, l
<1>b. l \in Int /\ f.slip \in Nat /\ f.slip <= MaxSlip
  BY <1>5, <1>6
<1>7. /\ DOMAIN queue' = 1 .. n /\ DOMAIN queue = 1 .. Len(queue) /\ Len(queue) \in Nat
      /\ n = Len(queue) + 1
      /\ \A i \in 1 .. (p - 1) : i \in DOMAIN queue /\ queue'[i] = queue[i]
      /\ queue'[p] = e
      /\ \A i \in (p + 1) .. n : i - 1 \in DOMAIN queue /\ queue'[i] = queue[i - 1]
  BY <1>0, <1>1, <1>5, <1>6, InsertedPlaces
<1>. HIDE DEF e, p, n
<1>8. ASSUME NEW i \in DOMAIN queue'
      PROVE  \/ i < p /\ i \in DOMAIN queue /\ queue'[i] = queue[i] /\ queue[i].left <= l
             \/ i = p /\ queue'[i] = e
             \/ /\ p < i /\ i - 1 \in DOMAIN queue /\ queue'[i] = queue[i - 1]
                /\ l < queue[i - 1].left
  <2>1. CASE i < p
    <3>1. i \in 1 .. (p - 1)
      BY <1>6, <1>7, <2>1
    <3>. QED
      BY <1>6, <1>7, <2>1, <3>1
  <2>2. CASE p < i
    <3>1. i \in (p + 1) .. n /\ i - 1 \in p .. Len(queue)
      BY <1>6, <1>7, <2>2
    <3>. QED
      BY <1>6, <1>7, <2>2, <3>1
  <2>3. CASE i = p
    BY <1>7, <2>3
  <2>. QED
    BY <1>6, <1>7, <2>1, <2>2, <2>3
<1>9. ExactInv'
  <2>1. ASSUME NEW i \in DOMAIN queue' PROVE OnTime(queue[i])'
    <3>1. OnTime(queue'[i])
      BY <1>5, <1>8 DEF TimeInv, ExactInv
    <3>. QED
      BY <1>0, <3>1 DEF OnTime
  <2>2. ASSUME NEW c \in Contexts, call'[c].pc = "insert" PROVE OnTime(call[c])'
    <3>1. call'[c] = call[c] /\ call[c].pc = "insert"
      BY <1>2, <1>3, <2>2
    <3>. QED
      BY <1>0, <3>1 DEF OnTime, TimeInv, ExactInv
  <2>. QED
    BY <2>1, <2>2 DEF ExactInv
<1>10. OrderInv'
  <2>. SUFFICES ASSUME NEW i \in DOMAIN queue', NEW j \in DOMAIN queue', i <= j
                PROVE  queue'[i].left <= queue'[j].left
    BY DEF OrderInv
  <2>0. i \in Int /\ j \in Int /\ p \in Int /\ \A m \in DOMAIN queue : queue[m].left \in Int
    BY <1>1, <1>6, <1>7, CountsType
  <2>1. CASE j < p
    <3>1. i < p
      BY <2>0, <2>1
    <3>2. /\ i \in DOMAIN queue /\ queue'[i] = queue[i]
          /\ j \in DOMAIN queue /\ queue'[j] = queue[j]
      BY <1>8, <2>0, <2>1, <3>1
    <3>. QED
      BY <3>2 DEF TimeInv, OrderInv
  <2>2. CASE i < p /\ p <= j
    <3>1. i \in DOMAIN queue /\ queue'[i] = queue[i] /\ queue[i].left <= l
      BY <1>8, <2>0, <2>2
    <3>2. CASE j = p
      BY <1>5, <1>7, <3>1, <3>2
    <3>3. CASE p < j
      <4>1. j - 1 \in DOMAIN queue /\ queue'[j] = queue[j - 1] /\ l < queue[j - 1].left
        BY <1>8, <2>0, <3>3
      <4>. QED
        BY <1>6, <2>0, <3>1, <4>1
    <3>. QED
      BY <2>0, <2>2, <3>2, <3>3
  <2>3. CASE i = p
    <3>1. CASE j = p
      BY <1>5, <1>6, <1>7, <2>3, <3>1
    <3>2. CASE p < j
      <4>1. j - 1 \in DOMAIN queue /\ queue'[j] = queue[j - 1] /\ l < queue[j - 1].left
        BY <1>8, <2>0, <3>2
      <4>. QED
        BY <1>5, <1>6, <1>7, <2>0, <2>3, <4>1
    <3>. QED
      BY <2>0, <2>3, <3>1, <3>2
  <2>4. CASE p < i
    <3>1. p < j
      BY <2>0, <2>4
    <3>2. /\ i - 1 \in DOMAIN queue /\ queue'[i] = queue[i - 1]
          /\ j - 1 \in DOMAIN queue /\ queue'[j] = queue[j - 1]
      BY <1>8, <2>0, <2>4, <3>1
    <3>3. i - 1 <= j - 1
      BY <2>0
    <3>. QED
      BY <3>2, <3>3 DEF TimeInv, OrderInv
  <2>. QED
    BY <2>0, <2>1, <2>2, <2>3, <2>4
<1>12. p # 1 => 1 \in DOMAIN queue /\ queue'[1] = queue[1] /\ queue[1].left <= l
  <2>1. 1 \in DOMAIN queue' /\ (p # 1 => 1 < p)
    BY <1>6, <1>7
  <2>. QED
    BY <1>6, <1>8, <2>1
<1>13. AgeInv'
  <2>1. ~InNow'
    <3>1. isr # "callback" => call["isr"].pc = "idle"
      BY <1>1 DEF PaceInv
    <3>2. isr # "loop"
      BY <1>0, <1>a, <3>1 DEF Active, f
    <3>. QED
      BY <1>0, <1>a, <3>2 DEF IInv, ArmedInv, InNow, f
  <2>. QED
    BY <2>1 DEF AgeInv
<1>15. CallInv' /\ OneLate'
  <2>1. CASE Active = "main"
    <3>1. /\ isr' = "none" /\ call'["isr"] = call["isr"] /\ call'["main"].pc = "idle"
      BY <1>0, <1>1, <1>2, <1>3, <2>1 DEF Active
    <3>2. cuts' = 0 /\ 0 <= MaxCuts
      BY <1>0, <2>1, SizesAssumption
    <3>. QED
      BY <1>0, <3>1, <3>2 DEF CallInv, OneLate
  <2>2. CASE Active = "isr"
    <3>1. /\ isr # "none" /\ call'["main"] = call["main"] /\ call'["isr"].pc = "idle"
      BY <1>0, <1>1, <1>2, <1>3, <2>2 DEF Active
    <3>2. cuts' = cuts
      BY <1>0, <2>2
    <3>. QED
      BY <1>0, <3>1, <3>2 DEF CallInv, OneLate, Cuts
  <2>. QED
    BY <1>1, <2>1, <2>2 DEF Contexts
<1>. HIDE DEF CallInv, OneLate
<1>16. ASSUME isr # "none", NEW i \in DOMAIN queue'
       PROVE  -queue'[i].left <= 2 * MaxSlip + 2 * (MaxOff + MinDelay) + off
  <2>1. -l <= MaxSlip
    <3>1. f = call["isr"] /\ f.pc = "insert"
      BY <1>0, <1>a, <1>16 DEF Active
    <3>2. -l <= f.slip
      BY <1>0, <1>a, <3>1 DEF CallInv
    <3>. QED
      BY <1>b, <3>2, Sizes
  <2>2. queue'[i] = e \/ \E j \in DOMAIN queue : queue'[i] = queue[j]
    BY <1>8
  <2>3. CASE queue'[i] = e
    <3>1. off \in Nat
      BY <1>1, CountsType
    <3>. QED
      <4>1. queue'[i].left = l
        BY <1>5, <2>3
      <4>. QED
        BY <1>b, <2>1, <3>1, <4>1, Sizes
  <2>4. CASE \E j \in DOMAIN queue : queue'[i] = queue[j]
    BY <1>16, <2>4 DEF TimeInv, LateInv
  <2>. QED
    BY <2>2, <2>3, <2>4
<1>17. ASSUME isr = "none", 1 \in DOMAIN queue', queue'[1].left <= 0 PROVE DueLate'
  <2>0. /\ f = call["main"] /\ Active = "main"
        /\ \A m \in DOMAIN queue : m \in Nat \ {0} /\ queue[m].left \in Int
    BY <1>1, <1>a, <1>17, CountsType DEF Active
  <2>1. cuts = 0 \/ \A i \in DOMAIN queue : -queue[i].left <= MaxSlip + f.slip
    <3>1. cuts > 0 => \A i \in DOMAIN queue : -queue[i].left <= MaxSlip + f.slip
      BY <1>0, <1>a, <1>17, <2>0 DEF OneLate
    <3>. QED
      BY <1>1, <3>1
  <2>a. /\ -l <= f.slip + Cuts(cuts) /\ Cuts(cuts) \in Nat /\ Cuts(cuts) <= Cuts(MaxCuts)
        /\ cuts = 0 => Cuts(cuts) = 0
    BY <1>0, <1>1, <1>a, <2>0, CutLate, CutsTell
  <2>2. CASE p = 1
    <3>1. -l <= 2 * MaxSlip + Cuts(MaxCuts)
      BY <1>b, <2>a, Sizes
    <3>2. ASSUME NEW i \in DOMAIN queue', i # 1 PROVE -queue'[i].left <= 2 * MaxSlip
      <4>1. i - 1 \in DOMAIN queue /\ queue'[i] = queue[i - 1] /\ l < queue[i - 1].left
        BY <1>7, <1>8, <2>2, <3>2
      <4>2. queue[i - 1].left \in Int
        BY <2>0, <4>1
      <4>3. -queue[i - 1].left <= MaxSlip + f.slip
        <5>1. CASE cuts = 0
          <6>1. -l <= f.slip
            BY <1>b, <2>a, <5>1
          <6>. QED
            BY <1>b, <4>1, <4>2, <6>1, Sizes
        <5>2. CASE cuts # 0
          BY <2>1, <4>1, <5>2
        <5>. QED
          BY <5>1, <5>2
      <4>. QED
        BY <1>b, <4>1, <4>2, <4>3, Sizes
    <3>3. queue'[1] = e /\ queue'[1].left = l
      BY <1>5, <1>7, <2>2
    <3>4. ASSUME NEW k \in Nat, NEW i \in DOMAIN queue' PROVE -queue'[i].left <= Allowed(i) + k
      <4>1. CASE i = 1
        <5>1. queue'[i].left = l /\ Allowed(i) = 2 * MaxSlip + Cuts(MaxCuts)
          BY <3>3, <4>1, AllowedTells
        <5>. QED
          BY <1>b, <3>1, <3>4, <5>1, Sizes
      <4>2. CASE i # 1
        <5>1. i \in Nat \ {1} /\ i - 1 \in DOMAIN queue /\ queue'[i] = queue[i - 1]
          BY <1>7, <1>8, <2>2, <4>2
        <5>2. Allowed(i) = 2 * MaxSlip /\ queue'[i].left \in Int
          BY <2>0, <5>1, AllowedTells
        <5>. QED
          BY <3>2, <3>4, <4>2, <5>2, Sizes
      <4>. QED
        BY <4>1, <4>2
    <3>5. CASE TOV
      <4>1. Waited' \in Nat
        <5>1. off' \in Nat /\ (Updating' => upd'.slip \in Nat)
          <6>1. TypeOK'
            BY InsertInvariant DEF IInv, TypeInv
          <6>. QED
            BY <6>1, CountsTypeNext
        <5>2. call'["main"].pc = "idle" /\ MaxOff \in Nat /\ MinDelay \in Nat
          BY <1>3, <2>0, Sizes
        <5>3. Waiting' = off' \/ Waiting' = MaxOff
          BY <5>2 DEF Waiting
        <5>4. \/ Updating' /\ Waited' = upd'.slip
              \/ Waited' = MinDelay + off'
              \/ Waited' = MinDelay + MaxOff
          BY <5>3 DEF Waited
        <5>. QED
          BY <5>1, <5>2, <5>4
      <4>. QED
        BY <1>0, <3>4, <3>5, <4>1 DEF DueLate, LateBy
    <3>6. CASE ~TOV
      <4>1. clock = timer_cycles * Lo + TCNT1 /\ timer_cycles \in 0 .. (Hi - 1)
        <5>1. timer_cycles \in 0 .. (Hi - 1) /\ Hi \in Nat \ {0} /\ timer_cycles \in Int
          BY <1>1, WideProduct DEF TypeOK
        <5>2. timer_cycles + 0 = timer_cycles /\ timer_cycles % Hi = timer_cycles
          BY <5>1, ModSmall
        <5>. QED
          BY <3>6, <5>1, <5>2 DEF RegInv, ClockInv, Overflows
      <4>2. OnTime(queue'[1]) /\ queue'[1].left \in Int /\ -queue'[1].left <= LateBound
        BY <1>5, <1>6, <3>3
      <4>3. UpdateTimeouts(queue', timer_cycles) /\ TCNT1 \in 0 .. (Lo - 1) /\ TCNT1' = TCNT1
        BY <1>0, <1>1, <2>2 DEF TypeOK
      <4>4. Armed' /\ Spent' = 0
        BY <1>1, <1>17, <4>1, <4>2, <4>3, ArmsLate
      <4>5. LateBy(Spent)'
        BY <3>4, <4>4 DEF LateBy
      <4>. QED
        BY <1>0, <3>6, <4>4, <4>5 DEF DueLate
    <3>. QED
      BY <3>5, <3>6
  <2>3. CASE p # 1
    <3>1. /\ 1 \in DOMAIN queue /\ queue'[1] = queue[1] /\ queue[1].left <= l
          /\ UNCHANGED <<OCIE, updated, upd>>
      BY <1>0, <1>12, <2>3
    <3>2. DueLate
      BY <1>17, <3>1 DEF TimeInv, LateInv
    <3>3. -l <= 2 * MaxSlip
      <4>1. CASE cuts = 0
        BY <1>b, <2>a, <4>1, Sizes
      <4>2. CASE cuts # 0
        <5>1. -queue[1].left <= MaxSlip + f.slip /\ queue[1].left \in Int
          BY <2>0, <2>1, <3>1, <4>2
        <5>. QED
          BY <1>b, <3>1, <5>1, Sizes
      <4>. QED
        BY <4>1, <4>2
    <3>4. ASSUME NEW k \in Nat, LateBy(k), NEW i \in DOMAIN queue'
          PROVE  -queue'[i].left <= Allowed(i) + k
      <4>0. i \in Nat \ {0} /\ Allowed(i) \in Nat /\ 2 * MaxSlip <= Allowed(i)
        <5>1. i \in Nat \ {0}
          BY <1>7
        <5>. QED
          BY <5>1, AllowedTells
      <4>1. CASE i < p /\ i \in DOMAIN queue /\ queue'[i] = queue[i]
        BY <3>4, <4>1 DEF LateBy
      <4>2. CASE i = p /\ queue'[i] = e
        <5>1. queue'[i].left = l
          BY <1>5, <4>2
        <5>. QED
          BY <1>b, <3>3, <3>4, <4>0, <5>1, Sizes
      <4>3. CASE p < i /\ i - 1 \in DOMAIN queue /\ queue'[i] = queue[i - 1]
        <5>1. i - 1 # 1 /\ i - 1 \in Nat
          BY <1>6, <1>7, <2>3, <4>3
        <5>2. Allowed(i - 1) = 2 * MaxSlip /\ queue[i - 1].left \in Int
          BY <2>0, <4>3, <5>1, AllowedTells
        <5>3. -queue[i - 1].left <= Allowed(i - 1) + k
          BY <3>4, <4>3 DEF LateBy
        <5>. QED
          BY <3>4, <4>0, <4>3, <5>2, <5>3, Sizes
      <4>. QED
        BY <1>8, <4>1, <4>2, <4>3
    <3>5. /\ Waited' = Waited /\ Spent' = Spent /\ (Armed' <=> Armed)
          /\ TOV' = TOV /\ TCNT1' = TCNT1
      <4>1. Waiting' = Waiting
        BY <1>0, <1>3, <1>a, <2>0 DEF Waiting
      <4>. HIDE DEF Waiting
      <4>. QED
        BY <1>0, <3>1, <4>1 DEF Waited, Spent, Armed, Updating, Distance, Between
    <3>6. Waited \in Nat /\ (Armed => Spent \in Nat /\ MinDelay + MaxOff + Spent \in Nat)
      <4>1. Waited \in Nat /\ (Armed => Spent \in Nat)
        BY <1>1, WaitsEnd
      <4>. QED
        BY <4>1, Sizes
    <3>7. TOV' => LateBy(Waited)'
      BY <3>2, <3>4, <3>5, <3>6 DEF DueLate, LateBy
    <3>8. ~TOV' => Armed' /\ (LateBy(Spent)' \/ (LateBy(MinDelay + MaxOff + Spent)' /\ SinceRound(Spent)'))
      <4>. SUFFICES ASSUME ~TOV'
                    PROVE  /\ Armed'
                           /\ \/ LateBy(Spent)'
                              \/ LateBy(MinDelay + MaxOff + Spent)' /\ SinceRound(Spent)'
        OBVIOUS
      <4>1. /\ Armed /\ Spent \in Nat /\ MinDelay + MaxOff + Spent \in Nat
            /\ LateBy(Spent) \/ (LateBy(MinDelay + MaxOff + Spent) /\ SinceRound(Spent))
        BY <3>2, <3>5, <3>6 DEF DueLate
      <4>2. LateBy(Spent) => LateBy(Spent)'
        BY <3>4, <3>5, <4>1 DEF LateBy
      <4>3. LateBy(MinDelay + MaxOff + Spent) => LateBy(MinDelay + MaxOff + Spent)'
        BY <3>4, <3>5, <4>1 DEF LateBy
      <4>4. SinceRound(Spent) => SinceRound(Spent)'
        BY <3>5 DEF SinceRound
      <4>. QED
        BY <3>5, <4>1, <4>2, <4>3, <4>4
    <3>. QED
      BY <3>7, <3>8 DEF DueLate
  <2>. QED
    BY <2>2, <2>3
<1>18. LateInv'
  BY <1>0, <1>16, <1>17 DEF LateInv
<1>. QED
  BY <1>9, <1>10, <1>13, <1>15, <1>18 DEF TimeInv

\* The register writes do not lose what was waited.
LEMMA WritesTimed ==
  ASSUME IInv, RegInv, TimeInv, Prompt, Brief, WriteCompare \/ EnableCompare
  PROVE  TimeInv'
<1>0. /\ TypeOK /\ PaceInv /\ Updating /\ ~InNow /\ ~OCIE
      /\ upd.slip \in Nat /\ upd.slip <= MaxSlip
      /\ CallInv /\ OneLate /\ I \in BOOLEAN
  BY CountsType DEF WriteCompare, EnableCompare, Updating, IInv, TypeInv, ArmedInv, RegInv, PaceInv,
     TimeInv
<1>1. UNCHANGED <<TCNT1, TOV, I, falling, timer_cycles, inited, updated, queue, call, reading,
                  isr, clock, off, cuts>>
  BY DEF WriteCompare, EnableCompare
<1>2. ExactInv' /\ OrderInv' /\ AgeInv' /\ CallInv' /\ OneLate'
  BY <1>0, <1>1 DEF TimeInv, ExactInv, OnTime, OrderInv, AgeInv, InNow, CallInv, OneLate, Cuts
<1>3. PICK w \in 0 .. MaxOff : w = Waiting /\ w = Waiting'
  <2>1. Waiting' = Waiting
    BY <1>1 DEF Waiting
  <2>. QED
    BY <1>0, <2>1, WaitsEnd
<1>4. Armed => Armed' /\ Spent' = upd.slip /\ Spent = upd.slip
  <2>. SUFFICES ASSUME Armed PROVE Armed' /\ Spent' = upd.slip /\ Spent = upd.slip
    OBVIOUS
  <2>0. Spent = upd.slip
    BY <1>0 DEF Spent
  <2>1. CASE WriteCompare
    <3>1. /\ upd.at = "write" /\ OCR1A' = upd.ocra
          /\ upd'.at = "enable" /\ upd'.slip = upd.slip /\ Updating'
      BY <2>1 DEF WriteCompare, Updating
    <3>2. Distance(OCR1A)' = Distance(upd.ocra)
      BY <1>1, <3>1 DEF Distance
    <3>3. Distance(upd.ocra) = MinDelay - upd.slip
      BY <3>1 DEF Armed
    <3>. QED
      BY <2>0, <3>1, <3>2, <3>3 DEF Armed, Spent
  <2>2. CASE EnableCompare
    <3>1. /\ upd.at = "enable" /\ ~OCF' /\ OCIE' /\ upd'.at = "none" /\ ~Updating'
          /\ OCR1A' = OCR1A
      BY <2>2 DEF EnableCompare, ClearMatch, NoUpdate, Updating
    <3>2. Distance(OCR1A)' = Distance(OCR1A)
      BY <1>1, <3>1 DEF Distance
    <3>3. Distance(OCR1A) = MinDelay - upd.slip
      BY <3>1 DEF Armed
    <3>4. Distance(OCR1A)' <= MinDelay /\ MinDelay - Distance(OCR1A)' = upd.slip
      BY <1>0, <3>2, <3>3, Sizes
    <3>. QED
      BY <2>0, <3>1, <3>4 DEF Armed, Spent
  <2>. QED
    BY <2>1, <2>2
<1>5. Waited' \in Int /\ Waited <= Waited'
  <2>1. CASE ~I
    <3>1. Waited = MinDelay + w /\ Waited' = MinDelay + w
      BY <1>1, <1>3, <2>1 DEF Waited
    <3>. QED
      BY <3>1, Sizes
  <2>2. CASE I /\ WriteCompare
    <3>1. Waited = upd.slip /\ Waited' = upd.slip
      BY <1>0, <1>1, <2>2 DEF Waited, WriteCompare, Updating
    <3>. QED
      BY <1>0, <3>1
  <2>3. CASE I /\ EnableCompare
    <3>1. Waited = upd.slip /\ Waited' = MinDelay + w
      BY <1>0, <1>1, <1>3, <2>3 DEF Waited, EnableCompare, NoUpdate, Updating
    <3>. QED
      BY <1>0, <3>1, Sizes
  <2>. QED
    BY <1>0, <2>1, <2>2, <2>3
<1>6. ASSUME isr = "none", 1 \in DOMAIN queue, queue[1].left <= 0 PROVE DueLate'
  <2>1. DueLate
    BY <1>6 DEF TimeInv, LateInv
  <2>2. Armed => Armed' /\ Spent' \in Int /\ Spent <= Spent'
    BY <1>0, <1>4
  <2>. QED
    BY <1>0, <1>1, <1>5, <2>1, <2>2, LateGrows
<1>7. LateInv'
  BY <1>1, <1>6 DEF TimeInv, LateInv
<1>. QED
  BY <1>2, <1>7 DEF TimeInv

\* An overflow arms a head anew that waits for its match: not twice, because it comes
\* soon after the counter went round.
LEMMA OverflowTimed ==
  ASSUME IInv, RegInv, TimeInv, Prompt, Brief, NowOverflow \/ OverflowInterrupt
  PROVE  TimeInv'
<1>0. /\ TypeOK /\ TypeOK' /\ inited /\ ~Updating /\ TOV /\ PaceInv /\ FreshInv
      /\ UNCHANGED <<TCNT1, OCR1A, OCF, I, queue, call, reading, isr, clock, off, cuts>>
      /\ ~InNow /\ CallInv /\ OneLate /\ TCNT1 \in 0 .. (Lo - 1)
  <2>1. IInv'
    BY OverflowInvariant
  <2>2. /\ ~Updating /\ ~InNow /\ TOV
        /\ UNCHANGED <<TCNT1, OCR1A, OCF, I, queue, call, reading, isr, clock, off, cuts>>
    BY DEF NowOverflow, NowDue, OverflowLeft, OverflowInterrupt, InterruptsOn
  <2>. QED
    BY <2>1, <2>2, CountsType DEF IInv, TypeInv, RegInv, ClockInv, TimeInv
<1>1. /\ ~TOV' /\ timer_cycles' = (timer_cycles + 1) % Hi
      /\ UpdateTimeouts(queue, timer_cycles') /\ OCIE' = FALSE
  BY <1>0 DEF NowOverflow, OverflowLeft, OverflowInterrupt, TimerOverflow, CountOverflow,
     UpdateTimeouts
<1>2. timer_cycles' \in 0 .. (Hi - 1)
  BY <1>0 DEF TypeOK
<1>3. clock = timer_cycles' * Lo + TCNT1
  BY <1>0, <1>1, <1>2, WideProduct, ModSmall DEF RegInv, ClockInv, Overflows
<1>5. ExactInv' /\ OrderInv' /\ AgeInv'
  BY <1>0 DEF TimeInv, ExactInv, OnTime, OrderInv, AgeInv, InNow
<1>6. CallInv' /\ OneLate'
  BY <1>0 DEF CallInv, OneLate, Cuts
<1>7. ASSUME isr = "none", 1 \in DOMAIN queue, queue[1].left <= 0 PROVE DueLate'
  <2>1. LateBy(Waited)
    BY <1>0, <1>7 DEF TimeInv, LateInv, DueLate
  <2>2. OnTime(queue[1]) /\ queue[1].left \in Int /\ -queue[1].left <= LateBound
    <3>1. queue[1].left \in Int
      BY <1>0, <1>7, CountsType
    <3>2. queue[1].left >= -LateBound
      BY <1>7, NowBounded DEF BoundedLateness
    <3>. QED
      BY <1>7, <3>1, <3>2, Sizes DEF TimeInv, ExactInv
  <2>3. Armed' /\ Spent' = 0
    <3>1. 1 \in DOMAIN queue' /\ queue'[1] = queue[1] /\ UpdateTimeouts(queue', timer_cycles')
      BY <1>0, <1>1, <1>7
    <3>2. ASSUME NEW c \in 0 .. (Hi - 1), c = timer_cycles' PROVE Armed' /\ Spent' = 0
      <4>1. clock = c * Lo + TCNT1 /\ UpdateTimeouts(queue', c)
        BY <1>3, <3>1, <3>2
      <4>2. OnTime(queue'[1]) /\ queue'[1].left <= 0 /\ queue'[1].left \in Int
            /\ -queue'[1].left <= LateBound
        BY <1>7, <2>2, <3>1
      <4>. QED
        BY <1>0, <3>1, <4>1, <4>2, ArmsLate
    <3>. QED
      BY <1>2, <3>2
  <2>4. Waited \in 0 .. (MinDelay + MaxOff)
    BY <1>0, WaitsEnd
  <2>5. ASSUME NEW i \in DOMAIN queue
        PROVE  -queue[i].left <= Allowed(i) + (MinDelay + MaxOff + 0)
    <3>1. i \in Nat /\ queue[i].left \in Int /\ Allowed(i) \in Nat
      BY <1>0, CountsType, AllowedTells
    <3>2. -queue[i].left <= Allowed(i) + Waited
      BY <2>1 DEF LateBy
    <3>3. MinDelay \in Nat /\ MaxOff \in Nat
      BY Sizes
    <3>. QED
      BY <2>4, <3>1, <3>2, <3>3
  <2>6. LateBy(MinDelay + MaxOff + Spent)'
    BY <1>0, <2>3, <2>5 DEF LateBy
  <2>7. TCNT1 <= MaxOff + 0 \/ TCNT1 <= 3 * MaxSlip + 0
    <3>1. off \in Nat /\ off <= MaxOff /\ I \in BOOLEAN
      BY <1>0, CountsType DEF PaceInv
    <3>2. TCNT1 <= off \/ TCNT1 <= MaxOff \/ TCNT1 <= 3 * MaxSlip
      BY <1>0, <1>7, <3>1 DEF FreshInv
    <3>. QED
      BY <1>0, <3>1, <3>2, Sizes
  <2>8. SinceRound(Spent)'
    BY <1>0, <2>3, <2>7 DEF SinceRound
  <2>. QED
    BY <1>1, <2>3, <2>6, <2>8 DEF DueLate
<1>8. LateInv'
  BY <1>0, <1>7 DEF TimeInv, LateInv
<1>. QED
  BY <1>5, <1>6, <1>8 DEF TimeInv

\* What stays on the list when the head leaves it.
LEMMA TailTimed ==
  ASSUME TypeOK, ExactInv, OrderInv, queue # <<>>, queue' = Tail(queue),
         UNCHANGED <<clock, call>>
  PROVE  /\ \A i \in DOMAIN queue' : i + 1 \in DOMAIN queue /\ queue'[i] = queue[i + 1]
         /\ ExactInv' /\ OrderInv'
<1>1. \A i \in DOMAIN queue' : i \in Nat \ {0} /\ i + 1 \in DOMAIN queue /\ queue'[i] = queue[i + 1]
  BY DEF TypeOK
<1>2. ExactInv'
  BY <1>1 DEF ExactInv, OnTime
<1>3. OrderInv'
  <2>. SUFFICES ASSUME NEW i \in DOMAIN queue', NEW j \in DOMAIN queue', i <= j
                PROVE  queue'[i].left <= queue'[j].left
    BY DEF OrderInv
  <2>1. i + 1 <= j + 1
    BY <1>1
  <2>2. queue[i + 1].left <= queue[j + 1].left
    BY <1>1, <2>1 DEF OrderInv
  <2>. QED
    BY <1>1, <2>2
<1>. QED
  BY <1>1, <1>2, <1>3

\* The interrupt comes after the wait for the match of a head that is due.
LEMMA CompareTimed ==
  ASSUME IInv, RegInv, TimeInv, Prompt, Brief, CompareInterrupt
  PROVE  TimeInv'
<1>0. /\ TypeOK /\ PaceInv /\ I /\ isr = "none" /\ ~Updating /\ ~InNow /\ OCIE /\ OCF
      /\ off' = 0 /\ isr' = "callback"
      /\ UNCHANGED <<TCNT1, OCR1A, TOV, I, falling, timer_cycles, inited, call, reading, upd, clock>>
      /\ ExactInv /\ OrderInv /\ CallInv /\ OneLate
      /\ queue # <<>> /\ queue' = Tail(queue)
      /\ cuts \in Nat /\ MaxOff \in Nat /\ MinDelay \in Nat /\ MaxSlip \in Nat
  <2>1. TypeOK /\ PaceInv /\ ExactInv /\ OrderInv /\ CallInv /\ OneLate
    BY DEF IInv, TypeInv, RegInv, TimeInv
  <2>2. /\ I /\ isr = "none" /\ ~Updating /\ ~InNow /\ OCIE /\ OCF
        /\ off' = 0 /\ isr' = "callback" /\ queue' = Tail(queue)
        /\ UNCHANGED <<TCNT1, OCR1A, TOV, I, falling, timer_cycles, inited, call, reading, upd,
                       clock>>
    BY DEF CompareInterrupt, InterruptsOn, RunHead
  <2>3. queue # <<>>
    BY <2>2 DEF IInv, ArmedInv
  <2>. QED
    BY <2>1, <2>2, <2>3, CountsType, Sizes
<1>1. /\ \A i \in DOMAIN queue' : i + 1 \in DOMAIN queue /\ queue'[i] = queue[i + 1]
      /\ ExactInv' /\ OrderInv' /\ 1 \in DOMAIN queue
  BY <1>0, TailTimed, CountsType
<1>2. AgeInv'
  BY <1>0 DEF AgeInv, InNow
<1>3. call["isr"].pc = "idle"
  BY <1>0 DEF PaceInv
<1>4. CallInv' /\ OneLate'
  <2>1. CASE call["main"].pc # "insert"
    <3>1. cuts' = 0 /\ 0 <= MaxCuts
      BY <1>0, <2>1 DEF CallInv, CompareInterrupt
    <3>. QED
      BY <1>0, <1>3, <2>1, <3>1 DEF CallInv, OneLate
  <2>2. CASE call["main"].pc = "insert"
    <3>1. cuts < MaxCuts /\ cuts' = cuts + 1
      BY <2>2 DEF CompareInterrupt
    <3>2. cuts' <= MaxCuts /\ cuts' >= 1 /\ cuts' - 1 = cuts
      BY <1>0, <3>1, Sizes
    <3>3. Cuts(cuts - 1)' = Cuts(cuts)
      BY <3>2 DEF Cuts
    <3>4. call["main"].left \in Int /\ call["main"].slip \in Nat /\ Cuts(cuts) \in Nat
      BY <1>0, <2>2, CountsType, CutsTell
    <3>5. -call["main"].left <= call["main"].slip + Cuts(cuts)
      BY <1>0, <2>2 DEF CallInv
    <3>6. -call["main"].left <= call["main"].slip + Cuts(cuts) + 0
      BY <3>4, <3>5
    <3>. QED
      BY <1>0, <1>3, <2>2, <3>2, <3>3, <3>6 DEF CallInv, OneLate
  <2>. QED
    BY <2>1, <2>2
<1>5. queue[1].left \in Int /\ queue[1].left <= 0
  BY <1>0, <1>1, CountsType DEF RegInv, DueInv
<1>6. DueLate
  BY <1>0, <1>1, <1>5 DEF TimeInv, LateInv
<1>7. PICK k \in 0 .. 2 * (MaxOff + MinDelay) : LateBy(k)
  <2>1. Waited \in 0 .. (MinDelay + MaxOff) /\ (Armed => Spent \in 0 .. (MinDelay + MaxOff))
    BY <1>0, WaitsEnd
  <2>. HIDE DEF Waited, Spent, LateBy, Armed
  <2>2. /\ Waited \in 0 .. 2 * (MaxOff + MinDelay)
        /\ Armed => Spent \in 0 .. 2 * (MaxOff + MinDelay)
        /\ Armed => MinDelay + MaxOff + Spent \in 0 .. 2 * (MaxOff + MinDelay)
    BY <1>0, <2>1
  <2>. QED
    BY <1>6, <2>2 DEF DueLate
<1>8. ASSUME NEW i \in DOMAIN queue'
      PROVE  -queue'[i].left <= 2 * MaxSlip + 2 * (MaxOff + MinDelay) + 0
  <2>1. /\ i + 1 \in DOMAIN queue /\ queue'[i] = queue[i + 1] /\ i + 1 \in Nat
        /\ queue[i + 1].left \in Int
    BY <1>0, <1>1, CountsType
  <2>2. i + 1 # 1
    <3>1. i \in Nat \ {0}
      BY CompareInvariant DEF IInv, TypeInv, TypeOK
    <3>. QED
      BY <3>1
  <2>3. -queue[i + 1].left <= Allowed(i + 1) + k
    BY <1>7, <2>1 DEF LateBy
  <2>4. Allowed(i + 1) = 2 * MaxSlip
    BY <2>1, <2>2, AllowedTells
  <2>. QED
    BY <1>0, <2>1, <2>3, <2>4
<1>9. LateInv'
  BY <1>0, <1>8 DEF LateInv
<1>. QED
  BY <1>1, <1>2, <1>4, <1>9 DEF TimeInv

\* What an interrupt leaves on the list was not due when it looked for the last time.
LEMMA LoopTimed ==
  ASSUME IInv, RegInv, TimeInv, Prompt, Brief, CallbackReturns \/ LoopAgain \/ LoopExit
  PROVE  TimeInv'
<1>0. /\ TypeOK /\ PaceInv /\ isr # "none" /\ ~Updating /\ I
      /\ UNCHANGED <<TCNT1, OCR1A, TOV, OCF, I, falling, timer_cycles, inited, call, clock, cuts>>
      /\ ExactInv /\ OrderInv /\ CallInv /\ OneLate
      /\ MaxOff \in Nat /\ MaxSlip \in Nat /\ off \in Nat /\ off <= MaxOff /\ cuts \in Nat
  <2>1. TypeOK /\ PaceInv /\ ExactInv /\ OrderInv /\ CallInv /\ OneLate
    BY DEF IInv, TypeInv, RegInv, TimeInv
  <2>2. /\ isr # "none"
        /\ UNCHANGED <<TCNT1, OCR1A, TOV, OCF, I, falling, timer_cycles, inited, call, clock, cuts>>
    BY DEF CallbackReturns, LoopAgain, LoopExit, hardware
  <2>3. ~Updating
    BY DEF CallbackReturns, LoopAgain, LoopExit, NowReturns, InNow, IInv, ArmedInv
  <2>. QED
    BY <2>1, <2>2, <2>3, CountsType, Sizes DEF PaceInv
<1>1. CASE CallbackReturns
  <2>1. isr' = "loop" /\ UNCHANGED <<queue, upd, off, reading>> /\ isr = "callback"
    BY <1>1 DEF CallbackReturns, hardware
  <2>2. ~InNow
    BY <1>1, <2>1 DEF CallbackReturns, IInv, ArmedInv, Active
  <2>3. ExactInv' /\ OrderInv' /\ AgeInv' /\ CallInv' /\ OneLate'
    BY <1>0, <2>1, <2>2 DEF ExactInv, OnTime, OrderInv, AgeInv, InNow, CallInv, OneLate, Cuts
  <2>4. LateInv'
    BY <1>0, <2>1 DEF TimeInv, LateInv
  <2>. QED
    BY <2>3, <2>4 DEF TimeInv
<1>2. CASE LoopAgain
  <2>1. isr' = "callback" /\ UNCHANGED <<upd, off>> /\ reading' = NoReading
    BY <1>2 DEF LoopAgain, NowReturns, RunHead
  <2>2. /\ \A i \in DOMAIN queue' : i + 1 \in DOMAIN queue /\ queue'[i] = queue[i + 1]
        /\ ExactInv' /\ OrderInv'
    <3>1. queue # <<>> /\ queue' = Tail(queue)
      BY <1>2 DEF LoopAgain, RunHead, HeadPast
    <3>. QED
      BY <1>0, <3>1, TailTimed
  <2>3. AgeInv' /\ CallInv' /\ OneLate'
    BY <1>0, <2>1 DEF AgeInv, InNow, NoReading, CallInv, OneLate, Cuts
  <2>4. LateInv'
    BY <1>0, <2>1, <2>2 DEF TimeInv, LateInv
  <2>. QED
    BY <2>2, <2>3, <2>4 DEF TimeInv
<1>3. CASE LoopExit
  <2>1. /\ isr' = "none" /\ off' = 0 /\ queue' = queue
        /\ reading.at = "read" /\ reading' = NoReading /\ ~HeadPast
    BY <1>3 DEF LoopExit, NowReturns
  <2>2. ASSUME NEW i \in DOMAIN queue
        PROVE  /\ reading.age \in Nat /\ reading.age <= MaxSlip
               /\ queue[1].left \in Int /\ -queue[1].left <= reading.age
               /\ queue[i].left \in Int /\ -queue[i].left <= reading.age
    <3>1. /\ i \in Nat \ {0} /\ queue[i].left \in Int /\ 1 \in DOMAIN queue
          /\ queue[1].left \in Int
      BY <1>0, CountsType
    <3>2. reading.age \in Nat /\ reading.age <= MaxSlip /\ ~(queue[1].left < -reading.age)
      BY <2>1, <3>1, HeadPastTells
    <3>3. queue[1].left <= queue[i].left
      BY <1>0, <3>1 DEF OrderInv
    <3>. QED
      BY <3>1, <3>2, <3>3
  <2>3. ExactInv' /\ OrderInv' /\ AgeInv'
    BY <1>0, <2>1 DEF ExactInv, OnTime, OrderInv, AgeInv, InNow, NoReading
  <2>4. CallInv'
    <3>. SUFFICES ASSUME call["main"].pc = "insert"
                  PROVE  -call["main"].left <= call["main"].slip + Cuts(cuts)
      BY <1>0, <2>1 DEF CallInv, Cuts
    <3>. QED
      BY <1>0, CutLate
  <2>5. OneLate'
    <3>. SUFFICES ASSUME call["main"].pc = "insert", NEW i \in DOMAIN queue
                  PROVE  -queue[i].left <= MaxSlip + call["main"].slip
      BY <1>0, <2>1 DEF OneLate
    <3>1. call["main"].slip \in Nat
      BY <1>0, CountsType
    <3>. QED
      BY <1>0, <2>2, <3>1
  <2>6. ASSUME 1 \in DOMAIN queue', queue'[1].left <= 0 PROVE DueLate'
    <3>1. IInv' /\ RegInv'
      BY <1>3, CompareInvariant, CompareKeeps
    <3>2. /\ reading.age \in Nat /\ reading.age <= MaxSlip
          /\ queue[1].left \in Int /\ -queue[1].left <= reading.age
      BY <2>1, <2>2, <2>6
    <3>3. -queue'[1].left <= MaxSlip
      BY <1>0, <2>1, <3>2
    <3>4. ~TOV => -queue'[1].left <= TCNT1
      <4>1. ~TOV => reading.lo + reading.age = TCNT1 /\ reading.lo \in Nat /\ TCNT1 \in Nat
        <5>1. reading.lo \in 0 .. (Lo - 1)
          BY <1>0, <2>1, ReadType DEF TypeOK
        <5>2. TCNT1 \in 0 .. (Lo - 1)
          BY <1>0, CountsType
        <5>. QED
          BY <2>1, <5>1, <5>2, Sizes DEF RegInv, ReadInv
      <4>. QED
        BY <2>1, <3>2, <4>1
    <3>5. Due(queue[1])'
      BY <1>0, <2>1, <2>6, <3>3, <3>4 DEF Due
    <3>6. OnTime(queue[1])'
      BY <2>3, <2>6 DEF ExactInv
    <3>. QED
      BY <2>1, <2>3, <2>6, <3>1, <3>5, <3>6, JustDueNext
  <2>7. LateInv'
    BY <2>1, <2>6 DEF LateInv
  <2>. QED
    BY <2>3, <2>4, <2>5, <2>7 DEF TimeInv
<1>. QED
  BY <1>1, <1>2, <1>3

\* A stretch without interrupts starts with no match pending, and it is waited for
\* when it ends.
LEMMA SectionsTimed ==
  ASSUME IInv, RegInv, TimeInv, Prompt, Brief, Cli \/ Sei
  PROVE  TimeInv'
<1>0. /\ TypeOK /\ PaceInv /\ isr = "none" /\ off' = 0 /\ call["main"].pc = "idle"
      /\ UNCHANGED <<TCNT1, OCR1A, TOV, OCF, OCIE, falling, timer_cycles, inited, updated, queue,
                     call, reading, isr, upd, clock, cuts>>
      /\ ExactInv /\ OrderInv /\ CallInv /\ OneLate /\ ~Updating /\ ~InNow
      /\ off \in Nat /\ off <= MaxOff /\ I \in BOOLEAN /\ OCF \in BOOLEAN
  <2>1. TypeOK /\ PaceInv /\ ExactInv /\ OrderInv /\ CallInv /\ OneLate
    BY DEF IInv, TypeInv, RegInv, TimeInv
  <2>2. /\ isr = "none" /\ off' = 0 /\ call["main"].pc = "idle" /\ ~Updating
        /\ UNCHANGED <<TCNT1, OCR1A, TOV, OCF, OCIE, falling, timer_cycles, inited, updated, queue,
                       call, reading, isr, upd, clock, cuts>>
    BY DEF Cli, Sei, InterruptsOn
  <2>3. ~InNow
    BY <2>2 DEF IInv, ArmedInv, Active
  <2>. QED
    BY <2>1, <2>2, <2>3, CountsType DEF PaceInv
<1>1. ExactInv' /\ OrderInv' /\ AgeInv' /\ CallInv' /\ OneLate'
  BY <1>0 DEF ExactInv, OnTime, OrderInv, AgeInv, InNow, CallInv, OneLate, Cuts
<1>2. ASSUME 1 \in DOMAIN queue, queue[1].left <= 0 PROVE DueLate'
  <2>1. DueLate
    BY <1>0, <1>2 DEF TimeInv, LateInv
  <2>2. Armed => Armed'
    BY <1>0 DEF Armed, Distance, Between, Updating
  <2>3. ~OCF => Spent' = Spent
    BY <1>0 DEF Spent, Distance, Between, Updating
  <2>4. Armed => Spent \in Int
    BY <1>0, WaitsEnd
  <2>5. CASE Cli
    <3>1. ~TOV /\ ~OCF /\ Armed
      <4>1. I /\ ~InterruptPending
        BY <2>5 DEF Cli, InterruptsOn
      <4>. QED
        BY <1>0, <2>1, <4>1, NonePending
    <3>2. Armed' /\ Spent' \in Int /\ Spent <= Spent'
      BY <2>2, <2>3, <2>4, <3>1
    <3>. QED
      BY <1>0, <2>1, <3>1, <3>2, LateGrows
  <2>6. CASE Sei
    <3>1. Waiting = off /\ Waiting' = MaxOff
      BY <1>0, <2>6 DEF Sei, Waiting
    <3>2. Waited = MinDelay + off /\ Waited' = MinDelay + MaxOff
      BY <1>0, <2>6, <3>1 DEF Sei, Waited, Updating
    <3>3. Waited' \in Int /\ Waited <= Waited'
      BY <1>0, <3>2, Sizes
    <3>4. OCF => Spent = MinDelay + off /\ Spent' = MinDelay + MaxOff
      BY <1>0, <3>1 DEF Spent, Updating
    <3>5. Armed => Spent' \in Int /\ Spent <= Spent'
      <4>1. CASE OCF
        BY <1>0, <3>4, <4>1, Sizes
      <4>2. CASE ~OCF
        BY <2>3, <2>4, <4>2
      <4>. QED
        BY <1>0, <4>1, <4>2
    <3>. QED
      BY <1>0, <2>1, <2>2, <3>3, <3>5, LateGrows
  <2>. QED
    BY <2>5, <2>6
<1>3. LateInv'
  BY <1>0, <1>2 DEF LateInv
<1>. QED
  BY <1>1, <1>3 DEF TimeInv

LEMMA NextTimed ==
  IInv /\ RegInv /\ TimeInv /\ Prompt /\ Near /\ Brief /\ Counted /\ [Next]_vars => TimeInv'
<1>. SUFFICES ASSUME IInv, RegInv, TimeInv, Prompt, Near, Brief, Counted, [Next]_vars
              PROVE  TimeInv'
  OBVIOUS
<1>1. CASE UNCHANGED vars
  <2>1. UNCHANGED <<TCNT1, OCR1A, TOV, OCF, OCIE, I, updated, queue, isr, upd, clock, off, call,
                    reading, cuts>>
    BY <1>1 DEF vars, hardware
  <2>2. Waiting' = Waiting
    BY <2>1 DEF Waiting
  <2>3. /\ \A i \in DOMAIN queue' : OnTime(queue[i])'
        /\ OrderInv' /\ LateInv'
    BY <2>1, <2>2, SameTimer
  <2>. QED
    BY <2>1, <2>3 DEF TimeInv, ExactInv, OnTime, AgeInv, InNow, Active, CallInv, OneLate, Cuts
<1>2. CASE Tick \/ BootTick
  <2>1. Tick
    BY <1>2 DEF RegInv, ClockInv, BootTick
  <2>. QED
    BY <2>1, TickExact, TickAge, TickCall, TickLate DEF TimeInv
<1>3. CASE Next
  BY <1>2, <1>3, SetTimeoutTimed, NowStepsTimed, SetTimeoutNowTimed, InsertTimed, WritesTimed,
     OverflowTimed, CompareTimed, LoopTimed, SectionsTimed DEF Next, Code
<1>. QED
  BY <1>1, <1>3

LEMMA TimeInitially == Init => TimeInv
<1>. SUFFICES ASSUME Init PROVE TimeInv
  OBVIOUS
<1>1. /\ \A c \in Contexts : call[c].pc = "idle"
      /\ queue = <<>> /\ isr = "none" /\ "main" \in Contexts /\ "isr" \in Contexts
      /\ ~InNow /\ cuts = 0 /\ 0 <= MaxCuts
  BY SizesAssumption DEF Init, NoCall, Contexts, NoReading, InNow
<1>2. DOMAIN queue = {}
  BY <1>1
<1>. QED
  BY <1>1, <1>2 DEF TimeInv, ExactInv, OrderInv, AgeInv, CallInv, OneLate, LateInv

\* In a program that starts with an initialised timer no callback starts later than
\* LateBound after its timeout was due: what interrupts take before set_timeout has put
\* it on the list, two calls of now() or of set_timeout, and twice MIN_DELAY and a
\* stretch without interrupts, the second when an overflow arms an overdue head anew
\* (Timers.cpp:85, 291-295).  The code handles its interrupts before the counter comes
\* round.
THEOREM NeverLater ==
  ASSUME ~Arduino, Prompt, Near, Brief
  PROVE  EitherSpec => []LateAtMost
<1>. DEFINE Timed == IInv /\ RegInv /\ (Counted => TimeInv)
            TimelyInv == bare = FALSE \/ (bare = TRUE /\ Timed)
<1>1. BuildInit => TimelyInv
  BY InitInvariant, RegInitially, TimeInitially DEF BuildInit
<1>2. TimelyInv /\ [In(Next)]_<<vars, bare>> => TimelyInv'
  <2>1. [In(Next)]_<<vars, bare>> => [Next]_vars /\ bare' = bare
    BY DEF In
  <2>2. Timed /\ [Next]_vars => Timed'
    <3>1. Counted' <=> Counted
      BY DEF Counted, LateBound
    <3>. QED
      BY <3>1, NextInvariant, NextKeeps, NextTimed
  <2>3. ASSUME TimelyInv, [In(Next)]_<<vars, bare>>, bare = FALSE PROVE TimelyInv'
    BY <2>1, <2>3
  <2>4. ASSUME TimelyInv, [In(Next)]_<<vars, bare>>, bare = TRUE PROVE TimelyInv'
    <3>1. Timed
      BY <2>4
    <3>2. Timed' /\ bare' = TRUE
      BY <2>1, <2>2, <2>4, <3>1
    <3>. QED
      BY <3>2
  <2>. HIDE DEF Timed
  <2>. QED
    BY <2>3, <2>4
<1>3. TimelyInv => LateAtMost
  <2>. SUFFICES ASSUME bare = TRUE, Timed PROVE BoundedLateness
    BY DEF LateAtMost
  <2>1. CASE Counted
    BY <2>1, NowBounded
  <2>2. CASE ~Counted
    <3>1. TypeOK
      BY DEF IInv, TypeInv
    <3>2. ASSUME NEW i \in DOMAIN queue PROVE queue[i].left >= -LateBound
      <4>1. queue[i] \in Entries
        BY <3>1 DEF TypeOK
      <4>2. queue[i].left \in (-MaxLate) .. (Wide \div 2)
        BY <4>1 DEF Entries, Lefts
      <4>3. Wide \div 2 \in Int /\ MaxLate \in Nat /\ MaxSlip \in Nat /\ LateBound \in Nat
        BY WideType, Sizes
      <4>4. queue[i].left \in Int /\ queue[i].left >= -MaxLate
        BY <4>2, <4>3
      <4>. QED
        BY <2>2, <4>3, <4>4 DEF Counted
    <3>. QED
      BY <3>2 DEF BoundedLateness
  <2>. QED
    BY <2>1, <2>2
<1>. QED
  BY <1>1, <1>2, <1>3, PTL DEF EitherSpec
=============================================================================
