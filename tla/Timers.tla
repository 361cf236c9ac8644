------------------------------- MODULE Timers -------------------------------
(***************************************************************************)
(* The timer of Sensorino/Timers.cpp: the 16-bit counter TCNT1 extended to *)
(* 32 bits by timer_cycles, the sorted list of pending timeouts, and the   *)
(* single compare register OCR1A that is armed for the head of the list.   *)
(*                                                                         *)
(* The three flows of the code that meet here are the main program, the    *)
(* overflow interrupt and the compare interrupt, which runs the callbacks. *)
(* The hardware counts on (Tick) between any two of their steps: between   *)
(* the check for an overflow, the read of the counter and that of its flag *)
(* in now(), and the three register accesses at the end of                 *)
(* update_timeouts.                                                        *)
(*                                                                         *)
(* One tick is one step of the prescaled counter, 1024 cpu cycles.  "left" *)
(* is the real time, in ticks, that remains before a timeout is due; it is *)
(* counted by the environment and never read by the code.                  *)
(***************************************************************************)
EXTENDS Integers, Sequences, FiniteSets

CONSTANTS
  Lo,          \* values of TCNT1 (2^16 on the chip)
  Hi,          \* values of timer_cycles (2^16)
  MinDelay,    \* MIN_DELAY, in ticks
  MaxTimeouts, \* MAX_TIMEOUTS, the slots of timeouts[]
  Clients,     \* the callbacks; each has at most one timeout pending
  Delays,      \* the timeouts they ask for, in ticks
  Arduino,     \* whether the build defines ARDUINO
  BootTop,     \* where the counter turns around before it is reprogrammed
  MaxOff,      \* bound: ticks one stretch with interrupts disabled may last
  MaxSlip,     \* bound: ticks set_timeout, update_timeouts or now() takes
  MaxCuts,     \* bound: interrupts between now() and cli() in one set_timeout
  MaxLate      \* bound: where the count of "left" below zero stops

ASSUME SizesAssumption ==
  /\ Lo \in Nat /\ Lo >= 4 /\ Lo % 2 = 0
  /\ Hi \in Nat /\ Hi >= 4 /\ Hi % 2 = 0
  /\ MinDelay \in 1 .. (Lo - 1)
  /\ BootTop \in 1 .. (Lo - 1)
  /\ MaxTimeouts \in Nat \ {0}
  /\ MaxOff \in Nat /\ MaxSlip \in Nat /\ MaxCuts \in Nat /\ MaxLate \in Nat
  /\ Arduino \in BOOLEAN

ASSUME DelaysAssumption == Delays \subseteq 0 .. ((Lo * Hi) \div 2 - 1)

VARIABLES
  TCNT1, OCR1A,  \* counter and compare register
  TOV, OCF,      \* bits 0 and 1 of TIFR1: overflow and compare match pending
  OCIE,          \* bit 1 of TIMSK1; bit 0, the overflow's, stays set
  I,             \* the interrupt flag of SREG in the main program
  falling,       \* the counter is on its way down (only before inited)
  timer_cycles, inited, updated,
  queue,         \* the list that starts at next, earliest first
  call,          \* the set_timeout call under way in each context
  reading,       \* where now() is, with interrupts disabled, what it has read, and the
                 \* ticks since it disabled them and since it read (never read)
  isr,           \* where the compare interrupt is, "none" when not in it
  upd,           \* the register writes update_timeouts still has to do
  clock,         \* real time in ticks, modulo 2^32 (never read)
  off,           \* ticks since interrupts were disabled (never read)
  cuts           \* interrupts of the main program's set_timeout (never read)

hardware == <<TCNT1, OCR1A, TOV, OCF, OCIE, I, falling>>
vars == <<hardware, timer_cycles, inited, updated, queue, call, reading, isr, upd,
          clock, off, cuts>>

Wide == Lo * Hi
Contexts == {"main", "isr"}

NoCall == [pc |-> "idle"]
NoReading == [at |-> "none"]
NoUpdate == [at |-> "none"]

\* The context whose instructions run: an interrupt suspends the main program
\* and nothing suspends an interrupt (CALLBACK_WITH_INTERRUPTS is not defined).
Active == IF isr = "none" THEN "main" ELSE "isr"
Updating == upd.at # "none"
InNow == reading.at # "none"
InterruptsOn == I /\ isr = "none" /\ ~Updating /\ ~InNow
InterruptPending == InterruptsOn /\ (TOV \/ (OCIE /\ OCF))

Queued == {queue[i].cb : i \in DOMAIN queue}
Busy == Queued \cup {call[c].cb : c \in {x \in Contexts : call[x].pc # "idle"}}

-----------------------------------------------------------------------------
(* 16- and 32-bit arithmetic *)

\* (uint32_t) (a - b) >> 31
Before(a, b) == (a - b) % Wide >= Wide \div 2

\* int16_t diff = (when >> 16) - cycles
Periods(when, cycles) ==
  LET d == (when \div Lo - cycles) % Hi
  IN  IF d >= Hi \div 2 THEN d - Hi ELSE d

\* Mutant of Now: a pending overflow is added whenever it came.
NowAnyOverflow(r) ==
  ((r.hi + (IF TOV THEN 1 ELSE 0)) % Hi) * Lo + r.lo

\* What now() returns, when it has read r and then looks at the flag: an overflow
\* that is pending while the counter was still low came before that read, but after
\* the last increment of timer_cycles.  One that came after the read is not counted.
Now(r) ==
  ((r.hi + (IF TOV /\ r.lo < Lo \div 2 THEN 1 ELSE 0)) % Hi) * Lo + r.lo

-----------------------------------------------------------------------------
(* update_timeouts and timer_overflow, as parts of the steps that call them *)

\* The value for OCR1A: the head's own, or as soon as possible when that is
\* past or too close.
CompareFor(when, cycles) ==
  LET ocra == when % Lo
  IN  IF \/ Periods(when, cycles) # 0
         \/ ocra < MinDelay
         \/ ocra - MinDelay < TCNT1
      THEN (TCNT1 + MinDelay) % Lo
      ELSE ocra

\* update_timeouts up to its read of TCNT1, with the list q; the register
\* writes that follow are WriteCompare and EnableCompare.
UpdateTimeouts(q, cycles) ==
  \/ ~inited /\ UNCHANGED <<OCIE, updated, upd>>
  \/ /\ inited
     /\ OCIE' = FALSE
     /\ updated' = TRUE
     /\ upd' = IF q = <<>> \/ Periods(q[1].when, cycles) > 0
               THEN NoUpdate
               ELSE [at |-> "write",
                     ocra |-> CompareFor(q[1].when, cycles),
                     slip |-> 0]

\* Mutant of CountOverflow: the head that comes due in the new period is not
\* armed.
CountOverflowOnly ==
  /\ timer_cycles' = (timer_cycles + 1) % Hi
  /\ UNCHANGED <<OCIE, updated, upd>>

CountOverflow ==
  /\ timer_cycles' = (timer_cycles + 1) % Hi
  /\ UpdateTimeouts(queue, timer_cycles')

\* Mutant of Reprogram: "inited" stays unset when the registers look right.
ReprogramOnly == inited' = inited /\ falling' = FALSE

Reprogram == inited' = TRUE /\ falling' = FALSE

\* The first overflow of an Arduino build only reprograms the timer.
TimerOverflow ==
  /\ TOV' = FALSE
  /\ \/ /\ ~inited
        /\ Reprogram
        /\ UNCHANGED <<timer_cycles, OCIE, updated, upd>>
     \/ /\ inited
        /\ CountOverflow
        /\ UNCHANGED <<inited, falling>>

-----------------------------------------------------------------------------
Init ==
  /\ TCNT1 = 0 /\ OCR1A = 0
  /\ TOV = FALSE /\ OCF = FALSE /\ OCIE = FALSE
  /\ I = TRUE
  /\ falling = FALSE
  /\ timer_cycles = 0
  /\ inited = ~Arduino
  /\ updated = FALSE
  /\ queue = <<>>
  /\ call = [c \in Contexts |-> NoCall]
  /\ reading = NoReading
  /\ isr = "none"
  /\ upd = NoUpdate
  /\ clock = 0
  /\ off = 0
  /\ cuts = 0

-----------------------------------------------------------------------------
(* Hardware *)

Elapsed(left) == IF left > -MaxLate THEN left - 1 ELSE left

\* Only the context that runs loses time in its own instructions.
Slipped(c, t) == IF c = Active THEN t ELSE 0

\* The call under way in c after a time t.
Aged(c, t) ==
  CASE call[c].pc = "idle" -> NoCall
    [] call[c].pc = "now" -> [call[c] EXCEPT !.slip = @ + Slipped(c, t)]
    [] call[c].pc = "insert" ->
         [call[c] EXCEPT !.slip = @ + Slipped(c, t),
                         !.left = IF t = 0 THEN @ ELSE Elapsed(@)]

\* Real time passes by t (0 or 1) ticks for everything that waits.
Elapse(t) ==
  /\ clock' = (clock + t) % Wide
  /\ queue' = IF t = 0 THEN queue
              ELSE [i \in DOMAIN queue |->
                      [queue[i] EXCEPT !.left = Elapsed(@)]]
  /\ call' = [c \in Contexts |-> Aged(c, t)]

\* An interrupt that is enabled and pending is taken before the next tick (and
\* before the main program starts anything new: SetTimeout, Cli).  A stretch
\* without interrupts is bounded, and so is the time that set_timeout and
\* update_timeouts themselves take.
MayTick ==
  /\ ~InterruptPending
  /\ (~I \/ isr # "none") => off < MaxOff
  /\ Updating => upd.slip < MaxSlip
  /\ InNow => reading.slip < MaxSlip
  /\ call[Active].pc # "idle" => call[Active].slip < MaxSlip

TickBookkeeping ==
  /\ off' = IF ~I \/ isr # "none" THEN off + 1 ELSE off
  /\ upd' = IF Updating THEN [upd EXCEPT !.slip = @ + 1] ELSE upd
  /\ reading' = IF InNow THEN [reading EXCEPT !.slip = @ + 1, !.age = @ + 1] ELSE reading
  /\ UNCHANGED <<OCR1A, OCIE, I, timer_cycles, inited, updated, isr, cuts>>

\* The counter leaves its value: leaving OCR1A sets the match flag, leaving
\* the last value overflows.
Tick ==
  /\ inited
  /\ MayTick
  /\ TCNT1' = (TCNT1 + 1) % Lo
  /\ TOV' = (TOV \/ TCNT1 = Lo - 1)
  /\ OCF' = (OCF \/ TCNT1 = OCR1A)
  /\ Elapse(1)
  /\ TickBookkeeping
  /\ UNCHANGED falling

\* Before its first overflow an Arduino build runs the timer as the Arduino
\* core left it: faster, up to BootTop and back, overflowing at the bottom.
BootTick ==
  /\ ~inited
  /\ MayTick
  /\ TCNT1' = IF falling THEN TCNT1 - 1 ELSE TCNT1 + 1
  /\ falling' = IF falling THEN TCNT1 # 1 ELSE TCNT1 + 1 = BootTop
  /\ TOV' = (TOV \/ (falling /\ TCNT1 = 1))
  /\ OCF' = (OCF \/ TCNT1 = OCR1A)
  /\ \E t \in {0, 1} : Elapse(t)
  /\ TickBookkeeping

-----------------------------------------------------------------------------
(* set_timeout, called by the main program or by a callback *)

SetTimeout(c, timeout) ==
  /\ ~Updating /\ ~InterruptPending
  /\ call[Active].pc = "idle"
  /\ isr \in {"none", "callback"}
  /\ c \notin Busy
  /\ call' = [call EXCEPT ![Active] =
                [pc |-> "now", cb |-> c, timeout |-> timeout, slip |-> 0]]
  /\ UNCHANGED <<hardware, timer_cycles, inited, updated, queue, reading, isr, upd,
                 clock, off, cuts>>

\* A call of now() is due: in set_timeout, or after a callback.
NowDue == ~Updating /\ ~InNow /\ (call[Active].pc = "now" \/ isr = "loop")

\* now() with interrupts disabled handles a pending overflow itself.
OverflowLeft == TOV /\ (~I \/ isr # "none")

NowOverflow ==
  /\ NowDue
  /\ OverflowLeft
  /\ TimerOverflow
  /\ UNCHANGED <<TCNT1, OCR1A, OCF, I, queue, call, reading, isr, clock, off, cuts>>

\* None is left (or interrupts are enabled, and take it), and then cli().
NowDisable ==
  /\ NowDue
  /\ ~OverflowLeft
  /\ reading' = [at |-> "off", slip |-> 0, age |-> 0]
  /\ UNCHANGED <<hardware, timer_cycles, inited, updated, queue, call, isr, upd,
                 clock, off, cuts>>

\* Both reads of line 118: nothing counts timer_cycles between them.
NowRead ==
  /\ reading.at = "off"
  /\ reading' = [at |-> "read", lo |-> TCNT1, hi |-> timer_cycles,
                  slip |-> reading.slip, age |-> 0]
  /\ UNCHANGED <<hardware, timer_cycles, inited, updated, queue, call, isr, upd,
                 clock, off, cuts>>

\* The last step of now(), in which it looks at the overflow flag again, belongs to
\* what its callers do with the time it returns.
NowReturns == reading.at = "read" /\ reading' = NoReading

\* The time left of a timeout that was counted from a time now() read t ticks ago.
LeftAfter(timeout, t) == IF timeout - t > -MaxLate THEN timeout - t ELSE -MaxLate

SetTimeoutNow ==
  /\ NowReturns
  /\ call[Active].pc = "now"
  /\ LET f == call[Active]
     IN  call' = [call EXCEPT ![Active] =
                    [pc |-> "insert", cb |-> f.cb, slip |-> f.slip,
                     left |-> LeftAfter(f.timeout, reading.age),
                     when |-> (Now(reading) + f.timeout) % Wide]]
  /\ UNCHANGED <<hardware, timer_cycles, inited, updated, queue, isr, upd,
                 clock, off, cuts>>

\* The timeouts on the list that are later than a new one.
Later(when) == {i \in DOMAIN queue : Before(when, queue[i].when)}

\* Its position: before the first of them, after all others.
Position(when) ==
  IF Later(when) = {} THEN Len(queue) + 1
  ELSE CHOOSE i \in Later(when) : \A j \in Later(when) : i <= j

Inserted(p, e) == SubSeq(queue, 1, p - 1) \o <<e>> \o SubSeq(queue, p, Len(queue))

\* From cli() on.  With every slot in use the search for a free one never
\* ends, with interrupts disabled: the step stays disabled.
SetTimeoutInsert ==
  /\ ~Updating
  /\ call[Active].pc = "insert"
  /\ Len(queue) < MaxTimeouts
  /\ LET f == call[Active]
         p == Position(f.when)
     IN  /\ queue' = Inserted(p, [cb |-> f.cb, when |-> f.when, left |-> f.left])
         /\ IF p = 1
            THEN UpdateTimeouts(queue', timer_cycles)
            ELSE UNCHANGED <<OCIE, updated, upd>>
  /\ call' = [call EXCEPT ![Active] = NoCall]
  /\ cuts' = IF Active = "main" THEN 0 ELSE cuts
  /\ UNCHANGED <<TCNT1, OCR1A, TOV, OCF, I, falling, timer_cycles, inited, reading,
                 isr, clock, off>>

-----------------------------------------------------------------------------
(* The end of update_timeouts *)

WriteCompare ==
  /\ upd.at = "write"
  /\ OCR1A' = upd.ocra
  /\ upd' = [at |-> "enable", slip |-> upd.slip]
  /\ UNCHANGED <<TCNT1, TOV, OCF, OCIE, I, falling, timer_cycles, inited,
                 updated, queue, call, reading, isr, clock, off, cuts>>

\* TIFR1 |= 0x02, a single sbi on this chip: the overflow flag is not touched.
ClearMatch == OCF' = FALSE

EnableCompare ==
  /\ upd.at = "enable"
  /\ ClearMatch
  /\ OCIE' = TRUE
  /\ upd' = NoUpdate
  /\ UNCHANGED <<TCNT1, OCR1A, TOV, I, falling, timer_cycles, inited, updated,
                 queue, call, reading, isr, clock, off, cuts>>

-----------------------------------------------------------------------------
(* The interrupts; the compare interrupt has the higher priority *)

OverflowInterrupt ==
  /\ InterruptsOn
  /\ TOV /\ ~(OCIE /\ OCF)
  /\ TimerOverflow
  /\ UNCHANGED <<TCNT1, OCR1A, OCF, I, queue, call, reading, isr, clock, off, cuts>>

\* Mutant of RunHead: "updated" is not reset.
RunHeadKeepUpdated ==
  /\ queue' = Tail(queue)
  /\ isr' = "callback"
  /\ updated' = updated

\* The head leaves the list and its callback starts.  The code does not check
\* that there is a head.
RunHead ==
  /\ queue' = Tail(queue)
  /\ isr' = "callback"
  /\ updated' = FALSE

CompareInterrupt ==
  /\ InterruptsOn
  /\ OCIE /\ OCF
  /\ OCF' = FALSE
  /\ OCIE' = FALSE
  /\ RunHead
  /\ off' = 0
  /\ \/ call["main"].pc # "insert" /\ cuts' = cuts
     \/ call["main"].pc = "insert" /\ cuts < MaxCuts /\ cuts' = cuts + 1
  /\ UNCHANGED <<TCNT1, OCR1A, TOV, I, falling, timer_cycles, inited, call, reading, upd,
                 clock>>

CallbackReturns ==
  /\ ~Updating
  /\ isr = "callback" /\ call["isr"].pc = "idle"
  /\ isr' = "loop"
  /\ UNCHANGED <<hardware, timer_cycles, inited, updated, queue, call, reading, upd,
                 clock, off, cuts>>

\* Mutant of HeadPast: all that is on the list runs.
HeadAny == queue # <<>>

HeadPast == queue # <<>> /\ Before(queue[1].when, Now(reading))

\* The test of the do-while, after now(): another callback ...
LoopAgain ==
  /\ isr = "loop" /\ NowReturns
  /\ HeadPast
  /\ RunHead
  /\ UNCHANGED <<hardware, timer_cycles, inited, call, upd, clock, off, cuts>>

Rearm == IF updated THEN UNCHANGED <<OCIE, updated, upd>>
                    ELSE UpdateTimeouts(queue, timer_cycles)

\* ... or the way out of the interrupt.
LoopExit ==
  /\ isr = "loop" /\ NowReturns
  /\ ~HeadPast
  /\ isr' = "none"
  /\ Rearm
  /\ off' = 0
  /\ UNCHANGED <<TCNT1, OCR1A, TOV, OCF, I, falling, timer_cycles, inited,
                 queue, call, clock, cuts>>

-----------------------------------------------------------------------------
(* The main program's own sections with interrupts disabled *)

Cli ==
  /\ InterruptsOn /\ ~InterruptPending /\ call["main"].pc = "idle"
  /\ I' = FALSE
  /\ off' = 0
  /\ UNCHANGED <<TCNT1, OCR1A, TOV, OCF, OCIE, falling, timer_cycles, inited,
                 updated, queue, call, reading, isr, upd, clock, cuts>>

Sei ==
  /\ ~I /\ isr = "none" /\ ~Updating /\ call["main"].pc = "idle"
  /\ I' = TRUE
  /\ off' = 0
  /\ UNCHANGED <<TCNT1, OCR1A, TOV, OCF, OCIE, falling, timer_cycles, inited,
                 updated, queue, call, reading, isr, upd, clock, cuts>>

-----------------------------------------------------------------------------
Code ==
  \/ NowOverflow \/ NowDisable \/ NowRead
  \/ SetTimeoutNow \/ SetTimeoutInsert
  \/ WriteCompare \/ EnableCompare
  \/ OverflowInterrupt \/ CompareInterrupt
  \/ CallbackReturns \/ LoopAgain \/ LoopExit
  \/ Sei

Next ==
  \/ Tick \/ BootTick
  \/ \E c \in Clients, d \in Delays : SetTimeout(c, d)
  \/ Cli
  \/ Code

Spec == Init /\ [][Next]_vars

\* The counter never stops, and neither does code that has something to do:
\* no context waits for another one, callbacks return and interrupts are
\* enabled again.  Nobody is obliged to set a timeout.
Fairness == WF_vars(Tick \/ BootTick) /\ WF_vars(Code)

FairSpec == Spec /\ Fairness

-----------------------------------------------------------------------------
Times == 0 .. (Wide - 1)
Lefts == (-MaxLate) .. (Wide \div 2)
Entries == [cb : Clients, when : Times, left : Lefts]
Calls ==
  {NoCall} \cup [pc : {"now"}, cb : Clients, timeout : Delays, slip : Nat]
  \cup [pc : {"insert"}, cb : Clients, when : Times, left : Lefts, slip : Nat]
Readings ==
  {NoReading} \cup [at : {"off"}, slip : Nat, age : Nat]
  \cup [at : {"read"}, lo : 0 .. (Lo - 1), hi : 0 .. (Hi - 1), slip : Nat, age : Nat]
Updates ==
  {NoUpdate} \cup [at : {"write"}, ocra : 0 .. (Lo - 1), slip : Nat]
  \cup [at : {"enable"}, slip : Nat]

TypeOK ==
  /\ TCNT1 \in 0 .. (Lo - 1)
  /\ OCR1A \in 0 .. (Lo - 1)
  /\ {TOV, OCF, OCIE, I, falling, inited, updated} \subseteq BOOLEAN
  /\ timer_cycles \in 0 .. (Hi - 1)
  /\ queue \in Seq(Entries) /\ Len(queue) <= MaxTimeouts
  /\ call \in [Contexts -> Calls]
  /\ reading \in Readings
  /\ isr \in {"none", "callback", "loop"}
  /\ upd \in Updates
  /\ clock \in Times
  /\ off \in Nat /\ cuts \in Nat

\* The compare interrupt takes the head of the list without looking whether
\* there is one (Timers.cpp:231), and the index of an empty list, 0xff, is out
\* of the array: the interrupt is enabled only while the list has a head.
ArmedHasHead == OCIE /\ isr = "none" => queue # <<>>

\* Nor does it look whether the head is due: when the interrupt can be taken,
\* its time has come.
CompareMeansDue ==
  OCIE /\ OCF /\ isr = "none" /\ queue # <<>> => queue[1].left <= 0

\* now() never misses an overflow and never counts one twice, wherever between its
\* check, its cli(), its read of the counter and its last look at the flag the counter
\* overflows: it returns the time at which it read the counter (Timers.cpp:94-131).
NowExact ==
  reading.at = "read" => Now(reading) = (clock - reading.age) % Wide

\* Once no flow is inside the timer code, a head that is due in the current
\* period of the counter has a match coming, at its own time or as soon as
\* MIN_DELAY allows: the register write never slips behind the counter.
MatchComing ==
  /\ queue # <<>> /\ ~Updating /\ isr = "none" /\ ~TOV
  /\ Periods(queue[1].when, timer_cycles) <= 0
  => /\ OCIE
     /\ \/ OCF
        \/ (OCR1A - TCNT1) % Lo <= MinDelay
        \/ OCR1A = queue[1].when % Lo /\ TCNT1 <= OCR1A

\* The registers tell the truth wherever code and counter stand: a match that can
\* interrupt means a head that is due, now() reads the time, and a head that is
\* due has its match coming (update_timeouts and now, Timers.cpp:94-131, 265-298).
RegistersAgree == CompareMeansDue /\ NowExact /\ MatchComing

\* How late a callback may start, and by no period of the counter.  While the main
\* program is inside set_timeout, interrupts may come before the timeout is on the
\* list, and what comes due after the last now() of an interrupt is left to the next.
\* Then the register writes and MIN_DELAY are waited for, and a stretch without
\* interrupts; and all this again if there is an overflow meanwhile, which re-arms a
\* head that is overdue and so postpones it once more (Timers.cpp:85, 291-295).
LateBound == 2 * MaxSlip + MaxCuts * MaxOff + 2 * (MaxOff + MinDelay)
BoundedLateness ==
  \A i \in DOMAIN queue : queue[i].left >= -LateBound

\* What a client sees of the list: the time left of each pending timeout.
Pending == [c \in Queued |-> queue[CHOOSE i \in DOMAIN queue : queue[i].cb = c].left]

\* A timeout on the list fires, also one that was set before the timer was
\* initialised and was passed over by the first overflow.
EventuallyFires == \A c \in Clients : c \in Queued ~> c \notin Queued
=============================================================================
