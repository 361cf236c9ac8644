------------------------------ MODULE MCTimers ------------------------------
(***************************************************************************)
(* Small instances of Timers for TLC: the timer is initialised when the    *)
(* program starts, or by the first overflow of an Arduino build.           *)
(***************************************************************************)
EXTENDS Timers

VARIABLE bare  \* whether the timer was initialised at the start

ArduinoBuild == INSTANCE Timers WITH Arduino <- TRUE

\* How long interrupts stay disabled in an Arduino build, where the timer's registers
\* are written within a tick, and the timeout that is set there: long enough for an
\* overflow to come first.
BootOff == 1
BootDelay == 5

BuildInit ==
  \/ bare = TRUE /\ Init
  \/ bare = FALSE /\ ArduinoBuild!Init

Booting ==
  /\ off' <= BootOff
  /\ upd'.at # "none" => upd'.slip = 0
  /\ reading'.at # "none" => reading'.slip = 0
  /\ \A c \in Contexts :
       /\ call'[c].pc # "idle" => call'[c].slip = 0
       /\ call'[c].pc = "now" => call'[c].timeout = BootDelay

\* Callbacks are alike while they are not pending: always the same one of those
\* is set.
FirstFree == CHOOSE c \in Clients \ Busy : TRUE
InTurn == \A x \in Contexts : call[x].pc = "idle" /\ call'[x].pc = "now" => call'[x].cb = FirstFree

In(A) == A /\ InTurn /\ (bare \/ Booting) /\ UNCHANGED bare

EitherSpec ==
  /\ BuildInit /\ [][In(Next)]_<<vars, bare>>
  /\ WF_vars(In(Tick \/ BootTick)) /\ WF_vars(In(Code))

\* RegistersAgree in a program that starts with an initialised timer. In an
\* Arduino build timeouts set before the first overflow are armed only at the
\* second, but a match still means a head that is due (Timers.cpp:65-73).
RegistersRight == CompareMeansDue /\ (bare => RegistersAgree)

\* BoundedLateness in a program that starts so (Timers.cpp:85, 291-295).
LateAtMost == bare => BoundedLateness

\* In such a program every timeout fires once, in the order of the due times and
\* not "sooner than expected" (Timers.cpp:147-149), that is, before its delay,
\* counted from the moment set_timeout reads the time, is over: the timer
\* implements the specification of Timeouts, liveness included.
Service == INSTANCE Timeouts WITH pending <- IF bare THEN Pending ELSE [c \in {} |-> 0]

ImplementsTimeouts == Service!FairSpec
=============================================================================
