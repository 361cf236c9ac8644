------------------------------- MODULE Driver -------------------------------
(***************************************************************************)
(* What the models of RadioHead's drivers share. A main program, the       *)
(* caller of RHGenericDriver, sends messages, waits until each has been    *)
(* sent as RHReliableDatagram does, and polls for received ones.           *)
(***************************************************************************)
EXTENDS Integers, Sequences

CONSTANTS
  MaxLen,     \* longest message: RH_RF22_MAX_MESSAGE_LEN and its like
  MaxFrames   \* bound: frames heard, and messages sent

ASSUME DriverAssumption == MaxLen \in Nat \ {0} /\ MaxFrames \in Nat

VARIABLES
  drv,   \* the driver object
  chip,  \* the transceiver, or line: mode, FIFOs, registers, interrupt flags
  pc,    \* where the main program is
  log    \* history: frames and messages so far, the last received, the last sent

driver == <<drv, chip, pc, log>>

\* Frames from the air and messages of this node; mine if the address is accepted.
None == [of |-> "none", n |-> 0, len |-> 0, mine |-> FALSE]
Heard(len, mine) == [of |-> "air", n |-> log.heard + 1, len |-> len, mine |-> mine]
Asked(len) == [of |-> "me", n |-> log.asked.n + 1, len |-> len, mine |-> FALSE]

\* The bytes of f.
Bytes(f) == [i \in 1 .. f.len |-> <<f, i>>]

\* d is one frame, nothing more or less, or empty.
Whole(d) == d = <<>> \/ d = Bytes(d[1][1])

\* What a buffer of both directions holds with d put at its beginning.
Over(buf, d) == d \o SubSeq(buf, Len(d) + 1, Len(buf))

NoLog ==
  [heard |-> 0, asked |-> None, aired |-> <<>>, got |-> <<>>, late |-> FALSE]

Goto(label) == pc' = [at |-> label]

\* Any legal length and one that is not.
Lengths == 0 .. MaxLen + 1
=============================================================================
