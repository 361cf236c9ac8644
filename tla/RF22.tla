-------------------------------- MODULE RF22 --------------------------------
(***************************************************************************)
(* RadioHead's driver of the RF22 transceiver: a main program that sends   *)
(* and polls, the interrupt handler, and the chip with its two FIFOs.      *)
(*                                                                         *)
(* As configured here a message is shorter than what is written to the     *)
(* transmitter's FIFO at once: it is one fragment. A step of the chip does *)
(* not fall within one run of the handler.                                 *)
(***************************************************************************)
EXTENDS Driver

CONSTANTS
  Fifo,      \* RH_RF22_FIFO_SIZE
  RxAlmost   \* RH_RF22_RXFFAFULL_THRESHOLD

-----------------------------------------------------------------------------
(* What the driver does to the chip and to itself, s holding both. *)

\* setOpMode: a change of mode ends what the chip was doing.
OpMode(s, m) == [s EXCEPT !.chip.mode = m, !.chip.hears = None, !.chip.out = <<>>]

ResetRxFifo(s) == [s EXCEPT !.chip.rx = <<>>]
ResetFifos(s) == [ResetRxFifo(s) EXCEPT !.chip.tx = <<>>]

SetModeTx(s) ==
  IF s.drv.mode = "tx" THEN s
  ELSE ResetRxFifo([OpMode(s, "tx") EXCEPT !.drv.mode = "tx"])

SetModeRx(s) == IF s.drv.mode = "rx" THEN s ELSE [OpMode(s, "rx") EXCEPT !.drv.mode = "rx"]

ClearRxBuf(s) == [s EXCEPT !.drv.buf = <<>>, !.drv.valid = FALSE]
ClearTxBuf(s) == [s EXCEPT !.drv.buf = <<>>, !.drv.sent = 0]

\* Mutant of SendNextFragment: the index is not advanced.
SendNextFragmentAgain(s) ==
  [s EXCEPT !.chip.tx = @ \o SubSeq(s.drv.buf, s.drv.sent + 1, Len(s.drv.buf))]

SendNextFragment(s) ==
  IF s.drv.sent >= Len(s.drv.buf) THEN s
  ELSE [s EXCEPT !.chip.tx = @ \o SubSeq(s.drv.buf, s.drv.sent + 1, Len(s.drv.buf)),
                 !.drv.sent = Len(s.drv.buf)]

\* startTransmit up to setModeTx
Loaded(s) ==
  LET t == SendNextFragment(s) IN [t EXCEPT !.chip.length = Len(t.drv.buf)]

RestartTransmit(s) ==
  SetModeTx(Loaded([s EXCEPT !.drv.mode = "idle", !.drv.sent = 0]))

\* The first k bytes of the receiver's FIFO, moved to the buffer; where there
\* are not so many what is read belongs to no frame.
Read(s, k) ==
  LET got == [i \in 1 .. k |-> IF i <= Len(s.chip.rx) THEN s.chip.rx[i] ELSE <<None, 0>>]
  IN  [s EXCEPT !.drv.buf = @ \o got, !.chip.rx = SubSeq(@, k + 1, Len(@))]

ReadNextFragment(s) ==
  IF Len(s.drv.buf) + RxAlmost > MaxLen THEN s ELSE Read(s, RxAlmost)

-----------------------------------------------------------------------------
(* handleInterrupt, flag after flag of those f that were up *)

OnFifoError(s, f) ==
  IF "FFERR" \notin f THEN s
  ELSE CASE s.drv.mode = "tx" -> RestartTransmit(ResetFifos(s))
         [] s.drv.mode = "rx" -> ClearRxBuf(ResetFifos(s))
         [] OTHER -> ResetFifos(s)

OnAlmostEmpty(s, f) == IF "TXFFAEM" \in f THEN SendNextFragment(s) ELSE s

OnAlmostFull(s, f) == IF "RXFFAFULL" \in f THEN ReadNextFragment(s) ELSE s

\* Mutant of OnSent: the mode is not changed.
OnSentStay(s, f) == s

OnSent(s, f) == IF "PKSENT" \in f THEN [s EXCEPT !.drv.mode = "idle"] ELSE s

BadLength(s) == s.chip.rxLength > MaxLen \/ s.chip.rxLength < Len(s.drv.buf)

OnValid(s, f) ==
  IF "PKVALID" \notin f THEN s
  ELSE IF BadLength(s) THEN [ClearRxBuf(s) EXCEPT !.drv.mode = "idle"]
  ELSE [Read(s, s.chip.rxLength - Len(s.drv.buf)) EXCEPT !.drv.mode = "idle",
                                                         !.drv.valid = TRUE]

\* Mutant of OnCrcError: the mode is taken to be still the one to receive.
OnCrcErrorInRx(s, f) ==
  IF "CRCERROR" \notin f THEN s ELSE SetModeRx(ResetRxFifo(ClearRxBuf(s)))

OnCrcError(s, f) ==
  IF "CRCERROR" \notin f THEN s
  ELSE SetModeRx([ResetRxFifo(ClearRxBuf(s)) EXCEPT !.drv.mode = "idle"])

\* Mutant of OnPreamble: the FIFO is not reset.
OnPreambleFifoKept(s, f) == IF "PREAVAL" \in f THEN ClearRxBuf(s) ELSE s

OnPreamble(s, f) == IF "PREAVAL" \in f THEN ClearRxBuf(ResetRxFifo(s)) ELSE s

Handled(s, f) ==
  LET r == OnSent(OnAlmostFull(OnAlmostEmpty(OnFifoError(s, f), f), f), f)
      v == OnValid(r, f)
  IN  IF "PKVALID" \in f /\ BadLength(r) THEN v ELSE OnPreamble(OnCrcError(v, f), f)

State == [drv |-> drv, chip |-> chip]
Becomes(s) == drv' = s.drv /\ chip' = s.chip

\* Interrupts are disabled from FillTxBuf to StartTransmit.
HandleInterrupt ==
  /\ chip.flags # {} /\ pc.at # "mode"
  /\ Becomes(Handled([State EXCEPT !.chip.flags = {}], chip.flags))
  /\ UNCHANGED <<pc, log>>

-----------------------------------------------------------------------------
(* The main program *)

Init ==
  /\ drv = [mode |-> "idle", buf |-> <<>>, sent |-> 0, valid |-> FALSE]
  /\ chip = [mode |-> "idle", rx |-> <<>>, tx |-> <<>>, length |-> 0, rxLength |-> 0,
             header |-> None, hears |-> None, out |-> <<>>, flags |-> {}]
  /\ pc = [at |-> "idle"]
  /\ log = NoLog

\* send, at its waitPacketSent
Send(len) ==
  /\ pc.at = "idle" /\ log.asked.n < MaxFrames
  /\ log' = [log EXCEPT !.asked = Asked(len)]
  /\ Goto("send")
  /\ UNCHANGED <<drv, chip>>

\* The message is loaded, unless its length is illegal.
FillTxBuf ==
  /\ pc.at = "send" /\ drv.mode # "tx"
  /\ LET legal == log.asked.len \in 1 .. MaxLen
         s == ClearTxBuf(State)
     IN  /\ Becomes(IF legal THEN Loaded([s EXCEPT !.drv.buf = Bytes(log.asked)]) ELSE s)
         /\ Goto(IF legal THEN "mode" ELSE "wait")
  /\ UNCHANGED log

\* The transmitter is switched on; flags that came up meanwhile are late.
StartTransmit ==
  /\ pc.at = "mode"
  /\ Becomes(SetModeTx(State))
  /\ log' = [log EXCEPT !.late = @ \/ chip.flags # {}]
  /\ Goto("wait")

\* waitPacketSent
PacketSent ==
  /\ pc.at = "wait" /\ drv.mode # "tx"
  /\ Goto("idle")
  /\ UNCHANGED <<drv, chip, log>>

\* recv, at its available
Recv ==
  /\ pc.at = "idle"
  /\ Goto(IF drv.valid THEN "copy" ELSE "listen")
  /\ UNCHANGED <<drv, chip, log>>

\* setModeRx: the mode is looked at and the chip's changed, then the driver's.
Listen ==
  /\ pc.at = "listen"
  /\ Becomes(IF drv.mode = "rx" THEN State ELSE OpMode(State, "rx"))
  /\ Goto(IF drv.mode = "rx" THEN "polled" ELSE "listening")
  /\ UNCHANGED log

Listening ==
  /\ pc.at = "listening"
  /\ drv' = [drv EXCEPT !.mode = "rx"]
  /\ Goto("polled")
  /\ UNCHANGED <<chip, log>>

Polled ==
  /\ pc.at = "polled"
  /\ Goto(IF drv.valid THEN "copy" ELSE "idle")
  /\ UNCHANGED <<drv, chip, log>>

Copy ==
  /\ pc.at = "copy"
  /\ pc' = [at |-> "clear", data |-> drv.buf]
  /\ UNCHANGED <<drv, chip, log>>

Clear ==
  /\ pc.at = "clear"
  /\ Becomes(ClearRxBuf(State))
  /\ pc' = [pc EXCEPT !.at = "header"]
  /\ UNCHANGED log

\* RHDatagram::recvfrom reads the headers, from the chip.
Header ==
  /\ pc.at = "header"
  /\ log' = [log EXCEPT !.got = <<pc.data, chip.header>>]
  /\ Goto("idle")
  /\ UNCHANGED <<drv, chip>>

-----------------------------------------------------------------------------
(* The chip *)

Preamble(len) ==
  /\ chip.mode = "rx" /\ chip.hears = None /\ log.heard < MaxFrames
  /\ log' = [log EXCEPT !.heard = @ + 1]
  /\ chip' = [chip EXCEPT !.hears = Heard(len, TRUE), !.flags = @ \cup {"PREAVAL"}]
  /\ UNCHANGED <<drv, pc>>

\* A frame has come to its end. It takes longer than setModeRx.
Received(good) ==
  /\ chip.mode = "rx" /\ chip.hears # None /\ pc.at # "listening"
  /\ LET f == chip.hears
         q == chip.rx \o Bytes(f)
     IN  chip' = IF Len(q) > Fifo
                 THEN [chip EXCEPT !.hears = None, !.flags = @ \cup {"FFERR", "RXFFAFULL"}]
                 ELSE [chip EXCEPT !.hears = None, !.rx = q, !.mode = "idle",
                        !.rxLength = f.len, !.header = IF good THEN f ELSE @,
                        !.flags = @ \cup {IF good THEN "PKVALID" ELSE "CRCERROR"}
                                    \cup (IF Len(q) >= RxAlmost THEN {"RXFFAFULL"} ELSE {})]
  /\ UNCHANGED <<drv, pc, log>>

TransmitByte ==
  /\ chip.mode = "tx" /\ Len(chip.out) < chip.length
  /\ chip' = IF chip.tx = <<>> THEN [chip EXCEPT !.mode = "idle", !.flags = @ \cup {"FFERR"}]
             ELSE [chip EXCEPT !.out = Append(@, Head(chip.tx)), !.tx = Tail(@)]
  /\ UNCHANGED <<drv, pc, log>>

Transmitted ==
  /\ chip.mode = "tx" /\ Len(chip.out) = chip.length
  /\ chip' = [chip EXCEPT !.mode = "idle", !.out = <<>>, !.flags = @ \cup {"PKSENT", "TXFFAEM"}]
  /\ log' = [log EXCEPT !.aired = chip.out]
  /\ UNCHANGED <<drv, pc>>

Next ==
  \/ \E len \in Lengths : Send(len)
  \/ FillTxBuf \/ StartTransmit \/ PacketSent
  \/ Recv \/ Listen \/ Listening \/ Polled \/ Copy \/ Clear \/ Header
  \/ HandleInterrupt
  \/ \E len \in Lengths : Preamble(len)
  \/ \E good \in BOOLEAN : Received(good)
  \/ TransmitByte \/ Transmitted

\* What is fair: the program polls, the chip transmits.
Program ==
  \/ FillTxBuf \/ StartTransmit \/ PacketSent
  \/ Recv \/ Listen \/ Listening \/ Polled \/ Copy \/ Clear \/ Header
Transmits == TransmitByte \/ Transmitted

-----------------------------------------------------------------------------
\* A message goes out as it was given to send: unless once, while the
\* transmitter was being loaded, the receiver raised a flag (see README).
SentWhole == log.late \/ Whole(log.aired)

\* recv returns one frame, never parts of two, or nothing: its own message when
\* that was sent over one not read yet. The headers are its own or those of a
\* later frame.
GotWhole ==
  (log.got # <<>> /\ ~log.late) =>
    LET d == log.got[1]
    IN  Whole(d) /\ ((d # <<>> /\ d[1][1].of = "air") => d[1][1].n <= log.got[2].n)

Sending == pc.at \in {"send", "wait"}

Hears == chip.mode = "rx" \/ drv.valid
=============================================================================
