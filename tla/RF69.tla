-------------------------------- MODULE RF69 --------------------------------
(***************************************************************************)
(* RadioHead's driver of the RF69 transceiver: a main program that sends   *)
(* and polls, the interrupt handler, and the chip with one FIFO for both   *)
(* directions, which it empties when it goes to receive or stops sending.  *)
(* A step of the chip does not fall within one run of the handler.         *)
(***************************************************************************)
EXTENDS Driver

\* As it goes over the air: length, headers, data.
Packet(f) == <<<<f, "len">>, <<f, "to">>, <<f, "from">>>> \o Bytes(f)

-----------------------------------------------------------------------------
(* What the driver does to the chip and to itself, s holding both. *)

OpMode(s, m) ==
  IF m = s.chip.mode THEN s
  ELSE [s EXCEPT !.chip.mode = m, !.chip.hears = None,
                 !.chip.fifo = IF m = "rx" \/ s.chip.mode = "tx" THEN <<>> ELSE @,
                 !.chip.ready = @ /\ m = "standby", !.chip.sent = FALSE]

SetModeIdle(s) ==
  IF s.drv.mode = "idle" THEN s ELSE [OpMode(s, "standby") EXCEPT !.drv.mode = "idle"]

\* What is left of a packet that is not for this node, or too long, stays in the FIFO.
ReadFifo(s) ==
  LET q == s.chip.fifo
      f == q[1][1]
  IN  IF f.len > MaxLen THEN [s EXCEPT !.chip.fifo = Tail(q)]
      ELSE IF ~f.mine THEN [s EXCEPT !.chip.fifo = Tail(Tail(q))]
      ELSE [s EXCEPT !.chip.fifo = <<>>, !.drv.buf = SubSeq(q, 4, Len(q)),
                     !.drv.header = f, !.drv.valid = TRUE]

Handled(s) ==
  LET t == IF s.drv.mode = "tx" /\ s.chip.sent THEN SetModeIdle(s) ELSE s
  IN  IF t.drv.mode = "rx" /\ t.chip.ready
      THEN [ReadFifo(SetModeIdle(t)) EXCEPT !.chip.ready = FALSE] ELSE t

State == [drv |-> drv, chip |-> chip]
Becomes(s) == drv' = s.drv /\ chip' = s.chip

HandleInterrupt ==
  /\ chip.line
  /\ Becomes(Handled([State EXCEPT !.chip.line = FALSE]))
  /\ UNCHANGED <<pc, log>>

-----------------------------------------------------------------------------
(* The main program *)

Init ==
  /\ drv = [mode |-> "idle", buf |-> <<>>, header |-> None, valid |-> FALSE]
  /\ chip = [mode |-> "standby", fifo |-> <<>>, dio |-> "ready", hears |-> None,
             ready |-> FALSE, sent |-> FALSE, line |-> FALSE]
  /\ pc = [at |-> "idle"]
  /\ log = NoLog

Send(len) ==
  /\ pc.at = "idle" /\ log.asked.n < MaxFrames
  /\ Goto(IF len > MaxLen THEN "wait" ELSE "send")
  /\ log' = [log EXCEPT !.asked = Asked(len)]
  /\ UNCHANGED <<drv, chip>>

\* waitPacketSent has returned; the two statements of setModeIdle follow.
Standby ==
  /\ pc.at = "send" /\ drv.mode # "tx"
  /\ Becomes(IF drv.mode = "idle" THEN State ELSE OpMode(State, "standby"))
  /\ Goto(IF drv.mode = "idle" THEN "fill" ELSE "standby")
  /\ UNCHANGED log

InStandby ==
  /\ pc.at = "standby"
  /\ drv' = [drv EXCEPT !.mode = "idle"]
  /\ Goto("fill")
  /\ UNCHANGED <<chip, log>>

FillFifo ==
  /\ pc.at = "fill"
  /\ chip' = [chip EXCEPT !.fifo = @ \o Packet(log.asked)]
  /\ log' = [log EXCEPT !.late = chip.fifo # <<>>, !.aired = <<>>]
  /\ Goto("mode")
  /\ UNCHANGED drv

\* The two statements of setModeTx
Transmit ==
  /\ pc.at = "mode"
  /\ Becomes([OpMode(State, "tx") EXCEPT !.chip.dio = "sent"])
  /\ Goto("transmit")
  /\ UNCHANGED log

Transmitting ==
  /\ pc.at = "transmit"
  /\ drv' = [drv EXCEPT !.mode = "tx"]
  /\ Goto("wait")
  /\ UNCHANGED <<chip, log>>

\* waitPacketSent
PacketSent ==
  /\ pc.at = "wait" /\ drv.mode # "tx"
  /\ Goto("idle")
  /\ UNCHANGED <<drv, chip, log>>

\* recv, at its available: the two statements of setModeRx
Listen ==
  /\ pc.at = "idle"
  /\ Becomes(IF drv.mode = "rx" THEN State
             ELSE [OpMode(State, "rx") EXCEPT !.chip.dio = "ready"])
  /\ Goto(IF drv.mode = "rx" THEN "polled" ELSE "listening")
  /\ UNCHANGED log

Listening ==
  /\ pc.at = "listening"
  /\ drv' = [drv EXCEPT !.mode = "rx"]
  /\ Goto("polled")
  /\ UNCHANGED <<chip, log>>

Polled ==
  /\ pc.at = "polled"
  /\ Goto(IF drv.valid THEN "copy" ELSE "idle")
  /\ UNCHANGED <<drv, chip, log>>

Copy ==
  /\ pc.at = "copy"
  /\ pc' = [at |-> "clear", data |-> drv.buf]
  /\ UNCHANGED <<drv, chip, log>>

Clear ==
  /\ pc.at = "clear"
  /\ drv' = [drv EXCEPT !.valid = FALSE]
  /\ pc' = [pc EXCEPT !.at = "header"]
  /\ UNCHANGED <<chip, log>>

\* RHDatagram::recvfrom reads the headers.
Header ==
  /\ pc.at = "header"
  /\ log' = [log EXCEPT !.got = <<pc.data, drv.header>>]
  /\ Goto("idle")
  /\ UNCHANGED <<drv, chip>>

-----------------------------------------------------------------------------
(* The chip *)

Hear(len, mine) ==
  /\ chip.mode = "rx" /\ chip.hears = None /\ ~chip.ready /\ log.heard < MaxFrames
  /\ log' = [log EXCEPT !.heard = @ + 1]
  /\ chip' = [chip EXCEPT !.hears = Heard(len, mine)]
  /\ UNCHANGED <<drv, pc>>

\* A frame with a wrong CRC is dropped. A frame takes longer than setModeRx.
Received(good) ==
  /\ chip.mode = "rx" /\ chip.hears # None /\ pc.at # "listening"
  /\ chip' = IF good
             THEN [chip EXCEPT !.hears = None, !.fifo = Packet(chip.hears), !.ready = TRUE,
                               !.line = @ \/ chip.dio = "ready"]
             ELSE [chip EXCEPT !.hears = None]
  /\ UNCHANGED <<drv, pc, log>>

\* It takes longer than setModeTx.
Transmitted ==
  /\ chip.mode = "tx" /\ ~chip.sent /\ pc.at # "transmit"
  /\ chip' = [chip EXCEPT !.fifo = <<>>, !.sent = TRUE, !.line = @ \/ chip.dio = "sent"]
  /\ log' = [log EXCEPT !.aired = SubSeq(chip.fifo, 4, Len(chip.fifo))]
  /\ UNCHANGED <<drv, pc>>

Next ==
  \/ \E len \in Lengths : Send(len)
  \/ Standby \/ InStandby \/ FillFifo \/ Transmit \/ Transmitting \/ PacketSent
  \/ Listen \/ Listening \/ Polled \/ Copy \/ Clear \/ Header
  \/ HandleInterrupt
  \/ \E len \in Lengths, mine \in BOOLEAN : Hear(len, mine)
  \/ \E good \in BOOLEAN : Received(good)
  \/ Transmitted

\* What is fair: the program polls.
Program ==
  \/ Standby \/ InStandby \/ FillFifo \/ Transmit \/ Transmitting \/ PacketSent
  \/ Listen \/ Listening \/ Polled \/ Copy \/ Clear \/ Header

-----------------------------------------------------------------------------
\* A message goes out as it was given to send, unless the FIFO it was written to
\* still held the rest of a packet for somebody else (see README).
SentWhole == log.late \/ Whole(log.aired)

\* recv returns one frame, never parts of two and never what was sent. The
\* headers are its own or those of a later frame.
GotWhole ==
  log.got # <<>> =>
    LET d == log.got[1]
    IN  Whole(d) /\ (d # <<>> => (d[1][1].of = "air" /\ d[1][1].n <= log.got[2].n))

Sending == pc.at \in {"send", "wait"}

\* It receives, and will be interrupted.
Hears == (chip.mode = "rx" /\ ~chip.ready) \/ drv.valid
=============================================================================
