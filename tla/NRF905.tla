------------------------------- MODULE NRF905 -------------------------------
(***************************************************************************)
(* RadioHead's driver of the NRF905 transceiver, which is polled like the  *)
(* NRF24 but keeps one frame, has one flag, data ready, for both           *)
(* directions, and sends the length of the data within the frame.          *)
(***************************************************************************)
EXTENDS Driver

\* The chip-enable and transmit-enable pins. Data ready falls when a mode ends.
OpMode(c, m) == [c EXCEPT !.mode = m, !.ready = @ /\ m = c.mode]

Init ==
  /\ drv = [mode |-> "idle", buf |-> <<>>, len |-> 0, header |-> None, valid |-> FALSE]
  /\ chip = [mode |-> "idle", frame |-> None, ready |-> FALSE]
  /\ pc = [at |-> "idle"]
  /\ log = NoLog

\* send, after which the caller waits whatever it returned.
Send(len) ==
  /\ pc.at = "idle" /\ log.asked.n < MaxFrames
  /\ LET m == Asked(len)
     IN  IF len > MaxLen
         THEN /\ log' = [log EXCEPT !.asked = m]
              /\ UNCHANGED <<drv, chip>>
         ELSE /\ log' = [log EXCEPT !.asked = m, !.late = @ \/ drv.valid]
              /\ drv' = [drv EXCEPT !.buf = Over(@, Bytes(m)), !.mode = "tx"]
              /\ chip' = [OpMode(chip, "tx") EXCEPT !.frame = m]
  /\ Goto("wait")

IsSending == drv.mode = "tx" /\ ~chip.ready

PacketSent ==
  /\ pc.at = "wait" /\ ~IsSending
  /\ IF drv.mode # "tx" THEN UNCHANGED <<drv, chip>>
     ELSE /\ chip' = OpMode(chip, "idle")
          /\ drv' = [drv EXCEPT !.mode = "idle"]
  /\ Goto("idle")
  /\ UNCHANGED log

\* recv, at its available
Listen ==
  /\ pc.at = "idle"
  /\ IF drv.valid
     THEN Goto("recv") /\ UNCHANGED <<drv, chip>>
     ELSE /\ Goto("poll")
          /\ chip' = OpMode(chip, "rx")
          /\ drv' = [drv EXCEPT !.mode = "rx"]
  /\ UNCHANGED log

\* validateRxBuf
Valid(f) == f.len <= MaxLen /\ f.mine

Available ==
  /\ pc.at = "poll"
  /\ IF ~chip.ready
     THEN Goto("idle") /\ UNCHANGED <<drv, chip>>
     ELSE LET f == chip.frame
              b == [drv EXCEPT !.buf = Over(@, Bytes(f))]
              read == [chip EXCEPT !.ready = FALSE]
          IN  /\ IF Valid(f)
                 THEN /\ drv' = [b EXCEPT !.valid = TRUE, !.mode = "idle",
                                          !.len = f.len, !.header = f]
                      /\ chip' = OpMode(read, "idle")
                 ELSE drv' = b /\ chip' = read
              /\ Goto(IF Valid(f) THEN "recv" ELSE "idle")
  /\ UNCHANGED log

\* recv copies and clears; recvfrom takes the headers.
Recv ==
  /\ pc.at = "recv"
  /\ log' = [log EXCEPT !.got = <<SubSeq(drv.buf, 1, drv.len), drv.header, log.late>>,
                         !.late = FALSE]
  /\ drv' = [drv EXCEPT !.valid = FALSE, !.len = 0]
  /\ Goto("idle")
  /\ UNCHANGED chip

-----------------------------------------------------------------------------
(* The chip *)

Received(len, mine) ==
  /\ chip.mode = "rx" /\ ~chip.ready /\ log.heard < MaxFrames
  /\ chip' = [chip EXCEPT !.frame = Heard(len, mine), !.ready = TRUE]
  /\ log' = [log EXCEPT !.heard = @ + 1]
  /\ UNCHANGED <<drv, pc>>

Transmitted ==
  /\ chip.mode = "tx" /\ ~chip.ready
  /\ chip' = [chip EXCEPT !.ready = TRUE]
  /\ log' = [log EXCEPT !.aired = Bytes(chip.frame)]
  /\ UNCHANGED <<drv, pc>>

Next ==
  \/ \E len \in Lengths : Send(len)
  \/ PacketSent \/ Listen \/ Available \/ Recv
  \/ \E len \in Lengths, mine \in BOOLEAN : Received(len, mine)
  \/ Transmitted

\* What is fair: the program polls.
Program == PacketSent \/ Listen \/ Available \/ Recv

-----------------------------------------------------------------------------
\* A message goes out as it was given to send.
SentWhole == Whole(log.aired)

\* recv returns one frame and its headers, unless something was sent while it
\* was unread: both share the buffer.
GotWhole == (log.got # <<>> /\ ~log.got[3]) => log.got[1] = Bytes(log.got[2])

Sending == pc.at = "wait"

Hears == chip.mode = "rx" \/ drv.valid
=============================================================================
