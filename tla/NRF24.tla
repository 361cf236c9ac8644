-------------------------------- MODULE NRF24 --------------------------------
(***************************************************************************)
(* RadioHead's driver of the NRF24 transceiver, which is polled: nothing   *)
(* interrupts the main program, the chip goes on between its steps. One    *)
(* buffer serves both directions; its length is that of the last received  *)
(* message. The chip keeps up to three received frames.                    *)
(***************************************************************************)
EXTENDS Driver

OpMode(c, m) == [c EXCEPT !.mode = m]

Init ==
  /\ drv = [mode |-> "idle", buf |-> <<>>, len |-> 0, header |-> None, valid |-> FALSE]
  /\ chip = [mode |-> "off", rx |-> <<>>, tx |-> <<>>, sent |-> FALSE]
  /\ pc = [at |-> "idle"]
  /\ log = NoLog

\* send, after which the caller waits whatever it returned.
Send(len) ==
  /\ pc.at = "idle" /\ log.asked.n < MaxFrames
  /\ LET m == Asked(len)
     IN  IF len > MaxLen
         THEN /\ log' = [log EXCEPT !.asked = m]
              /\ UNCHANGED <<drv, chip>>
         ELSE /\ log' = [log EXCEPT !.asked = m, !.late = @ \/ drv.valid]
              /\ drv' = [drv EXCEPT !.buf = Over(@, Bytes(m)), !.mode = "tx"]
              /\ chip' = [OpMode(chip, "tx") EXCEPT !.tx = Append(@, m)]
  /\ Goto("wait")

\* waitPacketSent asks the chip whether it receives.
IsSending == chip.mode # "rx" /\ ~chip.sent

PacketSent ==
  /\ pc.at = "wait" /\ ~IsSending
  /\ IF chip.mode = "rx" THEN UNCHANGED <<drv, chip>>
     ELSE /\ chip' = [OpMode(chip, "off") EXCEPT !.sent = FALSE]
          /\ drv' = [drv EXCEPT !.mode = "idle"]
  /\ Goto("idle")
  /\ UNCHANGED log

\* recv, at its available
Listen ==
  /\ pc.at = "idle"
  /\ IF drv.valid
     THEN Goto("recv") /\ UNCHANGED <<drv, chip>>
     ELSE /\ Goto("poll")
          /\ chip' = OpMode(chip, "rx")
          /\ drv' = [drv EXCEPT !.mode = "rx"]
  /\ UNCHANGED log

\* Everything is discarded when a length cannot be.
Discard ==
  /\ pc.at = "poll" /\ chip.rx # <<>> /\ Head(chip.rx).len > MaxLen
  /\ drv' = [drv EXCEPT !.len = 0, !.mode = "idle"]
  /\ chip' = [OpMode(chip, "off") EXCEPT !.rx = <<>>]
  /\ Goto("idle")
  /\ UNCHANGED log

\* The frame goes to the buffer; validateRxBuf looks at its address.
Available ==
  /\ pc.at = "poll"
  /\ IF chip.rx = <<>>
     THEN Goto("idle") /\ UNCHANGED <<drv, chip>>
     ELSE LET f == Head(chip.rx)
              read == [chip EXCEPT !.rx = Tail(@)]
              b == [drv EXCEPT !.buf = Over(@, Bytes(f)), !.len = f.len, !.header = f]
          IN  /\ f.len <= MaxLen
              /\ IF f.mine
                 THEN /\ drv' = [b EXCEPT !.valid = TRUE, !.mode = "idle"]
                      /\ chip' = OpMode(read, "off")
                 ELSE drv' = b /\ chip' = read
              /\ Goto(IF f.mine THEN "recv" ELSE "idle")
  /\ UNCHANGED log

\* recv copies and clears; recvfrom takes the headers.
Recv ==
  /\ pc.at = "recv"
  /\ log' = [log EXCEPT !.got = <<SubSeq(drv.buf, 1, drv.len), drv.header, log.late>>,
                         !.late = FALSE]
  /\ drv' = [drv EXCEPT !.valid = FALSE, !.len = 0]
  /\ Goto("idle")
  /\ UNCHANGED chip

-----------------------------------------------------------------------------
(* The chip *)

Received(len, mine) ==
  /\ chip.mode = "rx" /\ Len(chip.rx) < 3 /\ log.heard < MaxFrames
  /\ chip' = [chip EXCEPT !.rx = Append(@, Heard(len, mine))]
  /\ log' = [log EXCEPT !.heard = @ + 1]
  /\ UNCHANGED <<drv, pc>>

Transmitted ==
  /\ chip.mode = "tx" /\ chip.tx # <<>>
  /\ chip' = [chip EXCEPT !.tx = Tail(@), !.sent = TRUE]
  /\ log' = [log EXCEPT !.aired = Bytes(Head(chip.tx))]
  /\ UNCHANGED <<drv, pc>>

Next ==
  \/ \E len \in Lengths : Send(len)
  \/ PacketSent \/ Listen \/ Discard \/ Available \/ Recv
  \/ \E len \in Lengths, mine \in BOOLEAN : Received(len, mine)
  \/ Transmitted

\* What is fair: the program polls.
Program == PacketSent \/ Listen \/ Discard \/ Available \/ Recv

-----------------------------------------------------------------------------
\* A message goes out as it was given to send.
SentWhole == Whole(log.aired)

\* recv returns one frame and its headers, unless something was sent while it
\* was unread: both share the buffer.
GotWhole == (log.got # <<>> /\ ~log.got[3]) => log.got[1] = Bytes(log.got[2])

\* A send was refused while the chip was off: waitPacketSent waits for ever.
Stuck == pc.at = "wait" /\ log.asked.len > MaxLen /\ chip.mode = "off"

Sending == pc.at = "wait" /\ ~Stuck

Hears == chip.mode = "rx" \/ drv.valid
=============================================================================
