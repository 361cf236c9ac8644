----------------------------- MODULE SerialLine -----------------------------
(***************************************************************************)
(* RadioHead's RH_Serial between two nodes: frames on a serial line, their *)
(* bytes stuffed, and the receiver's state machine, which is to find the   *)
(* next frame after bytes have been lost or damaged.                       *)
(*                                                                         *)
(* The CRC is ideal: it is right for the bytes it was computed from and    *)
(* for no others. Its two bytes may look like any others. The four headers *)
(* are one byte. The bound on frames is on those sent.                     *)
(***************************************************************************)
EXTENDS Driver, SequencesExt

CONSTANTS
  Messages,   \* what may be sent: a header, the address, and data
  Noise,      \* what a damaged byte may be
  Looks,      \* what a byte of a CRC may be equal to
  Me,         \* address of the receiver
  MaxFaults   \* bound: bytes lost or damaged

DLE == "DLE"
STX == "STX"
ETX == "ETX"

Byte(b) == [is |-> b, fcs |-> <<>>]
FcsBytes(d, hi, lo) == <<[is |-> hi, fcs |-> <<d, "hi">>], [is |-> lo, fcs |-> <<d, "lo">>]>>

-----------------------------------------------------------------------------
(* send *)

\* txData for each byte
Stuffed(d) == FlattenSeq([i \in DOMAIN d |-> IF d[i] = DLE THEN <<DLE, DLE>> ELSE <<d[i]>>])

Covered(d) == d \o <<DLE, ETX>>

Frame(d, hi, lo) ==
  LET body == <<DLE, STX>> \o Stuffed(d) \o <<DLE, ETX>>
  IN  [i \in DOMAIN body |-> Byte(body[i])] \o FcsBytes(Covered(d), hi, lo)

\* The two bytes of the CRC are not stuffed: to a receiver that has lost the
\* frame they are a start, or the first byte of one.
Misleads(hi, lo) == lo = DLE \/ (hi = DLE /\ lo = STX)

Init ==
  /\ drv = [state |-> "Idle", buf |-> <<>>, fcs |-> <<>>, recd |-> <<>>, valid |-> FALSE]
  /\ chip = <<>>
  /\ pc = [at |-> "idle"]
  /\ log = [sent |-> <<>>, misleads |-> <<FALSE, FALSE>>,
            hurt |-> <<FALSE, FALSE>>, faults |-> 0,
            got |-> <<>>]

Send(d, hi, lo) ==
  /\ chip = <<>> /\ Len(log.sent) < MaxFrames
  /\ chip' = Frame(d, hi, lo)
  /\ log' = [log EXCEPT !.sent = Append(@, d), !.hurt = <<@[2], FALSE>>,
                         !.misleads = <<@[2], Misleads(hi, lo)>>]
  /\ UNCHANGED <<drv, pc>>

-----------------------------------------------------------------------------
(* handleRx *)

\* Mutant of ClearRxBuf: the FCS is not reset.
ClearRxBufFcsKept(r) == [r EXCEPT !.valid = FALSE, !.buf = <<>>]

ClearRxBuf(r) == [r EXCEPT !.valid = FALSE, !.fcs = <<>>, !.buf = <<>>]

AppendRxBuf(r, b) ==
  IF Len(r.buf) < MaxLen THEN [r EXCEPT !.buf = Append(@, b), !.fcs = Append(@, b)] ELSE r

ValidateRxBuf(r) ==
  IF /\ r.recd = <<<<r.fcs, "hi">>, <<r.fcs, "lo">>>>
     /\ r.buf # <<>> /\ r.buf[1] = Me
  THEN [r EXCEPT !.valid = TRUE] ELSE r

To(r, s) == [r EXCEPT !.state = s]

Handled(r, c) ==
  LET b == c.is
  IN  CASE r.state = "Idle" -> IF b = DLE THEN To(r, "DLE") ELSE r
        [] r.state = "DLE" -> IF b = STX THEN To(ClearRxBuf(r), "Data") ELSE To(r, "Idle")
        [] r.state = "Data" -> IF b = DLE THEN To(r, "Escape") ELSE AppendRxBuf(r, b)
        [] r.state = "Escape" ->
             (CASE b = ETX -> [To(r, "Fcs1") EXCEPT !.fcs = Covered(@)]
                [] b = DLE -> To(AppendRxBuf(r, b), "Data")
                [] OTHER -> To(r, "Idle"))
        [] r.state = "Fcs1" -> [To(r, "Fcs2") EXCEPT !.recd = <<c.fcs>>]
        [] r.state = "Fcs2" -> ValidateRxBuf([To(r, "Idle") EXCEPT !.recd = Append(@, c.fcs)])

\* available reads what has arrived.
Available ==
  /\ pc.at = "idle"
  /\ pc' = [at |-> "read"]
  /\ UNCHANGED <<drv, chip, log>>

HandleRx ==
  /\ pc.at = "read" /\ chip # <<>>
  /\ drv' = Handled(drv, Head(chip))
  /\ chip' = Tail(chip)
  /\ UNCHANGED <<pc, log>>

\* recv, when available has read everything
Recv ==
  /\ pc.at = "read"
  /\ IF drv.valid
     THEN /\ log' = [log EXCEPT !.got = <<drv.buf>>]
          /\ drv' = ClearRxBuf(drv)
     ELSE UNCHANGED <<drv, log>>
  /\ pc' = [at |-> "idle"]
  /\ UNCHANGED chip

\* The next byte to arrive is lost or damaged.
Fault(b) ==
  /\ chip # <<>> /\ log.faults < MaxFaults
  /\ log' = [log EXCEPT !.faults = @ + 1, !.hurt[2] = TRUE]
  /\ chip' = IF b = "lost" THEN Tail(chip)
             ELSE <<Byte(b)>> \o Tail(chip)
  /\ UNCHANGED <<drv, pc>>

Next ==
  \/ \E d \in Messages, hi, lo \in Looks : Send(d, hi, lo)
  \/ Available \/ HandleRx \/ Recv
  \/ \E b \in Noise \cup {"lost"} : Fault(b)

-----------------------------------------------------------------------------
\* recv returns a message that was sent, whole.
GotWhole == log.got # <<>> => \E k \in DOMAIN log.sent : log.got[1] = log.sent[k]

\* The receiver has taken a legal message to its end, and it and the one before
\* were neither damaged nor ended in what looks like the start of a frame: then
\* it holds that message, whatever had happened before.
Intact ==
  /\ HandleRx /\ Tail(chip) = <<>>
  /\ log.hurt = <<FALSE, FALSE>> /\ ~log.misleads[1]
  /\ Last(log.sent)[1] = Me /\ Len(Last(log.sent)) <= MaxLen

Recovered == Intact => drv'.valid /\ drv'.buf = Last(log.sent)
=============================================================================
