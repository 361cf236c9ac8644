------------------------------ MODULE MCDrivers ------------------------------
(***************************************************************************)
(* The five drivers of RHGenericDriver's interface, one of which a node    *)
(* has, held to the same promises.                                         *)
(***************************************************************************)
EXTENDS Driver

CONSTANTS Fifo, RxAlmost, Noise, Looks, Me, MaxFaults

\* RH_RF22_MAX_MESSAGE_LEN is below RH_RF22_RXFFAFULL_THRESHOLD: what makes the
\* receiver's FIFO almost full has no room in the buffer.
ASSUME RadioAssumption == RxAlmost \in Nat /\ MaxLen < RxAlmost

VARIABLE kind  \* the driver this node has

\* Messages on the serial line: an address, and data that looks like a frame.
Messages == {<<"DLE">>, <<"DLE", "STX">>, <<"x", "DLE">>, <<"DLE", "x", "x">>}

R22 == INSTANCE RF22
R69 == INSTANCE RF69
N24 == INSTANCE NRF24
N905 == INSTANCE NRF905
\* The frame after the damaged one and the next: one more than elsewhere.
Ser == INSTANCE SerialLine WITH MaxFrames <- MaxFrames + 1

all == <<driver, kind>>

AnyInit ==
  \/ kind = "rf22" /\ R22!Init
  \/ kind = "rf69" /\ R69!Init
  \/ kind = "nrf24" /\ N24!Init
  \/ kind = "nrf905" /\ N905!Init
  \/ kind = "serial" /\ Ser!Init

AnyNext ==
  /\ \/ kind = "rf22" /\ R22!Next
     \/ kind = "rf69" /\ R69!Next
     \/ kind = "nrf24" /\ N24!Next
     \/ kind = "nrf905" /\ N905!Next
     \/ kind = "serial" /\ Ser!Next
  /\ UNCHANGED kind

Program ==
  /\ \/ kind = "rf22" /\ R22!Program
     \/ kind = "rf69" /\ R69!Program
     \/ kind = "nrf24" /\ N24!Program
     \/ kind = "nrf905" /\ N905!Program
  /\ UNCHANGED kind

Interrupt ==
  /\ \/ kind = "rf22" /\ R22!HandleInterrupt
     \/ kind = "rf69" /\ R69!HandleInterrupt
  /\ UNCHANGED kind

Transmits ==
  /\ \/ kind = "rf22" /\ R22!Transmits
     \/ kind = "rf69" /\ R69!Transmitted
     \/ kind = "nrf24" /\ N24!Transmitted
     \/ kind = "nrf905" /\ N905!Transmitted
  /\ UNCHANGED kind

\* The main program goes on, the chip transmits and interrupts are taken.
AnySpec ==
  /\ AnyInit /\ [][AnyNext]_all
  /\ WF_all(Program) /\ WF_all(Interrupt) /\ WF_all(Transmits)

\* What goes over the air is one message as it was given to send, its bytes in
\* order, none missing and none of another message; with RH_RF22 until a flag
\* of the receiver has come up while the transmitter was being loaded, with
\* RH_RF69 until a message was written behind the rest of a received packet.
SentWhole ==
  CASE kind = "rf22" -> R22!SentWhole
    [] kind = "rf69" -> R69!SentWhole
    [] kind = "nrf24" -> N24!SentWhole
    [] kind = "nrf905" -> N905!SentWhole
    [] OTHER -> TRUE

\* What recv returns is one frame that was received, never parts of two, though
\* flags are raised and frames arrive between the check for a message, its copying
\* and the reading of its headers. Left out are, with RH_RF22, everything after a
\* flag that came up while the transmitter was being loaded and, with the drivers
\* of one buffer, a message over which another was sent.
GotWhole ==
  CASE kind = "rf22" -> R22!GotWhole
    [] kind = "rf69" -> R69!GotWhole
    [] kind = "nrf24" -> N24!GotWhole
    [] kind = "nrf905" -> N905!GotWhole
    [] kind = "serial" -> Ser!GotWhole

\* A program that sends and waits for the packet to be sent goes on, though what
\* ends its wait is done by the interrupt handler or the chip.
Sending ==
  CASE kind = "rf22" -> R22!Sending
    [] kind = "rf69" -> R69!Sending
    [] kind = "nrf24" -> N24!Sending
    [] kind = "nrf905" -> N905!Sending
    [] OTHER -> FALSE

SendEnds == Sending ~> ~Sending

\* The node never becomes deaf: again and again its receiver is on, or a message
\* is waiting to be read, whatever it sends and whatever bad frames it hears. Only
\* RH_NRF24 does, when its send has refused a message while the chip is off and
\* its caller waits in waitPacketSent, for ever.
Hears ==
  CASE kind = "rf22" -> R22!Hears
    [] kind = "rf69" -> R69!Hears
    [] kind = "nrf24" -> N24!Hears
    [] kind = "nrf905" -> N905!Hears
    [] OTHER -> TRUE

Deaf == kind = "nrf24" /\ N24!Stuck

Listens == []<>Hears \/ <>[]Deaf

\* After bytes lost or damaged the serial receiver finds a frame again and
\* returns it whole: the second after the damage, or the first that follows a
\* frame whose end did not look like a start.
Recovers == [][kind = "serial" => Ser!Recovered]_all
=============================================================================
