----------------------------- MODULE RadioNode -----------------------------
(***************************************************************************)
(* The interrupt-driven core of a node, Sensorino/Sensorino.cpp with the   *)
(* driver of mini-radiohead.cpp below it: packets that arrive in the       *)
(* nRF24's receive FIFO, the level-triggered GPIO interrupt that fetches   *)
(* them, messages sent from handlers, from timers and from the sketch, and *)
(* the counter radioBusy that is to keep them apart.                       *)
(*                                                                         *)
(* Each context (the main program, the one interrupt that may be active)   *)
(* has a stack of frames; a frame is the next thing its function does.     *)
(* What a packet or message says is left out: a handler may or may not     *)
(* answer, a message may or may not trigger a rule that sends another.     *)
(***************************************************************************)
EXTENDS Integers, Sequences

CONSTANTS
  FifoSize,    \* packets the chip can hold
  MaxDepth,    \* bound: frames on a stack, where recursion stops
  MaxPackets,  \* bound: packets that arrive
  MaxTimers,   \* bound: timer callbacks that send a message
  MainOps      \* what the sketch's main program does after the constructor

ASSUME BoundsAssumption ==
  /\ FifoSize \in Nat \ {0}
  /\ MaxDepth \in Nat /\ MaxPackets \in Nat /\ MaxTimers \in Nat
  /\ MainOps \subseteq {"send", "setAddress", "radioRun"}

VARIABLES
  I,          \* interrupts enabled in the main program
  attached,   \* the pin change interrupt of the radio's IRQ pin is enabled
  PCIF,       \* and pending
  fifo, RX_DR,        \* the chip: packets held and the status bit for them
  PRIM_RX, EN_RXADDR, \* receiver, not transmitter; the pipe that listens: 1 for
                      \* messages, 0 for acknowledgements
  CE,                 \* the pin that turns receiver or transmitter on
  in_rx,      \* nrf24_in_rx
  radioBusy,
  stack,      \* the frames of each context, innermost last
  packets, timers,    \* arrivals and timer callbacks so far
  cut         \* whether an interrupt cut into what the main program last did with
              \* the chip, and no send or setAddress was begun since

mode == <<PRIM_RX, EN_RXADDR, CE>>
chip == <<fifo, RX_DR, mode>>
irq == <<I, attached, PCIF>>
vars == <<irq, chip, in_rx, radioBusy, stack, packets, timers, cut>>

Contexts == {"main", "isr"}

\* Frames that talk to the chip or are about to, and the others.
ChipFrames == {"available", "read", "clear", "more",
               "rxMode", "rxConfig", "rxPipe", "rxCe", "rxOn",
               "txMode", "idle", "rxOff", "rxKeep", "txConfig", "txPipe", "payload",
               "txCe", "result", "txDone", "rxAddr"}
PlainFrames == {"attach", "sei", "level", "handler", "handle", "checked",
                "fragment", "eval", "sent"}
Frames == ChipFrames \cup PlainFrames

Active == IF stack["isr"] = <<>> THEN "main" ELSE "isr"
Depth(c) == Len(stack[c])
Top(c) == stack[c][Depth(c)]
Below(c) == SubSeq(stack[c], 1, Depth(c) - 1)

Inside(c, f) == c = Active /\ stack[c] # <<>> /\ Top(c) = f

\* The frame on top of c is done, and the frames s take its place.
Become(c, s) == stack' = [stack EXCEPT ![c] = Below(c) \o s]

\* The chip takes packets that are sent to the node.
Receiving == PRIM_RX /\ EN_RXADDR = 1 /\ CE

\* IRQ is low while RX_DR is set; each edge is a pin change.
Edge == PCIF' = (PCIF \/ (attached /\ RX_DR' # RX_DR))

-----------------------------------------------------------------------------
(* The constructor has initialised the radio and entered radioOpDone; *)
(* interrupts are still disabled.                                     *)
Init ==
  /\ I = FALSE /\ attached = FALSE /\ PCIF = FALSE
  /\ fifo = 0 /\ RX_DR = FALSE
  /\ PRIM_RX = TRUE /\ EN_RXADDR = 1 /\ CE = TRUE
  /\ in_rx = TRUE
  /\ radioBusy = 0
  /\ stack = [c \in Contexts |->
               IF c = "main" THEN <<"attach", "available">> ELSE <<>>]
  /\ packets = 0 /\ timers = 0
  /\ cut = FALSE

-----------------------------------------------------------------------------
(* The chip *)

PacketArrives ==
  /\ Receiving /\ fifo < FifoSize /\ packets < MaxPackets
  /\ fifo' = fifo + 1
  /\ packets' = packets + 1
  /\ RX_DR' = TRUE
  /\ Edge
  /\ UNCHANGED <<I, attached, mode, in_rx, radioBusy, stack, timers, cut>>

-----------------------------------------------------------------------------
(* radioOpDone and radioCheckPacket *)

\* Mutant of DrainFrames: one packet for each call, "if" for "while".
DrainFramesOnce == <<"read">>

DrainFrames == <<"available", "read">>

\* while (available()): a packet is there ...
Available(c) ==
  /\ Inside(c, "available") /\ fifo > 0
  /\ radioBusy' = radioBusy + 1
  /\ Become(c, DrainFrames)
  /\ UNCHANGED <<irq, chip, in_rx, packets, timers, cut>>

\* ... or available() makes sure the chip receives, and the loop ends.
NotAvailable(c) ==
  /\ Inside(c, "available") /\ fifo = 0
  /\ Become(c, <<"rxMode">>)
  /\ UNCHANGED <<irq, chip, in_rx, radioBusy, packets, timers, cut>>

\* recvfromAck reads the payload first and clears RX_DR after it.
Read(c) ==
  /\ Inside(c, "read") /\ fifo > 0
  /\ fifo' = fifo - 1
  /\ Become(c, <<"clear">>)
  /\ UNCHANGED <<irq, RX_DR, mode, in_rx, radioBusy, packets, timers, cut>>

\* available(), which recvfromAck calls, found nothing.
ReadNothing(c) ==
  /\ Inside(c, "read") /\ fifo = 0
  /\ Become(c, <<"checked", "rxMode">>)
  /\ UNCHANGED <<irq, chip, in_rx, radioBusy, packets, timers, cut>>

\* The packet was the last fragment of a message, or more are to come.
Clear(c) ==
  /\ Inside(c, "clear")
  /\ RX_DR' = FALSE
  /\ Edge
  /\ \E f \in {"handle", "more"} : Become(c, <<f>>)
  /\ UNCHANGED <<I, attached, fifo, mode, in_rx, radioBusy, packets, timers, cut>>

\* The wait for the next fragment, which asks available() again and again, ends with
\* a fragment or with its timeout; either way recvfromAck is called again.
More(c) ==
  /\ Inside(c, "more")
  /\ Become(c, IF fifo > 0 THEN <<"read">> ELSE <<"read", "rxMode">>)
  /\ UNCHANGED <<irq, chip, in_rx, radioBusy, packets, timers, cut>>

\* handleMessage: the service, or the lack of one, sends a message or not.
Handle(c) ==
  /\ Inside(c, "handle")
  /\ \/ Become(c, <<"checked">>) /\ UNCHANGED radioBusy
     \/ /\ Depth(c) < MaxDepth
        /\ Become(c, <<"checked", "txMode">>)
        /\ radioBusy' = radioBusy + 1
  /\ UNCHANGED <<irq, chip, in_rx, packets, timers, cut>>

Release == radioBusy' = radioBusy - 1

Checked(c) ==
  /\ Inside(c, "checked")
  /\ Release
  /\ Become(c, <<>>)
  /\ UNCHANGED <<irq, chip, in_rx, packets, timers, cut>>

-----------------------------------------------------------------------------
(* nrf24_rx_mode and nrf24_idle_mode, one access to the chip or to nrf24_in_rx at a *)
(* time: in the main program interrupts may come between them.                     *)

RxMode(c) ==
  /\ Inside(c, "rxMode")
  /\ Become(c, IF in_rx THEN <<>> ELSE <<"rxConfig">>)
  /\ UNCHANGED <<irq, chip, in_rx, radioBusy, packets, timers, cut>>

RxConfig(c) ==
  /\ Inside(c, "rxConfig")
  /\ PRIM_RX' = TRUE
  /\ Become(c, <<"rxPipe">>)
  /\ UNCHANGED <<irq, fifo, RX_DR, EN_RXADDR, CE, in_rx, radioBusy, packets, timers, cut>>

RxPipe(c) ==
  /\ Inside(c, "rxPipe")
  /\ EN_RXADDR' = 1
  /\ Become(c, <<"rxCe">>)
  /\ UNCHANGED <<irq, fifo, RX_DR, PRIM_RX, CE, in_rx, radioBusy, packets, timers, cut>>

RxCe(c) ==
  /\ Inside(c, "rxCe")
  /\ CE' = TRUE
  /\ Become(c, <<"rxOn">>)
  /\ UNCHANGED <<irq, fifo, RX_DR, PRIM_RX, EN_RXADDR, in_rx, radioBusy, packets, timers, cut>>

RxOn(c) ==
  /\ Inside(c, "rxOn")
  /\ in_rx' = TRUE
  /\ Become(c, <<>>)
  /\ UNCHANGED <<irq, chip, radioBusy, packets, timers, cut>>

\* Standby: out of reception, or from power-down.
Idle(c) ==
  /\ Inside(c, "idle")
  /\ \/ in_rx /\ CE' = FALSE /\ UNCHANGED PRIM_RX
     \/ ~in_rx /\ PRIM_RX' = FALSE /\ UNCHANGED CE
  /\ Become(c, <<"rxOff">>)
  /\ UNCHANGED <<irq, fifo, RX_DR, EN_RXADDR, in_rx, radioBusy, packets, timers, cut>>

RxOff(c) ==
  /\ Inside(c, "rxOff")
  /\ in_rx' = FALSE
  /\ Become(c, <<>>)
  /\ UNCHANGED <<irq, chip, radioBusy, packets, timers, cut>>

-----------------------------------------------------------------------------
(* sendMessage *)

\* update_tx_addr, and the start of nrf24_tx: nrf24_in_rx remembers to come back.
TxMode(c) ==
  /\ Inside(c, "txMode")
  /\ Become(c, IF in_rx THEN <<"txConfig", "rxKeep", "idle">> ELSE <<"txConfig">>)
  /\ UNCHANGED <<irq, chip, in_rx, radioBusy, packets, timers, cut>>

RxKeep(c) ==
  /\ Inside(c, "rxKeep")
  /\ in_rx' = TRUE
  /\ Become(c, <<>>)
  /\ UNCHANGED <<irq, chip, radioBusy, packets, timers, cut>>

TxConfig(c) ==
  /\ Inside(c, "txConfig")
  /\ PRIM_RX' = FALSE
  /\ Become(c, <<"txPipe">>)
  /\ UNCHANGED <<irq, fifo, RX_DR, EN_RXADDR, CE, in_rx, radioBusy, packets, timers, cut>>

TxPipe(c) ==
  /\ Inside(c, "txPipe")
  /\ EN_RXADDR' = 0
  /\ Become(c, <<"payload">>)
  /\ UNCHANGED <<irq, fifo, RX_DR, PRIM_RX, CE, in_rx, radioBusy, packets, timers, cut>>

Payload(c) ==
  /\ Inside(c, "payload")
  /\ Become(c, <<"txCe">>)
  /\ UNCHANGED <<irq, chip, in_rx, radioBusy, packets, timers, cut>>

TxCe(c) ==
  /\ Inside(c, "txCe")
  /\ CE' = TRUE
  /\ Become(c, <<"result">>)
  /\ UNCHANGED <<irq, fifo, RX_DR, PRIM_RX, EN_RXADDR, in_rx, radioBusy, packets, timers, cut>>

\* CE is reset early; then the message is acknowledged, out of retries or timed out,
\* and its status bits, which raise no interrupt, are cleared.
Result(c) ==
  /\ Inside(c, "result")
  /\ CE' = FALSE
  /\ Become(c, <<"txDone">>)
  /\ UNCHANGED <<irq, fifo, RX_DR, PRIM_RX, EN_RXADDR, in_rx, radioBusy, packets, timers, cut>>

\* Mutant of FramesAfterTx: nrf24_in_rx is still set when nrf24_rx_mode looks at it.
FramesAfterTxIdle == IF in_rx THEN <<"fragment", "rxMode">> ELSE <<"fragment">>

FramesAfterTx == IF in_rx THEN <<"fragment", "rxMode", "rxOff">> ELSE <<"fragment">>

TxDone(c) ==
  /\ Inside(c, "txDone")
  /\ Become(c, FramesAfterTx)
  /\ UNCHANGED <<irq, chip, in_rx, radioBusy, packets, timers, cut>>

\* The message has another fragment, or this was the last or it failed.
Fragment(c) ==
  /\ Inside(c, "fragment")
  /\ \E f \in {"txMode", "eval"} : Become(c, <<f>>)
  /\ UNCHANGED <<irq, chip, in_rx, radioBusy, packets, timers, cut>>

\* evalPublish: a rule may run an action that sends, and so on.
Eval(c) ==
  /\ Inside(c, "eval")
  /\ \/ Become(c, <<"sent">>) /\ UNCHANGED radioBusy
     \/ /\ Depth(c) < MaxDepth
        /\ Become(c, <<"sent", "txMode">>)
        /\ radioBusy' = radioBusy + 1
  /\ UNCHANGED <<irq, chip, in_rx, packets, timers, cut>>

Sent(c) ==
  /\ Inside(c, "sent")
  /\ Release
  /\ Become(c, IF radioBusy' = 0 THEN <<"available">> ELSE <<>>)
  /\ UNCHANGED <<irq, chip, in_rx, packets, timers, cut>>

-----------------------------------------------------------------------------
(* setAddress *)

RxAddr(c) ==
  /\ Inside(c, "rxAddr")
  /\ Become(c, <<"rxMode">>)
  /\ UNCHANGED <<irq, chip, in_rx, radioBusy, packets, timers, cut>>

-----------------------------------------------------------------------------
(* Interrupts *)

\* SensorinoGPIOISR for the radio's pin: the handler runs only if the pin is
\* still at its level.
GpioInterrupt ==
  /\ I /\ stack["isr"] = <<>> /\ PCIF
  /\ PCIF' = FALSE
  /\ stack' = [stack EXCEPT !["isr"] =
                 IF RX_DR THEN <<"level", "handler">> ELSE <<>>]
  /\ cut' = (cut \/ (RX_DR /\ stack["main"] # <<>>))
  /\ UNCHANGED <<I, attached, chip, in_rx, radioBusy, packets, timers>>

\* Mutant of HandlerFrames: the test of radioBusy is the wrong way round.
HandlerFramesInverted == IF radioBusy > 0 THEN <<"available">> ELSE <<>>

HandlerFrames == IF radioBusy > 0 THEN <<>> ELSE <<"available">>

\* radioInterrupt
Handler(c) ==
  /\ Inside(c, "handler")
  /\ Become(c, HandlerFrames)
  /\ UNCHANGED <<irq, chip, in_rx, radioBusy, packets, timers, cut>>

LevelFrames == IF RX_DR THEN <<"level", "handler">> ELSE <<>>

\* The loop goes on as long as the level is maintained.
Level(c) ==
  /\ Inside(c, "level")
  /\ Become(c, LevelFrames)
  /\ UNCHANGED <<irq, chip, in_rx, radioBusy, packets, timers, cut>>

\* A timer callback that sends: the initial announcement, a measurement.
TimerInterrupt ==
  /\ I /\ stack["isr"] = <<>> /\ timers < MaxTimers
  /\ timers' = timers + 1
  /\ radioBusy' = radioBusy + 1
  /\ stack' = [stack EXCEPT !["isr"] = <<"txMode">>]
  /\ cut' = (stack["main"] # <<>>)
  /\ UNCHANGED <<irq, chip, in_rx, packets>>

-----------------------------------------------------------------------------
(* The main program *)

\* The end of the constructor: the pin is attached and interrupts enabled.
Attach ==
  /\ Inside("main", "attach")
  /\ attached' = TRUE
  /\ I' = TRUE
  /\ Become("main", <<>>)
  /\ UNCHANGED <<PCIF, chip, in_rx, radioBusy, packets, timers, cut>>

MainIdle == stack["main"] = <<>> /\ stack["isr"] = <<>>

\* A message of the sketch's own, as sketch1 submits to handleMessage.
MainSend ==
  /\ "send" \in MainOps /\ MainIdle
  /\ stack' = [stack EXCEPT !["main"] = <<"txMode">>]
  /\ radioBusy' = radioBusy + 1
  /\ cut' = FALSE
  /\ UNCHANGED <<irq, chip, in_rx, packets, timers>>

MainSetAddress ==
  /\ "setAddress" \in MainOps /\ MainIdle
  /\ stack' = [stack EXCEPT !["main"] = <<"rxAddr", "idle">>]
  /\ cut' = FALSE
  /\ UNCHANGED <<irq, chip, in_rx, radioBusy, packets, timers>>

\* Mutant of CliInRadioRun: interrupts stay enabled.
CliInRadioRunNot == I' = I

CliInRadioRun == I' = FALSE

MainRadioRun ==
  /\ "radioRun" \in MainOps /\ MainIdle
  /\ CliInRadioRun
  /\ stack' = [stack EXCEPT !["main"] = <<"sei", "available">>]
  /\ UNCHANGED <<attached, PCIF, chip, in_rx, radioBusy, packets, timers, cut>>

Sei ==
  /\ Inside("main", "sei")
  /\ I' = TRUE
  /\ Become("main", <<>>)
  /\ UNCHANGED <<attached, PCIF, chip, in_rx, radioBusy, packets, timers, cut>>

-----------------------------------------------------------------------------
Step(c) ==
  \/ Available(c) \/ NotAvailable(c)
  \/ Read(c) \/ ReadNothing(c) \/ Clear(c) \/ More(c) \/ Handle(c) \/ Checked(c)
  \/ RxMode(c) \/ RxConfig(c) \/ RxPipe(c) \/ RxCe(c) \/ RxOn(c)
  \/ Idle(c) \/ RxOff(c) \/ RxAddr(c)
  \/ TxMode(c) \/ RxKeep(c) \/ TxConfig(c) \/ TxPipe(c) \/ Payload(c) \/ TxCe(c)
  \/ Result(c) \/ TxDone(c) \/ Fragment(c) \/ Eval(c) \/ Sent(c)
  \/ Handler(c) \/ Level(c)

Next ==
  \/ PacketArrives
  \/ GpioInterrupt \/ TimerInterrupt
  \/ \E c \in Contexts : Step(c)
  \/ Attach \/ Sei
  \/ MainSend \/ MainSetAddress \/ MainRadioRun

Spec == Init /\ [][Next]_vars

\* The processor runs: whichever context is active, and interrupts that are
\* pending and enabled.  A message has finitely many fragments and a cascade of
\* rules ends.
CodeRuns ==
  /\ WF_vars(GpioInterrupt)
  /\ WF_vars(TimerInterrupt)
  /\ \A c \in Contexts : WF_vars(Step(c))
  /\ WF_vars(Attach \/ Sei)
  /\ \A c \in Contexts : SF_vars(Fragment(c) /\ stack'[c] = Below(c) \o <<"eval">>)
  /\ \A c \in Contexts : SF_vars(Eval(c) /\ radioBusy' = radioBusy)

FairSpec == Spec /\ CodeRuns

-----------------------------------------------------------------------------
InUse(c) == \E i \in DOMAIN stack[c] : stack[c][i] \in ChipFrames

\* The main program sends, or sets the address, with interrupts enabled: what
\* the interrupt may then find is not covered by the next property.
MainMeddles == stack["main"] # <<>> /\ stack["main"][1] \notin {"attach", "sei"}

\* radioOpDone (Sensorino.cpp:93-94): "The NRF24L01+ must be idle (e.g. not
\* transmitting an ACK or anything) when this is called".  The interrupt is
\* inside it only while the main program is not in the middle of a use of the
\* chip; so there are never two SPI transactions at once either.
ChipIdleInOpDone == MainMeddles \/ ~(InUse("isr") /\ InUse("main"))

\* Whenever no flow uses the radio, the chip receives (Sensorino.cpp:87-94), unless
\* an interrupt cut into a send or setAddress of the main program: between the writes
\* of nrf24_rx_mode that leaves the chip a transmitter which the driver takes for a
\* receiver (mini-radiohead.cpp:229-235).  Whatever it was left in, the next message
\* that is sent, or address that is set, without an interrupt puts it right.
ReceivesWhenIdle ==
  stack = [c \in Contexts |-> <<>>] /\ ~cut => Receiving /\ in_rx

\* Every packet is fetched in the end, also one that arrived while RX_DR was
\* being cleared or before the pin was attached.
Drained == fifo > 0 ~> fifo = 0 \/ MainMeddles

\* The GPIO interrupt comes to an end and gives the processor back.
InterruptReturns == stack["isr"] # <<>> ~> stack["isr"] = <<>> \/ MainMeddles

\* The handler leaves an interrupt alone while radioBusy is set, because "we're
\* not interested in those, RadioHead should take care of them"
\* (Sensorino.cpp:124-127): the interrupt ends then too.
InterruptAlwaysReturns == stack["isr"] # <<>> ~> stack["isr"] = <<>>
=============================================================================
