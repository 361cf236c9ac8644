---------------------------- MODULE GpioInterrupts ----------------------------
(***************************************************************************)
(* The GPIO interrupts of Sensorino/Sensorino.cpp for the pins of one      *)
(* port: the pin change interrupt that all of them share, the handlers     *)
(* attached to single pins, called once for an edge or as long as a level  *)
(* lasts, and the attaching and detaching of handlers by a main program    *)
(* that the interrupt may interrupt: the Sensorino constructor enables     *)
(* interrupts when it has attached the radio's handler, and all others are *)
(* attached after that.  Read-modify-writes of a byte that the interrupt   *)
(* writes too take two steps, a load and a store.                          *)
(*                                                                         *)
(* A mask is the set of pins whose bit is 1.  trigger, told, moved and     *)
(* upset are history variables; only Call, the body of the handlers, reads *)
(* one of them.                                                            *)
(***************************************************************************)
EXTENDS Integers, FiniteSets

CONSTANTS
  Pins,        \* of the port, by the number of their bit
  Handlers,    \* what may be attached: a trigger and "obj" or "fun" for a pin
  Radio,       \* the one that the constructor of Sensorino attaches
  MaxOps,      \* bound: attachments, detachments and Clis of the main program
  MaxChanges   \* bound: changes of pins from outside

Triggers == {"EDGE_ANY", "LEVEL_LOW", "LEVEL_HIGH"}

Unused == 255  \* no pin, in pcint_to_gpio

ASSUME PinsAssumption ==
  /\ Pins \subseteq Nat \ {Unused}
  /\ Handlers \subseteq [pin : Pins, trigger : Triggers, kind : {"obj", "fun"}]
  /\ Radio \in Handlers
  /\ MaxOps \in Nat /\ MaxChanges \in Nat

VARIABLES
  PIN,             \* the levels of the pins
  PCMSK, PCICR, PCIF, I,   \* interrupts: of pins, of the port, pending, enabled
  gpio_handler, pcint_to_gpio,
  port_obj_mask, port_edge_mask, port_val,
  main,            \* doAttachGPIOInterrupt or detachGPIOInterrupt under way
  isr,             \* SensorinoGPIOISR
  ops, changes,
  trigger,         \* what the handler of each pin was attached to
  told,            \* the level for which a handler was last called
  moved,           \* pins that have changed while their interrupt was on
  upset            \* pins whose level on record an interrupted attach has spoilt

irq == <<PCMSK, PCICR, PCIF, I>>
table == <<gpio_handler, pcint_to_gpio>>
masks == <<port_obj_mask, port_edge_mask, port_val>>
history == <<trigger, told, moved, upset>>
vars == <<PIN, irq, table, masks, main, isr, ops, changes, history>>

Idle == [pc |-> "idle"]

Differ(a, b) == (a \ b) \cup (b \ a)

\* mask with the bit of p as it is in pins.
Levels(mask, p, pins) == (mask \ {p}) \cup (pins \cap {p})

-----------------------------------------------------------------------------
(* The constructor has cleared the interrupt masks and interrupts are off. *)
Init ==
  /\ PIN \in SUBSET Pins
  /\ PCMSK = {} /\ PCICR = FALSE /\ PCIF = FALSE /\ I = FALSE
  /\ gpio_handler = [p \in Pins |-> "none"] /\ pcint_to_gpio = [p \in Pins |-> Unused]
  /\ port_obj_mask = {} /\ port_edge_mask = {} /\ port_val = {}
  /\ main = Idle /\ isr = Idle
  /\ ops = 0 /\ changes = 0
  /\ trigger = [p \in Pins |-> "none"] /\ told = {} /\ moved = {} /\ upset = {}

\* A pin that takes a new level is seen by the interrupt if its mask allows.
Toggle(p) ==
  /\ PIN' = Differ(PIN, {p})
  /\ PCIF' = (PCIF \/ p \in PCMSK)
  /\ moved' = IF p \in PCMSK THEN moved \cup {p} ELSE moved

Change(p) ==
  /\ changes < MaxChanges
  /\ Toggle(p)
  /\ changes' = changes + 1
  /\ UNCHANGED <<PCMSK, PCICR, I, table, masks, main, isr, ops, trigger, told, upset>>

-----------------------------------------------------------------------------
(* The main program; an interrupt suspends it *)

InterruptPending == I /\ PCICR /\ PCIF
MainRuns == isr = Idle /\ ~InterruptPending

\* The main loop looks for work with interrupts disabled.
Cli ==
  /\ MainRuns /\ main = Idle /\ I /\ ops < MaxOps
  /\ I' = FALSE /\ ops' = ops + 1
  /\ UNCHANGED <<PIN, PCMSK, PCICR, PCIF, table, masks, main, isr, changes, history>>

Attached(p) == pcint_to_gpio[p] = p

\* The last statement of the constructor, and in the main loop.
Sei ==
  /\ MainRuns /\ main = Idle /\ ~I
  /\ Attached(Radio.pin)
  /\ I' = TRUE
  /\ UNCHANGED <<PIN, PCMSK, PCICR, PCIF, table, masks, main, isr, ops, changes,
                 history>>

\* doAttachGPIOInterrupt, up to its third assignment; the radio's is called by the
\* constructor, with interrupts off, the others with interrupts on.
Attach(h) ==
  /\ MainRuns /\ main = Idle /\ ops < MaxOps
  /\ I <=> h # Radio
  /\ pcint_to_gpio[h.pin] = Unused
  /\ gpio_handler' = [gpio_handler EXCEPT ![h.pin] = h.kind]
  /\ pcint_to_gpio' = [pcint_to_gpio EXCEPT ![h.pin] = h.pin]
  /\ main' = [pc |-> "obj", h |-> h]
  /\ ops' = ops + 1
  /\ moved' = moved \ {h.pin} /\ upset' = upset \ {h.pin}
  /\ trigger' = [trigger EXCEPT ![h.pin] = h.trigger]
  /\ UNCHANGED <<PIN, irq, masks, isr, changes, told>>

Doing(pc) == MainRuns /\ main.pc = pc

\* Mutant of ObjMask: a handler that is no object does not clear the bit.
ObjMaskKeep(h) ==
  IF h.kind = "obj" THEN port_obj_mask \cup {h.pin} ELSE port_obj_mask

ObjMask(h) ==
  IF h.kind = "obj" THEN port_obj_mask \cup {h.pin} ELSE port_obj_mask \ {h.pin}

SetObjMask ==
  /\ Doing("obj")
  /\ port_obj_mask' = ObjMask(main.h)
  /\ main' = [main EXCEPT !.pc = "loadVal"]
  /\ UNCHANGED <<PIN, irq, table, port_edge_mask, port_val, isr, ops, changes, history>>

\* port_val[port] &= ~pcmsk, in two steps, and so on.
LoadVal ==
  /\ Doing("loadVal")
  /\ main' = [pc |-> "clearVal", h |-> main.h, val |-> port_val]
  /\ UNCHANGED <<PIN, irq, table, masks, isr, ops, changes, history>>

ClearVal ==
  /\ Doing("clearVal")
  /\ port_val' = main.val \ {main.h.pin}
  /\ main' = [pc |-> "edge", h |-> main.h]
  /\ UNCHANGED <<PIN, irq, table, port_obj_mask, port_edge_mask, isr, ops, changes,
                 history>>

SetEdgeMask ==
  /\ Doing("edge")
  /\ LET h == main.h
     IN  /\ port_edge_mask' = IF h.trigger = "EDGE_ANY"
                              THEN port_edge_mask \cup {h.pin}
                              ELSE port_edge_mask \ {h.pin}
         /\ main' = [pc |-> IF h.trigger = "LEVEL_HIGH" THEN "loadMask" ELSE "loadVal2",
                     h |-> h]
  /\ UNCHANGED <<PIN, irq, table, port_obj_mask, port_val, isr, ops, changes, history>>

NewVal(h) == IF h.trigger = "EDGE_ANY" THEN PIN \cap {h.pin} ELSE {h.pin}

LoadVal2 ==
  /\ Doing("loadVal2")
  /\ main' = [pc |-> "storeVal", h |-> main.h, val |-> port_val \cup NewVal(main.h)]
  /\ told' = Levels(told, main.h.pin, PIN)
  /\ UNCHANGED <<PIN, irq, table, masks, isr, ops, changes, trigger, moved, upset>>

StoreVal ==
  /\ Doing("storeVal")
  /\ port_val' = main.val
  /\ main' = [pc |-> "loadMask", h |-> main.h]
  /\ UNCHANGED <<PIN, irq, table, port_obj_mask, port_edge_mask, isr, ops, changes,
                 history>>

LoadMask ==
  /\ Doing("loadMask")
  /\ main' = [pc |-> "storeMask", mask |-> PCMSK \cup {main.h.pin}]
  /\ UNCHANGED <<PIN, irq, table, masks, isr, ops, changes, history>>

StoreMask ==
  /\ Doing("storeMask")
  /\ PCMSK' = main.mask
  /\ main' = [pc |-> "enable"]
  /\ UNCHANGED <<PIN, PCICR, PCIF, I, table, masks, isr, ops, changes, history>>

EnablePort ==
  /\ Doing("enable")
  /\ PCICR' = TRUE
  /\ main' = Idle
  /\ UNCHANGED <<PIN, PCMSK, PCIF, I, table, masks, isr, ops, changes, history>>

\* detachGPIOInterrupt.
Detach(p) ==
  /\ MainRuns /\ main = Idle /\ ops < MaxOps
  /\ I /\ Attached(p) /\ p # Radio.pin
  /\ pcint_to_gpio' = [pcint_to_gpio EXCEPT ![p] = Unused]
  /\ main' = [pc |-> "unmask", pin |-> p]
  /\ ops' = ops + 1
  /\ UNCHANGED <<PIN, irq, gpio_handler, masks, isr, changes, history>>

Unmask ==
  /\ Doing("unmask")
  /\ main' = [pc |-> "storeUnmask", mask |-> PCMSK \ {main.pin}]
  /\ UNCHANGED <<PIN, irq, table, masks, isr, ops, changes, history>>

StoreUnmask ==
  /\ Doing("storeUnmask")
  /\ PCMSK' = main.mask
  /\ main' = Idle
  /\ UNCHANGED <<PIN, PCICR, PCIF, I, table, masks, isr, ops, changes, history>>

-----------------------------------------------------------------------------
(* SensorinoGPIOISR *)

Interrupt ==
  /\ isr = Idle /\ InterruptPending
  /\ PCIF' = FALSE
  /\ isr' = [pc |-> "read"]
  /\ UNCHANGED <<PIN, PCMSK, PCICR, I, table, masks, main, ops, changes, history>>

\* The steps of doAttachGPIOInterrupt before it has set the pin's bits.
BeforeVal == {"obj", "loadVal", "clearVal", "edge", "loadVal2", "storeVal"}

Attaching(p) == main.pc \in BeforeVal /\ main.h.pin = p

\* The pins in ps whose bit of port_val does not stay what the interrupt makes it,
\* as it has cut into doAttachGPIOInterrupt: that of the pin being attached, and
\* those of edge pins if main is about to store a copy it had loaded before.
Undone(ps) ==
  {p \in Pins : \/ Attaching(p)
                \/ /\ main.pc \in {"clearVal", "storeVal"}
                   /\ p \in ps \cap port_edge_mask}

\* Mutant of Recorded: the new level of an edge pin is not kept.
RecordedNot(diff) == port_val

\* port_val[port] ^= diff & port_edge_mask[port]
Recorded(diff) == Differ(port_val, diff \cap port_edge_mask)

ReadPins ==
  /\ isr.pc = "read"
  /\ LET diff == Differ(port_val, PIN)
     IN  /\ isr' = [pc |-> "scan", new_val |-> PIN, diff |-> diff]
         /\ port_val' = Recorded(diff)
         /\ upset' = upset \cup Undone(diff)
  /\ UNCHANGED <<PIN, irq, table, port_obj_mask, port_edge_mask, main, ops, changes,
                 trigger, told, moved>>

\* num == 0xff
Skips(p) == pcint_to_gpio[p] = Unused

Scan ==
  /\ isr.pc = "scan" /\ isr.diff # {}
  /\ LET p == CHOOSE q \in isr.diff : \A r \in isr.diff : q <= r
         rest == [isr EXCEPT !.diff = @ \ {p}]
     IN  isr' = IF Skips(p) THEN rest
                ELSE [pc |-> "call", new_val |-> isr.new_val, diff |-> rest.diff,
                      pin |-> pcint_to_gpio[p]]
  /\ UNCHANGED <<PIN, irq, table, masks, main, ops, changes, history>>

\* The level of the pin is the one its handler waits for.
AtLevel(p) ==
  \/ trigger[p] = "LEVEL_LOW" /\ p \notin PIN
  \/ trigger[p] = "LEVEL_HIGH" /\ p \in PIN

\* The handler of an edge pin may give up and detach it, as pinHandler does;
\* that of a level pin may end the level, as the radio's does.
Call ==
  /\ isr.pc = "call"
  /\ isr' = [isr EXCEPT !.pc = "called"]
  /\ told' = Levels(told, isr.pin, isr.new_val)
  /\ upset' = upset \ (({isr.pin} \cap port_edge_mask) \ Undone({isr.pin}))
  /\ LET p == isr.pin
     IN  \/ UNCHANGED <<PIN, PCIF, moved, PCMSK, pcint_to_gpio>>
         \/ /\ trigger[p] = "EDGE_ANY"
            /\ pcint_to_gpio' = [pcint_to_gpio EXCEPT ![p] = Unused]
            /\ PCMSK' = PCMSK \ {p}
            /\ UNCHANGED <<PIN, PCIF, moved>>
         \/ /\ AtLevel(p)
            /\ Toggle(p)
            /\ UNCHANGED <<PCMSK, pcint_to_gpio>>
  /\ UNCHANGED <<PCICR, I, gpio_handler, masks, main, ops, changes, trigger>>

\* Mutant of CalledOnce: the level is not looked at again.
CalledOnceAlways(p) == TRUE

\* An edge, or a level that is over.
CalledOnce(p) ==
  p \in port_edge_mask \/ p \in Differ(isr.new_val, PIN)

Called ==
  /\ isr.pc = "called"
  /\ isr' = IF CalledOnce(isr.pin)
            THEN [pc |-> "scan", new_val |-> isr.new_val, diff |-> isr.diff]
            ELSE [isr EXCEPT !.pc = "call"]
  /\ UNCHANGED <<PIN, irq, table, masks, main, ops, changes, history>>

Return ==
  /\ isr.pc = "scan" /\ isr.diff = {}
  /\ isr' = Idle
  /\ UNCHANGED <<PIN, irq, table, masks, main, ops, changes, history>>

-----------------------------------------------------------------------------
Main ==
  \/ Sei \/ SetObjMask \/ LoadVal \/ ClearVal \/ SetEdgeMask \/ LoadVal2 \/ StoreVal
  \/ LoadMask \/ StoreMask \/ EnablePort \/ Unmask \/ StoreUnmask

Isr == Interrupt \/ ReadPins \/ Scan \/ Call \/ Called \/ Return

Next ==
  \/ \E p \in Pins : Change(p) \/ Detach(p)
  \/ \E h \in Handlers : Attach(h)
  \/ Cli \/ Main \/ Isr

Spec == Init /\ [][Next]_vars

\* The processor runs, the main program ends what it has begun and enables
\* interrupts again, and a handler that is called again and again for a level
\* ends it (for the radio's, see InterruptReturns of RadioNode).
FairSpec == Spec /\ WF_vars(Main) /\ WF_vars(Isr) /\ SF_vars(Call /\ PIN' # PIN)

-----------------------------------------------------------------------------
\* A handler is called as what it was attached as: a plain function is never
\* used as an object, nor an object as a function, and a pin without a handler
\* is never called for (Sensorino.cpp:301-308).  The one exception is the pin
\* whose attaching the interrupt has cut into between the store of its slot and
\* that of its kind (340, 341).
RightKind ==
  isr.pc = "call" /\ ~(main.pc = "obj" /\ main.h.pin = isr.pin) =>
    gpio_handler[isr.pin] = IF isr.pin \in port_obj_mask THEN "obj" ELSE "fun"

\* Sensorino.cpp:298, on the handler of a level-triggered pin: "Note that at
\* this point we already know that the level matches".  No handler is called
\* for a pin that is handled as level-triggered unless it was attached to the
\* level that has been read, or an interrupt cut into its attaching.
LevelMatches ==
  isr.pc = "call" /\ isr.pin \notin port_edge_mask \cup upset =>
    trigger[isr.pin] = IF isr.pin \in isr.new_val THEN "LEVEL_HIGH" ELSE "LEVEL_LOW"

\* However attachments, interrupts and handlers that detach themselves follow one
\* another, SensorinoGPIOISR calls a handler as what it is and for what it waits,
\* save for the pin whose attaching was interrupted: other pins never suffer.
CalledRight == RightKind /\ LevelMatches

\* Edge pins that have moved since their handler was attached, when no
\* interrupt is pending or running.
Settled == IF isr = Idle /\ ~PCIF /\ main = Idle
           THEN {p \in PCMSK \cap moved : Attached(p) /\ trigger[p] = "EDGE_ANY"}
           ELSE {}

\* "Some edges may be missed (any number of opposite pairs)"
\* (Sensorino.cpp:290-293), and never a single one: in the end the handler has
\* been called for the level that the pin has.  An interrupt that cuts into
\* doAttachGPIOInterrupt before its store to port_val (346-355) may make the pin
\* being attached miss one, and, between a load and its store, any edge pin
\* whose change it handles; but only until the pin's handler is called next.
EdgesTold == \A p \in Settled \ upset : p \in told <=> p \in PIN

\* The handler of a pin whose attaching the interrupt has cut into is called as
\* though for a level, which goes on until the pin's level changes.
Astray == isr.pc = "call" /\ isr.pin \in upset \ port_edge_mask

\* Sensorino.cpp:295: "For level-triggered loop as long as level is maintained".
\* From when an attached pin has come to the level its handler waits for until the
\* level ends or the pin is detached, the handler is called again and again; no
\* other pin, no attaching of another and no stretch without interrupts loses it,
\* unless the interrupt goes astray over a pin whose attaching it cut into.
LevelServed ==
  \A p \in Pins :
    Attached(p) /\ ~Attaching(p) /\ p \in (PCMSK \cap moved) \ upset /\ AtLevel(p)
      ~> \/ isr.pc = "call" /\ isr.pin = p
         \/ ~AtLevel(p) \/ ~Attached(p) \/ Astray
=============================================================================
