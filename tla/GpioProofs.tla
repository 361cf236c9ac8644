----------------------------- MODULE GpioProofs -----------------------------
(***************************************************************************)
(* For any pins and handlers, attached while interrupts are enabled: the   *)
(* handlers are called as what they are and for the level they wait for,   *)
(* and no single edge is missed, but for the pins that an interrupt upsets *)
(* when it cuts into doAttachGPIOInterrupt.                                *)
(*                                                                         *)
(* The argument relates the port's three masks to what each handler was    *)
(* attached to.  Between the steps of doAttachGPIOInterrupt they disagree  *)
(* for the pin being attached and no other, and the copy of port_val it    *)
(* holds agrees with port_val on every pin that is not upset.              *)
(***************************************************************************)
EXTENDS GpioInterrupts, WellFoundedInduction, TLAPS

-----------------------------------------------------------------------------
(* Types *)

\* The steps of doAttachGPIOInterrupt before it has set the pin's bit of the edge
\* mask.
BeforeEdge == {"obj", "loadVal", "clearVal", "edge"}

MainStates ==
  {Idle}
    \cup [pc : {"obj", "loadVal", "edge", "loadVal2", "loadMask"}, h : Handlers]
    \cup [pc : {"clearVal", "storeVal"}, h : Handlers, val : SUBSET Pins]
    \cup [pc : {"storeMask", "storeUnmask"}, mask : SUBSET Pins]
    \cup [pc : {"enable"}] \cup [pc : {"unmask"}, pin : Pins]

IsrStates ==
  {Idle} \cup [pc : {"read"}]
    \cup [pc : {"scan"}, new_val : SUBSET Pins, diff : SUBSET Pins]
    \cup [pc : {"call", "called"}, new_val : SUBSET Pins, diff : SUBSET Pins, pin : Pins]

TypeOK ==
  /\ PIN \subseteq Pins /\ PCMSK \subseteq Pins
  /\ PCICR \in BOOLEAN /\ PCIF \in BOOLEAN /\ I \in BOOLEAN
  /\ gpio_handler \in [Pins -> {"none", "obj", "fun"}]
  /\ pcint_to_gpio \in [Pins -> Pins \cup {Unused}]
  /\ port_obj_mask \subseteq Pins /\ port_edge_mask \subseteq Pins /\ port_val \subseteq Pins
  /\ main \in MainStates /\ isr \in IsrStates
  /\ trigger \in [Pins -> Triggers \cup {"none"}]
  /\ told \subseteq Pins /\ moved \subseteq Pins /\ upset \subseteq Pins

-----------------------------------------------------------------------------
(* The inductive invariant *)

\* A slot holds its own pin or none, and whoever is attached was attached to
\* something.
SlotsRight ==
  \A p \in Pins :
    /\ pcint_to_gpio[p] \in {p, Unused}
    /\ Attached(p) => trigger[p] # "none"

\* p has been attached and the step its bit of a mask waits for, one of pcs,
\* is done.
Done(p, pcs) == trigger[p] # "none" /\ ~(main.pc \in pcs /\ main.h.pin = p)

\* The bits of the pins that have, or had, a handler.
KindKept ==
  \A p \in Pins :
    Done(p, {"obj"}) => gpio_handler[p] = IF p \in port_obj_mask THEN "obj" ELSE "fun"

EdgeKept ==
  \A p \in Pins :
    Done(p, BeforeEdge) => (p \in port_edge_mask <=> trigger[p] = "EDGE_ANY")

\* port_val holds the level that differs from the one a handler waits for.
LevelKept ==
  \A p \in Pins \ upset :
    Done(p, BeforeVal) => /\ trigger[p] = "LEVEL_LOW" => p \in port_val
                          /\ trigger[p] = "LEVEL_HIGH" => p \notin port_val

\* doAttachGPIOInterrupt between its steps: the handler it is about and, if no
\* interrupt has read the port in between, the pin's bit of port_val and of the
\* copy it has loaded; what moves the pin then leaves an interrupt pending.
AttachRight ==
  main.pc \in BeforeVal =>
    LET p == main.h.pin
    IN  /\ trigger[p] = main.h.trigger /\ gpio_handler[p] = main.h.kind
        /\ main.pc \in {"loadVal2", "storeVal"} => trigger[p] # "LEVEL_HIGH"
        /\ p \notin upset =>
             /\ isr.pc \in {"idle", "read"}
             /\ p \in moved => PCIF \/ isr.pc = "read"
             /\ main.pc \in {"edge", "loadVal2", "storeVal"} => p \notin port_val
             /\ main.pc = "storeVal" =>
                  (p \in main.val <=> (trigger[p] = "EDGE_ANY" => p \in told))

\* The copy of port_val agrees with it on the pins that are not upset.
CopyRight ==
  main.pc \in {"clearVal", "storeVal"} =>
    \A q \in Pins \ (upset \cup {main.h.pin}) : q \in main.val <=> q \in port_val

\* A pin with a handler moves with its interrupt on; a copy of PCMSK lacks no pin
\* with a handler.
MaskRight ==
  /\ \A p \in Pins : Attached(p) /\ p \notin PCMSK => p \notin moved
  /\ main.pc = "unmask" => ~Attached(main.pin)
  /\ main.pc \in {"storeMask", "storeUnmask"} =>
       \A p \in PCMSK : Attached(p) => p \in main.mask

Scanning == isr.pc \in {"scan", "call", "called"}
Calling == isr.pc \in {"call", "called"}

\* What the interrupt has read: edge pins are recorded as read, and the level
\* pins still to be handled are at the level their handler waits for; a pin that
\* has changed since leaves an interrupt pending.
ScanRight ==
  Scanning =>
    /\ \A p \in port_edge_mask : p \in isr.new_val <=> p \in port_val
    /\ \A p \in Pins \ upset :
         /\ p \in isr.diff \/ (Calling /\ isr.pin = p)
         /\ trigger[p] \notin {"none", "EDGE_ANY"}
         => (p \in isr.new_val <=> p \notin port_val)
    /\ Calling => trigger[isr.pin] # "none"
    /\ \A p \in PCMSK : PCIF \/ (p \in PIN <=> p \in isr.new_val)

\* The handler of an edge pin has been told the level on record, or will be
\* before the interrupt returns.
Told ==
  \A p \in Pins \ upset :
    Attached(p) /\ Done(p, BeforeVal) /\ trigger[p] = "EDGE_ANY" =>
      \/ p \in told <=> p \in port_val
      \/ Scanning /\ p \in isr.diff
      \/ isr.pc = "call" /\ isr.pin = p

\* The level on record is the pin's, or an interrupt is about to read it.
Recent ==
  \A p \in (PCMSK \cap moved) \ upset :
    Attached(p) /\ Done(p, BeforeVal) /\ trigger[p] = "EDGE_ANY" =>
      \/ isr.pc = "read" \/ PCIF
      \/ p \in PIN <=> p \in port_val

IInv ==
  /\ TypeOK /\ SlotsRight
  /\ KindKept /\ EdgeKept /\ LevelKept /\ AttachRight /\ CopyRight /\ MaskRight
  /\ ScanRight /\ Told /\ Recent

-----------------------------------------------------------------------------
(* Types *)

LEMMA HandlerFields ==
  ASSUME NEW h \in Handlers
  PROVE  /\ h.pin \in Pins /\ h.trigger \in Triggers /\ h.kind \in {"obj", "fun"}
         /\ h.pin # Unused
  BY PinsAssumption

\* What the main program holds at each of its steps.
LEMMA MainFields ==
  ASSUME TypeOK
  PROVE  /\ main = Idle <=> main.pc = "idle"
         /\ main.pc \in BeforeVal \cup {"loadMask"} =>
              main.h \in Handlers /\ main.h.pin \in Pins
         /\ main.pc \in {"clearVal", "storeVal"} => main.val \in SUBSET Pins
         /\ main.pc \in {"storeMask", "storeUnmask"} => main.mask \in SUBSET Pins
         /\ main.pc = "unmask" => main.pin \in Pins
         /\ main.pc = "obj" =>
              [main EXCEPT !.pc = "loadVal"] = [pc |-> "loadVal", h |-> main.h]
<1>1. main \in MainStates
  BY DEF TypeOK
<1>2. main.pc \in BeforeVal \cup {"loadMask"} => main.h \in Handlers
  BY <1>1 DEF MainStates, BeforeVal, BeforeEdge, Idle
<1>3. main.pc = "obj" =>
        [main EXCEPT !.pc = "loadVal"] = [pc |-> "loadVal", h |-> main.h]
  BY <1>1 DEF MainStates, Idle
<1>4. main = Idle <=> main.pc = "idle"
  BY <1>1 DEF MainStates, Idle
<1> QED
  BY <1>1, <1>2, <1>3, <1>4, HandlerFields DEF MainStates, Idle

\* What the interrupt holds.
LEMMA IsrFields ==
  ASSUME TypeOK
  PROVE  /\ isr = Idle <=> isr.pc = "idle"
         /\ isr.pc \in {"idle", "read", "scan", "call", "called"}
         /\ Scanning => isr.new_val \in SUBSET Pins /\ isr.diff \in SUBSET Pins
         /\ Calling => isr.pin \in Pins
         /\ isr.pc = "scan" => \A d : [isr EXCEPT !.diff = d] =
                                 [pc |-> "scan", new_val |-> isr.new_val, diff |-> d]
         /\ Calling => \A c : [isr EXCEPT !.pc = c] =
                         [pc |-> c, new_val |-> isr.new_val, diff |-> isr.diff,
                          pin |-> isr.pin]
<1>1. isr \in IsrStates
  BY DEF TypeOK
<1>2. isr = Idle <=> isr.pc = "idle"
  BY <1>1 DEF IsrStates, Idle
<1>3. isr.pc \in {"idle", "read", "scan", "call", "called"}
  BY <1>1 DEF IsrStates, Idle
<1>4. Scanning => isr.new_val \in SUBSET Pins /\ isr.diff \in SUBSET Pins
  BY <1>1 DEF IsrStates, Idle, Scanning
<1>5. Calling => isr.pin \in Pins
  BY <1>1 DEF IsrStates, Idle, Calling
<1>6. isr.pc = "scan" => \A d : [isr EXCEPT !.diff = d] =
                           [pc |-> "scan", new_val |-> isr.new_val, diff |-> d]
  BY <1>1 DEF IsrStates, Idle
<1>7. Calling => \A c : [isr EXCEPT !.pc = c] =
                   [pc |-> c, new_val |-> isr.new_val, diff |-> isr.diff, pin |-> isr.pin]
  BY <1>1 DEF IsrStates, Idle, Calling
<1> QED
  BY <1>2, <1>3, <1>4, <1>5, <1>6, <1>7

\* The lowest bit that is set.
Lowest == CHOOSE q \in isr.diff : \A r \in isr.diff : q <= r

LEMMA LowestIsSet ==
  ASSUME TypeOK, isr.pc = "scan", isr.diff # {}
  PROVE  Lowest \in isr.diff
<1>1. isr.diff \subseteq Nat
  BY IsrFields, PinsAssumption DEF Scanning
<1>2. PICK x \in isr.diff : \A y \in isr.diff : <<y, x>> \notin OpToRel(<, Nat)
  BY <1>1, WFMin, NatLessThanWellFounded, Zenon
<1>3. \A y \in isr.diff : ~(y < x)
  BY <1>1, <1>2, Zenon DEF OpToRel
<1>4. \A y \in isr.diff : x <= y
  BY <1>1, <1>3
<1> QED
  BY <1>4 DEF Lowest

\* Scan drops a pin from diff; a pin that some handler is attached to is called.
LEMMA ScanSteps ==
  ASSUME TypeOK, SlotsRight, Scan
  PROVE  /\ isr.pc = "scan" /\ Lowest \in isr.diff /\ Lowest \in Pins
         /\ \/ /\ ~Attached(Lowest)
               /\ isr' = [pc |-> "scan", new_val |-> isr.new_val,
                          diff |-> isr.diff \ {Lowest}]
            \/ /\ Attached(Lowest)
               /\ isr' = [pc |-> "call", new_val |-> isr.new_val,
                          diff |-> isr.diff \ {Lowest}, pin |-> Lowest]
<1>1. isr.pc = "scan" /\ isr.diff # {}
  BY DEF Scan
<1>2. Lowest \in isr.diff
  BY <1>1, LowestIsSet
<1>3. Lowest \in Pins
  BY <1>1, <1>2, IsrFields DEF Scanning
<1>4. [isr EXCEPT !.diff = isr.diff \ {Lowest}] =
        [pc |-> "scan", new_val |-> isr.new_val, diff |-> isr.diff \ {Lowest}]
  BY <1>1, IsrFields
<1>5. [isr EXCEPT !.diff = isr.diff \ {Lowest}].diff = isr.diff \ {Lowest}
  BY <1>4
<1>6. isr' = IF Skips(Lowest) THEN [isr EXCEPT !.diff = isr.diff \ {Lowest}]
             ELSE [pc |-> "call", new_val |-> isr.new_val, diff |-> isr.diff \ {Lowest},
                   pin |-> pcint_to_gpio[Lowest]]
  BY <1>5 DEF Scan, Lowest
<1>7. /\ pcint_to_gpio[Lowest] \in {Lowest, Unused} /\ Lowest # Unused
  BY <1>3, PinsAssumption DEF SlotsRight
<1> QED
  BY <1>1, <1>2, <1>3, <1>4, <1>6, <1>7 DEF Skips, Attached

LEMMA InitTyped ==
  ASSUME Init
  PROVE  TypeOK
  BY DEF Init, TypeOK, MainStates, IsrStates, Idle

\* The main program keeps the types.
LEMMA MainTyped ==
  ASSUME TypeOK,
         Cli \/ Main \/ (\E h \in Handlers : Attach(h)) \/ (\E p \in Pins : Detach(p))
  PROVE  TypeOK'
<1> USE DEF TypeOK, irq, table, masks, history, Doing
<1>1. CASE Cli \/ Sei
  BY <1>1 DEF Cli, Sei
<1>2. ASSUME NEW h \in Handlers, Attach(h) PROVE TypeOK'
  BY <1>2, HandlerFields DEF Attach, MainStates, Triggers
<1>3. CASE SetObjMask
  <2>1. main' = [pc |-> "loadVal", h |-> main.h] /\ main.h \in Handlers /\ main.h.pin \in Pins
    BY <1>3, MainFields DEF SetObjMask, BeforeVal, BeforeEdge
  <2>2. main' \in MainStates
    BY <2>1 DEF MainStates
  <2> QED
    BY <1>3, <2>1, <2>2 DEF SetObjMask, ObjMask
<1>4. CASE LoadVal
  BY <1>4, MainFields DEF LoadVal, BeforeVal, BeforeEdge, MainStates
<1>5. CASE ClearVal
  BY <1>5, MainFields DEF ClearVal, BeforeVal, BeforeEdge, MainStates
<1>6. CASE SetEdgeMask
  BY <1>6, MainFields DEF SetEdgeMask, BeforeVal, BeforeEdge, MainStates
<1>7. CASE LoadVal2
  BY <1>7, MainFields DEF LoadVal2, NewVal, Levels, BeforeVal, BeforeEdge, MainStates
<1>8. CASE StoreVal
  BY <1>8, MainFields DEF StoreVal, BeforeVal, BeforeEdge, MainStates
<1>9. CASE LoadMask
  BY <1>9, MainFields DEF LoadMask, BeforeVal, BeforeEdge, MainStates
<1>10. CASE StoreMask
  BY <1>10, MainFields DEF StoreMask, MainStates
<1>11. CASE EnablePort
  BY <1>11 DEF EnablePort, MainStates
<1>12. ASSUME NEW p \in Pins, Detach(p) PROVE TypeOK'
  BY <1>12 DEF Detach, MainStates
<1>13. CASE Unmask
  BY <1>13, MainFields DEF Unmask, MainStates
<1>14. CASE StoreUnmask
  BY <1>14, MainFields DEF StoreUnmask, MainStates
<1> QED
  BY <1>1, <1>2, <1>3, <1>4, <1>5, <1>6, <1>7, <1>8, <1>9, <1>10, <1>11, <1>12, <1>13, <1>14
     DEF Main

\* So do the interrupt and the pins.
LEMMA IsrTyped ==
  ASSUME TypeOK, SlotsRight, Isr \/ \E p \in Pins : Change(p)
  PROVE  TypeOK'
<1> USE DEF TypeOK, irq, table, masks, history
<1>1. ASSUME NEW p \in Pins, Change(p) PROVE TypeOK'
  BY <1>1 DEF Change, Toggle, Differ
<1>2. CASE Interrupt
  BY <1>2 DEF Interrupt, IsrStates
<1>3. CASE ReadPins
  BY <1>3 DEF ReadPins, Recorded, Differ, IsrStates, Undone
<1>4. CASE Scan
  <2>1. isr' \in IsrStates
    BY <1>4, ScanSteps, IsrFields DEF IsrStates, Scanning
  <2> QED
    BY <1>4, <2>1 DEF Scan
<1>5. CASE Call
  <2>1. isr' = [pc |-> "called", new_val |-> isr.new_val, diff |-> isr.diff, pin |-> isr.pin]
    BY <1>5, IsrFields DEF Call, Calling
  <2>2. isr.new_val \in SUBSET Pins /\ isr.diff \in SUBSET Pins /\ isr.pin \in Pins
    BY <1>5, IsrFields DEF Call, Calling, Scanning
  <2>3. isr' \in IsrStates
    BY <2>1, <2>2 DEF IsrStates
  <2> QED
    BY <1>5, <2>2, <2>3 DEF Call, Levels, Toggle, Differ
<1>6. CASE Called
  <2>1. isr.new_val \in SUBSET Pins /\ isr.diff \in SUBSET Pins /\ isr.pin \in Pins
    BY <1>6, IsrFields DEF Called, Calling, Scanning
  <2>2. \/ isr' = [pc |-> "scan", new_val |-> isr.new_val, diff |-> isr.diff]
        \/ isr' = [pc |-> "call", new_val |-> isr.new_val, diff |-> isr.diff,
                   pin |-> isr.pin]
    BY <1>6, IsrFields DEF Called, Calling
  <2>3. isr' \in IsrStates
    BY <2>1, <2>2 DEF IsrStates
  <2> QED
    BY <1>6, <2>3 DEF Called
<1>7. CASE Return
  BY <1>7 DEF Return, IsrStates
<1> QED
  BY <1>1, <1>2, <1>3, <1>4, <1>5, <1>6, <1>7 DEF Isr

-----------------------------------------------------------------------------
(* What a step does *)

\* The interrupt suspends the main program.
LEMMA IsrAlone ==
  ASSUME Isr
  PROVE  main' = main /\ trigger' = trigger /\ gpio_handler' = gpio_handler
         /\ port_obj_mask' = port_obj_mask /\ port_edge_mask' = port_edge_mask
  BY DEF Isr, Interrupt, ReadPins, Scan, Call, Called, Return, table, masks, history

\* What each step of doAttachGPIOInterrupt leaves behind; the interrupt, the pins
\* and the history of attachments are none of its business.
AttachSteps ==
  SetObjMask \/ LoadVal \/ ClearVal \/ SetEdgeMask \/ LoadVal2 \/ StoreVal \/ LoadMask

LEMMA AttachStep ==
  ASSUME IInv, AttachSteps
  PROVE  /\ main.h \in Handlers /\ main.h.pin \in Pins
         /\ main.pc \in BeforeVal \cup {"loadMask"}
         /\ isr' = isr /\ PIN' = PIN /\ irq' = irq /\ table' = table
         /\ trigger' = trigger /\ moved' = moved /\ upset' = upset
         /\ ~Scanning /\ ~Calling /\ isr.pc = "idle"
<1>1. main.pc \in BeforeVal \cup {"loadMask"}
  BY DEF AttachSteps, SetObjMask, LoadVal, ClearVal, SetEdgeMask, LoadVal2, StoreVal,
         LoadMask, Doing, BeforeVal
<1>2. isr.pc = "idle" /\ ~Scanning /\ ~Calling
  BY DEF AttachSteps, SetObjMask, LoadVal, ClearVal, SetEdgeMask, LoadVal2, StoreVal,
         LoadMask, Doing, MainRuns, Idle, Scanning, Calling
<1>3. main.h \in Handlers /\ main.h.pin \in Pins
  BY <1>1, MainFields DEF IInv
<1> QED
  BY <1>1, <1>2, <1>3
     DEF AttachSteps, SetObjMask, LoadVal, ClearVal, SetEdgeMask, LoadVal2, StoreVal,
         LoadMask, history

LEMMA SlotsKept ==
  ASSUME IInv, Next
  PROVE  SlotsRight'
<1> USE DEF SlotsRight, IInv, Attached, table, history, irq
<1>1. ASSUME NEW p \in Pins, Change(p) PROVE SlotsRight'
  BY <1>1 DEF Change
<1>2. ASSUME NEW p \in Pins, Detach(p) PROVE SlotsRight'
  BY <1>2, PinsAssumption DEF Detach, TypeOK
<1>3. ASSUME NEW h \in Handlers, Attach(h) PROVE SlotsRight'
  BY <1>3, HandlerFields DEF Attach, TypeOK, Triggers
<1>4. CASE Cli \/ Main
  BY <1>4 DEF Cli, Main, Sei, SetObjMask, LoadVal, ClearVal, SetEdgeMask, LoadVal2,
              StoreVal, LoadMask, StoreMask, EnablePort, Unmask, StoreUnmask
<1>5. CASE Interrupt \/ ReadPins \/ Scan \/ Called \/ Return
  BY <1>5 DEF Interrupt, ReadPins, Scan, Called, Return
<1>6. CASE Call
  <2>1. isr.pin \in Pins
    BY <1>6, IsrFields DEF Call, Calling
  <2> QED
    BY <1>6, <2>1, PinsAssumption DEF Call, TypeOK
<1> QED
  BY <1>1, <1>2, <1>3, <1>4, <1>5, <1>6 DEF Next, Isr

\* Outside doAttachGPIOInterrupt nothing changes what a handler was attached as
\* and to, nor the two masks that say so.
OtherSteps ==
  \/ \E p \in Pins : Change(p) \/ Detach(p)
  \/ Cli \/ Sei \/ StoreMask \/ EnablePort \/ Unmask \/ StoreUnmask \/ Isr

LEMMA OtherStep ==
  ASSUME IInv, OtherSteps
  PROVE  /\ gpio_handler' = gpio_handler /\ trigger' = trigger
         /\ port_obj_mask' = port_obj_mask /\ port_edge_mask' = port_edge_mask
         /\ \A pcs \in SUBSET BeforeVal : \A p \in Pins : Done(p, pcs)' => Done(p, pcs)
         /\ ~ReadPins => port_val' = port_val
         /\ ~ReadPins /\ ~Call => upset' = upset
         /\ main'.pc \notin BeforeVal \cup {"loadMask"} \/ main' = main
<1> USE DEF Done, table, masks, history, BeforeVal, Doing
<1>1. ASSUME NEW p \in Pins, Change(p)
      PROVE  UNCHANGED <<gpio_handler, trigger, masks, main, upset>>
  BY <1>1 DEF Change
<1>2. ASSUME NEW p \in Pins, Detach(p)
      PROVE  /\ UNCHANGED <<gpio_handler, trigger, masks, upset>>
             /\ main.pc = "idle" /\ main'.pc = "unmask"
  BY <1>2 DEF Detach, Idle
<1>3. CASE Cli \/ Sei
  BY <1>3 DEF Cli, Sei
<1>4. CASE StoreMask \/ EnablePort \/ Unmask \/ StoreUnmask
  BY <1>4 DEF StoreMask, EnablePort, Unmask, StoreUnmask, Idle
<1>5. CASE Isr
  BY <1>5, IsrAlone DEF Isr, Interrupt, ReadPins, Scan, Call, Called, Return
<1> QED
  BY <1>1, <1>2, <1>3, <1>4, <1>5 DEF OtherSteps

LEMMA NextSteps ==
  ASSUME Next
  PROVE  OtherSteps \/ AttachSteps \/ \E h \in Handlers : Attach(h)
  BY DEF Next, Main, OtherSteps, AttachSteps

-----------------------------------------------------------------------------
(* The masks *)

LEMMA KindKeptStep ==
  ASSUME IInv, Next
  PROVE  KindKept'
<1> USE DEF KindKept, Done, table, masks, history, irq, Doing
<1>1. CASE OtherSteps
  BY <1>1, OtherStep DEF IInv, BeforeVal, BeforeEdge
<1>2. CASE SetObjMask
  BY <1>2, AttachStep, HandlerFields, MainFields
     DEF SetObjMask, ObjMask, IInv, AttachRight, AttachSteps, BeforeVal, BeforeEdge
<1>3. CASE LoadVal \/ ClearVal \/ SetEdgeMask \/ LoadVal2 \/ StoreVal \/ LoadMask
  BY <1>3 DEF LoadVal, ClearVal, SetEdgeMask, LoadVal2, StoreVal, LoadMask, IInv
<1>4. ASSUME NEW h \in Handlers, Attach(h) PROVE KindKept'
  BY <1>4, HandlerFields DEF Attach, IInv, TypeOK, Idle
<1> QED
  BY <1>1, <1>2, <1>3, <1>4, NextSteps DEF AttachSteps

LEMMA EdgeKeptStep ==
  ASSUME IInv, Next
  PROVE  EdgeKept'
<1> USE DEF EdgeKept, Done, table, masks, history, irq, Doing, BeforeEdge
<1>1. CASE OtherSteps
  BY <1>1, OtherStep DEF IInv, BeforeVal
<1>2. CASE SetEdgeMask
  BY <1>2, AttachStep, HandlerFields DEF SetEdgeMask, IInv, AttachRight, AttachSteps, BeforeVal
<1>3. CASE SetObjMask
  BY <1>3, MainFields DEF SetObjMask, IInv
<1>4. CASE LoadVal \/ ClearVal \/ LoadVal2 \/ StoreVal \/ LoadMask
  BY <1>4 DEF LoadVal, ClearVal, LoadVal2, StoreVal, LoadMask, IInv
<1>5. ASSUME NEW h \in Handlers, Attach(h) PROVE EdgeKept'
  BY <1>5, HandlerFields DEF Attach, IInv, TypeOK, Idle
<1> QED
  BY <1>1, <1>2, <1>3, <1>4, <1>5, NextSteps DEF AttachSteps

\* The interrupt records the levels of edge pins only, and upsets the pin whose
\* attaching it has cut into.
LEMMA RecordsEdges ==
  ASSUME IInv, ReadPins
  PROVE  /\ \A p \in Pins : p \in port_edge_mask => (p \in port_val' <=> p \in PIN)
         /\ \A p \in Pins : p \notin port_edge_mask => (p \in port_val' <=> p \in port_val)
         /\ \A p \in Pins \ upset' :
              /\ p \notin upset /\ ~Attaching(p)
              /\ main.pc \in {"clearVal", "storeVal"} => (p \in port_val' <=> p \in port_val)
              /\ trigger[p] # "none" => (p \in port_edge_mask <=> trigger[p] = "EDGE_ANY")
<1>1. port_val' = Differ(port_val, Differ(port_val, PIN) \cap port_edge_mask)
  BY DEF ReadPins, Recorded
<1>2. upset' = upset \cup Undone(Differ(port_val, PIN))
  BY DEF ReadPins
<1>3. ASSUME NEW p \in Pins \ upset' PROVE p \notin upset /\ ~Attaching(p)
  BY <1>2 DEF Undone
<1>4. ASSUME NEW p \in Pins \ upset', main.pc \in {"clearVal", "storeVal"}
      PROVE  p \in port_val' <=> p \in port_val
  BY <1>1, <1>2, <1>4 DEF Undone, Differ
<1>5. ASSUME NEW p \in Pins \ upset', trigger[p] # "none"
      PROVE  p \in port_edge_mask <=> trigger[p] = "EDGE_ANY"
  BY <1>3, <1>5 DEF IInv, EdgeKept, Done, BeforeEdge, Attaching, BeforeVal
<1> QED
  BY <1>1, <1>3, <1>4, <1>5 DEF Differ

\* A call leaves the records as they are and ends the upset of an edge pin, unless
\* it is part of what upsets it.
LEMMA CallStep ==
  ASSUME IInv, Call
  PROVE  /\ isr.pc = "call" /\ isr.pin \in Pins /\ Scanning /\ Calling
         /\ isr'.pc = "called" /\ isr'.new_val = isr.new_val /\ isr'.diff = isr.diff
         /\ isr'.pin = isr.pin
         /\ port_val' = port_val /\ port_edge_mask' = port_edge_mask
         /\ trigger' = trigger /\ main' = main
         /\ upset' \subseteq upset
         /\ \A p \in upset \ upset' :
              /\ p = isr.pin /\ p \in port_edge_mask /\ ~Attaching(p)
              /\ main.pc \notin {"clearVal", "storeVal"}
              /\ p \in Pins
<1>1. isr.pc = "call" /\ Scanning /\ Calling /\ TypeOK
  BY DEF Call, Scanning, Calling, IInv
<1>2. isr.pin \in Pins
  BY <1>1, IsrFields
<1>3. isr' = [pc |-> "called", new_val |-> isr.new_val, diff |-> isr.diff, pin |-> isr.pin]
  BY <1>1, IsrFields DEF Call
<1>4. upset' = upset \ (({isr.pin} \cap port_edge_mask) \ Undone({isr.pin}))
  BY DEF Call
<1>5. ASSUME NEW p \in upset \ upset'
      PROVE  /\ p = isr.pin /\ p \in port_edge_mask /\ ~Attaching(p)
             /\ main.pc \notin {"clearVal", "storeVal"}
  BY <1>2, <1>4 DEF Undone
<1> QED
  BY <1>1, <1>2, <1>3, <1>4, <1>5 DEF Call, masks

LEMMA LevelKeptStep ==
  ASSUME IInv, Next
  PROVE  LevelKept'
<1> USE DEF LevelKept, Done, table, masks, history, irq, Doing, BeforeVal
<1>1. CASE OtherSteps /\ ~ReadPins /\ ~Call
  BY <1>1, OtherStep DEF IInv
<1>2. CASE ReadPins
  <2>1. trigger' = trigger /\ main' = main
    BY <1>2, IsrAlone DEF Isr
  <2> QED
    BY <1>2, <2>1, RecordsEdges DEF IInv
<1>3. CASE Call
  <2>1. SUFFICES ASSUME NEW p \in Pins, p \notin upset', trigger[p] # "none", ~Attaching(p)
                 PROVE  /\ trigger[p] = "LEVEL_LOW" => p \in port_val
                        /\ trigger[p] = "LEVEL_HIGH" => p \notin port_val
    BY <1>3, CallStep DEF Attaching
  <2>2. CASE p \notin upset
    BY <2>1, <2>2 DEF IInv, Attaching
  <2>3. CASE p \in upset
    BY <1>3, <2>1, <2>3, CallStep DEF IInv, EdgeKept, BeforeEdge, Attaching
  <2> QED
    BY <2>2, <2>3
<1>4. CASE SetObjMask
  BY <1>4, MainFields DEF SetObjMask, IInv
<1>5. CASE LoadVal \/ LoadVal2 \/ LoadMask
  BY <1>5 DEF LoadVal, LoadVal2, LoadMask, IInv
<1>6. CASE ClearVal
  BY <1>6, AttachStep DEF ClearVal, AttachRight, CopyRight, IInv, AttachSteps
<1>7. CASE SetEdgeMask
  BY <1>7, AttachStep DEF SetEdgeMask, AttachRight, IInv, AttachSteps
<1>8. CASE StoreVal
  BY <1>8, AttachStep DEF StoreVal, AttachRight, CopyRight, IInv, AttachSteps
<1>9. ASSUME NEW h \in Handlers, Attach(h) PROVE LevelKept'
  BY <1>9, HandlerFields DEF Attach, IInv, TypeOK, Idle
<1> QED
  BY <1>1, <1>2, <1>3, <1>4, <1>5, <1>6, <1>7, <1>8, <1>9, NextSteps DEF AttachSteps

\* A pin that takes a new level is recorded as moved only if it interrupts.
LEMMA ToggleStep ==
  ASSUME NEW p \in Pins, Toggle(p)
  PROVE  /\ PCIF => PCIF'
         /\ \A q \in moved' : q \in moved \/ q = p
         /\ \A q \in PCMSK : PCIF' \/ (q \in PIN' <=> q \in PIN)
         /\ \A q \in moved' : q \in moved \/ q \in PCMSK
         /\ \A q \in moved' : q \in moved \/ PCIF'
         /\ moved \subseteq moved'
<1>1. /\ PIN' = (PIN \ {p}) \cup ({p} \ PIN)
      /\ moved' = IF p \in PCMSK THEN moved \cup {p} ELSE moved
  BY DEF Toggle, Differ
<1>2. PCIF' = (PCIF \/ p \in PCMSK)
  BY DEF Toggle
<1>3. (PCIF => PCIF') /\ (p \in PCMSK => PCIF')
  BY <1>2, Zenon
<1>4. \A q \in PCMSK : q = p \/ (q \in PIN' <=> q \in PIN)
  BY <1>1
<1>5. \A q \in moved' : q \in moved \/ (q = p /\ p \in PCMSK)
  BY <1>1
<1>6. moved \subseteq moved'
  BY <1>1
<1>7. \A q \in PCMSK : PCIF' \/ (q \in PIN' <=> q \in PIN)
  BY <1>3, <1>4, Zenon
<1>8. \A q \in moved' : q \in moved \/ q = p
  BY <1>5, Zenon
<1>9. \A q \in moved' : q \in moved \/ q \in PCMSK
  BY <1>5, Zenon
<1>10. \A q \in moved' : q \in moved \/ PCIF'
  BY <1>3, <1>5, Zenon
<1> QED
  BY <1>3, <1>6, <1>7, <1>8, <1>9, <1>10, Zenon

LEMMA AttachKept ==
  ASSUME IInv, Next
  PROVE  AttachRight'
<1> USE DEF AttachRight, table, masks, history, irq, Doing, BeforeVal
<1>1. ASSUME NEW p \in Pins, Change(p) PROVE AttachRight'
  BY <1>1, ToggleStep DEF Change, IInv
<1>2. CASE Interrupt
  BY <1>2 DEF Interrupt, IInv, Idle
<1>3. CASE ReadPins
  <2>1. main' = main /\ trigger' = trigger /\ gpio_handler' = gpio_handler
    BY <1>3, IsrAlone DEF Isr
  <2>2. main.pc \in BeforeVal => main.h.pin \in Pins
    BY MainFields DEF IInv
  <2>3. main.pc \in BeforeVal => main.h.pin \in upset'
    BY <1>3, <2>2, RecordsEdges DEF Attaching
  <2> QED
    BY <2>1, <2>3 DEF IInv
<1>4. CASE Scan \/ Called \/ Return
  <2>1. main' = main /\ upset' = upset /\ isr.pc \notin {"idle", "read"}
    BY <1>4 DEF Scan, Called, Return
  <2> QED
    BY <1>4, <2>1, IsrAlone DEF IInv, Isr
<1>5. CASE Call
  <2>1. main' = main /\ trigger' = trigger /\ gpio_handler' = gpio_handler
    BY <1>5, IsrAlone DEF Isr
  <2>2. main.pc \in BeforeVal => main.h.pin \in upset
    BY <1>5, CallStep DEF IInv
  <2>3. main.pc \in BeforeVal => main.h.pin \in upset'
    BY <1>5, <2>2, CallStep DEF Attaching
  <2> QED
    BY <2>1, <2>3 DEF IInv
<1>6. CASE OtherSteps /\ ~Isr /\ ~\E p \in Pins : Change(p)
  <2>1. main'.pc \notin BeforeVal
    BY <1>6 DEF OtherSteps, Detach, Cli, Sei, StoreMask, EnablePort, Unmask,
                StoreUnmask, Idle
  <2> QED
    BY <2>1
<1>7. CASE SetObjMask
  BY <1>7, MainFields DEF SetObjMask, IInv
<1>8. CASE LoadVal
  BY <1>8 DEF LoadVal, IInv
<1>9. CASE ClearVal
  BY <1>9 DEF ClearVal, IInv
<1>10. CASE SetEdgeMask
  BY <1>10 DEF SetEdgeMask, IInv
<1>11. CASE LoadVal2
  BY <1>11, AttachStep, HandlerFields
     DEF LoadVal2, IInv, NewVal, Levels, AttachSteps, Triggers
<1>12. CASE StoreVal
  BY <1>12 DEF StoreVal, IInv
<1>13. CASE LoadMask
  BY <1>13 DEF LoadMask, IInv
<1>14. ASSUME NEW h \in Handlers, Attach(h) PROVE AttachRight'
  BY <1>14, HandlerFields DEF Attach, IInv, TypeOK, MainRuns, Idle
<1> QED
  BY <1>1, <1>2, <1>3, <1>4, <1>5, <1>6, <1>7, <1>8, <1>9, <1>10, <1>11, <1>12, <1>13,
     <1>14, NextSteps DEF AttachSteps, Isr

LEMMA CopyKept ==
  ASSUME IInv, Next
  PROVE  CopyRight'
<1> USE DEF CopyRight, table, masks, history, irq, Doing
<1>1. ASSUME NEW p \in Pins, Change(p) PROVE CopyRight'
  BY <1>1 DEF Change, IInv
<1>2. CASE ReadPins
  <2>1. main' = main
    BY <1>2, IsrAlone DEF Isr
  <2> QED
    BY <1>2, <2>1, RecordsEdges DEF IInv
<1>3. CASE Call
  BY <1>3, CallStep DEF IInv
<1>4. CASE Interrupt \/ Scan \/ Called \/ Return
  BY <1>4 DEF Interrupt, Scan, Called, Return, IInv
<1>5. CASE OtherSteps /\ ~Isr /\ ~\E p \in Pins : Change(p)
  BY <1>5 DEF OtherSteps, Detach, Cli, Sei, StoreMask, EnablePort, Unmask, StoreUnmask, Idle
<1>6. CASE SetObjMask
  BY <1>6, MainFields DEF SetObjMask, IInv
<1>7. CASE LoadVal \/ ClearVal \/ SetEdgeMask \/ StoreVal \/ LoadMask
  BY <1>7 DEF LoadVal, ClearVal, SetEdgeMask, StoreVal, LoadMask
<1>8. CASE LoadVal2
  BY <1>8 DEF LoadVal2, NewVal
<1>9. ASSUME NEW h \in Handlers, Attach(h) PROVE CopyRight'
  BY <1>9 DEF Attach
<1> QED
  BY <1>1, <1>2, <1>3, <1>4, <1>5, <1>6, <1>7, <1>8, <1>9, NextSteps DEF AttachSteps, Isr

LEMMA MaskKept ==
  ASSUME IInv, Next
  PROVE  MaskRight'
<1> USE DEF MaskRight, Attached, table, masks, history, irq, Doing
<1>1. ASSUME NEW p \in Pins, Change(p) PROVE MaskRight'
  BY <1>1, ToggleStep DEF Change, IInv
<1>2. ASSUME NEW p \in Pins, Detach(p) PROVE MaskRight'
  BY <1>2, PinsAssumption DEF Detach, IInv, TypeOK, Idle
<1>3. CASE Cli \/ Sei
  BY <1>3 DEF Cli, Sei, IInv
<1>4. CASE SetObjMask \/ LoadVal \/ ClearVal \/ SetEdgeMask \/ LoadVal2 \/ StoreVal
  <2>1. main'.pc \notin {"unmask", "storeMask", "storeUnmask"}
    BY <1>4, MainFields
       DEF SetObjMask, LoadVal, ClearVal, SetEdgeMask, LoadVal2, StoreVal, IInv
  <2> QED
    BY <1>4, <2>1, AttachStep DEF IInv, AttachSteps
<1>5. CASE LoadMask
  BY <1>5 DEF LoadMask, IInv
<1>6. CASE StoreMask
  BY <1>6 DEF StoreMask, IInv
<1>7. CASE EnablePort
  BY <1>7 DEF EnablePort, IInv, Idle
<1>8. CASE Unmask
  BY <1>8 DEF Unmask, IInv
<1>9. CASE StoreUnmask
  BY <1>9 DEF StoreUnmask, IInv, Idle
<1>10. ASSUME NEW h \in Handlers, Attach(h) PROVE MaskRight'
  BY <1>10, HandlerFields DEF Attach, IInv, TypeOK, Idle
<1>11. CASE Interrupt \/ ReadPins \/ Scan \/ Called \/ Return
  BY <1>11 DEF Interrupt, ReadPins, Scan, Called, Return, IInv
<1>12. CASE Call
  <2>1. isr.pin \in Pins /\ main' = main
    BY <1>12, CallStep
  <2>2. /\ PCMSK \ {isr.pin} \subseteq PCMSK' /\ PCMSK' \subseteq PCMSK
        /\ \A p \in Pins : pcint_to_gpio'[p] = p => Attached(p)
        /\ isr.pin \in PCMSK \ PCMSK' => pcint_to_gpio'[isr.pin] # isr.pin
        /\ \A q \in moved' : q \in moved \/ q \in PCMSK'
    BY <1>12, <2>1, PinsAssumption, ToggleStep DEF Call, IInv, TypeOK
  <2>3. ASSUME NEW p \in Pins, pcint_to_gpio'[p] = p, p \notin PCMSK' PROVE p \notin moved'
    BY <2>2, <2>3 DEF IInv, Attached
  <2>4. main.pc = "unmask" => main.pin \in Pins
    BY MainFields DEF IInv
  <2>5. main'.pc = "unmask" => pcint_to_gpio'[main'.pin] # main'.pin
    BY <2>1, <2>2, <2>4 DEF IInv
  <2>6. PCMSK \subseteq Pins
    BY DEF IInv, TypeOK
  <2>7. main'.pc \in {"storeMask", "storeUnmask"} =>
          \A p \in PCMSK' : pcint_to_gpio'[p] = p => p \in main'.mask
    BY <2>1, <2>2, <2>6 DEF IInv
  <2> QED
    BY <2>3, <2>5, <2>7
<1> QED
  BY <1>1, <1>2, <1>3, <1>4, <1>5, <1>6, <1>7, <1>8, <1>9, <1>10, <1>11, <1>12
     DEF Next, Main, Isr

-----------------------------------------------------------------------------
(* The interrupt *)

\* While the interrupt handles what it has read, the records stay as they are.
LEMMA ScanStep ==
  ASSUME IInv, Next, Scanning
  PROVE  /\ Isr \/ \E p \in Pins : Change(p)
         /\ main' = main /\ trigger' = trigger /\ port_val' = port_val
         /\ port_edge_mask' = port_edge_mask /\ ~AttachSteps /\ upset' \subseteq upset
<1> USE DEF Scanning, Doing, MainRuns, Idle, masks, history, irq
<1>1. isr # Idle
  OBVIOUS
<1>2. Isr \/ \E p \in Pins : Change(p)
  BY <1>1 DEF Next, Main, Detach, Attach, Cli, Sei, SetObjMask, LoadVal, ClearVal,
              SetEdgeMask, LoadVal2, StoreVal, LoadMask, StoreMask, EnablePort, Unmask,
              StoreUnmask
<1>3. ~ReadPins /\ ~AttachSteps
  BY <1>1 DEF ReadPins, AttachSteps, SetObjMask, LoadVal, ClearVal, SetEdgeMask, LoadVal2,
              StoreVal, LoadMask
<1>4. OtherSteps
  BY <1>2 DEF OtherSteps
<1>5. upset' \subseteq upset
  BY <1>3, <1>4, OtherStep, CallStep
<1>6. main' = main
  BY <1>2, IsrAlone DEF Change
<1> QED
  BY <1>2, <1>3, <1>4, <1>5, <1>6, OtherStep

\* What the interrupt holds after a step that goes on with the scan.
LEMMA ScanOn ==
  ASSUME IInv, Scan \/ Call \/ Called
  PROVE  /\ Scanning /\ isr'.new_val = isr.new_val
         /\ isr'.pc \in {"scan", "call", "called"}
         /\ \A p \in Pins :
              (p \in isr'.diff \/ (isr'.pc \in {"call", "called"} /\ isr'.pin = p))
                => p \in isr.diff \/ (Calling /\ isr.pin = p)
         /\ isr'.pc \in {"call", "called"} =>
              \/ Calling /\ isr'.pin = isr.pin
              \/ isr'.pin \in Pins /\ Attached(isr'.pin)
<1> USE DEF Scanning, Calling
<1>1. CASE Scan
  BY <1>1, ScanSteps DEF IInv
<1>2. CASE Call
  BY <1>2, CallStep
<1>3. CASE Called
  <2>1. TypeOK /\ isr.pc = "called"
    BY <1>3 DEF Called, IInv
  <2>2. [isr EXCEPT !.pc = "call"] = [pc |-> "call", new_val |-> isr.new_val,
                                      diff |-> isr.diff, pin |-> isr.pin]
    BY <2>1, IsrFields
  <2> QED
    BY <1>3, <2>1, <2>2 DEF Called
<1> QED
  BY <1>1, <1>2, <1>3

LEMMA ScanKept ==
  ASSUME IInv, Next
  PROVE  ScanRight'
<1> USE DEF ScanRight, Scanning, Calling
<1>1. CASE ReadPins
  <2>1. /\ isr' = [pc |-> "scan", new_val |-> PIN, diff |-> Differ(port_val, PIN)]
        /\ trigger' = trigger /\ PIN' = PIN /\ PCMSK' = PCMSK
        /\ port_edge_mask' = port_edge_mask
    BY <1>1 DEF ReadPins, irq
  <2>2. isr'.pc = "scan" /\ isr'.new_val = PIN /\ isr'.diff = Differ(port_val, PIN)
    BY <2>1
  <2>3. port_edge_mask \subseteq Pins
    BY DEF IInv, TypeOK
  <2>4. \A p \in port_edge_mask' : p \in isr'.new_val <=> p \in port_val'
    BY <1>1, <2>1, <2>2, <2>3, RecordsEdges
  <2>5. ASSUME NEW p \in Pins \ upset', p \in isr'.diff, trigger[p] \notin {"none", "EDGE_ANY"}
        PROVE  p \in isr'.new_val <=> p \notin port_val'
    BY <1>1, <2>2, <2>5, RecordsEdges DEF Differ
  <2> QED
    BY <2>1, <2>2, <2>4, <2>5
<1>2. CASE Scan \/ Call \/ Called
  <2>1. /\ trigger' = trigger /\ port_val' = port_val /\ port_edge_mask' = port_edge_mask
        /\ upset' \subseteq upset /\ Scanning /\ isr'.new_val = isr.new_val
    BY <1>2, ScanStep, ScanOn
  <2>2. \A p \in port_edge_mask' : p \in isr'.new_val <=> p \in port_val'
    BY <2>1 DEF IInv
  <2>3. ASSUME NEW p \in Pins \ upset',
               p \in isr'.diff \/ (isr'.pc \in {"call", "called"} /\ isr'.pin = p),
               trigger[p] \notin {"none", "EDGE_ANY"}
        PROVE  p \in isr'.new_val <=> p \notin port_val'
    <3>1. p \in isr.diff \/ (Calling /\ isr.pin = p)
      BY <1>2, <2>3, ScanOn
    <3>2. CASE p \notin upset
      BY <2>1, <2>3, <3>1, <3>2 DEF IInv
    <3>3. CASE p \in upset
      <4>1. Call
        BY <1>2, <2>3, <3>3 DEF Scan, Called, history
      <4>2. p \in port_edge_mask /\ ~Attaching(p)
        BY <2>3, <3>3, <4>1, CallStep
      <4> QED
        BY <2>3, <4>2 DEF IInv, EdgeKept, Done, BeforeEdge, Attaching, BeforeVal
    <3> QED
      BY <3>2, <3>3
  <2>4. isr'.pc \in {"call", "called"} => trigger[isr'.pin] # "none"
    BY <1>2, <2>1, ScanOn DEF IInv, SlotsRight
  <2>5. \A p \in PCMSK' : PCIF' \/ (p \in PIN' <=> p \in isr'.new_val)
    <3>1. CASE Scan \/ Called
      BY <2>1, <3>1 DEF Scan, Called, irq, IInv
    <3>2. CASE Call
      <4>1. isr.pin \in Pins
        BY <3>2, CallStep
      <4>2. PCMSK' \subseteq PCMSK /\ (PCIF => PCIF')
            /\ \A q \in PCMSK : PCIF' \/ (q \in PIN' <=> q \in PIN)
        BY <3>2, <4>1, ToggleStep DEF Call
      <4> QED
        BY <2>1, <4>2 DEF IInv
    <3> QED
      BY <1>2, <3>1, <3>2
  <2> QED
    BY <2>1, <2>2, <2>3, <2>4, <2>5
<1>3. CASE Interrupt \/ Return
  BY <1>3 DEF Interrupt, Return, Idle
<1>4. ASSUME NEW p \in Pins, Change(p) PROVE ScanRight'
  BY <1>4, ToggleStep DEF Change, masks, IInv
<1>5. CASE ~Isr /\ ~\E p \in Pins : Change(p)
  <2>1. isr = Idle /\ isr' = isr
    BY <1>5 DEF Next, Main, Detach, Attach, Cli, Sei, SetObjMask, LoadVal, ClearVal,
                SetEdgeMask, LoadVal2, StoreVal, LoadMask, StoreMask, EnablePort, Unmask,
                StoreUnmask, Doing, MainRuns
  <2> QED
    BY <2>1 DEF Idle
<1> QED
  BY <1>1, <1>2, <1>3, <1>4, <1>5 DEF Isr

LEMMA ToldKept ==
  ASSUME IInv, Next
  PROVE  Told'
<1> USE DEF Told, Attached, Scanning, Done, BeforeVal
<1>1. ASSUME NEW p \in Pins, Change(p) PROVE Told'
  BY <1>1 DEF Change, IInv, masks, table
<1>2. ASSUME NEW q \in Pins, Detach(q) PROVE Told'
  BY <1>2, PinsAssumption DEF Detach, IInv, TypeOK, masks, history, Idle
<1>3. CASE Cli \/ Sei \/ StoreMask \/ EnablePort \/ Unmask \/ StoreUnmask
  BY <1>3 DEF Cli, Sei, StoreMask, EnablePort, Unmask, StoreUnmask, Doing, IInv, masks,
              table, history, Idle
<1>4. CASE SetObjMask \/ LoadVal \/ LoadMask
  BY <1>4, MainFields DEF SetObjMask, LoadVal, LoadMask, Doing, IInv, masks, table, history
<1>5. CASE ClearVal
  BY <1>5, AttachStep DEF ClearVal, Doing, IInv, CopyRight, masks, table, history, AttachSteps
<1>6. CASE SetEdgeMask
  BY <1>6, AttachStep, HandlerFields
     DEF SetEdgeMask, Doing, IInv, AttachRight, masks, table, history, AttachSteps, Triggers
<1>7. CASE LoadVal2
  BY <1>7, AttachStep DEF LoadVal2, Levels, Doing, IInv, masks, table, AttachSteps
<1>8. CASE StoreVal
  BY <1>8, AttachStep
     DEF StoreVal, Doing, IInv, AttachRight, CopyRight, table, history, AttachSteps
<1>9. ASSUME NEW h \in Handlers, Attach(h) PROVE Told'
  BY <1>9, HandlerFields DEF Attach, IInv, TypeOK, masks, Idle
<1>10. CASE Interrupt
  BY <1>10 DEF Interrupt, IInv, masks, table, history, Idle
<1>11. CASE ReadPins
  <2>1. /\ isr' = [pc |-> "scan", new_val |-> PIN, diff |-> Differ(port_val, PIN)]
        /\ isr.pc = "read" /\ told' = told /\ trigger' = trigger
        /\ pcint_to_gpio' = pcint_to_gpio
    BY <1>11 DEF ReadPins, table
  <2>2. isr'.pc = "scan" /\ isr'.diff = Differ(port_val, PIN) /\ main' = main
    BY <1>11, <2>1, IsrAlone DEF Isr
  <2>3. SUFFICES ASSUME NEW p \in Pins \ upset', Attached(p), ~Attaching(p),
                        trigger[p] = "EDGE_ANY"
                 PROVE  (p \in told <=> p \in port_val') \/ p \in isr'.diff
    BY <1>11, <2>1, <2>2, RecordsEdges
  <2>4. p \notin upset /\ p \in port_edge_mask /\ (p \in port_val' <=> p \in PIN)
    BY <1>11, <2>3, RecordsEdges
  <2>5. p \in told <=> p \in port_val
    BY <2>1, <2>3, <2>4 DEF IInv, Attaching
  <2> QED
    BY <2>2, <2>4, <2>5 DEF Differ
<1>12. CASE Scan
  <2>1. /\ trigger' = trigger /\ port_val' = port_val /\ main' = main
    BY <1>12, ScanStep DEF Scan
  <2>2. told' = told /\ pcint_to_gpio' = pcint_to_gpio /\ upset' = upset
    BY <1>12 DEF Scan, table, history
  <2>3. TypeOK /\ SlotsRight /\ Told
    BY DEF IInv
  <2>4. isr.pc = "scan" /\ Lowest \in Pins
    BY <1>12, <2>3, ScanSteps
  <2>5. CASE ~(pcint_to_gpio[Lowest] = Lowest)
    <3>1. isr'.pc = "scan" /\ isr'.diff = isr.diff \ {Lowest}
      BY <1>12, <2>3, <2>5, ScanSteps
    <3> QED
      BY <2>1, <2>2, <2>3, <2>4, <2>5, <3>1
  <2>6. CASE pcint_to_gpio[Lowest] = Lowest
    <3>1. isr'.pc = "call" /\ isr'.diff = isr.diff \ {Lowest} /\ isr'.pin = Lowest
      BY <1>12, <2>3, <2>6, ScanSteps
    <3> QED
      BY <2>1, <2>2, <2>3, <2>4, <3>1
  <2> QED
    BY <2>5, <2>6
<1>13. CASE Call
  <2>1. told' = (told \ {isr.pin}) \cup (isr.new_val \cap {isr.pin})
    BY <1>13 DEF Call, Levels
  <2>2. \A p \in Pins : pcint_to_gpio'[p] = p => pcint_to_gpio[p] = p
    BY <1>13, CallStep, PinsAssumption DEF Call, IInv, TypeOK
  <2>3. SUFFICES ASSUME NEW p \in Pins \ upset', Attached(p), ~Attaching(p),
                        trigger[p] = "EDGE_ANY"
                 PROVE  (p \in told' <=> p \in port_val) \/ p \in isr.diff
    BY <1>13, <2>2, CallStep DEF Attaching
  <2>4. CASE p = isr.pin
    <3>1. p \in port_edge_mask
      BY <2>3 DEF IInv, EdgeKept, BeforeEdge, Attaching
    <3>2. p \in isr.new_val <=> p \in port_val
      BY <1>13, <3>1, CallStep DEF IInv, ScanRight
    <3> QED
      BY <2>1, <2>4, <3>2
  <2>5. CASE p # isr.pin
    <3>1. p \notin upset
      BY <1>13, <2>3, <2>5, CallStep
    <3> QED
      BY <1>13, <2>1, <2>3, <2>5, <3>1, CallStep DEF IInv, Attaching
  <2> QED
    BY <2>4, <2>5
<1>14. CASE Called
  <2>1. trigger' = trigger /\ port_val' = port_val /\ main' = main
    BY <1>14, ScanStep DEF Called
  <2>2. told' = told /\ pcint_to_gpio' = pcint_to_gpio /\ upset' = upset
    BY <1>14 DEF Called, table, history
  <2>3. TypeOK /\ Calling /\ isr.pc = "called"
    BY <1>14 DEF Called, Calling, IInv
  <2>4. [isr EXCEPT !.pc = "call"] = [pc |-> "call", new_val |-> isr.new_val,
                                      diff |-> isr.diff, pin |-> isr.pin]
    BY <2>3, IsrFields
  <2>5. isr'.pc \in {"scan", "call"} /\ isr'.diff = isr.diff
    BY <1>14, <2>4 DEF Called
  <2> QED
    BY <2>1, <2>2, <2>3, <2>5 DEF IInv
<1>15. CASE Return
  BY <1>15 DEF Return, IInv, masks, table, history
<1> QED
  BY <1>1, <1>2, <1>3, <1>4, <1>5, <1>6, <1>7, <1>8, <1>9, <1>10, <1>11, <1>12, <1>13, <1>14,
     <1>15 DEF Next, Main, Isr

\* A pin that takes a new level is recorded as moved, and the interrupt as
\* pending, together.
LEMMA RecentKept ==
  ASSUME IInv, Next
  PROVE  Recent'
<1> USE DEF Recent, Attached, Done, BeforeVal
<1>1. ASSUME NEW q \in Pins, Change(q) PROVE Recent'
  BY <1>1, ToggleStep DEF Change, IInv, masks, table
<1>2. ASSUME NEW p \in Pins, Detach(p) PROVE Recent'
  BY <1>2, PinsAssumption DEF Detach, IInv, TypeOK, irq, masks, history, Idle
<1>3. CASE Cli \/ Sei \/ EnablePort \/ Unmask
  BY <1>3 DEF Cli, Sei, EnablePort, Unmask, IInv, irq, masks, history, table, Doing, Idle
<1>4. CASE SetObjMask \/ LoadVal \/ LoadVal2 \/ LoadMask
  BY <1>4, MainFields
     DEF SetObjMask, LoadVal, LoadVal2, LoadMask, Doing, IInv, irq, masks, history, table
<1>5. CASE SetEdgeMask
  BY <1>5, AttachStep, HandlerFields
     DEF SetEdgeMask, Doing, IInv, AttachRight, irq, masks, history, table, AttachSteps
<1>6. CASE ClearVal
  <2>1. /\ PCMSK' = PCMSK /\ PCIF' = PCIF /\ PIN' = PIN /\ pcint_to_gpio' = pcint_to_gpio
        /\ trigger' = trigger /\ moved' = moved /\ upset' = upset /\ isr' = isr
        /\ main.pc = "clearVal" /\ main' = [pc |-> "edge", h |-> main.h]
        /\ port_val' = main.val \ {main.h.pin}
    BY <1>6 DEF ClearVal, Doing, irq, table, history
  <2>2. PCMSK \subseteq Pins
    BY DEF IInv, TypeOK
  <2>3. ASSUME NEW p \in Pins \ upset, ~(main'.pc \in BeforeVal /\ main'.h.pin = p)
        PROVE  /\ ~(main.pc \in BeforeVal /\ main.h.pin = p)
               /\ p \in port_val' <=> p \in port_val
    BY <2>1, <2>3 DEF IInv, CopyRight
  <2> QED
    BY <2>1, <2>2, <2>3 DEF IInv
<1>7. CASE StoreVal
  <2>1. /\ PCMSK' = PCMSK /\ PCIF' = PCIF /\ PIN' = PIN /\ pcint_to_gpio' = pcint_to_gpio
        /\ trigger' = trigger /\ moved' = moved /\ upset' = upset /\ isr' = isr
        /\ main.pc = "storeVal" /\ port_val' = main.val /\ isr.pc = "idle"
    BY <1>7 DEF StoreVal, Doing, MainRuns, Idle, irq, table, history
  <2>2. PCMSK \subseteq Pins
    BY DEF IInv, TypeOK
  <2>3. ASSUME NEW p \in PCMSK \cap moved, p \notin upset, p = main.h.pin
        PROVE  PCIF
    BY <2>1, <2>3 DEF IInv, AttachRight
  <2>4. ASSUME NEW p \in Pins \ upset, p # main.h.pin
        PROVE  p \in port_val' <=> p \in port_val
    BY <2>1, <2>4 DEF IInv, CopyRight
  <2> QED
    BY <2>1, <2>2, <2>3, <2>4 DEF IInv
<1>8. CASE StoreMask
  BY <1>8, MainFields
     DEF StoreMask, Doing, MainRuns, Idle, IInv, TypeOK, MaskRight, masks, history, table
<1>9. CASE StoreUnmask
  BY <1>9, MainFields
     DEF StoreUnmask, Doing, MainRuns, Idle, IInv, TypeOK, MaskRight, masks, history, table
<1>10. ASSUME NEW h \in Handlers, Attach(h) PROVE Recent'
  BY <1>10, HandlerFields DEF Attach, IInv, TypeOK, irq, masks, Idle
<1>11. CASE Interrupt
  BY <1>11 DEF Interrupt, IInv, masks, history, table
<1>12. CASE ReadPins
  <2>1. /\ PIN' = PIN /\ irq' = irq /\ table' = table /\ trigger' = trigger /\ moved' = moved
        /\ main' = main
    BY <1>12, IsrAlone DEF ReadPins, Isr
  <2>2. ASSUME NEW p \in Pins \ upset', trigger[p] = "EDGE_ANY"
        PROVE  p \in PIN <=> p \in port_val'
    BY <1>12, <2>2, RecordsEdges
  <2> QED
    BY <2>1, <2>2 DEF IInv, TypeOK, irq, table
<1>13. CASE Scan \/ Called \/ Return
  BY <1>13, IsrAlone DEF Scan, Called, Return, IInv, irq, masks, history, table, Isr
<1>14. CASE Call
  <2>1. /\ isr.pc = "call" /\ isr.pin \in Pins /\ Scanning /\ main' = main
        /\ trigger' = trigger /\ port_val' = port_val
    BY <1>14, CallStep
  <2>2. /\ PCMSK' \subseteq PCMSK /\ (PCIF => PCIF')
        /\ \A p \in Pins : Attached(p)' => Attached(p)
        /\ \A q \in moved' : q \in moved \/ PCIF'
        /\ \A q \in PCMSK : PCIF' \/ (q \in PIN' <=> q \in PIN)
    BY <1>14, <2>1, PinsAssumption, ToggleStep DEF Call, IInv, TypeOK
  <2>3. SUFFICES ASSUME NEW p \in PCMSK' \cap moved', p \notin upset', Attached(p),
                        ~Attaching(p), trigger[p] = "EDGE_ANY", ~PCIF', p \in Pins
                 PROVE  p \in PIN' <=> p \in port_val
    BY <2>1, <2>2 DEF IInv, TypeOK, Attaching
  <2>4. p \in PCMSK /\ p \in moved /\ ~PCIF /\ (p \in PIN' <=> p \in PIN)
    BY <2>2, <2>3
  <2>5. CASE p \notin upset
    BY <2>1, <2>3, <2>4, <2>5 DEF IInv, Attaching
  <2>6. CASE p \in upset
    BY <1>14, <2>1, <2>3, <2>4, <2>6, CallStep DEF IInv, ScanRight
  <2> QED
    BY <2>4, <2>5, <2>6
<1> QED
  BY <1>1, <1>2, <1>3, <1>4, <1>5, <1>6, <1>7, <1>8, <1>9, <1>10, <1>11, <1>12, <1>13, <1>14
     DEF Next, Main, Isr

-----------------------------------------------------------------------------
(* The theorems *)

LEMMA Starts ==
  ASSUME Init
  PROVE  IInv
<1>1. TypeOK
  BY InitTyped
<1> QED
  BY <1>1, PinsAssumption
     DEF Init, IInv, SlotsRight, Attached, KindKept, EdgeKept, LevelKept, Done,
         AttachRight, CopyRight, MaskRight, ScanRight, Scanning, Calling, Told, Recent,
         BeforeVal, BeforeEdge, Idle

LEMMA Stutters ==
  ASSUME IInv, UNCHANGED vars
  PROVE  IInv'
  BY DEF IInv, TypeOK, SlotsRight, Attached, KindKept, EdgeKept, LevelKept,
         Done, AttachRight, CopyRight, MaskRight, ScanRight, Scanning, Calling, Told, Recent,
         vars, irq, table, masks, history

LEMMA Inductive ==
  ASSUME IInv, [Next]_vars
  PROVE  IInv'
<1>1. CASE Next
  <2>1. TypeOK /\ SlotsRight
    BY DEF IInv
  <2>2. TypeOK'
    <3>1. ASSUME NEW p \in Pins, Change(p) PROVE TypeOK'
      BY <2>1, <3>1, IsrTyped
    <3>2. ASSUME NEW p \in Pins, Detach(p) PROVE TypeOK'
      BY <2>1, <3>2, MainTyped
    <3>3. ASSUME NEW h \in Handlers, Attach(h) PROVE TypeOK'
      BY <2>1, <3>3, MainTyped
    <3>4. CASE Cli \/ Main
      BY <2>1, <3>4, MainTyped
    <3>5. CASE Isr
      BY <2>1, <3>5, IsrTyped
    <3> QED
      BY <1>1, <3>1, <3>2, <3>3, <3>4, <3>5 DEF Next
  <2> QED
    BY <1>1, <2>2, SlotsKept, KindKeptStep, EdgeKeptStep, LevelKeptStep,
       AttachKept, CopyKept, MaskKept, ScanKept, ToldKept, RecentKept DEF IInv
<1>2. CASE UNCHANGED vars
  BY <1>2, Stutters
<1> QED
  BY <1>1, <1>2

\* The registers keep to the pins of the port and every step finds what the one
\* before it left for it.
THEOREM TypeCorrect == Spec => []TypeOK
<1>1. Init => IInv
  BY Starts
<1>2. IInv /\ [Next]_vars => IInv'
  BY Inductive
<1>3. IInv => TypeOK
  BY DEF IInv
<1> QED
  BY <1>1, <1>2, <1>3, PTL DEF Spec

\* Whatever is attached, detached and changes in whatever order, a handler is
\* called as the object or function it is, and one that waits for a level at that
\* level (Sensorino.cpp:298-308), save for a pin whose attaching an interrupt has
\* cut into.
THEOREM RightlyCalled == Spec => []CalledRight
<1>1. Init => IInv
  BY Starts
<1>2. IInv /\ [Next]_vars => IInv'
  BY Inductive
<1>3. IInv => CalledRight
  <2>1. ASSUME IInv, isr.pc = "call" PROVE RightKind /\ LevelMatches
    <3>1. TypeOK /\ Scanning /\ Calling
      BY <2>1 DEF IInv, Scanning, Calling
    <3>2. isr.pin \in Pins
      BY <3>1, IsrFields
    <3>3. trigger[isr.pin] \in Triggers
      BY <2>1, <3>1, <3>2 DEF IInv, ScanRight, TypeOK
    <3>4. RightKind
      BY <2>1, <3>2, <3>3 DEF RightKind, IInv, KindKept, Done, Triggers
    <3>5. LevelMatches
      <4>1. SUFFICES ASSUME isr.pin \notin port_edge_mask, isr.pin \notin upset
                     PROVE  trigger[isr.pin] = IF isr.pin \in isr.new_val
                                               THEN "LEVEL_HIGH" ELSE "LEVEL_LOW"
        BY DEF LevelMatches
      <4>2. ~(main.pc \in BeforeVal /\ main.h.pin = isr.pin)
        BY <2>1, <4>1 DEF IInv, AttachRight
      <4>3. trigger[isr.pin] \in {"LEVEL_LOW", "LEVEL_HIGH"}
        BY <2>1, <3>2, <3>3, <4>1, <4>2
           DEF IInv, EdgeKept, Done, Triggers, BeforeEdge, BeforeVal
      <4>4. /\ trigger[isr.pin] = "LEVEL_LOW" => isr.pin \in port_val
            /\ trigger[isr.pin] = "LEVEL_HIGH" => isr.pin \notin port_val
        BY <2>1, <3>2, <3>3, <4>1, <4>2 DEF IInv, LevelKept, Done, Triggers
      <4>5. isr.pin \in isr.new_val <=> isr.pin \notin port_val
        BY <2>1, <3>1, <3>2, <4>1, <4>3 DEF IInv, ScanRight
      <4> QED
        BY <4>3, <4>4, <4>5
    <3> QED
      BY <3>4, <3>5
  <2> QED
    BY <2>1 DEF CalledRight, RightKind, LevelMatches
<1> QED
  BY <1>1, <1>2, <1>3, PTL DEF Spec

\* However many opposite pairs of edges SensorinoGPIOISR misses, and whatever it
\* interrupts, no single edge of a pin is lost (Sensorino.cpp:290-293), unless an
\* interrupted doAttachGPIOInterrupt has upset the pin and its handler has not been
\* called since.
THEOREM NoEdgeLost == Spec => []EdgesTold
<1>1. Init => IInv
  BY Starts
<1>2. IInv /\ [Next]_vars => IInv'
  BY Inductive
<1>3. IInv => EdgesTold
  <2>1. SUFFICES ASSUME IInv, NEW p \in Settled \ upset PROVE p \in told <=> p \in PIN
    BY DEF EdgesTold
  <2>2. /\ isr.pc = "idle" /\ main.pc = "idle" /\ ~PCIF /\ p \in PCMSK \cap moved
        /\ Attached(p) /\ trigger[p] = "EDGE_ANY"
    BY DEF Settled, Idle
  <2>3. p \in Pins
    BY <2>1, <2>2 DEF IInv, TypeOK
  <2>4. p \in told <=> p \in port_val
    BY <2>1, <2>2, <2>3 DEF IInv, Told, Done, Scanning, BeforeVal
  <2>5. p \in PIN <=> p \in port_val
    BY <2>1, <2>2, <2>3 DEF IInv, Recent, Done, BeforeVal
  <2> QED
    BY <2>4, <2>5
<1> QED
  BY <1>1, <1>2, <1>3, PTL DEF Spec

=============================================================================
