---------------------------- MODULE Conversation ----------------------------
(***************************************************************************)
(* The computer talks to the services of the nodes: the objects it types   *)
(* become messages in the Base, a node finds the service they are for, and *)
(* what the service answers is printed by the Base as an object.  The code *)
(* is that of Base.cpp between serial line and radio, of Sensorino.cpp and *)
(* Service.cpp, and of the services' onSet and onRequest.                  *)
(*                                                                         *)
(* Messages arrive once and in order.  RuleService keeps a list of rules,  *)
(* which RuleStore shows it does; a rule's action, which RuleEngine is     *)
(* about, sets the relay of its node whenever the node publishes, or does  *)
(* not.  log, and of in a message, are history; the code reads neither.    *)
(***************************************************************************)
EXTENDS JsonConversion
LOCAL INSTANCE Integers
LOCAL INSTANCE Sequences
LOCAL INSTANCE SequencesExt
LOCAL INSTANCE TLC

CONSTANTS
  Nodes,        \* addresses, 0 being the Base's
  Offered,      \* services that may be there: [id, kind]
  MaxServices,  \* MAX_SERVICES
  StoreSize,    \* bytes for rules
  Objects,      \* what the computer may type, and the errors the Base may
                \* answer it with: [pairs, errors]
  Conditions,   \* for each text of a condition, its tree
  Junks,        \* what an uninitialised byte may hold
  Measured,     \* what a sensor may have measured
  MaxTyped, MaxPressed

VARIABLES
  services,     \* of each node, in the order of their registration
  pin,          \* of each node, what its switch and its relay are at
  rules,        \* of each node: [id, cond, act, of]
  stopped,      \* addresses where die() has been called
  air,          \* messages under way: [to, m, of]
  junk,
  log           \* what was typed or published: [pairs, due, got, obeyed]

vars == <<services, pin, rules, stopped, air, junk, log>>

VOLTAGE == 45
TEMPERATURE == 43
Kinds == {"manager", "rules", "relay", "switch", "adc", "thermometer"}
Sensed == [k \in {"adc", "thermometer"} |-> IF k = "adc" THEN VOLTAGE ELSE TEMPERATURE]

Init ==
  /\ services = [n \in Nodes |-> <<>>]
  /\ pin = [n \in Nodes |-> [switch |-> 0, relay |-> 0]]
  /\ rules = [n \in Nodes |-> <<>>]
  /\ stopped = {} /\ air = <<>> /\ log = <<>>
  /\ junk \in Junks

-----------------------------------------------------------------------------
(* The table of services.                                                  *)

\* The number of the first service with this id, 0 when there is none.
GetServiceById(n, id) == SelectInSeq(services[n], LAMBDA s : s.id = id)

AddService(n, s) ==
  /\ n \notin stopped /\ log = <<>>
  /\ IF Len(services[n]) >= MaxServices \/ GetServiceById(n, s.id) # 0
       THEN stopped' = stopped \cup {n} /\ UNCHANGED services
       ELSE services' = [services EXCEPT ![n] = Append(@, s)] /\ UNCHANGED stopped
  /\ UNCHANGED <<pin, rules, air, junk, log>>

DeleteService(n, i) ==
  /\ n \notin stopped /\ i \in DOMAIN services[n]
  /\ services' = [services EXCEPT ![n] = RemoveAt(@, i)]
  /\ UNCHANGED <<pin, rules, stopped, air, junk, log>>

-----------------------------------------------------------------------------
(* Messages that services send.                                            *)

StartBaseMessage(n, s, type, orig) ==
  [from |-> n, to |-> IF orig = <<>> THEN 0 ELSE orig[1].from, type |-> type,
   payload |-> AddInt(SERVICE_ID, s.id)]

With(m, bytes) == [m EXCEPT !.payload = @ \o bytes]
Publish(n, s, orig) == StartBaseMessage(n, s, PUBLISH, orig)
Err(n, s, orig) == StartBaseMessage(n, s, ERR, orig)
ErrAbout(n, s, orig, t) == With(Err(n, s, orig), AddInt(DATATYPE, t))

\* No service has this id: the Base is told.
NoService(n) ==
  [from |-> n, to |-> 0, type |-> ERR, payload |-> AddInt(DATATYPE, SERVICE_ID)]

\* sendMessage: one to the node itself goes to the Base.
OnAir(n, ms, of) ==
  [i \in DOMAIN ms |-> [to |-> IF ms[i].to = n THEN 0 ELSE ms[i].to, m |-> ms[i], of |-> of]]

Described(m, published, types) ==
  With(m, published \o FlattenSeq([i \in DOMAIN types |-> AddInt(DATATYPE, types[i])]))

\* The services of one value answer a REQUEST for it, for a description, or with an
\* ERR.
ValueRequest(m, t, value, description, err) ==
  LET req == Find(m.payload, DATATYPE, 0)
  IN  IF req = <<>> \/ req = <<t>> THEN value
      ELSE IF req = <<DATATYPE>> THEN description
      ELSE err

ManagerAnswer(n, s, m) ==
  LET others == SelectSeq(services[n], LAMBDA o : o.id # s.id)
  IN  With(Publish(n, s, <<m>>), FlattenSeq([i \in DOMAIN others |-> AddInt(SERVICE_ID, others[i].id)]))

SwitchState(n, s) == With(Publish(n, s, <<>>), AddBool(SWITCH, pin[n].switch))

\* An answer goes to the sender of the request where the code hands it over.
RelayAnswer(n, s, m) ==
  ValueRequest(m, SWITCH,
    With(Publish(n, s, <<m>>), AddBool(SWITCH, pin[n].relay)),
    Described(Publish(n, s, <<>>), AddInt(COUNT, 0) \o AddInt(COUNT, 1), <<SWITCH>>),
    ErrAbout(n, s, <<m>>, DATATYPE))
SwitchAnswer(n, s, m) ==
  ValueRequest(m, SWITCH, SwitchState(n, s),
    Described(Publish(n, s, <<m>>), AddInt(COUNT, 1), <<SWITCH>>), ErrAbout(n, s, <<m>>, DATATYPE))
SensorAnswer(n, s, m, v) ==
  LET t == Sensed[s.kind]
  IN  ValueRequest(m, t, With(Publish(n, s, <<>>), AddFloat(t, v)),
        Described(Publish(n, s, <<m>>), AddInt(COUNT, 1), <<t>>), ErrAbout(n, s, <<m>>, DATATYPE))

-----------------------------------------------------------------------------
(* RuleService.                                                            *)

FindRule(n, id) == SelectInSeq(rules[n], LAMBDA r : r.id = id)
Room(n) ==
  FoldLeft(LAMBDA left, r : left - 3 - Len(r.cond) - Len(r.act), StoreSize, rules[n])

\* What a SET answers, and the rules after it.
RulesSet(n, s, m, of) ==
  LET count == Find(m.payload, COUNT, 0)
      cond == Find(m.payload, EXPRESSION, 0)
      act == Find(m.payload, MESSAGE, 0)
      at == FindRule(n, count[1])
      new == [id |-> count[1], cond |-> cond[1], act |-> act[1], of |-> of]
      unknown == IF at = 0 THEN <<ErrAbout(n, s, <<m>>, COUNT)>> ELSE <<>>
      result(rs, answer) == [rules |-> rs, answer |-> answer]
  IN  IF count = <<>> THEN result(rules[n], <<ErrAbout(n, s, <<m>>, COUNT)>>)
      ELSE IF cond = <<>> /\ act = <<>> THEN
        result(IF at = 0 THEN rules[n] ELSE SubSeq(rules[n], 1, at - 1), unknown)
      ELSE IF cond = <<>> \/ act = <<>> THEN result(rules[n], Append(unknown, Err(n, s, <<m>>)))
      ELSE IF at # 0 THEN result(rules[n], <<ErrAbout(n, s, <<m>>, COUNT)>>)
      ELSE IF 4 + Len(cond[1]) + Len(act[1]) > Room(n) THEN result(rules[n], <<Err(n, s, <<>>)>>)
      ELSE result(Append(rules[n], new), <<>>)

\* The types that a request names, without the first num.
TypesNamed(m, num) ==
  LET named == SelectSeq(Values(m.payload, NaN), LAMBDA e : e.type = DATATYPE)
  IN  [i \in 1 .. Len(named) - num |-> named[num + i].val]

\* Neither the variables that say what was asked for nor the number of the first
\* type to look at are initialised: they say held, and num.  Bound: num is at most 2,
\* past the types that an object names.
RulesAnswer(n, s, m, num, held) ==
  LET count == Find(m.payload, COUNT, 0)
      at == FindRule(n, count[1])
      named == TypesNamed(m, num)
      others == SelectSeq(named, LAMBDA t : t \notin {DATATYPE, EXPRESSION, MESSAGE})
      shown == held \cup ToSet(named)
      text(t, bytes) == IF t \in shown THEN AddBinary(t, bytes) ELSE <<>>
  IN  IF others # <<>> THEN ErrAbout(n, s, <<m>>, others[1])
      ELSE IF count = <<>> THEN
        (IF DATATYPE \in shown
           THEN Described(Publish(n, s, <<m>>), AddInt(COUNT, 0) \o AddInt(COUNT, 2), <<EXPRESSION, MESSAGE>>)
           ELSE ErrAbout(n, s, <<m>>, COUNT))
      ELSE IF at = 0 THEN ErrAbout(n, s, <<m>>, COUNT)
      ELSE With(Publish(n, s, <<m>>),
             AddInt(COUNT, count[1]) \o text(EXPRESSION, rules[n][at].cond)
               \o text(MESSAGE, rules[n][at].act))

-----------------------------------------------------------------------------
(* The reference: what the computer may expect of node n, in its own terms.*)

\* An object as the values of each name.
Meaning(pairs) ==
  [name \in {pairs[i].name : i \in DOMAIN pairs} |->
     LET v == GetItem(pairs, name)[1] IN IF Is(v, "array") THEN v.array ELSE <<v>>]

Ints(is) == [i \in DOMAIN is |-> [int |-> is[i]]]
Says(n, type) == ("type" :> <<Str(type)>>) @@ ("from" :> Ints(<<n>>))
Answer(n, type, id, more) == Says(n, type) @@ ("ServiceId" :> Ints(<<id>>)) @@ more
Complaint(n, id, name) == Answer(n, "err", id, "DataType" :> <<Str(name)>>)
ErrorLine(error) == [error |-> <<Str(error)>>]

ValueDue(n, id, o, name, values, counts) ==
  LET req == IF "DataType" \in DOMAIN o THEN o["DataType"][1] ELSE Str(name)
  IN  IF req = Str(name) THEN {Answer(n, "publish", id, name :> <<v>>) : v \in values}
      ELSE IF req = Str("DataType")
        THEN {Answer(n, "publish", id, ("Count" :> Ints(counts)) @@ ("DataType" :> <<Str(name)>>))}
      ELSE {Complaint(n, id, "DataType")}

\* A rule is shown as the text that was typed for it says it, fully bracketed.
Shown(typed) ==
  ("Expression" :> <<[str |-> Written(Conditions[typed["Expression"][1].str])]>>)
    @@ ("Message" :> typed["Message"])
AnyOf(n, id, count, shown) ==
  {Answer(n, "publish", id, ("Count" :> Ints(<<count>>)) @@ [name \in names |-> shown[name]])
     : names \in SUBSET DOMAIN shown}
\* Without a number the service describes itself or complains of that, with one of
\* no rule it complains; and it may of another type that is asked for.
RulesDue(n, id, o) ==
  LET count == o["Count"][1].int
      known == {i \in DOMAIN rules[n] : rules[n][i].id = count}
      asked == IF "DataType" \in DOMAIN o THEN ToSet(o["DataType"]) ELSE {}
      others == asked \ {Str("DataType"), Str("Expression"), Str("Message")}
      itself == Answer(n, "publish", id, ("Count" :> Ints(<<0, 2>>))
                         @@ ("DataType" :> <<Str("Expression"), Str("Message")>>))
  IN  {Answer(n, "err", id, "DataType" :> <<t>>) : t \in others} \cup
      IF "Count" \notin DOMAIN o THEN {itself, Complaint(n, id, "Count")}
      ELSE IF known = {} THEN {Complaint(n, id, "Count")}
      ELSE AnyOf(n, id, count, Shown(Meaning(log[rules[n][CHOOSE i \in known : TRUE].of].pairs)))

RuleSetDue(n, id, o) ==
  LET known == "Count" \in DOMAIN o /\ FindRule(n, o["Count"][1].int) # 0
      whole == {"Expression", "Message"} \subseteq DOMAIN o
  IN  IF "Count" \in DOMAIN o /\ known = ~whole THEN {} ELSE {Complaint(n, id, "Count")}

\* What is due to o, for service s.  Nothing is to a SET that is carried out.
DueFrom(n, s, o) ==
  LET type == o["type"][1]
      floats == {[float |-> v] : v \in Measured}
      others == SelectSeq([i \in DOMAIN services[n] |-> services[n][i].id], LAMBDA i : i # s.id)
  IN  IF type = Str("set") /\ s.kind = "relay" THEN {}
      ELSE IF type = Str("set") /\ s.kind = "rules" THEN RuleSetDue(n, s.id, o)
      ELSE IF type # Str("request") THEN {Answer(n, "err", s.id, <<>>)}
      ELSE CASE s.kind = "manager" ->
                  {Says(n, "publish") @@ ("ServiceId" :> Ints(<<s.id>> \o others))}
             [] s.kind = "rules" -> RulesDue(n, s.id, o)
             [] s.kind = "relay" ->
                  ValueDue(n, s.id, o, "Switch", {[bool |-> pin[n].relay # 0]}, <<0, 1>>)
             [] s.kind = "switch" ->
                  ValueDue(n, s.id, o, "Switch", {[bool |-> pin[n].switch # 0]}, <<1>>)
             [] s.kind = "adc" -> ValueDue(n, s.id, o, "Voltage", floats, <<1>>)
             [] s.kind = "thermometer" -> ValueDue(n, s.id, o, "Temperature", floats, <<1>>)

\* What is due to an object for the service at this place of the table.
DueAt(n, at, o) ==
  IF at = 0 THEN {Says(n, "err") @@ ("DataType" :> <<Str("ServiceId")>>)}
  ELSE DueFrom(n, services[n][at], o)
AddressedIn(n, o) ==
  IF "ServiceId" \in DOMAIN o THEN GetServiceById(n, o["ServiceId"][1].int) ELSE 0
DueTo(n, o) == DueAt(n, AddressedIn(n, o), o)
Due(n, pairs) == DueTo(n, Meaning(pairs))

\* What a SET makes of the relay.
RelayDueTo(n, o) ==
  IF "Switch" \in DOMAIN o THEN (IF o["Switch"][1].bool THEN 1 ELSE 0) ELSE 1 - pin[n].relay
RelayDue(n, pairs) == RelayDueTo(n, Meaning(pairs))

-----------------------------------------------------------------------------
(* The Base.                                                               *)

Entry(pairs, due, got) == [pairs |-> pairs, due |-> due, got |-> got, obeyed |-> TRUE]
Line(error) == <<Pair("error", Str(error))>>

\* The Base sends what has become of the object, r, or prints an error.
Sends(o, r) ==
  LET line == CASE r.status = "refused" -> Line("structError")
                [] r.status = "noType" -> Line("noType")
                [] r.status = "error" -> o.pairs
                [] OTHER -> Line("xmitError")
      arrives == r.status = "ok" /\ r.m.to \in Nodes
  IN  IF r.status \in {"died", "endless"}
        THEN stopped' = stopped \cup {0} /\ UNCHANGED <<air, log>>
        ELSE /\ UNCHANGED stopped
             /\ air' = IF arrives
                         THEN Append(air, [to |-> r.m.to, m |-> r.m, of |-> Len(log) + 1])
                         ELSE air
             /\ log' = Append(log, Entry(o.pairs, {ErrorLine(e) : e \in o.errors},
                                        IF arrives THEN <<>> ELSE <<line>>))

\* The computer types an object.  Bound: it waits until nothing is under way any more.
Type(o) ==
  /\ 0 \notin stopped /\ Len(SelectSeq(log, LAMBDA e : e.pairs # <<>>)) < MaxTyped
  /\ air = <<>>
  /\ Sends(o, BaseReads(o.pairs, junk))
  /\ UNCHANGED <<services, pin, rules, junk>>

\* A message reaches the Base and is printed.
Receive(held) ==
  /\ air # <<>> /\ Head(air).to = 0 /\ 0 \notin stopped
  /\ log' = [log EXCEPT ![Head(air).of].got = Append(@, MessageToJson(Head(air).m, held))]
  /\ air' = Tail(air)
  /\ UNCHANGED <<services, pin, rules, stopped, junk>>

-----------------------------------------------------------------------------
(* A node.                                                                 *)

\* What the head of the air is for: a type of message to a service of this kind.
For(n, type, kind) ==
  /\ air # <<>> /\ Head(air).to = n /\ n \notin stopped
  /\ LET id == Find(Head(air).m.payload, SERVICE_ID, 0)
         at == IF id = <<>> THEN 0 ELSE GetServiceById(n, id[1])
     IN  IF at = 0 THEN kind = "none"
         ELSE services[n][at].kind = kind /\ Head(air).m.type = type
Target(n) == services[n][GetServiceById(n, Find(Head(air).m.payload, SERVICE_ID, 0)[1])]

\* A rule may act on the relay when something is published.
AfterPublish(n, ms, pins) ==
  IF rules[n] # <<>> /\ \E i \in DOMAIN ms : ms[i].type = PUBLISH
    THEN {[pins EXCEPT !.relay = v] : v \in {0, 1}}
    ELSE {pins}

\* The message at the head of the air is handled: the node's switch and relay are
\* at pins, its rules are rs, and it sends ms.
Handled(n, pins, rs, ms) ==
  LET of == Head(air).of
      asked == log[of].pairs
  IN  /\ rules' = [rules EXCEPT ![n] = rs]
      /\ \E p \in AfterPublish(n, ms, pins) : pin' = [pin EXCEPT ![n] = p]
      /\ air' = Tail(air) \o OnAir(n, ms, of)
      /\ log' = [log EXCEPT ![of].due = Due(n, asked),
                            ![of].obeyed = For(n, SET, "relay") => pins.relay = RelayDue(n, asked)]
      /\ UNCHANGED <<services, stopped, junk>>

Replies(n, ms) == Handled(n, pin[n], rules[n], ms)

HandleUnknown(n) == For(n, ERR, "none") /\ Replies(n, <<NoService(n)>>)

\* A PUBLISH or an ERR is no message for a service, and a SET only for some.
HandleOther(n) ==
  /\ \E kind \in Kinds :
       \/ \E type \in {ERR, GARBAGE, PUBLISH} : For(n, type, kind)
       \/ (kind \notin {"relay", "rules"} /\ For(n, SET, kind))
  /\ Replies(n, <<Err(n, Target(n), <<Head(air).m>>)>>)

\* Without a value the relay changes over.
RelayState(n, m) ==
  LET new == Find(m.payload, SWITCH, 0) IN IF new = <<>> THEN 1 - pin[n].relay ELSE new[1]

RelaySet(n) ==
  /\ For(n, SET, "relay")
  /\ Handled(n, [pin[n] EXCEPT !.relay = RelayState(n, Head(air).m)], rules[n], <<>>)

RuleSet(n) ==
  /\ For(n, SET, "rules")
  /\ LET r == RulesSet(n, Target(n), Head(air).m, Head(air).of)
     IN  Handled(n, pin[n], r.rules, r.answer)

RequestManager(n) ==
  For(n, REQUEST, "manager") /\ Replies(n, <<ManagerAnswer(n, Target(n), Head(air).m)>>)
RequestRelay(n) ==
  For(n, REQUEST, "relay") /\ Replies(n, <<RelayAnswer(n, Target(n), Head(air).m)>>)
RequestSwitch(n) ==
  For(n, REQUEST, "switch") /\ Replies(n, <<SwitchAnswer(n, Target(n), Head(air).m)>>)
RequestSensor(n, v) ==
  /\ For(n, REQUEST, "adc") \/ For(n, REQUEST, "thermometer")
  /\ Replies(n, <<SensorAnswer(n, Target(n), Head(air).m, v)>>)
RequestRules(n, num, held) ==
  For(n, REQUEST, "rules") /\ Replies(n, <<RulesAnswer(n, Target(n), Head(air).m, num, held)>>)

\* The switch of a node is turned, and its service publishes it.
Press(n) ==
  /\ n \notin stopped /\ Len(SelectSeq(log, LAMBDA e : e.pairs = <<>>)) < MaxPressed
  /\ \E i \in DOMAIN services[n] :
       /\ services[n][i].kind = "switch"
       /\ LET pins == [pin[n] EXCEPT !.switch = 1 - @]
              s == services[n][i]
              m == With(Publish(n, s, <<>>), AddBool(SWITCH, pins.switch))
          IN  /\ \E p \in AfterPublish(n, <<m>>, pins) : pin' = [pin EXCEPT ![n] = p]
              /\ air' = air \o OnAir(n, <<m>>, Len(log) + 1)
              /\ log' = Append(log, Entry(<<>>,
                          {Answer(n, "publish", s.id, "Switch" :> <<[bool |-> pins.switch # 0]>>)}, <<>>))
  /\ UNCHANGED <<services, rules, stopped, junk>>

-----------------------------------------------------------------------------
Next ==
  \/ \E n \in Nodes, s \in Offered : AddService(n, s)
  \/ \E n \in Nodes, i \in 1 .. MaxServices : DeleteService(n, i)
  \/ \E n \in Nodes :
       \/ HandleUnknown(n) \/ HandleOther(n) \/ RelaySet(n) \/ RuleSet(n)
       \/ RequestManager(n) \/ RequestRelay(n) \/ RequestSwitch(n) \/ Press(n)
  \/ \E n \in Nodes, v \in Measured : RequestSensor(n, v)
  \/ \E n \in Nodes, num \in 0 .. 2, held \in SUBSET {DATATYPE, EXPRESSION, MESSAGE} :
       RequestRules(n, num, held)
  \/ \E o \in Objects : Type(o)
  \/ \E held \in Measured : Receive(held)

Spec == Init /\ [][Next]_vars

-----------------------------------------------------------------------------
\* Nothing about the entry is under way, and whom it concerns has not stopped.
Over(i) == stopped = {} /\ \A k \in DOMAIN air : air[k].of # i

\* From the computer's text through bytes, service, bytes and text again: what it
\* types is carried out by the service it names or refused, and answered by one
\* object that says what the service says, a condition among it meaning what was
\* typed; what a node publishes is printed once.  Where junk is not 0 the numbers
\* in a condition are not those typed (MessageJsonConverter.cpp:535).
AnsweredRight ==
  junk = 0 => \A i \in DOMAIN log : Over(i) =>
    /\ log[i].obeyed
    /\ IF log[i].due = {} THEN log[i].got = <<>>
       ELSE Len(log[i].got) = 1 /\ Meaning(log[i].got[1]) \in log[i].due
=============================================================================
