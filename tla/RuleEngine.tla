----------------------------- MODULE RuleEngine -----------------------------
(***************************************************************************)
(* The evaluation of rules, Sensorino/RuleService.h: every PUBLISH a node  *)
(* sends is shown to its rules; a rule whose condition mentions what was   *)
(* published and is true sends its action to a service of the node.  A     *)
(* service that publishes when it is set makes the evaluation recurse,     *)
(* which is the stack.  The values that conditions compare with are cached *)
(* per variable, in slots that are never given back.                       *)
(*                                                                         *)
(* One step is one iteration of evalPublish's loop.  Rules are created one *)
(* after the other, and deleted, between publications; the bytes are those *)
(* RuleStore writes.                                                       *)
(*                                                                         *)
(* n, published, known, changes, acted and the field turn, how many rules  *)
(* an evaluation has gone through, are history.                            *)
(***************************************************************************)
EXTENDS Integers, Sequences, FiniteSets, SequencesExt, Expressions

CONSTANTS
  Rules,         \* [id, cond, action]: a tree, and the payload of a message
  FirstRules,    \* how many of them are there from the start
  Publications,  \* [svc, values]: what services publish of their own, values
                 \* a sequence of types with their values
  Relays,        \* services whose SET switches a pin
  Echoes,        \* services that publish their state when they are set
  Watched,       \* the variables whose changes are counted
  CacheSize      \* ARRAY_SIZE(valueCache)

EchoOf(s, v) == [svc |-> s, values |-> <<<<SWITCH, v>>>>]
None == 255                                  \* no rule's id

AllPublications == Publications \cup {EchoOf(s, v) : s \in Echoes, v \in {0, 1}}

\* The values of type t that p carries, in order.
OfType(p, t) == SelectSeq(p.values, LAMBDA tv : tv[1] = t)
Carries(p) ==
  {<<p.svc, p.values[i][1], Len(OfType([p EXCEPT !.values = SubSeq(@, 1, i - 1)], p.values[i][1]))>>
     : i \in DOMAIN p.values}
ValueIn(p, x) == OfType(p, x[2])[x[3] + 1][2]

Vars == UNION ({Carries(p) : p \in AllPublications}
                 \cup {Mentions(Rules[r].cond) : r \in DOMAIN Rules})

ASSUME EngineAssumption ==
  /\ NaN \notin Int
  /\ FirstRules \in 0 .. Len(Rules)
  /\ Relays \cap Echoes = {}
  /\ CacheSize \in Nat
  /\ \A r \in DOMAIN Rules : Len(Encoded(Rules[r].cond)) < 255 /\ Len(Rules[r].action) < 255

\* The message a service starts with publish() and fills.
Payload(p) ==
  AddInt(SERVICE_ID, p.svc)
    \o FlattenSeq([i \in DOMAIN p.values |-> Added(p.values[i][1], p.values[i][2])])

\* What the storage holds when the first k rules are there.
StoredRule(r) ==
  <<r.id, Len(Encoded(r.cond)), Len(r.action)>> \o Encoded(r.cond) \o r.action
Stored(k) == FlattenSeq([r \in 1 .. k |-> StoredRule(Rules[r])]) \o <<255>>

VARIABLES
  store,     \* the bytes of the rules
  cache,     \* the filled slots of valueCache: [var, value]
  stack,     \* the evaluations under way, the innermost last
  state,     \* of the relays and echoes
  n,         \* how many rules there are
  published, \* what was last published of each variable
  known,     \* the same, of evaluations that are over
  changes,   \* whether it has changed an odd number of times
  acted      \* the id of the rule carried out by the last step, or None

history == <<n, published, known, changes, acted>>
vars == <<store, cache, stack, state, history>>

-----------------------------------------------------------------------------

GetByte(i) == IF i + 1 \in DOMAIN store THEN store[i + 1] ELSE 255

FindVariable(x, c) == {i \in DOMAIN c : c[i].var = x}

\* cacheVariable: the first empty slot, if there is one.
CacheVariable(x, c) ==
  IF Len(c) < CacheSize THEN Append(c, [var |-> x, value |-> NaN]) ELSE c

\* getVariableValue for the message of frame f.  e is what evalExpression keeps:
\* value v, position i, cache c, and used, the slots whose new value m has.
GetVariableValue(x, f, e, useCurrent) ==
  LET found == IF x[1] = f.svc THEN Find(f.m, x[2], x[3]) ELSE <<>>
      c == IF found # <<>> /\ FindVariable(x, e.c) = {} THEN CacheVariable(x, e.c) ELSE e.c
      slots == FindVariable(x, c)
      cached == IF slots = {} THEN NaN ELSE c[CHOOSE i \in slots : TRUE].value
  IN  IF found = <<>> \/ slots = {} THEN [e EXCEPT !.v = cached, !.c = c]
      ELSE [e EXCEPT !.v = IF useCurrent THEN ToFloat(x[2], found[1]) ELSE cached,
                     !.c = c, !.used = @ \cup slots]

\* Past an operand of so many bytes.
Read(e, v, bytes) == [e EXCEPT !.v = v, !.i = @ + bytes]
Variable(i) == <<GetByte(i), GetByte(i + 1), GetByte(i + 2)>>
\* Mutant: the bytes the other way round.
Int16Swapped(i) == Signed(GetByte(i + 1) * 256 + GetByte(i), 65536)
Int16(i) == Signed(GetByte(i) * 256 + GetByte(i + 1), 65536)
Float(i) == SingleOf([k \in 1 .. 4 |-> GetByte(i + 4 - k)])

\* OP_IN has found op1 among its operands: it returns at once, where it is.
InFound(rest, e) == Read(e, 1, 0)

\* K of the value of e, which is evaluated once.
With(e, K(_)) == CHOOSE r \in {K(x) : x \in {e}} : TRUE

RECURSIVE EvalExpression(_, _), EvalIn(_, _, _, _)

\* The operands of an operation, from e on, to K.
Unary(f, e, K(_)) == With(EvalExpression(f, e), K)
Binary(f, e, K(_, _)) ==
  Unary(f, e, LAMBDA op1 : Unary(f, op1, LAMBDA op2 : K(op1.v, op2)))
Ternary(f, e, K(_, _, _)) ==
  Binary(f, e, LAMBDA v1, op2 : Unary(f, op2, LAMBDA op3 : K(v1, op2.v, op3)))

EvalExpression(f, start) ==
  LET op == OpOf(GetByte(start.i))
      e == [start EXCEPT !.i = @ + 1]
  IN  CASE op = "VAL_INT8" -> Read(e, Signed(GetByte(e.i), 256), 1)
        [] op = "VAL_INT16" -> Read(e, Int16(e.i), 2)
        [] op = "VAL_FLOAT" -> Read(e, Float(e.i), 4)
        [] op \in {"VAL_VARIABLE", "VAL_PREVIOUS"} ->
             GetVariableValue(Variable(e.i), f, Read(e, NaN, 3), op = "VAL_VARIABLE")
        [] op \in BinaryOps ->
             Binary(f, e, LAMBDA v1, op2 : Read(op2, BinaryOp(op, v1, op2.v), 0))
        [] op = "OP_NOT" -> Unary(f, e, LAMBDA op1 : Read(op1, Not(op1.v), 0))
        [] op = "OP_NEG" -> Unary(f, e, LAMBDA op1 : Read(op1, Neg(op1.v), 0))
        [] op = "OP_IN" ->
             Unary(f, Read(e, NaN, 1), LAMBDA op1 : EvalIn(f, op1.v, GetByte(e.i), op1))
        [] op = "OP_IFELSE" ->
             Ternary(f, e, LAMBDA v1, v2, op3 : Read(op3, IF IsTrue(v1) THEN v2 ELSE op3.v, 0))
        [] op = "OP_BETWEEN" ->
             Ternary(f, e, LAMBDA v1, v2, op3 : Read(op3, Between(v1, v2, op3.v), 0))
        [] OTHER -> Read(e, NaN, 0)

\* The loop of OP_IN: x has still to be compared with so many operands.
EvalIn(f, x, left, e) ==
  IF left = 0 THEN Read(e, 0, 0)
  ELSE Unary(f, e, LAMBDA next :
         IF Equal(x, next.v) THEN InFound(left - 1, next)
         ELSE EvalIn(f, x, left - 1, next))

-----------------------------------------------------------------------------

Top == stack[Len(stack)]

\* A PUBLISH has been sent: its evaluation starts with the first rule.
Frame(p) ==
  [pub |-> p, svc |-> p.svc, m |-> Payload(p), offset |-> 0, used |-> {}, turn |-> 0]

RulePresent == stack # <<>> /\ GetByte(Top.offset) # 255
ConditionLen == GetByte(Top.offset + 1)
ActionLen == GetByte(Top.offset + 2)
\* Mutant: the walk does not move on.
NextOffsetSame == Top.offset
NextOffset == Top.offset + 3 + ConditionLen + ActionLen
Action ==
  [i \in 1 .. ActionLen |-> GetByte(Top.offset + 2 + ConditionLen + i)]

\* What evaluating the condition at hand gives.
Result ==
  EvalExpression(Top, [v |-> NaN, i |-> Top.offset + 3, c |-> cache, used |-> {}])

Triggers(result) == result.used # {} /\ IsTrue(result.v)


\* useMask |= ruleUseMask
Gathered(used, more) == used \cup more

Advanced(result) ==
  [stack EXCEPT ![Len(stack)] =
     [@ EXCEPT !.offset = NextOffset, !.used = Gathered(@, result.used), 
                !.turn = IF @ > n THEN @ ELSE @ + 1]]

\* The service the action is for; none has a number that is not there.
Target == Find(Action, SERVICE_ID, 0)
IsFor(services) == \E s \in services : Target = <<s>>

\* onSet of a relay, and of the services like it: without a value it toggles.
NewState(s) ==
  LET value == Find(Action, SWITCH, 0)
  IN  IF value = <<>> THEN 1 - state[s] ELSE value[1]

Noted(p) ==
  /\ published' = [x \in Vars |-> IF x \in Carries(p) THEN ValueIn(p, x) ELSE published[x]]
  /\ changes' = [x \in Watched |->
                   IF x \in Carries(p) /\ published[x] \notin {NaN, ValueIn(p, x)}
                   THEN ~changes[x] ELSE changes[x]]

-----------------------------------------------------------------------------

Init ==
  /\ n = FirstRules
  /\ store = Stored(n)
  /\ cache = <<>>
  /\ stack = <<>>
  /\ state = [s \in Relays \cup Echoes |-> 0]
  /\ published = [x \in Vars |-> NaN]
  /\ known = published
  /\ changes = [x \in Watched |-> FALSE]
  /\ acted = None

\* A service publishes.
Publish(p) ==
  /\ stack = <<>>
  /\ stack' = <<Frame(p)>>
  /\ Noted(p)
  /\ acted' = None
  /\ UNCHANGED <<store, n, cache, state, known>>

\* The condition does not hold, or mentions nothing that was published.
PassRule(result) ==
  /\ ~Triggers(result)
  /\ stack' = Advanced(result)
  /\ acted' = None
  /\ UNCHANGED <<state, published, changes>>

\* It holds: the action goes to the Base and to the service it names, if there
\* is one of this number; otherwise only an ERR is sent.
ActOnRelay(result) ==
  /\ Triggers(result)
  /\ IsFor(Relays)
  /\ stack' = Advanced(result)
  /\ state' = [state EXCEPT ![Target[1]] = NewState(Target[1])]
  /\ acted' = GetByte(Top.offset)
  /\ UNCHANGED <<published, changes>>

ActOnEcho(result) ==
  /\ Triggers(result)
  /\ IsFor(Echoes)
  /\ LET s == Target[1]
         p == EchoOf(s, NewState(s))
     IN  /\ state' = [state EXCEPT ![s] = NewState(s)]
         /\ stack' = Append(Advanced(result), Frame(p))
         /\ Noted(p)
  /\ acted' = GetByte(Top.offset)

ActOnNobody(result) ==
  /\ Triggers(result)
  /\ ~IsFor(Relays \cup Echoes)
  /\ stack' = Advanced(result)
  /\ acted' = GetByte(Top.offset)
  /\ UNCHANGED <<state, published, changes>>

EvalRule ==
  /\ RulePresent
  /\ \E result \in {Result} :
       /\ cache' = result.c
       /\ PassRule(result) \/ ActOnRelay(result) \/ ActOnEcho(result) \/ ActOnNobody(result)
  /\ UNCHANGED <<store, n, known>>

\* After the last rule the slots that were used take their new values.
Remember(used, f) ==
  [i \in DOMAIN cache |->
     LET x == cache[i].var
         found == Find(f.m, x[2], x[3])
     IN  IF i \in used THEN [cache[i] EXCEPT !.value = ToFloat(x[2], found[1])]
         ELSE cache[i]]

Finish ==
  /\ stack # <<>>
  /\ ~RulePresent
  /\ cache' = Remember(Top.used, Top)
  /\ stack' = Front(stack)
  /\ known' = [x \in Vars |->
                 IF x \in Carries(Top.pub) /\ \E r \in 1 .. n : x \in Mentions(Rules[r].cond)
                 THEN ValueIn(Top.pub, x) ELSE known[x]]
  /\ acted' = None
  /\ UNCHANGED <<store, n, state, published, changes>>

\* A rule is created behind the others.
CreateRule ==
  /\ stack = <<>>
  /\ n < Len(Rules)
  /\ n' = n + 1
  /\ store' = Stored(n')
  /\ acted' = None
  /\ UNCHANGED <<cache, stack, state, published, known, changes>>

\* A rule is deleted, and those behind it with it.
DeleteRule ==
  /\ stack = <<>>
  /\ n > FirstRules
  /\ n' \in FirstRules .. n - 1
  /\ store' = Stored(n')
  /\ acted' = None
  /\ UNCHANGED <<cache, stack, state, published, known, changes>>

Evaluate == EvalRule \/ Finish

Next ==
  \/ \E p \in Publications : Publish(p)
  \/ Evaluate
  \/ CreateRule
  \/ DeleteRule

Spec == Init /\ [][Next]_vars

\* What has been started by an interrupt or a call runs on.
FairSpec == Spec /\ WF_vars(Evaluate)

-----------------------------------------------------------------------------

\* What a condition is about: the variables in the message, over those of the
\* evaluations that are over.
Current(p) == [x \in Vars |-> IF x \in Carries(p) THEN ValueIn(p, x) ELSE known[x]]

Wanted(r, p) ==
  /\ Mentions(Rules[r].cond) \cap Carries(p) # {}
  /\ IsTrue(Value(Rules[r].cond, Current(p), known))

\* Every rule in its turn, to the last: it is carried out if its condition, read
\* as a tree, is about something published and true of it and of the values
\* before, and passed otherwise (evalPublish with evalExpression and the cache,
\* against Expressions).
ActsWhenTrue ==
  [][ stack # <<>> =>
        IF Len(stack') < Len(stack) THEN Top.turn = n
        ELSE /\ Top.turn < n
             /\ LET r == Top.turn + 1
                IN  acted' = IF Wanted(r, Top.pub) THEN Rules[r].id ELSE None ]_vars


\* The evaluation of a publication, with all it causes, ends.
Settles == stack # <<>> ~> stack = <<>>
=============================================================================
