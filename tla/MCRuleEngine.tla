---------------------------- MODULE MCRuleEngine ----------------------------
EXTENDS RuleEngine

V(x) == [op |-> "VAL_VARIABLE", args |-> x]
P(x) == [op |-> "VAL_PREVIOUS", args |-> x]
I(k) == [op |-> "VAL_INT8", args |-> <<k>>]
I16(k) == [op |-> "VAL_INT16", args |-> <<k>>]
F(k) == [op |-> "VAL_FLOAT", args |-> <<k>>]
T(op, args) == [op |-> op, args |-> args]

TEMPERATURE == 43
Switch3 == <<3, SWITCH, 0>>
Count4 == <<4, COUNT, 0>>
Count4b == <<4, COUNT, 1>>
Temp4 == <<4, TEMPERATURE, 0>>
Echo6 == <<6, SWITCH, 0>>
Echo7 == <<7, SWITCH, 0>>

\* A switch, and a sensor with three values, one of them not always there.
SomePublications ==
  {[svc |-> 3, values |-> <<<<SWITCH, v>>>>] : v \in {0, 1}}
    \cup {[svc |-> 4, values |-> <<<<COUNT, v>>, <<TEMPERATURE, 1>>, <<COUNT, w>>>>] : v \in {-129, 200}, w \in {5}}
    \cup {[svc |-> 4, values |-> <<<<TEMPERATURE, 2>>, <<COUNT, 3>>>>]}

Switches == {Switch3}

ToggleRelay2 == AddInt(SERVICE_ID, 2)
SetEcho6(v) == AddInt(SERVICE_ID, 6) \o AddBool(SWITCH, v)
ToggleEcho7 == AddInt(SERVICE_ID, 7)
SetNobody == AddInt(SERVICE_ID, 9)

\* The first rule is sketch1's; the others bring the other operations, rules
\* about several services, and rules that set off others.
SomeRules ==
  <<[id |-> 5, cond |-> T("OP_NE", <<V(Switch3), P(Switch3)>>), action |-> ToggleRelay2],
    [id |-> 6,
     cond |-> T("OP_IFELSE", <<V(Switch3), T("OP_GT", <<V(Count4), I16(150)>>),
                               T("OP_BETWEEN", <<V(Temp4), I(0), F(2)>>)>>),
     action |-> SetEcho6(1)],
    [id |-> 7, cond |-> T("OP_OR", <<T("OP_NOT", <<V(Echo6)>>), T("OP_AND", <<P(Echo6), V(Switch3)>>)>>),
     action |-> ToggleEcho7],
    [id |-> 8, cond |-> T("OP_IN", <<T("OP_ADD", <<V(Echo7), V(Count4b)>>), I(1), I(5), I(6)>>), action |-> SetNobody],
    [id |-> 9, cond |-> T("OP_LE", <<T("OP_NEG", <<V(Count4)>>), I(-100)>>), action |-> SetEcho6(0)]>>

\* sketch1.ino: the relay follows the switch, whatever the other rules do.
RelayFollows == stack = <<>> => (state[2] = 1 <=> changes[Switch3])
=============================================================================
