------------------------------ MODULE Phrases ------------------------------
(* What the computer types in the run of the Base, and to which services:   *)
(* requests and orders to every kind of service, to one that is not there   *)
(* and to a node that is not there, conditions, and what is to be refused.  *)
EXTENDS Integers, Sequences, TLC, JsonConversion

VOLTAGE == 45

V(x) == [op |-> "VAL_VARIABLE", args |-> x]
P(x) == [op |-> "VAL_PREVIOUS", args |-> x]
I(k) == [op |-> "VAL_INT8", args |-> <<k>>]
I16(k) == [op |-> "VAL_INT16", args |-> <<k>>]
T(op, args) == [op |-> op, args |-> args]

VarText(which, s, name, n) == <<Chr(which), Num(s), Chr(":"), Chr(name), Chr(":"), Num(n)>>

\* sketch1's condition, and one with other operations,
\* (data:4:Voltage:0 + -129 + 300 > 2) || (!(1 in 5 && 0 - -3)),
\* where each operation reaches to the next bracket that closes.
SketchText == VarText("data:", 3, "Switch", 0) \o Chars(<<"!", "=">>) \o VarText("prev:", 3, "Switch", 0)
LongText ==
  <<Chr("(")>> \o VarText("data:", 4, "Voltage", 0)
    \o <<Chr("+"), Chr("-"), Num(129), Chr("+"), Num(300), Chr(">"), Num(2), Chr(")")>>
    \o Chars(<<"|", "|", "(", "!", "(">>) \o <<Num(1), Chr("i"), Chr("n"), Num(5)>>
    \o Chars(<<"&", "&">>) \o <<Num(0), Chr("-"), Chr("-"), Num(3)>> \o Chars(<<")", ")">>)
SomeConditions ==
  (SketchText :> T("OP_NE", <<V(<<3, SWITCH, 0>>), P(<<3, SWITCH, 0>>)>>))
    @@ (LongText :>
         T("OP_OR", <<T("OP_ADD", <<V(<<4, VOLTAGE, 0>>),
                                    T("OP_ADD", <<I16(-129), T("OP_GT", <<I16(300), I(2)>>)>>)>>),
                      T("OP_NOT", <<T("OP_IN", <<I(1), T("OP_AND", <<I(5), T("OP_SUB", <<I(0), I(-3)>>)>>)>>)>>)>>))

To(type, id, more) ==
  <<Pair("to", [int |-> 1]), Pair("type", Str(type)), Pair("ServiceId", [int |-> id])>> \o more
Good(pairs) == [pairs |-> pairs, errors |-> {}]
Bad(pairs, error) == [pairs |-> pairs, errors |-> {error}]
Asks(id, names) ==
  To("request", id, IF Len(names) = 1 THEN <<Pair("DataType", Str(names[1]))>>
                    ELSE <<Pair("DataType", [array |-> [i \in DOMAIN names |-> Str(names[i])]])>>)
Rule(text) ==
  To("set", 1, <<Pair("Count", [int |-> 5]), Pair("Expression", [str |-> text]),
                 Pair("Message", [object |-> <<Pair("ServiceId", [int |-> 2]), Pair("Switch", [bool |-> TRUE])>>])>>)

SomeObjects ==
  {Good(To("request", id, <<>>)) : id \in {0, 2, 3, 4, 9}}
    \cup {Good(Asks(id, <<"DataType">>)) : id \in {2, 4}}
    \cup {Good(Asks(3, <<"Count">>)), Good(Asks(4, <<"Temperature">>))}
    \cup {Good(To("set", 2, <<Pair("Switch", [bool |-> TRUE])>>)), Good(To("set", 2, <<>>))}
    \cup {Good(Rule(text)) : text \in {SketchText, LongText}}
    \cup {Good(To("set", 1, <<Pair("Count", [int |-> 5])>>)),
          Good(Asks(1, <<"Expression", "Message">>) \o <<Pair("Count", [int |-> 5])>>),
          Good(Asks(1, <<"DataType">>)),
          Good(Asks(1, <<"Switch", "Expression">>) \o <<Pair("Count", [int |-> 5])>>)}
    \cup {Good(To("set", 3, <<>>)), Good(To("publish", 1, <<>>))}
    \cup {Bad(Tail(To("set", 2, <<>>)), "structError"), Bad(To("set", 2, <<Pair("Switch", [int |-> 1])>>), "structError"),
          Bad(Rule(Tail(SketchText)), "structError"), Bad(<<Pair("to", [int |-> 1])>>, "noType"),
          Bad([To("set", 2, <<>>) EXCEPT ![1].value.int = 7], "xmitError")}

SomeServices ==
  {[id |-> 0, kind |-> "manager"], [id |-> 1, kind |-> "rules"], [id |-> 2, kind |-> "relay"],
   [id |-> 3, kind |-> "switch"], [id |-> 4, kind |-> "adc"], [id |-> 4, kind |-> "thermometer"]}
=============================================================================
