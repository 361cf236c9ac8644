------------------------------- MODULE MCBase -------------------------------
(***************************************************************************)
(* The two halves of the Base, one in a behaviour: how it takes objects    *)
(* from the serial line, and what the objects do to the nodes.  They meet  *)
(* in KindOf, which for the loop is what the conversion makes of a text.   *)
(***************************************************************************)
EXTENDS BaseLoop

CONSTANTS
  NaN, Nodes, Offered, MaxServices, StoreSize, Objects, Conditions, Junks, Measured,
  MaxTyped, MaxPressed

VARIABLES half, services, pin, rules, stopped, air, junk, talk

P == INSTANCE Phrases
Talk == INSTANCE Conversation WITH log <- talk

SomeServices == P!SomeServices
SomeObjects == P!SomeObjects
SomeConditions == P!SomeConditions

\* Texts with spaces and brackets in strings and between; one too long for the
\* buffer, one nested too deep, one with an escape.
Whole == <<"open", "quote", "space", "close", "quote", "space", "close">>
Nested == <<"open", "open", "close", "close">>
Long == <<"open", "quote", "other", "open", "other", "quote", "close">>
Escape == <<"open", "quote", "backslash", "quote", "quote", "close">>

SomeTexts == {Whole, Nested, Long, Escape}

\* The objects they stand for: orders to a relay, one without its addressee.
ObjectOf(t) ==
  LET order == P!To("set", 2, <<P!Pair("Switch", [bool |-> TRUE])>>)
  IN  IF t = Nested THEN Tail(order) ELSE order

KindNamed(status) ==
  CASE status = "ok" -> "message"
    [] status = "refused" -> "noStruct"
    [] status = "noType" -> "noType"
    [] status = "error" -> "syntaxError"
KindOfText == [t \in SomeTexts |-> IF t = Nested THEN "noStruct" ELSE "message"]

\* The loop's constant is what the conversion makes of the objects.
ASSUME KindAssumption ==
  \A t \in SomeTexts : KindOf[t] = KindNamed(P!BaseReads(ObjectOf(t), 0).status)

talkVars == <<services, pin, rules, stopped, air, junk, talk>>
all == <<vars, talkVars, half>>

BothInit == Init /\ Talk!Init /\ half \in {"loop", "talk"} /\ (half = "loop" => junk = 0)

LoopNext == half = "loop" /\ Next /\ UNCHANGED <<talkVars, half>>
TalkNext == half = "talk" /\ Talk!Next /\ UNCHANGED <<vars, half>>

BothSpec ==
  /\ BothInit /\ [][LoopNext \/ TalkNext]_all
  /\ WF_all(half = "loop" /\ Loop /\ UNCHANGED <<talkVars, half>>)

\* See Conversation: what the computer types is carried out and answered right.
AnsweredRight == Talk!AnsweredRight
=============================================================================
