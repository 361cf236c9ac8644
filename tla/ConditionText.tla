--------------------------- MODULE ConditionText ---------------------------
(***************************************************************************)
(* The text of a condition, as the computer writes and reads it, and its   *)
(* bytes: subexprToString and subexprFromString of                         *)
(* Base/MessageJsonConverter.cpp.                                          *)
(*                                                                         *)
(* A text is a sequence of characters without its spaces, in which a word  *)
(* or a number counts as one.  Numbers are whole and not above 32768.      *)
(***************************************************************************)
EXTENDS Expressions
LOCAL INSTANCE Integers
LOCAL INSTANCE Sequences
LOCAL INSTANCE SequencesExt

Chr(c) == <<c>>
Num(n) == <<"number", n>>
Chars(cs) == [i \in DOMAIN cs |-> Chr(cs[i])]

\* The first character; "end" behind the last.
First(text) == IF text = <<>> THEN "end" ELSE text[1][1]
After(text, n) == SubSeq(text, n + 1, Len(text))

\* The operations that stand between operands, in the order of their look-up.
OpTable ==
  <<[op |-> "OP_EQ", str |-> <<"=", "=">>], [op |-> "OP_NE", str |-> <<"!", "=">>],
    [op |-> "OP_LT", str |-> <<"<">>], [op |-> "OP_GT", str |-> <<">">>],
    [op |-> "OP_LE", str |-> <<"<", "=">>], [op |-> "OP_GE", str |-> <<">", "=">>],
    [op |-> "OP_OR", str |-> <<"|", "|">>], [op |-> "OP_AND", str |-> <<"&", "&">>],
    [op |-> "OP_ADD", str |-> <<"+">>], [op |-> "OP_SUB", str |-> <<"-">>],
    [op |-> "OP_MULT", str |-> <<"*">>], [op |-> "OP_DIV", str |-> <<"/">>],
    [op |-> "OP_IN", str |-> <<"i", "n">>], [op |-> "OP_IFELSE", str |-> <<"?">>]>>

Sign(op) == Chars(OpTable[SelectInSeq(OpTable, LAMBDA e : e.op = op)].str)

-----------------------------------------------------------------------------
(* From bytes to text.                                                     *)

\* -32768 has no positive counterpart, and its digits are taken below '0'.
NumToStr(v) ==
  IF v = -32768 THEN Chars(<<"-", "-", ".", ")", "*", "(">>)
  ELSE IF v < 0 THEN <<Chr("-"), Num(-v)>>
  ELSE <<Num(v)>>

NameOf(t) == Chr(IF KnownType(t) THEN DataTypeToString(t) ELSE "fixme")

VariableToStr(x, which) ==
  <<Chr(which), Num(x[1]), Chr(":"), NameOf(x[2]), Chr(":"), Num(x[3])>>

InBrackets(text) == <<Chr("(")>> \o text \o <<Chr(")")>>

\* The text of the operand at p, and where the next one is.
RECURSIVE SubexprToString(_, _), ListToString(_, _, _)
SubexprToString(buf, p) ==
  LET byte(i) == buf[p + i]
      op == OpOf(byte(0))
      a == SubexprToString(buf, p + 1)
      b == SubexprToString(buf, a.next)
      c == SubexprToString(buf, b.next)
      x == SubexprToString(buf, p + 2)
      set == ListToString(buf, x.next, byte(1))
      value(text, n) == [text |-> text, next |-> p + n]
      result(text, last) == [text |-> InBrackets(text), next |-> last.next]
  IN  IF p > Len(buf) THEN [text |-> <<Chr("fixme")>>, next |-> p] ELSE
      CASE op = "VAL_INT8" -> value(NumToStr(Signed(byte(1), 256)), 2)
        [] op = "VAL_INT16" -> value(NumToStr(Signed(256 * byte(1) + byte(2), 65536)), 3)
        [] op = "VAL_FLOAT" -> value(NumToStr(SingleOf(Reverse(SubSeq(buf, p + 1, p + 4)))), 5)
        [] op = "VAL_VARIABLE" -> value(VariableToStr(SubSeq(buf, p + 1, p + 3), "data:"), 4)
        [] op = "VAL_PREVIOUS" -> value(VariableToStr(SubSeq(buf, p + 1, p + 3), "prev:"), 4)
        [] op \in BinaryOps \cup {"OP_DIV"} -> result(a.text \o Sign(op) \o b.text, b)
        [] op = "OP_NOT" -> result(<<Chr("!")>> \o a.text, a)
        [] op = "OP_NEG" -> result(<<Chr("-")>> \o a.text, a)
        [] op = "OP_IN" -> result(x.text \o Sign(op) \o set.text, set)
        [] op = "OP_IFELSE" -> result(a.text \o Sign(op) \o b.text \o <<Chr(":")>> \o c.text, c)
        [] op = "OP_BETWEEN" ->
             result(a.text \o <<Chr("between")>> \o b.text \o <<Chr(",")>> \o c.text, c)
        [] OTHER -> [text |-> InBrackets(<<>>), next |-> p + 1]
ListToString(buf, p, n) ==
  LET a == SubexprToString(buf, p)
      others == ListToString(buf, a.next, n - 1)
  IN  IF n = 1 THEN a ELSE [others EXCEPT !.text = a.text \o <<Chr(",")>> \o @]

ExprToString(buf) == SubexprToString(buf, 1).text

-----------------------------------------------------------------------------
(* From text to bytes.  A parser's result is what it has written, what it  *)
(* has left to read, and whether it goes on.                               *)

Parsed(buf, str) == [status |-> "ok", buf |-> buf, str |-> str]
Refusal == [status |-> "refused", buf |-> <<>>, str |-> <<>>]
Endless == [status |-> "endless", buf |-> <<>>, str |-> <<>>]

\* uint8FromString: val is not initialised, and starts as junk.
Digits(n) == IF n < 10 THEN 1 ELSE IF n < 100 THEN 2 ELSE 3
UInt8FromString(str, junk) ==
  IF First(str) = "number" THEN (junk * 10 ^ Digits(str[1][2]) + str[1][2]) % 256 ELSE junk

AfterNumber(str) == After(str, IF First(str) = "number" THEN 1 ELSE 0)

\* A variable.  One that is cut short is left as it is.
VariableFromString(buf, str, junk) ==
  LET id == Append(buf, OpCode(IF First(str) = "data:" THEN "VAL_VARIABLE" ELSE "VAL_PREVIOUS"))
              \o <<UInt8FromString(Tail(str), junk)>>
      name == AfterNumber(Tail(str))
      type == StringToDataType(First(After(name, 1))) % 256
      num == After(name, 2)
  IN  IF First(name) # ":" THEN Parsed(id, After(name, 1))
      ELSE IF type = 255 THEN Parsed(Append(id, type), num)
      ELSE IF First(num) # ":" THEN Parsed(Append(id, type), After(num, 1))
      ELSE Parsed(id \o <<type, UInt8FromString(Tail(num), junk)>>, AfterNumber(Tail(num)))

\* A number, 0 where there is none, in as few bytes as it needs.
NumberFromString(buf, str) ==
  LET negative == First(str) = "-"
      digits == IF negative THEN Tail(str) ELSE str
      val == IF First(digits) = "number" THEN digits[1][2] ELSE 0
      signed == IF negative THEN -val ELSE val
      left == AfterNumber(digits)
      code(op) == Append(buf, OpCode(op))
      float == code("VAL_FLOAT") \o Reverse(Single[signed])
  IN  IF First(left) = "." THEN Parsed(float, Tail(left))
      ELSE IF signed \notin -32768 .. 32767 THEN Parsed(float, left)
      ELSE IF signed \in -128 .. 127 THEN Parsed(Append(code("VAL_INT8"), signed % 256), left)
      ELSE Parsed(code("VAL_INT16") \o <<(signed \div 256) % 256, signed % 256>>, left)

ValueFromString(buf, str, junk) ==
  IF First(str) \in {"data:", "prev:"} THEN VariableFromString(buf, str, junk)
  ELSE NumberFromString(buf, str)

\* The entry of the table that str begins with, 0 when there is none.
OpAt(str) ==
  SelectInSeq(OpTable, LAMBDA e : \A i \in DOMAIN e.str : Len(str) >= i /\ str[i] = Chr(e.str[i]))

\* Mutant: the operation is put behind what it was read after.
InsertBehind(buf, start, bytes) == buf \o bytes
\* An operation goes in front of its first operand.
Insert(buf, start, bytes) ==
  SubSeq(buf, 1, start) \o bytes \o SubSeq(buf, start + 1, Len(buf))

\* open holds what the text still owes: a list, the ',' of a between, the ':' of
\* a '?'.  None of these signs is skipped when it is found.
RECURSIVE Operands(_, _, _, _), Operand(_, _, _), GoOn(_, _, _, _)
Operands(buf, str, open, junk) == GoOn(Operand(buf, str, junk), Len(buf), open, junk)
\* After operand v, which began behind start.
GoOn(v, start, open, junk) ==
  LET at == OpAt(v.str)
      op == OpTable[at].op
      owed == IF First(v.str) = "," THEN "between" ELSE "ifelse"
      left ==
        CASE First(v.str) \in {",", ":"} -> [str |-> v.str, open |-> open \ {owed}]
          [] First(v.str) = "between" -> [str |-> After(v.str, 1), open |-> open \cup {"between"}]
          [] OTHER -> [str |-> After(v.str, Len(OpTable[at].str)),
                       open |-> open \cup (CASE op = "OP_IN" -> {"in"}
                                             [] op = "OP_IFELSE" -> {"ifelse"}
                                             [] OTHER -> {})]
      code ==
        CASE First(v.str) \in {",", ":"} -> <<>>
          [] First(v.str) = "between" -> <<OpCode("OP_BETWEEN")>>
          [] OTHER -> <<OpCode(op)>> \o IF op = "OP_IN" THEN <<1>> ELSE <<>>
  IN  IF v.status # "ok" THEN v
      ELSE IF First(v.str) = "," /\ "in" \in open THEN Endless
      ELSE IF First(v.str) \in {")", "end"} \/ (First(v.str) \in {",", ":"} /\ owed \notin open)
        THEN (IF open \cap {"between", "ifelse"} = {} THEN v ELSE Refusal)
      ELSE IF at = 0 /\ First(v.str) \notin {"between", ",", ":"} THEN Refusal
      ELSE Operands(Insert(v.buf, start, code), left.str, left.open, junk)
\* inner is what follows the bracket.
Closed(inner) ==
  IF inner.status # "ok" THEN inner
  ELSE IF First(inner.str) # ")" THEN Refusal
  ELSE Parsed(inner.buf, Tail(inner.str))
Operand(buf, str, junk) ==
  LET unary(op) == Operands(Append(buf, OpCode(op)), Tail(str), {}, junk)
  IN  CASE First(str) = "(" -> Closed(Operands(buf, Tail(str), {}, junk))
        [] First(str) = "!" -> unary("OP_NOT")
        [] First(str) = "-" /\ First(Tail(str)) # "number" -> unary("OP_NEG")
        [] OTHER -> ValueFromString(buf, str, junk)

\* r is what the whole text has become.
Complete(r) == IF r.status = "ok" /\ r.str # <<>> THEN Refusal ELSE r
ExprFromString(str, junk) == Complete(Operands(<<>>, str, {}, junk))

-----------------------------------------------------------------------------
\* The reference: how a condition is written, every operation in brackets.
RECURSIVE Written(_)
Written(t) ==
  LET arg(i) == Written(t.args[i])
  IN  CASE t.op \in {"VAL_INT8", "VAL_INT16", "VAL_FLOAT"} ->
             IF t.args[1] < 0 THEN <<Chr("-"), Num(-t.args[1])>> ELSE <<Num(t.args[1])>>
        [] t.op \in {"VAL_VARIABLE", "VAL_PREVIOUS"} ->
             <<Chr(IF t.op = "VAL_VARIABLE" THEN "data:" ELSE "prev:"), Num(t.args[1]), Chr(":"),
               Chr(TypeTable[t.args[2]].name), Chr(":"), Num(t.args[3])>>
        [] t.op = "OP_NOT" -> InBrackets(<<Chr("!")>> \o arg(1))
        [] t.op = "OP_NEG" -> InBrackets(<<Chr("-")>> \o arg(1))
        [] t.op \in BinaryOps \cup {"OP_IN"} -> InBrackets(arg(1) \o Sign(t.op) \o arg(2))
=============================================================================
