---------------------------- MODULE Expressions -----------------------------
(***************************************************************************)
(* The conditions of rules: their operations (Sensorino/Expression.h), what*)
(* each computes, the bytes the DEF_ macros write, and, as the reference   *)
(* for evalExpression, the value of a condition as a tree.                 *)
(*                                                                         *)
(* A tree is [op, args]: its arguments are trees, or for a VAL_ the        *)
(* constant or the variable, which is a service, a type and a number.      *)
(* Numbers are whole; OP_DIV is left out.                                  *)
(***************************************************************************)
EXTENDS Message
LOCAL INSTANCE Integers
LOCAL INSTANCE Sequences
LOCAL INSTANCE SequencesExt

Ops == <<"VAL_INT8", "VAL_INT16", "VAL_FLOAT", "VAL_VARIABLE", "VAL_PREVIOUS",
         "OP_EQ", "OP_NE", "OP_LT", "OP_GT", "OP_LE", "OP_GE",
         "OP_NOT", "OP_OR", "OP_AND",
         "OP_ADD", "OP_SUB", "OP_MULT", "OP_DIV", "OP_NEG",
         "OP_IN", "OP_IFELSE", "OP_BETWEEN">>

OpCode(op) == (CHOOSE i \in DOMAIN Ops : Ops[i] = op) - 1
OpOf(byte) == IF byte + 1 \in DOMAIN Ops THEN Ops[byte + 1] ELSE "none"

BinaryOps == {"OP_EQ", "OP_NE", "OP_LT", "OP_GT", "OP_LE", "OP_GE",
              "OP_OR", "OP_AND", "OP_ADD", "OP_SUB", "OP_MULT"}

IsTrue(v) == v # NaN /\ v > 0
Truth(b) == IF b THEN 1 ELSE 0

Computed(op, a, b) ==
  CASE op = "OP_EQ" -> Truth(a = b)
    [] op = "OP_NE" -> Truth(a # b)
    [] op = "OP_LT" -> Truth(a < b)
    [] op = "OP_GT" -> Truth(a > b)
    [] op = "OP_LE" -> Truth(a <= b)
    [] op = "OP_GE" -> Truth(a >= b)
    [] op = "OP_OR" -> Truth(IsTrue(a) \/ IsTrue(b))
    [] op = "OP_AND" -> Truth(IsTrue(a) /\ IsTrue(b))
    [] op = "OP_ADD" -> a + b
    [] op = "OP_SUB" -> a - b
    [] op = "OP_MULT" -> a * b

\* Mutant: isnan(diff) is not looked at; what is decided by a negation is true.
BinaryOpUnchecked(op, a, b) ==
  IF NaN \in {a, b} THEN Truth(op \in {"OP_NE", "OP_LE", "OP_GE"}) ELSE Computed(op, a, b)

BinaryOp(op, a, b) == IF NaN \in {a, b} THEN NaN ELSE Computed(op, a, b)

Not(a) == IF a = NaN THEN NaN ELSE Truth(~IsTrue(a))
Neg(a) == IF a = NaN THEN NaN ELSE -a

\* Comparisons with NaN are false: an unknown number is not in a set and not
\* between two others, and this is not unknown.
Equal(a, b) == NaN \notin {a, b} /\ a = b
Below(a, b) == NaN \notin {a, b} /\ a < b
Between(x, a, b) ==
  Truth(IF Below(a, b) THEN Below(a, x) /\ Below(x, b) ELSE Below(b, x) /\ Below(x, a))

RECURSIVE Encoded(_)
Encoded(t) ==
  LET args == FlattenSeq([i \in DOMAIN t.args |-> Encoded(t.args[i])])
  IN  <<OpCode(t.op)>> \o
      CASE t.op = "VAL_INT8" -> <<t.args[1] % 256>>
        [] t.op = "VAL_INT16" -> <<(t.args[1] \div 256) % 256, t.args[1] % 256>>
        [] t.op = "VAL_FLOAT" -> Reverse(Single[t.args[1]])
        [] t.op \in {"VAL_VARIABLE", "VAL_PREVIOUS"} -> t.args
        [] t.op = "OP_IN" -> <<Len(t.args) - 1>> \o args
        [] OTHER -> args

\* The reference: the value of a tree, cur and prev giving the variables'.
RECURSIVE Value(_, _, _)
Value(t, cur, prev) ==
  LET arg(i) == Value(t.args[i], cur, prev)
  IN  CASE t.op \in {"VAL_INT8", "VAL_INT16", "VAL_FLOAT"} -> t.args[1]
        [] t.op = "VAL_VARIABLE" -> cur[t.args]
        [] t.op = "VAL_PREVIOUS" -> prev[t.args]
        [] t.op \in BinaryOps -> BinaryOp(t.op, arg(1), arg(2))
        [] t.op = "OP_NOT" -> Not(arg(1))
        [] t.op = "OP_NEG" -> Neg(arg(1))
        [] t.op = "OP_IN" -> Truth(\E i \in 2 .. Len(t.args) : Equal(arg(1), arg(i)))
        [] t.op = "OP_IFELSE" -> IF IsTrue(arg(1)) THEN arg(2) ELSE arg(3)
        [] t.op = "OP_BETWEEN" -> Between(arg(1), arg(2), arg(3))

\* The variables a tree mentions.
RECURSIVE Mentions(_)
Mentions(t) ==
  CASE t.op \in {"VAL_INT8", "VAL_INT16", "VAL_FLOAT"} -> {}
    [] t.op \in {"VAL_VARIABLE", "VAL_PREVIOUS"} -> {t.args}
    [] OTHER -> UNION {Mentions(t.args[i]) : i \in DOMAIN t.args}
=============================================================================
