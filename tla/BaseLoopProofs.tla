--------------------------- MODULE BaseLoopProofs ---------------------------
(***************************************************************************)
(* That obj_str never overflows, with the types of the rest of the Base;   *)
(* and that putch, character by character, does what the reference says of *)
(* a whole text, so that each text that comes whole to a parser in step is *)
(* answered once, for what it is.                                          *)
(***************************************************************************)
EXTENDS BaseLoop, FiniteSetTheorems, SequenceTheorems, TLAPS

\* The message or the object is of a text that was typed, and every character
\* of the ring is: TypeOK alone does not say whose answer is being written.
Attributed ==
  /\ \A i \in DOMAIN ring : ring[i].of \in DOMAIN log
  /\ rest # <<>> => log # <<>>

Inv == TypeOK /\ Attributed

\* putch keeps the parser in its types, whatever the character.
LEMMA StoredTyped ==
  ASSUME TypeOK, NEW c \in Characters
  PROVE  /\ Stored(c) \in Parsers
         /\ Len(Stored(c).str) < BufSize
<1>1. /\ parser \in Parsers /\ Len(parser.str) < BufSize
  BY DEF TypeOK
<1>2. BufSize \in Nat /\ Half \in Nat /\ Half > 0
  BY SizesAssumption
<1>3. \A d \in Int : Wrapped(d) \in 0 .. 2 * Half - 1
  BY <1>2 DEF Wrapped
<1>4. /\ Counted(parser, c) \in Parsers
      /\ Counted(parser, c).str = parser.str
  <2>. parser.depth + 1 \in Int /\ parser.depth - 1 \in Int
    BY <1>1, <1>2 DEF Parsers
  <2>1. Wrapped(parser.depth + 1) \in 0 .. 2 * Half - 1
    BY <1>3
  <2>2. Wrapped(parser.depth - 1) \in 0 .. 2 * Half - 1
    BY <1>3
  <2>3. Counted(parser, c) \in
          {[parser EXCEPT !.escape = TRUE], [parser EXCEPT !.quote = ~@],
           [parser EXCEPT !.depth = Wrapped(@ + 1)],
           [parser EXCEPT !.depth = Wrapped(@ - 1)], parser}
    BY Zenon DEF Counted
  <2>4. \A p \in {[parser EXCEPT !.escape = TRUE], [parser EXCEPT !.quote = ~@],
                  [parser EXCEPT !.depth = Wrapped(@ + 1)],
                  [parser EXCEPT !.depth = Wrapped(@ - 1)], parser} :
          p \in Parsers /\ p.str = parser.str
    BY <1>1, <2>1, <2>2 DEF Parsers
  <2> QED
    BY <2>3, <2>4
<1>5. /\ Kept(parser.str, c) \in Seq(Characters)
      /\ Len(Kept(parser.str, c)) < BufSize
  BY <1>1, <1>2 DEF Kept, Parsers
<1>6. Stored(c) = [Counted(parser, c) EXCEPT !.str = Kept(parser.str, c)]
  BY <1>4 DEF Stored
<1> QED
  BY <1>4, <1>5, <1>6 DEF Parsers

\* aJson.parse makes one of the kinds of anything.
LEMMA ParsesKinds ==
  ASSUME NEW str
  PROVE  Parses(str) \subseteq Kinds
BY TextsAssumption DEF Parses

LEMMA InitInv == Init => Inv
<1> SUFFICES ASSUME Init
             PROVE  Inv
  OBVIOUS
<1> USE SizesAssumption DEF Init
<1>1. rest = <<>> /\ log = <<>> /\ ring = <<>> /\ obj = <<>>
  OBVIOUS
<1>2. parser \in Parsers /\ Len(parser.str) < BufSize
  BY DEF ResetParser, Parsers
<1> QED
  BY <1>1, <1>2 DEF Inv, TypeOK, Attributed

LEMMA NextInv == Inv /\ [Next]_vars => Inv'
<1> SUFFICES ASSUME Inv, [Next]_vars
             PROVE  Inv'
  OBVIOUS
<1> USE DEF Inv
<1>1. ASSUME NEW t \in Texts, NEW nul \in BOOLEAN, BeginText(t, nul)
      PROVE  Inv'
  <2> DEFINE entry == [text |-> t, nul |-> nul, lost |-> 0, answers |-> <<>>]
  <2>1. entry \in Entries
    BY SizesAssumption DEF Entries
  <2>2. log' \in Seq(Entries) /\ DOMAIN log \subseteq DOMAIN log' /\ log' # <<>>
    BY <1>1, <2>1 DEF BeginText, TypeOK
  <2>3. rest' \in Seq(Characters)
    <3>1. NulBefore(nul) \in Seq(Characters) /\ t \in Seq(Characters)
      <4>1. <<>> \in Seq(Characters) /\ <<"nul">> \in Seq(Characters)
        BY DEF Characters
      <4> QED
        BY <4>1, TextsAssumption DEF NulBefore
    <3> QED
      BY <1>1, <3>1 DEF BeginText
  <2> QED
    BY <1>1, <2>2, <2>3 DEF BeginText, TypeOK, Attributed
<1>2. CASE Type
  <2>1. /\ Len(log) \in DOMAIN log /\ Head(rest) \in Characters
        /\ rest' \in Seq(Characters)
    BY <1>2 DEF Type, TypeOK, Attributed
  <2>2. CASE Len(ring) < RingSize
    <3> DEFINE arrived == [char |-> Head(rest), of |-> Len(log)]
    <3>1. /\ ring' = Append(ring, arrived) /\ log' = log
          /\ arrived \in [char : Characters, of : Nat] /\ arrived.of \in DOMAIN log
      BY <1>2, <2>1, <2>2 DEF Type, TypeOK
    <3>2. /\ ring' \in Seq([char : Characters, of : Nat]) /\ Len(ring') <= RingSize
          /\ \A i \in DOMAIN ring' : ring'[i].of \in DOMAIN log'
      BY <2>2, <3>1, SizesAssumption DEF TypeOK, Attributed
    <3> QED
      BY <1>2, <2>1, <3>1, <3>2 DEF Type, TypeOK, Attributed
  <2>3. CASE ~(Len(ring) < RingSize)
    <3>1. /\ ring' = ring /\ log[Len(log)].lost < MaxLost
          /\ log' = [log EXCEPT ![Len(log)].lost = @ + 1]
      BY <1>2, <2>3 DEF Type
    <3>2. [log[Len(log)] EXCEPT !.lost = @ + 1] \in Entries
      <4>1. log[Len(log)] \in Entries
        BY <2>1 DEF TypeOK
      <4>2. log[Len(log)].lost + 1 \in 0 .. MaxLost
        BY <3>1, <4>1, SizesAssumption DEF Entries
      <4> QED
        BY <4>1, <4>2 DEF Entries
    <3>3. log' \in Seq(Entries) /\ DOMAIN log' = DOMAIN log
      BY <2>1, <3>1, <3>2 DEF TypeOK
    <3> QED
      BY <1>2, <2>1, <3>1, <3>3 DEF Type, TypeOK, Attributed
  <2> QED
    BY <2>2, <2>3
<1>3. ASSUME NEW garbage \in BOOLEAN, Receive(garbage)
      PROVE  Inv'
  BY <1>3 DEF Receive, TypeOK, Attributed
<1>4. CASE Wake
  BY <1>4 DEF Wake, TypeOK, Attributed
<1>5. CASE Read
  <2> DEFINE c == Head(ring).char
  <2>1. c \in Characters /\ Head(ring).of \in DOMAIN log \ {0}
    <3>1. ring \in Seq([char : Characters, of : Nat]) /\ ring # <<>>
      BY <1>5 DEF Read, TypeOK
    <3>2. Head(ring) \in [char : Characters, of : Nat]
      <4>1. \A S : ring \in Seq(S) => Head(ring) \in S
        BY <3>1
      <4> QED
        BY <3>1, <4>1, Zenon
    <3>3. 1 \in DOMAIN ring /\ Head(ring) = ring[1]
      BY <3>1
    <3>4. ring[1].of \in DOMAIN log
      BY <3>3 DEF Attributed
    <3>5. DOMAIN log = 1 .. Len(log)
      BY DEF TypeOK
    <3> QED
      BY <3>2, <3>3, <3>4, <3>5
  <2>2. /\ ring' \in Seq([char : Characters, of : Nat]) /\ Len(ring') <= RingSize
        /\ \A i \in DOMAIN ring' : ring'[i].of \in DOMAIN log
    BY <1>5, SizesAssumption DEF Read, TypeOK, Attributed
  <2>3. ResetParser \in Parsers /\ Len(ResetParser.str) < BufSize
    BY SizesAssumption DEF ResetParser, Parsers
  <2>4. /\ parser' \in Parsers /\ Len(parser'.str) < BufSize
        /\ obj' \in {<<>>} \cup {<<kind>> : kind \in Kinds}
    <3>1. CASE Skip(c)
      BY <2>3, <3>1 DEF Skip, OnNul, TypeOK
    <3>2. CASE Store(c)
      BY <2>1, <3>2, StoredTyped DEF Store, TypeOK
    <3>3. CASE End(c)
      <4>1. parser' \in Parsers /\ Len(parser'.str) < BufSize
        BY <2>3, <3>3 DEF End, TypeOK, Parsers
      <4>2. (IF obj = <<>> THEN Parses(Stored(c).str) ELSE {obj[1]}) \subseteq Kinds
        BY ParsesKinds DEF TypeOK
      <4> QED
        BY <3>3, <4>1, <4>2 DEF End
    <3> QED
      BY <1>5, <3>1, <3>2, <3>3 DEF Read
  <2> QED
    BY <1>5, <2>1, <2>2, <2>4 DEF Read, TypeOK, Attributed
<1>6. ASSUME NEW line \in Kinds \cup {"sent", "xmitError"}, last # 0, Answered(line)
      PROVE  log' \in Seq(Entries) /\ DOMAIN log' = DOMAIN log /\ (log # <<>> => log' # <<>>)
  <2>1. last \in DOMAIN log
    BY <1>6 DEF TypeOK
  <2>2. [log[last] EXCEPT !.answers = Append(@, line)] \in Entries
    <3>1. log[last] \in Entries
      BY <2>1 DEF TypeOK
    <3>2. Append(log[last].answers, line) \in Seq(Kinds \cup {"sent", "xmitError"})
      BY <3>1 DEF Entries
    <3> QED
      BY <3>1, <3>2 DEF Entries
  <2> QED
    BY <1>6, <2>1, <2>2 DEF Answered, TypeOK
<1>7. CASE Refuse
  <2>1. obj # <<>> /\ obj[1] \in Kinds /\ last # 0
    BY <1>7 DEF Refuse, TypeOK
  <2> QED
    BY <1>6, <1>7, <2>1 DEF Refuse, Refused, TypeOK, Attributed
<1>8. CASE Convert
  BY <1>8 DEF Convert, TypeOK, Attributed
<1>9. ASSUME NEW answer \in {"sent", "xmitError"}, Send(answer)
      PROVE  Inv'
  BY <1>6, <1>9 DEF Send, TypeOK, Attributed
<1>10. CASE SerialEmpty
  BY <1>10 DEF SerialEmpty, TypeOK, Attributed
<1>11. CASE RadioEmpty
  BY <1>11 DEF RadioEmpty, TypeOK, Attributed
<1>12. CASE UNCHANGED vars
  BY <1>12 DEF vars, TypeOK, Attributed
<1> QED
  BY <1>1, <1>2, <1>3, <1>4, <1>5, <1>7, <1>8, <1>9, <1>10, <1>11, <1>12 DEF Next, Loop

\* Whatever is typed and lost, obj_str has room for the zero byte at the end of
\* an object, and every answer is about a text that was typed.
THEOREM TypeCorrect == Spec => []TypeOK
<1>1. Inv => TypeOK
  BY DEF Inv
<1> QED
  BY <1>1, InitInv, NextInv, PTL DEF Spec

-----------------------------------------------------------------------------
(* Texts and their prefixes.                                               *)

UpTo(P, k) == Cardinality(P \cap (1 .. k))

Quotes(t) == {j \in DOMAIN t : t[j] = "quote"}
Seen(t, c) == {j \in DOMAIN t : t[j] = c /\ Unquoted(t, j)}
Essential(t) == {i \in DOMAIN t : t[i] \notin Blank \/ ~Unquoted(t, i)}

\* One more place.
LEMMA UpToNext ==
  ASSUME NEW P, NEW k \in Nat
  PROVE  /\ UpTo(P, k) \in Nat
         /\ UpTo(P, k + 1) = UpTo(P, k) + (IF k + 1 \in P THEN 1 ELSE 0)
<1>1. IsFiniteSet(P \cap (1 .. k))
  <2>1. IsFiniteSet(1 .. k)
    BY FS_Interval
  <2>. QED
    BY <2>1, FS_Subset
<1>2. UpTo(P, k) \in Nat
  BY <1>1, FS_CardinalityType DEF UpTo
<1>3. CASE k + 1 \in P
  <2>1. P \cap (1 .. k + 1) = (P \cap (1 .. k)) \cup {k + 1} /\ k + 1 \notin P \cap (1 .. k)
    BY <1>3
  <2>. QED
    BY <1>1, <1>2, <1>3, <2>1, FS_AddElement DEF UpTo
<1>4. CASE k + 1 \notin P
  <2>1. P \cap (1 .. k + 1) = P \cap (1 .. k)
    BY <1>4
  <2>. QED
    BY <1>2, <1>4, <2>1 DEF UpTo
<1>. QED
  BY <1>2, <1>3, <1>4

LEMMA UpToNone == ASSUME NEW P PROVE UpTo(P, 0) = 0
<1>1. P \cap (1 .. 0) = {}
  OBVIOUS
<1>. QED
  BY <1>1, FS_EmptySet DEF UpTo

\* What is counted grows with the place.
LEMMA UpToGrows ==
  ASSUME NEW P, NEW i \in Nat, NEW k \in Nat, i <= k
  PROVE  /\ UpTo(P, i) <= UpTo(P, k) /\ UpTo(P, i) \in Nat /\ UpTo(P, k) \in Nat
         /\ k \in P /\ i < k => UpTo(P, i) < UpTo(P, k)
<1>1. IsFiniteSet(P \cap (1 .. k))
  <2>1. IsFiniteSet(1 .. k)
    BY FS_Interval
  <2>. QED
    BY <2>1, FS_Subset
<1>2. P \cap (1 .. i) \subseteq P \cap (1 .. k)
  OBVIOUS
<1>3. UpTo(P, i) <= UpTo(P, k) /\ (UpTo(P, i) = UpTo(P, k) => P \cap (1 .. i) = P \cap (1 .. k))
  BY <1>1, <1>2, FS_Subset DEF UpTo
<1>4. UpTo(P, i) \in Nat /\ UpTo(P, k) \in Nat
  BY UpToNext
<1>5. k \in P /\ i < k => P \cap (1 .. i) # P \cap (1 .. k)
  <2>1. k \in P /\ i < k => k \in P \cap (1 .. k) /\ k \notin P \cap (1 .. i)
    OBVIOUS
  <2>. QED
    BY <2>1
<1>. QED
  BY <1>3, <1>4, <1>5

\* The definitions of BaseLoop are such counts.
LEMMA Counts ==
  ASSUME NEW t \in Seq(Characters), NEW k \in 0 .. Len(t)
  PROVE  /\ Unquoted(t, k + 1) <=> UpTo(Quotes(t), k) % 2 = 0
         /\ NestingAt(t, k) = UpTo(Seen(t, "open"), k) - UpTo(Seen(t, "close"), k)
<1>1. 1 .. (k + 1) - 1 = 1 .. k /\ 1 .. k \subseteq DOMAIN t
  OBVIOUS
<1>2. {j \in 1 .. (k + 1) - 1 : t[j] = "quote"} = Quotes(t) \cap (1 .. k)
  BY <1>1 DEF Quotes
<1>3. \A c : {j \in 1 .. k : t[j] = c /\ Unquoted(t, j)} = Seen(t, c) \cap (1 .. k)
  BY <1>1 DEF Seen
<1>. QED
  BY <1>2, <1>3 DEF Unquoted, NestingAt, UpTo

\* A stripped text has one character for each that is essential.
LEMMA StrippedLen ==
  ASSUME NEW t \in Seq(Characters)
  PROVE  /\ Stripped(t) \in Seq({Stripped(t)[k] : k \in DOMAIN Stripped(t)})
         /\ Len(Stripped(t)) = UpTo(Essential(t), Len(t))
<1>. DEFINE kept == {i \in DOMAIN t : t[i] \notin Blank \/ ~Unquoted(t, i)}
            n == Cardinality(kept)
<1>1. kept = Essential(t) \cap (1 .. Len(t))
  BY DEF Essential
<1>2. n = UpTo(Essential(t), Len(t)) /\ n \in Nat
  <2>1. n = UpTo(Essential(t), Len(t)) /\ Len(t) \in Nat
    <3>. HIDE DEF kept
    <3>. QED
      BY <1>1 DEF UpTo
  <2>. HIDE DEF n
  <2>. QED
    BY <2>1, UpToNext
<1>3. Stripped(t) = [k \in 1 .. n |->
                       t[CHOOSE i \in kept : Cardinality({j \in kept : j <= i}) = k]]
  BY DEF Stripped
<1>. HIDE DEF n, kept
<1>4. DOMAIN Stripped(t) = 1 .. n
  BY <1>3
<1>. DEFINE S == {Stripped(t)[k] : k \in DOMAIN Stripped(t)}
<1>5. Stripped(t) \in [1 .. n -> S]
  <2>1. Stripped(t) = [k \in 1 .. n |-> Stripped(t)[k]]
    BY <1>3, <1>4
  <2>2. \A k \in 1 .. n : Stripped(t)[k] \in S
    BY <1>4
  <2>. QED
    BY <2>1, <2>2
<1>. HIDE DEF S
<1>6. Stripped(t) \in Seq(S) /\ Len(Stripped(t)) = n
  BY <1>2, <1>5
<1>. QED
  BY <1>2, <1>6 DEF S

\* An essential character is in the place that the count of those before it says.
LEMMA StrippedAt ==
  ASSUME NEW t \in Seq(Characters), NEW k \in Nat, k + 1 \in Essential(t)
  PROVE  /\ UpTo(Essential(t), k) + 1 \in 1 .. Len(Stripped(t))
         /\ Stripped(t)[UpTo(Essential(t), k) + 1] = t[k + 1]
<1>. DEFINE kept == {i \in DOMAIN t : t[i] \notin Blank \/ ~Unquoted(t, i)}
            n == Cardinality(kept)
            m == UpTo(Essential(t), k) + 1
<1>1. kept = Essential(t) /\ kept = Essential(t) \cap (1 .. Len(t)) /\ Len(t) \in Nat
      /\ kept \subseteq 1 .. Len(t)
  BY DEF Essential
<1>2. n = UpTo(Essential(t), Len(t))
  BY <1>1 DEF UpTo
<1>3. Stripped(t) = [x \in 1 .. n |->
                       t[CHOOSE i \in kept : Cardinality({j \in kept : j <= i}) = x]]
  BY DEF Stripped
<1>. HIDE DEF kept, n
<1>4. \A i \in kept : Cardinality({j \in kept : j <= i}) = UpTo(Essential(t), i)
  <2>1. TAKE i \in kept
  <2>2. {j \in kept : j <= i} = Essential(t) \cap (1 .. i)
    BY <1>1
  <2>. QED
    BY <2>2 DEF UpTo
<1>5. m \in Nat \ {0} /\ UpTo(Essential(t), k + 1) = m /\ k + 1 \in kept
  <2>1. UpTo(Essential(t), k) \in Nat
    BY UpToNext
  <2>2. UpTo(Essential(t), k + 1) = m
    BY UpToNext
  <2>3. k + 1 \in kept
    BY <1>1
  <2>. QED
    BY <2>1, <2>2, <2>3
<1>6. m <= n
  <2>1. k + 1 \in Nat /\ k + 1 <= Len(t)
    BY <1>1, <1>5
  <2>. QED
    BY <1>1, <1>2, <1>5, <2>1, UpToGrows
<1>. HIDE DEF m
<1>7. m \in 1 .. n
  <2>1. n \in Nat
    BY <1>1, <1>2, UpToNext
  <2>. QED
    BY <1>5, <1>6, <2>1
<1>. DEFINE c == CHOOSE i \in kept : Cardinality({j \in kept : j <= i}) = m
<1>8. Stripped(t)[m] = t[c]
  BY <1>3, <1>7, Zenon
<1>9. c \in kept /\ Cardinality({j \in kept : j <= c}) = m
  <2>1. \E i \in kept : Cardinality({j \in kept : j <= i}) = m
    BY <1>4, <1>5
  <2>. QED
    BY <2>1, Zenon
<1>. HIDE DEF c
<1>10. c \in Nat /\ UpTo(Essential(t), c) = m
  <2>1. c \in 1 .. Len(t)
    BY <1>1, <1>9
  <2>2. UpTo(Essential(t), c) = m
    BY <1>4, <1>9
  <2>. QED
    BY <2>1, <2>2
<1>11. ~(c < k + 1)
  BY <1>1, <1>5, <1>10, UpToGrows
<1>12. ~(k + 1 < c)
  BY <1>1, <1>5, <1>9, <1>10, UpToGrows
<1>13. c = k + 1
  BY <1>10, <1>11, <1>12
<1>14. Len(Stripped(t)) = n
  BY <1>2, StrippedLen
<1>. QED
  BY <1>7, <1>8, <1>13, <1>14 DEF m

-----------------------------------------------------------------------------
(* putch over a text.                                                      *)

\* What the reference follows, with no more nesting than nest_depth can count.
Plain(t) ==
  /\ t \in Seq(Characters) /\ IsObject(t)
  /\ \A i \in DOMAIN t : t[i] # "backslash" /\ NestingAt(t, i) <= Half

\* The parser p has read k characters of t since it was reset.
Parsed(t, k, p) ==
  /\ p.depth = NestingAt(t, k) /\ (p.quote <=> ~Unquoted(t, k + 1)) /\ ~p.escape
  /\ LET c == UpTo(Essential(t), k)
     IN  Len(p.str) = IF c < BufSize - 1 THEN c ELSE BufSize - 1
  /\ \A i \in 1 .. Len(p.str) : p.str[i] = Stripped(t)[i]

\* What the reference says of one more character.
LEMMA OneMore ==
  ASSUME NEW t \in Seq(Characters), NEW k \in Nat, k + 1 <= Len(t)
  PROVE  /\ Unquoted(t, k + 2) <=> (IF t[k + 1] = "quote" THEN ~Unquoted(t, k + 1)
                                                           ELSE Unquoted(t, k + 1))
         /\ NestingAt(t, k + 1) =
              IF Unquoted(t, k + 1) /\ t[k + 1] = "open" THEN NestingAt(t, k) + 1
              ELSE IF Unquoted(t, k + 1) /\ t[k + 1] = "close" THEN NestingAt(t, k) - 1
              ELSE NestingAt(t, k)
         /\ NestingAt(t, k) \in Int
         /\ UpTo(Essential(t), k + 1) =
              IF t[k + 1] \notin Blank \/ ~Unquoted(t, k + 1)
              THEN UpTo(Essential(t), k) + 1 ELSE UpTo(Essential(t), k)
<1>1. /\ k \in 0 .. Len(t) /\ k + 1 \in 0 .. Len(t) /\ (k + 1) + 1 = k + 2 /\ k + 1 \in DOMAIN t
  OBVIOUS
<1>2. Unquoted(t, k + 2) <=> (Unquoted(t, k + 1) <=> t[k + 1] # "quote")
  <2>. DEFINE a == UpTo(Quotes(t), k)
              b == UpTo(Quotes(t), k + 1)
  <2>1. Unquoted(t, k + 1) <=> a % 2 = 0
    BY <1>1, Counts
  <2>2. Unquoted(t, k + 2) <=> b % 2 = 0
    BY <1>1, Counts
  <2>3. a \in Nat /\ b = a + (IF t[k + 1] = "quote" THEN 1 ELSE 0)
    BY <1>1, UpToNext DEF Quotes
  <2>. HIDE DEF a, b
  <2>. QED
    BY <2>1, <2>2, <2>3
<1>3. /\ NestingAt(t, k) = UpTo(Seen(t, "open"), k) - UpTo(Seen(t, "close"), k)
      /\ NestingAt(t, k + 1) = UpTo(Seen(t, "open"), k + 1) - UpTo(Seen(t, "close"), k + 1)
  BY <1>1, Counts
<1>4. \A P : UpTo(P, k) \in Nat /\ UpTo(P, k + 1) = UpTo(P, k) + (IF k + 1 \in P THEN 1 ELSE 0)
  BY UpToNext
<1>5. \A x : k + 1 \in Seen(t, x) <=> t[k + 1] = x /\ Unquoted(t, k + 1)
  BY <1>1 DEF Seen
<1>6. k + 1 \in Essential(t) <=> (t[k + 1] \notin Blank \/ ~Unquoted(t, k + 1))
  BY <1>1 DEF Essential
<1>. QED
  BY <1>2, <1>3, <1>4, <1>5, <1>6

\* Reading one more character of an object, the parser stays in step with the text,
\* and takes the last as its end.
LEMMA PutchStep ==
  ASSUME TypeOK, NEW t, Plain(t), NEW k \in Nat, k + 1 <= Len(t), Parsed(t, k, parser),
         NEW c, c = t[k + 1]
  PROVE  /\ k + 1 < Len(t) =>
              /\ ~Ends(c)
              /\ Skip(c) \/ Store(c) => Parsed(t, k + 1, parser')
         /\ k + 1 = Len(t) =>
              /\ Ends(c) /\ ~parser.quote /\ ~parser.escape
              /\ Len(Stripped(t)) < BufSize => Stored(c).str = Stripped(t)
<1>1. /\ t \in Seq(Characters) /\ k + 1 \in DOMAIN t /\ c \in Characters
      /\ c # "nul" /\ c # "backslash"
  BY DEF Plain, IsObject
<1>. DEFINE d == NestingAt(t, k)
            n == NestingAt(t, k + 1)
            e == UpTo(Essential(t), k)
            U == Unquoted(t, k + 1)
<1>2. /\ Unquoted(t, k + 2) <=> (IF c = "quote" THEN ~U ELSE U)
      /\ n = IF U /\ c = "open" THEN d + 1 ELSE IF U /\ c = "close" THEN d - 1 ELSE d
      /\ d \in Int
      /\ UpTo(Essential(t), k + 1) = IF c \notin Blank \/ ~U THEN e + 1 ELSE e
  BY <1>1, OneMore
<1>3. e \in Nat /\ k + 2 = (k + 1) + 1
  BY UpToNext
<1>4. d \in 0 .. Half /\ n \in 0 .. Half /\ Half \in Nat \ {0} /\ BufSize \in Nat \ {0}
  <2>1. Half \in Nat \ {0} /\ BufSize \in Nat \ {0}
    BY SizesAssumption
  <2>2. \A i \in DOMAIN t : NestingAt(t, i) >= 0 /\ NestingAt(t, i) <= Half
    BY DEF Plain, IsObject
  <2>3. n >= 0 /\ n <= Half /\ n \in Int
    BY <1>1, <1>2, <2>2
  <2>4. d >= 0 /\ d <= Half
    <3>1. CASE k = 0
      <4>1. 0 \in 0 .. Len(t)
        BY <1>1
      <4>2. d = UpTo(Seen(t, "open"), 0) - UpTo(Seen(t, "close"), 0)
        BY <1>1, <3>1, <4>1, Counts
      <4>. QED
        BY <2>1, <4>2, UpToNone
    <3>2. CASE k # 0
      <4>1. k \in DOMAIN t
        BY <1>1, <3>2
      <4>. QED
        BY <2>2, <4>1
    <3>. QED
      BY <3>1, <3>2
  <2>. QED
    BY <1>2, <2>1, <2>3, <2>4
<1>5. /\ parser.depth = d /\ (parser.quote <=> ~U) /\ ~parser.escape
      /\ Len(parser.str) = IF e < BufSize - 1 THEN e ELSE BufSize - 1
      /\ \A i \in 1 .. Len(parser.str) : parser.str[i] = Stripped(t)[i]
  BY DEF Parsed
<1>6. /\ c = "close" /\ U => (n = 0 <=> k + 1 = Len(t))
      /\ k + 1 = Len(t) => c = "close" /\ U
  BY <1>1 DEF Plain, IsObject
<1>7. parser \in Parsers
  BY DEF TypeOK
<1>. HIDE DEF d, n, e, U
<1>8. \A x \in 0 .. Half : Wrapped(x) = x
  BY <1>4 DEF Wrapped
<1>9. /\ Counted(parser, c) \in Parsers /\ Counted(parser, c).str = parser.str
      /\ Counted(parser, c).depth = n /\ ~Counted(parser, c).escape
      /\ Counted(parser, c).quote <=> (IF c = "quote" THEN ~parser.quote ELSE parser.quote)
  <2>1. CASE c = "quote"
    <3>1. Counted(parser, c) = [parser EXCEPT !.quote = ~@]
      BY <1>1, <1>5, <2>1 DEF Counted
    <3>. QED
      BY <1>2, <1>5, <1>7, <2>1, <3>1 DEF Parsers
  <2>2. CASE c = "open" /\ ~parser.quote
    <3>1. Counted(parser, c) = [parser EXCEPT !.depth = Wrapped(@ + 1)]
      BY <1>1, <1>5, <2>2 DEF Counted
    <3>2. Wrapped(parser.depth + 1) = n /\ n \in 0 .. 2 * Half - 1
      BY <1>2, <1>4, <1>5, <1>8, <2>2
    <3>. QED
      BY <1>2, <1>5, <1>7, <2>2, <3>1, <3>2 DEF Parsers
  <2>3. CASE c = "close" /\ ~parser.quote
    <3>1. Counted(parser, c) = [parser EXCEPT !.depth = Wrapped(@ - 1)]
      BY <1>1, <1>5, <2>3 DEF Counted
    <3>2. Wrapped(parser.depth - 1) = n /\ n \in 0 .. 2 * Half - 1
      BY <1>2, <1>4, <1>5, <1>8, <2>3
    <3>. QED
      BY <1>2, <1>5, <1>7, <2>3, <3>1, <3>2 DEF Parsers
  <2>4. CASE c # "quote" /\ ~(c \in {"open", "close"} /\ ~parser.quote)
    <3>1. Counted(parser, c) = parser
      BY <1>1, <1>5, <2>4 DEF Counted
    <3>. QED
      BY <1>2, <1>5, <1>7, <2>4, <3>1
  <2>. QED
    BY <2>1, <2>2, <2>3, <2>4
<1>10. /\ Stored(c).depth = n /\ ~Stored(c).escape /\ Stored(c).str = Kept(parser.str, c)
       /\ Stored(c).quote <=> (IF c = "quote" THEN ~parser.quote ELSE parser.quote)
  BY <1>9 DEF Stored, Parsers
<1>11. Ends(c) <=> k + 1 = Len(t)
  <2>1. c = "close" /\ U => n < Half
    BY <1>2, <1>4
  <2>2. Ends(c) <=> (U /\ c = "close" /\ (n = 0 \/ n >= Half))
    BY <1>5, <1>10 DEF Ends, NotPositive
  <2>. QED
    BY <1>4, <1>6, <2>1, <2>2
<1>12. c \notin Blank \/ ~U =>
         /\ Len(Kept(parser.str, c)) = IF e + 1 < BufSize - 1 THEN e + 1 ELSE BufSize - 1
         /\ \A i \in 1 .. Len(Kept(parser.str, c)) : Kept(parser.str, c)[i] = Stripped(t)[i]
  <2>. SUFFICES ASSUME c \notin Blank \/ ~U
                PROVE  /\ Len(Kept(parser.str, c)) = IF e + 1 < BufSize - 1 THEN e + 1 ELSE BufSize - 1
                       /\ \A i \in 1 .. Len(Kept(parser.str, c)) :
                            Kept(parser.str, c)[i] = Stripped(t)[i]
    OBVIOUS
  <2>1. Stripped(t)[e + 1] = c
    <3>1. k + 1 \in Essential(t)
      BY <1>1 DEF Essential, U
    <3>. QED
      BY <1>1, <3>1, StrippedAt DEF e
  <2>2. parser.str \in Seq(Characters) /\ Len(parser.str) < BufSize
    BY <1>7 DEF Parsers, TypeOK
  <2>3. CASE Len(parser.str) < BufSize - 1
    <3>1. Kept(parser.str, c) = Append(parser.str, c) /\ Len(parser.str) = e
      BY <1>3, <1>4, <1>5, <2>3 DEF Kept
    <3>2. /\ Len(Append(parser.str, c)) = e + 1 /\ Append(parser.str, c)[e + 1] = c
          /\ \A i \in 1 .. e : Append(parser.str, c)[i] = parser.str[i]
      BY <2>2, <3>1
    <3>3. e < BufSize - 1 /\ e + 1 = IF e + 1 < BufSize - 1 THEN e + 1 ELSE BufSize - 1
      BY <1>3, <1>4, <2>3, <3>1
    <3>4. \A i \in 1 .. e + 1 : Append(parser.str, c)[i] = Stripped(t)[i]
      <4>1. TAKE i \in 1 .. e + 1
      <4>2. CASE i = e + 1
        BY <2>1, <3>2, <4>2
      <4>3. CASE i # e + 1
        <5>1. i \in 1 .. e
          BY <1>3, <4>3
        <5>. QED
          BY <1>5, <3>1, <3>2, <5>1
      <4>. QED
        BY <4>2, <4>3
    <3>. QED
      BY <3>1, <3>2, <3>3, <3>4
  <2>4. CASE ~(Len(parser.str) < BufSize - 1)
    BY <1>3, <1>4, <1>5, <2>2, <2>4 DEF Kept
  <2>. QED
    BY <2>3, <2>4
<1>13. ASSUME k + 1 < Len(t), Skip(c) \/ Store(c)
       PROVE  Parsed(t, k + 1, parser')
  <2>1. CASE Skip(c)
    <3>1. parser' = parser /\ c = "space" /\ c \in Blank /\ U
      BY <1>1, <1>5, <2>1 DEF Skip, Blank
    <3>. QED
      BY <1>2, <1>3, <1>5, <3>1 DEF Parsed, n, e
  <2>2. CASE Store(c)
    <3>1. parser' = Stored(c) /\ (c \notin Blank \/ ~U)
      BY <1>5, <2>2 DEF Store
    <3>2. Stored(c).quote <=> ~Unquoted(t, (k + 1) + 1)
      BY <1>2, <1>3, <1>5, <1>10
    <3>. QED
      BY <1>2, <1>10, <1>12, <3>1, <3>2 DEF Parsed, n, e
  <2>. QED
    BY <1>13, <2>1, <2>2
<1>14. ASSUME k + 1 = Len(t), Len(Stripped(t)) < BufSize
       PROVE  Stored(c).str = Stripped(t)
  <2>1. c \notin Blank
    BY <1>6, <1>14 DEF Blank
  <2>2. Len(Stripped(t)) = e + 1
    BY <1>1, <1>2, <1>14, <2>1, StrippedLen DEF e
  <2>3. Len(Kept(parser.str, c)) = e + 1
    BY <1>3, <1>4, <1>12, <1>14, <2>1, <2>2
  <2>. DEFINE S == {Stripped(t)[i] : i \in DOMAIN Stripped(t)} \cup Characters
  <2>4. Stripped(t) \in Seq(S)
    BY <1>1, StrippedLen, SeqMonotonic
  <2>5. Kept(parser.str, c) \in Seq(S)
    <3>1. Kept(parser.str, c) \in Seq(Characters)
      BY <1>1, <1>7 DEF Kept, Parsers
    <3>. QED
      BY <3>1, SeqMonotonic
  <2>. HIDE DEF S
  <2>6. \A i \in 1 .. Len(Stripped(t)) : Stripped(t)[i] = Kept(parser.str, c)[i]
    BY <1>12, <2>1, <2>2, <2>3
  <2>. QED
    BY <1>10, <2>2, <2>3, <2>4, <2>5, <2>6, SeqEqual
<1>. QED
  BY <1>5, <1>6, <1>11, <1>13, <1>14

-----------------------------------------------------------------------------
(* Where the characters of a text are, and what was made of them.            *)

\* A text as it is typed, and what of the text n has been typed.
Line(entry) == NulBefore(entry.nul) \o entry.text
Sent(n) == Len(Line(log[n])) - (IF n = Len(log) THEN Len(rest) ELSE 0)

\* Of the text n, of which nothing was lost, r characters are read; those after
\* them are together in the ring, from place b + r + 1 on.
Trail(n, r, b) ==
  /\ r <= Sent(n)
  /\ \A k \in r + 1 .. Sent(n) :
       b + k \in DOMAIN ring /\ ring[b + k] = [char |-> Line(log[n])[k], of |-> n]
  /\ \A i \in DOMAIN ring : ring[i].of = n => i - b \in r + 1 .. Sent(n)
  /\ n = Len(log) => b + Sent(n) = Len(ring)
  /\ n > last => r = 0
  /\ n = last => r >= 1

Pending(n) == n = last /\ pc \in {"object", "send"}

\* After r characters of the text n the parser, the object and the answers are
\* what they should be.
InStep(n, r) ==
  /\ n = last => IF r = Len(Line(log[n])) THEN parser = ResetParser
                 ELSE Parsed(log[n].text, r - Len(NulBefore(log[n].nul)), parser)
  /\ Pending(n) =>
       /\ r = Len(Line(log[n]))
       /\ Fits(log[n].text) =>
            /\ pc = "object" => obj[1] = KindOf[log[n].text]
            /\ pc = "send" => KindOf[log[n].text] = "message"
  /\ IF r < Len(Line(log[n])) \/ Pending(n) THEN log[n].answers = <<>> ELSE RightlyAnswered(n)

Followed(n) ==
  log[n].lost = 0 =>
    \E r \in Nat, b \in Int : Trail(n, r, b) /\ (Clear(n) => InStep(n, r))

\* The ring holds the texts in their order, and the loop reads them in it.
Ordered ==
  /\ \A i \in DOMAIN ring :
       last <= ring[i].of /\ \A j \in 1 .. i : ring[j].of <= ring[i].of
  /\ log # <<>> =>
       /\ Len(rest) <= Len(Line(log[Len(log)]))
       /\ \A j \in 1 .. Len(rest) : rest[j] = Line(log[Len(log)])[Sent(Len(log)) + j]
  /\ \A n \in DOMAIN log : n > last => log[n].answers = <<>>
  /\ last = 0 => parser = ResetParser

FullInv == Inv /\ Ordered /\ \A n \in DOMAIN log : Followed(n)

\* A text as it is typed.
LEMMA Lines ==
  ASSUME NEW e \in Entries
  PROVE  LET z == Len(NulBefore(e.nul))
         IN  /\ e.text \in Texts /\ e.text \in Seq(Characters)
             /\ z \in {0, 1} /\ (e.nul <=> z = 1)
             /\ Line(e) \in Seq(Characters) /\ Len(Line(e)) = z + Len(e.text)
             /\ \A k \in 1 .. Len(Line(e)) :
                  Line(e)[k] = IF k <= z THEN "nul" ELSE e.text[k - z]
<1>. DEFINE z == Len(NulBefore(e.nul))
<1>1. e.text \in Texts /\ e.text \in Seq(Characters) /\ e.nul \in BOOLEAN
  BY TextsAssumption DEF Entries
<1>2. CASE e.nul
  <2>1. NulBefore(e.nul) = <<"nul">> /\ <<"nul">> \in Seq(Characters) /\ z = 1
    BY <1>2 DEF NulBefore, Characters
  <2>2. /\ Line(e) = <<"nul">> \o e.text /\ Line(e) \in Seq(Characters)
        /\ Len(Line(e)) = 1 + Len(e.text)
    BY <1>1, <2>1 DEF Line
  <2>3. \A k \in 1 .. Len(Line(e)) : Line(e)[k] = IF k <= 1 THEN "nul" ELSE e.text[k - 1]
    BY <1>1, <2>1, <2>2
  <2>. QED
    BY <1>1, <1>2, <2>1, <2>2, <2>3
<1>3. CASE ~e.nul
  <2>1. NulBefore(e.nul) = <<>> /\ z = 0
    BY <1>3 DEF NulBefore
  <2>2. Line(e) = e.text
    BY <1>1, <2>1 DEF Line
  <2>. QED
    BY <1>1, <1>3, <2>1, <2>2
<1>. QED
  BY <1>1, <1>2, <1>3

\* A text that is clear is one that putch follows.
LEMMA ClearPlain ==
  ASSUME TypeOK, NEW n \in DOMAIN log, Clear(n)
  PROVE  /\ log[n].lost = 0 /\ Plain(log[n].text) /\ Len(log[n].text) >= 1
         /\ log[n].nul \/ n = 1 \/ (n - 1 \in DOMAIN log /\ Clear(n - 1))
<1>1. n \in Nat \ {0} /\ n <= Len(log) /\ log[n] \in Entries
  BY DEF TypeOK
<1>2. PICK m \in 1 .. n : (m = 1 \/ log[m].nul) /\ \A k \in m .. n : Harmless(log[k])
  BY DEF Clear
<1>3. Harmless(log[n])
  BY <1>1, <1>2
<1>4. log[n].text \in Texts /\ log[n].text \in Seq(Characters)
  BY <1>1, Lines
<1>5. IsObject(log[n].text)
  BY <1>3, <1>4, ObjectsAssumption DEF Harmless
<1>6. Plain(log[n].text) /\ log[n].lost = 0
  BY <1>3, <1>4, <1>5 DEF Harmless, Plain
<1>7. Len(log[n].text) >= 1
  BY <1>4, <1>5 DEF IsObject
<1>8. m # n => n - 1 \in DOMAIN log /\ Clear(n - 1)
  <2>. SUFFICES ASSUME m # n
                PROVE  n - 1 \in DOMAIN log /\ Clear(n - 1)
    OBVIOUS
  <2>1. n - 1 \in DOMAIN log /\ m \in 1 .. n - 1
    BY <1>1, <1>2 DEF TypeOK
  <2>2. \A k \in m .. n - 1 : Harmless(log[k])
    BY <1>1, <1>2
  <2>. QED
    BY <1>2, <2>1, <2>2 DEF Clear
<1>. QED
  BY <1>2, <1>6, <1>7, <1>8

\* Nothing makes a text clear that was not.
LEMMA StillClear ==
  ASSUME NEW n \in Nat,
         \A k \in 1 .. n : /\ log'[k].text = log[k].text /\ log'[k].nul = log[k].nul
                           /\ log'[k].lost = 0 => log[k].lost = 0
  PROVE  Clear(n)' => Clear(n)
<1>. SUFFICES ASSUME Clear(n)'
              PROVE  Clear(n)
  OBVIOUS
<1>1. PICK m \in 1 .. n : (m = 1 \/ log'[m].nul) /\ \A k \in m .. n : Harmless(log'[k])
  BY DEF Clear
<1>2. \A k \in m .. n : Harmless(log[k])
  <2>1. TAKE k \in m .. n
  <2>2. Harmless(log'[k]) /\ k \in 1 .. n
    BY <1>1
  <2>. QED
    BY <2>2 DEF Harmless
<1>. QED
  BY <1>1, <1>2 DEF Clear

\* Steps that neither read nor write characters.
LEMMA QuietFull ==
  ASSUME FullInv, UNCHANGED <<rest, log, ring, parser, last>>,
         \/ pc \notin {"object", "send"} /\ pc' \notin {"object", "send"}
         \/ Convert
         \/ pc' = pc /\ obj' = obj
  PROVE  Ordered' /\ \A n \in DOMAIN log' : Followed(n)'
<1>. USE DEF FullInv
<1>1. Ordered'
  BY DEF Ordered, Sent, Line, NulBefore
<1>2. ASSUME NEW n \in DOMAIN log'
      PROVE  Followed(n)'
  <2>. SUFFICES ASSUME log'[n].lost = 0
                PROVE  Followed(n)'
    BY DEF Followed
  <2>1. PICK r \in Nat, b \in Int : Trail(n, r, b) /\ (Clear(n) => InStep(n, r))
    BY <1>2 DEF Followed
  <2>2. Trail(n, r, b)'
    BY <2>1 DEF Trail, Sent, Line, NulBefore
  <2>3. Clear(n)' => Clear(n)
    BY DEF Clear, Harmless
  <2>4. RightlyAnswered(n) => RightlyAnswered(n)'
    BY DEF RightlyAnswered, Fits
  <2>5. InStep(n, r) => InStep(n, r)'
    <3>1. CASE Convert
      <4>1. pc = "object" /\ pc' = "send" /\ obj = <<"message">> /\ obj[1] = "message"
        BY <3>1 DEF Convert
      <4>. QED
        BY <2>4, <4>1 DEF InStep, Pending, Line, NulBefore, Parsed, ResetParser, Fits
    <3>2. CASE pc \notin {"object", "send"} /\ pc' \notin {"object", "send"}
      BY <2>4, <3>2 DEF InStep, Pending, Line, NulBefore, Parsed, ResetParser, Fits
    <3>3. CASE pc' = pc /\ obj' = obj
      BY <2>4, <3>3 DEF InStep, Pending, Line, NulBefore, Parsed, ResetParser, Fits
    <3>. QED
      BY <3>1, <3>2, <3>3
  <2>. QED
    BY <2>1, <2>2, <2>3, <2>5 DEF Followed
<1>. QED
  BY <1>1, <1>2

\* Writing an answer.
LEMMA AnswerFull ==
  ASSUME FullInv, Inv', NEW line \in Kinds \cup {"sent", "xmitError"}, Answered(line),
         UNCHANGED <<rest, ring, parser, last>>,
         pc \in {"object", "send"}, pc' = "serial",
         \/ pc = "object" /\ line = obj[1] /\ obj # <<"message">>
         \/ pc = "send" /\ line \in {"sent", "xmitError"}
  PROVE  Ordered' /\ \A n \in DOMAIN log' : Followed(n)'
<1>. USE DEF FullInv, Inv
<1>1. last \in DOMAIN log /\ last \in Nat /\ log \in Seq(Entries)
  BY DEF TypeOK
<1>2. log' = [log EXCEPT ![last].answers = Append(@, line)]
  BY DEF Answered
<1>3. /\ DOMAIN log' = DOMAIN log /\ Len(log') = Len(log)
      /\ \A n \in DOMAIN log :
           /\ log'[n].text = log[n].text /\ log'[n].nul = log[n].nul
           /\ log'[n].lost = log[n].lost
           /\ n # last => log'[n].answers = log[n].answers
      /\ log'[last].answers = Append(log[last].answers, line)
  <2>. DEFINE new == [log[last] EXCEPT !.answers = Append(@, line)]
  <2>1. \A n \in DOMAIN log : log[n] \in Entries
    BY <1>1
  <2>2. /\ new.text = log[last].text /\ new.nul = log[last].nul /\ new.lost = log[last].lost
        /\ new.answers = Append(log[last].answers, line)
    BY <1>1, <2>1 DEF Entries
  <2>3. log' = [log EXCEPT ![last] = new]
    BY <1>2
  <2>. HIDE DEF new
  <2>. QED
    BY <1>1, <2>2, <2>3
<1>4. \A n \in DOMAIN log : Line(log'[n]) = Line(log[n]) /\ Sent(n)' = Sent(n)
  BY <1>3 DEF Line, Sent, NulBefore
<1>5. Ordered'
  <2>1. log # <<>> => Len(log) \in DOMAIN log
    BY <1>1
  <2>2. Len(log)' = Len(log) /\ log # <<>>
    BY <1>1, <1>3
  <2>. QED
    BY <1>3, <1>4, <2>1, <2>2 DEF Ordered
<1>6. ASSUME NEW n \in DOMAIN log, log[n].lost = 0
      PROVE  Followed(n)'
  <2>1. PICK r \in Nat, b \in Int : Trail(n, r, b) /\ (Clear(n) => InStep(n, r))
    BY <1>6 DEF Followed
  <2>2. Trail(n, r, b)'
    BY <1>3, <1>4, <2>1 DEF Trail
  <2>3. Clear(n)' => Clear(n)
    <3>1. n \in Nat /\ 1 .. n \subseteq DOMAIN log
      BY <1>1
    <3>. QED
      BY <1>3, <3>1, StillClear
  <2>4. ASSUME Clear(n), InStep(n, r)
        PROVE  InStep(n, r)'
    <3>1. CASE n = last
      <4>1. /\ r = Len(Line(log[n])) /\ parser = ResetParser /\ log[n].answers = <<>>
            /\ Fits(log[n].text) =>
                 /\ pc = "object" => obj[1] = KindOf[log[n].text]
                 /\ pc = "send" => KindOf[log[n].text] = "message"
        BY <2>4, <3>1 DEF InStep, Pending
      <4>2. log'[n].answers = <<line>>
        BY <1>3, <3>1, <4>1
      <4>3. Fits(log[n].text) =>
              line \in IF KindOf[log[n].text] = "message" THEN {"sent", "xmitError"}
                       ELSE {KindOf[log[n].text]}
        <5>1. pc = "object" => obj = <<obj[1]>> /\ obj # <<>>
          BY DEF TypeOK
        <5>. QED
          BY <4>1, <5>1
      <4>4. RightlyAnswered(n)'
        <5>1. Len(<<line>>) = 1 /\ <<line>>[1] = line
          OBVIOUS
        <5>. QED
          BY <1>3, <4>2, <4>3, <5>1 DEF RightlyAnswered, Fits
      <4>5. Len(Line(log'[n])) = r
        BY <1>4, <4>1
      <4>. QED
        BY <4>1, <4>4, <4>5 DEF InStep, Pending, ResetParser
    <3>2. CASE n # last
      <4>1. RightlyAnswered(n) => RightlyAnswered(n)'
        BY <1>3, <3>2 DEF RightlyAnswered, Fits
      <4>. QED
        BY <1>3, <1>4, <2>4, <3>2, <4>1 DEF InStep, Pending
    <3>. QED
      BY <3>1, <3>2
  <2>. QED
    BY <2>1, <2>2, <2>3, <2>4 DEF Followed
<1>. QED
  BY <1>3, <1>5, <1>6 DEF Followed

\* A new text: nothing of it is in the ring, all before it is typed.
LEMMA BeginFull ==
  ASSUME FullInv, Inv', NEW t \in Texts, NEW nul \in BOOLEAN, BeginText(t, nul)
  PROVE  Ordered' /\ \A n \in DOMAIN log' : Followed(n)'
<1>. USE DEF FullInv, Inv
<1>a. PICK N : N = Len(log) + 1
  OBVIOUS
<1>b. PICK entry : entry = [text |-> t, nul |-> nul, lost |-> 0, answers |-> <<>>]
  OBVIOUS
<1>1. /\ rest = <<>> /\ log \in Seq(Entries) /\ ring \in Seq([char : Characters, of : Nat])
      /\ rest' = Line(entry) /\ log' = Append(log, entry)
      /\ UNCHANGED <<ring, parser, obj, last, pc>>
  BY <1>b DEF BeginText, TypeOK, Line
<1>2. /\ DOMAIN log' = DOMAIN log \cup {N} /\ Len(log') = N /\ log'[N] = entry
      /\ DOMAIN log = 1 .. Len(log) /\ Len(log) \in Nat
      /\ \A n \in DOMAIN log : n # N /\ log'[n] = log[n]
  BY <1>a, <1>1
<1>3. \A n \in DOMAIN log : Sent(n) = Len(Line(log[n])) /\ Sent(n)' = Sent(n)
  <2>1. TAKE n \in DOMAIN log
  <2>2. log[n] \in Entries /\ n # Len(log')
    BY <1>1, <1>2
  <2>3. Len(Line(log[n])) \in Nat
    BY <2>2, Lines
  <2>. QED
    BY <1>1, <1>2, <2>2, <2>3 DEF Sent
<1>4. Sent(N)' = 0 /\ Len(rest') \in Nat /\ entry.answers = <<>> /\ entry.lost = 0
  <2>1. Len(rest') \in Nat
    BY DEF TypeOK
  <2>. QED
    BY <1>1, <1>2, <1>b, <2>1 DEF Sent
<1>5. \A i \in DOMAIN ring : ring[i].of \in 1 .. Len(log)
  BY <1>2 DEF Attributed
<1>6. last < N /\ last \in Nat
  BY <1>2, <1>a DEF TypeOK
<1>7. Ordered'
  <2>1. \A j \in 1 .. Len(rest') : rest'[j] = Line(log'[Len(log')])[Sent(N)' + j]
    BY <1>1, <1>2, <1>4
  <2>2. \A n \in DOMAIN log' : n > last => log'[n].answers = <<>>
    BY <1>2, <1>4 DEF Ordered
  <2>. QED
    BY <1>1, <1>2, <1>4, <2>1, <2>2 DEF Ordered, ResetParser
<1>8. Followed(N)'
  <2>1. Len(ring) \in Nat /\ 0 \in Nat /\ N \in Nat
    BY <1>1, <1>2, <1>a
  <2>2. Trail(N, 0, Len(ring))'
    <3>1. \A i \in DOMAIN ring : ring[i].of # N
      BY <1>2, <1>5, <1>a
    <3>. QED
      BY <1>1, <1>2, <1>4, <1>6, <2>1, <3>1 DEF Trail
  <2>3. Clear(N)' => InStep(N, 0)'
    <3>. SUFFICES ASSUME Clear(N)'
                  PROVE  InStep(N, 0)'
      OBVIOUS
    <3>1. Len(Line(entry)) >= 1
      <4>1. PICK m \in 1 .. N : \A k \in m .. N : Harmless(log'[k])
        BY DEF Clear
      <4>2. Harmless(entry)
        BY <1>2, <2>1, <4>1
      <4>3. entry.text \in Texts /\ entry \in Entries
        <5>1. log' \in Seq(Entries)
          BY DEF TypeOK
        <5>2. entry \in Entries
          BY <1>2, <5>1
        <5>. QED
          BY <5>2, Lines
      <4>4. IsObject(entry.text)
        BY <4>2, <4>3, ObjectsAssumption DEF Harmless
      <4>5. Len(entry.text) >= 1
        BY <4>3, <4>4, TextsAssumption DEF IsObject
      <4>6. /\ Len(NulBefore(entry.nul)) \in {0, 1} /\ entry.text \in Seq(Characters)
            /\ Len(Line(entry)) = Len(NulBefore(entry.nul)) + Len(entry.text)
        BY <4>3, Lines
      <4>7. \A z \in {0, 1}, y \in Nat : y >= 1 => z + y >= 1
        OBVIOUS
      <4>8. Len(entry.text) \in Nat
        BY <4>6
      <4>. QED
        BY <4>5, <4>6, <4>7, <4>8, Zenon
    <3>. QED
      BY <1>1, <1>2, <1>4, <1>6, <3>1 DEF InStep, Pending
  <2>. QED
    BY <2>1, <2>2, <2>3 DEF Followed
<1>9. ASSUME NEW n \in DOMAIN log, log[n].lost = 0
      PROVE  Followed(n)'
  <2>1. PICK r \in Nat, b \in Int : Trail(n, r, b) /\ (Clear(n) => InStep(n, r))
    BY <1>9 DEF Followed
  <2>2. Trail(n, r, b)'
    BY <1>1, <1>2, <1>3, <2>1 DEF Trail
  <2>3. Clear(n)' => Clear(n)
    <3>1. n \in Nat /\ 1 .. n \subseteq DOMAIN log
      BY <1>2
    <3>. QED
      BY <1>2, <3>1, StillClear
  <2>4. InStep(n, r) => InStep(n, r)'
    <3>1. RightlyAnswered(n) => RightlyAnswered(n)'
      BY <1>2 DEF RightlyAnswered, Fits
    <3>. QED
      BY <1>1, <1>2, <3>1 DEF InStep, Pending, ResetParser
  <2>. QED
    BY <2>1, <2>2, <2>3, <2>4 DEF Followed
<1>. QED
  BY <1>2, <1>7, <1>8, <1>9 DEF Followed

\* The next character is after all that are in the ring; if it is lost, so is the
\* text.
LEMMA TypeFull ==
  ASSUME FullInv, Inv', Type
  PROVE  Ordered' /\ \A n \in DOMAIN log' : Followed(n)'
<1>. USE DEF FullInv, Inv
<1>a. PICK N : N = Len(log)
  OBVIOUS
<1>1. /\ rest \in Seq(Characters) /\ rest # <<>> /\ rest' = Tail(rest)
      /\ log \in Seq(Entries) /\ ring \in Seq([char : Characters, of : Nat])
      /\ UNCHANGED <<parser, obj, last, pc>>
  BY DEF Type, TypeOK
<1>2. /\ N \in DOMAIN log /\ N \in Nat /\ DOMAIN log = 1 .. N /\ log # <<>>
      /\ last \in 0 .. N /\ \A i \in DOMAIN ring : ring[i].of \in 1 .. N
  <2>1. log # <<>> /\ \A i \in DOMAIN ring : ring[i].of \in DOMAIN log
    BY <1>1 DEF Attributed
  <2>. QED
    BY <1>1, <1>a, <2>1 DEF TypeOK
<1>3. /\ DOMAIN log' = DOMAIN log /\ Len(log') = N
      /\ \A n \in DOMAIN log :
           /\ log'[n].text = log[n].text /\ log'[n].nul = log[n].nul
           /\ log'[n].answers = log[n].answers
           /\ n # N => log'[n] = log[n]
           /\ log'[n].lost = 0 => log[n].lost = 0
  <2>1. CASE log' = log
    BY <1>a, <2>1
  <2>2. CASE log' = [log EXCEPT ![N].lost = @ + 1]
    <3>. DEFINE new == [log[N] EXCEPT !.lost = @ + 1]
    <3>1. log[N] \in Entries
      BY <1>1, <1>2
    <3>2. /\ new.text = log[N].text /\ new.nul = log[N].nul /\ new.answers = log[N].answers
          /\ new.lost = log[N].lost + 1 /\ log[N].lost \in Nat
      BY <3>1, SizesAssumption DEF Entries
    <3>3. log' = [log EXCEPT ![N] = new]
      BY <2>2
    <3>. HIDE DEF new
    <3>. QED
      BY <1>1, <1>2, <1>a, <3>2, <3>3
  <2>. QED
    BY <1>a, <2>1, <2>2 DEF Type
<1>4. /\ \A n \in DOMAIN log : Line(log'[n]) = Line(log[n])
      /\ \A n \in DOMAIN log : n # N => Sent(n) = Len(Line(log[n])) /\ Sent(n)' = Sent(n)
      /\ Sent(N) = Len(Line(log[N])) - Len(rest) /\ Sent(N)' = Sent(N) + 1
      /\ Sent(N) \in Nat /\ Len(Line(log[N])) \in Nat /\ Len(rest) <= Len(Line(log[N]))
  <2>1. \A n \in DOMAIN log : Line(log'[n]) = Line(log[n]) /\ Len(Line(log[n])) \in Nat
    <3>1. TAKE n \in DOMAIN log
    <3>2. log[n] \in Entries
      BY <1>1
    <3>3. Line(log[n]) \in Seq(Characters)
      BY <3>2, Lines
    <3>4. Line(log'[n]) = Line(log[n])
      BY <1>3 DEF Line
    <3>. QED
      BY <3>3, <3>4
  <2>2. /\ Len(rest) <= Len(Line(log[N])) /\ Len(rest) \in Nat
        /\ Len(rest') = Len(rest) - 1
    BY <1>1, <1>2, <1>a DEF Ordered
  <2>3. \A n \in DOMAIN log : n # N => Sent(n) = Len(Line(log[n])) /\ Sent(n)' = Sent(n)
    <3>1. TAKE n \in DOMAIN log
    <3>2. Len(Line(log[n])) \in Nat
      BY <2>1
    <3>. QED
      BY <1>3, <1>a, <2>1, <3>2 DEF Sent
  <2>4. Sent(N) = Len(Line(log[N])) - Len(rest)
    BY <1>a DEF Sent
  <2>5. Sent(N)' = Len(Line(log'[N])) - Len(rest')
    BY <1>3, <1>a DEF Sent
  <2>6. Len(Line(log[N])) \in Nat /\ Line(log'[N]) = Line(log[N])
    BY <1>2, <2>1
  <2>. QED
    BY <2>1, <2>2, <2>3, <2>4, <2>5, <2>6
<1>5. /\ \A j \in 1 .. Len(rest) : rest[j] = Line(log[N])[Sent(N) + j]
      /\ \A j \in 1 .. Len(rest') : rest'[j] = rest[j + 1] /\ j + 1 \in 1 .. Len(rest)
      /\ Len(rest') = Len(rest) - 1 /\ Head(rest) = rest[1] /\ Len(rest) \in Nat \ {0}
  BY <1>1, <1>2, <1>a DEF Ordered
<1>6. \/ /\ ring' = Append(ring, [char |-> Line(log[N])[Sent(N) + 1], of |-> N])
         /\ log' = log
      \/ ring' = ring /\ log'[N].lost # 0
  <2>1. CASE Len(ring) < RingSize
    <3>1. ring' = Append(ring, [char |-> Head(rest), of |-> N]) /\ log' = log
      BY <1>a, <2>1 DEF Type
    <3>2. Head(rest) = Line(log[N])[Sent(N) + 1]
      <4>1. 1 \in 1 .. Len(rest)
        BY <1>5
      <4>. QED
        BY <1>5, <4>1
    <3>. QED
      BY <3>1, <3>2
  <2>2. CASE ~(Len(ring) < RingSize)
    <3>1. ring' = ring /\ log' = [log EXCEPT ![N].lost = @ + 1]
      BY <1>a, <2>2 DEF Type
    <3>2. log[N] \in Entries /\ log[N].lost \in Nat
      <4>1. log[N] \in Entries
        BY <1>1, <1>2
      <4>. QED
        BY <4>1, SizesAssumption DEF Entries
    <3>3. log'[N].lost = log[N].lost + 1
      BY <1>2, <3>1, <3>2 DEF Entries
    <3>. QED
      BY <3>1, <3>2, <3>3
  <2>. QED
    BY <2>1, <2>2
<1>7. Ordered'
  <2>1. \A j \in 1 .. Len(rest') : rest'[j] = Line(log'[N])[Sent(N)' + j]
    <3>1. TAKE j \in 1 .. Len(rest')
    <3>2. rest'[j] = Line(log[N])[Sent(N) + (j + 1)] /\ j \in Nat
      BY <1>5
    <3>3. Sent(N) + (j + 1) = (Sent(N) + 1) + j
      BY <1>4, <3>2
    <3>. QED
      BY <1>2, <1>4, <3>2, <3>3
  <2>2. Len(rest') <= Len(Line(log'[N]))
    BY <1>2, <1>4, <1>5
  <2>3. \A i \in DOMAIN ring' :
          last <= ring'[i].of /\ \A j \in 1 .. i : ring'[j].of <= ring'[i].of
    <3>1. \A i \in DOMAIN ring :
            /\ last <= ring[i].of /\ ring[i].of <= N
            /\ \A j \in 1 .. i : ring[j].of <= ring[i].of
      BY <1>2 DEF Ordered
    <3>2. CASE ring' = ring
      BY <3>1, <3>2
    <3>3. CASE ring' = Append(ring, [char |-> Line(log[N])[Sent(N) + 1], of |-> N])
      <4>1. /\ DOMAIN ring' = 1 .. Len(ring) + 1 /\ DOMAIN ring = 1 .. Len(ring)
            /\ Len(ring) \in Nat
            /\ ring'[Len(ring) + 1].of = N
            /\ \A i \in DOMAIN ring : ring'[i] = ring[i]
        BY <1>1, <3>3
      <4>2. \A i \in DOMAIN ring' : ring'[i].of <= N
        BY <1>2, <3>1, <4>1
      <4>. QED
        BY <1>2, <3>1, <4>1, <4>2
    <3>. QED
      BY <1>6, <3>2, <3>3
  <2>4. \A n \in DOMAIN log' : n > last => log'[n].answers = <<>>
    BY <1>3 DEF Ordered
  <2>. QED
    BY <1>1, <1>3, <2>1, <2>2, <2>3, <2>4 DEF Ordered, ResetParser
<1>8. ASSUME NEW n \in DOMAIN log, log'[n].lost = 0
      PROVE  Followed(n)'
  <2>1. PICK r \in Nat, b \in Int : Trail(n, r, b) /\ (Clear(n) => InStep(n, r))
    BY <1>3, <1>8 DEF Followed
  <2>2. Trail(n, r, b)'
    <3>1. CASE ring' = ring
      <4>1. n # N
        BY <1>6, <1>8, <3>1, <1>1
      <4>. QED
        BY <1>1, <1>3, <1>4, <1>a, <2>1, <3>1, <4>1 DEF Trail
    <3>2. CASE ring' # ring
      <4>1. ring' = Append(ring, [char |-> Line(log[N])[Sent(N) + 1], of |-> N])
        BY <1>6, <3>2
      <4>2. /\ DOMAIN ring' = 1 .. Len(ring) + 1 /\ DOMAIN ring = 1 .. Len(ring)
            /\ Len(ring) \in Nat /\ Len(ring') = Len(ring) + 1
            /\ ring'[Len(ring) + 1] = [char |-> Line(log[N])[Sent(N) + 1], of |-> N]
            /\ \A i \in DOMAIN ring : ring'[i] = ring[i]
        BY <1>1, <4>1
      <4>3. CASE n # N
        <5>1. \A i \in DOMAIN ring' : ring'[i].of = n => i \in DOMAIN ring
          BY <4>2, <4>3
        <5>2. \A k \in r + 1 .. Sent(n) :
                b + k \in DOMAIN ring' /\ ring'[b + k] = [char |-> Line(log[n])[k], of |-> n]
          BY <2>1, <4>2 DEF Trail
        <5>. QED
          BY <1>1, <1>3, <1>4, <1>a, <2>1, <4>2, <4>3, <5>1, <5>2 DEF Trail
      <4>4. CASE n = N
        <5>1. b + Sent(N) = Len(ring) /\ r <= Sent(N)
          BY <1>a, <2>1, <4>4 DEF Trail
        <5>2. \A k \in r + 1 .. Sent(N) + 1 :
                b + k \in DOMAIN ring' /\ ring'[b + k] = [char |-> Line(log[N])[k], of |-> N]
          <6>1. TAKE k \in r + 1 .. Sent(N) + 1
          <6>2. CASE k = Sent(N) + 1
            <7>1. b + k = Len(ring) + 1
              BY <1>4, <5>1, <6>2
            <7>. QED
              BY <4>2, <6>2, <7>1
          <6>3. CASE k # Sent(N) + 1
            <7>1. k \in r + 1 .. Sent(N)
              BY <1>4, <6>3
            <7>2. b + k \in DOMAIN ring /\ ring[b + k] = [char |-> Line(log[N])[k], of |-> N]
              BY <2>1, <4>4, <7>1 DEF Trail
            <7>. QED
              BY <4>2, <7>2
          <6>. QED
            BY <6>2, <6>3
        <5>3. \A i \in DOMAIN ring' : ring'[i].of = N => i - b \in r + 1 .. Sent(N) + 1
          <6>1. TAKE i \in DOMAIN ring'
          <6>2. CASE i \in DOMAIN ring
            <7>1. ring[i].of = N => i - b \in r + 1 .. Sent(N)
              BY <2>1, <4>4, <6>2 DEF Trail
            <7>. QED
              BY <1>4, <4>2, <6>2, <7>1
          <6>3. CASE i \notin DOMAIN ring
            <7>1. i = Len(ring) + 1
              BY <4>2, <6>3
            <7>. QED
              BY <1>4, <4>2, <5>1, <7>1
          <6>. QED
            BY <6>2, <6>3
        <5>4. /\ r <= Sent(N)' /\ b + Sent(N)' = Len(ring')
              /\ (N > last => r = 0) /\ (N = last => r >= 1)
          <6>1. (N > last => r = 0) /\ (N = last => r >= 1)
            BY <2>1, <4>4 DEF Trail
          <6>. QED
            BY <1>4, <4>2, <5>1, <6>1
        <5>. QED
          BY <1>1, <1>2, <1>4, <4>4, <5>2, <5>3, <5>4 DEF Trail
      <4>. QED
        BY <4>3, <4>4
    <3>. QED
      BY <3>1, <3>2
  <2>3. Clear(n)' => Clear(n)
    <3>1. n \in Nat /\ 1 .. n \subseteq DOMAIN log
      BY <1>2
    <3>. QED
      BY <1>3, <3>1, StillClear
  <2>4. InStep(n, r) => InStep(n, r)'
    <3>1. RightlyAnswered(n) => RightlyAnswered(n)'
      BY <1>3 DEF RightlyAnswered, Fits
    <3>. QED
      BY <1>1, <1>3, <1>4, <3>1 DEF InStep, Pending, ResetParser
  <2>. QED
    BY <2>1, <2>2, <2>3, <2>4 DEF Followed
<1>. QED
  BY <1>3, <1>7, <1>8 DEF Followed

\* A parser that was just reset is in step with any text.
LEMMA ParsedNone ==
  ASSUME NEW t \in Seq(Characters)
  PROVE  Parsed(t, 0, ResetParser)
<1>1. 0 \in 0 .. Len(t)
  OBVIOUS
<1>2. /\ \A P : UpTo(P, 0) = 0
      /\ Unquoted(t, 0 + 1) /\ NestingAt(t, 0) = 0
  <2>1. \A P : UpTo(P, 0) = 0
    BY UpToNone
  <2>2. Unquoted(t, 0 + 1) <=> UpTo(Quotes(t), 0) % 2 = 0
    BY <1>1, Counts
  <2>3. NestingAt(t, 0) = UpTo(Seen(t, "open"), 0) - UpTo(Seen(t, "close"), 0)
    BY <1>1, Counts
  <2>. QED
    BY <2>1, <2>2, <2>3
<1>3. BufSize \in Nat \ {0}
  BY SizesAssumption
<1>. QED
  BY <1>2, <1>3 DEF Parsed, ResetParser

\* The head of the ring is the next character of its text.
LEMMA HeadNext ==
  ASSUME FullInv, ring # <<>>, NEW n \in DOMAIN log, n = ring[1].of,
         NEW r \in Nat, NEW b \in Int, Trail(n, r, b)
  PROVE  /\ b = 0 - r /\ r + 1 <= Sent(n) /\ r + 1 \in 1 .. Len(Line(log[n]))
         /\ ring[1] = [char |-> Line(log[n])[r + 1], of |-> n]
<1>0. TypeOK
  BY DEF FullInv, Inv
<1>c. PICK len : len = Len(Line(log[n]))
  OBVIOUS
<1>d. PICK sent : sent = Sent(n)
  OBVIOUS
<1>1. /\ ring \in Seq([char : Characters, of : Nat]) /\ 1 \in DOMAIN ring
      /\ log \in Seq(Entries) /\ rest \in Seq(Characters)
  BY <1>0 DEF TypeOK
<1>2. sent \in Int /\ sent <= len /\ len \in Nat
  <2>1. log[n] \in Entries
    BY <1>1
  <2>2. len \in Nat /\ Len(rest) \in Nat
    BY <1>1, <1>c, <2>1, Lines
  <2>3. sent = IF n = Len(log) THEN len - Len(rest) ELSE len - 0
    BY <1>c, <1>d DEF Sent
  <2>. QED
    BY <2>2, <2>3
<1>3. 1 - b \in r + 1 .. sent
  BY <1>1, <1>d DEF Trail
<1>4. r + 1 \in r + 1 .. sent /\ r + 1 \in 1 .. len
  BY <1>2, <1>3
<1>5. b + (r + 1) \in DOMAIN ring /\ ring[b + (r + 1)] = [char |-> Line(log[n])[r + 1], of |-> n]
  BY <1>4, <1>d DEF Trail
<1>6. b + (r + 1) >= 1
  BY <1>1, <1>5
<1>7. b + (r + 1) = 1 /\ b = 0 - r
  BY <1>3, <1>6
<1>. QED
  BY <1>2, <1>4, <1>5, <1>7, <1>c, <1>d

\* Before a character of a clear text the parser is in step with it.
LEMMA BeforeRead ==
  ASSUME FullInv, pc = "serial", ring # <<>>, NEW n \in DOMAIN log, n = ring[1].of, Clear(n),
         NEW r \in Nat, NEW b \in Int, Trail(n, r, b), InStep(n, r)
  PROVE  /\ log[n].answers = <<>>
         /\ r >= Len(NulBefore(log[n].nul)) =>
              Parsed(log[n].text, r - Len(NulBefore(log[n].nul)), parser)
<1>0. TypeOK /\ Ordered /\ \A m \in DOMAIN log : Followed(m)
  BY DEF FullInv, Inv
<1>a. PICK z : z = Len(NulBefore(log[n].nul))
  OBVIOUS
<1>1. /\ log \in Seq(Entries) /\ n \in Nat \ {0} /\ last \in Nat /\ last <= n
      /\ log[n] \in Entries
  <2>1. 1 \in DOMAIN ring /\ log \in Seq(Entries)
    BY <1>0 DEF TypeOK
  <2>. QED
    BY <1>0, <2>1 DEF TypeOK, Ordered
<1>2. r + 1 <= Len(Line(log[n])) /\ r # Len(Line(log[n])) /\ r < Len(Line(log[n]))
  <2>1. r + 1 \in 1 .. Len(Line(log[n]))
    BY HeadNext
  <2>2. Len(Line(log[n])) \in Nat
    BY <1>1, Lines
  <2>. QED
    BY <2>1, <2>2
<1>3. log[n].answers = <<>>
  BY <1>2 DEF InStep
<1>4. ASSUME n = last
      PROVE  Parsed(log[n].text, r - z, parser)
  BY <1>2, <1>4, <1>a DEF InStep
<1>5. ASSUME n # last, r >= z
      PROVE  Parsed(log[n].text, r - z, parser)
  <2>1. r = 0 /\ n > last
    BY <1>1, <1>5 DEF Trail
  <2>2. ~log[n].nul /\ z = 0
    <3>1. z \in {0, 1} /\ (log[n].nul <=> z = 1)
      BY <1>1, <1>a, Lines
    <3>. QED
      BY <1>5, <2>1, <3>1
  <2>3. parser = ResetParser
    <3>1. CASE n = 1
      <4>1. last = 0
        BY <1>1, <2>1, <3>1
      <4>. QED
        BY <1>0, <4>1 DEF Ordered
    <3>2. CASE n # 1
      <4>1. n - 1 \in DOMAIN log /\ Clear(n - 1)
        BY <1>0, <2>2, <3>2, ClearPlain
      <4>2. PICK v : v = n - 1
        OBVIOUS
      <4>3. log[v].lost = 0 /\ Len(log[v].text) >= 1 /\ v # Len(log) /\ log[v] \in Entries
        <5>1. log[v].lost = 0 /\ Len(log[v].text) >= 1
          BY <1>0, <4>1, <4>2, ClearPlain
        <5>. QED
          BY <1>1, <4>1, <4>2, <5>1
      <4>4. PICK q \in Nat, d \in Int : Trail(v, q, d) /\ InStep(v, q)
        BY <1>0, <4>1, <4>2, <4>3 DEF Followed
      <4>5. PICK len : len = Len(Line(log[v]))
        OBVIOUS
      <4>5b. Sent(v) = IF v = Len(log) THEN Len(Line(log[v])) - Len(rest)
                       ELSE Len(Line(log[v])) - 0
        BY DEF Sent
      <4>5a. Sent(v) = len /\ len \in Nat /\ len >= 1
        <5>1. /\ Len(NulBefore(log[v].nul)) \in {0, 1} /\ log[v].text \in Seq(Characters)
              /\ len = Len(NulBefore(log[v].nul)) + Len(log[v].text)
          BY <4>3, <4>5, Lines
        <5>2. Len(log[v].text) \in Nat
          BY <5>1
        <5>3. \A x \in {0, 1}, y \in Nat : y >= 1 => x + y \in Nat /\ x + y >= 1
          OBVIOUS
        <5>4. len \in Nat /\ len >= 1
          BY <4>3, <5>1, <5>2, <5>3, Zenon
        <5>. QED
          BY <4>3, <4>5, <4>5b, <5>4
      <4>6. \A i \in DOMAIN ring : ring[i].of # v
        <5>1. TAKE i \in DOMAIN ring
        <5>2. ring \in Seq([char : Characters, of : Nat])
          BY <1>0 DEF TypeOK
        <5>3. 1 \in 1 .. i /\ ring[i].of \in Nat
          <6>1. 1 \in 1 .. i /\ ring[i] \in [char : Characters, of : Nat]
            <7>1. DOMAIN ring = 1 .. Len(ring) /\ Len(ring) \in Nat
              BY <5>2, LenProperties
            <7>2. \A k \in 1 .. Len(ring) : ring[k] \in [char : Characters, of : Nat]
              BY <5>2, ElementOfSeq
            <7>. QED
              BY <7>1, <7>2
          <6>. QED
            BY <6>1
        <5>4. ring[1].of <= ring[i].of
          BY <1>0, <5>3 DEF Ordered
        <5>. QED
          BY <1>1, <4>2, <5>3, <5>4
      <4>7. q = len
        <5>1. q <= Sent(v) /\ \A k \in q + 1 .. Sent(v) : d + k \in DOMAIN ring /\ ring[d + k].of = v
          <6>1. /\ q <= Sent(v)
                /\ \A k \in q + 1 .. Sent(v) :
                     d + k \in DOMAIN ring /\ ring[d + k] = [char |-> Line(log[v])[k], of |-> v]
            BY <4>4 DEF Trail
          <6>2. \A k \in q + 1 .. Sent(v) : ring[d + k].of = v
            <7>1. TAKE k \in q + 1 .. Sent(v)
            <7>2. ring[d + k] = [char |-> Line(log[v])[k], of |-> v]
              BY <6>1
            <7>. QED
              BY <7>2
          <6>. QED
            BY <6>1, <6>2
        <5>2. q + 1 \notin q + 1 .. Sent(v)
          BY <4>6, <5>1
        <5>. QED
          BY <4>5a, <5>1, <5>2
      <4>8. v = last
        <5>1. ~(v > last)
          BY <4>4, <4>5a, <4>7 DEF Trail
        <5>. QED
          BY <1>1, <2>1, <4>2, <5>1
      <4>. QED
        BY <4>4, <4>5, <4>7, <4>8 DEF InStep
    <3>. QED
      BY <3>1, <3>2
  <2>4. Parsed(log[n].text, 0, ResetParser)
    BY <1>1, ParsedNone, Lines
  <2>. QED
    BY <2>1, <2>2, <2>3, <2>4
<1>. QED
  BY <1>3, <1>4, <1>5, <1>a

\* A character is read.
LEMMA ReadFull ==
  ASSUME FullInv, Inv', Read
  PROVE  Ordered' /\ \A n \in DOMAIN log' : Followed(n)'
<1>1. /\ pc = "serial" /\ ring # <<>> /\ obj = <<>> /\ TypeOK /\ Ordered
      /\ \A n \in DOMAIN log : Followed(n)
  BY DEF Read, FullInv, Inv, TypeOK
<1>h. PICK h : h = ring[1].of
  OBVIOUS
<1>c. PICK c : c = ring[1].char
  OBVIOUS
<1>2. /\ ring \in Seq([char : Characters, of : Nat]) /\ Len(ring) \in Nat \ {0}
      /\ DOMAIN ring = 1 .. Len(ring) /\ ring' = Tail(ring) /\ last' = h
      /\ Skip(c) \/ Store(c) \/ End(c)
      /\ UNCHANGED <<rest, log>> /\ c \in Characters /\ h \in DOMAIN log
      /\ pc' = IF obj' = <<>> THEN "serial" ELSE "object"
  <2>1. ring \in Seq([char : Characters, of : Nat]) /\ Head(ring) = ring[1]
    BY <1>1 DEF TypeOK
  <2>2. DOMAIN ring = 1 .. Len(ring) /\ Len(ring) \in Nat \ {0} /\ 1 \in DOMAIN ring
    BY <1>1, <2>1
  <2>3. ring[1] \in [char : Characters, of : Nat] /\ ring[1].of \in DOMAIN log
    BY <2>1, <2>2, ElementOfSeq DEF FullInv, Inv, Attributed
  <2>. QED
    BY <1>h, <1>c, <2>1, <2>2, <2>3 DEF Read
<1>3. /\ Len(ring') = Len(ring) - 1 /\ DOMAIN ring' = 1 .. Len(ring) - 1
      /\ \A i \in DOMAIN ring' : i + 1 \in DOMAIN ring /\ ring'[i] = ring[i + 1]
  BY <1>1, <1>2
<1>4. /\ last \in Nat /\ last <= h /\ h \in Nat \ {0}
      /\ log \in Seq(Entries)
  <2>1. log \in Seq(Entries) /\ last \in DOMAIN log \cup {0} /\ DOMAIN log = 1 .. Len(log)
    BY <1>1 DEF TypeOK
  <2>2. 1 \in DOMAIN ring
    BY <1>2
  <2>3. last <= ring[1].of
    BY <1>1, <2>2 DEF Ordered
  <2>. QED
    BY <1>2, <1>h, <2>1, <2>3
<1>5. \A i \in DOMAIN ring : ring[i].of \in Nat
  <2>1. \A i \in 1 .. Len(ring) : ring[i] \in [char : Characters, of : Nat]
    BY <1>2, ElementOfSeq
  <2>. QED
    BY <1>2, <2>1
<1>6. Ordered'
  <2>1. \A i \in DOMAIN ring' : last' <= ring'[i].of
    <3>1. TAKE i \in DOMAIN ring'
    <3>2. i + 1 \in DOMAIN ring /\ 1 \in 1 .. i + 1 /\ ring'[i] = ring[i + 1]
      BY <1>3
    <3>3. ring[1].of <= ring[i + 1].of
      BY <1>1, <3>2 DEF Ordered
    <3>. QED
      BY <1>2, <1>h, <3>2, <3>3
  <2>2. \A i \in DOMAIN ring' : \A j \in 1 .. i : ring'[j].of <= ring'[i].of
    <3>1. TAKE i \in DOMAIN ring'
    <3>2. TAKE j \in 1 .. i
    <3>3. /\ i + 1 \in DOMAIN ring /\ j + 1 \in 1 .. i + 1 /\ j \in DOMAIN ring'
          /\ ring'[i] = ring[i + 1] /\ ring'[j] = ring[j + 1]
      BY <1>2, <1>3
    <3>. QED
      BY <1>1, <3>3 DEF Ordered
  <2>3. /\ log # <<>> =>
             /\ Len(rest) <= Len(Line(log[Len(log)]))
             /\ \A j \in 1 .. Len(rest) : rest[j] = Line(log[Len(log)])[Sent(Len(log)) + j]
        /\ \A n \in DOMAIN log : n > last => log[n].answers = <<>>
    BY <1>1 DEF Ordered
  <2>4. /\ log' # <<>> =>
             /\ Len(rest') <= Len(Line(log'[Len(log')]))
             /\ \A j \in 1 .. Len(rest') : rest'[j] = Line(log'[Len(log')])[Sent(Len(log))' + j]
        /\ \A n \in DOMAIN log' : n > last' => log'[n].answers = <<>>
    <3>1. log' = log /\ rest' = rest /\ Sent(Len(log))' = Sent(Len(log))
      BY <1>2 DEF Sent
    <3>2. \A n \in DOMAIN log : n > h => n > last
      BY <1>4
    <3>. QED
      BY <1>2, <2>3, <3>1, <3>2
  <2>5. last' # 0
    BY <1>2, <1>4
  <2>. QED
    BY <2>1, <2>2, <2>4, <2>5 DEF Ordered
<1>7. ASSUME NEW n \in DOMAIN log, log[n].lost = 0
      PROVE  Followed(n)'
  <2>1. PICK r \in Nat, b \in Int : Trail(n, r, b) /\ (Clear(n) => InStep(n, r))
    BY <1>1, <1>7 DEF Followed
  <2>2. Clear(n)' => Clear(n)
    BY <1>2 DEF Clear
  <2>3. PICK sent, len, z : /\ sent = Sent(n) /\ len = Len(Line(log[n]))
                            /\ z = Len(NulBefore(log[n].nul))
    OBVIOUS
  <2>4. /\ sent = Sent(n)' /\ len = Len(Line(log'[n])) /\ n \in Nat
    BY <1>2, <1>4, <2>3 DEF Sent
  <2>5. /\ r <= sent
        /\ \A k \in r + 1 .. sent :
             b + k \in DOMAIN ring /\ ring[b + k] = [char |-> Line(log[n])[k], of |-> n]
        /\ \A i \in DOMAIN ring : ring[i].of = n => i - b \in r + 1 .. sent
        /\ n = Len(log) => b + sent = Len(ring)
        /\ n > last => r = 0
        /\ n = last => r >= 1
    BY <2>1, <2>3 DEF Trail
  <2>6. /\ len \in Nat /\ z \in {0, 1} /\ (log[n].nul <=> z = 1)
        /\ len = z + Len(log[n].text) /\ Len(log[n].text) \in Nat
        /\ \A k \in 1 .. len :
             Line(log[n])[k] = IF k <= z THEN "nul" ELSE log[n].text[k - z]
        /\ Clear(n) => len >= 1
    <3>1. log[n] \in Entries
      BY <1>4
    <3>2. /\ len = z + Len(log[n].text) /\ Len(log[n].text) \in Nat /\ z \in {0, 1}
          /\ (log[n].nul <=> z = 1)
          /\ \A k \in 1 .. len :
               Line(log[n])[k] = IF k <= z THEN "nul" ELSE log[n].text[k - z]
      <4>1. LET y == Len(NulBefore(log[n].nul))
            IN  /\ log[n].text \in Seq(Characters)
                /\ y \in {0, 1} /\ (log[n].nul <=> y = 1)
                /\ Len(Line(log[n])) = y + Len(log[n].text)
                /\ \A k \in 1 .. Len(Line(log[n])) :
                     Line(log[n])[k] = IF k <= y THEN "nul" ELSE log[n].text[k - y]
        BY <3>1, Lines
      <4>2. log[n].text \in Seq(Characters)
        BY <4>1
      <4>3. Len(log[n].text) \in Nat
        BY <4>2
      <4>. QED
        BY <2>3, <4>1, <4>3, Zenon
    <3>3. Clear(n) => Len(log[n].text) >= 1
      BY <1>1, ClearPlain
    <3>. QED
      BY <3>2, <3>3
  <2>7. sent \in Int /\ b - 1 \in Int
    <3>1. sent = len - (IF n = Len(log) THEN Len(rest) ELSE 0)
      BY <2>3 DEF Sent
    <3>2. Len(rest) \in Nat
      BY <1>1 DEF TypeOK
    <3>. QED
      BY <2>6, <3>1, <3>2
  <2>8. CASE n # h
    <3>1. Trail(n, r, b - 1)'
      <4>1. \A k \in r + 1 .. sent :
              /\ (b - 1) + k \in DOMAIN ring'
              /\ ring'[(b - 1) + k] = [char |-> Line(log'[n])[k], of |-> n]
        <5>1. TAKE k \in r + 1 .. sent
        <5>2. b + k \in DOMAIN ring /\ ring[b + k] = [char |-> Line(log[n])[k], of |-> n]
          BY <2>5
        <5>3. ring[b + k].of = n
          BY <5>2
        <5>4. b + k # 1
          BY <1>h, <2>8, <5>3
        <5>5. k \in Int
          BY <2>7
        <5>6. (b - 1) + k \in DOMAIN ring' /\ ((b - 1) + k) + 1 = b + k
          BY <1>2, <1>3, <5>2, <5>4, <5>5
        <5>. QED
          BY <1>2, <1>3, <5>2, <5>6
      <4>2. \A i \in DOMAIN ring' : ring'[i].of = n => i - (b - 1) \in r + 1 .. sent
        <5>1. TAKE i \in DOMAIN ring'
        <5>2. /\ i + 1 \in DOMAIN ring /\ ring'[i] = ring[i + 1] /\ (i + 1) - b = i - (b - 1)
          BY <1>2, <1>3
        <5>. QED
          BY <2>5, <5>2
      <4>3. /\ n = Len(log) => (b - 1) + sent = Len(ring')
            /\ n > last' => r = 0
            /\ n = last' => r >= 1
        <5>1. n = Len(log) => (b - 1) + sent = Len(ring')
          <6>1. n = Len(log) => b + sent = Len(ring)
            BY <2>5
          <6>2. Len(ring') = Len(ring) - 1
            BY <1>3
          <6>3. (b - 1) + sent = (b + sent) - 1
            BY <2>7
          <6>. QED
            BY <6>1, <6>2, <6>3
        <5>2. n > h => n > last
          BY <1>4, <2>4
        <5>. QED
          BY <1>2, <2>5, <2>8, <5>1, <5>2
      <4>. QED
        BY <1>2, <2>4, <2>5, <4>1, <4>2, <4>3 DEF Trail
    <3>2. Clear(n) /\ InStep(n, r) => InStep(n, r)'
      <4>. SUFFICES ASSUME Clear(n), InStep(n, r)
                    PROVE  InStep(n, r)'
        OBVIOUS
      <4>1. ~Pending(n) /\ n # last' /\ log' = log
        BY <1>1, <1>2, <2>8 DEF Pending
      <4>2. RightlyAnswered(n)' <=> RightlyAnswered(n)
        BY <4>1 DEF RightlyAnswered, Fits
      <4>. QED
        BY <2>3, <2>4, <4>1, <4>2 DEF InStep, Pending
    <3>. QED
      BY <2>1, <2>2, <2>7, <3>1, <3>2 DEF Followed
  <2>9. CASE n = h
    <3>1. /\ b = 0 - r /\ r + 1 <= sent /\ r + 1 \in 1 .. len
          /\ ring[1] = [char |-> Line(log[n])[r + 1], of |-> n]
      BY <1>1, <1>h, <2>1, <2>3, <2>9, HeadNext
    <3>2. Trail(n, r + 1, b - 1)'
      <4>1. \A k \in (r + 1) + 1 .. sent :
              /\ (b - 1) + k \in DOMAIN ring'
              /\ ring'[(b - 1) + k] = [char |-> Line(log'[n])[k], of |-> n]
        <5>1. TAKE k \in (r + 1) + 1 .. sent
        <5>2. k \in r + 1 .. sent /\ k \in Int
          BY <2>7
        <5>3. b + k \in DOMAIN ring /\ ring[b + k] = [char |-> Line(log[n])[k], of |-> n]
          BY <2>5, <5>2
        <5>4. b + k > 1
          BY <3>1, <5>1, <5>2
        <5>5. (b - 1) + k \in DOMAIN ring' /\ ((b - 1) + k) + 1 = b + k
          BY <1>2, <1>3, <5>2, <5>3, <5>4
        <5>. QED
          BY <1>2, <1>3, <5>3, <5>5
      <4>2. \A i \in DOMAIN ring' : ring'[i].of = n => i - (b - 1) \in (r + 1) + 1 .. sent
        <5>1. TAKE i \in DOMAIN ring'
        <5>2. /\ i + 1 \in DOMAIN ring /\ ring'[i] = ring[i + 1] /\ i \in Nat /\ i >= 1
              /\ (i + 1) - b = i - (b - 1)
          BY <1>2, <1>3
        <5>3. ring'[i].of = n => (i + 1) - b \in r + 1 .. sent
          BY <2>5, <5>2
        <5>. QED
          BY <2>7, <3>1, <5>2, <5>3
      <4>3. /\ n = Len(log) => (b - 1) + sent = Len(ring')
            /\ ~(n > last') /\ r + 1 >= 1
        <5>1. n = Len(log) => b + sent = Len(ring)
          BY <2>5
        <5>2. Len(ring') = Len(ring) - 1
          BY <1>3
        <5>3. (b - 1) + sent = (b + sent) - 1
          BY <2>7
        <5>4. ~(n > last') /\ r + 1 >= 1
          BY <1>2, <1>4, <2>9
        <5>. QED
          BY <5>1, <5>2, <5>3, <5>4
      <4>. QED
        BY <1>2, <2>4, <3>1, <4>1, <4>2, <4>3 DEF Trail
    <3>3. Clear(n) /\ InStep(n, r) => InStep(n, r + 1)'
      <4>. SUFFICES ASSUME Clear(n), InStep(n, r)
                    PROVE  InStep(n, r + 1)'
        OBVIOUS
      <4>1. /\ log[n].answers = <<>>
            /\ r >= z => Parsed(log[n].text, r - z, parser)
        BY <1>1, <1>h, <2>1, <2>3, <2>9, BeforeRead
      <4>2. Plain(log[n].text)
        BY <1>1, ClearPlain
      <4>3. c = IF r + 1 <= z THEN "nul" ELSE log[n].text[(r + 1) - z]
        BY <1>c, <2>6, <3>1
      <4>4. CASE r + 1 <= z
        <5>1. r = 0 /\ z = 1 /\ c = "nul" /\ 1 < len
          <6>1. Len(log[n].text) >= 1
            BY <1>1, ClearPlain
          <6>. QED
            BY <2>6, <4>3, <4>4, <6>1
        <5>2. parser' = ResetParser /\ obj' = obj
          BY <1>2, <5>1 DEF Skip, Store, End, Ends, OnNul
        <5>3. Parsed(log[n].text, 0, ResetParser)
          <6>1. log[n].text \in Seq(Characters)
            BY <4>2 DEF Plain
          <6>. QED
            BY <6>1, ParsedNone
        <5>4. pc' = "serial"
          BY <1>1, <1>2, <5>2
        <5>5. Parsed(log'[n].text, (r + 1) - Len(NulBefore(log'[n].nul)), parser')
          BY <1>2, <2>3, <5>1, <5>2, <5>3
        <5>6. log'[n].answers = <<>> /\ r + 1 < Len(Line(log'[n]))
          BY <1>2, <2>4, <4>1, <5>1
        <5>. QED
          BY <5>4, <5>5, <5>6 DEF InStep, Pending
      <4>5. CASE r + 1 > z
        <5>t. PICK t, k : t = log[n].text /\ k = r - z
          OBVIOUS
        <5>1. /\ k \in Nat /\ k + 1 <= Len(t) /\ c = t[k + 1] /\ Parsed(t, k, parser)
              /\ (k + 1 = Len(t) <=> r + 1 = len) /\ (r + 1) - z = k + 1
              /\ Plain(t) /\ Len(t) \in Nat
          BY <2>6, <3>1, <4>1, <4>2, <4>3, <4>5, <5>t
        <5>2. /\ k + 1 < Len(t) =>
                   /\ ~Ends(c)
                   /\ Skip(c) \/ Store(c) => Parsed(t, k + 1, parser')
              /\ k + 1 = Len(t) =>
                   /\ Ends(c) /\ ~parser.quote /\ ~parser.escape
                   /\ Len(Stripped(t)) < BufSize => Stored(c).str = Stripped(t)
          BY <1>1, <5>1, PutchStep
        <5>3. CASE k + 1 < Len(t)
          <6>1. Parsed(t, k + 1, parser') /\ obj' = obj
            BY <1>2, <5>2, <5>3 DEF Skip, Store, End
          <6>2. pc' = "serial"
            BY <1>1, <1>2, <6>1
          <6>3. Parsed(log'[n].text, (r + 1) - Len(NulBefore(log'[n].nul)), parser')
            BY <1>2, <2>3, <5>1, <5>t, <6>1
          <6>4. log'[n].answers = <<>> /\ r + 1 < Len(Line(log'[n]))
            BY <1>2, <2>4, <2>6, <3>1, <4>1, <5>1, <5>3
          <6>. QED
            BY <6>2, <6>3, <6>4 DEF InStep, Pending
        <5>4. CASE k + 1 = Len(t)
          <6>1. c = "close"
            BY <5>2, <5>4 DEF Ends
          <6>2. End(c)
            BY <1>2, <5>2, <5>4, <6>1 DEF Skip, Store, Blank
          <6>3. parser' = ResetParser
            <7>1. parser.quote = FALSE /\ parser.escape = FALSE
              BY <1>1, <5>2, <5>4 DEF TypeOK, Parsers
            <7>2. parser' = [ResetParser EXCEPT !.quote = FALSE, !.escape = FALSE]
              BY <6>2, <7>1 DEF End
            <7>. QED
              BY <7>2 DEF ResetParser
          <6>4. PICK kind \in Parses(Stored(c).str) : obj' = <<kind>>
            BY <1>1, <6>2 DEF End
          <6>5. pc' = "object" /\ obj'[1] = kind
            BY <1>2, <6>4
          <6>6. Fits(t) => kind = KindOf[t]
            <7>. SUFFICES ASSUME Fits(t)
                          PROVE  kind = KindOf[t]
              OBVIOUS
            <7>1. Stored(c).str = Stripped(t)
              BY <5>2, <5>4 DEF Fits
            <7>2. t \in Texts
              <8>1. log[n] \in Entries
                BY <1>4
              <8>. QED
                BY <5>t, <8>1, Lines
            <7>3. kind \in {KindOf[u] : u \in {v \in Texts : Stripped(v) = Stripped(t)}}
              BY <6>4, <7>1, <7>2 DEF Parses
            <7>. QED
              BY <7>2, <7>3, ObjectsAssumption
          <6>7. Len(Line(log'[n])) = r + 1 /\ log'[n].answers = <<>> /\ log'[n].text = t
            BY <1>2, <2>4, <4>1, <5>1, <5>4, <5>t
          <6>8. (Fits(log'[n].text) => obj'[1] = KindOf[log'[n].text]) /\ last' = n
            BY <1>2, <2>9, <6>5, <6>6, <6>7
          <6>. QED
            BY <6>3, <6>5, <6>7, <6>8 DEF InStep, Pending, Fits, ResetParser
        <5>. QED
          BY <5>1, <5>3, <5>4
      <4>. QED
        BY <2>6, <4>4, <4>5
    <3>4. r + 1 \in Nat
      OBVIOUS
    <3>. QED
      BY <2>1, <2>2, <2>7, <3>2, <3>3, <3>4 DEF Followed
  <2>. QED
    BY <2>8, <2>9
<1>. QED
  BY <1>2, <1>6, <1>7 DEF Followed

LEMMA InitFull == Init => FullInv
<1>. SUFFICES ASSUME Init
              PROVE  FullInv
  OBVIOUS
<1>1. Inv
  BY InitInv
<1>2. DOMAIN log = {} /\ DOMAIN ring = {}
  BY DEF Init
<1>3. Ordered
  BY <1>2 DEF Init, Ordered
<1>. QED
  BY <1>1, <1>2, <1>3 DEF FullInv

LEMMA NextFull == FullInv /\ [Next]_vars => FullInv'
<1>. SUFFICES ASSUME FullInv, [Next]_vars
              PROVE  FullInv'
  OBVIOUS
<1>1. Inv'
  BY NextInv DEF FullInv
<1>. DEFINE Rest == Ordered' /\ \A n \in DOMAIN log' : Followed(n)'
<1>. SUFFICES Rest
  BY <1>1 DEF FullInv
<1>2. TypeOK
  BY DEF FullInv, Inv
<1>3. ASSUME NEW t \in Texts, NEW nul \in BOOLEAN, BeginText(t, nul)
      PROVE  Rest
  BY <1>1, <1>3, BeginFull
<1>4. CASE Type
  BY <1>1, <1>4, TypeFull
<1>5. CASE Read
  BY <1>1, <1>5, ReadFull
<1>6. CASE Refuse
  <2>1. obj[1] \in Kinds /\ UNCHANGED <<rest, ring, parser, last>>
    BY <1>2, <1>6 DEF Refuse, TypeOK
  <2>. QED
    BY <1>1, <1>6, <2>1, AnswerFull DEF Refuse
<1>7. ASSUME NEW answer \in {"sent", "xmitError"}, Send(answer)
      PROVE  Rest
  <2>1. answer \in Kinds \cup {"sent", "xmitError"} /\ UNCHANGED <<rest, ring, parser, last>>
    BY <1>7 DEF Send
  <2>. QED
    BY <1>1, <1>7, <2>1, AnswerFull DEF Send
<1>8. CASE Convert
  <2>1. UNCHANGED <<rest, log, ring, parser, last>>
    BY <1>8 DEF Convert
  <2>. QED
    BY <1>8, <2>1, QuietFull
<1>9. CASE Wake \/ SerialEmpty \/ RadioEmpty \/ \E garbage \in BOOLEAN : Receive(garbage)
  <2>1. /\ UNCHANGED <<rest, log, ring, parser, last>>
        /\ pc \notin {"object", "send"} /\ pc' \notin {"object", "send"}
    BY <1>9 DEF Wake, SerialEmpty, RadioEmpty, Receive
  <2>. QED
    BY <2>1, QuietFull
<1>10. CASE UNCHANGED vars
  <2>1. UNCHANGED <<rest, log, ring, parser, last>> /\ pc' = pc /\ obj' = obj
    BY <1>10 DEF vars
  <2>. QED
    BY <2>1, QuietFull
<1>. QED
  BY <1>3, <1>4, <1>5, <1>6, <1>7, <1>8, <1>9, <1>10 DEF Next, Loop

\* A clear text that is wholly read was taken as one object.
LEMMA FullAnswered == FullInv => AnsweredOnce
<1>. SUFFICES ASSUME FullInv, NEW n \in 1 .. MaxTexts, Handled(n), Clear(n)
              PROVE  RightlyAnswered(n)
  BY DEF AnsweredOnce
<1>1. /\ n \in DOMAIN log /\ (n = Len(log) => rest = <<>>) /\ pc \notin {"object", "send"}
      /\ \A i \in DOMAIN ring : ring[i].of # n
  BY DEF Handled, Typed
<1>2. TypeOK /\ Followed(n) /\ log[n] \in Entries /\ last \in Nat /\ n \in Nat
  BY <1>1 DEF FullInv, Inv, TypeOK
<1>3. log[n].lost = 0 /\ Len(log[n].text) >= 1
  BY <1>1, <1>2, ClearPlain
<1>4. PICK r \in Nat, b \in Int : Trail(n, r, b) /\ InStep(n, r)
  BY <1>2, <1>3 DEF Followed
<1>5. PICK len : len = Len(Line(log[n]))
  OBVIOUS
<1>6. len \in Nat /\ len >= 1
  <2>1. /\ Len(NulBefore(log[n].nul)) \in {0, 1} /\ log[n].text \in Seq(Characters)
        /\ len = Len(NulBefore(log[n].nul)) + Len(log[n].text)
    BY <1>2, <1>5, Lines
  <2>2. Len(log[n].text) \in Nat
    BY <2>1
  <2>3. \A x \in {0, 1}, y \in Nat : y >= 1 => x + y \in Nat /\ x + y >= 1
    OBVIOUS
  <2>. QED
    BY <1>3, <2>1, <2>2, <2>3, Zenon
<1>7. Sent(n) = len
  <2>1. Sent(n) = len - (IF n = Len(log) THEN Len(rest) ELSE 0)
    BY <1>5 DEF Sent
  <2>2. (IF n = Len(log) THEN Len(rest) ELSE 0) = 0
    BY <1>1
  <2>. QED
    BY <1>6, <2>1, <2>2
<1>8. r = len
  <2>1. r <= len /\ (\A k \in r + 1 .. len : b + k \in DOMAIN ring
                                            /\ ring[b + k] = [char |-> Line(log[n])[k], of |-> n])
    BY <1>4, <1>7 DEF Trail
  <2>2. \A k \in r + 1 .. len : FALSE
    <3>1. TAKE k \in r + 1 .. len
    <3>2. b + k \in DOMAIN ring /\ ring[b + k] = [char |-> Line(log[n])[k], of |-> n]
      BY <2>1
    <3>3. ring[b + k].of = n
      BY <3>2
    <3>. QED
      BY <1>1, <3>2, <3>3
  <2>3. r + 1 \notin r + 1 .. len
    BY <2>2
  <2>. QED
    BY <1>6, <2>1, <2>3
<1>. QED
  BY <1>1, <1>4, <1>5, <1>6, <1>8 DEF InStep, Pending

\* Whatever was typed before, lost before or is going on, a text that comes whole
\* to a recogniser that is in step is taken as one object and answered exactly
\* once, for what it is: the loop of Base/Base.cpp with MessageJsonConverter::putch.
THEOREM AnswersRight == Spec => []AnsweredOnce
<1>1. FullInv => AnsweredOnce
  BY FullAnswered
<1> QED
  BY <1>1, InitFull, NextFull, PTL DEF Spec
=============================================================================
