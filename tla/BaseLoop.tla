------------------------------ MODULE BaseLoop ------------------------------
(***************************************************************************)
(* The Base: the loop of Base/Base.cpp between the serial line and the     *)
(* radio, and the recogniser of JSON objects in a stream of characters,    *)
(* MessageJsonConverter::putch.                                            *)
(*                                                                         *)
(* The computer types texts, one JSON object each, with or without a zero  *)
(* byte in front.  Their characters pass through the ring of the serial    *)
(* port, which drops them when it is full: the loop reads it only between  *)
(* two transmissions or prints.  A text is a sequence of characters, of    *)
(* which those that putch tells apart are named.  log is the history of    *)
(* what was typed, lost and answered; the code reads none of it.           *)
(***************************************************************************)
EXTENDS Integers, Sequences, FiniteSets

CONSTANTS
  Texts,       \* what the computer may type
  KindOf,      \* what becomes of each text as an object: a Kind
  BufSize,     \* sizeof obj_str
  Half,        \* nest_depth is an unsigned integer of 2 * Half values
  RingSize,    \* characters the serial port keeps
  MaxTexts,    \* bound on texts typed
  MaxLost      \* bound on characters of one text that are lost

\* message: jsonToMessage accepts it; noStruct: it has a type, but is refused.
Kinds == {"message", "noStruct", "noType", "syntaxError"}

Characters == {"nul", "space", "quote", "backslash", "open", "close", "other"}

ASSUME SizesAssumption ==
  {BufSize, Half} \subseteq Nat \ {0} /\ {RingSize, MaxTexts, MaxLost} \subseteq Nat
ASSUME TextsAssumption == Texts \subseteq Seq(Characters) /\ KindOf \in [Texts -> Kinds]

VARIABLES
  rest,        \* of the text being typed, what is left
  log,         \* for each text: [text, nul, lost, answers]
  ring,        \* [char, of], of being the number of the character's text
  parser,      \* obj_str up to obj_str_len, nest_depth, quote, escape
  obj,         \* conv.obj: nothing, or a kind in a sequence of its own
  last,        \* the text whose character was read last
  pc, garbageCnt

vars == <<rest, log, ring, parser, obj, last, pc, garbageCnt>>

Blank == {"nul", "space"}
NulBefore(nul) == IF nul THEN <<"nul">> ELSE <<>>

ResetParser == [str |-> <<>>, depth |-> 0, quote |-> FALSE, escape |-> FALSE]

Init ==
  /\ rest = <<>> /\ log = <<>> /\ ring = <<>>
  /\ parser = ResetParser /\ obj = <<>> /\ last = 0
  /\ pc = "sleep" /\ garbageCnt = 0

-----------------------------------------------------------------------------
(* A stripped text, and what is true of a text without regard to how it is *)
(* read: the reference for putch.                                          *)

Unquoted(t, i) == Cardinality({j \in 1 .. i - 1 : t[j] = "quote"}) % 2 = 0

\* aJson.parse takes white space or leaves it: the object is the same.
Stripped(t) ==
  LET kept == {i \in DOMAIN t : t[i] \notin Blank \/ ~Unquoted(t, i)}
  IN  [k \in 1 .. Cardinality(kept) |->
         t[CHOOSE i \in kept : Cardinality({j \in kept : j <= i}) = k]]

NestingAt(t, i) ==
  LET seen(c) == Cardinality({j \in 1 .. i : t[j] = c /\ Unquoted(t, j)})
  IN  seen("open") - seen("close")

\* One JSON object: it ends where its nesting does, with a bracket that is in no
\* string.
IsObject(t) ==
  /\ t # <<>> /\ t[Len(t)] = "close" /\ Unquoted(t, Len(t))
  /\ \A i \in DOMAIN t :
       /\ t[i] # "nul" /\ NestingAt(t, i) >= 0
       /\ t[i] = "close" /\ Unquoted(t, i) => (NestingAt(t, i) = 0 <=> i = Len(t))

\* The computer types objects (in strings with a backslash this reference does not
\* tell what ends them), and white space makes no difference to what one is.
ASSUME ObjectsAssumption ==
  /\ \A t \in Texts : (\A i \in DOMAIN t : t[i] # "backslash") => IsObject(t)
  /\ \A t, u \in Texts : Stripped(t) = Stripped(u) => KindOf[t] = KindOf[u]

\* What aJson.parse makes of characters that are no text of the computer's is
\* anything: a text with a character missing may still be an object.
Parses(str) ==
  LET same == {t \in Texts : Stripped(t) = str}
  IN  IF same = {} THEN Kinds ELSE {KindOf[t] : t \in same}

-----------------------------------------------------------------------------
(* The computer and the serial port.                                       *)

BeginText(t, nul) ==
  /\ rest = <<>> /\ Len(log) < MaxTexts
  /\ rest' = NulBefore(nul) \o t
  /\ log' = Append(log, [text |-> t, nul |-> nul, lost |-> 0, answers |-> <<>>])
  /\ UNCHANGED <<ring, parser, obj, last, pc, garbageCnt>>

\* The next character reaches the ring, or finds it full.
Type ==
  /\ rest # <<>>
  /\ rest' = Tail(rest)
  /\ IF Len(ring) < RingSize
       THEN /\ ring' = Append(ring, [char |-> Head(rest), of |-> Len(log)])
            /\ log' = log
       ELSE /\ log[Len(log)].lost < MaxLost
            /\ ring' = ring
            /\ log' = [log EXCEPT ![Len(log)].lost = @ + 1]
  /\ UNCHANGED <<parser, obj, last, pc, garbageCnt>>

-----------------------------------------------------------------------------
(* putch.                                                                  *)

Wrapped(depth) == depth % (2 * Half)

\* (int8_t) nest_depth <= 0
NotPositive(depth) == depth = 0 \/ depth >= Half

\* Mutant: a zero byte forgets what was read and how deep it was, but not that a
\* string had begun.
OnNulQuote(p) == [ResetParser EXCEPT !.quote = p.quote]

Kept(str, c) == IF Len(str) < BufSize - 1 THEN Append(str, c) ELSE str
OnNul(p) == ResetParser

\* The state after a character that is stored, the end of an object aside.
Counted(p, c) ==
  CASE p.quote /\ ~p.escape /\ c = "backslash" -> [p EXCEPT !.escape = TRUE]
    [] ~p.escape /\ c = "quote" -> [p EXCEPT !.quote = ~@]
    [] ~p.quote /\ c = "open" -> [p EXCEPT !.depth = Wrapped(@ + 1)]
    [] ~p.quote /\ c = "close" -> [p EXCEPT !.depth = Wrapped(@ - 1)]
    [] OTHER -> p

Stored(c) == [Counted(parser, c) EXCEPT !.str = Kept(@, c)]

Ends(c) == ~parser.quote /\ c = "close" /\ NotPositive(Stored(c).depth)

Skip(c) ==
  /\ c \in Blank /\ (parser.quote => c = "nul")
  /\ parser' = IF c = "nul" THEN OnNul(parser) ELSE parser
  /\ obj' = obj

Store(c) ==
  /\ c # "nul" /\ (c \in Blank => parser.quote) /\ ~Ends(c)
  /\ parser' = Stored(c)
  /\ obj' = obj

\* The object ends.  One that is pending still would be kept instead.
End(c) ==
  /\ Ends(c)
  /\ parser' = [ResetParser EXCEPT !.quote = parser.quote, !.escape = parser.escape]
  /\ \E kind \in IF obj = <<>> THEN Parses(Stored(c).str) ELSE {obj[1]} :
       obj' = <<kind>>

-----------------------------------------------------------------------------
(* The loop.                                                               *)

\* Any interrupt ends the sleep; millis() has one every millisecond.
Wake ==
  /\ pc = "sleep"
  /\ pc' = "serial"
  /\ UNCHANGED <<rest, log, ring, parser, obj, last, garbageCnt>>

Read ==
  /\ pc = "serial" /\ ring # <<>>
  /\ LET c == Head(ring).char IN Skip(c) \/ Store(c) \/ End(c)
  /\ ring' = Tail(ring) /\ last' = Head(ring).of
  /\ pc' = IF obj' = <<>> THEN "serial" ELSE "object"
  /\ UNCHANGED <<rest, log, garbageCnt>>

Answered(line) == log' = [log EXCEPT ![last].answers = Append(@, line)]

\* Mutant: the object stays when it is not worth a message.
RefusedKept(kind) == obj

Refused(kind) == <<>>

\* An error of the object is written to the line, and the object deleted.
Refuse ==
  /\ pc = "object" /\ obj # <<"message">>
  /\ Answered(obj[1])
  /\ obj' = Refused(obj[1]) /\ pc' = "serial"
  /\ UNCHANGED <<rest, ring, parser, last, garbageCnt>>

Convert ==
  /\ pc = "object" /\ obj = <<"message">>
  /\ obj' = <<>> /\ pc' = "send"
  /\ UNCHANGED <<rest, log, ring, parser, last, garbageCnt>>

\* sendtoWait returns.
Send(answer) ==
  /\ pc = "send"
  /\ Answered(answer)
  /\ pc' = "serial"
  /\ UNCHANGED <<rest, ring, parser, obj, last, garbageCnt>>

SerialEmpty ==
  /\ pc = "serial" /\ ring = <<>>
  /\ pc' = "radio"
  /\ UNCHANGED <<rest, log, ring, parser, obj, last, garbageCnt>>

\* A message is printed: any that is not garbage, and garbage three times.
Receive(garbage) ==
  /\ pc = "radio"
  /\ garbageCnt' = IF ~garbage THEN 0
                   ELSE IF garbageCnt < 3 THEN garbageCnt + 1
                   ELSE garbageCnt
  /\ UNCHANGED <<rest, log, ring, parser, obj, last, pc>>

RadioEmpty ==
  /\ pc = "radio"
  /\ pc' = "sleep"
  /\ UNCHANGED <<rest, log, ring, parser, obj, last, garbageCnt>>

Loop ==
  \/ Wake \/ Read \/ Refuse \/ Convert
  \/ \E answer \in {"sent", "xmitError"} : Send(answer)
  \/ SerialEmpty \/ RadioEmpty

Next ==
  \/ \E t \in Texts, nul \in BOOLEAN : BeginText(t, nul)
  \/ Type
  \/ \E garbage \in BOOLEAN : Receive(garbage)
  \/ Loop

Spec == Init /\ [][Next]_vars /\ WF_vars(Loop)

-----------------------------------------------------------------------------
(* Properties.                                                             *)

Parsers ==
  [str : Seq(Characters), depth : 0 .. 2 * Half - 1, quote : BOOLEAN, escape : BOOLEAN]
Entries ==
  [text : Texts, nul : BOOLEAN, lost : 0 .. MaxLost,
   answers : Seq(Kinds \cup {"sent", "xmitError"})]

TypeOK ==
  /\ rest \in Seq(Characters)
  /\ log \in Seq(Entries)
  /\ ring \in Seq([char : Characters, of : Nat])
  /\ parser \in Parsers
  /\ Len(parser.str) < BufSize /\ Len(ring) <= RingSize
  /\ obj \in {<<>>} \cup {<<kind>> : kind \in Kinds}
  /\ last \in DOMAIN log \cup {0} /\ (pc \in {"object", "send"} => last # 0)
  /\ obj # <<>> <=> pc = "object"
  /\ pc \in {"sleep", "serial", "object", "send", "radio"}
  /\ garbageCnt \in 0 .. 3

Fits(t) == Len(Stripped(t)) < BufSize

\* What leaves the recogniser as it was: no character lost, no more nesting
\* than nest_depth can count, no backslash, after which escape stays set.
Harmless(entry) ==
  /\ entry.lost = 0
  /\ \A i \in DOMAIN entry.text :
       entry.text[i] # "backslash" /\ NestingAt(entry.text, i) <= Half

\* The text and all before it, back to a zero byte or to the start, are.
Clear(n) ==
  \E m \in 1 .. n : /\ m = 1 \/ log[m].nul
                    /\ \A k \in m .. n : Harmless(log[k])

RightlyAnswered(n) ==
  LET right == IF KindOf[log[n].text] = "message" THEN {"sent", "xmitError"}
               ELSE {KindOf[log[n].text]}
  IN  /\ Len(log[n].answers) = 1
      /\ Fits(log[n].text) => log[n].answers[1] \in right

Typed(n) == n \in DOMAIN log /\ (n = Len(log) => rest = <<>>)
Handled(n) ==
  Typed(n) /\ pc \notin {"object", "send"} /\ \A i \in DOMAIN ring : ring[i].of # n

\* Whatever was typed before, lost before or is going on, a text that comes
\* whole to a recogniser that a zero byte has reset, or that is still in step, is
\* taken as one object, sent or refused exactly once and for the right reason;
\* one that does not fit the buffer is refused once and harms no other.
AnsweredOnce == \A n \in 1 .. MaxTexts : Handled(n) /\ Clear(n) => RightlyAnswered(n)

\* No pending object, print or sleep keeps the Base from answering such a text.
AllAnswered ==
  \A n \in 1 .. MaxTexts : Typed(n) /\ Clear(n) ~> n \in DOMAIN log /\ RightlyAnswered(n)
=============================================================================
