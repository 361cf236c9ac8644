--------------------------- MODULE JsonConversion ---------------------------
(***************************************************************************)
(* What the Base makes of a message, and of an object the computer types:  *)
(* messageToJson and jsonToMessage of Base/MessageJsonConverter.cpp.       *)
(*                                                                         *)
(* A JSON value is a record with one field: int, float, bool, str, array   *)
(* or object, which is a sequence of [name, value].  A string is a text of *)
(* ConditionText.  A message is [from, to, type, payload]; the id that     *)
(* nobody reads is left out.                                               *)
(***************************************************************************)
EXTENDS ConditionText
LOCAL INSTANCE Integers
LOCAL INSTANCE Sequences
LOCAL INSTANCE SequencesExt

ERR == 0
GARBAGE == 1
PUBLISH == 2
SET == 3
REQUEST == 4
TypeNames == <<"err", "garbage", "publish", "set", "request">>

Is(v, kind) == kind \in DOMAIN v
Str(name) == [str |-> <<Chr(name)>>]
Pair(name, value) == [name |-> name, value |-> value]

\* aJson.getObjectItem, in a sequence of its own.
GetItem(pairs, name) ==
  LET i == SelectInSeq(pairs, LAMBDA pair : pair.name = name)
  IN  IF i = 0 THEN <<>> ELSE <<pairs[i].value>>

-----------------------------------------------------------------------------
(* From a message to an object.                                            *)

HeaderToJson(m) ==
  <<Pair("type", Str(IF m.type + 1 \in DOMAIN TypeNames THEN TypeNames[m.type + 1] ELSE "unknown")),
    Pair("from", [int |-> m.from])>>
    \o IF m.to # 0 THEN <<Pair("to", [int |-> m.to])>> ELSE <<>>

\* A second value of a name turns the first into an array.
AddItem(pairs, name, child) ==
  LET i == SelectInSeq(pairs, LAMBDA pair : pair.name = name)
      old == pairs[i].value
  IN  IF i = 0 THEN Append(pairs, Pair(name, child))
      ELSE [pairs EXCEPT ![i].value =
              [array |-> Append(IF Is(old, "array") THEN old.array ELSE <<old>>, child)]]

\* The coding is the table's; val was decoded by the type's macro, and is held,
\* the variable's old content, for a type without one.
RECURSIVE PayloadToJson(_, _)
PayloadToJson(raw, held) ==
  LET coding(t) == IF KnownType(t) THEN TypeTable[t].coding ELSE "none"
      name(t) == IF KnownType(t) THEN DataTypeToString(t) ELSE "Unknown"
      child(t, val) ==
        CASE coding(t) = "bool" -> [bool |-> val # 0]
          [] t = DATATYPE /\ KnownType(val) -> Str(DataTypeToString(val))
          [] coding(t) = "int" /\ ~(t = DATATYPE /\ KnownType(val)) -> [int |-> val]
          [] coding(t) = "float" -> [float |-> val]
          [] t = MESSAGE -> [object |-> PayloadToJson(val, held)]
          [] t = EXPRESSION -> [str |-> ExprToString(val)]
          [] OTHER -> Str("fixme")
      add(pairs, e) == AddItem(pairs, name(e.type), child(e.type, e.val))
  IN  FoldLeft(add, <<>>, Values(raw, held))

MessageToJson(m, held) == HeaderToJson(m) \o PayloadToJson(m.payload, held)

-----------------------------------------------------------------------------
(* From an object to a message.  checkIntegrity, when a value does not     *)
(* fit, stops the Base: the status is "died".                              *)

Failed(status) == [status |-> status, raw |-> <<>>]
Extended(raw) == [status |-> IF Fits(raw) THEN "ok" ELSE "died", raw |-> raw]

\* The type a value of the type DATATYPE names.
ValueType(v) ==
  IF Is(v, "str") THEN (IF Len(v.str) = 1 THEN StringToDataType(First(v.str)) ELSE NoType)
  ELSE IF Is(v, "int") THEN v.int
  ELSE NoType

\* A message or condition that has become r, if it has.
WithBytes(raw, t, r, bytes) ==
  IF r.status = "ok" THEN Extended(raw \o AddBinary(t, bytes)) ELSE Failed(r.status)
WithMessage(raw, r) == WithBytes(raw, MESSAGE, r, r.raw)
WithExpression(raw, r) == WithBytes(raw, EXPRESSION, r, r.buf)

RECURSIVE MessageAddElem(_, _, _, _), JsonToPayload(_, _)
MessageAddElem(raw, name, v, junk) ==
  LET t == StringToDataType(name)
  IN  CASE t = NoType -> Failed("refused")
        [] TypeTable[t].coding = "bool" ->
             IF Is(v, "bool") THEN Extended(raw \o AddBool(t, IF v.bool THEN 1 ELSE 0))
             ELSE Failed("refused")
        [] t = DATATYPE ->
             IF ValueType(v) = NoType THEN Failed("refused")
             ELSE Extended(raw \o AddInt(t, ValueType(v)))
        [] TypeTable[t].coding = "int" /\ t # DATATYPE ->
             IF Is(v, "int") THEN Extended(raw \o AddInt(t, v.int)) ELSE Failed("refused")
        [] TypeTable[t].coding = "float" ->
             IF Is(v, "int") \/ Is(v, "float")
               THEN Extended(raw \o AddFloat(t, IF Is(v, "int") THEN v.int ELSE v.float))
               ELSE Failed("refused")
        [] t = MESSAGE ->
             IF Is(v, "object") THEN WithMessage(raw, JsonToPayload(v.object, junk))
             ELSE Failed("refused")
        [] t = EXPRESSION ->
             IF Is(v, "str") THEN WithExpression(raw, ExprFromString(v.str, junk))
             ELSE Failed("refused")
\* The first value that is not accepted ends it.
JsonToPayload(pairs, junk) ==
  LET elems(pair) ==
        LET vs == IF Is(pair.value, "array") THEN pair.value.array ELSE <<pair.value>>
        IN  [i \in DOMAIN vs |-> Pair(pair.name, vs[i])]
      payload == SelectSeq(pairs, LAMBDA pair : pair.name \notin {"to", "from", "type"})
      add(r, e) == IF r.status = "ok" THEN MessageAddElem(r.raw, e.name, e.value, junk) ELSE r
  IN  FoldLeft(add, Extended(<<>>), FlattenSeq([i \in DOMAIN payload |-> elems(payload[i])]))

Accepted == {"publish", "set", "request", "err"}
NumberOf(name) == SelectInSeq(TypeNames, LAMBDA n : n = name) - 1

IsInt(i) == i # <<>> /\ Is(i[1], "int")
IsType(i) == i # <<>> /\ Is(i[1], "str") /\ First(i[1].str) \in Accepted

\* With the items of these names, and what the others have become.
JsonToMessage(to, from, type, r) ==
  IF ~IsInt(to) \/ (from # <<>> /\ ~IsInt(from)) \/ ~IsType(type) THEN [status |-> "refused"]
  ELSE IF r.status # "ok" THEN [status |-> r.status]
  ELSE [status |-> "ok",
        m |-> [from |-> IF from = <<>> THEN 0 ELSE from[1].int % 256, to |-> to[1].int % 256,
               type |-> NumberOf(First(type[1].str)), payload |-> r.raw]]

\* checkJsonError, and then the conversion: the lines of Base.cpp from an object
\* to a message or an error.
BaseReads(pairs, junk) ==
  IF GetItem(pairs, "type") # <<>>
    THEN JsonToMessage(GetItem(pairs, "to"), GetItem(pairs, "from"), GetItem(pairs, "type"),
                       JsonToPayload(pairs, junk))
  ELSE IF GetItem(pairs, "error") # <<>> THEN [status |-> "error"]
  ELSE [status |-> "noType"]
=============================================================================
