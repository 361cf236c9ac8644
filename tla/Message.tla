------------------------------- MODULE Message -------------------------------
(***************************************************************************)
(* The payload of a message, Sensorino/Message.cpp: values one after the   *)
(* other, each as a byte for its type, a byte for its length and its       *)
(* bytes.  All types of the table in Message.h are below 128, so that the  *)
(* type takes one byte.  A float is one of the few in Single; the length   *)
(* of the whole, which checkIntegrity guards, is left to Fits.  Names are  *)
(* spelt one way: the code prints them with a small first letter and reads *)
(* them without regard to case.                                            *)
(***************************************************************************)
LOCAL INSTANCE Integers
LOCAL INSTANCE Sequences
LOCAL INSTANCE SequencesExt
LOCAL INSTANCE TLC

CONSTANT NaN

PayloadLength == 80

DATATYPE == 0
SERVICE_ID == 1
MESSAGE == 2
EXPRESSION == 3
COUNT == 50
PRESENCE == 51
SWITCH == 52

Physical ==
  <<"Acceleration", "Amount", "Angle", "AngularVelocity", "Area", "Radioactivity",
    "ElectricalCapacitance", "ElectricalResistance", "ElectricCurrent", "Energy",
    "Force", "Frequency", "Illuminance", "Inductance", "Length", "LuminousFlux",
    "LuminousIntensity", "MagneticFieldStrength", "Mass", "Power", "Pressure",
    "RelativeHumidity", "Speed", "Temperature", "Time", "Voltage", "Volume">>

\* The name and the coding of every type.
TypeTable ==
  (DATATYPE :> [name |-> "DataType", coding |-> "int"])
    @@ (SERVICE_ID :> [name |-> "ServiceId", coding |-> "int"])
    @@ (MESSAGE :> [name |-> "Message", coding |-> "binary"])
    @@ (EXPRESSION :> [name |-> "Expression", coding |-> "binary"])
    @@ [t \in 20 .. 46 |-> [name |-> Physical[t - 19], coding |-> "float"]]
    @@ (COUNT :> [name |-> "Count", coding |-> "int"])
    @@ (PRESENCE :> [name |-> "Presence", coding |-> "bool"])
    @@ (SWITCH :> [name |-> "Switch", coding |-> "bool"])
    @@ (53 :> [name |-> "ColorComponent", coding |-> "float"])

KnownType(t) == t \in DOMAIN TypeTable
DataTypeToString(t) == TypeTable[t].name

\* A name, read without regard to case; __INT_MAX__ when it is none.
NoType == 32767
StringToDataType(name) ==
  LET named == {t \in DOMAIN TypeTable : TypeTable[t].name = name}
  IN  IF named = {} THEN NoType ELSE CHOOSE t \in named : TRUE

BoolType(t) == t \in {PRESENCE, SWITCH}
IntType(t) == t \in {DATATYPE, COUNT, SERVICE_ID}
FloatType(t) == t \in 20 .. COUNT - 1
BinaryType(t) == t \in {EXPRESSION, MESSAGE}

\* Some floats and their bytes, the lowest first.
Single == (0 :> <<0, 0, 0, 0>>) @@ (1 :> <<0, 0, 128, 63>>)
            @@ (2 :> <<0, 0, 0, 64>>) @@ (-1 :> <<0, 0, 128, 191>>)
            @@ (32768 :> <<0, 0, 0, 71>>)
SingleOf(bytes) == CHOOSE f \in DOMAIN Single : Single[f] = bytes

Signed(v, n) == IF v < n \div 2 THEN v ELSE v - n

\* appendIntValuePart: as few bytes as two's complement takes, the highest first.
IntBytes(v) ==
  IF v \div 128 \in {0, -1} THEN <<v % 256>> ELSE <<(v \div 256) % 256, v % 256>>

AddInt(t, v) == <<t, Len(IntBytes(v))>> \o IntBytes(v)
AddBool(t, v) == <<t, 1, IF v = 0 THEN 0 ELSE 1>>
AddFloat(t, v) == <<t, 4>> \o Single[v]
AddBinary(t, bytes) == <<t, Len(bytes)>> \o bytes

\* What a service writes for a value of type t.
Added(t, v) ==
  IF BoolType(t) THEN AddBool(t, v)
  ELSE IF IntType(t) THEN AddInt(t, v)
  ELSE AddFloat(t, v)

Fits(raw) == Len(raw) <= PayloadLength

\* The bytes of an int: the first with its sign, 16 bits wide as an AVR's.
IntOf(bytes) ==
  LET shift(acc, b) == Signed((acc * 256 + b) % 65536, 65536)
  IN  FoldLeft(shift, Signed(bytes[1], 256), Tail(bytes))

\* The value whose length is at raw[p], in a sequence of its own; nothing when
\* its length is refused.  A type that is none of the three is left unread.
Decoded(raw, t, p) ==
  LET len == raw[p]
      tooShort(n) == p + n > PayloadLength \/ len < n
      bytes(n) == SubSeq(raw, p + 1, p + n)
  IN  CASE BoolType(t) -> IF tooShort(1) THEN <<>>
                          ELSE <<IF raw[p + 1] # 0 THEN 1 ELSE 0>>
        [] FloatType(t) -> IF tooShort(4) THEN <<>> ELSE <<SingleOf(bytes(4))>>
        [] IntType(t) -> IF len < 1 \/ tooShort(len) THEN <<>>
                         ELSE <<IntOf(bytes(len))>>
        [] BinaryType(t) -> IF tooShort(len) THEN <<>> ELSE <<bytes(len)>>
        [] OTHER -> <<NaN>>

\* find(t, num): the num'th value of type t.
Find(raw, t, num) ==
  LET from[p \in Nat, k \in Nat] ==
        IF p > Len(raw) - 2 THEN <<>>
        ELSE IF raw[p] # t THEN from[p + 2 + raw[p + 1], k]
        ELSE IF k > 0 THEN from[p + 2 + raw[p + 1], k - 1]
        ELSE Decoded(raw, t, p + 1)
  IN  from[1, num]

\* The iterator: where the first value is, and the next; 0 when there is none.
Begin(raw) == IF raw # <<>> THEN 1 ELSE 0

IterAdvance(raw, p) ==
  LET next == p + 2 + raw[p + 1]
  IN  IF p > Len(raw) - 2 \/ next > Len(raw) THEN 0 ELSE next

\* The value at p, of a message that the add functions wrote.  One whose type is
\* none of the four leaves what the caller's variable held.
IterGetTypeValue(raw, p, held) ==
  LET t == raw[p]
      bytes == SubSeq(raw, p + 2, p + 1 + raw[p + 1])
  IN  [type |-> t,
       val |-> CASE BoolType(t) -> IF bytes[1] # 0 THEN 1 ELSE 0
                 [] FloatType(t) -> SingleOf(bytes)
                 [] IntType(t) -> IntOf(bytes)
                 [] BinaryType(t) -> bytes
                 [] OTHER -> held]

\* All values, in order.
Values(raw, held) ==
  LET from[p \in 0 .. Len(raw)] ==
        IF p = 0 THEN <<>>
        ELSE <<IterGetTypeValue(raw, p, held)>> \o from[IterAdvance(raw, p)]
  IN  from[Begin(raw)]

ToFloat(t, v) == IF BoolType(t) \/ IntType(t) \/ FloatType(t) THEN v ELSE NaN
=============================================================================
