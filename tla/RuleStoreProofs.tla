--------------------------- MODULE RuleStoreProofs ---------------------------
(***************************************************************************)
(* Proofs about RuleStore, for any size, any requests and contents of the  *)
(* EEPROM, of the space and around it, and any number of failures of       *)
(* power: what was accepted stays as it was written, the storage is        *)
(* emptied behind its rules in one way only, and its bytes implement the   *)
(* list of rules that Rules describes.                                     *)
(***************************************************************************)
EXTENDS RuleStore, SequenceTheorems, WellFoundedInduction, TLAPS

-----------------------------------------------------------------------------
(* Rules in a memory *)

\* getByte, for any contents of the EEPROM.
ByteAt(m, o) == m[Cell(o)]

\* The bytes of r in m, one by one.
Bytes(m, r) ==
  /\ ByteAt(m, r.at) = r.id
  /\ ByteAt(m, r.at + 1) = Len(r.cond)
  /\ ByteAt(m, r.at + 2) = Len(r.act)
  /\ \A i \in 1 .. Len(r.cond) : ByteAt(m, r.at + 2 + i) = r.cond[i]
  /\ \A i \in 1 .. Len(r.act) : ByteAt(m, r.at + 2 + Len(r.cond) + i) = r.act[i]

\* The rest of a number that is less than the divisor, and of one less than its
\* double.
LEMMA Rest ==
  ASSUME NEW n \in Nat \ {0}, NEW x \in Int
  PROVE  /\ x % n \in 0 .. (n - 1)
         /\ 0 <= x /\ x < n => x % n = x
         /\ n <= x /\ x < n + n => x % n = x - n
OBVIOUS

\* Every address is one of the chip's; those of the space are their own.
LEMMA CellIs ==
  /\ \A o \in Int : Cell(o) \in Cells
  /\ \A o \in Cells : Cell(o) = o
  /\ -1 \in Cells /\ \A o \in 0 .. Size : o \in Cells
  /\ \A o \in Int : Size < o /\ o < Chip => Cell(o) \notin Space
<1>1. /\ Chip \in Nat \ {0} /\ Base \in Nat /\ Base # 0 /\ Size \in Nat
      /\ Base + Size < Chip
  BY StoreAssumption
<1>2. ASSUME NEW o \in Int
      PROVE  /\ (o + Base) % Chip \in 0 .. (Chip - 1)
             /\ 0 <= o + Base /\ o + Base < Chip => (o + Base) % Chip = o + Base
             /\ Chip <= o + Base /\ o + Base < Chip + Chip
                  => (o + Base) % Chip = (o + Base) - Chip
  <2>1. o + Base \in Int
    BY <1>1
  <2>. QED
    BY <2>1, <1>1, Rest
<1>3. ASSUME NEW o \in Int PROVE Cell(o) \in Cells
  BY <1>1, <1>2 DEF Cell, Cells
<1>4. ASSUME NEW o \in Cells PROVE Cell(o) = o
  <2>1. o \in Int /\ 0 <= o + Base /\ o + Base < Chip
    BY <1>1 DEF Cells
  <2>. QED
    BY <2>1, <1>1, <1>2 DEF Cell
<1>5. -1 \in Cells /\ \A o \in 0 .. Size : o \in Cells
  BY <1>1 DEF Cells
<1>6. ASSUME NEW o \in Int, Size < o, o < Chip
      PROVE  Cell(o) \notin Space
  <2>1. CASE o + Base < Chip
    <3>1. (o + Base) % Chip = o + Base
      BY <1>1, <1>2, <1>6, <2>1
    <3>. QED
      BY <1>1, <1>6, <3>1 DEF Cell, Space
  <2>2. CASE o + Base >= Chip
    <3>1. (o + Base) % Chip = (o + Base) - Chip
      BY <1>1, <1>2, <1>6, <2>2
    <3>. QED
      BY <1>1, <1>6, <3>1 DEF Cell, Space
  <2>. QED
    BY <1>1, <2>1, <2>2
<1>. QED
  BY <1>3, <1>4, <1>5, <1>6

\* A memory's cells are bytes.
LEMMA CellType ==
  ASSUME NEW m \in [Cells -> Byte], NEW o \in Int
  PROVE  ByteAt(m, o) \in Byte
BY CellIs DEF ByteAt

\* A rule ends behind its header.
LEMMA EndType ==
  ASSUME NEW r \in Rule
  PROVE  /\ r.at \in Nat /\ r.at <= Size /\ r.id \in Byte
         /\ r.cond \in Seq(Byte) /\ r.act \in Seq(Byte)
         /\ Len(r.cond) \in Nat /\ Len(r.act) \in Nat
         /\ EndOf(r) = r.at + 3 + Len(r.cond) + Len(r.act)
         /\ EndOf(r) \in Nat
BY StoreAssumption DEF Rule, Words, EndOf

RuleIn(m, o) ==
  [at |-> o, id |-> ByteAt(m, o),
   cond |-> [i \in 1 .. ByteAt(m, o + 1) |-> ByteAt(m, o + 3 + i - 1)],
   act |-> [i \in 1 .. ByteAt(m, o + 2) |->
              ByteAt(m, o + 3 + ByteAt(m, o + 1) + i - 1)]]

\* What RuleAt reads is the rule if its bytes are there, and only then.
LEMMA RuleInBytes ==
  ASSUME NEW m \in [Cells -> Byte], NEW r \in Rule
  PROVE  RuleIn(m, r.at) = r <=> Bytes(m, r)
<1>. DEFINE a == r.at  nc == ByteAt(m, a + 1)  na == ByteAt(m, a + 2)
            c == [i \in 1 .. nc |-> ByteAt(m, a + 3 + i - 1)]
            t == [i \in 1 .. na |-> ByteAt(m, a + 3 + nc + i - 1)]
<1>1. /\ a \in Nat /\ nc \in Nat /\ na \in Nat
  <2>1. a \in Nat
    BY EndType
  <2>2. ByteAt(m, a + 1) \in Byte /\ ByteAt(m, a + 2) \in Byte
    BY <2>1, CellType
  <2>. QED
    BY <2>1, <2>2 DEF Byte
<1>2. /\ r = [at |-> a, id |-> r.id, cond |-> r.cond, act |-> r.act]
      /\ r.cond \in [1 .. Len(r.cond) -> Byte] /\ Len(r.cond) \in Nat
      /\ r.act \in [1 .. Len(r.act) -> Byte] /\ Len(r.act) \in Nat
  <2>1. r.cond \in Seq(Byte) /\ r.act \in Seq(Byte)
    BY EndType
  <2>. QED
    BY <2>1 DEF Rule
<1>3. RuleIn(m, a) = [at |-> a, id |-> ByteAt(m, a), cond |-> c, act |-> t]
  BY DEF RuleIn
<1>4. RuleIn(m, a) = r <=> ByteAt(m, a) = r.id /\ c = r.cond /\ t = r.act
  BY <1>2, <1>3
<1>5. c = r.cond <=> /\ nc = Len(r.cond)
                     /\ \A i \in 1 .. Len(r.cond) : ByteAt(m, a + 2 + i) = r.cond[i]
  <2>1. ASSUME c = r.cond
        PROVE  /\ nc = Len(r.cond)
               /\ \A i \in 1 .. Len(r.cond) : ByteAt(m, a + 2 + i) = r.cond[i]
    <3>1. 1 .. nc = 1 .. Len(r.cond)
      BY <1>2, <2>1
    <3>2. nc = Len(r.cond)
      BY <3>1, <1>1, <1>2
    <3>3. ASSUME NEW i \in 1 .. Len(r.cond)
          PROVE  ByteAt(m, a + 2 + i) = r.cond[i]
      <4>1. c[i] = ByteAt(m, a + 3 + i - 1)
        BY <3>2
      <4>2. a + 3 + i - 1 = a + 2 + i
        BY <1>1
      <4>. QED
        BY <4>1, <4>2, <2>1
    <3>. QED
      BY <3>2, <3>3
  <2>2. ASSUME nc = Len(r.cond),
               \A i \in 1 .. Len(r.cond) : ByteAt(m, a + 2 + i) = r.cond[i]
        PROVE  c = r.cond
    <3>1. ASSUME NEW i \in 1 .. nc
          PROVE  c[i] = r.cond[i]
      <4>1. a + 3 + i - 1 = a + 2 + i
        BY <1>1
      <4>. QED
        BY <4>1, <2>2
    <3>. QED
      BY <3>1, <1>2, <2>2
  <2>. QED
    BY <2>1, <2>2
<1>6. ASSUME nc = Len(r.cond)
      PROVE  t = r.act <=>
               /\ na = Len(r.act)
               /\ \A i \in 1 .. Len(r.act) :
                    ByteAt(m, a + 2 + Len(r.cond) + i) = r.act[i]
  <2>1. ASSUME t = r.act
        PROVE  /\ na = Len(r.act)
               /\ \A i \in 1 .. Len(r.act) :
                    ByteAt(m, a + 2 + Len(r.cond) + i) = r.act[i]
    <3>1. 1 .. na = 1 .. Len(r.act)
      BY <1>2, <2>1
    <3>2. na = Len(r.act)
      BY <3>1, <1>1, <1>2
    <3>3. ASSUME NEW i \in 1 .. Len(r.act)
          PROVE  ByteAt(m, a + 2 + Len(r.cond) + i) = r.act[i]
      <4>1. t[i] = ByteAt(m, a + 3 + nc + i - 1)
        BY <3>2
      <4>2. a + 3 + nc + i - 1 = a + 2 + Len(r.cond) + i
        BY <1>1, <1>6
      <4>. QED
        BY <4>1, <4>2, <2>1
    <3>. QED
      BY <3>2, <3>3
  <2>2. ASSUME na = Len(r.act),
               \A i \in 1 .. Len(r.act) :
                 ByteAt(m, a + 2 + Len(r.cond) + i) = r.act[i]
        PROVE  t = r.act
    <3>1. ASSUME NEW i \in 1 .. na
          PROVE  t[i] = r.act[i]
      <4>1. a + 3 + nc + i - 1 = a + 2 + Len(r.cond) + i
        BY <1>1, <1>6
      <4>. QED
        BY <4>1, <2>2
    <3>. QED
      BY <3>1, <1>2, <2>2
  <2>. QED
    BY <2>1, <2>2
<1>. QED
  BY <1>4, <1>5, <1>6 DEF Bytes

\* A rule stays while the cells before its end do.
LEMMA BytesStay ==
  ASSUME NEW m, NEW n, NEW r \in Rule, Bytes(m, r),
         \A o \in r.at .. (EndOf(r) - 1) : ByteAt(n, o) = ByteAt(m, o)
  PROVE  Bytes(n, r)
<1>1. /\ r.at \in Nat /\ Len(r.cond) \in Nat /\ Len(r.act) \in Nat
      /\ EndOf(r) = r.at + 3 + Len(r.cond) + Len(r.act)
  BY EndType
<1>2. /\ ByteAt(n, r.at) = ByteAt(m, r.at)
      /\ ByteAt(n, r.at + 1) = ByteAt(m, r.at + 1)
      /\ ByteAt(n, r.at + 2) = ByteAt(m, r.at + 2)
      /\ \A i \in 1 .. Len(r.cond) : ByteAt(n, r.at + 2 + i) = ByteAt(m, r.at + 2 + i)
      /\ \A i \in 1 .. Len(r.act) : ByteAt(n, r.at + 2 + Len(r.cond) + i)
                                      = ByteAt(m, r.at + 2 + Len(r.cond) + i)
  <2>. DEFINE a == r.at  k == Len(r.cond)  l == Len(r.act)  e == EndOf(r)
  <2>1. \A o \in a .. (e - 1) : ByteAt(n, o) = ByteAt(m, o)
    OBVIOUS
  <2>2. a \in Nat /\ k \in Nat /\ l \in Nat /\ e = a + 3 + k + l
    BY <1>1
  <2>. HIDE DEF a, k, l, e
  <2>3. /\ \A i \in 1 .. k : a + 2 + i \in a .. (e - 1)
        /\ \A i \in 1 .. l : a + 2 + k + i \in a .. (e - 1)
        /\ {a, a + 1, a + 2} \subseteq a .. (e - 1)
    BY <2>2
  <2>. QED
    BY <2>1, <2>3 DEF a, k, l
<1>. QED
  BY <1>2 DEF Bytes

-----------------------------------------------------------------------------
(* Sequences of rules in a memory *)

UsedBy(rs) == IF rs = <<>> THEN 0 ELSE EndOf(rs[Len(rs)])

\* The rules are to lie one after the other and leave room for a byte after the
\* last; none has the id that marks empty space.
Ordered(rs) ==
  /\ \A i \in DOMAIN rs :
       /\ EndOf(rs[i]) < Size /\ rs[i].id # Erased
       /\ rs[i].at = IF i = 1 THEN 0 ELSE EndOf(rs[i - 1])
  /\ \A i, j \in DOMAIN rs : i < j => EndOf(rs[i]) <= rs[j].at

\* And there they are.
Held(m, rs) == \A i \in DOMAIN rs : Bytes(m, rs[i])

\* All rules end where the last one does, or before it.
LEMMA UsedBound ==
  ASSUME NEW rs \in Seq(Rule), Ordered(rs)
  PROVE  /\ UsedBy(rs) \in 0 .. (Size - 1)
         /\ \A i \in DOMAIN rs : /\ rs[i] \in Rule
                                 /\ rs[i].at \in Nat /\ EndOf(rs[i]) \in Nat
                                 /\ rs[i].at + 3 <= EndOf(rs[i])
                                 /\ EndOf(rs[i]) <= UsedBy(rs)
<1>1. \A i \in DOMAIN rs : /\ rs[i] \in Rule
                           /\ rs[i].at \in Nat /\ EndOf(rs[i]) \in Nat
                           /\ rs[i].at + 3 <= EndOf(rs[i])
  <2>. TAKE i \in DOMAIN rs
  <2>. DEFINE a == rs[i].at  e == EndOf(rs[i])
              c == Len(rs[i].cond)  l == Len(rs[i].act)
  <2>1. rs[i] \in Rule
    OBVIOUS
  <2>2. a \in Nat /\ c \in Nat /\ l \in Nat /\ e \in Nat /\ e = a + 3 + c + l
    BY <2>1, EndType
  <2>. HIDE DEF a, e, c, l
  <2>3. a + 3 <= e
    BY <2>2
  <2>. QED
    BY <2>1, <2>2, <2>3 DEF a, e
<1>2. CASE rs = <<>>
  BY <1>1, <1>2, StoreAssumption DEF UsedBy
<1>3. CASE rs # <<>>
  <2>1. Len(rs) \in DOMAIN rs /\ UsedBy(rs) = EndOf(rs[Len(rs)])
    BY <1>3 DEF UsedBy
  <2>2. UsedBy(rs) \in 0 .. (Size - 1)
    BY <1>1, <2>1, StoreAssumption DEF Ordered
  <2>3. ASSUME NEW i \in DOMAIN rs
        PROVE  EndOf(rs[i]) <= UsedBy(rs)
    <3>1. CASE i = Len(rs)
      BY <3>1, <2>1, <1>1
    <3>2. CASE i # Len(rs)
      <4>1. i < Len(rs)
        BY <3>2
      <4>2. EndOf(rs[i]) <= rs[Len(rs)].at
        BY <4>1, <2>1 DEF Ordered
      <4>. QED
        BY <4>2, <2>1, <1>1
    <3>. QED
      BY <3>1, <3>2
  <2>. QED
    BY <1>1, <2>2, <2>3
<1>. QED
  BY <1>2, <1>3

\* Rules stay while the cells before the end of the last one do.
LEMMA HeldStays ==
  ASSUME NEW m, NEW n, NEW rs \in Seq(Rule), Ordered(rs), Held(m, rs),
         \A o \in 0 .. (UsedBy(rs) - 1) : ByteAt(n, o) = ByteAt(m, o)
  PROVE  Held(n, rs)
<1>1. ASSUME NEW i \in DOMAIN rs
      PROVE  Bytes(n, rs[i])
  <2>1. /\ rs[i] \in Rule /\ rs[i].at \in Nat /\ EndOf(rs[i]) \in Nat
        /\ EndOf(rs[i]) <= UsedBy(rs) /\ UsedBy(rs) \in Int
    BY UsedBound
  <2>2. \A o \in rs[i].at .. (EndOf(rs[i]) - 1) : ByteAt(n, o) = ByteAt(m, o)
    BY <2>1
  <2>. QED
    BY <2>1, <2>2, BytesStay DEF Held
<1>. QED
  BY <1>1 DEF Held

\* A set of numbers has a least one.
LEMMA Smallest ==
  ASSUME NEW T \in SUBSET Nat, T # {}
  PROVE  \E x \in T : \A y \in T : x <= y
<1>. DEFINE R == OpToRel(<, Nat)
<1>1. \E x \in T : \A y \in T : <<y, x>> \notin R
  <2>. HIDE DEF R
  <2>1. IsWellFoundedOn(R, Nat)
    BY NatLessThanWellFounded DEF R
  <2>. QED
    BY <2>1, WFMin
<1>2. \A x, y \in Nat : y < x => <<y, x>> \in R
  BY DEF OpToRel
<1>. HIDE DEF R
<1>3. PICK x \in T : \A y \in T : <<y, x>> \notin R
  BY <1>1
<1>4. ASSUME NEW y \in T PROVE x <= y
  <2>1. ~(y < x)
    BY <1>2, <1>3
  <2>2. x \in Nat /\ y \in Nat
    OBVIOUS
  <2>. QED
    BY <2>1, <2>2
<1>. QED
  BY <1>4

Before(rs, o) == [i \in {j \in DOMAIN rs : rs[j].at < o} |-> rs[i]]

\* The first k elements of a sequence.
LEMMA FirstFew ==
  ASSUME NEW S, NEW s \in Seq(S), NEW k \in 0 .. Len(s),
         NEW b, b = [i \in 1 .. k |-> s[i]]
  PROVE  /\ b \in Seq(S) /\ Len(b) = k /\ DOMAIN b = 1 .. k
         /\ \A i \in 1 .. k : b[i] = s[i]
         /\ b = <<>> <=> k = 0
<1>1. k \in Nat /\ k <= Len(s) /\ \A i \in 1 .. k : s[i] \in S
  OBVIOUS
<1>2. b \in [1 .. k -> S]
  BY <1>1
<1>3. b \in Seq(S) /\ Len(b) = k
  BY <1>1, <1>2
<1>. QED
  BY <1>1, <1>2, <1>3

\* The rules that begin before o are the first few; they end there, if one begins
\* there or all have ended.
LEMMA FewBefore ==
  ASSUME NEW rs \in Seq(Rule), Ordered(rs), NEW o \in Nat,
         NEW b, b = Before(rs, o)
  PROVE  /\ b \in Seq(Rule) /\ Ordered(b)
         /\ DOMAIN b \subseteq DOMAIN rs /\ \A i \in DOMAIN b : b[i] = rs[i]
         /\ UsedBy(b) <= UsedBy(rs)
         /\ o >= UsedBy(rs) \/ (\E i \in DOMAIN rs : o = rs[i].at) =>
              /\ UsedBy(b) <= o
              /\ o <= UsedBy(rs) => UsedBy(b) = o
<1>1. /\ UsedBy(rs) \in Nat
      /\ \A i \in DOMAIN rs : /\ rs[i] \in Rule
                              /\ rs[i].at \in Nat /\ EndOf(rs[i]) \in Nat
                              /\ rs[i].at + 3 <= EndOf(rs[i])
                              /\ EndOf(rs[i]) <= UsedBy(rs)
  BY UsedBound
<1>0. \A i, j \in DOMAIN rs : i < j => rs[i].at < rs[j].at
  <2>. TAKE i, j \in DOMAIN rs
  <2>1. i < j => EndOf(rs[i]) <= rs[j].at
    BY DEF Ordered
  <2>. QED
    BY <2>1, <1>1
<1>2. \E k \in 0 .. Len(rs) : \A j \in DOMAIN rs : rs[j].at < o <=> j <= k
  <2>. DEFINE T == {k \in 0 .. Len(rs) : \A j \in DOMAIN rs : rs[j].at < o => j <= k}
  <2>1. T \in SUBSET Nat /\ Len(rs) \in T
    OBVIOUS
  <2>2. PICK k \in T : \A x \in T : k <= x
    BY <2>1, Smallest
  <2>3. ASSUME NEW j \in DOMAIN rs, j <= k
        PROVE  rs[j].at < o
    <3>1. k - 1 \notin T /\ k \in Nat /\ k <= Len(rs) /\ k \in DOMAIN rs
      BY <2>2, <2>3
    <3>2. PICK x \in DOMAIN rs : rs[x].at < o /\ ~(x <= k - 1)
      BY <3>1, <2>3
    <3>3. x = k
      BY <2>2, <3>1, <3>2
    <3>4. j = k \/ rs[j].at < rs[k].at
      BY <1>0, <2>3, <3>1
    <3>. QED
      BY <1>1, <3>1, <3>2, <3>3, <3>4
  <2>. QED
    BY <2>2, <2>3
<1>3. PICK k \in 0 .. Len(rs) : \A j \in DOMAIN rs : rs[j].at < o <=> j <= k
  BY <1>2
<1>4. {j \in DOMAIN rs : rs[j].at < o} = 1 .. k
  BY <1>3
<1>5. b \in Seq(Rule) /\ Len(b) = k /\ DOMAIN b = 1 .. k /\ k <= Len(rs)
      /\ (b = <<>> <=> k = 0)
      /\ \A i \in 1 .. k : b[i] = rs[i]
  <2>1. b = [i \in 1 .. k |-> rs[i]]
    BY <1>4 DEF Before
  <2>. QED
    BY <2>1, FirstFew
<1>6. Ordered(b)
  <2>1. ASSUME NEW i \in DOMAIN b
        PROVE  /\ EndOf(b[i]) < Size /\ b[i].id # Erased
               /\ b[i].at = IF i = 1 THEN 0 ELSE EndOf(b[i - 1])
    <3>1. i \in DOMAIN rs /\ b[i] = rs[i] /\ (i # 1 => b[i - 1] = rs[i - 1])
      BY <1>5
    <3>. QED
      BY <3>1 DEF Ordered
  <2>2. \A i, j \in DOMAIN b : i < j => EndOf(b[i]) <= b[j].at
    <3>1. \A i \in DOMAIN b : i \in DOMAIN rs /\ b[i] = rs[i]
      BY <1>5
    <3>. QED
      BY <3>1 DEF Ordered
  <2>. QED
    BY <2>1, <2>2 DEF Ordered
<1>7. UsedBy(b) = IF k = 0 THEN 0 ELSE EndOf(rs[k])
  <2>1. b = <<>> <=> k = 0
    BY <1>5
  <2>2. k # 0 => b[Len(b)] = rs[k]
    BY <1>5
  <2>. QED
    BY <2>1, <2>2 DEF UsedBy
<1>8. UsedBy(b) <= UsedBy(rs)
  BY <1>1, <1>5, <1>7
<1>9. ASSUME o >= UsedBy(rs) \/ \E i \in DOMAIN rs : o = rs[i].at
      PROVE  UsedBy(b) <= o /\ (o <= UsedBy(rs) => UsedBy(b) = o)
  <2>1. CASE k = Len(rs)
    <3>1. UsedBy(b) = UsedBy(rs)
      BY <1>7, <2>1 DEF UsedBy
    <3>2. o >= UsedBy(rs)
      BY <1>3, <1>9, <2>1
    <3>. QED
      BY <3>1, <3>2, <1>1
  <2>2. CASE k < Len(rs)
    <3>1. k + 1 \in DOMAIN rs /\ ~(rs[k + 1].at < o)
      BY <2>2, <1>3
    <3>2. PICK i \in DOMAIN rs : o = rs[i].at
      BY <1>1, <1>9, <3>1
    <3>3. i = k + 1
      <4>1. ~(i <= k)
        BY <1>1, <1>3, <3>2
      <4>2. ~(k + 1 < i)
        BY <1>0, <1>1, <3>1, <3>2
      <4>. QED
        BY <4>1, <4>2
    <3>4. o = IF k + 1 = 1 THEN 0 ELSE EndOf(rs[(k + 1) - 1])
      BY <3>1, <3>2, <3>3 DEF Ordered
    <3>5. (k + 1) - 1 = k /\ (k + 1 = 1 <=> k = 0)
      OBVIOUS
    <3>. QED
      BY <3>4, <3>5, <1>7
  <2>. QED
    BY <2>1, <2>2, <1>3
<1>. QED
  BY <1>5, <1>6, <1>8, <1>9

\* A rule written behind the others joins them.
LEMMA OneMore ==
  ASSUME NEW rs \in Seq(Rule), Ordered(rs), NEW r \in Rule, r.at = UsedBy(rs),
         EndOf(r) < Size, r.id # Erased
  PROVE  /\ Append(rs, r) \in Seq(Rule)
         /\ Ordered(Append(rs, r))
         /\ \A m : Held(m, rs) /\ Bytes(m, r) => Held(m, Append(rs, r))
         /\ UsedBy(Append(rs, r)) = EndOf(r)
<1>. DEFINE n == Len(rs)
            a == Append(rs, r)
<1>1. /\ a \in Seq(Rule) /\ Len(a) = n + 1 /\ n \in Nat /\ DOMAIN a = 1 .. (n + 1)
      /\ \A i \in 1 .. n : i \in DOMAIN rs /\ a[i] = rs[i]
      /\ a[n + 1] = r
  OBVIOUS
<1>. HIDE DEF a
<1>2. UsedBy(a) = EndOf(r)
  BY <1>1 DEF UsedBy
<1>3. ASSUME NEW i \in DOMAIN a
      PROVE  /\ EndOf(a[i]) < Size /\ a[i].id # Erased
             /\ a[i].at = IF i = 1 THEN 0 ELSE EndOf(a[i - 1])
  <2>1. CASE i \in 1 .. n
    <3>1. i \in DOMAIN rs /\ a[i] = rs[i] /\ (i # 1 => a[i - 1] = rs[i - 1])
      BY <2>1, <1>1
    <3>. QED
      BY <3>1 DEF Ordered
  <2>2. CASE i = n + 1
    <3>1. UsedBy(rs) = IF i = 1 THEN 0 ELSE EndOf(a[i - 1])
      <4>1. rs = <<>> <=> i = 1
        BY <2>2
      <4>2. CASE i = 1
        BY <4>1, <4>2 DEF UsedBy
      <4>3. CASE i # 1
        <5>1. i - 1 = n /\ n \in 1 .. n
          BY <2>2, <4>3, <1>1
        <5>2. a[i - 1] = rs[Len(rs)]
          BY <5>1, <1>1
        <5>. QED
          BY <4>1, <4>3, <5>2 DEF UsedBy
      <4>. QED
        BY <4>2, <4>3
    <3>. QED
      BY <3>1, <2>2, <1>1
  <2>. QED
    BY <2>1, <2>2, <1>1
<1>4. ASSUME NEW i \in DOMAIN a, NEW j \in DOMAIN a, i < j
      PROVE  EndOf(a[i]) <= a[j].at
  <2>1. i \in DOMAIN rs /\ a[i] = rs[i]
    BY <1>4, <1>1
  <2>2. CASE j \in 1 .. n
    <3>1. j \in DOMAIN rs /\ a[j] = rs[j]
      BY <2>2, <1>1
    <3>. QED
      BY <2>1, <3>1, <1>4 DEF Ordered
  <2>3. CASE j = n + 1
    BY <2>1, <2>3, <1>1, UsedBound
  <2>. QED
    BY <2>2, <2>3, <1>1
<1>5. ASSUME NEW m, Held(m, rs), Bytes(m, r)
      PROVE  Held(m, a)
  <2>1. ASSUME NEW i \in 1 .. (n + 1) PROVE Bytes(m, a[i])
    BY <2>1, <1>1, <1>5 DEF Held
  <2>. QED
    BY <2>1, <1>1 DEF Held
<1>. QED
  BY <1>1, <1>2, <1>3, <1>4, <1>5 DEF Ordered, a

-----------------------------------------------------------------------------
(* The inductive invariant *)

Creations == [op : {"create"}, id : Ids, cond : Texts, act : Texts]

\* What each state of the handlers goes with.
Control ==
  /\ pc \in {"off", "idle"} => req = None
  /\ pc \in {"types", "find", "space"} => req \in Requests
  /\ pc = "space" => req \in Creations /\ req.id % Width # Erased
  /\ pc = "types" => offset = 0
  /\ pc = "write" => req \in Creations \/ req.op = "delete" \/ req = None
  /\ pc # "write" => todo = <<>>

\* The accepted rules lie where they were written, unless a deletion went astray;
\* that takes a torn rule and other bytes around the space.
Lying ==
  /\ Ordered(rules)
  /\ ~astray => Held(mem, rules)
  /\ astray => torn /\ used

\* Nothing is ever written around the space but erased bytes.
Around == ~used => \A c \in Cells \ Space : mem[c] = Erased

\* findRule is where a rule begins or behind all of them, and exactly there
\* unless something is torn; if it leaves the space it does not come back to it
\* through erased bytes.
Walking ==
  pc \in {"types", "find", "space"} =>
    /\ ~astray => offset >= Used \/ \E i \in DOMAIN rules : offset = rules[i].at
    /\ ~torn => offset <= Used
    /\ ~used /\ offset > Size => Cell(offset) \notin Space

\* Some bytes of a new rule, which is to lie behind the others, are written.
Creating ==
  pc = "write" /\ req \in Creations =>
    /\ req.id % Width # Erased
    /\ ~astray => offset >= Used
    /\ ~torn => offset = Used
    /\ HasSpace
    /\ \E k \in 0 .. (Len(NewBytes) - 1) :
         /\ todo = SubSeq(NewBytes, k + 1, Len(NewBytes))
         /\ \A i \in 1 .. k : At(NewBytes[i].at) = NewBytes[i].val

\* A rule to delete is no longer counted, and its first byte is the id sought.
Deleting ==
  pc = "write" /\ req.op = "delete" =>
    \E a \in Int :
      /\ todo = <<[at |-> a, val |-> Erased]>>
      /\ a = -1 \/ At(a) = req.id % Width
      /\ ~astray => Cell(a) \notin 0 .. (Used - 1)
      /\ ~torn => a = Used \/ (a = -1 /\ At(Used) = Erased)

\* A start without the magic byte writes two bytes, the magic one last.
Starting ==
  pc = "write" /\ req = None =>
    /\ mem[Size] # Magic /\ rules = <<>>
    /\ todo = FirstBytes \/ (todo = Tail(FirstBytes) /\ mem[0] = Erased)

\* A start with it finds the end of the rules.
Started == pc = "off" /\ mem[Size] = Magic /\ ~torn => At(Used) = Erased

IInv ==
  /\ TypeOK
  /\ Lying
  /\ Control
  /\ Around
  /\ Walking
  /\ Creating
  /\ Deleting
  /\ Starting
  /\ Started
  /\ Ended

-----------------------------------------------------------------------------
\* The module's own operators are those over its memory and its rules.
LEMMA Readings ==
  /\ \A o : At(o) = ByteAt(mem, o)
  /\ Used = UsedBy(rules)
  /\ \A o : RuleAt(o) = RuleIn(mem, o)
  /\ \A o : RulesBefore(o) = Before(rules, o)
  /\ (\A o : At(o) = ByteAt(mem, o))'
  /\ Used' = UsedBy(rules')
BY DEF At, ByteAt, Used, UsedBy, RuleAt, RuleIn, Text, RulesBefore, Before

\* The space's own bytes, and what they may be.
LEMMA SpaceIs ==
  /\ Size \in Nat \ {0} /\ Erased \in Byte /\ Magic \in Byte /\ Erased # Magic
  /\ Space = 0 .. Size /\ 0 \in Cells /\ Size \in Cells /\ -1 \in Cells
  /\ \A o \in Space : o \in Cells /\ Cell(o) = o
  /\ Cell(-1) = -1 /\ Cell(0) = 0 /\ Cell(Size) = Size
<1>1. Size \in Nat \ {0} /\ Erased \in Byte /\ Magic \in Byte /\ Erased # Magic
  BY StoreAssumption DEF Erased, Byte
<1>. QED
  BY <1>1, CellIs DEF Space

\* Every creation has texts whose lengths are bytes.
LEMMA CreationType ==
  ASSUME NEW q \in Creations
  PROVE  /\ q.op = "create" /\ q # None
         /\ q.id % Width \in Byte
         /\ q.cond \in Seq(Byte) /\ Len(q.cond) \in Byte
         /\ q.act \in Seq(Byte) /\ Len(q.act) \in Byte
<1>1. q.op = "create" /\ q.id \in Ids /\ q.cond \in Texts /\ q.act \in Texts
  BY DEF Creations
<1>2. q # None
  BY <1>1 DEF None
<1>3. \A t \in Texts : t \in Seq(Byte) /\ Len(t) \in 0 .. (Width - 1)
  BY StoreAssumption
<1>4. q.id % Width \in 0 .. (Width - 1)
  <2>1. q.id \in Int /\ Width \in Nat \ {0}
    BY <1>1, StoreAssumption
  <2>. QED
    BY <2>1
<1>. QED
  BY <1>1, <1>2, <1>3, <1>4 DEF Byte

\* A function on 1 .. n is a sequence.
LEMMA Listed ==
  ASSUME NEW S, NEW n \in Nat, NEW f \in [1 .. n -> S]
  PROVE  f \in Seq(S) /\ Len(f) = n /\ DOMAIN f = 1 .. n
OBVIOUS

\* What the bytes of a new rule are.
LEMMA NewBytesAre ==
  ASSUME req \in Creations, offset \in Nat
  PROVE  LET c == Len(req.cond)
             t == Len(req.act)
             n == 4 + c + t
         IN  /\ NewBytes \in Seq([at : Int, val : Byte])
             /\ Len(NewBytes) = n /\ DOMAIN NewBytes = 1 .. n
             /\ \A i \in 1 .. n : /\ NewBytes[i].at = offset + i - 1
                                  /\ NewBytes[i].val \in Byte
             /\ NewBytes[1].val = req.id % Width
             /\ NewBytes[2].val = c /\ NewBytes[3].val = t
             /\ \A i \in 1 .. c : NewBytes[3 + i].val = req.cond[i]
             /\ \A i \in 1 .. t : NewBytes[3 + c + i].val = req.act[i]
             /\ NewBytes[n].val = Erased
<1>. DEFINE id == req.id % Width
            cond == req.cond
            act == req.act
            c == Len(cond)
            t == Len(act)
            n == 4 + c + t
            bytes == Append(Image, Erased)
<1>1. /\ id \in Byte /\ cond \in Seq(Byte) /\ c \in Byte
      /\ act \in Seq(Byte) /\ t \in Byte
  BY CreationType
<1>2. Byte \subseteq Nat /\ c \in Nat /\ t \in Nat /\ Erased \in Byte
  BY <1>1, SpaceIs DEF Byte
<1>3. Image = (<<id, c, t>> \o cond) \o act
  BY DEF Image
<1>. HIDE DEF id, cond, act, c, t
<1>4. <<id, c, t>> \in Seq(Byte) /\ Len(<<id, c, t>>) = 3
  BY <1>1
<1>5. /\ Image \in Seq(Byte) /\ Len(Image) = 3 + c + t
      /\ Image[1] = id /\ Image[2] = c /\ Image[3] = t
      /\ \A i \in 1 .. c : Image[3 + i] = cond[i]
      /\ \A i \in 1 .. t : Image[3 + c + i] = act[i]
  <2>. DEFINE h == <<id, c, t>> \o cond
  <2>1. /\ h \in Seq(Byte) /\ Len(h) = 3 + c
        /\ h[1] = id /\ h[2] = c /\ h[3] = t
        /\ \A i \in 1 .. c : h[3 + i] = cond[i]
    BY <1>1, <1>2, <1>4 DEF c
  <2>. HIDE DEF h
  <2>2. h \in Seq(Byte) /\ act \in Seq(Byte) /\ t = Len(act)
    BY <1>1, <2>1 DEF t
  <2>5. /\ h \o act \in Seq(Byte) /\ Len(h \o act) = Len(h) + Len(act)
        /\ \A i \in 1 .. Len(h) : (h \o act)[i] = h[i]
        /\ \A i \in 1 .. Len(act) : (h \o act)[Len(h) + i] = act[i]
    <3>1. ASSUME NEW x \in Seq(Byte), NEW y \in Seq(Byte)
          PROVE  /\ x \o y \in Seq(Byte) /\ Len(x \o y) = Len(x) + Len(y)
                 /\ \A i \in 1 .. Len(x) : (x \o y)[i] = x[i]
                 /\ \A i \in 1 .. Len(y) : (x \o y)[Len(x) + i] = y[i]
      OBVIOUS
    <3>. QED
      BY <2>2, <3>1
  <2>3. {1, 2, 3} \subseteq 1 .. Len(h)
        /\ \A i \in 1 .. c : 3 + i \in 1 .. Len(h)
    BY <2>1, <1>2
  <2>4. Image = h \o act
    BY <1>3 DEF h
  <2>. QED
    BY <2>1, <2>2, <2>3, <2>4, <2>5
<1>6. /\ bytes \in Seq(Byte) /\ Len(bytes) = n
      /\ \A i \in 1 .. (n - 1) : bytes[i] = Image[i]
      /\ bytes[n] = Erased
  <2>1. n = Len(Image) + 1 /\ n - 1 = Len(Image)
    BY <1>2, <1>5
  <2>2. /\ bytes \in Seq(Byte) /\ Len(bytes) = Len(Image) + 1
        /\ \A i \in 1 .. Len(Image) : bytes[i] = Image[i]
        /\ bytes[Len(Image) + 1] = Erased
    <3>1. ASSUME NEW x \in Seq(Byte), NEW e \in Byte
          PROVE  /\ Append(x, e) \in Seq(Byte) /\ Len(Append(x, e)) = Len(x) + 1
                 /\ \A i \in 1 .. Len(x) : Append(x, e)[i] = x[i]
                 /\ Append(x, e)[Len(x) + 1] = e
      OBVIOUS
    <3>2. Image \in Seq(Byte) /\ Erased \in Byte
      BY <1>2, <1>5
    <3>. QED
      BY <3>1, <3>2
  <2>. HIDE DEF n, bytes
  <2>. QED
    BY <2>1, <2>2
<1>7. NewBytes = [i \in 1 .. n |-> [at |-> offset + i - 1, val |-> bytes[i]]]
  BY <1>6 DEF NewBytes
<1>. HIDE DEF bytes
<1>8. \A i \in 1 .. n : bytes[i] \in Byte /\ offset + i - 1 \in Int
  BY <1>6, <1>2
<1>9. n \in Nat
  BY <1>2
<1>. HIDE DEF n
<1>10. NewBytes \in [1 .. n -> [at : Int, val : Byte]]
  BY <1>7, <1>8
<1>11. /\ NewBytes \in Seq([at : Int, val : Byte])
       /\ Len(NewBytes) = n /\ DOMAIN NewBytes = 1 .. n
  BY <1>9, <1>10, Listed
<1>12. \A i \in 1 .. n : /\ NewBytes[i].at = offset + i - 1
                         /\ NewBytes[i].val = bytes[i]
  BY <1>7
<1>13. /\ {1, 2, 3} \subseteq 1 .. (n - 1) /\ n \in 1 .. n
       /\ 1 .. (n - 1) \subseteq 1 .. n
       /\ \A i \in 1 .. c : 3 + i \in 1 .. (n - 1)
       /\ \A i \in 1 .. t : 3 + c + i \in 1 .. (n - 1)
  BY <1>2 DEF n
<1>14. \A i \in 1 .. (n - 1) : NewBytes[i].val = Image[i]
  BY <1>6, <1>12, <1>13 DEF n
<1>15. NewBytes[n].val = Erased
  BY <1>6, <1>12, <1>13 DEF n
<1>16. /\ NewBytes[1].val = id /\ NewBytes[2].val = c /\ NewBytes[3].val = t
       /\ \A i \in 1 .. c : NewBytes[3 + i].val = cond[i]
       /\ \A i \in 1 .. t : NewBytes[3 + c + i].val = act[i]
  BY <1>5, <1>13, <1>14
<1>. QED
  BY <1>8, <1>11, <1>12, <1>15, <1>16 DEF id, cond, act, c, t, n

-----------------------------------------------------------------------------
(* The invariant holds at the start, and each action keeps it *)

\* Facts about a state that satisfies the invariant.
LEMMA Basics ==
  ASSUME IInv
  PROVE  /\ Used \in 0 .. (Size - 1) /\ Used = UsedBy(rules)
         /\ Cell(Used) = Used
         /\ rules \in Seq(Rule) /\ Ordered(rules)
         /\ ~astray => Held(mem, rules)
         /\ ~torn => ~astray
         /\ mem \in [Cells -> Byte] /\ mem[Size] = At(Size)
         /\ \A o \in Int : At(o) \in Byte /\ At(o) \in Nat
         /\ \A o : At(o) = ByteAt(mem, o)
         /\ offset \in Nat
<1>1. mem \in [Cells -> Byte] /\ rules \in Seq(Rule) /\ Ordered(rules)
      /\ offset \in Nat /\ (~astray => Held(mem, rules)) /\ (~torn => ~astray)
  BY DEF IInv, TypeOK, Lying
<1>2. Used = UsedBy(rules) /\ \A o : At(o) = ByteAt(mem, o)
  BY Readings
<1>3. UsedBy(rules) \in 0 .. (Size - 1)
  BY <1>1, UsedBound
<1>4. \A o \in Int : At(o) \in Byte
  BY <1>1, <1>2, CellType
<1>5. Byte \subseteq Nat
  BY DEF Byte
<1>6. mem[Size] = At(Size)
  BY SpaceIs DEF At
<1>7. Cell(Used) = Used
  BY <1>2, <1>3, SpaceIs
<1>. QED
  BY <1>1, <1>2, <1>3, <1>4, <1>5, <1>6, <1>7

\* None is no request, and requests have what their op says.
LEMMA RequestOps ==
  /\ None \notin Requests /\ None.op = "none"
  /\ \A q \in Requests : /\ q.op \in {"create", "delete", "update", "get"}
                         /\ q.id \in Ids
                         /\ q.op = "create" => q \in Creations
  /\ \A q \in Creations : q \in Requests /\ q.op = "create"
BY DEF Requests, None, Creations

LEMMA InitInv == Init => IInv
<1>. SUFFICES ASSUME Init PROVE IInv
  OBVIOUS
<1>1. mem \in [Cells -> Byte] /\ mem[Size] # Magic
  BY StoreAssumption DEF Init
<1>2. TypeOK
  <2>1. todo \in Seq([at : Int, val : Byte]) /\ rules \in Seq(Rule)
    BY EmptySeq DEF Init
  <2>2. crashes \in 0 .. MaxCrashes
    BY StoreAssumption DEF Init
  <2>. QED
    BY <1>1, <2>1, <2>2 DEF Init, TypeOK
<1>3. Lying
  BY DEF Init, Lying, Ordered, Held
<1>4. Around
  BY DEF Init, Around
<1>. QED
  BY <1>1, <1>2, <1>3, <1>4
     DEF Init, IInv, Control, Walking, Creating, Deleting, Starting, Started, Ended

\* A step that writes nothing leaves the rules where they are.
LEMMA Unmoved ==
  ASSUME IInv, UNCHANGED <<mem, history>>
  PROVE  /\ Lying' /\ Around' /\ Used' = Used
         /\ \A o : At(o)' = At(o)
         /\ mem' = mem /\ rules' = rules /\ torn' = torn
BY DEF IInv, history, At, Used, Lying, Around

\* The end of a handler that writes nothing.
LEMMA DoneStep ==
  ASSUME IInv, pc \in {"types", "find", "space"}, NEW b \in BOOLEAN, NEW a,
         a = None \/ a.op = "rule", Done(b, a), UNCHANGED history
  PROVE  IInv'
<1>1. UNCHANGED <<mem, history>>
  BY DEF Done
<1>2. TypeOK'
  BY DEF IInv, TypeOK, Done, history
<1>3. Control'
  BY DEF IInv, Control, Done, history
<1>4. Started' /\ Ended'
  <2>1. Ended
    BY DEF IInv
  <2>. QED
    BY <1>1, <2>1, Unmoved DEF Started, Ended, Done
<1>. QED
  BY <1>1, <1>2, <1>3, <1>4, Unmoved
     DEF IInv, Done, Walking, Creating, Deleting, Starting

\* findRule starts at the first rule.
LEMMA FromStart ==
  ASSUME IInv
  PROVE  /\ 0 >= Used \/ \E i \in DOMAIN rules : 0 = rules[i].at
         /\ 0 <= Used /\ ~(0 > Size)
<1>1. CASE rules = <<>>
  BY <1>1, SpaceIs DEF Used
<1>2. CASE rules # <<>>
  <2>1. 1 \in DOMAIN rules
    BY <1>2, Basics
  <2>2. rules[1].at = 0
    BY <2>1, Basics DEF Ordered
  <2>3. Used \in Nat /\ Size \in Nat
    BY Basics, SpaceIs
  <2>. QED
    BY <2>1, <2>2, <2>3
<1>. QED
  BY <1>1, <1>2

\* One more rule is passed by findRule.
LEMMA WalkOn ==
  ASSUME IInv, pc \in {"find", "space"}, ~Found, ~Missing
  PROVE  /\ Past(offset) \in Nat
         /\ ~astray => \/ Past(offset) >= Used
                       \/ \E i \in DOMAIN rules : Past(offset) = rules[i].at
         /\ ~torn => Past(offset) <= Used
         /\ ~used => Past(offset) < Chip
<1>0. At(offset) # Erased
  BY DEF Missing
<1>1. /\ Past(offset) \in Nat /\ Past(offset) >= offset
      /\ Past(offset) <= offset + 2 * Width + 1
  <2>. DEFINE b == At(offset + 1)
              c == At(offset + 2)
  <2>0. offset \in Nat
    BY Basics
  <2>1. offset \in Nat /\ b \in Byte /\ c \in Byte /\ Width \in Nat
    <3>1. offset + 1 \in Int /\ offset + 2 \in Int
      BY <2>0
    <3>2. Width \in Nat
      BY StoreAssumption
    <3>. QED
      BY <2>0, <3>1, <3>2, Basics
  <2>2. Past(offset) = offset + 3 + b + c
    BY DEF Past
  <2>. HIDE DEF b, c
  <2>. QED
    BY <2>1, <2>2 DEF Byte
<1>2. CASE ~astray /\ \E i \in DOMAIN rules : offset = rules[i].at
  <2>1. PICK i \in DOMAIN rules : offset = rules[i].at
    BY <1>2
  <2>2. rules[i] \in Rule /\ Bytes(mem, rules[i])
    BY <1>2, <2>1, Basics DEF Held
  <2>3. At(offset + 1) = Len(rules[i].cond) /\ At(offset + 2) = Len(rules[i].act)
    BY <2>1, <2>2, Basics DEF Bytes
  <2>4. Past(offset) = EndOf(rules[i])
    BY <2>1, <2>3 DEF Past, EndOf
  <2>5. EndOf(rules[i]) <= Used
    BY UsedBound, Basics
  <2>8. \/ Past(offset) >= Used
        \/ \E j \in DOMAIN rules : Past(offset) = rules[j].at
    <3>1. CASE i = Len(rules)
      <4>1. rules # <<>>
        OBVIOUS
      <4>2. Used = EndOf(rules[i]) /\ Used \in Nat
        BY <4>1, <3>1, Basics DEF Used
      <4>. QED
        BY <4>2, <2>4
    <3>2. CASE i # Len(rules)
      <4>1. rules \in Seq(Rule)
        BY Basics
      <4>2. i + 1 \in DOMAIN rules /\ i + 1 # 1 /\ (i + 1) - 1 = i
        BY <3>2, <4>1
      <4>3. rules[i + 1].at = EndOf(rules[i])
        BY <4>2, Basics DEF Ordered
      <4>. QED
        BY <4>2, <4>3, <2>4
    <3>. QED
      BY <3>1, <3>2
  <2>9. Past(offset) <= Used /\ Used < Chip
    <3>1. Used \in 0 .. (Size - 1) /\ Size \in Nat /\ Size < Chip
      BY Basics, StoreAssumption
    <3>. QED
      BY <2>4, <2>5, <3>1, StoreAssumption
  <2>. QED
    <3>1. Used \in Nat /\ Chip \in Nat /\ Past(offset) \in Nat
      BY <1>1, Basics, StoreAssumption
    <3>. QED
      BY <2>8, <2>9, <3>1
<1>3. CASE astray \/ ~\E i \in DOMAIN rules : offset = rules[i].at
  <2>1. ~astray => offset >= Used
    BY <1>3 DEF IInv, Walking
  <2>2. torn
    <3>1. SUFFICES ASSUME ~torn PROVE FALSE
      OBVIOUS
    <3>2. offset = Used
      BY <2>1, <3>1, Basics, SMTT(40) DEF IInv, Walking
    <3>3. At(offset) = Erased
      BY <3>1, <3>2 DEF IInv, Ended
    <3>. QED
      BY <3>3, <1>0
  <2>3. ~used => Past(offset) < Chip
    <3>1. SUFFICES ASSUME ~used PROVE Past(offset) < Chip
      OBVIOUS
    <3>2. offset <= Size
      <4>1. SUFFICES ASSUME offset > Size PROVE FALSE
        BY Basics, SpaceIs
      <4>2. Cell(offset) \notin Space /\ Cell(offset) \in Cells
        BY <3>1, <4>1, CellIs, Basics DEF IInv, Walking
      <4>3. At(offset) = Erased
        BY <3>1, <4>2 DEF IInv, Around, At
      <4>. QED
        BY <4>3, <1>0
    <3>3. /\ Size + 2 * Width + 1 < Chip /\ Size \in Nat /\ Width \in Nat /\ Chip \in Nat
          /\ offset \in Nat
      BY StoreAssumption, Basics
    <3>. QED
      BY <1>1, <3>2, <3>3
  <2>. QED
    BY <1>1, <2>1, <2>2, <2>3, Basics
<1>. QED
  BY <1>2, <1>3

\* An offset that has come round is still behind the rules.
LEMMA FoldedOn ==
  ASSUME NEW o \in Nat
  PROVE  /\ Folded(o) \in Nat
         /\ o < Size + Chip => Folded(o) = o
         /\ o >= Size + Chip => Folded(o) >= Size
<1>1. Size \in Nat /\ Chip \in Nat \ {0} /\ o - Size \in Int
  BY StoreAssumption
<1>2. (o - Size) % Chip \in 0 .. (Chip - 1)
  BY <1>1, Rest
<1>3. o >= Size + Chip => Folded(o) = Size + ((o - Size) % Chip)
  BY <1>1 DEF Folded
<1>4. o < Size + Chip => Folded(o) = o
  BY DEF Folded
<1>. DEFINE x == (o - Size) % Chip  f == Folded(o)
<1>5. x \in Nat /\ (o >= Size + Chip => f = Size + x) /\ (o < Size + Chip => f = o)
  BY <1>1, <1>2, <1>3, <1>4
<1>. HIDE DEF x, f
<1>6. f \in Nat /\ (o >= Size + Chip => f >= Size)
  BY <1>1, <1>5
<1>. QED
  BY <1>4, <1>6 DEF f

\* The actions that write nothing and go on.
LEMMA GoOn ==
  ASSUME IInv, UNCHANGED <<mem, todo, crashes, history>>, todo = <<>>,
         Ended, pc \notin {"off", "write"},
         pc' \in {"types", "find", "space"}, req' \in Requests,
         pc' = "space" => req' \in Creations /\ req'.id % Width # Erased,
         offset' \in Nat, pc' = "types" => offset' = 0,
         ~astray => offset' >= Used \/ \E i \in DOMAIN rules : offset' = rules[i].at,
         ~torn => offset' <= Used,
         ~used /\ offset' > Size => Cell(offset') \notin Space,
         err' \in BOOLEAN, answer' = None \/ answer'.op = "rule"
  PROVE  IInv'
<1>1. TypeOK'
  BY DEF IInv, TypeOK, history
<1>2. Control'
  BY DEF IInv, Control, history
<1>3. Lying' /\ Around' /\ Used' = Used /\ (\A o : At(o)' = At(o))
      /\ mem' = mem /\ rules' = rules /\ torn' = torn
      /\ astray' = astray /\ used' = used
  BY Unmoved DEF history
<1>4. Walking'
  <2>1. Cell(offset)' = Cell(offset')
    BY DEF Cell
  <2>. QED
    BY <1>3, <2>1 DEF Walking
<1>5. Started' /\ Ended'
  BY <1>3 DEF Started, Ended
<1>. QED
  BY <1>1, <1>2, <1>3, <1>4, <1>5 DEF IInv, Creating, Deleting, Starting

LEMMA AskInv == IInv /\ Ask => IInv'
<1>. SUFFICES ASSUME IInv, Ask PROVE IInv'
  OBVIOUS
<1>1. todo = <<>> /\ Ended
  BY DEF Ask, IInv, Control
<1>2. /\ pc' \in {"types", "find", "space"} /\ pc' # "space" /\ req' \in Requests
      /\ offset' = 0 /\ offset' \in Nat /\ err' = FALSE /\ answer' = None
  BY DEF Ask
<1>3. UNCHANGED <<mem, todo, crashes, history>> /\ pc = "idle"
  BY DEF Ask
<1>. QED
  BY <1>1, <1>2, <1>3, FromStart, GoOn, Zenon

\* What the states in which a handler looks at the storage have in common.
LEMMA Looking ==
  ASSUME IInv, pc \in {"types", "find", "space"}
  PROVE  /\ todo = <<>> /\ Ended /\ pc \notin {"off", "write"}
         /\ req \in Requests /\ err \in BOOLEAN
         /\ answer = None \/ answer.op = "rule"
BY DEF IInv, Control, TypeOK

LEMMA ReadTypesInv == IInv /\ ReadTypes => IInv'
<1>. SUFFICES ASSUME IInv, ReadTypes PROVE IInv'
  OBVIOUS
<1>1. pc = "types" /\ offset = 0
  BY DEF ReadTypes, IInv, Control
<1>2. CASE Done(TRUE, None) /\ UNCHANGED history
  BY <1>1, <1>2, DoneStep
<1>3. CASE /\ pc' = "find" /\ UNCHANGED <<mem, todo, crashes, history>>
           /\ UNCHANGED <<req, offset, err, answer>>
  <2>1. offset' = 0 /\ offset' \in Nat
    BY <1>1, <1>3
  <2>. QED
    BY <1>1, <1>3, <2>1, Looking, FromStart, GoOn
<1>. QED
  BY <1>2, <1>3 DEF ReadTypes

LEMMA WalkInv == IInv /\ Walk => IInv'
<1>. SUFFICES ASSUME IInv, Walk PROVE IInv'
  OBVIOUS
<1>1. /\ pc \in {"find", "space"} /\ ~Found /\ ~Missing
      /\ offset' = Folded(Past(offset)) /\ UNCHANGED <<mem, todo, crashes, history>>
      /\ UNCHANGED <<pc, req, err, answer>>
  BY DEF Walk
<1>2. pc = "space" => req \in Creations /\ req.id % Width # Erased
  BY DEF IInv, Control
<1>3. PICK p \in Nat : p = Past(offset)
  BY <1>1, WalkOn
<1>4. /\ ~astray => p >= Used \/ \E i \in DOMAIN rules : p = rules[i].at
      /\ ~torn => p <= Used
      /\ ~used => p < Chip
  BY <1>1, <1>3, WalkOn
<1>5. /\ Used \in Nat /\ Used < Size /\ Size \in Nat /\ Chip \in Nat /\ Size < Chip
      /\ \A i \in DOMAIN rules : rules[i].at \in Nat /\ rules[i].at < Size
  <2>1. Used \in 0 .. (Size - 1) /\ Size \in Nat
    BY Basics, SpaceIs
  <2>2. ASSUME NEW i \in DOMAIN rules
        PROVE  rules[i].at \in Nat /\ rules[i].at < Size
    <3>1. /\ rules[i].at \in Nat /\ EndOf(rules[i]) \in Nat
          /\ rules[i].at + 3 <= EndOf(rules[i]) /\ EndOf(rules[i]) <= Used
      BY UsedBound, Basics
    <3>. QED
      BY <2>1, <3>1
  <2>. QED
    BY <2>1, <2>2, StoreAssumption
<1>6. /\ offset' \in Nat
      /\ p < Size + Chip => offset' = p
      /\ p >= Size + Chip => offset' >= Size
  BY <1>1, <1>3, FoldedOn
<1>7. ~astray => offset' >= Used \/ \E i \in DOMAIN rules : offset' = rules[i].at
  BY <1>4, <1>5, <1>6
<1>8. ~torn => offset' <= Used
  BY <1>4, <1>5, <1>6
<1>9. ~used /\ offset' > Size => Cell(offset') \notin Space
  <2>1. SUFFICES ASSUME ~used, offset' > Size PROVE Cell(offset') \notin Space
    OBVIOUS
  <2>2. offset' = p /\ p < Chip
    BY <1>4, <1>5, <1>6, <2>1
  <2>. QED
    BY <2>1, <2>2, CellIs
<1>. QED
  BY <1>1, <1>2, <1>6, <1>7, <1>8, <1>9, Looking, GoOn

LEMMA RefuseInv == IInv /\ Refuse => IInv'
BY DoneStep DEF Refuse

LEMMA NoSpaceInv == IInv /\ NoSpace => IInv'
BY DoneStep DEF NoSpace

LEMMA GetInv == IInv /\ Get => IInv'
<1>. SUFFICES ASSUME IInv, Get PROVE IInv'
  OBVIOUS
<1>1. PICK shown \in SUBSET Parts :
        Done(FALSE, [op |-> "rule", id |-> req.id,
                     text |-> [p \in shown |-> RuleAt(offset)[p]]])
  BY DEF Get
<1>. DEFINE a == [op |-> "rule", id |-> req.id,
                  text |-> [p \in shown |-> RuleAt(offset)[p]]]
<1>2. a.op = "rule"
  OBVIOUS
<1>3. Done(FALSE, a)
  BY <1>1
<1>. HIDE DEF a
<1>. QED
  BY <1>2, <1>3, DoneStep DEF Get

LEMMA FindSpaceInv == IInv /\ FindSpace => IInv'
<1>. SUFFICES ASSUME IInv, FindSpace PROVE IInv'
  OBVIOUS
<1>1. /\ pc = "find" /\ Missing /\ req.op = "create"
      /\ pc' = "space" /\ offset' = 0
      /\ UNCHANGED <<mem, todo, crashes, history>> /\ UNCHANGED <<req, err, answer>>
  BY DEF FindSpace
<1>2. req \in Creations
  BY <1>1, Looking, RequestOps
<1>3. req.id % Width # Erased
  BY <1>1 DEF Missing, Found, SoughtId
<1>. QED
  BY <1>1, <1>2, <1>3, Looking, FromStart, GoOn

LEMMA DeleteInv == IInv /\ Delete => IInv'
<1>. SUFFICES ASSUME IInv, Delete PROVE IInv'
  OBVIOUS
<1>. DEFINE b == Before(rules, offset)
<1>0. PICK a \in Int : a = IF Found THEN offset ELSE -1
  BY Basics, SMTT(40)
<1>1. /\ pc = "find" /\ req.op = "delete" /\ pc' = "write"
      /\ todo' = <<[at |-> a, val |-> Erased]>> /\ err' = Missing
      /\ rules' = IF Missing THEN rules ELSE b
      /\ astray' = (astray \/ (Found /\ Wrong(offset)))
      /\ UNCHANGED <<mem, req, offset, answer, crashes, torn, used>>
      /\ Found \/ Missing
  BY <1>0, Readings DEF Delete
<1>2. Ended /\ req \in Requests /\ req \notin Creations /\ req # None
  BY <1>1, Looking, RequestOps
<1>3. /\ ~astray => offset >= Used \/ \E i \in DOMAIN rules : offset = rules[i].at
      /\ ~torn => offset <= Used
      /\ ~used /\ offset > Size => Cell(offset) \notin Space
  BY <1>1 DEF IInv, Walking
<1>4. /\ b \in Seq(Rule) /\ Ordered(b)
      /\ DOMAIN b \subseteq DOMAIN rules /\ \A i \in DOMAIN b : b[i] = rules[i]
      /\ UsedBy(b) <= Used
      /\ ~astray => /\ UsedBy(b) <= offset
                    /\ offset <= Used => UsedBy(b) = offset
  <2>1. /\ b \in Seq(Rule) /\ Ordered(b)
        /\ DOMAIN b \subseteq DOMAIN rules /\ \A i \in DOMAIN b : b[i] = rules[i]
        /\ UsedBy(b) <= UsedBy(rules)
        /\ offset >= UsedBy(rules) \/ (\E i \in DOMAIN rules : offset = rules[i].at) =>
             /\ UsedBy(b) <= offset
             /\ offset <= UsedBy(rules) => UsedBy(b) = offset
    BY Basics, FewBefore
  <2>. QED
    BY <1>3, <2>1, Basics
<1>5. /\ Missing => rules' = rules /\ ~Found
      /\ Found => rules' = b
  BY <1>1 DEF Missing
<1>6. /\ rules' \in Seq(Rule) /\ Ordered(rules')
      /\ ~astray => Held(mem, rules')
      /\ Used' = UsedBy(rules') /\ UsedBy(rules') \in 0 .. (Size - 1)
      /\ UsedBy(rules') <= Used
  <2>1. rules' \in Seq(Rule) /\ Ordered(rules') /\ UsedBy(rules') <= Used
    <3>1. CASE Missing
      <4>1. rules' = rules
        BY <1>5, <3>1
      <4>2. UsedBy(rules') = Used /\ Used \in Nat
        BY <4>1, Basics
      <4>. QED
        BY <4>1, <4>2, Basics
    <3>2. CASE Found
      BY <1>4, <1>5, <3>2
    <3>. QED
      BY <1>1, <3>1, <3>2
  <2>2. ~astray => Held(mem, rules')
    BY <1>1, <1>4, <1>5, Basics DEF Held
  <2>. QED
    BY <2>1, <2>2, UsedBound, Readings
<1>7. offset \in Nat /\ Used \in Nat /\ Used < Size /\ Size \in Nat
  BY Basics, SpaceIs
<1>8. TypeOK'
  <2>1. todo' \in Seq([at : Int, val : Byte])
    BY <1>1, <1>7, SpaceIs
  <2>2. err' \in BOOLEAN /\ astray' \in BOOLEAN
    BY <1>1 DEF Missing
  <2>. QED
    BY <1>1, <1>6, <2>1, <2>2 DEF IInv, TypeOK
<1>9. Lying'
  <2>1. astray' => torn' /\ used'
    <3>1. CASE astray
      BY <1>1, <3>1 DEF IInv, Lying
    <3>2. CASE Found /\ Wrong(offset)
      <4>1. offset > Size /\ Cell(offset) \in 0 .. (Used - 1)
        BY <3>2 DEF Wrong
      <4>2. torn
        BY <1>3, <1>7, <4>1
      <4>3. Cell(offset) \in Space
        BY <1>7, <4>1, SpaceIs
      <4>4. used
        BY <1>3, <4>1, <4>3
      <4>. QED
        BY <1>1, <4>2, <4>4 DEF IInv, TypeOK
    <3>. QED
      BY <1>1, <3>1, <3>2
  <2>. QED
    BY <1>1, <1>6, <2>1 DEF Lying
<1>10. Deleting'
  <2>1. a = -1 \/ At(a)' = req'.id % Width
    <3>1. Found => At(offset) = req.id % Width
      BY <1>1 DEF Found, SoughtId
    <3>2. At(a)' = mem[Cell(a)]
      BY <1>1 DEF At, Cell
    <3>. QED
      BY <1>0, <1>1, <3>1, <3>2 DEF At
  <2>2. ~astray' => Cell(a) \notin 0 .. (UsedBy(rules') - 1)
    <3>1. SUFFICES ASSUME ~astray' PROVE Cell(a) \notin 0 .. (UsedBy(rules') - 1)
      OBVIOUS
    <3>2. CASE ~Found
      BY <1>0, <3>2, SpaceIs
    <3>3. CASE Found
      <4>1. ~astray /\ ~Wrong(offset)
        BY <1>1, <3>1, <3>3
      <4>2. CASE offset <= Size
        <5>1. Cell(offset) = offset
          BY <1>7, <4>2, SpaceIs
        <5>2. UsedBy(rules') <= offset
          BY <1>4, <1>5, <3>3, <4>1
        <5>. QED
          BY <1>0, <1>6, <1>7, <3>3, <5>1, <5>2
      <4>3. CASE offset > Size
        <5>1. Cell(offset) \notin 0 .. (Used - 1)
          BY <4>1, <4>3 DEF Wrong
        <5>2. 0 .. (UsedBy(rules') - 1) \subseteq 0 .. (Used - 1)
          BY <1>6, <1>7
        <5>. QED
          BY <1>0, <3>3, <5>1, <5>2
      <4>. QED
        BY <1>7, <4>2, <4>3
    <3>. QED
      BY <3>2, <3>3
  <2>3. ~torn' => a = UsedBy(rules') \/ (a = -1 /\ At(Used)' = Erased)
    <3>1. SUFFICES ASSUME ~torn
                   PROVE  a = UsedBy(rules') \/ (a = -1 /\ At(Used)' = Erased)
      BY <1>1
    <3>2. CASE Found
      BY <1>0, <1>3, <1>4, <1>5, <3>1, <3>2, Basics
    <3>3. CASE ~Found
      <4>1. Used' = Used
        BY <1>1, <1>5, <3>3 DEF Used
      <4>2. At(Used)' = At(Used)
        BY <1>1, <4>1 DEF At, Cell
      <4>. QED
        BY <1>0, <1>1, <1>2, <3>1, <3>3, <4>2 DEF Ended
    <3>. QED
      BY <3>2, <3>3
  <2>4. Cell(a)' = Cell(a)
    BY <1>1 DEF Cell
  <2>. QED
    BY <1>1, <1>6, <2>1, <2>2, <2>3, <2>4 DEF Deleting
<1>11. Control'
  BY <1>1, <1>2 DEF IInv, Control
<1>12. Around'
  BY <1>1 DEF IInv, Around
<1>. QED
  BY <1>1, <1>2, <1>8, <1>9, <1>10, <1>11, <1>12
     DEF IInv, Walking, Creating, Starting, Started, Ended

LEMMA PlaceInv == IInv /\ Place => IInv'
<1>. SUFFICES ASSUME IInv, Place PROVE IInv'
  OBVIOUS
<1>1. /\ pc = "space" /\ Found /\ HasSpace /\ pc' = "write" /\ todo' = NewBytes
      /\ UNCHANGED <<mem, req, offset, err, answer, crashes, history>>
  BY DEF Place
<1>2. /\ req \in Creations /\ req.id % Width # Erased
      /\ req # None /\ req.op = "create"
  BY <1>1, Looking, RequestOps DEF IInv, Control
<1>3. (~astray => offset >= Used) /\ (~torn => offset = Used)
  <2>1. At(offset) = Erased
    BY <1>1 DEF Found, SoughtId
  <2>2. ~astray => \A i \in DOMAIN rules : offset # rules[i].at
    <3>1. ASSUME ~astray, NEW i \in DOMAIN rules
          PROVE  At(rules[i].at) # Erased
      <4>1. Bytes(mem, rules[i]) /\ rules[i].id # Erased
        BY <3>1, Basics DEF Ordered, Held
      <4>. QED
        BY <4>1, Readings DEF Bytes
    <3>. QED
      BY <2>1, <3>1
  <2>3. ~astray => offset >= Used
    BY <1>1, <2>2 DEF IInv, Walking
  <2>4. ~torn => offset <= Used /\ ~astray
    BY <1>1, Basics DEF IInv, Walking
  <2>. QED
    BY <2>3, <2>4, Basics
<1>4. /\ NewBytes \in Seq([at : Int, val : Byte])
      /\ Len(NewBytes) \in Nat \ {0}
      /\ SubSeq(NewBytes, 1, Len(NewBytes)) = NewBytes
  <2>1. NewBytes \in Seq([at : Int, val : Byte])
    BY <1>2, Basics, NewBytesAre
  <2>2. Len(NewBytes) = 4 + Len(req.cond) + Len(req.act)
    BY <1>2, Basics, NewBytesAre
  <2>. DEFINE c == Len(req.cond)
              t == Len(req.act)
  <2>3. c \in Nat /\ t \in Nat /\ Len(NewBytes) = 4 + c + t
    BY <1>2, <2>2, CreationType DEF Byte
  <2>. HIDE DEF c, t
  <2>4. Len(NewBytes) \in Nat \ {0}
    BY <2>3
  <2>. QED
    BY <2>1, <2>4
<1>5. HasSpace' /\ NewBytes' = NewBytes
  BY <1>1 DEF HasSpace, NewBytes, Image
<1>6. Creating'
  <2>1. \E k \in 0 .. (Len(NewBytes) - 1) :
          /\ todo' = SubSeq(NewBytes, k + 1, Len(NewBytes))
          /\ \A i \in 1 .. k : At(NewBytes[i].at)' = NewBytes[i].val
    <3>1. 0 \in 0 .. (Len(NewBytes) - 1)
      BY <1>4
    <3>. WITNESS 0 \in 0 .. (Len(NewBytes) - 1)
    <3>2. todo' = SubSeq(NewBytes, 0 + 1, Len(NewBytes))
      BY <1>1, <1>4
    <3>3. 1 .. 0 = {}
      OBVIOUS
    <3>. QED
      BY <3>2, <3>3
  <2>2. Used' = Used
    BY <1>1 DEF Used, history
  <2>. QED
    BY <1>1, <1>2, <1>3, <1>5, <2>1, <2>2 DEF Creating, history
<1>7. TypeOK'
  BY <1>1, <1>4 DEF IInv, TypeOK, history
<1>8. Control'
  BY <1>1, <1>2 DEF IInv, Control, history
<1>9. Lying' /\ Around'
  BY <1>1, Unmoved DEF history
<1>10. Started'
  BY <1>1 DEF Started
<1>. QED
  BY <1>1, <1>2, <1>6, <1>7, <1>8, <1>9, <1>10
     DEF IInv, Walking, Deleting, Starting, Ended

LEMMA BootInv == IInv /\ Boot => IInv'
<1>. SUFFICES ASSUME IInv, Boot PROVE IInv'
  OBVIOUS
<1>1. /\ pc = "off" /\ req = None /\ todo = <<>>
      /\ UNCHANGED <<mem, req, offset, err, answer, crashes, used>>
  BY DEF Boot, IInv, Control
<1>2. None.op = "none" /\ None \notin Creations
  BY RequestOps
<1>3. CASE mem[Size] = Magic
  <2>1. pc' = "idle" /\ todo' = todo /\ UNCHANGED <<mem, history>>
    BY <1>1, <1>3, Basics DEF Boot, history
  <2>2. TypeOK' /\ Control'
    BY <1>1, <2>1 DEF IInv, TypeOK, Control, history
  <2>3. Started' /\ Ended'
    BY <1>1, <1>3, <2>1, Unmoved DEF IInv, Started, Ended
  <2>. QED
    BY <1>1, <2>1, <2>2, <2>3, Unmoved
       DEF IInv, Walking, Creating, Deleting, Starting
<1>4. CASE mem[Size] # Magic
  <2>1. /\ pc' = "write" /\ todo' = FirstBytes
        /\ rules' = <<>> /\ torn' = FALSE /\ astray' = FALSE
    BY <1>4, Basics DEF Boot
  <2>2. FirstBytes \in Seq([at : Int, val : Byte])
    BY SpaceIs DEF FirstBytes, Reset
  <2>3. TypeOK' /\ Control'
    BY <1>1, <2>1, <2>2, EmptySeq DEF IInv, TypeOK, Control
  <2>4. Lying' /\ Around'
    BY <1>1, <2>1 DEF IInv, Lying, Ordered, Held, Around
  <2>5. Starting'
    BY <1>1, <1>4, <2>1 DEF Starting
  <2>. QED
    BY <1>1, <1>2, <2>1, <2>3, <2>4, <2>5
       DEF IInv, Walking, Creating, Deleting, Started, Ended
<1>. QED
  BY <1>3, <1>4

-----------------------------------------------------------------------------
(* Bytes that are written *)

\* The step of a creation: which byte is next, and what is left.
LEMMA NextByte ==
  ASSUME IInv, pc = "write", req \in Creations,
         NEW k \in 0 .. (Len(NewBytes) - 1),
         todo = SubSeq(NewBytes, k + 1, Len(NewBytes))
  PROVE  LET n == 4 + Len(req.cond) + Len(req.act)
         IN  /\ n = Len(NewBytes) /\ n \in Nat /\ k < n
             /\ todo # <<>> /\ Head(todo) = NewBytes[k + 1]
             /\ Head(todo).at = offset + k /\ Head(todo).val \in Byte
             /\ offset + n <= Size
             /\ Tail(todo) = SubSeq(NewBytes, k + 2, Len(NewBytes))
             /\ Tail(todo) = <<>> <=> k + 1 = n
             /\ Tail(todo) \in Seq([at : Int, val : Byte])
<1>. DEFINE n == 4 + Len(req.cond) + Len(req.act)
            T == [at : Int, val : Byte]
<1>1. /\ NewBytes \in Seq(T) /\ Len(NewBytes) = n
      /\ \A i \in 1 .. n : NewBytes[i].at = offset + i - 1 /\ NewBytes[i].val \in Byte
  BY Basics, NewBytesAre
<1>2. Len(req.cond) \in Nat /\ Len(req.act) \in Nat
  BY CreationType DEF Byte
<1>3. n \in Nat /\ offset + n <= Size
  <2>. DEFINE c == Len(req.cond)
              t == Len(req.act)
  <2>1. offset + 4 + c + t <= Size
    BY DEF IInv, Creating, HasSpace
  <2>2. c \in Nat /\ t \in Nat /\ n = 4 + c + t /\ offset \in Nat /\ Size \in Nat
    BY <1>2, Basics, SpaceIs
  <2>. HIDE DEF c, t, n
  <2>. QED
    BY <2>1, <2>2
<1>. HIDE DEF n, T
<1>4. k + 1 \in 1 .. n /\ k < n
  BY <1>1, <1>3
<1>5. /\ Head(todo) = NewBytes[k + 1]
      /\ Tail(todo) = SubSeq(NewBytes, (k + 1) + 1, Len(NewBytes))
  <2>1. k + 1 \in 1 .. Len(NewBytes) /\ Len(NewBytes) \in (k + 1) .. Len(NewBytes)
    BY <1>1, <1>3, <1>4
  <2>. QED
    BY <1>1, <2>1, HeadTailOfSubSeq
<1>6. offset + (k + 1) - 1 = offset + k /\ (k + 1) + 1 = k + 2
  BY Basics
<1>7. todo # <<>> /\ Len(todo) = n - k /\ todo \in Seq(T)
  <2>1. \A i \in (k + 1) .. n : NewBytes[i] \in T
    BY <1>1, <1>3, <1>4
  <2>2. k + 1 \in Int /\ n \in Int /\ k + 1 <= n /\ todo = SubSeq(NewBytes, k + 1, n)
    BY <1>1, <1>3, <1>4
  <2>3. todo \in Seq(T) /\ Len(todo) = n - (k + 1) + 1
    BY <2>1, <2>2, SubSeqProperties
  <2>4. Len(todo) = n - k /\ Len(todo) # 0
    BY <2>2, <2>3
  <2>. QED
    BY <2>3, <2>4, EmptySeq
<1>8. Tail(todo) \in Seq(T) /\ Len(Tail(todo)) = n - k - 1
  BY <1>3, <1>7, HeadTailProperties
<1>9. Tail(todo) = <<>> <=> k + 1 = n
  <2>1. Tail(todo) = <<>> <=> Len(Tail(todo)) = 0
    BY <1>8, EmptySeq
  <2>. QED
    BY <1>3, <1>4, <1>8, <2>1
<1>. QED
  BY <1>1, <1>3, <1>4, <1>5, <1>6, <1>7, <1>8, <1>9 DEF n, T

\* A byte is written behind the rules, unless a deletion went astray, and within
\* the space if it is not an erased one; over the magic byte only a deletion writes
\* that took it for a rule.
LEMMA WhereTo ==
  ASSUME IInv, pc = "write"
  PROVE  /\ todo # <<>> /\ Head(todo).at \in Int /\ Head(todo).val \in Byte
         /\ Tail(todo) \in Seq([at : Int, val : Byte])
         /\ ~astray => Cell(Head(todo).at) \notin 0 .. (Used - 1)
         /\ Head(todo).val # Erased => Cell(Head(todo).at) \in Space
         /\ req # None /\ Cell(Head(todo).at) = Size =>
              torn /\ req.op = "delete" /\ (mem[Size] = Magic => req.id % Width = Magic)
<1>0. Used \in Nat /\ Used < Size /\ Size \in Nat
  BY Basics, SpaceIs
<1>1. CASE req \in Creations
  <2>1. PICK k \in 0 .. (Len(NewBytes) - 1) :
               todo = SubSeq(NewBytes, k + 1, Len(NewBytes))
    BY <1>1 DEF IInv, Creating
  <2>2. ~astray => offset >= Used
    BY <1>1 DEF IInv, Creating
  <2>. DEFINE n == 4 + Len(req.cond) + Len(req.act)
              a == Head(todo).at
  <2>3. /\ n \in Nat /\ k < n /\ todo # <<>>
        /\ a = offset + k /\ Head(todo).val \in Byte
        /\ offset + n <= Size /\ Tail(todo) \in Seq([at : Int, val : Byte])
    BY <1>1, <2>1, NextByte
  <2>. HIDE DEF n, a
  <2>4. a \in Int /\ a \in 0 .. Size /\ a # Size /\ (~astray => a >= Used)
    <3>1. offset \in Nat /\ k \in Nat
      BY Basics
    <3>. QED
      BY <1>0, <2>2, <2>3, <3>1
  <2>5. Cell(a) = a /\ a \in Space
    BY <2>4, SpaceIs
  <2>6. ~astray => a \notin 0 .. (Used - 1)
    BY <1>0, <2>4
  <2>. QED
    BY <2>3, <2>4, <2>5, <2>6 DEF a
<1>2. CASE req.op = "delete"
  <2>1. PICK a \in Int : /\ todo = <<[at |-> a, val |-> Erased]>>
                         /\ a = -1 \/ At(a) = req.id % Width
                         /\ ~astray => Cell(a) \notin 0 .. (Used - 1)
                         /\ ~torn => a = Used \/ a = -1
    BY <1>2 DEF IInv, Deleting
  <2>2. Head(todo) = [at |-> a, val |-> Erased] /\ Tail(todo) = <<>> /\ todo # <<>>
    BY <2>1
  <2>3. ASSUME Cell(a) = Size
        PROVE  torn /\ (mem[Size] = Magic => req.id % Width = Magic)
    <3>1. a # -1 /\ a # Used
      <4>1. Cell(-1) = -1 /\ Cell(Used) = Used
        BY SpaceIs, Basics
      <4>2. Size # -1 /\ Size # Used
        BY <1>0
      <4>. QED
        BY <2>3, <4>1, <4>2
    <3>2. At(a) = mem[Size]
      BY <2>3 DEF At
    <3>. QED
      BY <2>1, <3>1, <3>2
  <2>. QED
    BY <1>2, <2>1, <2>2, <2>3, SpaceIs, EmptySeq
<1>3. CASE req = None
  <2>1. rules = <<>> /\ (todo = FirstBytes \/ todo = Tail(FirstBytes))
    BY <1>3 DEF IInv, Starting
  <2>2. 0 .. (Used - 1) = {}
    BY <2>1 DEF Used
  <2>3. /\ FirstBytes = <<[at |-> 0, val |-> Erased], [at |-> Size, val |-> Magic]>>
        /\ Tail(FirstBytes) = <<[at |-> Size, val |-> Magic]>>
        /\ Tail(Tail(FirstBytes)) = <<>>
    BY DEF FirstBytes, Reset
  <2>4. 0 \in Space /\ Size \in Space
    BY <1>0, SpaceIs
  <2>5. CASE todo = FirstBytes
    <3>1. /\ todo # <<>> /\ Head(todo) = [at |-> 0, val |-> Erased]
          /\ Tail(todo) = <<[at |-> Size, val |-> Magic]>>
      BY <2>3, <2>5
    <3>2. [at |-> Size, val |-> Magic] \in [at : Int, val : Byte]
      BY SpaceIs
    <3>3. Tail(todo) \in Seq([at : Int, val : Byte])
      <4>1. ASSUME NEW S, NEW x \in S PROVE <<x>> \in Seq(S)
        OBVIOUS
      <4>. QED
        BY <3>1, <3>2, <4>1
    <3>. QED
      BY <1>3, <2>2, <2>4, <3>1, <3>3, SpaceIs
  <2>6. CASE todo = Tail(FirstBytes)
    <3>1. /\ todo # <<>> /\ Head(todo) = [at |-> Size, val |-> Magic]
          /\ Tail(todo) = <<>>
      BY <2>3, <2>6
    <3>2. Tail(todo) \in Seq([at : Int, val : Byte])
      BY <3>1, EmptySeq
    <3>. QED
      BY <1>3, <2>2, <2>4, <3>1, <3>2, SpaceIs
  <2>. QED
    BY <2>1, <2>5, <2>6
<1>. QED
  BY <1>1, <1>2, <1>3 DEF IInv, Control

\* setByte.
Put(m, a, v) == [m EXCEPT ![Cell(a)] = v]

\* Such a byte leaves the rules and all other cells as they are.
LEMMA OneByte ==
  ASSUME IInv, NEW a \in Int, ~astray => Cell(a) \notin 0 .. (Used - 1),
         NEW v \in Byte, v # Erased => Cell(a) \in Space,
         NEW m, m = Put(mem, a, v)
  PROVE  /\ m \in [Cells -> Byte]
         /\ ~astray => Held(m, rules)
         /\ ~used => \A c \in Cells \ Space : m[c] = Erased
         /\ \A o \in Int : ByteAt(m, o) = IF Cell(o) = Cell(a) THEN v ELSE At(o)
<1>0. Cell(a) \in Cells /\ mem \in [Cells -> Byte]
  BY CellIs, Basics
<1>1. m \in [Cells -> Byte]
  BY <1>0 DEF Put
<1>2. \A o \in Int : ByteAt(m, o) = IF Cell(o) = Cell(a) THEN v ELSE At(o)
  BY <1>0, CellIs DEF ByteAt, At, Put
<1>3. ASSUME ~astray PROVE Held(m, rules)
  <2>1. ASSUME NEW o \in 0 .. (UsedBy(rules) - 1)
        PROVE  ByteAt(m, o) = ByteAt(mem, o)
    <3>1. o \in 0 .. (Used - 1) /\ o \in Int /\ o \in 0 .. Size
      BY Basics, SpaceIs
    <3>2. Cell(o) = o
      BY <3>1, SpaceIs
    <3>. QED
      BY <1>2, <1>3, <3>1, <3>2, Readings
  <2>. QED
    BY <1>3, <2>1, Basics, HeldStays
<1>4. ~used => \A c \in Cells \ Space : m[c] = Erased
  BY <1>0 DEF IInv, Around, Put
<1>. QED
  BY <1>1, <1>2, <1>3, <1>4

\* What every byte written does.
LEMMA Written ==
  ASSUME IInv, Write
  PROVE  LET w == Head(todo)
         IN  /\ mem' \in [Cells -> Byte]
             /\ ~astray => Held(mem', rules)
             /\ Around'
             /\ \A o \in Int : ByteAt(mem', o) = IF Cell(o) = Cell(w.at) THEN w.val ELSE At(o)
             /\ mem'[Size] = ByteAt(mem', Size) /\ mem'[0] = ByteAt(mem', 0)
<1>1. PICK a \in Int, v \in Byte : a = Head(todo).at /\ v = Head(todo).val
  BY WhereTo DEF Write
<1>2. /\ mem' = Put(mem, a, v) /\ used' = used
      /\ ~astray => Cell(a) \notin 0 .. (Used - 1)
      /\ v # Erased => Cell(a) \in Space
  BY <1>1, WhereTo DEF Write, Put
<1>3. /\ mem' \in [Cells -> Byte]
      /\ ~astray => Held(mem', rules)
      /\ ~used => \A c \in Cells \ Space : mem'[c] = Erased
      /\ \A o \in Int : ByteAt(mem', o) = IF Cell(o) = Cell(a) THEN v ELSE At(o)
  BY <1>2, OneByte
<1>4. Around'
  BY <1>2, <1>3 DEF Around
<1>5. mem'[Size] = ByteAt(mem', Size) /\ mem'[0] = ByteAt(mem', 0)
  BY SpaceIs DEF ByteAt
<1>. QED
  BY <1>1, <1>3, <1>4, <1>5

LEMMA WriteCreation == IInv /\ Write /\ req \in Creations => IInv'
<1>. SUFFICES ASSUME IInv, Write, req \in Creations PROVE IInv'
  OBVIOUS
<1>. DEFINE c == Len(req.cond)
            t == Len(req.act)
            n == 4 + c + t
            w == Head(todo)
            T == [at : Int, val : Byte]
<1>1. /\ pc = "write" /\ todo' = Tail(todo) /\ req # None /\ req.op = "create"
      /\ torn' = torn /\ UNCHANGED <<err, answer, crashes, astray, used>>
  <2>1. req # None /\ req.op = "create"
    BY RequestOps
  <2>2. pc = "write"
    BY DEF Write
  <2>3. torn \in BOOLEAN
    BY DEF IInv, TypeOK
  <2>. QED
    BY <2>1, <2>2, <2>3 DEF Write
<1>2. /\ req.id % Width # Erased /\ (~torn => offset = Used) /\ HasSpace
  BY <1>1 DEF IInv, Creating
<1>3. PICK k \in 0 .. (Len(NewBytes) - 1) :
        /\ todo = SubSeq(NewBytes, k + 1, Len(NewBytes))
        /\ \A i \in 1 .. k : At(NewBytes[i].at) = NewBytes[i].val
  BY <1>1 DEF IInv, Creating
<1>4. /\ n = Len(NewBytes) /\ n \in Nat /\ k < n
      /\ w = NewBytes[k + 1] /\ w.at = offset + k /\ offset + n <= Size
      /\ Tail(todo) = SubSeq(NewBytes, k + 2, Len(NewBytes))
      /\ (Tail(todo) = <<>> <=> k + 1 = n) /\ Tail(todo) \in Seq(T)
  BY <1>1, <1>3, NextByte
<1>5. /\ \A i \in 1 .. n : NewBytes[i].at = offset + i - 1 /\ NewBytes[i].val \in Byte
      /\ NewBytes[1].val = req.id % Width
      /\ NewBytes[2].val = c /\ NewBytes[3].val = t
      /\ \A i \in 1 .. c : NewBytes[3 + i].val = req.cond[i]
      /\ \A i \in 1 .. t : NewBytes[3 + c + i].val = req.act[i]
      /\ NewBytes[n].val = Erased
  BY Basics, NewBytesAre
<1>6. /\ c \in Nat /\ t \in Nat /\ req.cond \in Seq(Byte) /\ req.act \in Seq(Byte)
      /\ req.id % Width \in Byte
  BY CreationType DEF Byte
<1>7. /\ mem' \in [Cells -> Byte] /\ (~astray => Held(mem', rules)) /\ Around'
      /\ \A o \in Int : ByteAt(mem', o) = IF Cell(o) = Cell(w.at) THEN w.val ELSE At(o)
  BY Written
<1>. HIDE DEF c, n, t, w, T
<1>8. \A i \in 1 .. (k + 1) : ByteAt(mem', NewBytes[i].at) = NewBytes[i].val
  <2>. TAKE i \in 1 .. (k + 1)
  <2>0. offset \in Nat /\ Size \in Nat /\ k \in Nat
    BY Basics, SpaceIs
  <2>1. i \in 1 .. n /\ NewBytes[i].at = offset + i - 1
    BY <1>4, <1>5
  <2>2. CASE i = k + 1
    <3>1. w.at \in Int
      BY <1>4, <2>0
    <3>. QED
      BY <2>2, <3>1, <1>4, <1>7
  <2>3. CASE i # k + 1
    <3>1. i \in 1 .. k
      BY <2>3
    <3>2. PICK o \in Int : o = NewBytes[i].at
      BY <2>0, <2>1
    <3>3. o # w.at /\ o \in 0 .. Size /\ w.at \in 0 .. Size
      BY <1>4, <2>0, <2>1, <2>3, <3>2, SMTT(40)
    <3>4. Cell(o) # Cell(w.at)
      BY <3>3, SpaceIs
    <3>. QED
      BY <3>1, <3>2, <3>4, <1>3, <1>7
  <2>. QED
    BY <2>2, <2>3
<1>9. CASE k + 1 < n
  <2>1. pc' = pc /\ req' = req /\ offset' = offset /\ rules' = rules
    BY <1>4, <1>9 DEF Write
  <2>2. NewBytes' = NewBytes /\ HasSpace' /\ Used' = Used
    BY <1>2, <2>1 DEF NewBytes, Image, HasSpace, Used
  <2>3. \E j \in 0 .. (Len(NewBytes) - 1) :
          /\ todo' = SubSeq(NewBytes, j + 1, Len(NewBytes))
          /\ \A i \in 1 .. j : ByteAt(mem', NewBytes[i].at) = NewBytes[i].val
    <3>1. k + 1 \in 0 .. (Len(NewBytes) - 1) /\ (k + 1) + 1 = k + 2
      BY <1>4, <1>9
    <3>2. todo' = SubSeq(NewBytes, (k + 1) + 1, Len(NewBytes))
      BY <1>1, <1>4, <3>1
    <3>. QED
      BY <1>8, <3>1, <3>2
  <2>4. Creating'
    <3>1. ~astray => offset >= Used
      BY <1>1 DEF IInv, Creating
    <3>. QED
      BY <1>1, <1>2, <2>1, <2>2, <2>3, <3>1, Readings DEF Creating
  <2>5. TypeOK'
    BY <1>1, <1>4, <1>7, <2>1 DEF IInv, TypeOK, T
  <2>6. Control'
    BY <1>1, <2>1 DEF IInv, Control
  <2>7. Lying' /\ Started'
    BY <1>1, <1>7, <2>1 DEF IInv, Lying, Started
  <2>. QED
    BY <1>1, <1>7, <2>1, <2>4, <2>5, <2>6, <2>7
       DEF IInv, Walking, Deleting, Starting, Ended
<1>10. CASE k + 1 = n
  <2>. DEFINE r == [at |-> offset, id |-> req.id % Width,
                    cond |-> req.cond, act |-> req.act]
  <2>1. /\ pc' = "idle" /\ req' = None /\ offset' = 0 /\ rules' = Accepted
        /\ todo' = <<>>
    BY <1>1, <1>4, <1>10 DEF Write
  <2>2. r \in Rule
    <3>1. offset \in 0 .. Size
      BY <1>4, Basics, SpaceIs, SMTT(40)
    <3>. QED
      BY <3>1, <1>6 DEF Rule, Words
  <2>3. EndOf(r) = offset + n - 1 /\ EndOf(r) < Size
    <3>1. EndOf(r) = offset + 3 + c + t
      BY DEF EndOf, c, t
    <3>2. offset \in Nat /\ Size \in Nat
      BY Basics, SpaceIs
    <3>3. n = 4 + c + t /\ c \in Nat /\ t \in Nat /\ offset + n <= Size
      BY <1>4, <1>6 DEF n
    <3>. HIDE DEF r
    <3>. QED
      BY <3>1, <3>2, <3>3
  <2>4. \A i \in 1 .. n : ByteAt(mem', offset + i - 1) = NewBytes[i].val
    BY <1>5, <1>8, <1>10
  <2>5. Bytes(mem', r)
    <3>1. /\ {1, 2, 3} \subseteq 1 .. n
          /\ offset = offset + 1 - 1 /\ offset + 1 = offset + 2 - 1
          /\ offset + 2 = offset + 3 - 1
      BY <1>6, Basics DEF n
    <3>2. /\ ByteAt(mem', offset) = req.id % Width
          /\ ByteAt(mem', offset + 1) = c /\ ByteAt(mem', offset + 2) = t
      BY <3>1, <2>4, <1>5
    <3>3. \A i \in 1 .. c : /\ 3 + i \in 1 .. n
                            /\ offset + 2 + i = offset + (3 + i) - 1
      BY <1>6, Basics DEF n
    <3>4. \A i \in 1 .. c : ByteAt(mem', offset + 2 + i) = req.cond[i]
      BY <3>3, <2>4, <1>5
    <3>5. \A i \in 1 .. t : /\ 3 + c + i \in 1 .. n
                            /\ offset + 2 + c + i = offset + (3 + c + i) - 1
      BY <1>6, Basics DEF n
    <3>6. \A i \in 1 .. t : ByteAt(mem', offset + 2 + c + i) = req.act[i]
      BY <3>5, <2>4, <1>5
    <3>. QED
      BY <3>2, <3>4, <3>6 DEF Bytes, c, t
  <2>6. ByteAt(mem', offset + n - 1) = Erased
    <3>1. n \in 1 .. n
      BY <1>4
    <3>. QED
      BY <3>1, <2>4, <1>5
  <2>7. /\ rules' \in Seq(Rule) /\ Ordered(rules')
        /\ ~astray => Held(mem', rules')
        /\ offset = Used => At(Used)' = Erased
    <3>1. CASE offset = Used
      <4>1. rules' = Append(rules, r)
        BY <1>1, <2>1, <3>1 DEF Accepted
      <4>2. r.at = UsedBy(rules) /\ r.id # Erased
        BY <1>2, <3>1, Basics
      <4>3. /\ rules' \in Seq(Rule) /\ Ordered(rules')
            /\ ~astray => Held(mem', rules')
            /\ UsedBy(rules') = EndOf(r)
        <5>. HIDE DEF r
        <5>. QED
          BY <4>1, <4>2, <2>2, <2>3, <2>5, <1>7, Basics, OneMore
      <4>4. At(Used)' = ByteAt(mem', UsedBy(rules'))
        BY Readings
      <4>. QED
        BY <4>3, <4>4, <2>3, <2>6
    <3>2. CASE offset # Used
      BY <1>7, <2>1, <3>2, Basics DEF Accepted
    <3>. QED
      BY <3>1, <3>2
  <2>. HIDE DEF r
  <2>8. TypeOK'
    BY <1>1, <1>7, <2>1, <2>7, EmptySeq DEF IInv, TypeOK
  <2>9. Control'
    BY <1>1, <2>1 DEF IInv, Control
  <2>10. Lying'
    BY <1>1, <2>7 DEF IInv, Lying
  <2>11. Started' /\ Ended'
    BY <1>1, <1>2, <2>1, <2>7 DEF Started, Ended
  <2>. QED
    BY <1>7, <2>1, <2>8, <2>9, <2>10, <2>11
       DEF IInv, Walking, Creating, Deleting, Starting
<1>. QED
  BY <1>4, <1>9, <1>10

LEMMA WriteDeletion == IInv /\ Write /\ req.op = "delete" => IInv'
<1>. SUFFICES ASSUME IInv, Write, req.op = "delete" PROVE IInv'
  OBVIOUS
<1>1. pc = "write" /\ req # None /\ req.op # "create"
  BY RequestOps DEF Write
<1>2. PICK a \in Int :
        /\ todo = <<[at |-> a, val |-> Erased]>>
        /\ ~torn => a = Used \/ (a = -1 /\ At(Used) = Erased)
  BY <1>1 DEF IInv, Deleting
<1>3. Head(todo) = [at |-> a, val |-> Erased] /\ Tail(todo) = <<>>
  BY <1>2
<1>4. /\ pc' = "idle" /\ req' = None /\ offset' = 0 /\ rules' = rules
      /\ todo' = <<>> /\ torn' = (torn /\ (astray \/ a # Used))
      /\ UNCHANGED <<err, answer, crashes, astray, used>>
  BY <1>1, <1>3 DEF Write, Accepted
<1>5. /\ mem' \in [Cells -> Byte] /\ (~astray => Held(mem', rules)) /\ Around'
      /\ \A o \in Int : ByteAt(mem', o) = IF Cell(o) = Cell(a) THEN Erased ELSE At(o)
  BY <1>1, <1>3, Written
<1>6. Used' = Used /\ At(Used)' = ByteAt(mem', Used)
  <2>1. Used' = Used
    BY <1>4 DEF Used
  <2>2. At(Used)' = ByteAt(mem', Used')
    BY Readings
  <2>. QED
    BY <2>1, <2>2
<1>7. ~torn' => At(Used)' = Erased
  <2>0. Used \in Int
    BY Basics
  <2>1. CASE a = Used
    BY <2>0, <2>1, <1>5, <1>6
  <2>2. CASE a # Used
    <3>1. SUFFICES ASSUME ~torn' PROVE At(Used)' = Erased
      OBVIOUS
    <3>2. ~torn
      BY <1>4, <2>2, <3>1
    <3>3. At(Used) = Erased
      BY <1>2, <2>2, <3>2
    <3>. QED
      BY <2>0, <3>3, <1>5, <1>6
  <2>. QED
    BY <2>1, <2>2
<1>8. TypeOK'
  <2>1. torn' \in BOOLEAN
    BY <1>4 DEF IInv, TypeOK
  <2>. QED
    BY <1>4, <1>5, <2>1, EmptySeq DEF IInv, TypeOK
<1>9. Control'
  BY <1>4 DEF IInv, Control
<1>10. Lying'
  BY <1>4, <1>5 DEF IInv, Lying
<1>11. Started' /\ Ended'
  BY <1>4, <1>7 DEF Started, Ended
<1>. QED
  BY <1>4, <1>5, <1>8, <1>9, <1>10, <1>11
     DEF IInv, Walking, Creating, Deleting, Starting

LEMMA WriteFirst == IInv /\ Write /\ req = None => IInv'
<1>. SUFFICES ASSUME IInv, Write, req = None PROVE IInv'
  OBVIOUS
<1>1. pc = "write" /\ req.op = "none" /\ req \notin Creations
  BY RequestOps DEF Write
<1>2. /\ mem[Size] # Magic /\ rules = <<>>
      /\ todo = FirstBytes \/ (todo = Tail(FirstBytes) /\ mem[0] = Erased)
  BY <1>1 DEF IInv, Starting
<1>3. /\ Head(FirstBytes) = [at |-> 0, val |-> Erased]
      /\ Tail(FirstBytes) = <<[at |-> Size, val |-> Magic]>>
  BY DEF FirstBytes, Reset
<1>4. /\ torn' = torn /\ rules' = rules /\ UNCHANGED <<err, answer, crashes, astray, used>>
      /\ todo' = Tail(todo) /\ Tail(todo) \in Seq([at : Int, val : Byte])
  <2>1. torn \in BOOLEAN
    BY DEF IInv, TypeOK
  <2>. QED
    BY <1>1, <2>1, WhereTo DEF Write, Accepted
<1>5. /\ mem' \in [Cells -> Byte] /\ Around'
      /\ \A o \in Int : ByteAt(mem', o) = IF Cell(o) = Cell(Head(todo).at)
                                          THEN Head(todo).val ELSE At(o)
      /\ mem'[Size] = ByteAt(mem', Size) /\ mem'[0] = ByteAt(mem', 0)
  BY Written
<1>6. /\ Size \in Int /\ Size # 0 /\ Cell(0) = 0 /\ Cell(Size) = Size
      /\ mem[0] = At(0) /\ mem[Size] = At(Size)
  BY SpaceIs DEF At
<1>7. Lying'
  BY <1>2, <1>4 DEF IInv, Lying, Held, Ordered
<1>8. CASE todo = FirstBytes
  <2>1. pc' = pc /\ req' = req /\ offset' = offset /\ todo' = Tail(FirstBytes)
    <3>1. <<[at |-> Size, val |-> Magic]>> # <<>>
      OBVIOUS
    <3>2. Tail(todo) # <<>>
      BY <1>3, <1>8, <3>1
    <3>. QED
      BY <1>4, <1>8, <3>2 DEF Write
  <2>2. mem'[0] = Erased /\ mem'[Size] # Magic
    BY <1>2, <1>3, <1>5, <1>6, <1>8
  <2>3. TypeOK'
    BY <1>4, <1>5, <2>1 DEF IInv, TypeOK
  <2>4. Control'
    BY <1>1, <1>4, <2>1 DEF IInv, Control
  <2>5. Starting'
    BY <1>2, <1>4, <2>1, <2>2 DEF Starting
  <2>. QED
    BY <1>1, <1>5, <1>7, <2>1, <2>3, <2>4, <2>5
       DEF IInv, Walking, Creating, Deleting, Started, Ended
<1>9. CASE todo = Tail(FirstBytes) /\ mem[0] = Erased
  <2>1. Head(todo) = [at |-> Size, val |-> Magic] /\ Tail(todo) = <<>>
    <3>1. ASSUME NEW w PROVE Head(<<w>>) = w /\ Tail(<<w>>) = <<>>
      OBVIOUS
    <3>2. todo = <<[at |-> Size, val |-> Magic]>>
      BY <1>3, <1>9
    <3>. QED
      BY <3>1, <3>2
  <2>2. pc' = "idle" /\ req' = None /\ offset' = 0 /\ todo' = <<>>
    BY <1>4, <2>1 DEF Write
  <2>3. mem'[0] = Erased /\ mem'[Size] = Magic
    <3>1. Head(todo).at = Size /\ Head(todo).val = Magic
      BY <2>1
    <3>2. ByteAt(mem', 0) = At(0)
      BY <1>5, <1>6, <3>1
    <3>3. ByteAt(mem', Size) = Magic
      BY <1>5, <1>6, <3>1
    <3>. QED
      BY <1>5, <1>6, <1>9, <3>2, <3>3
  <2>4. At(Used)' = Erased
    <3>1. Used' = 0
      BY <1>2, <1>4 DEF Used
    <3>2. At(Used)' = ByteAt(mem', Used')
      BY Readings
    <3>. QED
      BY <1>5, <2>3, <3>1, <3>2
  <2>5. TypeOK'
    BY <1>4, <1>5, <2>2, EmptySeq DEF IInv, TypeOK
  <2>6. Control'
    BY <1>4, <2>2 DEF IInv, Control
  <2>7. Started' /\ Ended'
    BY <2>2, <2>4 DEF Started, Ended
  <2>. QED
    BY <1>5, <1>7, <2>2, <2>5, <2>6, <2>7
       DEF IInv, Walking, Creating, Deleting, Starting
<1>. QED
  BY <1>2, <1>8, <1>9

LEMMA WriteInv == IInv /\ Write => IInv'
<1>1. IInv /\ Write => req \in Creations \/ req.op = "delete" \/ req = None
  BY DEF IInv, Control, Write
<1>. QED
  BY <1>1, WriteCreation, WriteDeletion, WriteFirst

-----------------------------------------------------------------------------
(* Failures of power *)

LEMMA CrashInv == IInv /\ Crash => IInv'
<1>. SUFFICES ASSUME IInv, Crash PROVE IInv'
  OBVIOUS
<1>1. /\ pc # "off" /\ pc' = "off" /\ req' = None /\ todo' = <<>> /\ offset' = 0
      /\ crashes' = crashes + 1 /\ crashes < MaxCrashes
      /\ torn' = (torn \/ (todo # <<>> /\ req # None))
      /\ UNCHANGED <<err, answer, rules, astray, used>>
  BY DEF Crash
<1>2. crashes' \in 0 .. MaxCrashes
  BY <1>1, StoreAssumption DEF IInv, TypeOK
<1>3. Used' = Used /\ At(Used)' = ByteAt(mem', Used)
  <2>1. Used' = Used
    BY <1>1 DEF Used
  <2>2. At(Used)' = ByteAt(mem', Used')
    BY Readings
  <2>. QED
    BY <2>1, <2>2
<1>4. /\ mem' \in [Cells -> Byte] /\ (~astray => Held(mem', rules))
      /\ ~used => \A c \in Cells \ Space : mem'[c] = Erased
      /\ mem'[Size] = Magic /\ ~torn' => ByteAt(mem', Used) = Erased
  <2>1. CASE pc # "write"
    <3>1. todo = <<>> /\ mem' = mem /\ torn' = torn
      <4>1. todo = <<>> /\ torn \in BOOLEAN
        BY <2>1 DEF IInv, Control, TypeOK
      <4>. QED
        BY <1>1, <4>1 DEF Crash
    <3>. QED
      BY <1>1, <2>1, <3>1, Basics DEF IInv, Around, Ended
  <2>2. CASE pc = "write"
    <3>1. todo # <<>>
      BY <2>2, WhereTo
    <3>2. PICK a \in Int : a = Head(todo).at /\ (~astray => Cell(a) \notin 0 .. (Used - 1))
      BY <2>2, WhereTo
    <3>3. mem' = mem \/ mem' = Put(mem, a, Erased)
      BY <3>2 DEF Crash, Put
    <3>4. /\ mem' \in [Cells -> Byte] /\ (~astray => Held(mem', rules))
          /\ ~used => \A c \in Cells \ Space : mem'[c] = Erased
          /\ mem'[Size] \in {mem[Size], Erased}
      <4>1. CASE mem' = mem
        BY <4>1, Basics DEF IInv, Around
      <4>2. CASE mem' = Put(mem, a, Erased)
        <5>1. /\ mem' \in [Cells -> Byte] /\ (~astray => Held(mem', rules))
              /\ ~used => \A c \in Cells \ Space : mem'[c] = Erased
          BY <3>2, <4>2, SpaceIs, OneByte
        <5>2. mem'[Size] \in {mem[Size], Erased}
          BY <4>2, SpaceIs, CellIs, Basics DEF Put
        <5>. QED
          BY <5>1, <5>2
      <4>. QED
        BY <3>3, <4>1, <4>2
    <3>5. mem'[Size] = Magic => torn'
      <4>1. CASE req # None
        BY <1>1, <3>1, <4>1
      <4>2. CASE req = None
        <5>1. mem[Size] # Magic
          BY <2>2, <4>2 DEF IInv, Starting
        <5>. QED
          BY <3>4, <5>1, SpaceIs
      <4>. QED
        BY <4>1, <4>2
    <3>. QED
      BY <3>4, <3>5
  <2>. QED
    BY <2>1, <2>2
<1>5. TypeOK'
  <2>1. torn' \in BOOLEAN
    BY <1>1 DEF IInv, TypeOK
  <2>. QED
    BY <1>1, <1>2, <1>4, <2>1, EmptySeq DEF IInv, TypeOK
<1>6. Control'
  BY <1>1 DEF Control
<1>7. Lying' /\ Around'
  BY <1>1, <1>4 DEF IInv, Lying, Around
<1>8. Started' /\ Ended'
  BY <1>1, <1>3, <1>4 DEF Started, Ended
<1>. QED
  BY <1>1, <1>5, <1>6, <1>7, <1>8
     DEF IInv, Walking, Creating, Deleting, Starting

-----------------------------------------------------------------------------
(* The theorems *)

LEMMA StutterInv == IInv /\ UNCHANGED vars => IInv'
<1>. SUFFICES ASSUME IInv, UNCHANGED vars PROVE IInv'
  OBVIOUS
<1>1. TypeOK' /\ Control' /\ Lying' /\ Around'
  BY DEF IInv, TypeOK, Control, Lying, Around, vars, history
<1>2. Walking' /\ Starting' /\ Started' /\ Ended'
  BY DEF IInv, Walking, Starting, Started, Ended, vars, history, Used, At, Cell
<1>3. Used' = Used /\ (\A o : At(o)' = At(o))
  BY DEF vars, history, At, Cell, Used
<1>4. Creating'
  <2>1. NewBytes' = NewBytes /\ HasSpace' = HasSpace
    BY DEF vars, history, NewBytes, Image, HasSpace
  <2>. QED
    BY <1>3, <2>1 DEF IInv, Creating, vars, history
<1>5. Deleting'
  <2>1. ASSUME NEW a PROVE Cell(a)' = Cell(a)
    BY DEF Cell
  <2>. QED
    BY <1>3, <2>1 DEF IInv, Deleting, vars, history
<1>. QED
  BY <1>1, <1>2, <1>4, <1>5 DEF IInv

THEOREM Invariant == Spec => []IInv
<1>1. IInv /\ [Next]_vars => IInv'
  BY AskInv, BootInv, ReadTypesInv, WalkInv, DeleteInv, RefuseInv, FindSpaceInv,
     GetInv, NoSpaceInv, PlaceInv, WriteInv, CrashInv, StutterInv
     DEF Next, Step
<1>. QED
  BY <1>1, InitInv, PTL DEF Spec

\* EEPROM cells hold bytes and offsets are never negative, for any requests,
\* whatever was in the EEPROM, and wherever power fails.
THEOREM TypeCorrect == Spec => []TypeOK
BY Invariant, PTL DEF IInv

\* Accepted rules stay in the EEPROM byte for byte until they are deleted
\* (onSet, createRule), wherever power fails, and whichever rule is deleted after
\* that, if nothing else is in the EEPROM; and if something is, as long as no
\* deletion has gone through a torn rule, out of the space and round to it.
THEOREM RulesIntact == Spec => []Intact
<1>1. IInv => Intact
  <2>1. SUFFICES ASSUME IInv, ~astray, NEW i \in DOMAIN rules
                 PROVE  /\ RuleAt(rules[i].at) = rules[i]
                        /\ rules[i].at = IF i = 1 THEN 0 ELSE EndOf(rules[i - 1])
    BY DEF Intact, IInv, Lying
  <2>2. rules[i] \in Rule /\ Bytes(mem, rules[i])
        /\ rules[i].at = IF i = 1 THEN 0 ELSE EndOf(rules[i - 1])
    BY <2>1, Basics DEF Ordered, Held
  <2>3. RuleIn(mem, rules[i].at) = rules[i]
    <3>1. mem \in [Cells -> Byte]
      BY <2>1, Basics
    <3>. QED
      BY <2>2, <3>1, RuleInBytes
  <2>. QED
    BY <2>2, <2>3, Readings
<1>. QED
  BY <1>1, Invariant, PTL

\* Unless power failed while a request's bytes were written, the byte behind
\* the rules marks empty space for findRule.
THEOREM SpaceFound == Spec => []Ended
BY Invariant, PTL DEF IInv

\* The magic byte, and with it the storage's contents at the next start, is lost
\* in one way only, for any requests and wherever power fails: behind a torn rule a
\* request deletes the rule whose id is that byte's value (findRule, onSet).
THEOREM NeverEmptied == Spec => MagicKept
<1>1. IInv /\ [Next]_vars =>
        (mem[Size] = Magic =>
           mem'[Size] = Magic \/ (torn /\ req.op = "delete" /\ req.id % Width = Magic))
  <2>. SUFFICES ASSUME IInv, [Next]_vars, mem[Size] = Magic, mem' # mem
                PROVE  \/ mem'[Size] = Magic
                       \/ torn /\ req.op = "delete" /\ req.id % Width = Magic
    OBVIOUS
  <2>1. \/ Write
        \/ Crash /\ todo # <<>> /\ mem' = [mem EXCEPT ![Cell(Head(todo).at)] = Erased]
    BY DEF Next, Step, Ask, Boot, ReadTypes, Walk, Delete, Refuse, FindSpace, Get,
           NoSpace, Place, Done, vars, Crash
  <2>2. pc = "write" /\ req # None
    BY <2>1 DEF IInv, Control, Starting, Write
  <2>3. PICK c : /\ c = Cell(Head(todo).at) /\ c \in Cells
                 /\ mem'[Size] = mem[Size] \/ c = Size
    <3>1. Cell(Head(todo).at) \in Cells
      BY <2>2, WhereTo, CellIs
    <3>. QED
      BY <2>1, <3>1, SpaceIs, Basics DEF Write
  <2>. QED
    BY <2>2, <2>3, WhereTo
<1>. QED
  BY <1>1, Invariant, PTL DEF Spec, MagicKept

-----------------------------------------------------------------------------
(* The storage implements the list of rules *)

Named(q) == {i \in DOMAIN rules : rules[i].id = q.id % Width}

\* No two rules have the same id.
Distinct == \A i, j \in DOMAIN rules : rules[i].id = rules[j].id => i = j

\* findRule has not passed the rule that is sought, and a rule that is being
\* created is not there already.
Unseen ==
  /\ pc = "find" => \A i \in Named(req) : rules[i].at >= offset
  /\ pc = "space" \/ (pc = "write" /\ req.op = "create") => Named(req) = {}

\* A request that is pending is not answered yet; one whose types are read asks for them.
Unanswered ==
  /\ Pending => err = FALSE /\ answer = None
  /\ pc = "types" => req.op = "get"

RInv == (~astray => Distinct /\ Unseen) /\ Unanswered

\* The rules' places.
LEMMA Places ==
  ASSUME IInv
  PROVE  /\ rules \in Seq(Rule) /\ offset \in Nat
         /\ Used \in Nat /\ Size \in Nat /\ Used < Size
         /\ \A i \in DOMAIN rules :
              /\ rules[i].at \in Nat /\ EndOf(rules[i]) \in Nat
              /\ rules[i].at < EndOf(rules[i]) /\ EndOf(rules[i]) <= Used
              /\ rules[i].at < Used
         /\ \A i, j \in DOMAIN rules : i < j => EndOf(rules[i]) <= rules[j].at
<1>1. /\ rules \in Seq(Rule) /\ offset \in Nat /\ Ordered(rules)
      /\ Used \in 0 .. (Size - 1) /\ Size \in Nat /\ Used = UsedBy(rules)
  BY Basics, SpaceIs
<1>2. Used \in Nat /\ Used < Size
  BY <1>1
<1>3. \A i \in DOMAIN rules : /\ rules[i].at \in Nat /\ EndOf(rules[i]) \in Nat
                              /\ rules[i].at + 3 <= EndOf(rules[i])
                              /\ EndOf(rules[i]) <= Used
  BY <1>1, UsedBound
<1>4. ASSUME NEW i \in DOMAIN rules
      PROVE  rules[i].at < EndOf(rules[i]) /\ rules[i].at < Used
  BY <1>2, <1>3
<1> QED
  BY <1>1, <1>2, <1>3, <1>4 DEF Ordered

\* A rule begins with its id, which is not that of empty space.
LEMMA RuleStarts ==
  ASSUME IInv, ~astray, NEW i \in DOMAIN rules
  PROVE  /\ At(rules[i].at) = rules[i].id /\ rules[i].id # Erased
         /\ rules[i].at \in Nat /\ rules[i].at < Used
<1>1. rules[i].at \in Nat /\ EndOf(rules[i]) \in Nat /\ rules[i].at + 3 <= EndOf(rules[i])
      /\ EndOf(rules[i]) <= Used
  BY Basics, UsedBound
<1>2. Bytes(mem, rules[i]) /\ rules[i].id # Erased
  BY Basics DEF Ordered, Held
<1>3. Used \in Nat
  BY Basics
<1> QED
  BY <1>1, <1>2, <1>3, Readings DEF Bytes

\* Where there is empty space all rules have been passed.
LEMMA AllPassed ==
  ASSUME IInv, ~astray, pc \in {"find", "space"}, At(offset) = Erased
  PROVE  offset >= Used /\ (~torn => offset = Used)
         /\ \A i \in DOMAIN rules : rules[i].at < offset
<1>1. \A i \in DOMAIN rules : offset # rules[i].at
  BY RuleStarts
<1>2. offset >= Used /\ (~torn => offset = Used)
  BY <1>1, Places DEF IInv, Walking
<1> QED
  BY <1>2, Places

LEMMA NoneNamed ==
  ASSUME IInv, RInv, ~astray, pc = "find", Missing
  PROVE  Named(req) = {}
<1>1. \A i \in DOMAIN rules : rules[i].at < offset
  BY AllPassed DEF Missing
<1>2. \A i \in Named(req) : rules[i].at >= offset
  BY DEF RInv, Unseen
<1> QED
  BY <1>1, <1>2, Places DEF Named

\* One step of findRule past a rule.
LEMMA UnseenOn ==
  ASSUME IInv, RInv, ~astray, pc = "find", ~Found, ~Missing, NEW i \in Named(req)
  PROVE  rules[i].at >= Past(offset)
<1>1. i \in DOMAIN rules /\ rules[i].at >= offset /\ rules[i].id = req.id % Width
  BY DEF RInv, Unseen, Named
<1>2. rules[i].at # offset
  BY <1>1, RuleStarts DEF Found, SoughtId
<1>3. rules[i].at < Used
  BY <1>1, RuleStarts
<1>4. PICK j \in DOMAIN rules : offset = rules[j].at
  BY <1>1, <1>3, Places DEF IInv, Walking
<1>5. Past(offset) = EndOf(rules[j])
  <2>0. Bytes(mem, rules[j])
    BY Basics DEF Held
  <2>1. At(offset + 1) = Len(rules[j].cond) /\ At(offset + 2) = Len(rules[j].act)
    BY <1>4, <2>0, Readings DEF Bytes
  <2> QED
    BY <1>4, <2>1 DEF Past, EndOf
<1>6. j < i
  <2>1. i < j => EndOf(rules[i]) <= rules[j].at
    BY <1>1, <1>4, Basics DEF Ordered
  <2>2. rules[i].at < EndOf(rules[i]) /\ EndOf(rules[i]) \in Nat
    BY <1>1, Places
  <2>3. i \in Nat /\ j \in Nat /\ i # j
    BY <1>1, <1>2, <1>4, Places
  <2> QED
    BY <1>1, <1>4, <2>1, <2>2, <2>3, RuleStarts
<1> QED
  BY <1>1, <1>4, <1>5, <1>6, Basics DEF Ordered

LEMMA RInvAtFirst == Init => RInv
BY DEF Init, RInv, Distinct, Unseen, Unanswered, Pending

LEMMA RInvKept ==
  ASSUME IInv, RInv, [Next]_vars
  PROVE  RInv'
<1>1. ASSUME rules' = rules, astray' = astray,
             pc' \in {"idle", "off"} \/ (pc' = "write" /\ req'.op # "create")
      PROVE  RInv'
  BY <1>1 DEF RInv, Distinct, Unseen, Unanswered, Pending
<1>2. ASSUME NEW b, NEW a, Done(b, a), rules' = rules, astray' = astray PROVE RInv'
  BY <1>1, <1>2 DEF Done
<1>3. CASE Ask
  <2>1. /\ rules' = rules /\ astray' = astray /\ pc' \in {"types", "find"} /\ offset' = 0
        /\ err' = FALSE /\ answer' = None /\ (pc' = "types" => req'.op = "get")
    BY <1>3 DEF Ask, history
  <2>2. ~astray => Unseen'
    BY <2>1, RuleStarts DEF Unseen, Named
  <2> QED
    BY <2>1, <2>2 DEF RInv, Distinct, Unanswered
<1>4. CASE ReadTypes
  <2>1. rules' = rules /\ astray' = astray /\ pc = "types" /\ offset = 0
    BY <1>4 DEF ReadTypes, history, IInv, Control
  <2>2. CASE Done(TRUE, None)
    BY <1>2, <2>1, <2>2
  <2>3. CASE pc' = "find" /\ UNCHANGED <<req, offset, err, answer>>
    <3>1. ~astray => Unseen'
      BY <2>1, <2>3, RuleStarts DEF Unseen, Named
    <3> QED
      BY <2>1, <2>3, <3>1 DEF RInv, Distinct, Unanswered, Pending
  <2> QED
    BY <1>4, <2>2, <2>3 DEF ReadTypes
<1>5. CASE Walk
  <2>1. /\ rules' = rules /\ astray' = astray
        /\ pc \in {"find", "space"} /\ ~Found /\ ~Missing
        /\ offset' = Folded(Past(offset)) /\ UNCHANGED <<pc, req, err, answer>>
    BY <1>5 DEF Walk, history
  <2>2. Named(req)' = Named(req)
    BY <2>1 DEF Named
  <2>3. ASSUME ~astray, pc = "find", NEW i \in Named(req)
        PROVE  rules[i].at >= offset'
    <3>1. PICK p \in Nat : p = Past(offset)
      BY <2>1, WalkOn
    <3>2. rules[i].at >= p
      BY <2>1, <2>3, <3>1, UnseenOn
    <3>3. rules[i].at \in Nat /\ rules[i].at < Used /\ Used < Size
          /\ Used \in Nat /\ Size \in Nat /\ Chip \in Nat
      BY <2>3, RuleStarts, Basics, SpaceIs, StoreAssumption DEF Named
    <3>4. p < Size + Chip
      BY <3>2, <3>3
    <3> QED
      BY <2>1, <3>1, <3>2, <3>4, FoldedOn
  <2>4. ~astray => Unseen'
    BY <2>1, <2>2, <2>3 DEF RInv, Unseen
  <2> QED
    BY <2>1, <2>4 DEF RInv, Distinct, Unanswered, Pending
<1>6. CASE Delete
  <2>1. /\ req.op = "delete" /\ pc' = "write" /\ req' = req
        /\ astray' = (astray \/ (Found /\ Wrong(offset)))
        /\ rules' = IF Missing THEN rules ELSE RulesBefore(offset)
    BY <1>6 DEF Delete
  <2>2. DOMAIN rules' \subseteq DOMAIN rules /\ \A i \in DOMAIN rules' : rules'[i] = rules[i]
    BY <2>1 DEF RulesBefore
  <2>3. ~astray => Distinct'
    BY <2>2 DEF RInv, Distinct
  <2> QED
    BY <2>1, <2>3 DEF RInv, Unseen, Unanswered, Pending
<1>7. CASE Refuse \/ NoSpace \/ Get
  BY <1>2, <1>7 DEF Refuse, NoSpace, Get, history
<1>8. CASE FindSpace
  <2>1. /\ rules' = rules /\ astray' = astray /\ pc = "find" /\ Missing /\ pc' = "space"
        /\ UNCHANGED <<req, err, answer>>
    BY <1>8 DEF FindSpace, history
  <2>2. ~astray => Named(req)' = {}
    BY <2>1, NoneNamed DEF Named
  <2> QED
    BY <2>1, <2>2 DEF RInv, Distinct, Unseen, Unanswered, Pending
<1>9. CASE Place
  <2>1. /\ rules' = rules /\ astray' = astray /\ pc = "space" /\ pc' = "write"
        /\ UNCHANGED <<req, err, answer>>
    BY <1>9 DEF Place, history
  <2> QED
    BY <2>1 DEF RInv, Distinct, Unseen, Unanswered, Pending, Named
<1>10. CASE Write
  <2>1. pc = "write" /\ UNCHANGED <<err, answer, astray>>
    BY <1>10 DEF Write
  <2>2. CASE Tail(todo) # <<>>
    <3>1. UNCHANGED <<pc, req, offset, rules>>
      BY <1>10, <2>2 DEF Write
    <3> QED
      BY <2>1, <3>1 DEF RInv, Distinct, Unseen, Unanswered, Pending, Named
  <2>3. CASE Tail(todo) = <<>>
    <3>1. pc' = "idle" /\ rules' = Accepted
      BY <1>10, <2>3 DEF Write
    <3>2. CASE req.op = "create" /\ offset = Used
      <4> DEFINE r == [at |-> offset, id |-> req.id % Width,
                       cond |-> req.cond, act |-> req.act]
      <4>1. rules' = Append(rules, r) /\ r.id = req.id % Width
        BY <3>1, <3>2 DEF Accepted
      <4>2. ~astray => \A i \in DOMAIN rules : rules[i].id # r.id
        BY <2>1, <3>2, <4>1 DEF RInv, Unseen, Named
      <4> HIDE DEF r
      <4>3. /\ DOMAIN rules' = DOMAIN rules \cup {Len(rules) + 1}
            /\ rules'[Len(rules) + 1] = r
            /\ \A i \in DOMAIN rules : rules'[i] = rules[i]
        BY <4>1, Places
      <4>4. ~astray => Distinct'
        BY <4>2, <4>3 DEF RInv, Distinct
      <4> QED
        BY <2>1, <3>1, <4>4 DEF RInv, Unseen, Unanswered, Pending
    <3>3. CASE ~(req.op = "create" /\ offset = Used)
      BY <1>1, <2>1, <3>1, <3>3 DEF Accepted
    <3> QED
      BY <3>2, <3>3
  <2> QED
    BY <2>2, <2>3
<1>11. CASE Crash
  BY <1>1, <1>11 DEF Crash
<1>12. CASE Boot
  <2>1. req' = None /\ pc' \in {"idle", "write"}
        /\ (UNCHANGED <<rules, astray>> \/ rules' = <<>>)
    BY <1>12 DEF Boot, IInv, Control
  <2>2. CASE UNCHANGED <<rules, astray>>
    BY <1>1, <2>1, <2>2, RequestOps
  <2>3. CASE rules' = <<>>
    BY <2>1, <2>3, RequestOps DEF RInv, Distinct, Unseen, Unanswered, Pending
  <2> QED
    BY <2>1, <2>2, <2>3
<1>13. CASE UNCHANGED vars
  BY <1>13 DEF vars, history, RInv, Distinct, Unseen, Unanswered, Pending, Named
<1> QED
  BY <1>3, <1>4, <1>5, <1>6, <1>7, <1>8, <1>9, <1>10, <1>11, <1>12, <1>13 DEF Next, Step

\* The request as the list of rules sees it.
Seen == IF Pending THEN req ELSE None

\* What the list of rules is made of, said of the storage.
LEMMA SeenAs ==
  /\ RL!None = None /\ RL!Requests = Requests /\ RL!Parts = Parts
  /\ RL!vars = <<rules, Seen, err, answer>>
  /\ Pending => /\ RL!Named = Named(req)
                /\ RL!Fits <=> Used + 4 + Len(req.cond) + Len(req.act) <= Size
  /\ RL!Used = Used
<1>1. RL!None = None /\ RL!Parts = Parts
  BY DEF RL!None, None, RL!Parts, Parts
<1>2. RL!Requests = Requests
  BY <1>1 DEF RL!Requests, Requests
<1>3. RL!vars = <<rules, Seen, err, answer>>
  BY DEF RL!vars, Seen
<1>4. RL!Used = Used
  BY DEF RL!Used, Used, RL!EndOf, EndOf
<1>5. Pending => /\ RL!Named = Named(req)
                 /\ RL!Fits <=> Used + 4 + Len(req.cond) + Len(req.act) <= Size
  BY <1>4 DEF RL!Named, Named, RL!Fits
<1> QED
  BY <1>1, <1>2, <1>3, <1>4, <1>5

\* The steps of the list of rules that each end of a handler is.
LEMMA EndsRefused ==
  ASSUME Pending, ~Pending', rules' = rules, err' = TRUE, answer' = None,
         \/ /\ req.op = "create"
            /\ Named(req) # {} \/ ~(Used + 4 + Len(req.cond) + Len(req.act) <= Size)
         \/ req.op \in {"delete", "get"} /\ Named(req) = {}
         \/ req.op = "get" /\ "other" \in req.want
         \/ req.op = "update"
  PROVE  RL!Next
<1>1. RL!Done(rules, TRUE, None)
  BY DEF RL!Done, RL!None, None
<1>2. RL!Refuse
  BY <1>1, SeenAs DEF RL!Refuse, RL!None, None
<1> QED
  BY <1>2 DEF RL!Next

LEMMA EndsCreated ==
  ASSUME Pending, ~Pending', err' = FALSE, answer' = None, req.op = "create",
         Named(req) = {}, Used + 4 + Len(req.cond) + Len(req.act) <= Size,
         rules' = Append(rules, [at |-> Used, id |-> req.id % Width,
                                 cond |-> req.cond, act |-> req.act])
  PROVE  RL!Next
<1>1. RL!Create
  BY SeenAs DEF RL!Create, RL!Done, RL!None, None
<1> QED
  BY <1>1 DEF RL!Next

LEMMA OnlyNamed ==
  ASSUME RInv, ~astray, Pending, NEW i \in Named(req)
  PROVE  RL!Place = i
<1>1. \A j \in Named(req) : j = i
  BY DEF RInv, Distinct, Named
<1>2. RL!Named = {i}
  BY <1>1, SeenAs
<1> QED
  BY <1>2 DEF RL!Place

LEMMA EndsDeleted ==
  ASSUME RInv, ~astray, Pending, ~Pending', err' = FALSE, answer' = None, req.op = "delete",
         NEW i \in Named(req), rules' = SubSeq(rules, 1, i - 1)
  PROVE  RL!Next
<1>1. RL!Delete
  BY SeenAs, OnlyNamed DEF RL!Delete, RL!Done, RL!None, None
<1> QED
  BY <1>1 DEF RL!Next

LEMMA EndsShown ==
  ASSUME RInv, ~astray, Pending, ~Pending', rules' = rules, err' = FALSE, req.op = "get",
         NEW i \in Named(req), NEW shown \in SUBSET Parts,
         answer' = [op |-> "rule", id |-> req.id, text |-> [p \in shown |-> rules[i][p]]]
  PROVE  RL!Next
<1>1. RL!Get
  BY SeenAs, OnlyNamed DEF RL!Get, RL!Done, RL!None, None
<1> QED
  BY <1>1 DEF RL!Next

LEMMA Asked ==
  ASSUME ~Pending, Pending', req' \in Requests, rules' = rules, err' = FALSE, answer' = None
  PROVE  RL!Next
<1>1. RL!Ask
  BY SeenAs DEF RL!Ask, RL!None, None
<1> QED
  BY <1>1 DEF RL!Next

LEMMA NothingSeen ==
  ASSUME UNCHANGED <<rules, err, answer>>, Seen' = Seen
  PROVE  RL!vars' = RL!vars
BY DEF RL!vars, Seen

\* What is found is the rule that is named.
LEMMA FoundNamed ==
  ASSUME IInv, pc = "find", Found, ~torn, ~astray, req.id % Width # Erased
  PROVE  \E i \in Named(req) : offset = rules[i].at
<1>1. At(offset) = req.id % Width
  BY DEF Found, SoughtId
<1>2. offset # Used
  BY <1>1 DEF IInv, Ended
<1>3. PICK i \in DOMAIN rules : offset = rules[i].at
  BY <1>2, Basics DEF IInv, Walking
<1> QED
  BY <1>1, <1>3, RuleStarts DEF Named

\* The rules before one are the first few.
LEMMA RulesBeforeOne ==
  ASSUME IInv, NEW i \in DOMAIN rules
  PROVE  RulesBefore(rules[i].at) = SubSeq(rules, 1, i - 1)
<1>1. \A j \in DOMAIN rules : rules[j].at < rules[i].at <=> j < i
  <2> TAKE j \in DOMAIN rules
  <2>1. /\ j < i => EndOf(rules[j]) <= rules[i].at
        /\ i < j => EndOf(rules[i]) <= rules[j].at
    BY Basics DEF Ordered
  <2>2. /\ rules[j].at \in Nat /\ EndOf(rules[j]) \in Nat /\ rules[j].at < EndOf(rules[j])
        /\ rules[i].at \in Nat /\ EndOf(rules[i]) \in Nat /\ rules[i].at < EndOf(rules[i])
    BY Places
  <2>3. i \in Nat /\ j \in Nat
    BY Places
  <2> QED
    BY <2>1, <2>2, <2>3
<1>2. {j \in DOMAIN rules : rules[j].at < rules[i].at} = 1 .. (i - 1)
  BY <1>1, Places
<1>3. rules \in Seq(Rule)
  BY Places
<1> QED
  BY <1>2, <1>3 DEF RulesBefore

LEMMA NextRules ==
  ASSUME IInv, RInv, [Next]_vars, crashes' = crashes, ~torn, ~NamesSpace, ~Empties
  PROVE  [RL!Next]_(RL!vars)
<1>a. ~astray
  BY Basics
<1>0. ASSUME UNCHANGED <<rules, err, answer>>, req' = req, Pending' = Pending
      PROVE  [RL!Next]_(RL!vars)
  BY <1>0, NothingSeen DEF Seen
<1>p. pc \in {"types", "find", "space"} =>
        Pending /\ req \in Requests /\ req.id % Width # Erased
  <2>1. Pending /\ req \in Requests => req # None
    BY RequestOps
  <2> QED
    BY <2>1, Looking DEF Pending, NamesSpace
<1>d. ASSUME NEW b, NEW a, Done(b, a) PROVE err' = b /\ answer' = a /\ ~Pending'
  BY <1>d DEF Done, Pending
<1>1. CASE Ask
  <2>1. /\ rules' = rules /\ req' \in Requests /\ pc' \in {"types", "find"} /\ pc = "idle"
        /\ err' = FALSE /\ answer' = None
    BY <1>1 DEF Ask, history
  <2> QED
    BY <2>1, Asked DEF Pending
<1>2. CASE ReadTypes
  <2>1. rules' = rules /\ pc = "types" /\ req.op = "get"
    BY <1>2 DEF ReadTypes, history, RInv, Unanswered
  <2>2. PICK seen \in SUBSET req.want :
          IF "other" \in seen THEN Done(TRUE, None)
          ELSE pc' = "find" /\ UNCHANGED <<mem, req, offset, todo, err, answer, crashes>>
    BY <1>2 DEF ReadTypes
  <2>3. CASE "other" \in seen
    BY <1>d, <1>p, <2>1, <2>2, <2>3, EndsRefused
  <2>4. CASE "other" \notin seen
    BY <1>0, <2>1, <2>2, <2>4 DEF Pending
  <2> QED
    BY <2>3, <2>4
<1>3. CASE Walk
  BY <1>0, <1>3 DEF Walk, history, Pending
<1>4. CASE Delete
  <2>1. /\ pc = "find" /\ req.op = "delete" /\ req' = req /\ ~Pending' /\ Pending
        /\ rules' = IF Missing THEN rules ELSE RulesBefore(offset)
        /\ err' = Missing /\ answer' = None
    BY <1>4, <1>p DEF Delete, Pending, RInv, Unanswered
  <2>2. CASE Missing
    <3>1. err' = TRUE
      BY <2>1, <2>2
    <3> QED
      BY <1>a, <2>1, <2>2, <3>1, NoneNamed, EndsRefused
  <2>3. CASE ~Missing
    <3>1. err' = FALSE
      BY <2>1, <2>3
    <3>2. Found
      BY <1>4, <2>3 DEF Delete
    <3>3. PICK i \in Named(req) : offset = rules[i].at
      BY <1>a, <1>p, <2>1, <3>2, FoundNamed
    <3>4. rules' = SubSeq(rules, 1, i - 1)
      BY <2>1, <2>3, <3>3, RulesBeforeOne DEF Named
    <3> QED
      BY <1>a, <2>1, <3>1, <3>4, EndsDeleted
  <2> QED
    BY <2>2, <2>3
<1>5. CASE Refuse
  <2>1. /\ pc = "find" /\ Done(TRUE, None) /\ rules' = rules
        /\ \/ req.op = "update"
           \/ req.op = "create" /\ Found
           \/ req.op = "get" /\ Missing
    BY <1>5 DEF Refuse, history
  <2>2. Found => Named(req) # {}
    BY <1>a, <1>p, <2>1, FoundNamed
  <2>3. Missing => Named(req) = {}
    BY <1>a, <2>1, NoneNamed
  <2> QED
    BY <1>d, <1>p, <2>1, <2>2, <2>3, EndsRefused
<1>6. CASE FindSpace \/ Place
  <2>1. Place => req.op = "create"
    BY DEF Place, IInv, Control, Creations
  <2> QED
    BY <1>0, <1>6, <2>1 DEF FindSpace, Place, history, Pending
<1>7. CASE Get
  <2>1. /\ pc = "find" /\ Found /\ req.op = "get" /\ rules' = rules
    BY <1>7 DEF Get, history
  <2>2. PICK shown \in SUBSET Parts :
          Done(FALSE, [op |-> "rule", id |-> req.id,
                       text |-> [p \in shown |-> RuleAt(offset)[p]]])
    BY <1>7 DEF Get
  <2>3. PICK i \in Named(req) : offset = rules[i].at
    BY <1>a, <1>p, <2>1, FoundNamed
  <2>4. RuleAt(offset) = rules[i]
    <3>1. rules[i] \in Rule /\ Bytes(mem, rules[i]) /\ mem \in [Cells -> Byte]
      BY <1>a, Basics DEF Named, Held
    <3> QED
      BY <2>3, <3>1, RuleInBytes, Readings
  <2>5. answer' = [op |-> "rule", id |-> req.id, text |-> [p \in shown |-> rules[i][p]]]
    BY <1>d, <2>2, <2>4
  <2> QED
    BY <1>a, <1>d, <1>p, <2>1, <2>2, <2>5, EndsShown
<1>8. CASE NoSpace
  <2>1. pc = "space" /\ Done(TRUE, None) /\ rules' = rules /\ ~HasSpace /\ Found
    BY <1>8 DEF NoSpace, history
  <2>2. req.op = "create"
    BY <2>1 DEF IInv, Control, Creations
  <2>3. offset = Used
    BY <1>a, <2>1, AllPassed DEF Found, SoughtId
  <2>4. ~(Used + 4 + Len(req.cond) + Len(req.act) <= Size)
    BY <2>1, <2>3 DEF HasSpace
  <2> QED
    BY <1>d, <1>p, <2>1, <2>2, <2>4, EndsRefused
<1>9. CASE Write
  <2>1. pc = "write" /\ UNCHANGED <<err, answer>>
    BY <1>9 DEF Write
  <2>2. CASE Tail(todo) # <<>>
    BY <1>0, <1>9, <2>1, <2>2 DEF Write, Pending
  <2>3. CASE Tail(todo) = <<>>
    <3>1. pc' = "idle" /\ rules' = Accepted
      BY <1>9, <2>3 DEF Write
    <3>2. CASE req.op = "create"
      <4>1. req \in Creations
        BY <2>1, <3>2, RequestOps DEF IInv, Control
      <4>2. offset = Used /\ HasSpace
        BY <2>1, <4>1 DEF IInv, Creating
      <4>3. rules' = Append(rules, [at |-> Used, id |-> req.id % Width,
                                    cond |-> req.cond, act |-> req.act])
        BY <3>1, <3>2, <4>2 DEF Accepted
      <4>4. Named(req) = {} /\ Pending /\ ~Pending' /\ err' = FALSE /\ answer' = None
        BY <1>a, <2>1, <3>1, <3>2 DEF RInv, Unseen, Unanswered, Pending
      <4>5. Used + 4 + Len(req.cond) + Len(req.act) <= Size
        BY <4>2 DEF HasSpace
      <4> QED
        BY <3>2, <4>3, <4>4, <4>5, EndsCreated
    <3>3. CASE req.op # "create"
      <4>1. ~Pending /\ ~Pending' /\ rules' = rules
        BY <2>1, <3>1, <3>3 DEF Pending, Accepted
      <4> QED
        BY <2>1, <4>1, NothingSeen DEF Seen
    <3> QED
      BY <3>2, <3>3
  <2> QED
    BY <2>2, <2>3
<1>10. CASE Boot
  <2>1. /\ pc = "off" /\ pc' \in {"idle", "write"} /\ req' = None
        /\ UNCHANGED <<rules, err, answer>>
    BY <1>10 DEF Boot, Empties, IInv, Control
  <2>2. ~Pending /\ ~Pending'
    BY <2>1, RequestOps DEF Pending
  <2> QED
    BY <2>1, <2>2, NothingSeen DEF Seen
<1>11. CASE Crash
  <2>1. crashes \in Nat /\ crashes' = crashes + 1
    BY <1>11, StoreAssumption DEF Crash, IInv, TypeOK
  <2> QED
    BY <2>1
<1>12. CASE UNCHANGED vars
  BY <1>0, <1>12 DEF vars, history, Pending
<1> QED
  BY <1>1, <1>2, <1>3, <1>4, <1>5, <1>6, <1>7, <1>8, <1>9, <1>10, <1>11, <1>12 DEF Next, Step

\* Between failures of power, until one leaves a torn rule, the storage is the list
\* of rules that a client of the service may think it is (onSet, onRequest,
\* createRule, RuleService.h): each step of the walks and each byte is a step of the
\* list or none, but for requests that name empty space and for a start that finds
\* no magic byte.
THEOREM RulesImplemented == Spec => ImplementsRules
<1>1. Init => RL!Init
  BY DEF Init, RL!Init, RL!None, None, Pending
<1>2. IInv /\ RInv /\ [Next]_vars => RInv'
  BY RInvKept
<1>3. IInv /\ RInv /\ [Next]_vars =>
        (crashes' = crashes /\ ~torn /\ ~NamesSpace /\ ~Empties
           => [RL!Next]_(RL!vars))
  BY NextRules
<1> QED
  BY <1>1, <1>2, <1>3, RInvAtFirst, Invariant, PTL DEF Spec, ImplementsRules
=============================================================================
