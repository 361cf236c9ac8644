----------------------------- MODULE MeshProofs -----------------------------
(***************************************************************************)
(* For any nodes, requests and losses and tables of every size: whatever   *)
(* is added and deleted, in whatever order, the searches of a table agree  *)
(* on the route to a destination; whatever requests, responses and         *)
(* failures cross, routes can be used, requests walk simple paths and no   *)
(* application gets more than was sent to it.                              *)
(***************************************************************************)
EXTENDS Mesh, FiniteSetTheorems, SequenceTheorems, WellFoundedInduction, TLAPS

-----------------------------------------------------------------------------
(* The routing table *)

\* Natural numbers have a least.
LEMMA LeastOf ==
  ASSUME NEW S, S # {}, S \subseteq Nat
  PROVE  \E x \in S : \A y \in S : x <= y
<1>1. PICK x \in S : \A y \in S : <<y, x>> \notin OpToRel(<, Nat)
  BY WFMin, NatLessThanWellFounded, Zenon
<1>2. \A y \in S : ~(y < x)
  BY <1>1, Zenon DEF OpToRel
<1> QED
  BY <1>2

\* A search from the table's beginning that finds anything finds the first.
LEMMA LeastSlot ==
  ASSUME NEW S \in SUBSET Slots, S # {}
  PROVE  Min(S) \in S /\ \A y \in S : Min(S) <= y
<1>1. S \subseteq Nat
  BY TableAssumption DEF Slots
<1>2. \E x \in S : \A y \in S : x <= y
  BY <1>1, LeastOf
<1> QED
  BY <1>2 DEF Min

\* What a table holds, entry by entry.
LEMMA EntryFields ==
  ASSUME NEW t \in Tables, NEW i \in Slots
  PROVE  /\ t[i] \in Entries
         /\ [t[i] EXCEPT !.valid = FALSE] \in Entries
         /\ [t[i] EXCEPT !.valid = FALSE].dest = t[i].dest
         /\ ~[t[i] EXCEPT !.valid = FALSE].valid
<1>1. t[i] \in Entries
  BY DEF Tables
<1> QED
  BY <1>1 DEF Entries

\* deleteRoute keeps the entries in their order (RHRouter.cpp:97-103): of two that
\* are about the same destination the second is still not valid.
LEMMA DeleteRouteKeeps ==
  ASSUME NEW t \in Tables, FirstIsValid(t), NEW k \in Slots
  PROVE  DeleteRoute(t, k) \in Tables /\ FirstIsValid(DeleteRoute(t, k))
<1> DEFINE r == DeleteRoute(t, k)
           from(i) == IF i < k THEN i ELSE i + 1
<1>1. r \in Tables
  <2>1. \A i \in Slots : i # Size => i + 1 \in Slots
    BY TableAssumption DEF Slots
  <2>2. \A i \in Slots : (IF i = Size THEN [t[i] EXCEPT !.valid = FALSE]
                           ELSE IF i < k THEN t[i] ELSE t[i + 1]) \in Entries
    BY <2>1, EntryFields
  <2> QED
    BY <2>2 DEF DeleteRoute, Tables
<1>2. ASSUME NEW i \in Slots, NEW j \in Slots, i < j, r[i].dest = r[j].dest
      PROVE  ~r[j].valid
  <2>1. CASE j = Size
    BY <2>1, EntryFields DEF DeleteRoute
  <2>2. CASE j # Size
    <3>1. /\ from(i) \in Slots /\ from(j) \in Slots /\ from(i) < from(j)
          /\ i \in Nat /\ j \in Nat /\ i # Size
      BY <2>2, <1>2, TableAssumption DEF Slots
    <3>2. r[i] = t[from(i)] /\ r[j] = t[from(j)]
      BY <3>1, <2>2 DEF DeleteRoute
    <3> QED
      BY <3>1, <3>2, <1>2 DEF FirstIsValid
  <2> QED
    BY <2>1, <2>2
<1> QED
  BY <1>1, <1>2 DEF FirstIsValid

\* deleteRouteTo removes the first entry about a destination, valid or not
\* (RHRouter.cpp:124-136), and that is the route getRouteTo would take, if any.
THEOREM DeleteRouteToKeeps ==
  ASSUME NEW t \in Tables, FirstIsValid(t), NEW d \in Addresses \cup {NoAddress}
  PROVE  /\ DeleteRouteTo(t, d) \in Tables
         /\ FirstIsValid(DeleteRouteTo(t, d))
         /\ ~HasRoute(DeleteRouteTo(t, d), d)
<1>1. CASE About(t, d) = {}
  BY <1>1 DEF DeleteRouteTo, HasRoute, ValidTo
<1>2. CASE About(t, d) # {}
  <2> DEFINE k == Min(About(t, d))
             r == DeleteRoute(t, k)
  <2>1. k \in Slots /\ t[k].dest = d /\ \A y \in About(t, d) : k <= y
    BY <1>2, LeastSlot DEF About
  <2>2. DeleteRouteTo(t, d) = r
    BY <1>2 DEF DeleteRouteTo
  <2>3. r \in Tables /\ FirstIsValid(r)
    BY <2>1, DeleteRouteKeeps
  <2>4. ASSUME NEW i \in Slots, r[i].dest = d
        PROVE  ~r[i].valid
    <3>1. CASE i = Size
      BY <3>1, EntryFields DEF DeleteRoute
    <3>2. CASE i # Size /\ i < k
      <4>1. r[i] = t[i]
        BY <3>2 DEF DeleteRoute
      <4>2. i \in About(t, d)
        BY <4>1, <2>4 DEF About
      <4> QED
        BY <4>2, <3>2, <2>1, TableAssumption DEF Slots
    <3>3. CASE i # Size /\ ~(i < k)
      <4>1. r[i] = t[i + 1] /\ i + 1 \in Slots /\ k < i + 1
        BY <3>3, <2>1, TableAssumption DEF DeleteRoute, Slots
      <4> QED
        BY <4>1, <2>1, <2>4 DEF FirstIsValid
    <3> QED
      BY <3>1, <3>2, <3>3
  <2> QED
    BY <2>2, <2>3, <2>4 DEF HasRoute, ValidTo, About, Invalid
<1> QED
  BY <1>1, <1>2

\* addRouteTo replaces the first entry about the destination, else fills a free
\* one, else retires the oldest (RHRouter.cpp:44-84): afterwards there is one
\* route to it, and it is the new one.
THEOREM AddRouteToKeeps ==
  ASSUME NEW t \in Tables, FirstIsValid(t), NEW d \in Addresses \cup {NoAddress}, NEW n \in Addresses
  PROVE  /\ AddRouteTo(t, d, n) \in Tables
         /\ FirstIsValid(AddRouteTo(t, d, n))
         /\ HasRoute(AddRouteTo(t, d, n), d) /\ NextHop(AddRouteTo(t, d, n), d) = n
<1> DEFINE e == [dest |-> d, next |-> n, valid |-> TRUE]
           r == DeleteRoute(t, 1)
           u == AddRouteTo(t, d, n)
<1>e. e \in Entries
  BY DEF Entries
<1>1. \E k \in Slots, v \in Tables :
        /\ u = [v EXCEPT ![k] = e] /\ FirstIsValid(v)
        /\ \A i \in Slots \ {k} : v[i].dest = d => ~v[i].valid
        /\ \A i \in Slots : v[i].dest = d => k <= i
  <2>1. CASE About(t, d) # {}
    <3>1. Min(About(t, d)) \in About(t, d) /\ \A y \in About(t, d) : Min(About(t, d)) <= y
      BY <2>1, LeastSlot DEF About
    <3> DEFINE m == Min(About(t, d))
    <3>2. m \in Slots /\ t[m].dest = d
      BY <3>1 DEF About
    <3>3. u = [t EXCEPT ![m] = e]
      BY <2>1 DEF AddRouteTo, Updated
    <3>4. \A i \in Slots : t[i].dest = d => m <= i
      BY <3>1 DEF About
    <3>5. \A i \in Slots \ {m} : t[i].dest = d => m < i
      BY <3>4, <3>2, TableAssumption DEF Slots
    <3>6. \A i \in Slots \ {m} : t[i].dest = d => ~t[i].valid
      BY <3>5, <3>2 DEF FirstIsValid
    <3> HIDE DEF m, u
    <3> QED
      BY <3>2, <3>3, <3>4, <3>6
  <2>2. CASE About(t, d) = {} /\ Invalid(t) # {}
    <3>1. Min(Invalid(t)) \in Slots
      BY <2>2, LeastSlot DEF Invalid
    <3>2. u = [t EXCEPT ![Min(Invalid(t))] = e]
      BY <2>2 DEF AddRouteTo, Updated
    <3> QED
      BY <2>2, <3>1, <3>2 DEF About
  <2>3. CASE About(t, d) = {} /\ Invalid(t) = {}
    <3>1. 1 \in Slots /\ Size \in Slots
      BY TableAssumption DEF Slots
    <3>2. r \in Tables /\ FirstIsValid(r)
      BY <3>1, DeleteRouteKeeps
    <3>3. Invalid(r) = {Size}
      <4>1. \A i \in Slots : t[i].valid
        BY <2>3 DEF Invalid
      <4>2. \A i \in Slots : i # Size => i + 1 \in Slots /\ r[i] = t[i + 1]
        BY TableAssumption DEF DeleteRoute, Slots
      <4>3. ~r[Size].valid
        BY <3>1, EntryFields DEF DeleteRoute
      <4> QED
        BY <3>1, <4>1, <4>2, <4>3 DEF Invalid
    <3>4. u = [i \in Slots |-> IF i \in Invalid(r) THEN e ELSE r[i]]
      BY <2>3 DEF AddRouteTo, Updated
    <3>5. u = [r EXCEPT ![Size] = e]
      BY <3>2, <3>3, <3>4 DEF Tables
    <3>6. \A i \in Slots : t[i].dest # d
      BY <2>3 DEF About
    <3>7. \A i \in Slots : r[i].dest # d
      <4>1. \A i \in Slots : i # Size => i + 1 \in Slots /\ r[i] = t[i + 1]
        BY TableAssumption DEF DeleteRoute, Slots
      <4>2. r[Size].dest = t[Size].dest
        BY <3>1, EntryFields DEF DeleteRoute
      <4> QED
        BY <3>1, <3>6, <4>1, <4>2
    <3> QED
      BY <3>1, <3>2, <3>5, <3>7
  <2> QED
    BY <2>1, <2>2, <2>3
<1>2. PICK k \in Slots, v \in Tables :
        /\ u = [v EXCEPT ![k] = e] /\ FirstIsValid(v)
        /\ \A i \in Slots \ {k} : v[i].dest = d => ~v[i].valid
        /\ \A i \in Slots : v[i].dest = d => k <= i
  BY <1>1
<1>3. u \in Tables
  BY <1>2, <1>e DEF Tables
<1>4. /\ u[k] = e
      /\ \A i \in Slots \ {k} : u[i] = v[i]
  BY <1>2 DEF Tables
<1>5. FirstIsValid(u)
  <2> SUFFICES ASSUME NEW i \in Slots, NEW j \in Slots, i < j, u[i].dest = u[j].dest
               PROVE  ~u[j].valid
    BY DEF FirstIsValid
  <2>1. CASE i = k
    BY <2>1, <1>4, <1>2, TableAssumption DEF Slots
  <2>2. CASE j = k
    BY <2>2, <1>4, <1>2, TableAssumption DEF Slots
  <2>3. CASE i # k /\ j # k
    BY <2>3, <1>4, <1>2 DEF FirstIsValid
  <2> QED
    BY <2>1, <2>2, <2>3
<1>6. ValidTo(u, d) = {k}
  BY <1>2, <1>4 DEF ValidTo, About, Invalid
<1>7. Min({k}) = k
  BY LeastSlot
<1> QED
  BY <1>3, <1>4, <1>5, <1>6, <1>7 DEF HasRoute, NextHop

-----------------------------------------------------------------------------
(* Adding routes one after the other *)

\* What addRouteTo keeps, the loop over a list of nodes keeps: the loop is a
\* function of the first entries of the list, of which there is one by recursion
\* on their number.
LEMMA AddAllKeeps ==
  ASSUME NEW S, NEW D, NEW t \in S, NEW ds \in Seq(D), NEW hop,
         \A u \in S : \A d \in D : AddRouteTo(u, d, hop) \in S
  PROVE  AddAll(t, ds, hop) \in S
<1> DEFINE n == Len(ds)
           step(f, s) == IF s = {} THEN t ELSE AddRouteTo(f[s \ {Max(s)}], ds[Max(s)], hop)
           fun(f, k) == f = [s \in SUBSET (1 .. k) |-> step(f, s)]
           Missing == {k \in 0 .. n : ~\E f : fun(f, k)}
           iter == CHOOSE f : fun(f, n)
           Wrong == {k \in 0 .. n : iter[1 .. k] \notin S}
<1>n. n \in Nat /\ DOMAIN ds = 1 .. n /\ \A k \in 1 .. n : ds[k] \in D
  OBVIOUS
<1>max. \A k \in Nat \ {0} : \A s \in SUBSET (1 .. k) : k \in s => Max(s) = k
  <2> SUFFICES ASSUME NEW k \in Nat \ {0}, NEW s \in SUBSET (1 .. k), k \in s
               PROVE  Max(s) = k
    OBVIOUS
  <2>1. \A y \in s : y \in Nat /\ k >= y
    OBVIOUS
  <2>2. \A x \in s : (\A y \in s : x >= y) => x = k
    BY <2>1
  <2> QED
    BY <2>1, <2>2 DEF Max
<1>1. \E f : fun(f, 0)
  <2> DEFINE f == [s \in SUBSET (1 .. 0) |-> t]
  <2>1. \A s \in SUBSET (1 .. 0) : s = {}
    OBVIOUS
  <2>2. f = [s \in SUBSET (1 .. 0) |-> step(f, s)]
    BY <2>1
  <2> QED
    BY <2>2
<1>2. ASSUME NEW k \in 1 .. n, NEW f, fun(f, k - 1)
      PROVE  \E g : fun(g, k)
  <2> DEFINE g == [s \in SUBSET (1 .. k) |->
                     IF k \in s THEN AddRouteTo(f[s \ {k}], ds[k], hop) ELSE f[s]]
  <2>k. k \in Nat \ {0}
    BY <1>n
  <2>1. ASSUME NEW s \in SUBSET (1 .. k) PROVE g[s] = step(g, s)
    <3>1. CASE k \in s
      <4>1. Max(s) = k /\ s # {} /\ s \ {k} \in SUBSET (1 .. k) /\ k \notin s \ {k}
        BY <3>1, <1>max, <2>k
      <4>2. g[s \ {k}] = f[s \ {k}]
        BY <4>1
      <4>3. g[s] = AddRouteTo(f[s \ {k}], ds[k], hop)
        BY <3>1
      <4>4. step(g, s) = AddRouteTo(g[s \ {k}], ds[k], hop)
        BY <4>1
      <4> QED
        BY <4>2, <4>3, <4>4
    <3>2. CASE k \notin s
      <4>1. s \in SUBSET (1 .. (k - 1))
        BY <3>2, <2>k
      <4>2. f[s] = step(f, s) /\ g[s] = f[s]
        BY <4>1, <3>2, <1>2
      <4>3. CASE s = {}
        BY <4>2, <4>3
      <4>4. CASE s # {}
        <5>1. s \ {Max(s)} \in SUBSET (1 .. k) /\ k \notin s \ {Max(s)}
          BY <3>2
        <5>2. g[s \ {Max(s)}] = f[s \ {Max(s)}]
          BY <5>1
        <5> QED
          BY <4>2, <4>4, <5>2
      <4> QED
        BY <4>3, <4>4
    <3> QED
      BY <3>1, <3>2
  <2>2. g = [s \in SUBSET (1 .. k) |-> step(g, s)]
    <3> HIDE DEF step
    <3> QED
      BY <2>1
  <2> QED
    BY <2>2
<1> HIDE DEF step, fun
<1>3. Missing = {}
  <2> SUFFICES ASSUME Missing # {} PROVE FALSE
    OBVIOUS
  <2>0. Missing \subseteq Nat
    BY <1>n
  <2>1. PICK k \in Missing : \A j \in Missing : k <= j
    <3> HIDE DEF Missing
    <3> QED
      BY <2>0, LeastOf
  <2>2. k # 0
    BY <1>1, <2>1
  <2>3. k \in 1 .. n /\ k - 1 \in 0 .. n /\ ~(k <= k - 1)
    BY <1>n, <2>1, <2>2
  <2>4. k - 1 \notin Missing
    BY <2>1, <2>3
  <2>5. PICK f : fun(f, k - 1)
    BY <2>3, <2>4
  <2> QED
    BY <1>2, <2>1, <2>3, <2>5
<1>4. fun(iter, n)
  <2>1. \E f : fun(f, n)
    BY <1>3, <1>n
  <2> QED
    BY <2>1
<1>5. AddAll(t, ds, hop) = iter[1 .. n]
  BY <1>n, Zenon DEF AddAll, FoldLeft, MapThenFoldSet, fun, step
<1> HIDE DEF iter
<1>6. \A s \in SUBSET (1 .. n) : iter[s] = step(iter, s)
  BY <1>4 DEF fun
<1>7. iter[1 .. 0] \in S
  <2>1. 1 .. 0 = {}
    OBVIOUS
  <2> QED
    BY <1>6, <2>1 DEF step
<1>8. ASSUME NEW k \in 1 .. n, iter[1 .. (k - 1)] \in S
      PROVE  iter[1 .. k] \in S
  <2>1. k \in Nat \ {0} /\ 1 .. k \in SUBSET (1 .. n) /\ k \in 1 .. k
    BY <1>n
  <2>2. Max(1 .. k) = k
    BY <2>1, <1>max
  <2>3. (1 .. k) \ {k} = 1 .. (k - 1)
    BY <2>1
  <2>4. iter[1 .. k] = AddRouteTo(iter[1 .. (k - 1)], ds[k], hop)
    BY <1>6, <2>1, <2>2, <2>3 DEF step
  <2> QED
    BY <1>8, <1>n, <2>4
<1>9. Wrong = {}
  <2> SUFFICES ASSUME Wrong # {} PROVE FALSE
    OBVIOUS
  <2>0. Wrong \subseteq Nat
    BY <1>n
  <2>1. PICK k \in Wrong : \A j \in Wrong : k <= j
    <3> HIDE DEF Wrong
    <3> QED
      BY <2>0, LeastOf
  <2>2. k # 0
    BY <1>7, <2>1
  <2>3. k \in 1 .. n /\ k - 1 \in 0 .. n /\ ~(k <= k - 1)
    BY <1>n, <2>1, <2>2
  <2>4. iter[1 .. (k - 1)] \in S
    BY <2>1, <2>3
  <2> QED
    BY <1>8, <2>1, <2>3, <2>4
<1>10. iter[1 .. n] \in S
  BY <1>9, <1>n
<1> QED
  BY <1>5, <1>10

-----------------------------------------------------------------------------
(* Tables that can be used to route by *)

Neighbours(n) == {m \in Addresses \ {n} : Visible(n, m)}

Usable(n, t) ==
  /\ t \in Tables /\ FirstIsValid(t)
  /\ \A i \in Slots : t[i].valid => t[i].next \in Neighbours(n)

UsableTables(n) == {t \in Tables : Usable(n, t)}

LEMMA EmptyIsUsable ==
  ASSUME NEW n
  PROVE  Usable(n, EmptyTable)
  BY DEF Usable, EmptyTable, Tables, Entries, FirstIsValid

\* addRouteTo brings nothing but the new route into a table.
LEMMA AddUsable ==
  ASSUME NEW n, NEW t, Usable(n, t), NEW d \in Addresses \cup {NoAddress},
         NEW hop \in Neighbours(n)
  PROVE  Usable(n, AddRouteTo(t, d, hop))
<1> DEFINE e == [dest |-> d, next |-> hop, valid |-> TRUE]
           r == DeleteRoute(t, 1)
           u == AddRouteTo(t, d, hop)
<1>1. hop \in Addresses /\ t \in Tables /\ FirstIsValid(t)
  BY DEF Neighbours, Usable
<1>2. u \in Tables /\ FirstIsValid(u)
  BY <1>1, AddRouteToKeeps
<1>3. ASSUME NEW i \in Slots, u[i].valid PROVE u[i].next \in Neighbours(n)
  <2>1. CASE Updated(t, d) # {}
    <3>1. u = [t EXCEPT ![Min(Updated(t, d))] = e]
      BY <2>1 DEF AddRouteTo
    <3>2. u[i] = t[i] \/ u[i] = e
      BY <3>1, <1>1 DEF Tables
    <3> QED
      BY <3>2, <1>3 DEF Usable
  <2>2. CASE Updated(t, d) = {} /\ Invalid(t) # {}
    <3>1. u = [t EXCEPT ![Min(Invalid(t))] = e]
      BY <2>2 DEF AddRouteTo
    <3>2. u[i] = t[i] \/ u[i] = e
      BY <3>1, <1>1 DEF Tables
    <3> QED
      BY <3>2, <1>3 DEF Usable
  <2>3. CASE Updated(t, d) = {} /\ Invalid(t) = {}
    <3>1. u[i] = IF i \in Invalid(r) THEN e ELSE r[i]
      BY <2>3 DEF AddRouteTo
    <3>2. CASE i = Size
      <4>1. ~r[i].valid
        BY <3>2, <1>1, EntryFields DEF DeleteRoute
      <4> QED
        BY <3>1, <4>1 DEF Invalid
    <3>3. CASE i # Size
      <4>1. r[i] = t[i + 1] /\ i + 1 \in Slots
        BY <3>3, TableAssumption DEF DeleteRoute, Slots
      <4> QED
        BY <1>3, <3>1, <4>1 DEF Usable
    <3> QED
      BY <3>2, <3>3
  <2> QED
    BY <2>1, <2>2, <2>3
<1> QED
  BY <1>2, <1>3 DEF Usable

\* deleteRouteTo brings nothing into a table.
LEMMA ForgetUsable ==
  ASSUME NEW n, NEW t, Usable(n, t), NEW d \in Addresses
  PROVE  Usable(n, Forget(t, d))
<1> DEFINE k == Min(About(t, d))
           u == DeleteRouteTo(t, d)
<1>1. t \in Tables /\ FirstIsValid(t)
  BY DEF Usable
<1>2. u \in Tables /\ FirstIsValid(u)
  BY <1>1, DeleteRouteToKeeps
<1>3. ASSUME NEW i \in Slots, u[i].valid PROVE u[i].next \in Neighbours(n)
  <2>1. CASE About(t, d) = {}
    BY <2>1, <1>3 DEF DeleteRouteTo, Usable
  <2>2. CASE About(t, d) # {}
    <3>1. u[i] = IF i = Size THEN [t[i] EXCEPT !.valid = FALSE]
                 ELSE IF i < k THEN t[i] ELSE t[i + 1]
      BY <2>2 DEF DeleteRouteTo, DeleteRoute
    <3>2. i # Size
      BY <3>1, <1>1, <1>3, EntryFields
    <3>3. i + 1 \in Slots
      BY <3>2, TableAssumption DEF Slots
    <3> HIDE DEF k, u
    <3> QED
      BY <3>1, <3>2, <3>3, <1>3 DEF Usable
  <2> QED
    BY <2>1, <2>2
<1> QED
  BY <1>2, <1>3 DEF Usable, Forget

LEMMA AddAllUsable ==
  ASSUME NEW n, NEW t, Usable(n, t), NEW ds \in Seq(Addresses \cup {NoAddress}),
         NEW hop \in Neighbours(n)
  PROVE  Usable(n, AddAll(t, ds, hop))
<1>1. t \in UsableTables(n)
  BY DEF UsableTables, Usable
<1>2. ASSUME NEW u \in UsableTables(n), NEW d \in Addresses \cup {NoAddress}
      PROVE  AddRouteTo(u, d, hop) \in UsableTables(n)
  <2>1. Usable(n, u)
    BY DEF UsableTables
  <2>2. Usable(n, AddRouteTo(u, d, hop))
    BY <2>1, AddUsable
  <2> QED
    BY <2>2 DEF UsableTables, Usable
<1>3. AddAll(t, ds, hop) \in UsableTables(n)
  BY <1>1, <1>2, AddAllKeeps
<1> QED
  BY <1>3 DEF UsableTables

\* The route that getRouteTo finds is by way of a neighbour.
LEMMA NextHopUsable ==
  ASSUME NEW n, NEW t, Usable(n, t), NEW d, HasRoute(t, d)
  PROVE  NextHop(t, d) \in Neighbours(n)
<1>1. ValidTo(t, d) \subseteq Slots /\ ValidTo(t, d) # {}
  BY DEF ValidTo, About, HasRoute
<1>2. Min(ValidTo(t, d)) \in ValidTo(t, d)
  BY <1>1, LeastSlot
<1> QED
  BY <1>1, <1>2 DEF NextHop, Usable, ValidTo, Invalid

-----------------------------------------------------------------------------
(* Messages and frames *)

LEMMA MessageFields ==
  ASSUME NEW m \in Messages
  PROVE  /\ m.type \in {"app", "request", "response", "failure"}
         /\ m.source \in Addresses /\ m.hops \in 0 .. MaxHops
         /\ m.type = "request" => m.dest = Broadcast
         /\ m.type # "request" => m.dest \in Addresses
         /\ m.type # "app" => m.target \in Addresses
         /\ m.type \in {"request", "response"} => m.path \in Seq(Addresses)
         /\ m.type = "app" => m.empty \in BOOLEAN
<1>1. /\ m.type \in {"app", "request", "response", "failure"}
      /\ m.source \in Addresses
  BY DEF Messages
<1>2. m.hops \in 0 .. MaxHops
  BY MeshAssumption DEF Messages
<1>3. m.type = "request" => m.dest = Broadcast
  BY DEF Messages
<1>4. m.type # "request" => m.dest \in Addresses
  BY DEF Messages
<1>5. m.type # "app" => m.target \in Addresses
  BY DEF Messages
<1>6. m.type \in {"request", "response"} => m.path \in Seq(Addresses)
  BY DEF Messages
<1>7. m.type = "app" => m.empty \in BOOLEAN
  BY DEF Messages
<1> QED
  BY <1>1, <1>2, <1>3, <1>4, <1>5, <1>6, <1>7

LEMMA NewMessages ==
  ASSUME NEW n \in Addresses, NEW d \in Addresses
  PROVE  /\ \A b \in BOOLEAN : App(n, d, b) \in Messages
         /\ \A g \in Addresses : Failure(n, g, d) \in Messages
         /\ \A p \in Seq(Addresses) : Request(n, d, p) \in Messages
         /\ \A g \in Addresses, p \in Seq(Addresses) : Response(n, d, g, p) \in Messages
<1>1. 0 \in 0 .. MaxHops
  BY MeshAssumption
<1>2. \A b \in BOOLEAN : App(n, d, b) \in Messages
  BY <1>1 DEF Messages, App
<1>3. \A g \in Addresses : Failure(n, g, d) \in Messages
  BY <1>1 DEF Messages, Failure
<1>4. \A p \in Seq(Addresses) : Request(n, d, p) \in Messages
  BY DEF Messages, Request
<1>5. \A g \in Addresses, p \in Seq(Addresses) : Response(n, d, g, p) \in Messages
  BY <1>1 DEF Messages, Response
<1> QED
  BY <1>2, <1>3, <1>4, <1>5

\* A message that goes on is the one that came, one hop further.
LEMMA HoppedMessage ==
  ASSUME NEW m \in Messages, m.type # "request", MayHop(m)
  PROVE  LET c == [m EXCEPT !.hops = Counted(@)]
         IN  /\ c \in Messages
             /\ c.type = m.type /\ c.source = m.source /\ c.dest = m.dest
<1>1. m.hops + 1 \in 0 .. MaxHops
  BY MessageFields, MeshAssumption DEF MayHop
<1> QED
  BY <1>1 DEF Messages, Counted

Frames(n) == {NoFrame} \cup [from : Addresses \ {n}, msg : Messages]

\* The drivers of all nodes.
Drivers == {r \in [Addresses -> UNION {Frames(n) : n \in Addresses}] :
              \A n \in Addresses : r[n] \in Frames(n)}

LEMMA FrameFields ==
  ASSUME NEW n \in Addresses, NEW m \in Messages
  PROVE  /\ Frame(n, m) # NoFrame /\ Frame(n, m).msg = m /\ Frame(n, m).from = n
         /\ \A k \in Addresses \ {n} : Frame(n, m) \in Frames(k)
<1>1. m.type # "none"
  BY MessageFields
<1> QED
  BY <1>1 DEF Frame, NoFrame, Frames

-----------------------------------------------------------------------------
(* What sending does *)

\* Only drivers that were empty are filled, with a message of M from n.
Fills(n, M, r, s) ==
  \A k \in Addresses :
    s[k] = r[k] \/ (k # n /\ r[k] = NoFrame /\ \E m \in M : s[k] = Frame(n, m))

\* At most one of them with a message of an application.
AppOnce(r, s) ==
  \A j, k \in Addresses :
    /\ s[j] # r[j] /\ s[j].msg.type = "app"
    /\ s[k] # r[k] /\ s[k].msg.type = "app"
    => j = k

Outcomes == [ok : BOOLEAN, rx : Drivers, table : Tables, lost : Nat]

Outcome(n, M, r, o) ==
  o \in Outcomes /\ Usable(n, o.table) /\ Fills(n, M, r, o.rx) /\ AppOnce(r, o.rx)

LEMMA OutcomeFields ==
  ASSUME NEW o \in Outcomes
  PROVE  /\ o.ok \in BOOLEAN /\ o.rx \in Drivers /\ o.table \in Tables /\ o.lost \in Nat
         /\ \A t \in Tables : LET p == [o EXCEPT !.table = t]
                              IN  /\ p \in Outcomes /\ p.table = t
                                  /\ p.rx = o.rx /\ p.ok = o.ok
         /\ \A x \in Nat : LET p == [o EXCEPT !.lost = x]
                           IN  p \in Outcomes /\ p.table = o.table /\ p.rx = o.rx
  BY DEF Outcomes

LEMMA QuietOutcome ==
  ASSUME NEW n, NEW r \in Drivers, NEW t, Usable(n, t), NEW o \in Quietly(r, t), NEW M
  PROVE  Outcome(n, M, r, o)
<1>1. t \in Tables
  BY DEF Usable
<1>2. o = [ok |-> TRUE, rx |-> r, table |-> t, lost |-> 0]
  BY DEF Quietly
<1> QED
  BY <1>1, <1>2 DEF Outcome, Outcomes, Fills, AppOnce

LEMMA LinkOutcome ==
  ASSUME NEW n \in Addresses, NEW m \in Messages, NEW hop \in Neighbours(n),
         NEW r \in Drivers, NEW t, Usable(n, t), NEW o \in Link(n, m, hop, r, t)
  PROVE  Outcome(n, {m}, r, o)
<1> DEFINE s == [r EXCEPT ![hop] = Frame(n, m)]
           free == r[hop] = NoFrame
           gone == [ok |-> FALSE, rx |-> r, table |-> t, lost |-> IF free THEN 1 ELSE 0]
<1>1. hop \in Addresses \ {n} /\ t \in Tables
  BY DEF Neighbours, Usable
<1>2. Outcome(n, {m}, r, gone)
  BY <1>1 DEF Outcome, Outcomes, Fills, AppOnce
<1>3. s \in Drivers
  BY <1>1, FrameFields DEF Drivers
<1>4. \A k \in Addresses : s[k] = IF k = hop THEN Frame(n, m) ELSE r[k]
  BY <1>1 DEF Drivers
<1>5. ASSUME free, NEW ok \in BOOLEAN, NEW x \in Nat
      PROVE  Outcome(n, {m}, r, [ok |-> ok, rx |-> s, table |-> t, lost |-> x])
  <2>1. [ok |-> ok, rx |-> s, table |-> t, lost |-> x] \in Outcomes
    BY <1>1, <1>3 DEF Outcomes
  <2>2. Fills(n, {m}, r, s) /\ AppOnce(r, s)
    BY <1>1, <1>4, <1>5 DEF Fills, AppOnce
  <2> HIDE DEF s
  <2> QED
    BY <2>1, <2>2 DEF Outcome
<1>6. o = gone \/ (free /\ \E ok \in BOOLEAN, x \in Nat :
                            o = [ok |-> ok, rx |-> s, table |-> t, lost |-> x])
  BY DEF Link
<1> QED
  BY <1>2, <1>5, <1>6

LEMMA FloodOutcome ==
  ASSUME NEW n \in Addresses, NEW m \in Messages, m.type = "request",
         NEW r \in Drivers, NEW t, Usable(n, t), NEW o \in Flood(n, m, r, t)
  PROVE  Outcome(n, {m}, r, o) /\ o.ok
<1> DEFINE free == {k \in Addresses \ {n} : r[k] = NoFrame}
           s(heard) == [k \in Addresses |-> IF k \in heard THEN Frame(n, m) ELSE r[k]]
<1>1. PICK heard \in SUBSET free :
        o = [ok |-> TRUE, rx |-> s(heard), table |-> t, lost |-> Cardinality(free \ heard)]
  BY DEF Flood
<1>2. Cardinality(free \ heard) \in Nat
  <2>1. IsFiniteSet(free \ heard)
    BY MeshAssumption, FS_Subset
  <2> QED
    BY <2>1, FS_CardinalityType
<1>3. s(heard) \in Drivers
  BY FrameFields DEF Drivers
<1>4. Fills(n, {m}, r, s(heard)) /\ AppOnce(r, s(heard))
  BY FrameFields DEF Fills, AppOnce
<1>5. t \in Tables
  BY DEF Usable
<1> HIDE DEF free, s
<1> QED
  BY <1>1, <1>2, <1>3, <1>4, <1>5 DEF Outcome, Outcomes

LEMMA RouterRouteOutcome ==
  ASSUME NEW n \in Addresses, NEW m \in Messages, NEW r \in Drivers,
         NEW t, Usable(n, t), NEW o \in RouterRoute(n, m, r, t)
  PROVE  Outcome(n, {m}, r, o) /\ (m.type = "request" => o.ok)
<1>1. CASE m.type = "request"
  BY <1>1, MessageFields, FloodOutcome DEF RouterRoute
<1>2. CASE m.type # "request" /\ HasRoute(t, m.dest)
  <2>1. m.dest # Broadcast
    BY <1>2, MessageFields, MeshAssumption
  <2>2. o \in Link(n, m, NextHop(t, m.dest), r, t)
    BY <1>2, <2>1 DEF RouterRoute
  <2> QED
    BY <1>2, <2>2, NextHopUsable, LinkOutcome
<1>3. CASE m.type # "request" /\ ~HasRoute(t, m.dest)
  <2>1. m.dest # Broadcast
    BY <1>3, MessageFields, MeshAssumption
  <2>2. o = [ok |-> FALSE, rx |-> r, table |-> t, lost |-> 0]
    BY <1>3, <2>1 DEF RouterRoute
  <2> QED
    BY <1>3, <2>2 DEF Outcome, Outcomes, Usable, Fills, AppOnce
<1> QED
  BY <1>1, <1>2, <1>3

LEMMA RouteOwnOutcome ==
  ASSUME NEW n \in Addresses, NEW m \in Messages, NEW r \in Drivers,
         NEW t, Usable(n, t), NEW o \in RouteOwn(n, m, r, t)
  PROVE  Outcome(n, {m}, r, o)
<1>1. PICK p \in RouterRoute(n, m, r, t) :
        o = IF p.ok THEN p ELSE [p EXCEPT !.table = Forget(@, m.dest)]
  BY DEF RouteOwn
<1>2. Outcome(n, {m}, r, p) /\ (m.type = "request" => p.ok)
  BY RouterRouteOutcome
<1>3. CASE p.ok
  BY <1>1, <1>2, <1>3
<1>4. CASE ~p.ok
  <2>1. m.dest \in Addresses /\ Usable(n, p.table) /\ p \in Outcomes
    BY <1>2, <1>4, MessageFields DEF Outcome
  <2>2. Usable(n, Forget(p.table, m.dest))
    BY <2>1, ForgetUsable
  <2>3. o = [p EXCEPT !.table = Forget(p.table, m.dest)]
    BY <1>1, <1>4
  <2>4. o \in Outcomes /\ o.table = Forget(p.table, m.dest) /\ o.rx = p.rx
    BY <2>1, <2>2, <2>3, OutcomeFields DEF Usable
  <2> QED
    BY <1>2, <2>2, <2>4 DEF Outcome
<1> QED
  BY <1>3, <1>4

LEMMA RouteProxiedOutcome ==
  ASSUME NEW n \in Addresses, NEW m \in Messages, m.type # "request",
         NEW from \in Neighbours(n), NEW r \in Drivers,
         NEW t, Usable(n, t), NEW o \in RouteProxied(n, m, from, r, t)
  PROVE  Outcome(n, {m, Failure(n, m.source, m.dest)}, r, o)
<1> DEFINE fail == Failure(n, m.source, m.dest)
<1>1. PICK p \in RouteOwn(n, m, r, t) :
        o \in IF p.ok \/ m.source = n THEN {p}
              ELSE {[q EXCEPT !.lost = @ + p.lost] :
                      q \in RouteOwn(n, fail, p.rx, AddRouteTo(p.table, m.source, from))}
  BY DEF RouteProxied
<1>2. Outcome(n, {m}, r, p)
  BY RouteOwnOutcome
<1>3. CASE p.ok \/ m.source = n
  BY <1>1, <1>2, <1>3 DEF Outcome, Fills
<1>4. CASE ~(p.ok \/ m.source = n)
  <2>1. PICK q \in RouteOwn(n, fail, p.rx, AddRouteTo(p.table, m.source, from)) :
          o = [q EXCEPT !.lost = @ + p.lost]
    BY <1>1, <1>4
  <2>2. fail \in Messages /\ fail.type = "failure"
    BY MessageFields, NewMessages DEF Failure
  <2>3. Usable(n, AddRouteTo(p.table, m.source, from))
    BY <1>2, MessageFields, AddUsable DEF Outcome
  <2>4. Outcome(n, {fail}, p.rx, q)
    BY <1>2, <2>2, <2>3, RouteOwnOutcome, OutcomeFields DEF Outcome
  <2>5. q \in Outcomes /\ q.lost + p.lost \in Nat
    BY <1>2, <2>4, OutcomeFields DEF Outcome
  <2>6. o \in Outcomes /\ o.table = q.table /\ o.rx = q.rx
    BY <2>1, <2>5, OutcomeFields
  <2>7. \A k \in Addresses : q.rx[k] # p.rx[k] =>
          k # n /\ p.rx[k] = NoFrame /\ q.rx[k] = Frame(n, fail)
    BY <2>4 DEF Outcome, Fills
  <2>8. \A k \in Addresses : p.rx[k] # r[k] =>
          k # n /\ r[k] = NoFrame /\ p.rx[k] = Frame(n, m)
    BY <1>2 DEF Outcome, Fills
  <2>9. /\ Frame(n, fail).msg.type # "app"
        /\ Frame(n, m) # NoFrame
    BY <2>2, FrameFields
  <2> HIDE DEF fail
  <2>10. Fills(n, {m, fail}, r, q.rx)
    BY <2>7, <2>8, <2>9 DEF Fills
  <2>11. AppOnce(r, q.rx)
    BY <1>2, <2>7, <2>9 DEF AppOnce, Outcome
  <2> QED
    BY <2>4, <2>6, <2>10, <2>11 DEF Outcome, fail
<1> QED
  BY <1>3, <1>4

-----------------------------------------------------------------------------
(* What receiving does *)

Calls ==
  {Idle} \cup [pc : {"arp"}, target : Addresses, empty : BOOLEAN, room : BOOLEAN]

\* The inductive invariant, but for where messages come from.
Sound ==
  /\ rx \in Drivers
  /\ table \in [Addresses -> Tables] /\ \A n \in Addresses : Usable(n, table[n])
  /\ call \in [Addresses -> Calls]
  /\ todo \subseteq Requests
  /\ got \in [Addresses -> Seq(Addresses)]
  /\ losses \in 0 .. MaxLosses

\* A frame of a neighbour in the driver of n.
Heard(n, f) ==
  /\ f.msg \in Messages /\ f.from \in Neighbours(n)

LEMMA ReceivedFields ==
  ASSUME Sound, NEW n \in Addresses, rx[n] # NoFrame
  PROVE  /\ rx[n].msg \in Messages
         /\ Visible(n, rx[n].from) => Heard(n, rx[n])
         /\ Without(n) \in Drivers /\ Without(n)[n] = NoFrame
         /\ \A k \in Addresses \ {n} : Without(n)[k] = rx[k]
<1>1. rx[n] \in [from : Addresses \ {n}, msg : Messages]
  BY DEF Sound, Drivers, Frames
<1>2. \A k \in Addresses : NoFrame \in Frames(k)
  BY DEF Frames
<1>3. Without(n)[n] = NoFrame /\ \A k \in Addresses \ {n} : Without(n)[k] = rx[k]
  BY DEF Sound, Drivers, Without
<1>4. Without(n) \in Drivers
  BY <1>2 DEF Sound, Drivers, Without
<1> QED
  BY <1>1, <1>3, <1>4 DEF Heard, Neighbours

LEMMA PeekUsable ==
  ASSUME NEW n \in Addresses, NEW f, Heard(n, f), NEW t, Usable(n, t),
         NEW junk \in Addresses \cup {NoAddress}
  PROVE  Usable(n, Peek(n, f, t, junk))
<1> DEFINE m == f.msg
           u == AddRouteTo(t, m.target, Via(f))
           here == {i \in DOMAIN m.path : m.path[i] = n}
           i == IF here = {} THEN Len(m.path) + 1 ELSE Min(here)
<1>1. m \in Messages /\ Via(f) \in Neighbours(n)
  BY DEF Heard, Via
<1>2. CASE m.type = "failure"
  <2>1. Peek(n, f, t, junk) = Forget(t, m.target)
    BY <1>2 DEF Peek
  <2>2. m.target \in Addresses
    BY <1>1, <1>2, MessageFields
  <2> HIDE DEF m
  <2> QED
    BY <2>1, <2>2, ForgetUsable
<1>3. CASE m.type = "response"
  <2>1. m.target \in Addresses /\ m.path \in Seq(Addresses)
    BY <1>1, <1>3, MessageFields
  <2>2. Usable(n, u)
    BY <1>1, <2>1, AddUsable
  <2>3. i \in Nat \ {0}
    <3>1. here \subseteq Nat \ {0}
      BY <2>1
    <3>2. here # {} => \E x \in here : \A y \in here : x <= y
      <4> HIDE DEF here
      <4> QED
        BY <3>1, LeastOf
    <3>3. here # {} => Min(here) \in here
      BY <3>2 DEF Min
    <3>4. Len(m.path) \in Nat
      BY <2>1
    <3>5. CASE here = {}
      BY <3>4, <3>5
    <3>6. CASE here # {}
      <4>1. i = Min(here)
        BY <3>6
      <4> HIDE DEF i, here
      <4> QED
        BY <3>1, <3>3, <3>6, <4>1
    <3> QED
      BY <3>5, <3>6
  <2>4. Peek(n, f, t, junk) = IF i >= Len(m.path) THEN u
          ELSE AddAll(u, Append(SubSeq(m.path, i + 2, Len(m.path)), junk), Via(f))
    BY <1>3 DEF Peek
  <2> HIDE DEF i, u, here, m
  <2>5. SubSeq(m.path, i + 2, Len(m.path)) \in Seq(Addresses \cup {NoAddress})
    <3>1. i + 2 \in Int /\ Len(m.path) \in Int
          /\ \A j \in (i + 2) .. Len(m.path) : m.path[j] \in Addresses \cup {NoAddress}
      BY <2>1, <2>3
    <3> QED
      BY <3>1, SubSeqProperties
  <2>6. Append(SubSeq(m.path, i + 2, Len(m.path)), junk) \in Seq(Addresses \cup {NoAddress})
    BY <2>5, AppendProperties
  <2> QED
    BY <1>1, <2>2, <2>4, <2>6, AddAllUsable
<1>4. CASE m.type \notin {"failure", "response"}
  BY <1>4 DEF Peek
<1> QED
  BY <1>2, <1>3, <1>4

LEMMA JunkFields ==
  ASSUME NEW f, NEW junk \in Junk(f)
  PROVE  junk \in Addresses \cup {NoAddress}
  BY DEF Junk

\* A superset of the messages that may be sent says no less.
LEMMA MoreMessages ==
  ASSUME NEW n, NEW M, NEW N, M \subseteq N, NEW r, NEW o, Outcome(n, M, r, o)
  PROVE  Outcome(n, N, r, o)
  BY DEF Outcome, Fills

\* What goes on when f is passed on: no request, and no message of an application
\* but the one in f.
Forwarded(f) ==
  {m \in Messages : /\ m.type # "request"
                    /\ m.type = "app" => /\ f.msg.type = "app" /\ m.source = f.msg.source
                                         /\ m.dest = f.msg.dest}

LEMMA PassOnOutcome ==
  ASSUME NEW n \in Addresses, NEW f, Heard(n, f), ~ForMe(n, f.msg), NEW r \in Drivers,
         NEW t, Usable(n, t), NEW o \in PassOn(n, f, r, t)
  PROVE  Outcome(n, Forwarded(f), r, o)
<1>1. /\ f.msg \in Messages /\ f.msg.type # "request"
      /\ f.msg.source \in Addresses /\ f.msg.dest \in Addresses
  BY MessageFields DEF Heard, ForMe
<1>2. CASE MayHop(f.msg)
  <2> DEFINE c == [f.msg EXCEPT !.hops = Counted(@)]
             fail == Failure(n, c.source, c.dest)
  <2>1. /\ c \in Messages
        /\ c.type = f.msg.type /\ c.source = f.msg.source /\ c.dest = f.msg.dest
    BY <1>1, <1>2, HoppedMessage
  <2>2. o \in RouteProxied(n, c, Via(f), r, t)
    BY <1>2 DEF PassOn
  <2>3. fail \in Messages
    BY <1>1, <2>1, NewMessages
  <2>4. fail.type = "failure"
    BY DEF Failure
  <2> HIDE DEF c, fail
  <2>5. {c, fail} \subseteq Forwarded(f)
    BY <1>1, <2>1, <2>3, <2>4 DEF Forwarded
  <2>6. Via(f) \in Neighbours(n) /\ c.type # "request"
    BY <1>1, <2>1 DEF Via, Heard
  <2>7. Outcome(n, {c, fail}, r, o)
    BY <2>1, <2>2, <2>6, RouteProxiedOutcome DEF fail
  <2> QED
    BY <2>5, <2>7, MoreMessages
<1>3. CASE ~MayHop(f.msg)
  BY <1>3, QuietOutcome DEF PassOn
<1> QED
  BY <1>2, <1>3

\* What goes on when a request is received: a response, or the request, if n is
\* the first to see it for the first time.
Answered(n, f) ==
  {m \in Messages :
     \/ m.type = "response"
     \/ /\ m = Request(f.msg.source, f.msg.target, Append(f.msg.path, n))
        /\ ~Seen(n, f.msg) /\ Len(f.msg.path) < MaxHops}

LEMMA DiscoverOutcome ==
  ASSUME NEW n \in Addresses, NEW f, Heard(n, f), f.msg.type = "request",
         NEW r \in Drivers, NEW t, Usable(n, t), NEW o \in Discover(n, f, r, t)
  PROVE  Outcome(n, Answered(n, f), r, o)
<1> DEFINE m == f.msg
           u == AddAll(AddRouteTo(t, m.source, Via(f)), m.path, Via(f))
           response == Response(n, m.source, m.target, m.path)
           request == Request(m.source, m.target, Append(m.path, n))
<1>1. /\ m.source \in Addresses /\ m.target \in Addresses /\ m.path \in Seq(Addresses)
      /\ Via(f) \in Neighbours(n)
  BY MessageFields DEF Heard, Via
<1>2. Usable(n, AddRouteTo(t, m.source, Via(f)))
  BY <1>1, AddUsable
<1>3. Usable(n, u)
  <2>1. m.path \in Seq(Addresses \cup {NoAddress})
    BY <1>1
  <2> QED
    BY <1>1, <1>2, <2>1, AddAllUsable
<1>4. response \in Messages /\ request \in Messages
  <2>1. Append(m.path, n) \in Seq(Addresses)
    BY <1>1, AppendProperties
  <2> QED
    BY <1>1, <2>1, NewMessages
<1>5. response.type = "response"
  BY DEF Response
<1>6. CASE Seen(n, m)
  BY <1>6, QuietOutcome DEF Discover
<1>7. CASE ~Seen(n, m) /\ m.target = n
  <2>1. o \in RouteOwn(n, response, r, u)
    BY <1>7 DEF Discover
  <2>2. {response} \subseteq Answered(n, f)
    BY <1>4, <1>5 DEF Answered
  <2> HIDE DEF response, u
  <2>3. Outcome(n, {response}, r, o)
    BY <1>3, <1>4, <2>1, RouteOwnOutcome
  <2> QED
    BY <2>2, <2>3, MoreMessages
<1>8. CASE ~Seen(n, m) /\ m.target # n /\ Len(m.path) < MaxHops
  <2>1. o \in RouteOwn(n, request, r, u)
    BY <1>8 DEF Discover
  <2>2. {request} \subseteq Answered(n, f)
    BY <1>4, <1>8 DEF Answered
  <2> HIDE DEF request, u
  <2>3. Outcome(n, {request}, r, o)
    BY <1>3, <1>4, <2>1, RouteOwnOutcome
  <2> QED
    BY <2>2, <2>3, MoreMessages
<1>9. CASE ~Seen(n, m) /\ m.target # n /\ ~(Len(m.path) < MaxHops)
  <2>1. o \in Quietly(r, u)
    BY <1>9 DEF Discover
  <2> HIDE DEF u
  <2> QED
    BY <1>3, <2>1, QuietOutcome
<1> QED
  BY <1>6, <1>7, <1>8, <1>9

-----------------------------------------------------------------------------
(* What a step of a node does *)

Takes(n, M, r) ==
  /\ rx' \in Drivers /\ Fills(n, M, r, rx') /\ AppOnce(r, rx')
  /\ table' \in [Addresses -> Tables] /\ \A k \in Addresses : Usable(k, table'[k])
  /\ losses' \in 0 .. MaxLosses

LEMMA TakeOutcome ==
  ASSUME Sound, NEW n \in Addresses, NEW M, NEW r \in Drivers, NEW outs, NEW c,
         \A o \in outs : Outcome(n, M, r, o), Take(n, outs, c)
  PROVE  Takes(n, M, r) /\ call' = [call EXCEPT ![n] = c]
<1>1. PICK o \in outs : /\ losses + o.lost <= MaxLosses /\ losses' = losses + o.lost
                        /\ rx' = o.rx /\ table' = [table EXCEPT ![n] = o.table]
                        /\ call' = [call EXCEPT ![n] = c]
  BY DEF Take
<1>2. /\ o \in Outcomes /\ Usable(n, o.table)
      /\ Fills(n, M, r, o.rx) /\ AppOnce(r, o.rx)
  BY DEF Outcome
<1>3. o.rx \in Drivers /\ o.table \in Tables /\ o.lost \in Nat
  BY <1>2, OutcomeFields
<1>4. table' \in [Addresses -> Tables]
  BY <1>1, <1>3 DEF Sound
<1>5. \A k \in Addresses : table'[k] = IF k = n THEN o.table ELSE table[k]
  BY <1>1 DEF Sound
<1>6. \A k \in Addresses : Usable(k, table'[k])
  BY <1>2, <1>5 DEF Sound
<1>7. losses' \in 0 .. MaxLosses
  BY <1>1, <1>3, MeshAssumption DEF Sound
<1> QED
  BY <1>1, <1>2, <1>3, <1>4, <1>6, <1>7 DEF Takes

Waits(d, empty, room) == [pc |-> "arp", target |-> d, empty |-> empty, room |-> room]

LEMMA SendStep ==
  ASSUME Sound, NEW n \in Addresses, NEW d \in Addresses, NEW empty,
         SendtoWait(n, d, empty)
  PROVE  /\ call[n] = Idle /\ got' = got
         /\ <<n, d, empty>> \in todo /\ todo' = todo \ {<<n, d, empty>>}
         /\ \/ Takes(n, {App(n, d, empty)}, rx) /\ call' = [call EXCEPT ![n] = Idle]
            \/ /\ Takes(n, {Request(n, d, <<>>)}, rx)
               /\ call' = [call EXCEPT ![n] = Waits(d, empty, TRUE)]
<1>1. rx \in Drivers /\ Usable(n, table[n])
  BY DEF Sound
<1>2. App(n, d, empty) \in Messages /\ Request(n, d, <<>>) \in Messages
  <2>1. <<>> \in Seq(Addresses)
    OBVIOUS
  <2>2. <<n, d, empty>> \in Addresses \X Addresses \X BOOLEAN
    BY MeshAssumption DEF Sound, SendtoWait
  <2>3. empty \in BOOLEAN
    BY <2>2
  <2> QED
    BY <2>1, <2>3, NewMessages
<1>3. CASE HasRoute(table[n], d)
  <2>1. Take(n, RouteOwn(n, App(n, d, empty), rx, table[n]), Idle)
    BY <1>3 DEF SendtoWait
  <2>2. \A o \in RouteOwn(n, App(n, d, empty), rx, table[n]) :
          Outcome(n, {App(n, d, empty)}, rx, o)
    BY <1>1, <1>2, RouteOwnOutcome
  <2>3. Takes(n, {App(n, d, empty)}, rx) /\ call' = [call EXCEPT ![n] = Idle]
    BY <1>1, <2>1, <2>2, TakeOutcome
  <2> QED
    BY <2>3 DEF SendtoWait
<1>4. CASE ~HasRoute(table[n], d)
  <2>1. Take(n, RouteOwn(n, Request(n, d, <<>>), rx, table[n]), Waits(d, empty, TRUE))
    BY <1>4 DEF SendtoWait, Waits
  <2>2. \A o \in RouteOwn(n, Request(n, d, <<>>), rx, table[n]) :
          Outcome(n, {Request(n, d, <<>>)}, rx, o)
    BY <1>1, <1>2, RouteOwnOutcome
  <2>3. /\ Takes(n, {Request(n, d, <<>>)}, rx)
        /\ call' = [call EXCEPT ![n] = Waits(d, empty, TRUE)]
    BY <1>1, <2>1, <2>2, TakeOutcome
  <2> QED
    BY <2>3 DEF SendtoWait
<1> QED
  BY <1>3, <1>4

LEMMA WaitFields ==
  ASSUME Sound, NEW n \in Addresses, call[n].pc = "arp"
  PROVE  /\ call[n] # Idle /\ call[n].target \in Addresses /\ call[n].empty \in BOOLEAN
         /\ \E room \in BOOLEAN : call[n] = Waits(call[n].target, call[n].empty, room)
         /\ \A x \in BOOLEAN :
              [call[n] EXCEPT !.room = x] = Waits(call[n].target, call[n].empty, x)
         /\ call[n].room \in BOOLEAN
<1>1. call[n] \in [pc : {"arp"}, target : Addresses, empty : BOOLEAN, room : BOOLEAN]
  BY DEF Sound, Calls, Idle
<1>2. call[n] = Waits(call[n].target, call[n].empty, call[n].room)
  BY <1>1 DEF Waits
<1>3. \A x \in BOOLEAN :
        [call[n] EXCEPT !.room = x] = Waits(call[n].target, call[n].empty, x)
  BY <1>1 DEF Waits
<1> QED
  BY <1>1, <1>2, <1>3 DEF Idle

LEMMA ArpStep ==
  ASSUME Sound, NEW n \in Addresses, DoArp(n)
  PROVE  /\ call[n].pc = "arp" /\ rx[n] # NoFrame /\ todo' = todo /\ got' = got
         /\ \/ /\ Takes(n, Forwarded(rx[n]), Without(n))
               /\ \E room \in BOOLEAN :
                    call' = [call EXCEPT ![n] = Waits(call[n].target, call[n].empty, room)]
            \/ /\ rx[n].msg.type = "response"
               /\ Takes(n, {App(n, call[n].target, call[n].empty)}, Without(n))
               /\ call' = [call EXCEPT ![n] = Idle]
<1> DEFINE f == rx[n]
           c == call[n]
           r == Without(n)
<1>1. c.pc = "arp" /\ f # NoFrame /\ todo' = todo /\ got' = got
  BY DEF DoArp
<1>2. /\ f.msg \in Messages /\ (Visible(n, f.from) => Heard(n, f))
      /\ r \in Drivers /\ Usable(n, table[n])
  BY <1>1, ReceivedFields DEF Sound
<1>3. /\ c.target \in Addresses /\ c.empty \in BOOLEAN /\ c.room \in BOOLEAN
      /\ \E room \in BOOLEAN : c = Waits(c.target, c.empty, room)
      /\ \A x \in BOOLEAN : [c EXCEPT !.room = x] = Waits(c.target, c.empty, x)
  BY <1>1, WaitFields
<1>4. PICK junk \in Junk(f) :
        LET t == Peek(n, f, table[n], junk)
        IN  IF ~Visible(n, f.from) THEN Take(n, Quietly(r, table[n]), c)
            ELSE IF ~ForMe(n, f.msg) THEN Take(n, PassOn(n, f, r, t), c)
            ELSE IF Answers(n, f.msg)
                 THEN Take(n, RouteOwn(n, App(n, c.target, c.empty), r,
                                       AddRouteTo(t, c.target, Via(f))), Idle)
            ELSE Take(n, Quietly(r, t),
                      [c EXCEPT !.room = @ /\ ~(f.msg.type = "app" /\ f.msg.empty)])
  BY DEF DoArp
<1> DEFINE t == Peek(n, f, table[n], junk)
<1>5. Visible(n, f.from) => Usable(n, t) /\ Via(f) \in Neighbours(n)
  BY <1>2, JunkFields, PeekUsable DEF Heard, Via
<1> HIDE DEF f, c, r, t
<1>6. CASE ~Visible(n, f.from)
  <2>1. Take(n, Quietly(r, table[n]), c)
    BY <1>4, <1>6
  <2>2. \A o \in Quietly(r, table[n]) : Outcome(n, Forwarded(f), r, o)
    BY <1>2, QuietOutcome
  <2>3. Takes(n, Forwarded(f), r) /\ call' = [call EXCEPT ![n] = c]
    BY <1>2, <2>1, <2>2, TakeOutcome
  <2> QED
    BY <1>1, <1>3, <2>3 DEF f, c, r
<1>7. CASE Visible(n, f.from) /\ ~ForMe(n, f.msg)
  <2>1. Take(n, PassOn(n, f, r, t), c)
    BY <1>4, <1>7 DEF t
  <2>2. \A o \in PassOn(n, f, r, t) : Outcome(n, Forwarded(f), r, o)
    BY <1>2, <1>5, <1>7, PassOnOutcome
  <2>3. Takes(n, Forwarded(f), r) /\ call' = [call EXCEPT ![n] = c]
    BY <1>2, <2>1, <2>2, TakeOutcome
  <2> QED
    BY <1>1, <1>3, <2>3 DEF f, c, r
<1>8. CASE Visible(n, f.from) /\ ForMe(n, f.msg) /\ Answers(n, f.msg)
  <2> DEFINE u == AddRouteTo(t, c.target, Via(f))
             a == App(n, c.target, c.empty)
  <2>1. Take(n, RouteOwn(n, a, r, u), Idle)
    BY <1>4, <1>8 DEF t
  <2>2. Usable(n, u) /\ a \in Messages
    BY <1>3, <1>5, <1>8, AddUsable, NewMessages
  <2> HIDE DEF u, a
  <2>3. \A o \in RouteOwn(n, a, r, u) : Outcome(n, {a}, r, o)
    BY <1>2, <2>2, RouteOwnOutcome
  <2>4. Takes(n, {a}, r) /\ call' = [call EXCEPT ![n] = Idle]
    BY <1>2, <2>1, <2>3, TakeOutcome
  <2>5. f.msg.type = "response"
    BY <1>8 DEF Answers
  <2> QED
    BY <1>1, <2>4, <2>5 DEF f, c, r, a
<1>9. CASE Visible(n, f.from) /\ ForMe(n, f.msg) /\ ~Answers(n, f.msg)
  <2> DEFINE x == c.room /\ ~(f.msg.type = "app" /\ f.msg.empty)
  <2>1. [c EXCEPT !.room = @ /\ ~(f.msg.type = "app" /\ f.msg.empty)] = [c EXCEPT !.room = x]
    OBVIOUS
  <2>2. x \in BOOLEAN
    OBVIOUS
  <2>3. [c EXCEPT !.room = @ /\ ~(f.msg.type = "app" /\ f.msg.empty)] =
          Waits(c.target, c.empty, x)
    <3> HIDE DEF x
    <3> QED
      BY <1>3, <2>1, <2>2
  <2>4. Take(n, Quietly(r, t), Waits(c.target, c.empty, x))
    BY <1>4, <1>9, <2>3 DEF t
  <2> HIDE DEF x
  <2>5. \A o \in Quietly(r, t) : Outcome(n, Forwarded(f), r, o)
    BY <1>2, <1>5, <1>9, QuietOutcome
  <2>6. /\ Takes(n, Forwarded(f), r)
        /\ call' = [call EXCEPT ![n] = Waits(c.target, c.empty, x)]
    BY <1>2, <2>4, <2>5, TakeOutcome
  <2> QED
    BY <1>1, <2>2, <2>6 DEF f, c, r
<1> QED
  BY <1>6, <1>7, <1>8, <1>9

LEMMA ReceiveStep ==
  ASSUME Sound, NEW n \in Addresses, RecvfromAck(n)
  PROVE  /\ call[n] = Idle /\ call' = call /\ rx[n] # NoFrame /\ todo' = todo
         /\ \/ Takes(n, Forwarded(rx[n]), Without(n)) /\ got' = got
            \/ /\ rx[n].msg.type = "request" /\ Heard(n, rx[n])
               /\ Takes(n, Answered(n, rx[n]), Without(n)) /\ got' = got
            \/ /\ rx[n].msg.type = "app" /\ rx[n].msg.dest = n
               /\ Takes(n, {}, Without(n))
               /\ got' = [got EXCEPT ![n] = Append(@, rx[n].msg.source)]
<1> DEFINE f == rx[n]
           r == Without(n)
<1>1. call[n] = Idle /\ f # NoFrame /\ todo' = todo
  BY DEF RecvfromAck
<1>2. /\ f.msg \in Messages /\ (Visible(n, f.from) => Heard(n, f))
      /\ r \in Drivers /\ Usable(n, table[n])
  BY <1>1, ReceivedFields DEF Sound
<1>3. [call EXCEPT ![n] = Idle] = call
  BY <1>1 DEF Sound
<1>4. PICK junk \in Junk(f) :
        LET t == Peek(n, f, table[n], junk)
        IN  /\ IF ~Visible(n, f.from) THEN Take(n, Quietly(r, table[n]), Idle)
               ELSE IF ~ForMe(n, f.msg) THEN Take(n, PassOn(n, f, r, t), Idle)
               ELSE IF f.msg.type = "request" THEN Take(n, Discover(n, f, r, t), Idle)
               ELSE Take(n, Quietly(r, t), Idle)
            /\ got' = IF Visible(n, f.from) /\ ForMe(n, f.msg) /\ f.msg.type = "app"
                      THEN [got EXCEPT ![n] = Append(@, f.msg.source)] ELSE got
  BY DEF RecvfromAck
<1> DEFINE t == Peek(n, f, table[n], junk)
<1>5. Visible(n, f.from) => Usable(n, t)
  BY <1>2, JunkFields, PeekUsable
<1>6. f.msg.type = "app" /\ ForMe(n, f.msg) => f.msg.dest = n
  BY <1>2, MessageFields, MeshAssumption DEF ForMe
<1> HIDE DEF f, r, t
<1>7. CASE ~Visible(n, f.from)
  <2>1. Take(n, Quietly(r, table[n]), Idle) /\ got' = got
    BY <1>4, <1>7
  <2>2. \A o \in Quietly(r, table[n]) : Outcome(n, Forwarded(f), r, o)
    BY <1>2, QuietOutcome
  <2>3. Takes(n, Forwarded(f), r) /\ call' = call
    BY <1>2, <1>3, <2>1, <2>2, TakeOutcome
  <2> QED
    BY <1>1, <2>1, <2>3 DEF f, r
<1>8. CASE Visible(n, f.from) /\ ~ForMe(n, f.msg)
  <2>1. Take(n, PassOn(n, f, r, t), Idle) /\ got' = got
    BY <1>4, <1>8 DEF t
  <2>2. \A o \in PassOn(n, f, r, t) : Outcome(n, Forwarded(f), r, o)
    BY <1>2, <1>5, <1>8, PassOnOutcome
  <2>3. Takes(n, Forwarded(f), r) /\ call' = call
    BY <1>2, <1>3, <2>1, <2>2, TakeOutcome
  <2> QED
    BY <1>1, <2>1, <2>3 DEF f, r
<1>9. CASE Visible(n, f.from) /\ ForMe(n, f.msg) /\ f.msg.type = "request"
  <2>1. Take(n, Discover(n, f, r, t), Idle) /\ got' = got
    BY <1>4, <1>9 DEF t
  <2>2. \A o \in Discover(n, f, r, t) : Outcome(n, Answered(n, f), r, o)
    BY <1>2, <1>5, <1>9, DiscoverOutcome
  <2>3. Takes(n, Answered(n, f), r) /\ call' = call
    BY <1>2, <1>3, <2>1, <2>2, TakeOutcome
  <2> QED
    BY <1>1, <1>2, <1>9, <2>1, <2>3 DEF f, r
<1>10. CASE Visible(n, f.from) /\ ForMe(n, f.msg) /\ f.msg.type # "request"
  <2>1. Take(n, Quietly(r, t), Idle)
    BY <1>4, <1>10 DEF t
  <2>2. \A o \in Quietly(r, t) : Outcome(n, {}, r, o) /\ Outcome(n, Forwarded(f), r, o)
    BY <1>2, <1>5, <1>10, QuietOutcome
  <2>3. Takes(n, {}, r) /\ Takes(n, Forwarded(f), r) /\ call' = call
    BY <1>2, <1>3, <2>1, <2>2, TakeOutcome
  <2>4. CASE f.msg.type = "app"
    <3>1. got' = [got EXCEPT ![n] = Append(@, f.msg.source)]
      BY <1>4, <1>10, <2>4
    <3> QED
      BY <1>1, <1>6, <1>10, <2>3, <2>4, <3>1 DEF f, r
  <2>5. CASE f.msg.type # "app"
    <3>1. got' = got
      BY <1>4, <2>5
    <3> QED
      BY <1>1, <2>3, <3>1 DEF f, r
  <2> QED
    BY <2>4, <2>5
<1> QED
  BY <1>7, <1>8, <1>9, <1>10

-----------------------------------------------------------------------------
(* Tables and types *)

LEMMA SoundKept ==
  ASSUME Sound, [Next]_vars
  PROVE  Sound'
<1>0. ASSUME NEW n \in Addresses, NEW M, NEW r, Takes(n, M, r), NEW c \in Calls,
             call' = [call EXCEPT ![n] = c], todo' \subseteq todo,
             got' \in [Addresses -> Seq(Addresses)]
      PROVE  Sound'
  BY <1>0 DEF Takes, Sound
<1>w. \A d \in Addresses, empty \in BOOLEAN, room \in BOOLEAN : Waits(d, empty, room) \in Calls
  BY DEF Waits, Calls
<1>i. Idle \in Calls /\ got \in [Addresses -> Seq(Addresses)]
  BY DEF Calls, Sound
<1>1. ASSUME NEW n \in Addresses, NEW d \in Addresses, NEW empty \in BOOLEAN,
             SendtoWait(n, d, empty)
      PROVE  Sound'
  <2>1. got' = got /\ todo' = todo \ {<<n, d, empty>>}
    BY <1>1, SendStep
  <2>2. \/ Takes(n, {App(n, d, empty)}, rx) /\ call' = [call EXCEPT ![n] = Idle]
        \/ /\ Takes(n, {Request(n, d, <<>>)}, rx)
           /\ call' = [call EXCEPT ![n] = Waits(d, empty, TRUE)]
    BY <1>1, SendStep
  <2>3. Waits(d, empty, TRUE) \in Calls /\ todo' \subseteq todo
        /\ got' \in [Addresses -> Seq(Addresses)]
    BY <1>w, <1>i, <2>1
  <2> QED
    BY <1>0, <1>i, <2>2, <2>3
<1>2. ASSUME NEW n \in Addresses, DoArp(n) PROVE Sound'
  <2>1. call[n].pc = "arp" /\ todo' = todo /\ got' = got
    BY <1>2, ArpStep
  <2>2. \/ /\ Takes(n, Forwarded(rx[n]), Without(n))
           /\ \E room \in BOOLEAN :
                call' = [call EXCEPT ![n] = Waits(call[n].target, call[n].empty, room)]
        \/ /\ Takes(n, {App(n, call[n].target, call[n].empty)}, Without(n))
           /\ call' = [call EXCEPT ![n] = Idle]
    BY <1>2, ArpStep
  <2>3. \A room \in BOOLEAN : Waits(call[n].target, call[n].empty, room) \in Calls
    BY <1>w, <2>1, WaitFields
  <2>4. todo' \subseteq todo /\ got' \in [Addresses -> Seq(Addresses)]
    BY <1>i, <2>1
  <2> QED
    BY <1>0, <1>i, <2>2, <2>3, <2>4
<1>3. ASSUME NEW n \in Addresses, ArpTimeout(n) PROVE Sound'
  BY <1>3 DEF ArpTimeout, Sound, Calls
<1>4. ASSUME NEW n \in Addresses, RecvfromAck(n) PROVE Sound'
  <2>1. /\ call' = call /\ todo' = todo /\ rx[n] # NoFrame
        /\ \E M, r : Takes(n, M, r)
        /\ got' = got \/ got' = [got EXCEPT ![n] = Append(@, rx[n].msg.source)]
    BY <1>4, ReceiveStep
  <2>2. rx[n].msg.source \in Addresses
    BY <2>1, ReceivedFields, MessageFields
  <2>3. Append(got[n], rx[n].msg.source) \in Seq(Addresses)
    BY <2>2, AppendProperties DEF Sound
  <2> QED
    BY <2>1, <2>3 DEF Takes, Sound
<1>5. CASE UNCHANGED vars
  BY <1>5 DEF vars, Sound
<1> QED
  BY <1>1, <1>2, <1>3, <1>4, <1>5 DEF Next

LEMMA SoundAtFirst ==
  ASSUME Init
  PROVE  Sound
<1>1. EmptyTable \in Tables /\ \A n \in Addresses : Usable(n, EmptyTable)
  BY EmptyIsUsable DEF Usable, EmptyTable, Tables, Entries
<1>2. \A k \in Addresses : NoFrame \in Frames(k)
  BY DEF Frames
<1>3. rx \in Drivers
  BY <1>2 DEF Init, Drivers
<1>4. losses \in 0 .. MaxLosses
  BY MeshAssumption DEF Init
<1>5. got \in [Addresses -> Seq(Addresses)]
  BY DEF Init
<1> QED
  BY <1>1, <1>3, <1>4, <1>5 DEF Init, Sound, Calls

\* Routes, whatever requests, responses and failures have written to the tables
\* (RHMesh.cpp:85-112, 116-137, 175-214), are by way of a neighbour that is heard,
\* at most one for each destination; what is under way is a message that may be.
THEOREM RoutesSound == Spec => []TablesSound
<1>1. Init => Sound
  BY SoundAtFirst
<1>2. Sound /\ [Next]_vars => Sound'
  BY SoundKept
<1>3. Sound => TablesSound
  <2> SUFFICES ASSUME Sound PROVE TablesSound
    OBVIOUS
  <2>1. TypeOK
    BY DEF TypeOK, Sound, Calls, Drivers, Frames
  <2>2. NextHopHeard
    BY DEF NextHopHeard, Sound, Usable, Neighbours
  <2>3. OneRoute
    BY DEF OneRoute, Sound, Usable
  <2> QED
    BY <2>1, <2>2, <2>3 DEF TablesSound
<1> QED
  BY <1>1, <1>2, <1>3, PTL DEF Spec

-----------------------------------------------------------------------------
(* The path of a request *)

IsWalk(m, from) ==
  LET p == <<m.source>> \o m.path
  IN  /\ p[Len(p)] = from
      /\ \A i, j \in DOMAIN p : i < j => p[i] # p[j]
      /\ \A i \in 1 .. (Len(p) - 1) : Visible(p[i + 1], p[i])
      /\ Len(m.path) <= MaxHops

\* Who sends a request of its own is all there is of its path.
LEMMA WalkBegins ==
  ASSUME NEW n \in Addresses, NEW d \in Addresses
  PROVE  IsWalk(Request(n, d, <<>>), n)
<1>1. Request(n, d, <<>>).source = n /\ Request(n, d, <<>>).path = <<>>
  BY DEF Request
<1>2. <<n>> \o <<>> = <<n>>
  OBVIOUS
<1> QED
  BY <1>1, <1>2, MeshAssumption DEF IsWalk

\* Who sends a request on was not on its path and heard the last one that was.
LEMMA WalkExtends ==
  ASSUME NEW n \in Addresses, NEW m \in Messages, m.type = "request",
         NEW from \in Neighbours(n), IsWalk(m, from), ~Seen(n, m), Len(m.path) < MaxHops
  PROVE  IsWalk(Request(m.source, m.target, Append(m.path, n)), n)
<1> DEFINE e == Request(m.source, m.target, Append(m.path, n))
           p == <<m.source>> \o m.path
           q == <<m.source>> \o Append(m.path, n)
           l == Len(m.path)
<1>1. m.source \in Addresses /\ m.path \in Seq(Addresses)
  BY MessageFields
<1>2. /\ l \in Nat /\ Len(p) = l + 1 /\ DOMAIN p = 1 .. (l + 1)
      /\ Len(q) = l + 2 /\ DOMAIN q = 1 .. (l + 2)
      /\ \A i \in 1 .. (l + 1) : q[i] = p[i]
      /\ q[l + 2] = n
  BY <1>1
<1>3. \A i \in 1 .. (l + 1) : p[i] # n
  <2>1. p[1] = m.source /\ \A i \in 2 .. (l + 1) : p[i] = m.path[i - 1] /\ i - 1 \in DOMAIN m.path
    BY <1>1
  <2>2. m.source # n /\ \A i \in DOMAIN m.path : m.path[i] # n
    BY DEF Seen, Range
  <2>3. \A i \in 1 .. (l + 1) : i = 1 \/ i \in 2 .. (l + 1)
    BY <1>2
  <2> HIDE DEF p
  <2> QED
    BY <2>1, <2>2, <2>3
<1>4. /\ p[Len(p)] = from
      /\ \A i, j \in DOMAIN p : i < j => p[i] # p[j]
      /\ \A i \in 1 .. (Len(p) - 1) : Visible(p[i + 1], p[i])
  BY DEF IsWalk
<1>5. Visible(n, from)
  BY DEF Neighbours
<1>6. e.source = m.source /\ e.path = Append(m.path, n)
  BY DEF Request
<1>7. Len(Append(m.path, n)) = l + 1
  BY <1>1
<1> HIDE DEF p, q, l
<1>8. ASSUME NEW i \in DOMAIN q, NEW j \in DOMAIN q, i < j PROVE q[i] # q[j]
  <2>1. i \in 1 .. (l + 1) /\ (j \in 1 .. (l + 1) \/ j = l + 2)
    BY <1>2, <1>8
  <2> QED
    BY <1>2, <1>3, <1>4, <1>8, <2>1
<1>9. ASSUME NEW i \in 1 .. (Len(q) - 1) PROVE Visible(q[i + 1], q[i])
  <2>1. CASE i = l + 1
    BY <1>2, <1>4, <1>5, <2>1
  <2>2. CASE i # l + 1
    <3>1. i \in 1 .. (Len(p) - 1) /\ i \in 1 .. (l + 1) /\ i + 1 \in 1 .. (l + 1)
      BY <1>2, <2>2
    <3> QED
      BY <1>2, <1>4, <3>1
  <2> QED
    BY <2>1, <2>2
<1>10. l + 1 <= MaxHops
  BY <1>2, MeshAssumption DEF l
<1> QED
  BY <1>2, <1>6, <1>7, <1>8, <1>9, <1>10 DEF IsWalk, q

LEMMA WalkOf ==
  ASSUME PathIsWalk, NEW n \in Addresses, rx[n].msg.type = "request"
  PROVE  IsWalk(rx[n].msg, rx[n].from)
  BY Zenon DEF PathIsWalk, IsWalk

LEMMA SameFrames ==
  ASSUME PathIsWalk, rx' = rx
  PROVE  PathIsWalk'
<1> SUFFICES ASSUME NEW k \in Addresses, rx'[k].msg.type = "request"
             PROVE  IsWalk(rx'[k].msg, rx'[k].from)
  BY DEF PathIsWalk, IsWalk
<1>1. IsWalk(rx[k].msg, rx[k].from)
  BY WalkOf
<1> QED
  BY <1>1

\* Frames that were there before the step, and those that it has sent.
LEMMA WalksKept ==
  ASSUME Sound, PathIsWalk, NEW n \in Addresses, NEW M \in SUBSET Messages,
         NEW r \in {rx, Without(n)}, Takes(n, M, r),
         \A m \in M : m.type = "request" => IsWalk(m, n)
  PROVE  PathIsWalk'
<1> SUFFICES ASSUME NEW k \in Addresses, rx'[k].msg.type = "request"
             PROVE  IsWalk(rx'[k].msg, rx'[k].from)
  BY DEF PathIsWalk, IsWalk
<1>1. rx'[k] = r[k] \/ \E m \in M : rx'[k] = Frame(n, m)
  BY DEF Takes, Fills
<1>2. CASE rx'[k] = r[k]
  <2>1. NoFrame.msg.type # "request"
    BY DEF NoFrame
  <2>2. r[k] = rx[k] \/ r[k] = NoFrame
    BY DEF Without, Sound, Drivers
  <2>3. rx'[k] = rx[k]
    BY <1>2, <2>1, <2>2
  <2>4. IsWalk(rx[k].msg, rx[k].from)
    BY <2>3, WalkOf
  <2> QED
    BY <2>3, <2>4
<1>3. CASE \E m \in M : rx'[k] = Frame(n, m)
  <2>1. PICK m \in M : rx'[k] = Frame(n, m)
    BY <1>3
  <2>2. rx'[k].msg = m /\ rx'[k].from = n
    BY <2>1, FrameFields
  <2> QED
    BY <2>2
<1> QED
  BY <1>1, <1>2, <1>3

LEMMA WalkStep ==
  ASSUME Sound, PathIsWalk, [Next]_vars
  PROVE  PathIsWalk'
<1>1. ASSUME NEW n \in Addresses, NEW d \in Addresses, NEW empty, empty \in BOOLEAN,
             SendtoWait(n, d, empty)
      PROVE  PathIsWalk'
  <2> DEFINE a == App(n, d, empty)
             q == Request(n, d, <<>>)
  <2>1. a \in Messages /\ q \in Messages /\ IsWalk(q, n)
    <3>1. <<>> \in Seq(Addresses)
      OBVIOUS
    <3> QED
      BY <1>1, <3>1, NewMessages, WalkBegins
  <2>2. a.type = "app"
    BY DEF App
  <2>3. Takes(n, {a}, rx) \/ Takes(n, {q}, rx)
    BY <1>1, SendStep
  <2> HIDE DEF a, q
  <2> QED
    BY <2>1, <2>2, <2>3, WalksKept
<1>2. ASSUME NEW n \in Addresses, DoArp(n) PROVE PathIsWalk'
  <2> DEFINE a == App(n, call[n].target, call[n].empty)
  <2>1. Takes(n, Forwarded(rx[n]), Without(n)) \/ Takes(n, {a}, Without(n))
    BY <1>2, ArpStep
  <2>2. a \in Messages
    BY <1>2, ArpStep, WaitFields, NewMessages
  <2>3. a.type = "app"
    BY DEF App
  <2>4. /\ Forwarded(rx[n]) \subseteq Messages
        /\ \A m \in Forwarded(rx[n]) : m.type # "request"
    BY DEF Forwarded
  <2> HIDE DEF a
  <2> QED
    BY <2>1, <2>2, <2>3, <2>4, WalksKept
<1>3. ASSUME NEW n \in Addresses, ArpTimeout(n) PROVE PathIsWalk'
  BY <1>3, SameFrames DEF ArpTimeout
<1>4. ASSUME NEW n \in Addresses, RecvfromAck(n) PROVE PathIsWalk'
  <2> DEFINE f == rx[n]
  <2>1. \/ Takes(n, Forwarded(f), Without(n))
        \/ /\ f.msg.type = "request" /\ Heard(n, f)
           /\ Takes(n, Answered(n, f), Without(n))
        \/ Takes(n, {}, Without(n))
    BY <1>4, ReceiveStep
  <2>2. /\ Forwarded(f) \subseteq Messages
        /\ \A m \in Forwarded(f) : m.type # "request"
    BY DEF Forwarded
  <2>3. ASSUME f.msg.type = "request", Heard(n, f), NEW m \in Answered(n, f), m.type = "request"
        PROVE  IsWalk(m, n)
    <3>1. /\ m = Request(f.msg.source, f.msg.target, Append(f.msg.path, n))
          /\ ~Seen(n, f.msg) /\ Len(f.msg.path) < MaxHops
      BY <2>3 DEF Answered
    <3>2. IsWalk(f.msg, f.from)
      BY <2>3, WalkOf
    <3>3. f.msg \in Messages /\ f.from \in Neighbours(n)
      BY <2>3 DEF Heard
    <3> HIDE DEF f
    <3> QED
      BY <2>3, <3>1, <3>2, <3>3, WalkExtends
  <2>4. Answered(n, f) \subseteq Messages
    BY DEF Answered
  <2> HIDE DEF f
  <2> QED
    BY <2>1, <2>2, <2>3, <2>4, WalksKept
<1>5. CASE UNCHANGED vars
  BY <1>5, SameFrames DEF vars
<1>6. ASSUME NEW n \in Addresses, NEW d \in Addresses, NEW empty \in BOOLEAN,
             SendtoWait(n, d, empty)
      PROVE  PathIsWalk'
  BY <1>1, <1>6
<1> QED
  BY <1>2, <1>3, <1>4, <1>5, <1>6 DEF Next

\* However requests are flooded, lost and answered, one that is under way names
\* the different nodes it has come by, each of which heard the one before it
\* (RHMesh.cpp:175-214).
THEOREM PathsAreWalks == Spec => []PathIsWalk
<1>1. Init => Sound /\ PathIsWalk
  <2>1. Init => PathIsWalk
    BY DEF Init, PathIsWalk, NoFrame
  <2> QED
    BY <2>1, SoundAtFirst
<1>2. Sound /\ PathIsWalk /\ [Next]_vars => Sound' /\ PathIsWalk'
  BY SoundKept, WalkStep
<1> QED
  BY <1>1, <1>2, PTL DEF Spec

-----------------------------------------------------------------------------
(* How often a message is there *)

\* What there is of the messages of m to d: those d has got, the frames that hold
\* one, and m waiting for a route.
IsFrom(x, m, d) == x.type = "app" /\ x.source = m /\ x.dest = d

AirIn(r, m, d) == {k \in Addresses : IsFrom(r[k].msg, m, d)}
Gotten(m, d) == {i \in DOMAIN got[d] : got[d][i] = m}
Waiting(m, d) == {k \in {m} : call[k].pc = "arp" /\ call[k].target = d}

Tokens(m, d) ==
  {<<"got", i>> : i \in Gotten(m, d)} \cup {<<"air", k>> : k \in AirIn(rx, m, d)}
    \cup {<<"arp", k>> : k \in Waiting(m, d)}

\* The requests to send one that have been made.
Made(m, d) == {q \in Requests \ todo : q[1] = m /\ q[2] = d}

Counts(m, d) ==
  IsFiniteSet(Tokens(m, d)) /\ Cardinality(Tokens(m, d)) <= Cardinality(Made(m, d))

AllCounted == \A m, d \in Addresses : Counts(m, d)

LEMMA RequestsFinite == IsFiniteSet(Requests)
<1> DEFINE S == Addresses \X (Addresses \X BOOLEAN)
           T == Addresses \X Addresses \X BOOLEAN
           f == [p \in S |-> <<p[1], p[2][1], p[2][2]>>]
<1>1. IsFiniteSet(BOOLEAN)
  <2>1. BOOLEAN = {TRUE} \cup {FALSE}
    OBVIOUS
  <2>2. IsFiniteSet({TRUE})
    BY FS_Singleton, Zenon
  <2>3. IsFiniteSet({TRUE} \cup {FALSE})
    BY <2>2, FS_AddElement, Zenon
  <2> QED
    BY <2>1, <2>3, Zenon
<1>2. IsFiniteSet(S)
  BY <1>1, MeshAssumption, FS_Product
<1>3. f \in Surjection(S, T)
  <2>1. f \in [S -> T]
    OBVIOUS
  <2>2. ASSUME NEW q \in T PROVE \E p \in S : f[p] = q
    <3>1. <<q[1], <<q[2], q[3]>>>> \in S
      OBVIOUS
    <3>2. f[<<q[1], <<q[2], q[3]>>>>] = q
      BY <3>1
    <3> QED
      BY <3>1, <3>2
  <2> QED
    BY <2>1, <2>2 DEF Surjection
<1>4. IsFiniteSet(T)
  <2> HIDE DEF S, T, f
  <2> QED
    BY <1>2, <1>3, FS_Surjection
<1> QED
  BY <1>4, MeshAssumption, FS_Subset

LEMMA MadeFinite ==
  ASSUME NEW m, NEW d
  PROVE  IsFiniteSet(Made(m, d)) /\ Cardinality(Made(m, d)) \in Nat
<1>1. Made(m, d) \in SUBSET Requests
  BY DEF Made
<1> QED
  BY <1>1, RequestsFinite, FS_Subset, FS_CardinalityType

\* One exchanged for another.
LEMMA Exchanged ==
  ASSUME NEW S, IsFiniteSet(S), NEW x \in S, NEW y, NEW T, T \subseteq (S \ {x}) \cup {y}
  PROVE  IsFiniteSet(T) /\ Cardinality(T) <= Cardinality(S)
<1>1. IsFiniteSet(S \ {x}) /\ Cardinality(S \ {x}) = Cardinality(S) - 1
  BY FS_RemoveElement
<1>2. Cardinality(S) \in Nat
  BY FS_CardinalityType
<1> DEFINE U == (S \ {x}) \cup {y}
<1>3. IsFiniteSet(U) /\ Cardinality(U) <= Cardinality(S)
  <2> DEFINE R == S \ {x}
  <2>1. IsFiniteSet(R) /\ Cardinality(R) = Cardinality(S) - 1
    BY <1>1
  <2> HIDE DEF R
  <2>2. /\ IsFiniteSet(R \cup {y})
        /\ Cardinality(R \cup {y}) = IF y \in R THEN Cardinality(R) ELSE Cardinality(R) + 1
    BY <2>1, FS_AddElement
  <2>3. IsFiniteSet(R \cup {y}) /\ Cardinality(R \cup {y}) <= Cardinality(S)
    BY <1>2, <2>1, <2>2
  <2> QED
    BY <2>3 DEF R
<1>4. T \in SUBSET U
  OBVIOUS
<1>5. IsFiniteSet(T) /\ Cardinality(T) <= Cardinality(U)
  <2> HIDE DEF U
  <2> QED
    BY <1>3, <1>4, FS_Subset
<1>6. Cardinality(T) \in Nat /\ Cardinality(U) \in Nat
  BY <1>3, <1>5, FS_CardinalityType
<1> QED
  BY <1>2, <1>3, <1>5, <1>6

\* One more, and one more request.
LEMMA Increased ==
  ASSUME NEW S, IsFiniteSet(S), NEW y, NEW T, T \subseteq S \cup {y},
         NEW A, IsFiniteSet(A), NEW q, q \notin A, Cardinality(S) <= Cardinality(A)
  PROVE  IsFiniteSet(T) /\ Cardinality(T) <= Cardinality(A \cup {q})
<1>1. Cardinality(S) \in Nat /\ Cardinality(A) \in Nat
  BY FS_CardinalityType
<1>2. IsFiniteSet(S \cup {y}) /\ Cardinality(S \cup {y}) <= Cardinality(S) + 1
  BY <1>1, FS_AddElement
<1>3. Cardinality(A \cup {q}) = Cardinality(A) + 1
  BY FS_AddElement
<1>4. IsFiniteSet(T) /\ Cardinality(T) <= Cardinality(S \cup {y})
  BY <1>2, FS_Subset
<1>5. Cardinality(T) \in Nat /\ Cardinality(S \cup {y}) \in Nat
  BY <1>2, <1>4, FS_CardinalityType
<1> QED
  BY <1>1, <1>2, <1>3, <1>4, <1>5

\* Three ways to count no more than before.
LEMMA CountsFewer ==
  ASSUME NEW m, NEW d, Counts(m, d), Tokens(m, d)' \subseteq Tokens(m, d),
         Made(m, d)' = Made(m, d)
  PROVE  Counts(m, d)'
<1> DEFINE S == Tokens(m, d)
           T == Tokens(m, d)'
<1>1. IsFiniteSet(T) /\ Cardinality(T) <= Cardinality(S)
  <2>1. IsFiniteSet(S) /\ T \in SUBSET S
    BY DEF Counts
  <2> HIDE DEF S, T
  <2> QED
    BY <2>1, FS_Subset
<1>2. Cardinality(T) \in Nat /\ Cardinality(S) \in Nat /\ Cardinality(Made(m, d)) \in Nat
  BY <1>1, MadeFinite, FS_CardinalityType DEF Counts
<1>3. Cardinality(S) <= Cardinality(Made(m, d))
  BY DEF Counts
<1> HIDE DEF S
<1>5. Cardinality(T) <= Cardinality(Made(m, d))
  <2> HIDE DEF T
  <2> QED
    BY <1>1, <1>2, <1>3
<1> QED
  BY <1>1, <1>5 DEF Counts

LEMMA CountsExchanged ==
  ASSUME NEW m, NEW d, Counts(m, d), NEW x \in Tokens(m, d), NEW y,
         Tokens(m, d)' \subseteq (Tokens(m, d) \ {x}) \cup {y}, todo' = todo
  PROVE  Counts(m, d)'
<1> DEFINE S == Tokens(m, d)
           T == Tokens(m, d)'
<1>1. IsFiniteSet(T) /\ Cardinality(T) <= Cardinality(S)
  <2>1. IsFiniteSet(S) /\ x \in S /\ T \subseteq (S \ {x}) \cup {y}
    BY DEF Counts
  <2> HIDE DEF S, T
  <2> QED
    BY <2>1, Exchanged
<1>2. Cardinality(T) \in Nat /\ Cardinality(S) \in Nat /\ Cardinality(Made(m, d)) \in Nat
  BY <1>1, MadeFinite, FS_CardinalityType DEF Counts
<1>3. Cardinality(S) <= Cardinality(Made(m, d))
  BY DEF Counts
<1>4. Made(m, d)' = Made(m, d)
  BY DEF Made
<1> HIDE DEF S
<1>5. Cardinality(T) <= Cardinality(Made(m, d))
  <2> HIDE DEF T
  <2> QED
    BY <1>1, <1>2, <1>3
<1> QED
  BY <1>1, <1>4, <1>5 DEF Counts

LEMMA CountsIncreased ==
  ASSUME NEW m, NEW d, Counts(m, d), NEW y, Tokens(m, d)' \subseteq Tokens(m, d) \cup {y},
         NEW b, <<m, d, b>> \in todo, todo \subseteq Requests, todo' = todo \ {<<m, d, b>>}
  PROVE  Counts(m, d)'
<1> DEFINE S == Tokens(m, d)
           T == Tokens(m, d)'
           A == Made(m, d)
<1>1. Made(m, d)' = A \cup {<<m, d, b>>} /\ <<m, d, b>> \notin A
  BY DEF Made
<1>2. IsFiniteSet(A) /\ IsFiniteSet(S) /\ Cardinality(S) <= Cardinality(A)
      /\ T \subseteq S \cup {y}
  BY MadeFinite DEF Counts
<1>3. IsFiniteSet(T) /\ Cardinality(T) <= Cardinality(A \cup {<<m, d, b>>})
  <2> HIDE DEF S, T, A
  <2> QED
    BY <1>1, <1>2, Increased
<1> QED
  BY <1>1, <1>3 DEF Counts

\* A step puts a message of an application into one driver at most, and only one
\* that it may send.
LEMMA AirStep ==
  ASSUME NEW n \in Addresses, NEW M \in SUBSET Messages, NEW r, Takes(n, M, r), NEW m, NEW d
  PROVE  /\ (\A a \in M : ~IsFrom(a, m, d)) => AirIn(rx', m, d) \subseteq AirIn(r, m, d)
         /\ \E j : AirIn(rx', m, d) \subseteq AirIn(r, m, d) \cup {j}
<1>1. ASSUME NEW k \in AirIn(rx', m, d), k \notin AirIn(r, m, d)
      PROVE  /\ k \in Addresses /\ rx'[k] # r[k] /\ rx'[k].msg.type = "app"
             /\ \E a \in M : IsFrom(a, m, d)
  <2>1. k \in Addresses /\ IsFrom(rx'[k].msg, m, d)
    BY <1>1 DEF AirIn
  <2>2. rx'[k] # r[k]
    BY <1>1, <2>1 DEF AirIn
  <2>3. PICK a \in M : rx'[k] = Frame(n, a)
    BY <2>1, <2>2 DEF Takes, Fills
  <2>4. rx'[k].msg = a
    BY <2>3, FrameFields
  <2> QED
    BY <2>1, <2>2, <2>4 DEF IsFrom
<1>2. (\A a \in M : ~IsFrom(a, m, d)) => AirIn(rx', m, d) \subseteq AirIn(r, m, d)
  BY <1>1
<1>3. \E j : AirIn(rx', m, d) \subseteq AirIn(r, m, d) \cup {j}
  <2>1. CASE AirIn(rx', m, d) \subseteq AirIn(r, m, d)
    BY <2>1
  <2>2. CASE ~(AirIn(rx', m, d) \subseteq AirIn(r, m, d))
    <3>1. PICK j \in AirIn(rx', m, d) : j \notin AirIn(r, m, d)
      BY <2>2
    <3>2. \A k \in AirIn(rx', m, d) : k \in AirIn(r, m, d) \/ k = j
      BY <1>1, <3>1 DEF Takes, AppOnce
    <3> QED
      BY <3>2
  <2> QED
    BY <2>1, <2>2
<1> QED
  BY <1>2, <1>3

\* What n has received is no longer in its driver.
LEMMA AirWithout ==
  ASSUME Sound, NEW n \in Addresses, NEW m, NEW d
  PROVE  AirIn(Without(n), m, d) = AirIn(rx, m, d) \ {n}
<1>1. Without(n)[n] = NoFrame /\ \A k \in Addresses \ {n} : Without(n)[k] = rx[k]
  BY DEF Sound, Drivers, Without
<1>2. ~IsFrom(NoFrame.msg, m, d)
  BY DEF IsFrom, NoFrame
<1> QED
  BY <1>1, <1>2 DEF AirIn

LEMMA CountsAtSend ==
  ASSUME Sound, NEW n \in Addresses, NEW e \in Addresses, NEW empty, SendtoWait(n, e, empty),
         empty \in BOOLEAN, NEW m \in Addresses, NEW d \in Addresses, Counts(m, d)
  PROVE  Counts(m, d)'
<1> DEFINE a == App(n, e, empty)
           q == Request(n, e, <<>>)
<1>1. /\ call[n] = Idle /\ got' = got
      /\ <<n, e, empty>> \in todo /\ todo' = todo \ {<<n, e, empty>>} /\ todo \subseteq Requests
  BY SendStep DEF Sound
<1>2. /\ a \in Messages /\ q \in Messages /\ a.source = n /\ a.dest = e /\ q.type = "request"
  <2>1. <<>> \in Seq(Addresses)
    OBVIOUS
  <2>2. a \in Messages /\ q \in Messages
    BY <2>1, NewMessages
  <2> QED
    BY <2>2 DEF App, Request
<1>3. \/ Takes(n, {a}, rx) /\ call' = [call EXCEPT ![n] = Idle]
      \/ Takes(n, {q}, rx) /\ call' = [call EXCEPT ![n] = Waits(e, empty, TRUE)]
  BY SendStep
<1>4. /\ Idle.pc # "arp" /\ Waits(e, empty, TRUE).target = e
      /\ ~IsFrom(q, m, d) /\ (IsFrom(a, m, d) => m = n /\ d = e)
  BY <1>2 DEF Idle, Waits, IsFrom
<1>5. Gotten(m, d)' = Gotten(m, d)
  BY <1>1 DEF Gotten
<1> HIDE DEF a, q
<1>6. call \in [Addresses -> Calls]
  BY DEF Sound
<1>7. /\ m = n /\ d = e => \E y : Tokens(m, d)' \subseteq Tokens(m, d) \cup {y}
      /\ ~(m = n /\ d = e) => Tokens(m, d)' \subseteq Tokens(m, d)
  <2>1. CASE Takes(n, {a}, rx) /\ call' = [call EXCEPT ![n] = Idle]
    <3>1. Waiting(m, d)' \subseteq Waiting(m, d)
      BY <1>4, <1>6, <2>1 DEF Waiting
    <3>2. PICK j : AirIn(rx', m, d) \subseteq AirIn(rx, m, d) \cup {j}
      BY <1>2, <2>1, AirStep
    <3>3. ~(m = n /\ d = e) => AirIn(rx', m, d) \subseteq AirIn(rx, m, d)
      BY <1>2, <1>4, <2>1, AirStep
    <3>4. Tokens(m, d)' \subseteq Tokens(m, d) \cup {<<"air", j>>}
      BY <1>5, <3>1, <3>2 DEF Tokens, AirIn
    <3>5. ~(m = n /\ d = e) => Tokens(m, d)' \subseteq Tokens(m, d)
      BY <1>5, <3>1, <3>3 DEF Tokens, AirIn
    <3> QED
      BY <3>4, <3>5
  <2>2. CASE Takes(n, {q}, rx) /\ call' = [call EXCEPT ![n] = Waits(e, empty, TRUE)]
    <3>1. AirIn(rx', m, d) \subseteq AirIn(rx, m, d)
      BY <1>2, <1>4, <2>2, AirStep
    <3>2. Waiting(m, d)' \subseteq Waiting(m, d) \cup {n}
      BY <1>6, <2>2 DEF Waiting
    <3>3. ~(m = n /\ d = e) => Waiting(m, d)' \subseteq Waiting(m, d)
      BY <1>4, <1>6, <2>2 DEF Waiting
    <3>4. Tokens(m, d)' \subseteq Tokens(m, d) \cup {<<"arp", n>>}
      BY <1>5, <3>1, <3>2 DEF Tokens, AirIn
    <3>5. ~(m = n /\ d = e) => Tokens(m, d)' \subseteq Tokens(m, d)
      BY <1>5, <3>1, <3>3 DEF Tokens, AirIn
    <3> QED
      BY <3>4, <3>5
  <2> QED
    BY <1>3, <2>1, <2>2
<1>8. CASE m = n /\ d = e
  BY <1>1, <1>7, <1>8, CountsIncreased, Zenon
<1>9. CASE ~(m = n /\ d = e)
  <2>1. Made(m, d)' = Made(m, d)
    BY <1>1, <1>9 DEF Made
  <2> QED
    BY <1>7, <1>9, <2>1, CountsFewer
<1> QED
  BY <1>8, <1>9

\* What is sent because of a frame is the message in it, or none that is counted.
LEMMA CountsPassedOn ==
  ASSUME Sound, NEW n \in Addresses, NEW M \in SUBSET Messages, Takes(n, M, Without(n)),
         NEW m \in Addresses, NEW d \in Addresses, Counts(m, d),
         \A a \in M : IsFrom(a, m, d) => IsFrom(rx[n].msg, m, d),
         todo' = todo, Gotten(m, d)' = Gotten(m, d), Waiting(m, d)' \subseteq Waiting(m, d)
  PROVE  Counts(m, d)'
<1>1. AirIn(Without(n), m, d) = AirIn(rx, m, d) \ {n}
  BY AirWithout
<1>2. CASE IsFrom(rx[n].msg, m, d)
  <2>1. PICK j : AirIn(rx', m, d) \subseteq AirIn(Without(n), m, d) \cup {j}
    BY AirStep
  <2>2. <<"air", n>> \in Tokens(m, d)
    BY <1>2 DEF Tokens, AirIn
  <2>3. Tokens(m, d)' \subseteq (Tokens(m, d) \ {<<"air", n>>}) \cup {<<"air", j>>}
    BY <1>1, <2>1 DEF Tokens, AirIn
  <2> QED
    BY <2>2, <2>3, CountsExchanged
<1>3. CASE ~IsFrom(rx[n].msg, m, d)
  <2>1. AirIn(rx', m, d) \subseteq AirIn(Without(n), m, d)
    BY <1>3, AirStep
  <2>2. Tokens(m, d)' \subseteq Tokens(m, d)
    BY <1>1, <2>1 DEF Tokens, AirIn
  <2>3. Made(m, d)' = Made(m, d)
    BY DEF Made
  <2> QED
    BY <2>2, <2>3, CountsFewer
<1> QED
  BY <1>2, <1>3

LEMMA CountsAtArp ==
  ASSUME Sound, NEW n \in Addresses, DoArp(n), NEW m \in Addresses, NEW d \in Addresses,
         Counts(m, d)
  PROVE  Counts(m, d)'
<1> DEFINE a == App(n, call[n].target, call[n].empty)
           M == Forwarded(rx[n])
<1>1. call[n].pc = "arp" /\ rx[n] # NoFrame /\ todo' = todo /\ got' = got
  BY ArpStep
<1>2. Gotten(m, d)' = Gotten(m, d)
  BY <1>1 DEF Gotten
<1>3. call \in [Addresses -> Calls]
  BY DEF Sound
<1>4. CASE /\ Takes(n, M, Without(n))
           /\ \E room \in BOOLEAN :
                call' = [call EXCEPT ![n] = Waits(call[n].target, call[n].empty, room)]
  <2>1. PICK room \in BOOLEAN :
          call' = [call EXCEPT ![n] = Waits(call[n].target, call[n].empty, room)]
    BY <1>4
  <2>2. Waiting(m, d)' \subseteq Waiting(m, d)
    BY <1>1, <1>3, <2>1 DEF Waiting, Waits
  <2>3. M \in SUBSET Messages /\ \A b \in M : IsFrom(b, m, d) => IsFrom(rx[n].msg, m, d)
    BY DEF Forwarded, IsFrom
  <2> HIDE DEF M
  <2> QED
    BY <1>1, <1>2, <1>4, <2>2, <2>3, CountsPassedOn
<1>5. CASE /\ rx[n].msg.type = "response"
           /\ Takes(n, {a}, Without(n)) /\ call' = [call EXCEPT ![n] = Idle]
  <2>1. a \in Messages /\ (IsFrom(a, m, d) => m = n /\ d = call[n].target)
    <3>1. a \in Messages
      BY <1>1, WaitFields, NewMessages
    <3> QED
      BY <3>1 DEF IsFrom, App
  <2>2. Waiting(m, d)' \subseteq Waiting(m, d) \ {n}
    BY <1>3, <1>5 DEF Waiting, Idle
  <2>3. ~IsFrom(rx[n].msg, m, d)
    BY <1>5 DEF IsFrom
  <2> HIDE DEF a
  <2>4. CASE m = n /\ d = call[n].target
    <3>1. PICK j : AirIn(rx', m, d) \subseteq AirIn(Without(n), m, d) \cup {j}
      BY <1>5, <2>1, AirStep
    <3>2. AirIn(Without(n), m, d) \subseteq AirIn(rx, m, d)
      BY AirWithout
    <3>3. <<"arp", n>> \in Tokens(m, d)
      BY <1>1, <2>4 DEF Tokens, Waiting
    <3>4. Tokens(m, d)' \subseteq (Tokens(m, d) \ {<<"arp", n>>}) \cup {<<"air", j>>}
      BY <1>2, <2>2, <3>1, <3>2 DEF Tokens, AirIn
    <3> QED
      BY <1>1, <3>3, <3>4, CountsExchanged
  <2>5. CASE ~(m = n /\ d = call[n].target)
    <3>1. \A b \in {a} : IsFrom(b, m, d) => IsFrom(rx[n].msg, m, d)
      BY <2>1, <2>5
    <3>2. {a} \in SUBSET Messages /\ Waiting(m, d)' \subseteq Waiting(m, d)
      BY <2>1, <2>2
    <3> QED
      BY <1>1, <1>2, <1>5, <3>1, <3>2, CountsPassedOn
  <2> QED
    BY <2>4, <2>5
<1>6. \/ /\ Takes(n, M, Without(n))
         /\ \E room \in BOOLEAN :
              call' = [call EXCEPT ![n] = Waits(call[n].target, call[n].empty, room)]
      \/ /\ rx[n].msg.type = "response"
         /\ Takes(n, {a}, Without(n)) /\ call' = [call EXCEPT ![n] = Idle]
  BY ArpStep
<1> HIDE DEF M, a
<1> QED
  BY <1>4, <1>5, <1>6

LEMMA CountsAtReceive ==
  ASSUME Sound, NEW n \in Addresses, RecvfromAck(n), NEW m \in Addresses, NEW d \in Addresses,
         Counts(m, d)
  PROVE  Counts(m, d)'
<1> DEFINE f == rx[n]
<1>1. call' = call /\ f # NoFrame /\ todo' = todo
  BY ReceiveStep
<1>2. Waiting(m, d)' \subseteq Waiting(m, d)
  BY <1>1 DEF Waiting
<1>3. ASSUME NEW M \in SUBSET Messages, Takes(n, M, Without(n)), got' = got,
             \A a \in M : IsFrom(a, m, d) => IsFrom(rx[n].msg, m, d)
      PROVE  Counts(m, d)'
  <2>1. Gotten(m, d)' = Gotten(m, d)
    BY <1>3 DEF Gotten
  <2> QED
    BY <1>1, <1>2, <1>3, <2>1, CountsPassedOn
<1>4. CASE Takes(n, Forwarded(f), Without(n)) /\ got' = got
  <2>1. /\ Forwarded(f) \in SUBSET Messages
        /\ \A a \in Forwarded(f) : IsFrom(a, m, d) => IsFrom(rx[n].msg, m, d)
    BY DEF Forwarded, IsFrom
  <2> QED
    BY <1>3, <1>4, <2>1
<1>5. CASE Takes(n, Answered(n, f), Without(n)) /\ got' = got
  <2>1. \A a \in Answered(n, f) : a.type # "app"
    BY DEF Answered, Request
  <2>2. /\ Answered(n, f) \in SUBSET Messages
        /\ \A a \in Answered(n, f) : IsFrom(a, m, d) => IsFrom(rx[n].msg, m, d)
    BY <2>1 DEF Answered, IsFrom
  <2> QED
    BY <1>3, <1>5, <2>2
<1>6. CASE /\ f.msg.type = "app" /\ f.msg.dest = n
           /\ Takes(n, {}, Without(n))
           /\ got' = [got EXCEPT ![n] = Append(@, f.msg.source)]
  <2>1. got \in [Addresses -> Seq(Addresses)] /\ f.msg.source \in Addresses
    BY <1>1, ReceivedFields, MessageFields DEF Sound
  <2>2. AirIn(rx', m, d) \subseteq AirIn(rx, m, d) \ {n}
    <3>1. {} \in SUBSET Messages /\ \A a \in {} : ~IsFrom(a, m, d)
      OBVIOUS
    <3>2. AirIn(rx', m, d) \subseteq AirIn(Without(n), m, d)
      BY <1>6, <3>1, AirStep
    <3> QED
      BY <3>2, AirWithout
  <2>3. CASE m = f.msg.source /\ d = n
    <3> DEFINE l == Len(got[n]) + 1
    <3>1. Gotten(m, d)' \subseteq Gotten(m, d) \cup {l}
      <4>1. got'[n] = Append(got[n], f.msg.source)
        BY <1>6, <2>1
      <4>2. /\ got[n] \in Seq(Addresses) /\ DOMAIN got'[n] = 1 .. l
            /\ \A i \in 1 .. Len(got[n]) : got'[n][i] = got[n][i]
        BY <2>1, <4>1
      <4> QED
        BY <2>3, <4>2 DEF Gotten
    <3>2. <<"air", n>> \in Tokens(m, d)
      BY <1>6, <2>3 DEF Tokens, AirIn, IsFrom
    <3> HIDE DEF l
    <3>3. Tokens(m, d)' \subseteq (Tokens(m, d) \ {<<"air", n>>}) \cup {<<"got", l>>}
      BY <1>2, <2>2, <3>1 DEF Tokens, AirIn
    <3> QED
      BY <1>1, <3>2, <3>3, CountsExchanged
  <2>4. CASE ~(m = f.msg.source /\ d = n)
    <3>1. Gotten(m, d)' \subseteq Gotten(m, d)
      <4>1. CASE d # n
        BY <1>6, <2>1, <4>1 DEF Gotten
      <4>2. CASE d = n /\ m # f.msg.source
        <5>1. got'[n] = Append(got[n], f.msg.source)
          BY <1>6, <2>1
        <5>2. /\ got[n] \in Seq(Addresses) /\ DOMAIN got'[n] = 1 .. (Len(got[n]) + 1)
              /\ \A i \in 1 .. Len(got[n]) : got'[n][i] = got[n][i]
              /\ got'[n][Len(got[n]) + 1] = f.msg.source
          BY <2>1, <5>1
        <5> QED
          BY <4>2, <5>2 DEF Gotten
      <4> QED
        BY <2>4, <4>1, <4>2
    <3>2. Tokens(m, d)' \subseteq Tokens(m, d)
      BY <1>2, <2>2, <3>1 DEF Tokens, AirIn
    <3>3. Made(m, d)' = Made(m, d)
      BY <1>1 DEF Made
    <3> QED
      BY <3>2, <3>3, CountsFewer
  <2> QED
    BY <2>3, <2>4
<1>7. \/ Takes(n, Forwarded(f), Without(n)) /\ got' = got
      \/ Takes(n, Answered(n, f), Without(n)) /\ got' = got
      \/ /\ f.msg.type = "app" /\ f.msg.dest = n
         /\ Takes(n, {}, Without(n))
         /\ got' = [got EXCEPT ![n] = Append(@, f.msg.source)]
  BY ReceiveStep
<1> QED
  BY <1>4, <1>5, <1>6, <1>7

LEMMA CountsStep ==
  ASSUME Sound, AllCounted, [Next]_vars
  PROVE  AllCounted'
<1> SUFFICES ASSUME NEW m \in Addresses, NEW d \in Addresses
             PROVE  Counts(m, d)'
  BY DEF AllCounted
<1>0. Counts(m, d)
  BY DEF AllCounted
<1>s. ASSUME NEW n \in Addresses, NEW e \in Addresses, NEW empty, empty \in BOOLEAN,
             SendtoWait(n, e, empty)
      PROVE  Counts(m, d)'
  BY <1>0, <1>s, CountsAtSend
<1>1. ASSUME NEW n \in Addresses, NEW e \in Addresses, NEW empty \in BOOLEAN,
             SendtoWait(n, e, empty)
      PROVE  Counts(m, d)'
  BY <1>s, <1>1
<1>2. ASSUME NEW n \in Addresses, DoArp(n) PROVE Counts(m, d)'
  BY <1>0, <1>2, CountsAtArp
<1>3. ASSUME NEW n \in Addresses, ArpTimeout(n) PROVE Counts(m, d)'
  <2>1. call \in [Addresses -> Calls]
    BY DEF Sound
  <2>2. call' = [call EXCEPT ![n] = Idle] /\ rx' = rx /\ todo' = todo /\ got' = got
    BY <1>3 DEF ArpTimeout
  <2>3. Waiting(m, d)' \subseteq Waiting(m, d)
    BY <2>1, <2>2 DEF Waiting, Idle
  <2>4. Tokens(m, d)' \subseteq Tokens(m, d) /\ Made(m, d)' = Made(m, d)
    BY <2>2, <2>3 DEF Tokens, Gotten, Made
  <2> QED
    BY <1>0, <2>4, CountsFewer
<1>4. ASSUME NEW n \in Addresses, RecvfromAck(n) PROVE Counts(m, d)'
  BY <1>0, <1>4, CountsAtReceive
<1>5. CASE UNCHANGED vars
  <2>1. Tokens(m, d)' \subseteq Tokens(m, d) /\ Made(m, d)' = Made(m, d)
    BY <1>5 DEF vars, Tokens, Gotten, AirIn, Waiting, Made
  <2> QED
    BY <1>0, <2>1, CountsFewer
<1> QED
  BY <1>1, <1>2, <1>3, <1>4, <1>5 DEF Next

LEMMA CountedAtFirst ==
  ASSUME Init
  PROVE  AllCounted
<1> SUFFICES ASSUME NEW m \in Addresses, NEW d \in Addresses
             PROVE  Counts(m, d)
  BY DEF AllCounted
<1>1. Gotten(m, d) = {} /\ AirIn(rx, m, d) = {} /\ Waiting(m, d) = {}
  BY DEF Init, Gotten, AirIn, Waiting, IsFrom, NoFrame, Idle
<1>2. Tokens(m, d) = {}
  BY <1>1 DEF Tokens
<1>3. IsFiniteSet(Tokens(m, d)) /\ Cardinality(Tokens(m, d)) = 0
  BY <1>2, FS_EmptySet
<1> QED
  BY <1>3, MadeFinite DEF Counts

\* No node's application is handed more messages from another than that one has
\* sent: nothing that retries, duplicates or passes messages on (RHRouter.cpp:
\* 254-290, RHMesh.cpp:116-137) multiplies one.
THEOREM NothingMultiplied == Spec => []NotMultiplied
<1>1. Init => Sound /\ AllCounted
  BY SoundAtFirst, CountedAtFirst
<1>2. Sound /\ AllCounted /\ [Next]_vars => Sound' /\ AllCounted'
  BY SoundKept, CountsStep
<1>3. Sound /\ AllCounted => NotMultiplied
  <2> SUFFICES ASSUME Sound, AllCounted, NEW n \in Addresses, NEW m \in Addresses
               PROVE  Cardinality(Gotten(m, n)) <= Cardinality(Made(m, n))
    BY Zenon DEF NotMultiplied, Gotten, Made
  <2> DEFINE G == Gotten(m, n)
             T == Tokens(m, n)
             f == [i \in G |-> <<"got", i>>]
  <2>1. IsFiniteSet(T) /\ Cardinality(T) <= Cardinality(Made(m, n))
    BY DEF AllCounted, Counts
  <2>2. f \in Injection(G, T)
    <3>1. f \in [G -> T]
      BY DEF Tokens
    <3>2. \A i, j \in G : f[i] = f[j] => i = j
      OBVIOUS
    <3> HIDE DEF f, G, T
    <3> QED
      BY <3>1, <3>2 DEF Injection, IsInjective
  <2>3. IsFiniteSet(G) /\ Cardinality(G) <= Cardinality(T)
    <3> HIDE DEF f, G, T
    <3> QED
      BY <2>1, <2>2, FS_Injection
  <2>4. Cardinality(G) \in Nat /\ Cardinality(T) \in Nat /\ Cardinality(Made(m, n)) \in Nat
    <3> HIDE DEF G, T
    <3> QED
      BY <2>1, <2>3, MadeFinite, FS_CardinalityType
  <2> HIDE DEF T
  <2> QED
    BY <2>1, <2>3, <2>4
<1> QED
  BY <1>1, <1>2, <1>3, PTL DEF Spec
=============================================================================
