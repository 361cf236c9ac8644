----------------------------- MODULE RouteTable -----------------------------
(***************************************************************************)
(* The routing table of RadioHead's RHRouter: an array of Size entries,    *)
(* searched from its beginning. Entries that are not valid keep their      *)
(* addresses. RouteState's third value, Discovering, is never assigned.    *)
(***************************************************************************)
EXTENDS Integers, FiniteSets, FiniteSetsExt

CONSTANTS
  Addresses,  \* of nodes, as they occur in entries
  NoAddress,  \* what an entry that was never written holds (0)
  Size        \* RH_ROUTING_TABLE_SIZE

ASSUME TableAssumption == Size \in Nat \ {0} /\ NoAddress \notin Addresses

Slots == 1 .. Size

Entries == [dest : Addresses \cup {NoAddress}, next : Addresses \cup {NoAddress},
            valid : BOOLEAN]

Tables == [Slots -> Entries]

\* clearRoutingTable, in the memory of a static object.
EmptyTable == [i \in Slots |-> [dest |-> NoAddress, next |-> NoAddress, valid |-> FALSE]]

About(t, d) == {i \in Slots : t[i].dest = d}
Invalid(t) == {i \in Slots : ~t[i].valid}
ValidTo(t, d) == About(t, d) \ Invalid(t)

HasRoute(t, d) == ValidTo(t, d) # {}

\* The entries one of which, the first, is replaced when there are any.
Updated(t, d) == About(t, d)

\* getRouteTo
NextHop(t, d) == t[Min(ValidTo(t, d))].next

\* deleteRoute: later entries move up, the last keeps a copy that is invalid.
DeleteRoute(t, k) ==
  [i \in Slots |-> IF i = Size THEN [t[i] EXCEPT !.valid = FALSE]
                   ELSE IF i < k THEN t[i] ELSE t[i + 1]]

DeleteRouteTo(t, d) == IF About(t, d) = {} THEN t ELSE DeleteRoute(t, Min(About(t, d)))

\* addRouteTo: the entry of that destination, or the first invalid one; when
\* there is neither the oldest is retired and every invalid entry filled.
AddRouteTo(t, d, n) ==
  LET e == [dest |-> d, next |-> n, valid |-> TRUE]
      r == DeleteRoute(t, 1)
  IN  IF Updated(t, d) # {} THEN [t EXCEPT ![Min(Updated(t, d))] = e]
      ELSE IF Invalid(t) # {} THEN [t EXCEPT ![Min(Invalid(t))] = e]
      ELSE [i \in Slots |-> IF i \in Invalid(r) THEN e ELSE r[i]]

\* At most one valid entry for each destination, and no entry for it before
\* that: the searches that take the first entry whatever its state
\* (deleteRouteTo, addRouteTo) and the one that wants a valid one (getRouteTo)
\* agree on it.
FirstIsValid(t) ==
  \A i, j \in Slots : (i < j /\ t[i].dest = t[j].dest) => ~t[j].valid
=============================================================================
