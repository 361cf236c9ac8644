-------------------------------- MODULE Mesh --------------------------------
(***************************************************************************)
(* RadioHead's RHMesh over RHRouter: routes discovered by flooding a       *)
(* request, responses that teach the nodes they pass, failures reported    *)
(* to the originator.                                                      *)
(*                                                                         *)
(* A node runs one thing at a time: an application that polls recvfromAck, *)
(* or a sendtoWait in which it waits for the answer to its discovery. What *)
(* happens to one received message, the messages sent because of it        *)
(* included, is a step. The reliable datagrams below are abstracted to     *)
(* their outcomes: a frame reaches the one place the next node's driver    *)
(* has or not, and the sender is told that it has, or not.                 *)
(***************************************************************************)
EXTENDS RouteTable, Sequences, SequencesExt

CONSTANTS
  Broadcast,    \* RH_BROADCAST_ADDRESS
  TestNetwork,  \* RH_TEST_NETWORK, 0 if undefined; nodes are 1, 2, ...
  MaxHops,      \* _max_hops
  Requests,     \* calls of sendtoWait: from, to, whether the message is empty
  MaxLosses     \* bound: frames or acknowledgements lost

ASSUME MeshAssumption ==
  /\ Addresses \subseteq Nat \ {0} /\ IsFiniteSet(Addresses)
  /\ Broadcast \notin Addresses
  /\ MaxHops \in Nat /\ MaxLosses \in Nat
  /\ Requests \subseteq Addresses \X Addresses \X BOOLEAN

VARIABLES
  rx,      \* frame in the driver of each node
  table,   \* routing table of each node
  call,    \* sendtoWait in progress at each node
  todo,    \* requests not made yet
  got,     \* application messages returned by recvfromAck, at each node
  losses

vars == <<rx, table, call, todo, got, losses>>

\* What recvfromAck of RHReliableDatagram returns: a message and headerFrom().
Frame(n, m) == [from |-> n, msg |-> m]
NoFrame == [msg |-> [type |-> "none"]]
Idle == [pc |-> "idle"]

App(n, d, empty) ==
  [type |-> "app", source |-> n, dest |-> d, hops |-> 0, empty |-> empty]
Request(n, target, path) ==
  [type |-> "request", source |-> n, dest |-> Broadcast, hops |-> 0,
   target |-> target, path |-> path]
Response(n, d, target, path) ==
  [type |-> "response", source |-> n, dest |-> d, hops |-> 0,
   target |-> target, path |-> path]
Failure(n, d, target) ==
  [type |-> "failure", source |-> n, dest |-> d, hops |-> 0, target |-> target]

\* The networks RH_TEST_NETWORK simulates: whose messages n does not ignore.
Visible(n, from) ==
  CASE TestNetwork = 0 -> TRUE
    [] TestNetwork = 1 -> n - from \in {-1, 1}
    [] TestNetwork = 2 -> {n, from} # {1, 4}
    [] TestNetwork = 3 -> {n, from} \notin {{1, 4}, {2, 3}}
    [] TestNetwork = 4 -> 2 \in {n, from}

-----------------------------------------------------------------------------
Init ==
  /\ rx = [n \in Addresses |-> NoFrame]
  /\ table = [n \in Addresses |-> EmptyTable]
  /\ call = [n \in Addresses |-> Idle]
  /\ todo = Requests
  /\ got = [n \in Addresses |-> <<>>]
  /\ losses = 0

-----------------------------------------------------------------------------
(* Sending. What may follow is a set of outcomes: whether the sender is told *)
(* of success, the drivers, its table and how many frames were lost.         *)

\* RHReliableDatagram::sendtoWait to one node. It can also fail because the
\* other node does nothing but send to somebody itself, and the sender may not
\* be told that the frame has arrived.
Link(n, m, hop, r, t) ==
  LET free == r[hop] = NoFrame
      gone == [ok |-> FALSE, rx |-> r, table |-> t, lost |-> IF free THEN 1 ELSE 0]
      arrived == [gone EXCEPT !.rx = [r EXCEPT ![hop] = Frame(n, m)]]
  IN  {gone} \cup IF free THEN {arrived, [arrived EXCEPT !.ok = TRUE, !.lost = 0]} ELSE {}

\* The same to all: nodes that hold another frame do not hear it.
Flood(n, m, r, t) ==
  LET free == {k \in Addresses \ {n} : r[k] = NoFrame}
  IN  {[ok |-> TRUE, rx |-> [k \in Addresses |-> IF k \in heard THEN Frame(n, m) ELSE r[k]],
        table |-> t, lost |-> Cardinality(free \ heard)] : heard \in SUBSET free}

\* RHRouter::route
RouterRoute(n, m, r, t) ==
  IF m.dest = Broadcast THEN Flood(n, m, r, t)
  ELSE IF HasRoute(t, m.dest) THEN Link(n, m, NextHop(t, m.dest), r, t)
  ELSE {[ok |-> FALSE, rx |-> r, table |-> t, lost |-> 0]}

Forget(t, d) == DeleteRouteTo(t, d)

\* RHMesh::route for a message of this node's own.
RouteOwn(n, m, r, t) ==
  {IF o.ok THEN o ELSE [o EXCEPT !.table = Forget(@, m.dest)] : o \in RouterRoute(n, m, r, t)}

\* RHMesh::route for a message that came from neighbour from: when it cannot be
\* delivered its originator is told, by way of that neighbour.
RouteProxied(n, m, from, r, t) ==
  UNION {IF o.ok \/ m.source = n THEN {o}
         ELSE {[p EXCEPT !.lost = @ + o.lost] :
                 p \in RouteOwn(n, Failure(n, m.source, m.dest), o.rx,
                                AddRouteTo(o.table, m.source, from))} :
         o \in RouteOwn(n, m, r, t)}

\* One of the outcomes, after which the call at n is c.
Take(n, outcomes, c) ==
  \E o \in outcomes :
    /\ losses + o.lost <= MaxLosses
    /\ losses' = losses + o.lost
    /\ rx' = o.rx
    /\ table' = [table EXCEPT ![n] = o.table]
    /\ call' = [call EXCEPT ![n] = c]

Quietly(r, t) == {[ok |-> TRUE, rx |-> r, table |-> t, lost |-> 0]}

-----------------------------------------------------------------------------
(* Receiving *)

Without(n) == [rx EXCEPT ![n] = NoFrame]

\* Mutant of Via: the hop is taken from the message, not from the header of
\* the datagram it came in.
ViaSource(f) == f.msg.source

Via(f) == f.from

AddAll(t, dests, hop) == FoldLeft(LAMBDA u, d : AddRouteTo(u, d, hop), t, dests)

\* RHMesh::peekAtMessage. The loop over the nodes between here and the
\* responder begins one too far and ends one too far: the next hop is not among
\* them, and a byte behind the message is (junk).
Peek(n, f, t, junk) ==
  LET m == f.msg
      u == AddRouteTo(t, m.target, Via(f))
      here == {i \in DOMAIN m.path : m.path[i] = n}
      i == IF here = {} THEN Len(m.path) + 1 ELSE Min(here)
  IN  CASE m.type = "failure" -> Forget(t, m.target)
        [] m.type = "response" ->
             IF i >= Len(m.path) THEN u
             ELSE AddAll(u, Append(SubSeq(m.path, i + 2, Len(m.path)), junk), Via(f))
        [] OTHER -> t

\* Mutant of ForMe: an overheard message is taken.
ForMeToo(n, m) == m.dest \in {n, Broadcast} \/ m.type = "app"

ForMe(n, m) == m.dest \in {n, Broadcast}

\* Mutant of Counted: hops are not counted.
CountedNot(h) == h

\* hops++ < _max_hops
Counted(h) == h + 1
MayHop(m) == m.hops < MaxHops

\* RHRouter::recvfromAck, for a message that is not for n.
PassOn(n, f, r, t) ==
  IF MayHop(f.msg)
  THEN RouteProxied(n, [f.msg EXCEPT !.hops = Counted(@)], Via(f), r, t)
  ELSE Quietly(r, t)

\* Mutant of Seen: the list of nodes visited is not looked at.
SeenOwnOnly(n, m) == m.source = n

Seen(n, m) == m.source = n \/ n \in Range(m.path)

\* RHMesh::recvfromAck, for a discovery request.
Discover(n, f, r, t) ==
  LET m == f.msg
      u == AddAll(AddRouteTo(t, m.source, Via(f)), m.path, Via(f))
  IN  IF Seen(n, m) THEN Quietly(r, t)
      ELSE IF m.target = n
           THEN RouteOwn(n, Response(n, m.source, m.target, m.path), r, u)
      ELSE IF Len(m.path) < MaxHops
           THEN RouteOwn(n, Request(m.source, m.target, Append(m.path, n)), r, u)
      ELSE Quietly(r, u)

\* What a byte behind a response may hold.
Junk(f) == IF f.msg.type = "response" THEN Addresses \cup {NoAddress} ELSE {NoAddress}

-----------------------------------------------------------------------------
(* RHMesh::sendtoWait *)

\* With a route, or by discovering one: doArp begins. c.room tells whether the
\* length variable that limits what doArp copies is still above 1.
SendtoWait(n, d, empty) ==
  /\ call[n] = Idle /\ <<n, d, empty>> \in todo
  /\ todo' = todo \ {<<n, d, empty>>}
  /\ IF HasRoute(table[n], d)
     THEN Take(n, RouteOwn(n, App(n, d, empty), rx, table[n]), Idle)
     ELSE Take(n, RouteOwn(n, Request(n, d, <<>>), rx, table[n]),
               [pc |-> "arp", target |-> d, empty |-> empty, room |-> TRUE])
  /\ UNCHANGED got

Answers(n, m) == m.type = "response" /\ call[n].room

\* doArp receives: a response, whatever it is a response to, ends the
\* discovery and the message is sent; messages for others are passed on; what
\* else is for this node is lost.
DoArp(n) ==
  /\ call[n].pc = "arp" /\ rx[n] # NoFrame
  /\ \E junk \in Junk(rx[n]) :
       LET f == rx[n]
           c == call[n]
           t == Peek(n, f, table[n], junk)
       IN  IF ~Visible(n, f.from) THEN Take(n, Quietly(Without(n), table[n]), c)
           ELSE IF ~ForMe(n, f.msg) THEN Take(n, PassOn(n, f, Without(n), t), c)
           ELSE IF Answers(n, f.msg)
                THEN Take(n, RouteOwn(n, App(n, c.target, c.empty), Without(n),
                                      AddRouteTo(t, c.target, Via(f))), Idle)
           ELSE Take(n, Quietly(Without(n), t),
                     [c EXCEPT !.room = @ /\ ~(f.msg.type = "app" /\ f.msg.empty)])
  /\ UNCHANGED <<todo, got>>

\* After 4 s: RH_ROUTER_ERROR_NO_ROUTE.
ArpTimeout(n) ==
  /\ call[n].pc = "arp"
  /\ call' = [call EXCEPT ![n] = Idle]
  /\ UNCHANGED <<rx, table, todo, got, losses>>

-----------------------------------------------------------------------------
(* RHMesh::recvfromAck, called by the application *)

RecvfromAck(n) ==
  /\ call[n] = Idle /\ rx[n] # NoFrame
  /\ \E junk \in Junk(rx[n]) :
       LET f == rx[n]
           t == Peek(n, f, table[n], junk)
       IN  /\ IF ~Visible(n, f.from) THEN Take(n, Quietly(Without(n), table[n]), Idle)
              ELSE IF ~ForMe(n, f.msg) THEN Take(n, PassOn(n, f, Without(n), t), Idle)
              ELSE IF f.msg.type = "request" THEN Take(n, Discover(n, f, Without(n), t), Idle)
              ELSE Take(n, Quietly(Without(n), t), Idle)
           /\ got' = IF Visible(n, f.from) /\ ForMe(n, f.msg) /\ f.msg.type = "app"
                     THEN [got EXCEPT ![n] = Append(@, f.msg.source)] ELSE got
  /\ UNCHANGED todo

Next ==
  \E n \in Addresses :
    \/ \E d \in Addresses, empty \in BOOLEAN : SendtoWait(n, d, empty)
    \/ DoArp(n) \/ ArpTimeout(n) \/ RecvfromAck(n)

Spec == Init /\ [][Next]_vars

\* Some node that has a frame to read or a discovery to end goes on.
FairSpec ==
  Spec /\ WF_vars(\E n \in Addresses : ArpTimeout(n) \/ RecvfromAck(n) \/ DoArp(n))

-----------------------------------------------------------------------------
Messages ==
  [type : {"app"}, source : Addresses, dest : Addresses, hops : 0 .. MaxHops, empty : BOOLEAN]
  \cup [type : {"request"}, source : Addresses, dest : {Broadcast}, hops : {0},
         target : Addresses, path : Seq(Addresses)]
  \cup [type : {"response"}, source : Addresses, dest : Addresses, hops : 0 .. MaxHops,
         target : Addresses, path : Seq(Addresses)]
  \cup [type : {"failure"}, source : Addresses, dest : Addresses, hops : 0 .. MaxHops,
         target : Addresses]

TypeOK ==
  /\ \A n \in Addresses : rx[n] \in {NoFrame} \cup [from : Addresses \ {n}, msg : Messages]
  /\ table \in [Addresses -> Tables]
  /\ call \in [Addresses -> {Idle} \cup [pc : {"arp"}, target : Addresses,
                                        empty : BOOLEAN, room : BOOLEAN]]
  /\ todo \subseteq Requests
  /\ got \in [Addresses -> Seq(Addresses)]
  /\ losses \in 0 .. MaxLosses

\* Whatever requests, responses and failures cross, a route's next hop is a node
\* that this one hears.
NextHopHeard ==
  \A n \in Addresses : \A i \in Slots :
    table[n][i].valid => table[n][i].next # n /\ Visible(n, table[n][i].next)

\* The three searches of the table agree on the route to a destination,
\* however routes are added, retired, deleted and added again.
OneRoute == \A n \in Addresses : FirstIsValid(table[n])

\* What concurrent discoveries, failures and returning messages write to the tables
\* (addRouteTo and its callers) can be used to route by, and what is under way is
\* a message of one of the four kinds, no further than it may go.
TablesSound == TypeOK /\ NextHopHeard /\ OneRoute

\* A discovery request has gone from neighbour to neighbour through different
\* nodes, none of them its originator, and no message goes further than it may.
PathIsWalk ==
  \A n \in Addresses : rx[n].msg.type = "request" =>
    LET m == rx[n].msg
        p == <<m.source>> \o m.path
    IN  /\ p[Len(p)] = rx[n].from
        /\ \A i, j \in DOMAIN p : i < j => p[i] # p[j]
        /\ \A i \in 1 .. (Len(p) - 1) : Visible(p[i + 1], p[i])
        /\ Len(m.path) <= MaxHops

\* A message is not multiplied on its way: no application gets more messages
\* from a node than it has sent.
NotMultiplied ==
  \A n, m \in Addresses :
    Cardinality({i \in DOMAIN got[n] : got[n][i] = m})
      <= Cardinality({r \in Requests \ todo : r[1] = m /\ r[2] = n})

\* All traffic ends, whatever wrong routes there are.
EndsQuiet == <>[](\A n \in Addresses : rx[n] = NoFrame /\ call[n] = Idle)
=============================================================================
