------------------------------ MODULE RuleStore ------------------------------
(***************************************************************************)
(* The rule storage of Sensorino/RuleService.h: rules packed one after the *)
(* other into bytes of EEPROM, each as its id, two lengths and two texts,  *)
(* with a byte 0xff after the last and a magic byte after the whole space, *)
(* which is a part of the chip's EEPROM: what lies around it is whatever   *)
(* was there before, and an address beyond the chip's last is one of its   *)
(* first.  One step is one iteration of findRule or one byte written, and  *)
(* power may fail between any two.                                         *)
(*                                                                         *)
(* rules, torn, astray and used are history variables, which no guard      *)
(* reads: the rules that the service has accepted and not deleted, whether *)
(* a failure of power has left something else behind them, whether a       *)
(* deletion has then hit a byte of theirs, and whether there was anything  *)
(* around the space at first.                                              *)
(***************************************************************************)
EXTENDS Integers, Sequences

CONSTANTS
  Chip,       \* bytes of EEPROM
  Base,       \* BASE_ADDR
  Size,       \* RULE_STORE_SIZE
  Width,      \* number of values of a byte
  Magic,      \* the magic byte
  Fresh,      \* what EEPROM may hold before the program's first start
  Ids,        \* COUNT values in requests
  Texts,      \* conditions and actions
  MaxCrashes  \* bound: failures of power

Byte == 0 .. (Width - 1)
Erased == Width - 1                       \* 0xff
Cells == (-Base) .. (Chip - Base - 1)     \* of the EEPROM, as seen from the space
Space == 0 .. Size                        \* with the magic byte

ASSUME StoreAssumption ==
  /\ Base \in Nat \ {0} /\ Size \in Nat \ {0} /\ Chip \in Nat
  /\ Width \in Nat \ {0, 1}
  /\ Base + Size < Chip /\ Size + 2 * Width + 1 < Chip
  /\ Magic \in Byte \ {Erased}
  /\ Fresh \subseteq {m \in [Cells -> Byte] : m[Size] # Magic}
  /\ Ids \subseteq Int
  /\ Texts \subseteq {t \in Seq(Byte) : Len(t) < Width}
  /\ MaxCrashes \in Nat

None == [op |-> "none"]

Parts == {"cond", "act"}

Requests ==
  [op : {"create"}, id : Ids, cond : Texts, act : Texts]
    \cup [op : {"delete", "update"}, id : Ids]
    \cup [op : {"get"}, id : Ids, want : SUBSET (Parts \cup {"other"})]

VARIABLES
  mem,      \* the EEPROM
  pc,       \* what runs: nothing, a walk by findRule, the writing of bytes
  req,      \* the request being served
  offset,   \* of findRule
  todo,     \* the bytes still to be written, each with its place
  err,      \* whether the last request was answered with an ERR
  answer,   \* what the last REQUEST got
  crashes,
  rules, torn, astray, used

history == <<rules, torn, astray, used>>
vars == <<mem, pc, req, offset, todo, err, answer, crashes, history>>

\* The address register holds as many bits as the chip has addresses.
Cell(o) == ((o + Base) % Chip) - Base

\* getByte
At(o) == mem[Cell(o)]

\* An offset that has come round to the same cell is as far beyond the space.
Folded(o) == IF o < Size + Chip THEN o ELSE Size + ((o - Size) % Chip)

EndOf(r) == r.at + 3 + Len(r.cond) + Len(r.act)
Used == IF rules = <<>> THEN 0 ELSE EndOf(rules[Len(rules)])

Init ==
  /\ mem \in Fresh
  /\ pc = "off"
  /\ req = None
  /\ offset = 0
  /\ todo = <<>>
  /\ err = FALSE /\ answer = None
  /\ crashes = 0
  /\ rules = <<>> /\ torn = FALSE /\ astray = FALSE
  /\ used = (\E c \in Cells \ Space : mem[c] # Erased)

-----------------------------------------------------------------------------
(* Start, with validateStore, and failure *)

Reset == <<[at |-> 0, val |-> Erased], [at |-> Size, val |-> Magic]>>

\* Mutant of FirstBytes: the magic is written first.
FirstBytesMagicFirst == <<Reset[2], Reset[1]>>

FirstBytes == Reset

Boot ==
  /\ pc = "off"
  /\ IF At(Size) = Magic
     THEN pc' = "idle" /\ UNCHANGED <<todo, rules, torn, astray>>
     ELSE /\ pc' = "write" /\ todo' = FirstBytes
          /\ rules' = <<>> /\ torn' = FALSE /\ astray' = FALSE
  /\ UNCHANGED <<mem, req, offset, err, answer, crashes, used>>

\* A byte whose writing is cut short may have been erased for it.
Crash ==
  /\ pc # "off" /\ crashes < MaxCrashes
  /\ \/ UNCHANGED mem
     \/ todo # <<>> /\ mem' = [mem EXCEPT ![Cell(Head(todo).at)] = Erased]
  /\ pc' = "off" /\ req' = None /\ todo' = <<>> /\ offset' = 0
  /\ crashes' = crashes + 1
  /\ torn' = (torn \/ (todo # <<>> /\ req # None))
  /\ UNCHANGED <<err, answer, rules, astray, used>>

-----------------------------------------------------------------------------
(* onSet and onRequest *)

\* A message with a COUNT; one without it is only answered.
Ask ==
  /\ pc = "idle"
  /\ req' \in Requests
  /\ pc' = IF req'.op = "get" THEN "types" ELSE "find"
  /\ offset' = 0
  /\ err' = FALSE /\ answer' = None
  /\ UNCHANGED <<mem, todo, crashes, history>>

\* The end of the handler.
Done(refused, a) ==
  /\ pc' = "idle" /\ req' = None /\ offset' = 0
  /\ err' = refused /\ answer' = a
  /\ UNCHANGED <<mem, todo, crashes>>

\* The counter of the loop over the requested types is not initialised: the
\* loop may see all, some or none of them.
ReadTypes ==
  /\ pc = "types"
  /\ \E seen \in SUBSET req.want :
       IF "other" \in seen
       THEN Done(TRUE, None)
       ELSE pc' = "find"
            /\ UNCHANGED <<mem, req, offset, todo, err, answer, crashes>>
  /\ UNCHANGED history

\* Mutant of SoughtId: ids are not cut down to a byte.
SoughtIdWide == IF pc = "space" THEN Erased ELSE req.id

SoughtId == IF pc = "space" THEN Erased ELSE req.id % Width

Found == pc \in {"find", "space"} /\ At(offset) = SoughtId
Missing == pc \in {"find", "space"} /\ At(offset) = Erased /\ ~Found

\* Mutant of Past: the bytes of the header are not counted.
PastNoHeader(o) == o + At(o + 1) + At(o + 2)

Past(o) == o + 3 + At(o + 1) + At(o + 2)

Walk ==
  /\ pc \in {"find", "space"} /\ ~Found /\ ~Missing
  /\ offset' = Folded(Past(offset))
  /\ UNCHANGED <<mem, pc, req, todo, err, answer, crashes, history>>

RulesBefore(o) == [i \in {j \in DOMAIN rules : rules[j].at < o} |-> rules[i]]

\* The byte of an accepted rule, met by a walk that has left the space and come
\* round to it.
Wrong(o) == o > Size /\ Cell(o) \in 0 .. (Used - 1)

\* Without a check that the rule exists, offset is -1 if it does not.
Delete ==
  /\ req.op = "delete" /\ pc = "find" /\ (Found \/ Missing)
  /\ pc' = "write"
  /\ todo' = <<[at |-> IF Found THEN offset ELSE -1, val |-> Erased]>>
  /\ err' = Missing
  /\ rules' = IF Missing THEN rules ELSE RulesBefore(offset)
  /\ astray' = (astray \/ (Found /\ Wrong(offset)))
  /\ UNCHANGED <<mem, req, offset, answer, crashes, torn, used>>

\* Updating is not supported, and rules are created only once.
Refuse ==
  /\ \/ req.op = "update" /\ pc = "find" /\ (Found \/ Missing)
     \/ req.op = "create" /\ pc = "find" /\ Found
     \/ req.op = "get" /\ pc = "find" /\ Missing
  /\ Done(TRUE, None)
  /\ UNCHANGED history

FindSpace ==
  /\ req.op = "create" /\ pc = "find" /\ Missing
  /\ pc' = "space" /\ offset' = 0
  /\ UNCHANGED <<mem, req, todo, err, answer, crashes, history>>

Text(o, n) == [i \in 1 .. n |-> At(o + i - 1)]

RuleAt(o) == [at |-> o, id |-> At(o), cond |-> Text(o + 3, At(o + 1)),
              act |-> Text(o + 3 + At(o + 1), At(o + 2))]

\* Nothing initialised the flags that say which texts were asked for.
Get ==
  /\ req.op = "get" /\ pc = "find" /\ Found
  /\ \E shown \in SUBSET Parts :
       Done(FALSE, [op |-> "rule", id |-> req.id,
                    text |-> [p \in shown |-> RuleAt(offset)[p]]])
  /\ UNCHANGED history

-----------------------------------------------------------------------------
(* createRule, after findRule(0xff) *)

\* Mutant of HasSpace: no room for the byte after the last rule.
HasSpaceTight == offset + 3 + Len(req.cond) + Len(req.act) <= Size

HasSpace == offset + 4 + Len(req.cond) + Len(req.act) <= Size

NoSpace ==
  /\ pc = "space" /\ Found /\ ~HasSpace
  /\ Done(TRUE, None)
  /\ UNCHANGED history

Image == <<req.id % Width, Len(req.cond), Len(req.act)>> \o req.cond \o req.act

NewBytes ==
  LET bytes == Append(Image, Erased)
  IN  [i \in 1 .. Len(bytes) |-> [at |-> offset + i - 1, val |-> bytes[i]]]

Place ==
  /\ pc = "space" /\ Found /\ HasSpace
  /\ pc' = "write" /\ todo' = NewBytes
  /\ UNCHANGED <<mem, req, offset, err, answer, crashes, history>>

\* A new rule counts from its last byte on, if it was put after the others.
Accepted ==
  IF req.op = "create" /\ offset = Used
  THEN Append(rules, [at |-> offset, id |-> req.id % Width,
                      cond |-> req.cond, act |-> req.act])
  ELSE rules

\* setByte; the handler, or the constructor, ends with its last byte.
Write ==
  /\ pc = "write"
  /\ mem' = [mem EXCEPT ![Cell(Head(todo).at)] = Head(todo).val]
  /\ todo' = Tail(todo)
  /\ torn' = (torn /\ (astray \/ ~(req.op = "delete" /\ Head(todo).at = Used)))
  /\ IF Tail(todo) = <<>>
     THEN pc' = "idle" /\ req' = None /\ offset' = 0 /\ rules' = Accepted
     ELSE UNCHANGED <<pc, req, offset, rules>>
  /\ UNCHANGED <<err, answer, crashes, astray, used>>

Step == Boot \/ ReadTypes \/ Walk \/ Delete \/ Refuse \/ FindSpace \/ Get
          \/ NoSpace \/ Place \/ Write

Next == Ask \/ Step \/ Crash

Spec == Init /\ [][Next]_vars

\* The processor runs while it has power, and starts when it has it again.
FairSpec == Spec /\ WF_vars(Step)

-----------------------------------------------------------------------------
(* Properties *)

Words == Seq(Byte)
Rule == [at : 0 .. Size, id : Byte, cond : Words, act : Words]
Answer == [op : {"rule"}, id : Ids, text : UNION {[shown -> Words] : shown \in SUBSET Parts}]

\* The storage holds bytes, and every variable of the handlers keeps its range.
TypeOK ==
  /\ mem \in [Cells -> Byte]
  /\ pc \in {"off", "idle", "types", "find", "space", "write"}
  /\ req \in Requests \cup {None}
  /\ offset \in Nat
  /\ todo \in Seq([at : Int, val : Byte])
  /\ err \in BOOLEAN
  /\ answer = None \/ answer.op = "rule"
  /\ crashes \in 0 .. MaxCrashes
  /\ rules \in Seq(Rule)
  /\ torn \in BOOLEAN /\ astray \in BOOLEAN /\ used \in BOOLEAN

\* Whatever is written afterwards and wherever power fails, each rule that was
\* accepted and not deleted, by a request or by validateStore, is in the storage
\* byte for byte, with the first at the start and each where the one before it
\* ends (createRule, setByte).  Only where there are other bytes around the space
\* may a torn rule lead a deletion out of it and round to a byte of these rules.
Intact ==
  IF astray THEN used
  ELSE \A i \in DOMAIN rules :
         /\ RuleAt(rules[i].at) = rules[i]
         /\ rules[i].at = IF i = 1 THEN 0 ELSE EndOf(rules[i - 1])

\* Behind the rules there is empty space, unless power failed while a request's
\* bytes were written; deleting a rule mends even that (createRule, onSet).
Ended == ~torn /\ pc \notin {"off", "write"} => At(Used) = Erased

\* Once the magic byte is there no failure of power and no request removes it, and
\* validateStore never empties a storage that has rules, unless power has failed
\* in a request and left a torn rule and then the rule is deleted whose id is the
\* magic byte's value: findRule may walk on to that byte and take it for the rule.
MagicKept ==
  [][mem[Size] = Magic =>
       mem'[Size] = Magic \/ (torn /\ req.op = "delete" /\ req.id % Width = Magic)]_vars

\* Every handler and every start ends, and if nothing but erased bytes is around
\* the space, even a storage that a failure of power has left with a torn rule is
\* walked to an end by findRule.
Served == (pc # "idle" /\ ~(torn /\ used)) ~> (pc = "idle" \/ (torn /\ used))

\* Between failures of power the walks and the bytes do what a list of rules
\* would, ERRs included, except for requests that name empty space, until a
\* failure leaves a part of a rule, and for a start without the magic byte (onSet,
\* onRequest, createRule).
Pending == pc \in {"types", "find", "space"} \/ (pc = "write" /\ req.op = "create")
RL == INSTANCE Rules WITH req <- IF Pending THEN req ELSE None
NamesSpace == req # None /\ req.id % Width = Erased
Empties == pc = "off" /\ At(Size) # Magic
ImplementsRules ==
  RL!Init /\ [][crashes' = crashes /\ ~torn /\ ~NamesSpace /\ ~Empties
                  => [RL!Next]_(RL!vars)]_vars
=============================================================================
