------------------------------- MODULE Rules -------------------------------
(***************************************************************************)
(* What the rule service promises its clients: a list of rules.  A SET     *)
(* with a condition and an action appends a rule, one without them deletes *)
(* a rule and those after it, a REQUEST gets a rule's texts, and what      *)
(* cannot be done is answered with an ERR.                                 *)
(***************************************************************************)
EXTENDS Integers, Sequences

CONSTANTS
  Ids,      \* the COUNT values of requests, none of them the id of empty space
  Texts,    \* conditions and actions: sequences of bytes
  Width,    \* number of values of a byte
  Size      \* bytes of storage

None == [op |-> "none"]

Parts == {"cond", "act"}

Requests ==
  [op : {"create"}, id : Ids, cond : Texts, act : Texts]
    \cup [op : {"delete", "update"}, id : Ids]
    \cup [op : {"get"}, id : Ids, want : SUBSET (Parts \cup {"other"})]

VARIABLES
  rules,   \* the rules, oldest first, each with its place
  req,     \* the request being served
  err,     \* whether the last one was answered with an ERR
  answer   \* what the last one got

vars == <<rules, req, err, answer>>

\* A rule takes its id, two lengths and two texts.
EndOf(r) == r.at + 3 + Len(r.cond) + Len(r.act)
Used == IF rules = <<>> THEN 0 ELSE EndOf(rules[Len(rules)])
Fits == Used + 4 + Len(req.cond) + Len(req.act) <= Size

Named == {i \in DOMAIN rules : rules[i].id = req.id % Width}
Place == CHOOSE i \in Named : TRUE

Init == rules = <<>> /\ req = None /\ err = FALSE /\ answer = None

Ask ==
  /\ req = None
  /\ req' \in Requests
  /\ err' = FALSE /\ answer' = None
  /\ UNCHANGED rules

Done(rs, refused, a) ==
  rules' = rs /\ err' = refused /\ answer' = a /\ req' = None

Refuse ==
  /\ \/ req.op = "create" /\ (Named # {} \/ ~Fits)
     \/ req.op \in {"delete", "get"} /\ Named = {}
     \/ req.op = "get" /\ "other" \in req.want
     \/ req.op = "update"
  /\ Done(rules, TRUE, None)

Create ==
  /\ req.op = "create" /\ Named = {} /\ Fits
  /\ LET r == [at |-> Used, id |-> req.id % Width, cond |-> req.cond, act |-> req.act]
     IN  Done(Append(rules, r), FALSE, None)

Delete ==
  /\ req.op = "delete" /\ Named # {}
  /\ Done(SubSeq(rules, 1, Place - 1), FALSE, None)

\* Either text may be shown, or not.
Get ==
  /\ req.op = "get" /\ Named # {}
  /\ \E shown \in SUBSET Parts :
       Done(rules, FALSE, [op |-> "rule", id |-> req.id,
                           text |-> [p \in shown |-> rules[Place][p]]])

Next == Ask \/ Refuse \/ Create \/ Delete \/ Get

Spec == Init /\ [][Next]_vars
=============================================================================
