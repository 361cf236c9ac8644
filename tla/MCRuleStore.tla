---------------------------- MODULE MCRuleStore ----------------------------
(* Small instances of RuleStore for TLC: bytes of four values. *)
EXTENDS RuleStore

\* A new chip, and chips with something else in their EEPROM, around the space as
\* well or not.
SomeFresh ==
  {[c \in Cells |-> IF c \in Space THEN vw[1] ELSE vw[2]] :
     vw \in {<<Erased, Erased>>, <<0, Erased>>, <<1, 0>>}}

ShortTexts == {<<>>, <<3>>}
=============================================================================
