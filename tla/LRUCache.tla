------------------------------ MODULE LRUCache ------------------------------
(***************************************************************************)
(* What a table of the most recently used values promises: a value is      *)
(* found if and only if it is one of the last NumSets different values     *)
(* asked for.                                                              *)
(***************************************************************************)
EXTENDS SequencesExt

CONSTANTS
  Payload,  \* the sequences of values of which one is looked up at a time
  NumSets   \* how many values the table holds

VARIABLES
  asked,    \* the last payload looked up
  recent,   \* the values in the table, the most recently used one first
  found     \* for each value of the last payload, whether the table had it

Lookup(t, v) ==
  LET order == <<v>> \o RemoveFirst(t.recent, v)
  IN  [recent |-> IF Len(order) > NumSets THEN Front(order) ELSE order,
       found |-> Append(t.found, v \in ToSet(t.recent))]

Init == asked = <<>> /\ recent = <<>> /\ found = <<>>

Next ==
  \E p \in Payload :
    LET t == FoldLeft(Lookup, [recent |-> recent, found |-> <<>>], p)
    IN  asked' = p /\ recent' = t.recent /\ found' = t.found

Spec == Init /\ [][Next]_<<asked, recent, found>>
=============================================================================
