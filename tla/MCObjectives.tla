---------------------------- MODULE MCObjectives ----------------------------
(* Two nodes with objectives and one without.  The first asks two questions
   (one optional) and joins them in an aggregate. *)
EXTENDS Objectives, TLC

CONSTANTS Ask, More, Plain, first, last, whole, again, fName, fWhole, w1, w2, w3

MCNode == {Ask, More, Plain}
MCKey  == {first, last, whole, again}
MCObjectivesOf ==
  [n \in MCNode |-> CASE n = Ask -> <<first, last, whole>> [] n = More -> <<again>> [] n = Plain -> <<>>]
MCParts   == [k \in MCKey |-> IF k = whole THEN <<first, last>> ELSE <<>>]
MCFieldOf ==
  [k \in MCKey |-> CASE k \in {first, again} -> fName [] k = whole -> fWhole [] k = last -> NoField]
MCOnFile  == {<<>>, <<w3>>}
Interchangeable == Permutations({w1, w2})
=============================================================================
