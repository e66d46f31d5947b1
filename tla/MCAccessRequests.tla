-------------------------- MODULE MCAccessRequests --------------------------
(***************************************************************************)
(* A region chief and a newcomer without a level.  The roles of both let   *)
(* them resolve requests and edit people, so that each may edit the other  *)
(* while the other grants something.                                       *)
(***************************************************************************)
EXTENDS AccessRequests, TLC

CONSTANTS boss, novice, c1, c2

MCFirstLevel == [p \in People |-> IF p = boss THEN 3 ELSE NoLevel]

\* One within the chief's reach, and one that nobody reaches.
MCAskedLevels == {2, 4}

\* The handlers are interchangeable.
Interchangeable == Permutations({c1, c2})
=============================================================================
