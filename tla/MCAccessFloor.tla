----------------------------- MODULE MCAccessFloor ----------------------------
(* AccessFloor for an owner and one other user, a connection each.             *)
EXTENDS AccessFloor, TLC

CONSTANTS u1, s1

MCUserOf == [s \in Sockets |-> IF s = s1 THEN u1 ELSE Owner]

Alike == Permutations(Messages)
===============================================================================
