---------------------------- MODULE MCCollabRooms -----------------------------
(* CollabRooms on small instances: a tab that reconnects.                      *)
EXTENDS CollabRooms, TLC

CONSTANT t1

(* Every connection belongs to the one tab: it reconnects twice.               *)
OneTab == [s \in Sockets |-> t1]

Alike == Permutations(Joins) \cup Permutations(Voices) \cup Permutations(Files)
         \cup Permutations(Sockets)
===============================================================================
