----------------------------- MODULE MCAiCredits ------------------------------
(* AiCredits on small instances.                                               *)
EXTENDS AiCredits

CONSTANTS u1, u2, o1, o2, r1, r2, c1, c2, c3, w1

MCPayer == [o \in Orders |-> IF o = o1 THEN u1 ELSE u2]
MCOwner == [r \in Requests |-> u1]
MCReqOf == [c \in Calls |-> IF c = c3 THEN r2 ELSE r1]

(* One rupee is two units: 3 units reserve 2 rupees, a cost of 9 is clamped to *)
(* the estimate, one of 0 is free, and 1 unit rounds up to a rupee.            *)
MCEstOf == [c \in Calls |-> IF c = c1 THEN 3 ELSE 1]
===============================================================================
