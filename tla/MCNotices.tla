------------------------------ MODULE MCNotices -------------------------------
(* Notices for an owner and one other user.                                    *)
EXTENDS Notices, TLC

CONSTANTS u1

(* The user hears of her removals, or does not. *)
OneSwitch == {<<u1, "ACCESS_REMOVED">>}

Alike == Permutations(Runs)

(* No run reads what a send wrote, so a second message adds interleavings only. *)
OneMessage ==
  \A c, d \in Runs : run[c].op = "chat" /\ run[d].op = "chat" => c = d
===============================================================================
