----------------------------- MODULE MCFileHistory ----------------------------
(* FileHistory and ThumbnailSweep on small instances.                          *)
EXTENDS ThumbnailSweep, TLC

Alike == Permutations(Requests)
===============================================================================
