------------------------------ MODULE MCApBridge ------------------------------
(* Two handles on a two-entry table: the least with contention and reuse.  *)
EXTENDS ApBridge, TLC

\* The handles are interchangeable: no definition tells one from another.
ConnSymmetry == Permutations(Conn)
===============================================================================
