---------------------------- MODULE MCDatagrams ----------------------------
(* Two local addresses that share a source port, two destinations; neither  *)
(* the addresses nor the destinations are told apart.                       *)
EXTENDS Datagrams, TLC

MCSymmetry == Permutations(Addr) \cup Permutations(Dest)
=============================================================================
