------------------------------ MODULE MCHostTcp ------------------------------
(* The host's TCP handlers under an unconstrained environment: one key, so  *)
(* that a second SYN always replaces a live connection.                     *)
EXTENDS HostTcp
=============================================================================
