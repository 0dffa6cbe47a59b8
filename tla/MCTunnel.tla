------------------------------ MODULE MCTunnel ------------------------------
(* One application and one destination address.                             *)
EXTENDS Tunnel

MCByte == (0..MaxConns) \X (1..(MaxSent + MaxReads))
MCShard == [i \in ConnId |-> 0]
=============================================================================
