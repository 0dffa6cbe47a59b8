---------------------------- MODULE MCRemoteProxy ----------------------------
(* Two connections on one shard of the map, channels of one block.  A run   *)
(* gives each connection its own bounds.                                    *)
EXTENDS RemoteProxy

MCBlocks == 1..3
MCShard == [i \in Id |-> 0]

MCTwo == [i \in Id |-> 2]
MCOne == [i \in Id |-> 1]
MCThreeOne == [i \in Id |-> IF i = 1 THEN 3 ELSE 1]
MCOneNone == [i \in Id |-> IF i = 1 THEN 1 ELSE 0]
=============================================================================
