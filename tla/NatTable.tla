------------------------------ MODULE NatTable ------------------------------
(***************************************************************************)
(* The TCP half of the host's NAT table (src/host/nat.rs): two concurrent  *)
(* maps that index the same connections, by 4-tuple and by connection id,  *)
(* and the counter ids are drawn from.  The table has no lock of its own   *)
(* across the two maps; only the task that runs the host's select loop     *)
(* touches it, so an operation is one step.                                *)
(*                                                                         *)
(* Each map is a function whose domain is the set of keys present.  The    *)
(* read-modify-write operations are written on a table value t, so that a  *)
(* handler that performs several of them composes them in code order.      *)
(***************************************************************************)
EXTENDS Integers

CONSTANTS
  Client,    \* (src_ip, src_port) pairs of local applications
  Server,    \* (dst_ip, dst_port) pairs reached through the tunnel
  MaxConns,  \* bound: connections ever created, below the 2^32 ids of the code
  SeqSpace,  \* size of the TCP sequence space, 2^32 in the code
  HostIsn    \* the host's initial sequence number, 1000 in the code

ASSUME NatAssumption ==
  /\ MaxConns \in Nat
  /\ SeqSpace \in Nat \ {0}
  /\ HostIsn \in 0..(SeqSpace - 1)

VARIABLES
  tcp_by_key,  \* TcpKey -> TcpConnection, for the keys present
  tcp_by_id,   \* ConnId -> TcpKey, for the ids present
  next_id      \* the next connection id to hand out

natVars == <<tcp_by_key, tcp_by_id, next_id>>

TcpKey == Client \X Server
ConnId == 1..MaxConns
SeqNum == 0..(SeqSpace - 1)

ConnectionState ==
  {"SynSent", "Established", "FinWait", "CloseWait", "LastAck"}

TcpConnection ==
  [id : ConnId, state : ConnectionState, seq : SeqNum, ack : SeqNum]

(* Mutant: an addition that does not wrap.                                  *)
PlainAdd(a, b) == a + b

WrappingAdd(a, b) == (a + b) % SeqSpace

Insert(map, k, v) ==
  [x \in DOMAIN map \cup {k} |-> IF x = k THEN v ELSE map[x]]

Without(map, k) == [x \in DOMAIN map \ {k} |-> map[x]]

NatTypeOK ==
  /\ DOMAIN tcp_by_key \subseteq TcpKey
  /\ tcp_by_key \in [DOMAIN tcp_by_key -> TcpConnection]
  /\ DOMAIN tcp_by_id \subseteq ConnId
  /\ tcp_by_id \in [DOMAIN tcp_by_id -> TcpKey]
  /\ next_id \in 1..(MaxConns + 1)

NatInit ==
  /\ tcp_by_key = [k \in {} |-> {}]
  /\ tcp_by_id = [i \in {} |-> {}]
  /\ next_id = 1

-----------------------------------------------------------------------------
(* Lookups and updates through an id go through both maps, and do nothing   *)
(* (or return 0) when either entry is missing.                              *)

Resolves(t, id) == id \in DOMAIN tcp_by_id /\ tcp_by_id[id] \in DOMAIN t

GetTcpSeq(t, id) == IF Resolves(t, id) THEN t[tcp_by_id[id]].seq ELSE 0

GetTcpAck(t, id) == IF Resolves(t, id) THEN t[tcp_by_id[id]].ack ELSE 0

AdvanceTcpSeq(t, id, bytes) ==
  IF Resolves(t, id)
  THEN [t EXCEPT ![tcp_by_id[id]].seq = WrappingAdd(@, bytes)]
  ELSE t

UpdateTcpAck(t, id, ack) ==
  IF Resolves(t, id) THEN [t EXCEPT ![tcp_by_id[id]].ack = ack] ELSE t

SetTcpState(t, key, state) ==
  IF key \in DOMAIN t THEN [t EXCEPT ![key].state = state] ELSE t

NewConnection(client_isn) ==
  [id |-> next_id, state |-> "SynSent", seq |-> HostIsn,
   ack |-> WrappingAdd(client_isn, 1)]

(* Mutants: the reverse entry is forgotten; a key in use keeps its entry.   *)
CreateWithoutReverse(key, client_isn) ==
  /\ next_id <= MaxConns
  /\ tcp_by_key' = Insert(tcp_by_key, key, NewConnection(client_isn))
  /\ next_id' = next_id + 1
  /\ UNCHANGED tcp_by_id

CreateUnlessPresent(key, client_isn) ==
  /\ next_id <= MaxConns
  /\ tcp_by_key' = IF key \in DOMAIN tcp_by_key THEN tcp_by_key
                   ELSE Insert(tcp_by_key, key, NewConnection(client_isn))
  /\ tcp_by_id' = Insert(tcp_by_id, next_id, key)
  /\ next_id' = next_id + 1

(* A new connection replaces whatever the key held; the replaced            *)
(* connection's entry in tcp_by_id is left where it is.                     *)
CreateTcpConnection(key, client_isn) ==
  /\ next_id <= MaxConns
  /\ tcp_by_key' = Insert(tcp_by_key, key, NewConnection(client_isn))
  /\ tcp_by_id' = Insert(tcp_by_id, next_id, key)
  /\ next_id' = next_id + 1

(* Mutant: the reverse entry outlives the connection.                       *)
CloseKeepingId(key) ==
  /\ tcp_by_key' = Without(tcp_by_key, key)
  /\ UNCHANGED <<tcp_by_id, next_id>>

(* Closing removes the key and the id stored under it, no other id.         *)
CloseTcpConnection(key) ==
  /\ IF key \in DOMAIN tcp_by_key
     THEN /\ tcp_by_key' = Without(tcp_by_key, key)
          /\ tcp_by_id' = Without(tcp_by_id, tcp_by_key[key].id)
     ELSE UNCHANGED <<tcp_by_key, tcp_by_id>>
  /\ UNCHANGED next_id

(* An update in place, by the operators above.                              *)
SetTable(t) == tcp_by_key' = t /\ UNCHANGED <<tcp_by_id, next_id>>

-----------------------------------------------------------------------------
(* The connection stored under a key is found again from its id: the        *)
(* replies the remote addresses by id reach the application that opened the *)
(* connection.  nat.rs keeps this across a SYN that replaces a live key,    *)
(* because ids are never reused and closing a key drops the id it holds.    *)
KeysResolve ==
  \A k \in DOMAIN tcp_by_key :
    /\ tcp_by_key[k].id \in DOMAIN tcp_by_id
    /\ tcp_by_id[tcp_by_key[k].id] = k

(* An id whose key now holds another connection was superseded by a younger *)
(* one: a stale reverse entry never points at a connection older than it.   *)
StaleIdsAreOlder ==
  \A i \in DOMAIN tcp_by_id :
    tcp_by_id[i] \in DOMAIN tcp_by_key => i <= tcp_by_key[tcp_by_id[i]].id

(* Every id in the reverse map belongs to the connection its key holds:     *)
(* what "TCP connections indexed by connection ID (for reverse lookup)" at  *)
(* nat.rs:40 says of tcp_by_id.                                             *)
IdsResolve ==
  \A i \in DOMAIN tcp_by_id :
    /\ tcp_by_id[i] \in DOMAIN tcp_by_key
    /\ tcp_by_key[tcp_by_id[i]].id = i

=============================================================================
