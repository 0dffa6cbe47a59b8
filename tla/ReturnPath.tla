----------------------------- MODULE ReturnPath -----------------------------
(***************************************************************************)
(* What forwarding UDP datagrams and DNS queries promises, without tables,  *)
(* time, channels or processes.  An ask is a datagram or a query; its key   *)
(* is what its answer is matched by on the way back.  An ask ends at most   *)
(* once: it is lost, or its answer is passed to whoever asked last with the *)
(* key the answer carries.                                                  *)
(***************************************************************************)
CONSTANTS
  Ask,   \* the asks ever made
  Key,   \* what answers are matched by
  Addr   \* the local addresses that ask

VARIABLES
  asker,  \* key -> the address that asked with it last
  fate    \* ask -> what became of it

Open == [st |-> "open"]
Passed(key, addr) == [st |-> "passed", key |-> key, to |-> addr]

Init ==
  /\ asker = [k \in {} |-> {}]
  /\ fate = [n \in Ask |-> Open]

Asks(k, a) ==
  /\ asker' = [j \in DOMAIN asker \cup {k} |-> IF j = k THEN a ELSE asker[j]]
  /\ UNCHANGED fate

Passes(n, k) ==
  /\ fate[n] = Open /\ k \in DOMAIN asker
  /\ fate' = [fate EXCEPT ![n] = Passed(k, asker[k])]
  /\ UNCHANGED asker

Loses(n) ==
  /\ fate[n] = Open
  /\ \E f \in [st : {"lost"}] \cup [st : {"unknown"}, key : Key] :
       fate' = [fate EXCEPT ![n] = f]
  /\ UNCHANGED asker

Next ==
  \/ \E k \in Key, a \in Addr : Asks(k, a)
  \/ \E n \in Ask : Loses(n) \/ \E k \in Key : Passes(n, k)

Spec == Init /\ [][Next]_<<asker, fate>>
=============================================================================
