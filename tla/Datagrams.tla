------------------------------ MODULE Datagrams ------------------------------
(***************************************************************************)
(* UDP datagrams and DNS queries through the tunnel: the UDP half of the    *)
(* NAT table (src/host/nat.rs), the DNS forwarder (src/host/dns.rs), the    *)
(* host's handlers, and the task the remote spawns for each of them         *)
(* (src/remote/mod.rs, src/remote/proxy.rs).                                *)
(*                                                                         *)
(* An ask is a datagram or a query, numbered in the order the host handles  *)
(* them; the number also stands for its data and for the data of its        *)
(* answer.  The session keeps the order of messages, so a message is        *)
(* handled in the step that takes it from the sender's channel.             *)
(*                                                                         *)
(* Time is the age of a mapping or of an ask, in units of which MappingAge  *)
(* make 60 s.  It stops at MappingAge: nothing compares it with more.  When *)
(* the remote's 5 s are over is left open: a task may give up at any time.  *)
(***************************************************************************)
EXTENDS Naturals, Sequences, Functions

CONSTANTS
  Addr,        \* local addresses, and local sockets that ask the forwarder
  Port,        \* source ports of local applications
  Dest,        \* (dst_ip, dst_port) pairs reached through the tunnel
  IdSpace,     \* number of DNS query ids, 2^32 in the code
  MappingAge,  \* the age at which a mapping is removed, 60 s in the code
  HostChanCap, \* capacity of to_remote and to_tun, 1024 in the code
  RespChanCap, \* capacity of the response channel, 1024 in the code
  MaxAsks      \* bound: datagrams and queries ever made

ASSUME DatagramAssumption ==
  /\ IdSpace \in Nat \ {0}
  /\ MappingAge \in Nat \ {0}
  /\ HostChanCap \in Nat
  /\ RespChanCap \in Nat
  /\ MaxAsks \in Nat

VARIABLES
  udp_mappings,  \* UdpKey -> mapping, for the keys present
  pending,       \* DNS query id -> the socket that asked, for the ids present
  next_id,       \* the next DNS query id
  to_remote,     \* the host's channel to the remote
  to_tun,        \* the host's channel to the TUN device
  loop,          \* "running", or "blocked" in a send to a full channel
  task,          \* ask -> the remote's task for it, while it runs
  responses,     \* the remote's response channel
  asks,          \* history: the asks made, with key and source
  age,           \* history: the age of each ask
  fate,          \* history: what became of each ask
  answered       \* history: DNS query id -> the number of asks there were
                 \* when the last answer with the id came, 0 before

tableVars == <<udp_mappings, pending, next_id>>
hostVars == <<tableVars, to_remote, to_tun, loop>>
remoteVars == <<task, responses>>
history == <<asks, age, fate, answered>>
datagramVars == <<hostVars, remoteVars, history>>

Ask == 1..MaxAsks
DnsId == 0..(IdSpace - 1)
UdpKey == [port : Port, dst : Dest]
DnsKey == [id : DnsId]
Key == UdpKey \cup DnsKey
Age == 0..MappingAge

HostMessage ==
  [type : {"UdpDatagram"}, src_port : Port, dst : Dest, data : Ask]
    \cup [type : {"DnsQuery"}, id : DnsId, data : Ask]

RemoteMessage ==
  [type : {"UdpResponse"}, dst_port : Port, src : Dest, data : Ask]
    \cup [type : {"DnsResponse"}, id : DnsId, data : Ask]

UdpPacket == [to : Addr, dst_port : Port, src : Dest, data : Ask]

Task == [pc : {"waiting"}, msg : HostMessage]
          \cup [pc : {"answering"}, msg : RemoteMessage]

Open == [st |-> "open"]
Lost == [st |-> "lost"]
Unknown(key) == [st |-> "unknown", key |-> key]
Passed(key, addr) == [st |-> "passed", key |-> key, to |-> addr]

Fate == [st : {"open", "lost"}] \cup [st : {"unknown"}, key : Key]
          \cup [st : {"passed"}, key : Key, to : Addr]

DatagramTypeOK ==
  /\ DOMAIN udp_mappings \subseteq UdpKey
  /\ udp_mappings \in [DOMAIN udp_mappings -> [src_ip : Addr, age : Age]]
  /\ DOMAIN pending \subseteq DnsId
  /\ pending \in [DOMAIN pending -> Addr]
  /\ next_id \in DnsId
  /\ to_remote \in Seq(HostMessage) /\ Len(to_remote) <= HostChanCap
  /\ to_tun \in Seq(UdpPacket) /\ Len(to_tun) <= HostChanCap
  /\ loop \in {"running", "blocked"}
  /\ DOMAIN task \subseteq Ask
  /\ task \in [DOMAIN task -> Task]
  /\ responses \in Seq(RemoteMessage) /\ Len(responses) <= RespChanCap
  /\ asks \in Seq([key : Key, from : Addr]) /\ Len(asks) <= MaxAsks
  /\ age \in [DOMAIN asks -> Age]
  /\ fate \in [Ask -> Fate]
  /\ answered \in [DnsId -> 0..MaxAsks]

DatagramInit ==
  /\ udp_mappings = [k \in {} |-> {}]
  /\ pending = [i \in {} |-> {}]
  /\ next_id = 0
  /\ to_remote = <<>>
  /\ to_tun = <<>>
  /\ loop = "running"
  /\ task = [n \in {} |-> {}]
  /\ responses = <<>>
  /\ asks = <<>>
  /\ age = <<>>
  /\ fate = [n \in Ask |-> Open]
  /\ answered = [i \in DnsId |-> 0]

Insert(map, k, v) ==
  [x \in DOMAIN map \cup {k} |-> IF x = k THEN v ELSE map[x]]

Without(map, k) == Restrict(map, DOMAIN map \ {k})

-----------------------------------------------------------------------------
(* The host: what the loop does with a UDP packet from the TUN device and   *)
(* with a query from the forwarder's socket.                                *)

Mapping(a) == [src_ip |-> a, age |-> 0]

Young(map) == {k \in DOMAIN map : map[k].age < MappingAge}

(* Mutants: a mapping in use keeps its source; the key leaves out the       *)
(* destination; the clean-up removes what is young.                         *)
TrackUnlessPresent(k, a) ==
  LET m == IF k \in DOMAIN udp_mappings THEN udp_mappings
           ELSE Insert(udp_mappings, k, Mapping(a))
  IN  Restrict(m, Young(m))

TrackByPort(k, a) ==
  LET m == [j \in DOMAIN udp_mappings \cup {k} |->
              IF j.port = k.port THEN Mapping(a) ELSE udp_mappings[j]]
  IN  Restrict(m, Young(m))

TrackAndDropOthers(k, a) ==
  LET m == Insert(udp_mappings, k, Mapping(a))
  IN  Restrict(m, {j \in DOMAIN m : m[j].age = 0})

(* The mapping is inserted or refreshed, then every old one is removed.     *)
TrackUdp(k, a) ==
  LET m == Insert(udp_mappings, k, Mapping(a)) IN Restrict(m, Young(m))

(* A send to a full channel never returns: only the loop empties it.        *)
SendToRemote(m) ==
  IF Len(to_remote) < HostChanCap
  THEN to_remote' = Append(to_remote, m) /\ UNCHANGED loop
  ELSE loop' = "blocked" /\ UNCHANGED to_remote

NewAsk(key, a) ==
  /\ asks' = Append(asks, [key |-> key, from |-> a])
  /\ age' = Append(age, 0)
  /\ UNCHANGED <<fate, answered>>

NextAsk == Len(asks) + 1

HandleOutboundUdp(a, p, d) ==
  /\ loop = "running" /\ Len(asks) < MaxAsks
  /\ udp_mappings' = TrackUdp([port |-> p, dst |-> d], a)
  /\ SendToRemote([type |-> "UdpDatagram", src_port |-> p, dst |-> d,
                   data |-> NextAsk])
  /\ NewAsk([port |-> p, dst |-> d], a)
  /\ UNCHANGED <<pending, next_id, to_tun, remoteVars>>

HandleQuery(a) ==
  /\ loop = "running" /\ Len(asks) < MaxAsks
  /\ pending' = Insert(pending, next_id, a)
  /\ next_id' = (next_id + 1) % IdSpace
  /\ SendToRemote([type |-> "DnsQuery", id |-> next_id, data |-> NextAsk])
  /\ NewAsk([id |-> next_id], a)
  /\ UNCHANGED <<udp_mappings, to_tun, remoteVars>>

-----------------------------------------------------------------------------
(* The remote: a task per message, each with a socket of its own.           *)

RemoteTakes ==
  /\ loop = "running" /\ to_remote # <<>>
  /\ to_remote' = Tail(to_remote)
  /\ task' = Insert(task, Head(to_remote).data,
                    [pc |-> "waiting", msg |-> Head(to_remote)])
  /\ UNCHANGED <<tableVars, to_tun, loop, responses, history>>

Waiting(n) == n \in DOMAIN task /\ task[n].pc = "waiting"

(* The message that carries the answer of src to the message m.  A query    *)
(* keeps its id; a datagram's answer names the socket it came from.         *)
AnswerTo(m, src) ==
  IF m.type = "DnsQuery"
  THEN [type |-> "DnsResponse", id |-> m.id, data |-> m.data]
  ELSE [type |-> "UdpResponse", dst_port |-> m.src_port, src |-> src,
        data |-> m.data]

(* One answer is taken, from whatever address it comes: the socket is not   *)
(* connected.  It is closed then, and later answers have nowhere to go.     *)
TaskReceives(n, src) ==
  /\ Waiting(n)
  /\ task' = [task EXCEPT ![n] = [pc |-> "answering",
                                  msg |-> AnswerTo(task[n].msg, src)]]
  /\ UNCHANGED <<hostVars, responses, history>>

(* Five seconds without an answer, or an error of the socket: nothing is    *)
(* sent back, for a query as for a datagram.                                *)
TaskGivesUp(n) ==
  /\ Waiting(n)
  /\ task' = Without(task, n)
  /\ fate' = [fate EXCEPT ![n] = Lost]
  /\ UNCHANGED <<hostVars, responses, asks, age, answered>>

(* Mutant: a response channel without a bound.                              *)
TaskAnswersAlways(n) ==
  /\ n \in DOMAIN task /\ task[n].pc = "answering"
  /\ responses' = Append(responses, task[n].msg)
  /\ task' = Without(task, n)
  /\ UNCHANGED <<hostVars, history>>

TaskAnswers(n) ==
  /\ n \in DOMAIN task /\ task[n].pc = "answering"
  /\ Len(responses) < RespChanCap
  /\ responses' = Append(responses, task[n].msg)
  /\ task' = Without(task, n)
  /\ UNCHANGED <<hostVars, history>>

-----------------------------------------------------------------------------
(* The host: what the loop does with an answer.                             *)

TakeResponse(type) ==
  /\ loop = "running"
  /\ responses # <<>> /\ Head(responses).type = type
  /\ responses' = Tail(responses)
  /\ UNCHANGED <<task, asks, age, udp_mappings, next_id, to_remote>>

Ends(n, f) == fate' = [fate EXCEPT ![n] = f]

HandleUdpResponse ==
  /\ TakeResponse("UdpResponse")
  /\ LET r == Head(responses)
         key == [port |-> r.dst_port, dst |-> r.src]
         to == udp_mappings[key].src_ip
     IN  \/ /\ key \in DOMAIN udp_mappings /\ Len(to_tun) < HostChanCap
            /\ to_tun' = Append(to_tun, [to |-> to, dst_port |-> r.dst_port,
                                         src |-> r.src, data |-> r.data])
            /\ Ends(r.data, Passed(key, to))
            /\ UNCHANGED loop
         \/ /\ key \in DOMAIN udp_mappings /\ Len(to_tun) >= HostChanCap
            /\ loop' = "blocked"
            /\ UNCHANGED <<to_tun, fate>>
         \/ /\ key \notin DOMAIN udp_mappings
            /\ Ends(r.data, Unknown(key))
            /\ UNCHANGED <<to_tun, loop>>
  /\ UNCHANGED <<pending, answered>>

(* Mutant: an answered query stays in the table.                            *)
KeepPending(id) == pending

RemovePending(id) == Without(pending, id)

(* The entry is removed first; the send to the local socket may then fail.  *)
HandleDnsResponse ==
  /\ TakeResponse("DnsResponse")
  /\ answered' = [answered EXCEPT ![Head(responses).id] = Len(asks)]
  /\ LET r == Head(responses)
         key == [id |-> r.id]
     IN  \/ /\ r.id \in DOMAIN pending
            /\ pending' = RemovePending(r.id)
            /\ \E f \in {Passed(key, pending[r.id]), Lost} : Ends(r.data, f)
         \/ /\ r.id \notin DOMAIN pending
            /\ Ends(r.data, Unknown(key))
            /\ UNCHANGED pending
  /\ UNCHANGED <<to_tun, loop>>

WriteToTun ==
  /\ loop = "running" /\ to_tun # <<>>
  /\ to_tun' = Tail(to_tun)
  /\ UNCHANGED <<tableVars, to_remote, loop, remoteVars, history>>

-----------------------------------------------------------------------------
Older(a) == IF a < MappingAge THEN a + 1 ELSE a

Tick ==
  /\ \E n \in DOMAIN age : age[n] < MappingAge
  /\ age' = [n \in DOMAIN age |-> Older(age[n])]
  /\ udp_mappings' = [k \in DOMAIN udp_mappings |->
                        [udp_mappings[k] EXCEPT !.age = Older(@)]]
  /\ UNCHANGED <<pending, next_id, to_remote, to_tun, loop, remoteVars, asks,
                 fate, answered>>

HostNext ==
  \/ \E a \in Addr : HandleQuery(a) \/ \E p \in Port, d \in Dest :
                                          HandleOutboundUdp(a, p, d)
  \/ HandleUdpResponse
  \/ HandleDnsResponse
  \/ WriteToTun

TaskNext(n) ==
  \/ \E src \in Dest : TaskReceives(n, src)
  \/ TaskGivesUp(n)
  \/ TaskAnswers(n)

DatagramNext ==
  \/ HostNext
  \/ RemoteTakes
  \/ \E n \in Ask : TaskNext(n)
  \/ Tick

DatagramSpec == DatagramInit /\ [][DatagramNext]_datagramVars

-----------------------------------------------------------------------------
(* The asks made with a key, and the last of them.                          *)
With(k) == {n \in DOMAIN asks : asks[n].key = k}

LastWith(k) == CHOOSE n \in With(k) : \A m \in With(k) : m <= n

LastAsker == [k \in {asks[n].key : n \in DOMAIN asks} |-> asks[LastWith(k)].from]

(* Forwarding does what ReturnPath promises: an ask ends once, and an       *)
(* answer is passed to whoever asked last with the key it carries.  Ageing, *)
(* clean-up, reused ids and a response that finds no entry only ever lose   *)
(* an answer.                                                               *)
Promise == INSTANCE ReturnPath WITH asker <- LastAsker

KeepsPromise == Promise!Spec

(* An answer from the address that was asked reaches the application that   *)
(* asked, unless another local address used the same source port towards    *)
(* the same destination, or the id of the query: "Get the original source   *)
(* IP for a UDP response" (nat.rs:158), "Sends the response back to the     *)
(* original querier" (dns.rs:109).                                          *)
Shared(k) == \E m, n \in With(k) : asks[m].from # asks[n].from

AnswersReachAsker ==
  \A n \in DOMAIN asks :
    fate[n].st = "passed" /\ fate[n].key = asks[n].key /\ ~Shared(asks[n].key)
      => fate[n].to = asks[n].from

(* The host knows no entry for an answer from the address that was asked    *)
(* only when the ask is a minute old, or when the answer to another query   *)
(* with the same id took the entry away: the clean-up that every datagram   *)
(* runs over the whole table costs no other datagram its answer             *)
(* (nat.rs:155-174, dns.rs:110-122).                                        *)
UnknownAnswersAreLate ==
  \A n \in DOMAIN asks :
    fate[n].st = "unknown" /\ fate[n].key = asks[n].key =>
      \/ asks[n].key \in UdpKey /\ age[n] = MappingAge
      \/ asks[n].key \in DnsKey /\ With(asks[n].key) # {n}

(* An id is in the table of pending queries exactly when a query with it    *)
(* was made after the last answer with it came: an entry goes with the      *)
(* first answer and no sooner, a query the remote gave up stays, and an id  *)
(* that is used again counts as asked anew, so that the answer to its older *)
(* query ends it.  The entry names the younger query (dns.rs:90-122).       *)
PendingIsUnanswered ==
  \A i \in DnsId :
    LET queries == With([id |-> i])
        last == LastWith([id |-> i])
    IN  /\ i \in DOMAIN pending <=> \E n \in queries : n > answered[i]
        /\ i \in DOMAIN pending =>
             pending[i] = asks[last].from /\ fate[last].st # "passed"

=============================================================================
