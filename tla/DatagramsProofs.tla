-------------------------- MODULE DatagramsProofs --------------------------
(***************************************************************************)
(* What TLAPS proves of Datagrams for every value of its constants: the     *)
(* type invariant, the three safety invariants, and that forwarding         *)
(* implements ReturnPath.                                                   *)
(*                                                                         *)
(* An answer may be passed on only while its ask is open.  That no ask has  *)
(* two messages on their way, in two places or in one, is InFlight; that    *)
(* the two tables name the last asker of each key is TablesNameLast.  These *)
(* two carry the refinement.  That an entry is there for an answer that     *)
(* comes in time is Covered; that an answered query has left the table is   *)
(* LastUnanswered; that no query has left it without one is PendingExact.   *)
(***************************************************************************)
EXTENDS Datagrams, SequenceTheorems, TLAPS

-----------------------------------------------------------------------------
(* The UDP table.                                                           *)

(* The values of a mapping.                                                 *)
MappingRecord == [src_ip : Addr, age : Age]

(* What track_udp makes of the table: the key it tracks is there with its   *)
(* source and age 0, and of the others those that are young.                *)
LEMMA TrackUdpFacts ==
  ASSUME DOMAIN udp_mappings \subseteq UdpKey,
         udp_mappings \in [DOMAIN udp_mappings -> MappingRecord],
         NEW k \in UdpKey, NEW a \in Addr
  PROVE  /\ DOMAIN TrackUdp(k, a) \subseteq UdpKey
         /\ TrackUdp(k, a) \in [DOMAIN TrackUdp(k, a) -> MappingRecord]
         /\ DOMAIN TrackUdp(k, a) =
              {k} \cup {j \in DOMAIN udp_mappings : udp_mappings[j].age < MappingAge}
         /\ TrackUdp(k, a)[k] = Mapping(a)
         /\ \A j \in DOMAIN TrackUdp(k, a) \ {k} :
              TrackUdp(k, a)[j] = udp_mappings[j]
<1> DEFINE m == Insert(udp_mappings, k, Mapping(a))
<1>1. 0 \in Age /\ 0 < MappingAge
  BY DatagramAssumption DEF Age
<1>2. Mapping(a) \in MappingRecord /\ Mapping(a).age = 0
  BY <1>1 DEF Mapping, MappingRecord
<1>3. /\ DOMAIN m = DOMAIN udp_mappings \cup {k}
      /\ DOMAIN m \subseteq UdpKey
      /\ m \in [DOMAIN m -> MappingRecord]
      /\ m[k] = Mapping(a)
      /\ \A x \in DOMAIN udp_mappings \ {k} : m[x] = udp_mappings[x]
  BY <1>2 DEF Insert
<1> HIDE DEF m
<1>4. TrackUdp(k, a) = Restrict(m, Young(m))
  BY DEF TrackUdp, m
<1>5. Young(m) \in SUBSET DOMAIN m
  BY DEF Young
<1>6. /\ DOMAIN Restrict(m, Young(m)) = Young(m)
      /\ DOMAIN Restrict(m, Young(m)) \subseteq UdpKey
      /\ Restrict(m, Young(m)) \in [DOMAIN Restrict(m, Young(m)) -> MappingRecord]
      /\ \A x \in Young(m) : Restrict(m, Young(m))[x] = m[x]
  BY <1>3, <1>5 DEF Restrict
<1>7. k \in Young(m)
  BY <1>1, <1>2, <1>3 DEF Young
<1>8. Young(m) = {k} \cup {j \in DOMAIN udp_mappings : udp_mappings[j].age < MappingAge}
  BY <1>3, <1>7 DEF Young
<1> QED
  BY <1>3, <1>4, <1>6, <1>7, <1>8

-----------------------------------------------------------------------------
(* Type correctness.                                                        *)

(* A key of the UDP table is none of the DNS table.                         *)
LEMMA KeysDiffer == UdpKey \cap DnsKey = {}
<1>1. \A k \in UdpKey : "port" \in DOMAIN k
  BY DEF UdpKey
<1>2. \A k \in DnsKey : "port" \notin DOMAIN k
  BY DEF DnsKey
<1> QED
  BY <1>1, <1>2

(* Sequences under the two operations of a channel.                         *)
LEMMA ChannelFacts ==
  ASSUME NEW M, NEW q \in Seq(M), NEW m \in M
  PROVE  /\ Append(q, m) \in Seq(M)
         /\ Len(Append(q, m)) = Len(q) + 1
         /\ DOMAIN Append(q, m) = DOMAIN q \cup {Len(q) + 1}
         /\ \A i \in DOMAIN q : Append(q, m)[i] = q[i]
         /\ Append(q, m)[Len(q) + 1] = m
         /\ Len(q) + 1 \notin DOMAIN q
  OBVIOUS

(* Taking the head shifts the rest.                                         *)
LEMMA TailFacts ==
  ASSUME NEW M, NEW q \in Seq(M), q # <<>>
  PROVE  /\ Tail(q) \in Seq(M)
         /\ Len(Tail(q)) = Len(q) - 1
         /\ 1 \in DOMAIN q /\ Head(q) = q[1] /\ Head(q) \in M
         /\ \A i \in DOMAIN Tail(q) : /\ i + 1 \in DOMAIN q /\ i + 1 # 1
                                      /\ i \in Nat
                                      /\ Tail(q)[i] = q[i + 1]
  OBVIOUS

(* The table part of the type invariant, which the handlers change.         *)
TableTypeOK ==
  /\ DOMAIN udp_mappings \subseteq UdpKey
  /\ udp_mappings \in [DOMAIN udp_mappings -> MappingRecord]
  /\ DOMAIN pending \subseteq DnsId
  /\ pending \in [DOMAIN pending -> Addr]
  /\ next_id \in DnsId

(* Everything else the handlers change.                                     *)
FlowTypeOK ==
  /\ to_remote \in Seq(HostMessage) /\ Len(to_remote) <= HostChanCap
  /\ to_tun \in Seq(UdpPacket) /\ Len(to_tun) <= HostChanCap
  /\ loop \in {"running", "blocked"}
  /\ DOMAIN task \subseteq Ask
  /\ task \in [DOMAIN task -> Task]
  /\ responses \in Seq(RemoteMessage) /\ Len(responses) <= RespChanCap

HistoryTypeOK ==
  /\ asks \in Seq([key : Key, from : Addr]) /\ Len(asks) <= MaxAsks
  /\ age \in [DOMAIN asks -> Age]
  /\ fate \in [Ask -> Fate]
  /\ answered \in [DnsId -> 0..MaxAsks]

(* The three parts are the type invariant.                                  *)
LEMMA TypeParts ==
  DatagramTypeOK <=> TableTypeOK /\ FlowTypeOK /\ HistoryTypeOK
  BY DEF DatagramTypeOK, TableTypeOK, FlowTypeOK, HistoryTypeOK, MappingRecord

(* The initial state is well typed.                                         *)
LEMMA InitTypeOK == DatagramInit => DatagramTypeOK
<1> SUFFICES ASSUME DatagramInit PROVE DatagramTypeOK
  OBVIOUS
<1>1. TableTypeOK
  BY DatagramAssumption DEF DatagramInit, TableTypeOK, DnsId
<1>2. FlowTypeOK
  BY DatagramAssumption DEF DatagramInit, FlowTypeOK
<1>3. HistoryTypeOK
  BY DatagramAssumption DEF DatagramInit, HistoryTypeOK, Fate, Open
<1> QED
  BY <1>1, <1>2, <1>3, TypeParts

(* A new ask has a number of its own, within the bound.                     *)
LEMMA NewAskFacts ==
  ASSUME DatagramTypeOK, Len(asks) < MaxAsks, NEW key \in Key, NEW a \in Addr,
         NewAsk(key, a)
  PROVE  /\ HistoryTypeOK'
         /\ NextAsk \in Ask /\ NextAsk \notin DOMAIN asks
         /\ DOMAIN asks' = DOMAIN asks \cup {NextAsk}
         /\ asks'[NextAsk] = [key |-> key, from |-> a]
         /\ \A n \in DOMAIN asks : asks'[n] = asks[n] /\ age'[n] = age[n]
         /\ \A n \in DOMAIN asks : n < NextAsk
         /\ age'[NextAsk] = 0
         /\ fate' = fate /\ answered' = answered
<1> DEFINE r == [key |-> key, from |-> a]
<1>1. r \in [key : Key, from : Addr] /\ 0 \in Age
  BY DatagramAssumption DEF Age
<1>2. asks \in Seq([key : Key, from : Addr]) /\ age \in [1..Len(asks) -> Age]
  BY DEF DatagramTypeOK
<1>4. age \in Seq(Age) /\ Len(age) = Len(asks)
  BY <1>2
<1>3. /\ asks' = Append(asks, r) /\ age' = Append(age, 0)
      /\ fate' = fate /\ answered' = answered
  BY DEF NewAsk
<1> HIDE DEF r
<1>5. /\ asks' \in Seq([key : Key, from : Addr])
      /\ Len(asks') = Len(asks) + 1
      /\ DOMAIN asks' = DOMAIN asks \cup {Len(asks) + 1}
      /\ asks'[Len(asks) + 1] = r
      /\ Len(asks) + 1 \notin DOMAIN asks
      /\ \A n \in DOMAIN asks : asks'[n] = asks[n]
  BY <1>1, <1>2, <1>3
<1>6. /\ age' \in Seq(Age)
      /\ Len(age') = Len(asks) + 1
      /\ age'[Len(asks) + 1] = 0
      /\ \A n \in DOMAIN asks : age'[n] = age[n]
  BY <1>1, <1>2, <1>3, <1>4
<1>7. age' \in [DOMAIN asks' -> Age]
  BY <1>5, <1>6
<1>8. Len(asks) \in Nat /\ \A n \in DOMAIN asks : n < Len(asks) + 1
  BY <1>2
<1>9. Len(asks) + 1 \in Ask /\ Len(asks') <= MaxAsks
  BY <1>5, <1>8, DatagramAssumption DEF Ask
<1>10. fate' \in [Ask -> Fate] /\ answered' \in [DnsId -> 0..MaxAsks]
  BY <1>3 DEF DatagramTypeOK
<1> QED
  BY <1>3, <1>5, <1>6, <1>7, <1>8, <1>9, <1>10 DEF HistoryTypeOK, NextAsk, r

(* A handler's message to the remote is queued, or the loop blocks.         *)
LEMMA SendFacts ==
  ASSUME FlowTypeOK, NEW m \in HostMessage, SendToRemote(m)
  PROVE  /\ to_remote' \in Seq(HostMessage) /\ Len(to_remote') <= HostChanCap
         /\ loop' \in {"running", "blocked"}
         /\ to_remote' = to_remote \/ to_remote' = Append(to_remote, m)
<1>1. CASE Len(to_remote) < HostChanCap
  <2>1. to_remote' = Append(to_remote, m) /\ loop' = loop
    BY <1>1 DEF SendToRemote
  <2>2. /\ Append(to_remote, m) \in Seq(HostMessage)
        /\ Len(Append(to_remote, m)) = Len(to_remote) + 1
        /\ Len(to_remote) \in Nat
    BY DEF FlowTypeOK
  <2> QED
    BY <1>1, <2>1, <2>2, DatagramAssumption DEF FlowTypeOK
<1>2. CASE ~(Len(to_remote) < HostChanCap)
  BY <1>2 DEF FlowTypeOK, SendToRemote
<1> QED
  BY <1>1, <1>2

(* The two messages of the host are well typed.                             *)
LEMMA MessageTypes ==
  ASSUME NEW n \in Ask
  PROVE  /\ \A p \in Port, d \in Dest :
              [type |-> "UdpDatagram", src_port |-> p, dst |-> d, data |-> n]
                \in HostMessage
         /\ \A i \in DnsId : [type |-> "DnsQuery", id |-> i, data |-> n] \in HostMessage
<1>1. ASSUME NEW p \in Port, NEW d \in Dest
      PROVE  [type |-> "UdpDatagram", src_port |-> p, dst |-> d, data |-> n]
               \in HostMessage
  BY DEF HostMessage
<1>2. ASSUME NEW i \in DnsId
      PROVE  [type |-> "DnsQuery", id |-> i, data |-> n] \in HostMessage
  BY DEF HostMessage
<1> QED
  BY <1>1, <1>2

(* A message of the host, by its type.                                      *)
LEMMA HostMessageFacts ==
  ASSUME NEW m \in HostMessage
  PROVE  /\ m.data \in Ask
         /\ m.type = "DnsQuery" => m.id \in DnsId
         /\ m.type # "DnsQuery" => /\ m.type = "UdpDatagram"
                                   /\ m.src_port \in Port /\ m.dst \in Dest
  BY DEF HostMessage

(* A message of the remote, by its type.                                    *)
LEMMA RemoteMessageFacts ==
  ASSUME NEW m \in RemoteMessage
  PROVE  /\ m.data \in Ask
         /\ m.type = "DnsResponse" => m.id \in DnsId
         /\ m.type # "DnsResponse" => /\ m.type = "UdpResponse"
                                      /\ m.dst_port \in Port /\ m.src \in Dest
  BY DEF RemoteMessage

(* The answer to a message carries its number, and is of its kind.          *)
LEMMA AnswerFacts ==
  ASSUME NEW m \in HostMessage, NEW src \in Dest
  PROVE  /\ AnswerTo(m, src) \in RemoteMessage
         /\ AnswerTo(m, src).data = m.data
         /\ m.type = "DnsQuery" => /\ AnswerTo(m, src).type = "DnsResponse"
                                   /\ AnswerTo(m, src).id = m.id
         /\ m.type # "DnsQuery" => AnswerTo(m, src).type = "UdpResponse"
<1>1. CASE m.type = "DnsQuery"
  BY <1>1, HostMessageFacts DEF AnswerTo, RemoteMessage
<1>2. CASE m.type # "DnsQuery"
  BY <1>2, HostMessageFacts DEF AnswerTo, RemoteMessage
<1> QED
  BY <1>1, <1>2

(* A task, by where it is.                                                  *)
LEMMA TaskFacts ==
  ASSUME FlowTypeOK, NEW n \in DOMAIN task
  PROVE  /\ n \in Ask
         /\ task[n].pc = "waiting" => task[n].msg \in HostMessage
         /\ task[n].pc # "waiting" => task[n].msg \in RemoteMessage
         /\ task[n].pc = "answering" => task[n].msg \in RemoteMessage
<1>1. task[n] \in Task
  BY DEF FlowTypeOK
<1> QED
  BY <1>1 DEF Task, FlowTypeOK

(* The task map after a task has gone.                                      *)
LEMMA TaskGoneType ==
  ASSUME FlowTypeOK, NEW n, task' = Without(task, n)
  PROVE  /\ DOMAIN task' = DOMAIN task \ {n}
         /\ DOMAIN task' \subseteq Ask
         /\ task' \in [DOMAIN task' -> Task]
         /\ \A x \in DOMAIN task' : task'[x] = task[x]
<1> DEFINE w == Without(task, n)
<1>1. /\ DOMAIN w = DOMAIN task \ {n}
      /\ w \in [DOMAIN w -> Task]
      /\ \A x \in DOMAIN task \ {n} : w[x] = task[x]
  BY DEF FlowTypeOK, Without, Restrict
<1> HIDE DEF w
<1> QED
  BY <1>1 DEF FlowTypeOK, w

(* What ageing does to the table and to the asks.                           *)
LEMMA TickFacts ==
  ASSUME DatagramTypeOK, Tick
  PROVE  /\ age' \in [DOMAIN asks -> Age] /\ DOMAIN age' = DOMAIN asks
         /\ DOMAIN udp_mappings' = DOMAIN udp_mappings
         /\ udp_mappings' \in [DOMAIN udp_mappings -> MappingRecord]
         /\ \A n \in DOMAIN asks : age'[n] = Older(age[n])
         /\ \A k \in DOMAIN udp_mappings :
              /\ udp_mappings'[k].src_ip = udp_mappings[k].src_ip
              /\ udp_mappings'[k].age = Older(udp_mappings[k].age)
         /\ UNCHANGED <<pending, next_id, to_remote, to_tun, loop, remoteVars,
                        asks, fate, answered>>
<1>1. \A a \in Age : Older(a) \in Age
  BY DatagramAssumption DEF Age, Older
<1>2. /\ age' = [n \in DOMAIN age |-> Older(age[n])]
      /\ udp_mappings' = [k \in DOMAIN udp_mappings |->
                            [udp_mappings[k] EXCEPT !.age = Older(@)]]
      /\ UNCHANGED <<pending, next_id, to_remote, to_tun, loop, remoteVars,
                     asks, fate, answered>>
  BY DEF Tick
<1>3. /\ udp_mappings \in [DOMAIN udp_mappings -> MappingRecord]
      /\ age \in [DOMAIN asks -> Age]
  BY DEF DatagramTypeOK, MappingRecord
<1>4. ASSUME NEW k \in DOMAIN udp_mappings
      PROVE  /\ udp_mappings'[k] \in MappingRecord
             /\ udp_mappings'[k].src_ip = udp_mappings[k].src_ip
             /\ udp_mappings'[k].age = Older(udp_mappings[k].age)
  <2>1. udp_mappings[k] \in MappingRecord
    BY <1>3
  <2>2. udp_mappings'[k] = [udp_mappings[k] EXCEPT !.age = Older(@)]
    BY <1>2
  <2>3. Older(udp_mappings[k].age) \in Age
    BY <1>1, <2>1 DEF MappingRecord
  <2> QED
    BY <2>1, <2>2, <2>3 DEF MappingRecord
<1>5. /\ DOMAIN udp_mappings' = DOMAIN udp_mappings
      /\ udp_mappings' \in [DOMAIN udp_mappings -> MappingRecord]
  BY <1>2, <1>4
<1>6. age' \in [DOMAIN asks -> Age] /\ \A n \in DOMAIN asks : age'[n] = Older(age[n])
  BY <1>1, <1>2, <1>3
<1> QED
  BY <1>2, <1>4, <1>5, <1>6

(* Ageing keeps the state well typed.                                       *)
LEMMA TickType ==
  ASSUME DatagramTypeOK, Tick
  PROVE  TableTypeOK' /\ FlowTypeOK' /\ HistoryTypeOK'
<1>1. TableTypeOK /\ FlowTypeOK /\ HistoryTypeOK
  BY TypeParts
<1>2. /\ UNCHANGED <<pending, next_id, to_remote, to_tun, loop, remoteVars,
                     asks, fate, answered>>
      /\ DOMAIN udp_mappings' = DOMAIN udp_mappings
      /\ udp_mappings' \in [DOMAIN udp_mappings -> MappingRecord]
      /\ age' \in [DOMAIN asks -> Age]
  BY TickFacts
<1>3. TableTypeOK'
  BY <1>1, <1>2 DEF TableTypeOK
<1>4. FlowTypeOK'
  BY <1>1, <1>2 DEF FlowTypeOK, remoteVars
<1>5. HistoryTypeOK'
  BY <1>1, <1>2 DEF HistoryTypeOK
<1> QED
  BY <1>3, <1>4, <1>5

(* The response the loop takes, and what stays as it was.                   *)
LEMMA TakeFacts ==
  ASSUME FlowTypeOK, NEW type, TakeResponse(type)
  PROVE  /\ Head(responses) \in RemoteMessage /\ Head(responses).type = type
         /\ responses # <<>> /\ responses' = Tail(responses)
         /\ responses' \in Seq(RemoteMessage) /\ Len(responses') <= RespChanCap
         /\ UNCHANGED <<task, asks, age, udp_mappings, next_id, to_remote>>
<1>1. /\ responses # <<>> /\ responses' = Tail(responses)
      /\ Head(responses).type = type
      /\ UNCHANGED <<task, asks, age, udp_mappings, next_id, to_remote>>
  BY DEF TakeResponse
<1>2. responses \in Seq(RemoteMessage) /\ Len(responses) <= RespChanCap
  BY DEF FlowTypeOK
<1>3. /\ Head(responses) \in RemoteMessage
      /\ Tail(responses) \in Seq(RemoteMessage)
      /\ Len(Tail(responses)) = Len(responses) - 1 /\ Len(responses) \in Nat
  BY <1>1, <1>2
<1> QED
  BY <1>1, <1>2, <1>3, DatagramAssumption

(* What the loop does with a UDP response: it passes the answer on to the   *)
(* mapping's source, blocks, or drops what has no mapping.                  *)
LEMMA UdpResponseFacts ==
  ASSUME FlowTypeOK, TableTypeOK, HandleUdpResponse,
         NEW r, r = Head(responses),
         NEW key, key = [port |-> r.dst_port, dst |-> r.src]
  PROVE  /\ TakeResponse("UdpResponse") /\ pending' = pending
         /\ key \in UdpKey /\ r.data \in Ask
         /\ \/ /\ key \in DOMAIN udp_mappings
               /\ fate' = [fate EXCEPT ![r.data] =
                             Passed(key, udp_mappings[key].src_ip)]
               /\ loop' = loop
               /\ to_tun' \in Seq(UdpPacket) /\ Len(to_tun') <= HostChanCap
            \/ /\ loop' = "blocked" /\ UNCHANGED <<to_tun, fate>>
            \/ /\ key \notin DOMAIN udp_mappings
               /\ fate' = [fate EXCEPT ![r.data] = Unknown(key)]
               /\ UNCHANGED <<to_tun, loop>>
<1> DEFINE to == udp_mappings[key].src_ip
           pkt == [to |-> to, dst_port |-> r.dst_port, src |-> r.src, data |-> r.data]
<1>1. TakeResponse("UdpResponse") /\ pending' = pending
  BY DEF HandleUdpResponse
<1>2. r \in RemoteMessage /\ r.type = "UdpResponse"
  BY <1>1, TakeFacts
<1>3. r.data \in Ask /\ r.dst_port \in Port /\ r.src \in Dest
  BY <1>2, RemoteMessageFacts
<1>4. key \in UdpKey
  BY <1>3 DEF UdpKey
<1>5. \/ /\ key \in DOMAIN udp_mappings /\ Len(to_tun) < HostChanCap
         /\ to_tun' = Append(to_tun, pkt)
         /\ fate' = [fate EXCEPT ![r.data] = Passed(key, to)] /\ loop' = loop
      \/ /\ loop' = "blocked" /\ UNCHANGED <<to_tun, fate>>
      \/ /\ key \notin DOMAIN udp_mappings
         /\ fate' = [fate EXCEPT ![r.data] = Unknown(key)]
         /\ UNCHANGED <<to_tun, loop>>
  BY DEF HandleUdpResponse, Ends
<1>6. ASSUME key \in DOMAIN udp_mappings, Len(to_tun) < HostChanCap,
             to_tun' = Append(to_tun, pkt)
      PROVE  to_tun' \in Seq(UdpPacket) /\ Len(to_tun') <= HostChanCap
  <2>1. udp_mappings[key] \in MappingRecord
    BY <1>6 DEF TableTypeOK
  <2>2. pkt \in UdpPacket
    BY <1>3, <2>1 DEF UdpPacket, MappingRecord
  <2>3. to_tun \in Seq(UdpPacket)
    BY DEF FlowTypeOK
  <2> HIDE DEF pkt
  <2>4. /\ to_tun' \in Seq(UdpPacket) /\ Len(to_tun') = Len(to_tun) + 1
        /\ Len(to_tun) \in Nat
    BY <1>6, <2>2, <2>3
  <2> QED
    BY <1>6, <2>4, DatagramAssumption
<1> QED
  BY <1>1, <1>3, <1>4, <1>5, <1>6

(* A UDP response keeps the state well typed.                               *)
LEMMA UdpResponseType ==
  ASSUME FlowTypeOK, TableTypeOK, HistoryTypeOK, HandleUdpResponse
  PROVE  TableTypeOK' /\ FlowTypeOK' /\ HistoryTypeOK'
<1> DEFINE r == Head(responses)
           key == [port |-> r.dst_port, dst |-> r.src]
<1> HIDE DEF r, key
<1>1. /\ TakeResponse("UdpResponse") /\ pending' = pending
      /\ key \in UdpKey /\ r.data \in Ask
      /\ \/ /\ key \in DOMAIN udp_mappings
            /\ fate' = [fate EXCEPT ![r.data] =
                          Passed(key, udp_mappings[key].src_ip)]
            /\ loop' = loop
            /\ to_tun' \in Seq(UdpPacket) /\ Len(to_tun') <= HostChanCap
         \/ /\ loop' = "blocked" /\ UNCHANGED <<to_tun, fate>>
         \/ /\ key \notin DOMAIN udp_mappings
            /\ fate' = [fate EXCEPT ![r.data] = Unknown(key)]
            /\ UNCHANGED <<to_tun, loop>>
  BY UdpResponseFacts DEF r, key
<1>2. /\ responses' \in Seq(RemoteMessage) /\ Len(responses') <= RespChanCap
      /\ UNCHANGED <<task, asks, age, udp_mappings, next_id, to_remote>>
  BY <1>1, TakeFacts
<1>3. TableTypeOK'
  BY <1>1, <1>2 DEF TableTypeOK
<1>4. FlowTypeOK'
  BY <1>1, <1>2 DEF FlowTypeOK
<1>5. Unknown(key) \in Fate
  BY <1>1 DEF Unknown, Fate, Key
<1>6. ASSUME key \in DOMAIN udp_mappings
      PROVE  Passed(key, udp_mappings[key].src_ip) \in Fate
  BY <1>1, <1>6 DEF Passed, Fate, Key, TableTypeOK, MappingRecord
<1>7. answered' = answered
  BY DEF HandleUdpResponse
<1>8. HistoryTypeOK'
  BY <1>1, <1>2, <1>5, <1>6, <1>7 DEF HistoryTypeOK
<1> QED
  BY <1>3, <1>4, <1>8

(* What the loop does with a DNS response: the entry goes, and its socket   *)
(* gets the answer unless the send fails; without an entry it is dropped.   *)
LEMMA DnsResponseFacts ==
  ASSUME FlowTypeOK, HandleDnsResponse,
         NEW r, r = Head(responses), NEW key, key = [id |-> r.id]
  PROVE  /\ TakeResponse("DnsResponse") /\ UNCHANGED <<to_tun, loop>>
         /\ r.id \in DnsId /\ key \in DnsKey /\ r.data \in Ask
         /\ \/ /\ r.id \in DOMAIN pending
               /\ pending' = Without(pending, r.id)
               /\ \/ fate' = [fate EXCEPT ![r.data] = Passed(key, pending[r.id])]
                  \/ fate' = [fate EXCEPT ![r.data] = Lost]
            \/ /\ r.id \notin DOMAIN pending /\ pending' = pending
               /\ fate' = [fate EXCEPT ![r.data] = Unknown(key)]
<1>1. TakeResponse("DnsResponse") /\ UNCHANGED <<to_tun, loop>>
  BY DEF HandleDnsResponse
<1>2. r \in RemoteMessage /\ r.type = "DnsResponse"
  BY <1>1, TakeFacts
<1>3. r.data \in Ask /\ r.id \in DnsId
  BY <1>2, RemoteMessageFacts
<1>4. key \in DnsKey
  BY <1>3 DEF DnsKey
<1>5. \/ /\ r.id \in DOMAIN pending
         /\ pending' = Without(pending, r.id)
         /\ \/ fate' = [fate EXCEPT ![r.data] = Passed(key, pending[r.id])]
            \/ fate' = [fate EXCEPT ![r.data] = Lost]
      \/ /\ r.id \notin DOMAIN pending /\ pending' = pending
         /\ fate' = [fate EXCEPT ![r.data] = Unknown(key)]
  BY DEF HandleDnsResponse, Ends, RemovePending
<1> QED
  BY <1>1, <1>3, <1>4, <1>5

(* A DNS response keeps the state well typed.                               *)
LEMMA DnsResponseType ==
  ASSUME FlowTypeOK, TableTypeOK, HistoryTypeOK, HandleDnsResponse
  PROVE  TableTypeOK' /\ FlowTypeOK' /\ HistoryTypeOK'
<1> DEFINE r == Head(responses)
           key == [id |-> r.id]
<1> HIDE DEF r, key
<1>1. /\ TakeResponse("DnsResponse") /\ UNCHANGED <<to_tun, loop>>
      /\ r.id \in DnsId /\ key \in DnsKey /\ r.data \in Ask
      /\ \/ /\ r.id \in DOMAIN pending
            /\ pending' = Without(pending, r.id)
            /\ \/ fate' = [fate EXCEPT ![r.data] = Passed(key, pending[r.id])]
               \/ fate' = [fate EXCEPT ![r.data] = Lost]
         \/ /\ r.id \notin DOMAIN pending /\ pending' = pending
            /\ fate' = [fate EXCEPT ![r.data] = Unknown(key)]
  BY DnsResponseFacts DEF r, key
<1>2. /\ responses' \in Seq(RemoteMessage) /\ Len(responses') <= RespChanCap
      /\ UNCHANGED <<task, asks, age, udp_mappings, next_id, to_remote>>
  BY <1>1, TakeFacts
<1>3. /\ DOMAIN Without(pending, r.id) \subseteq DnsId
      /\ Without(pending, r.id) \in [DOMAIN Without(pending, r.id) -> Addr]
  BY DEF TableTypeOK, Without, Restrict
<1>4. TableTypeOK'
  BY <1>1, <1>2, <1>3 DEF TableTypeOK
<1>5. FlowTypeOK'
  BY <1>1, <1>2 DEF FlowTypeOK
<1>6. Unknown(key) \in Fate /\ Lost \in Fate
  BY <1>1 DEF Unknown, Lost, Fate, Key
<1>7. ASSUME r.id \in DOMAIN pending
      PROVE  Passed(key, pending[r.id]) \in Fate
  BY <1>1, <1>7 DEF Passed, Fate, Key, TableTypeOK
<1>8. /\ answered' = [answered EXCEPT ![r.id] = Len(asks)]
      /\ Len(asks) \in 0..MaxAsks
  BY DatagramAssumption DEF HandleDnsResponse, HistoryTypeOK, r
<1>9. answered' \in [DnsId -> 0..MaxAsks]
  BY <1>8 DEF HistoryTypeOK
<1>10. HistoryTypeOK'
  BY <1>1, <1>2, <1>6, <1>7, <1>9 DEF HistoryTypeOK
<1> QED
  BY <1>4, <1>5, <1>10

-----------------------------------------------------------------------------
(* Every action keeps the state well typed.                                 *)
LEMMA NextTypeOK == DatagramTypeOK /\ [DatagramNext]_datagramVars => DatagramTypeOK'
<1> SUFFICES ASSUME DatagramTypeOK, [DatagramNext]_datagramVars
             PROVE  TableTypeOK' /\ FlowTypeOK' /\ HistoryTypeOK'
  BY DEF DatagramTypeOK, TableTypeOK, FlowTypeOK, HistoryTypeOK, MappingRecord
<1> USE DatagramAssumption
<1>t. TableTypeOK /\ FlowTypeOK /\ HistoryTypeOK
  BY TypeParts
<1>1. ASSUME NEW a \in Addr, NEW p \in Port, NEW d \in Dest,
             HandleOutboundUdp(a, p, d)
      PROVE  TableTypeOK' /\ FlowTypeOK' /\ HistoryTypeOK'
  <2> DEFINE k == [port |-> p, dst |-> d]
  <2>1. k \in UdpKey /\ k \in Key
    BY DEF UdpKey, Key
  <2>2. /\ Len(asks) < MaxAsks /\ NewAsk(k, a)
        /\ udp_mappings' = TrackUdp(k, a)
        /\ SendToRemote([type |-> "UdpDatagram", src_port |-> p, dst |-> d,
                         data |-> NextAsk])
        /\ UNCHANGED <<pending, next_id, to_tun, remoteVars>>
    BY <1>1 DEF HandleOutboundUdp
  <2> HIDE DEF k
  <2>3. HistoryTypeOK' /\ NextAsk \in Ask
    BY <2>1, <2>2, NewAskFacts
  <2>4. FlowTypeOK'
    BY <1>t, <2>2, <2>3, MessageTypes, SendFacts DEF FlowTypeOK, remoteVars
  <2>5. /\ DOMAIN TrackUdp(k, a) \subseteq UdpKey
        /\ TrackUdp(k, a) \in [DOMAIN TrackUdp(k, a) -> MappingRecord]
    BY <1>t, <2>1, TrackUdpFacts DEF TableTypeOK
  <2>6. TableTypeOK'
    BY <1>t, <2>2, <2>5 DEF TableTypeOK
  <2> QED
    BY <2>3, <2>4, <2>6
<1>2. ASSUME NEW a \in Addr, HandleQuery(a)
      PROVE  TableTypeOK' /\ FlowTypeOK' /\ HistoryTypeOK'
  <2>1. /\ Len(asks) < MaxAsks /\ NewAsk([id |-> next_id], a)
        /\ pending' = Insert(pending, next_id, a)
        /\ next_id' = (next_id + 1) % IdSpace
        /\ SendToRemote([type |-> "DnsQuery", id |-> next_id, data |-> NextAsk])
        /\ UNCHANGED <<udp_mappings, to_tun, remoteVars>>
    BY <1>2 DEF HandleQuery
  <2>2. next_id \in DnsId /\ [id |-> next_id] \in Key
    BY <1>t DEF TableTypeOK, Key, DnsKey
  <2>3. HistoryTypeOK' /\ NextAsk \in Ask
    BY <2>1, <2>2, NewAskFacts
  <2>4. FlowTypeOK'
    BY <1>t, <2>1, <2>2, <2>3, MessageTypes, SendFacts DEF FlowTypeOK, remoteVars
  <2>5. next_id' \in DnsId
    BY <2>1, <2>2 DEF DnsId
  <2>6. /\ DOMAIN Insert(pending, next_id, a) \subseteq DnsId
        /\ Insert(pending, next_id, a) \in [DOMAIN Insert(pending, next_id, a) -> Addr]
    BY <1>t, <2>2 DEF TableTypeOK, Insert
  <2>7. TableTypeOK'
    BY <1>t, <2>1, <2>5, <2>6 DEF TableTypeOK
  <2> QED
    BY <2>3, <2>4, <2>7
<1>3. ASSUME RemoteTakes PROVE TableTypeOK' /\ FlowTypeOK' /\ HistoryTypeOK'
  <2> DEFINE t == [pc |-> "waiting", msg |-> Head(to_remote)]
             n == Head(to_remote).data
  <2>1. /\ to_remote # <<>> /\ to_remote' = Tail(to_remote)
        /\ task' = Insert(task, n, t)
        /\ UNCHANGED <<tableVars, to_tun, loop, responses, history>>
    BY <1>3 DEF RemoteTakes
  <2>2. /\ Tail(to_remote) \in Seq(HostMessage)
        /\ Len(Tail(to_remote)) = Len(to_remote) - 1
        /\ Head(to_remote) \in HostMessage /\ Len(to_remote) \in Nat
    BY <1>t, <2>1 DEF FlowTypeOK
  <2>3. n \in Ask /\ t \in Task
    BY <2>2, HostMessageFacts DEF Task
  <2> HIDE DEF t, n
  <2>4. DOMAIN Insert(task, n, t) \subseteq Ask
        /\ Insert(task, n, t) \in [DOMAIN Insert(task, n, t) -> Task]
    BY <1>t, <2>3 DEF FlowTypeOK, Insert
  <2>5. FlowTypeOK'
    BY <1>t, <2>1, <2>2, <2>4 DEF FlowTypeOK
  <2> QED
    BY <1>t, <2>1, <2>5 DEF TableTypeOK, HistoryTypeOK, tableVars, history
<1>4. ASSUME NEW n \in Ask, NEW src \in Dest, TaskReceives(n, src)
      PROVE  TableTypeOK' /\ FlowTypeOK' /\ HistoryTypeOK'
  <2> DEFINE t == [pc |-> "answering", msg |-> AnswerTo(task[n].msg, src)]
  <2>1. /\ Waiting(n) /\ task' = [task EXCEPT ![n] = t]
        /\ UNCHANGED <<hostVars, responses, history>>
    BY <1>4 DEF TaskReceives
  <2>2. t \in Task
    BY <1>t, <2>1, TaskFacts, AnswerFacts DEF Waiting, Task
  <2> HIDE DEF t
  <2>3. FlowTypeOK'
    BY <1>t, <2>1, <2>2 DEF FlowTypeOK, hostVars
  <2> QED
    BY <1>t, <2>1, <2>3 DEF TableTypeOK, HistoryTypeOK, hostVars, tableVars, history
<1>5. ASSUME NEW n \in Ask, TaskGivesUp(n)
      PROVE  TableTypeOK' /\ FlowTypeOK' /\ HistoryTypeOK'
  <2>1. /\ task' = Without(task, n) /\ fate' = [fate EXCEPT ![n] = Lost]
        /\ UNCHANGED <<hostVars, responses, asks, age, answered>>
    BY <1>5 DEF TaskGivesUp
  <2>2. Lost \in Fate
    BY DEF Lost, Fate
  <2>3. FlowTypeOK'
    BY <1>t, <2>1, TaskGoneType DEF FlowTypeOK, hostVars
  <2>4. HistoryTypeOK'
    BY <1>t, <2>1, <2>2 DEF HistoryTypeOK
  <2> QED
    BY <1>t, <2>1, <2>3, <2>4 DEF TableTypeOK, hostVars, tableVars
<1>6. ASSUME NEW n \in Ask, TaskAnswers(n)
      PROVE  TableTypeOK' /\ FlowTypeOK' /\ HistoryTypeOK'
  <2>1. /\ n \in DOMAIN task /\ task[n].pc = "answering"
        /\ Len(responses) < RespChanCap
        /\ responses' = Append(responses, task[n].msg)
        /\ task' = Without(task, n) /\ UNCHANGED <<hostVars, history>>
    BY <1>6 DEF TaskAnswers
  <2>2. task[n].msg \in RemoteMessage
    BY <1>t, <2>1, TaskFacts
  <2> DEFINE m == task[n].msg
  <2> HIDE DEF m
  <2>3. responses \in Seq(RemoteMessage) /\ m \in RemoteMessage
    BY <1>t, <2>2 DEF FlowTypeOK, m
  <2>4. responses' = Append(responses, m)
    BY <2>1 DEF m
  <2>5. /\ Append(responses, m) \in Seq(RemoteMessage)
        /\ Len(Append(responses, m)) = Len(responses) + 1 /\ Len(responses) \in Nat
    BY <2>3
  <2>6. /\ responses' \in Seq(RemoteMessage)
        /\ Len(responses') = Len(responses) + 1 /\ Len(responses) \in Nat
    BY <2>4, <2>5
  <2>7. Len(responses') <= RespChanCap
    BY <2>1, <2>6
  <2>8. DOMAIN task' \subseteq Ask /\ task' \in [DOMAIN task' -> Task]
    BY <1>t, <2>1, TaskGoneType
  <2>9. UNCHANGED <<to_remote, to_tun, loop>>
    BY <2>1 DEF hostVars
  <2>10. FlowTypeOK'
    BY <1>t, <2>6, <2>7, <2>8, <2>9 DEF FlowTypeOK
  <2> QED
    BY <1>t, <2>1, <2>10 DEF TableTypeOK, HistoryTypeOK, hostVars, tableVars, history
<1>7. ASSUME HandleUdpResponse PROVE TableTypeOK' /\ FlowTypeOK' /\ HistoryTypeOK'
  BY <1>7, <1>t, UdpResponseType
<1>8. ASSUME HandleDnsResponse PROVE TableTypeOK' /\ FlowTypeOK' /\ HistoryTypeOK'
  BY <1>8, <1>t, DnsResponseType
<1>9. ASSUME WriteToTun PROVE TableTypeOK' /\ FlowTypeOK' /\ HistoryTypeOK'
  <2>1. /\ to_tun # <<>> /\ to_tun' = Tail(to_tun)
        /\ UNCHANGED <<tableVars, to_remote, loop, remoteVars, history>>
    BY <1>9 DEF WriteToTun
  <2>2. /\ to_tun' \in Seq(UdpPacket)
        /\ Len(to_tun') = Len(to_tun) - 1 /\ Len(to_tun) \in Nat
    BY <1>t, <2>1 DEF FlowTypeOK
  <2> QED
    BY <1>t, <2>1, <2>2 DEF TableTypeOK, FlowTypeOK, HistoryTypeOK, tableVars,
                            remoteVars, history
<1>10. ASSUME Tick PROVE TableTypeOK' /\ FlowTypeOK' /\ HistoryTypeOK'
  BY <1>10, <1>t, TickType
<1>11. CASE UNCHANGED datagramVars
  BY <1>t, <1>11 DEF TableTypeOK, FlowTypeOK, HistoryTypeOK, datagramVars, hostVars,
                     remoteVars, history, tableVars
<1> QED
  BY <1>1, <1>2, <1>3, <1>4, <1>5, <1>6, <1>7, <1>8, <1>9, <1>10, <1>11
  DEF DatagramNext, HostNext, TaskNext

(* TypeOK: the tables, the channels, the tasks and the history of the       *)
(* datagram path keep their types and their bounds (nat.rs:33, dns.rs:26,   *)
(* host/mod.rs:127-128, remote/mod.rs:66).                                  *)
THEOREM DatagramTypeCorrect == DatagramSpec => []DatagramTypeOK
  BY InitTypeOK, NextTypeOK, PTL DEF DatagramSpec

-----------------------------------------------------------------------------
(* The last ask with a key.                                                 *)

Top(S) == CHOOSE n \in S : \A m \in S : m <= n

IsTop(n, S) == n \in S /\ \A m \in S : m <= n

(* The keys that were asked with have a last ask.                           *)
HasLast == \A k \in Key : With(k) # {} => \E n \in With(k) : IsTop(n, With(k))

(* The largest of a set of numbers, when there is one, is Top of it.        *)
LEMMA TopFacts ==
  ASSUME NEW S \in SUBSET Nat, NEW n, IsTop(n, S)
  PROVE  Top(S) = n
<1>1. n \in S /\ \A m \in S : m <= n
  BY DEF IsTop
<1>2. Top(S) \in S /\ \A m \in S : m <= Top(S)
  BY <1>1 DEF Top
<1>3. n \in Nat /\ Top(S) \in Nat /\ n <= Top(S) /\ Top(S) <= n
  BY <1>1, <1>2
<1> QED
  BY <1>3

(* LastWith depends on the asks through With alone.                         *)
LEMMA LastIsTop ==
  ASSUME NEW k
  PROVE  LastWith(k) = Top(With(k)) /\ LastWith(k)' = Top(With(k)')
  BY DEF LastWith, Top

(* The asks are numbered.                                                   *)
LEMMA WithFacts ==
  ASSUME HistoryTypeOK, NEW k
  PROVE  /\ With(k) \in SUBSET Nat
         /\ \A n \in With(k) : n \in DOMAIN asks /\ asks[n].key = k
         /\ \A n \in DOMAIN asks : asks[n].key = k => n \in With(k)
<1>1. asks \in Seq([key : Key, from : Addr])
  BY DEF HistoryTypeOK
<1>2. DOMAIN asks \in SUBSET Nat
  BY <1>1
<1> QED
  BY <1>2 DEF With

(* LastWith of a key that was asked with is one of its asks.                *)
LEMMA LastFacts ==
  ASSUME HistoryTypeOK, HasLast, NEW k \in Key, With(k) # {}
  PROVE  /\ LastWith(k) \in With(k)
         /\ LastWith(k) \in DOMAIN asks /\ asks[LastWith(k)].key = k
<1>1. PICK n \in With(k) : IsTop(n, With(k))
  BY DEF HasLast
<1>2. With(k) \in SUBSET Nat
  BY WithFacts
<1>3. Top(With(k)) = n
  BY <1>1, <1>2, TopFacts
<1> QED
  BY <1>1, <1>3, LastIsTop, WithFacts

(* A new ask is the last one with its key; the other keys keep theirs.      *)
LEMMA AskFacts ==
  ASSUME DatagramTypeOK, HasLast, Len(asks) < MaxAsks,
         NEW key \in Key, NEW a \in Addr, NewAsk(key, a)
  PROVE  /\ HasLast'
         /\ With(key)' = With(key) \cup {NextAsk} /\ LastWith(key)' = NextAsk
         /\ asks'[LastWith(key)'].from = a
         /\ \A j \in Key \ {key} :
              /\ With(j)' = With(j) /\ LastWith(j)' = LastWith(j)
              /\ With(j) # {} => asks'[LastWith(j)'] = asks[LastWith(j)]
<1>1. /\ HistoryTypeOK /\ HistoryTypeOK'
      /\ NextAsk \in Ask /\ NextAsk \notin DOMAIN asks
      /\ DOMAIN asks' = DOMAIN asks \cup {NextAsk}
      /\ asks'[NextAsk] = [key |-> key, from |-> a]
      /\ \A n \in DOMAIN asks : asks'[n] = asks[n]
      /\ \A n \in DOMAIN asks : n < NextAsk
  BY TypeParts, NewAskFacts
<1>2. With(key)' = With(key) \cup {NextAsk}
  BY <1>1 DEF With
<1>3. \A j \in Key \ {key} : With(j)' = With(j)
  BY <1>1 DEF With
<1>4. With(key)' \in SUBSET Nat /\ IsTop(NextAsk, With(key)')
  <2>1. With(key) \in SUBSET Nat /\ \A n \in With(key) : n < NextAsk
    BY <1>1, WithFacts
  <2>2. NextAsk \in Nat
    BY <1>1 DEF Ask
  <2> QED
    BY <1>2, <2>1, <2>2 DEF IsTop
<1>5. Top(With(key)') = NextAsk
  BY <1>4, TopFacts
<1>6. LastWith(key)' = NextAsk
  BY <1>5, LastIsTop
<1>7. \A j \in Key \ {key} : LastWith(j)' = LastWith(j)
  BY <1>3, LastIsTop
<1>8. \A j \in Key \ {key} : With(j) # {} => asks'[LastWith(j)'] = asks[LastWith(j)]
  BY <1>1, <1>7, LastFacts
<1>9. HasLast'
  <2> SUFFICES ASSUME NEW k \in Key, With(k)' # {}
               PROVE  \E n \in With(k)' : IsTop(n, With(k)')
    BY DEF HasLast
  <2>1. CASE k = key
    BY <1>2, <1>4, <2>1
  <2>2. CASE k # key
    BY <1>3, <2>2 DEF HasLast
  <2> QED
    BY <2>1, <2>2
<1> QED
  BY <1>1, <1>2, <1>3, <1>6, <1>7, <1>8, <1>9

(* A step either asks or leaves the asks alone.                             *)
LEMMA AsksStep ==
  ASSUME DatagramTypeOK, [DatagramNext]_datagramVars
  PROVE  \/ asks' = asks
         \/ /\ Len(asks) < MaxAsks
            /\ \E key \in Key, a \in Addr : NewAsk(key, a)
<1>1. ASSUME NEW a \in Addr, NEW p \in Port, NEW d \in Dest,
             HandleOutboundUdp(a, p, d)
      PROVE  /\ Len(asks) < MaxAsks
             /\ \E key \in Key, b \in Addr : NewAsk(key, b)
  <2>1. [port |-> p, dst |-> d] \in Key
    BY DEF Key, UdpKey
  <2> QED
    BY <1>1, <2>1 DEF HandleOutboundUdp
<1>2. ASSUME NEW a \in Addr, HandleQuery(a)
      PROVE  /\ Len(asks) < MaxAsks
             /\ \E key \in Key, b \in Addr : NewAsk(key, b)
  <2>1. [id |-> next_id] \in Key
    BY DEF Key, DnsKey, DatagramTypeOK
  <2> QED
    BY <1>2, <2>1 DEF HandleQuery
<1>3. RemoteTakes \/ Tick \/ WriteToTun \/ UNCHANGED datagramVars => asks' = asks
  BY DEF RemoteTakes, Tick, WriteToTun, datagramVars, history
<1>4. HandleUdpResponse \/ HandleDnsResponse => asks' = asks
  BY DEF HandleUdpResponse, HandleDnsResponse, TakeResponse
<1>5. \A n \in Ask : TaskNext(n) => asks' = asks
  BY DEF TaskNext, TaskReceives, TaskGivesUp, TaskAnswers, history
<1> QED
  BY <1>1, <1>2, <1>3, <1>4, <1>5 DEF DatagramNext, HostNext

(* HasLast is kept.                                                         *)
LEMMA NextHasLast ==
  ASSUME DatagramTypeOK, HasLast, [DatagramNext]_datagramVars
  PROVE  HasLast'
<1>1. CASE asks' = asks
  BY <1>1 DEF HasLast, With
<1>2. ASSUME Len(asks) < MaxAsks, NEW key \in Key, NEW a \in Addr, NewAsk(key, a)
      PROVE  HasLast'
  BY <1>2, AskFacts
<1> QED
  BY <1>1, <1>2, AsksStep

-----------------------------------------------------------------------------
(* Messages on their way.                                                   *)

(* The message m is about an ask among A that is open by F, and it carries  *)
(* what its answer is to be matched by.                                     *)
BelongsIn(m, A, F) ==
  /\ m.data \in DOMAIN A /\ F[m.data] = Open
  /\ m.type \in {"DnsQuery", "DnsResponse"} => A[m.data].key = [id |-> m.id]
  /\ m.type \in {"UdpDatagram", "UdpResponse"} => A[m.data].key \in UdpKey

Sent ==
  /\ \A i \in DOMAIN to_remote :
       BelongsIn(to_remote[i], asks, fate) /\ to_remote[i].data \notin DOMAIN task
  /\ \A i, j \in DOMAIN to_remote :
       to_remote[i].data = to_remote[j].data => i = j

Running ==
  \A n \in DOMAIN task :
    BelongsIn(task[n].msg, asks, fate) /\ task[n].msg.data = n

Answered ==
  /\ \A i \in DOMAIN responses :
       /\ BelongsIn(responses[i], asks, fate)
       /\ responses[i].data \notin DOMAIN task
       /\ \A j \in DOMAIN to_remote : responses[i].data # to_remote[j].data
  /\ \A i, j \in DOMAIN responses :
       responses[i].data = responses[j].data => i = j

(* A number not asked with yet is open, and an ask with a message on its    *)
(* way has exactly one.                                                     *)
InFlight ==
  /\ \A n \in Ask \ DOMAIN asks : fate[n] = Open
  /\ Sent /\ Running /\ Answered

(* The asks made are among those that may be made.                          *)
LEMMA AsksAreBounded ==
  ASSUME DatagramTypeOK
  PROVE  DOMAIN asks \subseteq Ask
<1>1. asks \in Seq([key : Key, from : Addr]) /\ Len(asks) <= MaxAsks
  BY DEF DatagramTypeOK
<1> QED
  BY <1>1, DatagramAssumption DEF Ask

(* The message of a new ask is the only one about it.                       *)
LEMMA AskInFlight ==
  ASSUME DatagramTypeOK, InFlight, Len(asks) < MaxAsks,
         NEW key \in Key, NEW a \in Addr, NewAsk(key, a),
         NEW m \in HostMessage, m.data = NextAsk, SendToRemote(m),
         m.type = "DnsQuery" => key = [id |-> m.id],
         m.type # "DnsQuery" => key \in UdpKey,
         UNCHANGED remoteVars
  PROVE  InFlight'
<1>1. /\ NextAsk \in Ask /\ NextAsk \notin DOMAIN asks
      /\ DOMAIN asks' = DOMAIN asks \cup {NextAsk}
      /\ asks'[NextAsk] = [key |-> key, from |-> a]
      /\ \A n \in DOMAIN asks : asks'[n] = asks[n]
      /\ fate' = fate
  BY NewAskFacts
<1>2. task' = task /\ responses' = responses
  BY DEF remoteVars
<1>3. to_remote \in Seq(HostMessage)
  BY DEF DatagramTypeOK
<1>4. \/ to_remote' = to_remote
      \/ to_remote' = Append(to_remote, m)
  BY TypeParts, SendFacts
<1>5. /\ DOMAIN Append(to_remote, m) = DOMAIN to_remote \cup {Len(to_remote) + 1}
      /\ \A i \in DOMAIN to_remote : Append(to_remote, m)[i] = to_remote[i]
      /\ Append(to_remote, m)[Len(to_remote) + 1] = m
      /\ Len(to_remote) + 1 \notin DOMAIN to_remote
  BY <1>3, ChannelFacts
<1>6. BelongsIn(m, asks', fate')
  <2>1. fate[NextAsk] = Open
    BY <1>1 DEF InFlight
  <2>2. m.type = "DnsQuery" \/ m.type = "UdpDatagram"
    BY HostMessageFacts
  <2> QED
    BY <1>1, <2>1, <2>2 DEF BelongsIn
<1>7. ASSUME NEW x, BelongsIn(x, asks, fate)
      PROVE  BelongsIn(x, asks', fate') /\ x.data # NextAsk
  BY <1>1, <1>7 DEF BelongsIn
<1>8. NextAsk \notin DOMAIN task
  BY <1>7 DEF InFlight, Running
<1>9. \A i \in DOMAIN to_remote' :
        \/ i \in DOMAIN to_remote /\ to_remote'[i] = to_remote[i]
        \/ i = Len(to_remote) + 1 /\ to_remote'[i] = m /\ i \notin DOMAIN to_remote
  BY <1>4, <1>5
<1>10. Sent'
  <2>1. \A i \in DOMAIN to_remote : /\ BelongsIn(to_remote[i], asks', fate')
                                    /\ to_remote[i].data # NextAsk
                                    /\ to_remote[i].data \notin DOMAIN task
    BY <1>7 DEF InFlight, Sent
  <2>2. ASSUME NEW i \in DOMAIN to_remote'
        PROVE  /\ BelongsIn(to_remote'[i], asks', fate')
               /\ to_remote'[i].data \notin DOMAIN task'
    BY <1>2, <1>6, <1>8, <1>9, <2>1
  <2>3. ASSUME NEW i \in DOMAIN to_remote', NEW j \in DOMAIN to_remote',
               to_remote'[i].data = to_remote'[j].data
        PROVE  i = j
    <3>1. CASE i \in DOMAIN to_remote /\ j \in DOMAIN to_remote
      BY <1>9, <2>3, <3>1 DEF InFlight, Sent
    <3>2. CASE i \notin DOMAIN to_remote \/ j \notin DOMAIN to_remote
      BY <1>9, <2>1, <2>3, <3>2
    <3> QED
      BY <3>1, <3>2
  <2> QED
    BY <2>2, <2>3 DEF Sent
<1>11. Running'
  BY <1>2, <1>7 DEF InFlight, Running
<1>12. Answered'
  BY <1>2, <1>7, <1>9 DEF InFlight, Answered
<1>13. \A n \in Ask \ DOMAIN asks' : fate'[n] = Open
  BY <1>1 DEF InFlight
<1> QED
  BY <1>10, <1>11, <1>12, <1>13 DEF InFlight

(* Starting a task moves its message.                                       *)
LEMMA TakesInFlight ==
  ASSUME DatagramTypeOK, InFlight, RemoteTakes
  PROVE  InFlight'
<1> DEFINE h == Head(to_remote)
           n == h.data
           q == Tail(to_remote)
<1> HIDE DEF h, n, q
<1>1. /\ to_remote # <<>> /\ to_remote' = q
      /\ task' = Insert(task, n, [pc |-> "waiting", msg |-> h])
      /\ asks' = asks /\ fate' = fate /\ responses' = responses
  BY DEF RemoteTakes, h, n, q, history
<1>2. to_remote \in Seq(HostMessage)
  BY DEF DatagramTypeOK
<1>3. /\ 1 \in DOMAIN to_remote /\ h = to_remote[1]
      /\ \A i \in DOMAIN q : /\ i + 1 \in DOMAIN to_remote /\ i + 1 # 1
                             /\ i \in Nat /\ q[i] = to_remote[i + 1]
  BY <1>1, <1>2, TailFacts DEF h, q
<1>4. /\ n = h.data /\ BelongsIn(h, asks, fate) /\ n \notin DOMAIN task
      /\ \A i \in DOMAIN q : BelongsIn(q[i], asks, fate) /\ q[i].data \notin DOMAIN task
      /\ \A i \in DOMAIN q : q[i].data # n
  BY <1>3 DEF InFlight, Sent, n
<1>5. \A i, j \in DOMAIN q : q[i].data = q[j].data => i = j
  <2> SUFFICES ASSUME NEW i \in DOMAIN q, NEW j \in DOMAIN q, q[i].data = q[j].data
               PROVE  i = j
    OBVIOUS
  <2>1. i + 1 = j + 1
    BY <1>3 DEF InFlight, Sent
  <2> QED
    BY <1>3, <2>1
<1>6. /\ DOMAIN task' = DOMAIN task \cup {n}
      /\ task'[n].msg = h
      /\ \A x \in DOMAIN task : x # n => task'[x] = task[x]
  BY <1>1 DEF Insert
<1>7. Sent'
  BY <1>1, <1>4, <1>5, <1>6 DEF Sent
<1>8. Running'
  BY <1>1, <1>4, <1>6 DEF InFlight, Running
<1>9. Answered'
  <2>1. \A i \in DOMAIN responses : /\ BelongsIn(responses[i], asks, fate)
                                    /\ responses[i].data \notin DOMAIN task \cup {n}
    BY <1>3, <1>4 DEF InFlight, Answered
  <2>2. \A i \in DOMAIN responses, j \in DOMAIN q : responses[i].data # q[j].data
    BY <1>3 DEF InFlight, Answered
  <2>3. \A i, j \in DOMAIN responses : responses[i].data = responses[j].data => i = j
    BY DEF InFlight, Answered
  <2> QED
    BY <1>1, <1>6, <2>1, <2>2, <2>3 DEF Answered
<1> QED
  BY <1>1, <1>7, <1>8, <1>9 DEF InFlight

(* The answer a task takes is about the same ask.                           *)
LEMMA ReceivesInFlight ==
  ASSUME DatagramTypeOK, InFlight, NEW n \in Ask, NEW src \in Dest,
         TaskReceives(n, src)
  PROVE  InFlight'
<1> DEFINE m == AnswerTo(task[n].msg, src)
<1>1. /\ n \in DOMAIN task /\ task[n].pc = "waiting"
      /\ task' = [task EXCEPT ![n] = [pc |-> "answering", msg |-> m]]
      /\ UNCHANGED <<to_remote, responses, asks, fate>>
  BY DEF TaskReceives, Waiting, hostVars, history
<1>2. task[n].msg \in HostMessage
  BY <1>1, TypeParts, TaskFacts
<1>3. /\ m.data = task[n].msg.data
      /\ task[n].msg.type = "DnsQuery" => m.type = "DnsResponse" /\ m.id = task[n].msg.id
      /\ task[n].msg.type # "DnsQuery" => m.type = "UdpResponse"
      /\ task[n].msg.type \in {"DnsQuery", "UdpDatagram"}
  BY <1>2, AnswerFacts, HostMessageFacts
<1> HIDE DEF m
<1>4. BelongsIn(task[n].msg, asks, fate) /\ task[n].msg.data = n
  BY <1>1 DEF InFlight, Running
<1>5. BelongsIn(m, asks, fate) /\ m.data = n
  BY <1>3, <1>4 DEF BelongsIn
<1>6. /\ DOMAIN task' = DOMAIN task /\ task'[n].msg = m
      /\ \A x \in DOMAIN task : x # n => task'[x] = task[x]
  BY <1>1
<1>7. Running'
  BY <1>1, <1>5, <1>6 DEF InFlight, Running
<1>8. Sent' /\ Answered'
  BY <1>1, <1>6 DEF InFlight, Sent, Answered
<1> QED
  BY <1>1, <1>7, <1>8 DEF InFlight

(* A task that gives up was the only bearer of its ask.                     *)
LEMMA GivesUpInFlight ==
  ASSUME DatagramTypeOK, InFlight, NEW n \in Ask, TaskGivesUp(n)
  PROVE  InFlight'
<1>1. /\ n \in DOMAIN task /\ task' = Without(task, n)
      /\ fate' = [fate EXCEPT ![n] = Lost]
      /\ UNCHANGED <<to_remote, responses, asks>>
  BY DEF TaskGivesUp, Waiting, hostVars
<1>2. /\ DOMAIN task' = DOMAIN task \ {n}
      /\ \A x \in DOMAIN task' : task'[x] = task[x]
  BY <1>1, TypeParts, TaskGoneType
<1>3. fate \in [Ask -> Fate]
  BY DEF DatagramTypeOK
<1>4. \A x \in Ask : x # n => fate'[x] = fate[x]
  BY <1>1, <1>3
<1>5. ASSUME NEW m, BelongsIn(m, asks, fate), m.data # n
      PROVE  BelongsIn(m, asks', fate')
  BY <1>1, <1>4, <1>5, AsksAreBounded DEF BelongsIn
<1>6. Sent'
  BY <1>1, <1>2, <1>5 DEF InFlight, Sent
<1>7. Running'
  BY <1>2, <1>5 DEF InFlight, Running
<1>8. Answered'
  BY <1>1, <1>2, <1>5 DEF InFlight, Answered
<1>9. n \in DOMAIN asks
  BY <1>1 DEF InFlight, Running, BelongsIn
<1>10. \A x \in Ask \ DOMAIN asks' : fate'[x] = Open
  BY <1>1, <1>4, <1>9 DEF InFlight
<1> QED
  BY <1>6, <1>7, <1>8, <1>10 DEF InFlight

(* A task that answers hands its message over and is gone.                  *)
LEMMA AnswersInFlight ==
  ASSUME DatagramTypeOK, InFlight, NEW n \in Ask, TaskAnswers(n)
  PROVE  InFlight'
<1> DEFINE m == task[n].msg
<1> HIDE DEF m
<1>1. /\ n \in DOMAIN task /\ task[n].pc = "answering"
      /\ responses' = Append(responses, m)
      /\ task' = Without(task, n) /\ UNCHANGED <<to_remote, asks, fate>>
  BY DEF TaskAnswers, hostVars, history, m
<1>2. m \in RemoteMessage
  BY <1>1, TypeParts, TaskFacts DEF m
<1>3. BelongsIn(m, asks, fate) /\ m.data = n
  BY <1>1 DEF InFlight, Running, m
<1>4. responses \in Seq(RemoteMessage)
  BY DEF DatagramTypeOK
<1>5. \A i \in DOMAIN responses' :
        \/ i \in DOMAIN responses /\ responses'[i] = responses[i]
        \/ i = Len(responses) + 1 /\ responses'[i] = m /\ i \notin DOMAIN responses
  BY <1>1, <1>2, <1>4, ChannelFacts
<1>6. /\ DOMAIN task' = DOMAIN task \ {n}
      /\ \A x \in DOMAIN task' : task'[x] = task[x]
  BY <1>1, TypeParts, TaskGoneType
<1>7. Sent' /\ Running'
  BY <1>1, <1>6 DEF InFlight, Sent, Running
<1>8. Answered'
  <2>1. \A i \in DOMAIN responses : responses[i].data # n
    BY <1>1 DEF InFlight, Answered
  <2>2. \A j \in DOMAIN to_remote : to_remote[j].data # n
    BY <1>1 DEF InFlight, Sent
  <2>3. ASSUME NEW i \in DOMAIN responses'
        PROVE  /\ BelongsIn(responses'[i], asks', fate')
               /\ responses'[i].data \notin DOMAIN task'
               /\ \A j \in DOMAIN to_remote' : responses'[i].data # to_remote'[j].data
    <3>1. CASE i \in DOMAIN responses /\ responses'[i] = responses[i]
      BY <1>1, <1>6, <3>1 DEF InFlight, Answered
    <3>2. CASE responses'[i] = m
      BY <1>1, <1>3, <1>6, <2>2, <3>2
    <3> QED
      BY <1>5, <3>1, <3>2
  <2>4. ASSUME NEW i \in DOMAIN responses', NEW j \in DOMAIN responses',
               responses'[i].data = responses'[j].data
        PROVE  i = j
    <3>1. CASE i \in DOMAIN responses /\ j \in DOMAIN responses
      BY <1>5, <2>4, <3>1 DEF InFlight, Answered
    <3>2. CASE i \notin DOMAIN responses \/ j \notin DOMAIN responses
      BY <1>3, <1>5, <2>1, <2>4, <3>2
    <3> QED
      BY <3>1, <3>2
  <2> QED
    BY <2>3, <2>4 DEF Answered
<1> QED
  BY <1>1, <1>7, <1>8 DEF InFlight

(* A response leaves the channel, and only the fate of its ask is decided.  *)
LEMMA TakenInFlight ==
  ASSUME DatagramTypeOK, InFlight, NEW type, TakeResponse(type),
         \A x \in Ask : x # Head(responses).data => fate'[x] = fate[x]
  PROVE  InFlight'
<1> DEFINE h == Head(responses)
           q == Tail(responses)
<1> HIDE DEF h, q
<1>1. /\ responses # <<>> /\ responses' = q
      /\ UNCHANGED <<task, asks, to_remote>>
  BY DEF TakeResponse, q
<1>2. responses \in Seq(RemoteMessage)
  BY DEF DatagramTypeOK
<1>3. /\ 1 \in DOMAIN responses /\ h = responses[1]
      /\ \A i \in DOMAIN q : /\ i + 1 \in DOMAIN responses /\ i + 1 # 1
                             /\ i \in Nat /\ q[i] = responses[i + 1]
  BY <1>1, <1>2, TailFacts DEF h, q
<1>4. DOMAIN asks \subseteq Ask
  BY AsksAreBounded
<1>5. /\ h.data \in DOMAIN asks /\ h.data \notin DOMAIN task
      /\ \A j \in DOMAIN to_remote : to_remote[j].data # h.data
      /\ \A i \in DOMAIN q : q[i].data # h.data
  <2>1. BelongsIn(h, asks, fate) /\ h.data \notin DOMAIN task
    BY <1>3 DEF InFlight, Answered
  <2>2. \A j \in DOMAIN to_remote : to_remote[j].data # h.data
    BY <1>3 DEF InFlight, Answered
  <2>3. \A i \in DOMAIN q : q[i].data # h.data
    BY <1>3 DEF InFlight, Answered
  <2> QED
    BY <2>1, <2>2, <2>3 DEF BelongsIn
<1>6. ASSUME NEW m, BelongsIn(m, asks, fate), m.data # h.data
      PROVE  BelongsIn(m, asks', fate')
  <2>1. fate'[m.data] = fate[m.data]
    BY <1>4, <1>6 DEF BelongsIn, h
  <2> QED
    BY <1>1, <1>6, <2>1 DEF BelongsIn
<1>7. Sent'
  BY <1>1, <1>5, <1>6 DEF InFlight, Sent
<1>8. Running'
  BY <1>1, <1>5, <1>6 DEF InFlight, Running
<1>9. Answered'
  <2>1. \A i \in DOMAIN q : /\ BelongsIn(q[i], asks', fate')
                            /\ q[i].data \notin DOMAIN task
                            /\ \A j \in DOMAIN to_remote : q[i].data # to_remote[j].data
    BY <1>3, <1>5, <1>6 DEF InFlight, Answered
  <2>2. \A i, j \in DOMAIN q : q[i].data = q[j].data => i = j
    <3> SUFFICES ASSUME NEW i \in DOMAIN q, NEW j \in DOMAIN q, q[i].data = q[j].data
                 PROVE  i = j
      OBVIOUS
    <3>1. i + 1 = j + 1
      BY <1>3 DEF InFlight, Answered
    <3> QED
      BY <1>3, <3>1
  <2> QED
    BY <1>1, <2>1, <2>2 DEF Answered
<1>10. \A n \in Ask \ DOMAIN asks' : fate'[n] = Open
  BY <1>1, <1>5 DEF InFlight, h
<1> QED
  BY <1>7, <1>8, <1>9, <1>10 DEF InFlight

(* Whichever way a response is handled, another ask keeps its fate.         *)
LEMMA ResponseFate ==
  ASSUME DatagramTypeOK, HandleUdpResponse \/ HandleDnsResponse
  PROVE  \A x \in Ask : x # Head(responses).data => fate'[x] = fate[x]
<1>1. fate \in [Ask -> Fate]
  BY DEF DatagramTypeOK
<1> DEFINE r == Head(responses)
           u == [port |-> r.dst_port, dst |-> r.src]
           q == [id |-> r.id]
<1> HIDE DEF r, u, q
<1>2. FlowTypeOK /\ TableTypeOK
  BY TypeParts
<1>3. CASE HandleUdpResponse
  <2>1. \/ fate' = [fate EXCEPT ![r.data] = Passed(u, udp_mappings[u].src_ip)]
        \/ fate' = fate
        \/ fate' = [fate EXCEPT ![r.data] = Unknown(u)]
    BY <1>2, <1>3, UdpResponseFacts DEF r, u
  <2> QED
    BY <1>1, <2>1 DEF r
<1>4. CASE HandleDnsResponse
  <2>1. \/ fate' = [fate EXCEPT ![r.data] = Passed(q, pending[r.id])]
        \/ fate' = [fate EXCEPT ![r.data] = Lost]
        \/ fate' = [fate EXCEPT ![r.data] = Unknown(q)]
    BY <1>2, <1>4, DnsResponseFacts DEF r, q
  <2> QED
    BY <1>1, <2>1 DEF r
<1> QED
  BY <1>3, <1>4

(* InFlight is kept.                                                        *)
LEMMA NextInFlight ==
  ASSUME DatagramTypeOK, InFlight, [DatagramNext]_datagramVars
  PROVE  InFlight'
<1>1. ASSUME NEW a \in Addr, NEW p \in Port, NEW d \in Dest,
             HandleOutboundUdp(a, p, d)
      PROVE  InFlight'
  <2> DEFINE k == [port |-> p, dst |-> d]
             m == [type |-> "UdpDatagram", src_port |-> p, dst |-> d,
                   data |-> NextAsk]
  <2>1. k \in UdpKey /\ k \in Key
    BY DEF UdpKey, Key
  <2>2. /\ Len(asks) < MaxAsks /\ NewAsk(k, a) /\ SendToRemote(m)
        /\ UNCHANGED remoteVars
    BY <1>1 DEF HandleOutboundUdp
  <2>3. m.type = "UdpDatagram" /\ m.data = NextAsk
    OBVIOUS
  <2>4. NextAsk \in Ask
    BY <2>1, <2>2, NewAskFacts
  <2>5. m \in HostMessage
    BY <2>4, MessageTypes
  <2> HIDE DEF k, m
  <2> QED
    BY <2>1, <2>2, <2>3, <2>5, AskInFlight
<1>2. ASSUME NEW a \in Addr, HandleQuery(a) PROVE InFlight'
  <2> DEFINE k == [id |-> next_id]
             m == [type |-> "DnsQuery", id |-> next_id, data |-> NextAsk]
  <2>1. next_id \in DnsId /\ k \in Key
    BY DEF Key, DnsKey, DatagramTypeOK
  <2>2. /\ Len(asks) < MaxAsks /\ NewAsk(k, a) /\ SendToRemote(m)
        /\ UNCHANGED remoteVars
    BY <1>2 DEF HandleQuery
  <2>3. m.type = "DnsQuery" /\ m.data = NextAsk /\ k = [id |-> m.id]
    OBVIOUS
  <2>4. NextAsk \in Ask
    BY <2>1, <2>2, NewAskFacts
  <2>5. m \in HostMessage
    BY <2>1, <2>4, MessageTypes
  <2> HIDE DEF k, m
  <2> QED
    BY <2>1, <2>2, <2>3, <2>5, AskInFlight
<1>3. RemoteTakes => InFlight'
  BY TakesInFlight
<1>4. ASSUME NEW n \in Ask, TaskNext(n) PROVE InFlight'
  BY <1>4, ReceivesInFlight, GivesUpInFlight, AnswersInFlight DEF TaskNext
<1>5. HandleUdpResponse \/ HandleDnsResponse => InFlight'
  BY ResponseFate, TakenInFlight DEF HandleUdpResponse, HandleDnsResponse
<1>6. WriteToTun \/ Tick \/ UNCHANGED datagramVars => InFlight'
  BY DEF WriteToTun, Tick, datagramVars, hostVars, remoteVars, history, InFlight,
         Sent, Running, Answered
<1> QED
  BY <1>1, <1>2, <1>3, <1>4, <1>5, <1>6 DEF DatagramNext, HostNext

-----------------------------------------------------------------------------
(* The tables.                                                              *)

(* Each entry of the two tables names whoever asked last with its key.      *)
TablesNameLast ==
  /\ \A k \in DOMAIN udp_mappings :
       With(k) # {} /\ udp_mappings[k].src_ip = asks[LastWith(k)].from
  /\ \A i \in DOMAIN pending :
       With([id |-> i]) # {} /\ pending[i] = asks[LastWith([id |-> i])].from

(* Without a new ask, every key keeps its last one.                         *)
LEMMA LastKept ==
  ASSUME asks' = asks, NEW k
  PROVE  With(k)' = With(k) /\ LastWith(k)' = LastWith(k)
<1>1. With(k)' = With(k)
  BY DEF With
<1> QED
  BY <1>1, LastIsTop

(* The entries of a table that stay are still right after a new ask.        *)
LEMMA NamesKept ==
  ASSUME DatagramTypeOK, HasLast, Len(asks) < MaxAsks,
         NEW key \in Key, NEW a \in Addr, NewAsk(key, a),
         NEW k \in Key, k # key, With(k) # {}
  PROVE  With(k)' # {} /\ asks'[LastWith(k)'].from = asks[LastWith(k)].from
  BY AskFacts

(* TablesNameLast is kept by a datagram.                                    *)
LEMMA UdpNamesLast ==
  ASSUME DatagramTypeOK, HasLast, TablesNameLast,
         NEW a \in Addr, NEW p \in Port, NEW d \in Dest, HandleOutboundUdp(a, p, d)
  PROVE  TablesNameLast'
<1> DEFINE key == [port |-> p, dst |-> d]
<1>1. key \in UdpKey /\ key \in Key
  BY DEF UdpKey, Key
<1>2. /\ Len(asks) < MaxAsks /\ NewAsk(key, a)
      /\ udp_mappings' = TrackUdp(key, a) /\ pending' = pending
  BY DEF HandleOutboundUdp
<1> HIDE DEF key
<1>3. TableTypeOK
  BY TypeParts
<1>4. /\ DOMAIN TrackUdp(key, a) \subseteq DOMAIN udp_mappings \cup {key}
      /\ TrackUdp(key, a)[key] = Mapping(a)
      /\ \A j \in DOMAIN TrackUdp(key, a) \ {key} :
           TrackUdp(key, a)[j] = udp_mappings[j]
  <2>1. /\ DOMAIN udp_mappings \subseteq UdpKey
        /\ udp_mappings \in [DOMAIN udp_mappings -> MappingRecord]
    BY <1>3 DEF TableTypeOK
  <2>2. DOMAIN TrackUdp(key, a) =
          {key} \cup {j \in DOMAIN udp_mappings : udp_mappings[j].age < MappingAge}
    BY <1>1, <2>1, TrackUdpFacts
  <2> QED
    BY <1>1, <2>1, <2>2, TrackUdpFacts
<1>5. With(key)' # {} /\ asks'[LastWith(key)'].from = a
  BY <1>1, <1>2, AskFacts
<1>6. ASSUME NEW k \in DOMAIN udp_mappings'
      PROVE  With(k)' # {} /\ udp_mappings'[k].src_ip = asks'[LastWith(k)'].from
  <2>1. CASE k = key
    BY <1>2, <1>4, <1>5, <2>1 DEF Mapping
  <2>2. CASE k # key
    <3>1. /\ k \in DOMAIN udp_mappings /\ k \in Key
          /\ udp_mappings'[k] = udp_mappings[k]
      BY <1>2, <1>3, <1>4, <2>2 DEF TableTypeOK, Key
    <3> QED
      BY <1>1, <1>2, <2>2, <3>1, NamesKept DEF TablesNameLast
  <2> QED
    BY <2>1, <2>2
<1>7. ASSUME NEW i \in DOMAIN pending'
      PROVE  /\ With([id |-> i])' # {}
             /\ pending'[i] = asks'[LastWith([id |-> i])'].from
  <2>1. i \in DOMAIN pending /\ [id |-> i] \in DnsKey /\ [id |-> i] \in Key
    BY <1>2, <1>3 DEF TableTypeOK, DnsKey, Key
  <2>2. [id |-> i] # key
    BY <1>1, <2>1, KeysDiffer
  <2> QED
    BY <1>1, <1>2, <2>1, <2>2, NamesKept DEF TablesNameLast
<1> QED
  BY <1>6, <1>7 DEF TablesNameLast

(* TablesNameLast is kept by a query.                                       *)
LEMMA QueryNamesLast ==
  ASSUME DatagramTypeOK, HasLast, TablesNameLast, NEW a \in Addr, HandleQuery(a)
  PROVE  TablesNameLast'
<1> SUFFICES ASSUME NEW key, key = [id |-> next_id] PROVE TablesNameLast'
  OBVIOUS
<1>1. key \in DnsKey /\ key \in Key /\ key.id = next_id
  BY DEF DnsKey, Key, DatagramTypeOK
<1>2. /\ Len(asks) < MaxAsks /\ NewAsk(key, a)
      /\ pending' = Insert(pending, next_id, a) /\ udp_mappings' = udp_mappings
  BY DEF HandleQuery
<1>3. TableTypeOK
  BY TypeParts
<1>4. With(key)' # {} /\ asks'[LastWith(key)'].from = a
  BY <1>1, <1>2, AskFacts
<1>5. ASSUME NEW k \in DOMAIN udp_mappings'
      PROVE  With(k)' # {} /\ udp_mappings'[k].src_ip = asks'[LastWith(k)'].from
  <2>1. k \in DOMAIN udp_mappings /\ k \in UdpKey /\ k \in Key
    BY <1>2, <1>3 DEF TableTypeOK, Key
  <2>2. k # key
    BY <1>1, <2>1, KeysDiffer
  <2> QED
    BY <1>1, <1>2, <2>1, <2>2, NamesKept DEF TablesNameLast
<1>6. ASSUME NEW i \in DOMAIN pending'
      PROVE  /\ With([id |-> i])' # {}
             /\ pending'[i] = asks'[LastWith([id |-> i])'].from
  <2>1. CASE i = next_id
    <3>1. [id |-> i] = key /\ pending'[i] = a
      BY <1>2, <2>1 DEF Insert
    <3> QED
      BY <1>4, <3>1
  <2>2. CASE i # next_id
    <3>1. i \in DOMAIN pending /\ pending'[i] = pending[i]
      BY <1>2, <2>2 DEF Insert
    <3>2. [id |-> i] \in Key /\ [id |-> i] # key
      BY <1>1, <1>3, <2>2, <3>1 DEF TableTypeOK, Key, DnsKey
    <3> QED
      BY <1>1, <1>2, <3>1, <3>2, NamesKept DEF TablesNameLast
  <2> QED
    BY <2>1, <2>2
<1> QED
  BY <1>5, <1>6 DEF TablesNameLast

(* Entries that stay, with the asks as they were, stay right.               *)
LEMMA FewerNamesLast ==
  ASSUME TablesNameLast, asks' = asks,
         DOMAIN udp_mappings' \subseteq DOMAIN udp_mappings,
         \A k \in DOMAIN udp_mappings' :
           udp_mappings'[k].src_ip = udp_mappings[k].src_ip,
         DOMAIN pending' \subseteq DOMAIN pending,
         \A i \in DOMAIN pending' : pending'[i] = pending[i]
  PROVE  TablesNameLast'
<1>1. ASSUME NEW k \in DOMAIN udp_mappings'
      PROVE  With(k)' # {} /\ udp_mappings'[k].src_ip = asks'[LastWith(k)'].from
  BY LastKept DEF TablesNameLast
<1>2. ASSUME NEW i \in DOMAIN pending'
      PROVE  /\ With([id |-> i])' # {}
             /\ pending'[i] = asks'[LastWith([id |-> i])'].from
  BY LastKept DEF TablesNameLast
<1> QED
  BY <1>1, <1>2 DEF TablesNameLast

(* What a DNS response leaves in the table of pending queries.              *)
LEMMA DnsResponsePending ==
  ASSUME HandleDnsResponse
  PROVE  /\ DOMAIN pending' \subseteq DOMAIN pending
         /\ \A i \in DOMAIN pending' : pending'[i] = pending[i]
  BY DEF HandleDnsResponse, RemovePending, Without, Restrict

(* TablesNameLast is kept.                                                  *)
LEMMA NextNamesLast ==
  ASSUME DatagramTypeOK, HasLast, TablesNameLast, [DatagramNext]_datagramVars
  PROVE  TablesNameLast'
<1>1. ASSUME NEW a \in Addr, NEW p \in Port, NEW d \in Dest,
             HandleOutboundUdp(a, p, d)
      PROVE  TablesNameLast'
  BY <1>1, UdpNamesLast
<1>2. ASSUME NEW a \in Addr, HandleQuery(a) PROVE TablesNameLast'
  BY <1>2, QueryNamesLast
<1>3. ASSUME asks' = asks, UNCHANGED tableVars PROVE TablesNameLast'
  BY <1>3, FewerNamesLast DEF tableVars
<1>4. RemoteTakes \/ WriteToTun \/ UNCHANGED datagramVars => TablesNameLast'
  BY <1>3 DEF RemoteTakes, WriteToTun, datagramVars, hostVars, history
<1>5. ASSUME NEW n \in Ask, TaskNext(n) PROVE TablesNameLast'
  BY <1>3, <1>5 DEF TaskNext, TaskReceives, TaskGivesUp, TaskAnswers, hostVars, history
<1>6. CASE HandleUdpResponse
  BY <1>6, FewerNamesLast DEF HandleUdpResponse, TakeResponse
<1>7. CASE HandleDnsResponse
  <2>1. asks' = asks /\ udp_mappings' = udp_mappings
    BY <1>7 DEF HandleDnsResponse, TakeResponse
  <2> QED
    BY <1>7, <2>1, DnsResponsePending, FewerNamesLast
<1>8. CASE Tick
  <2>1. /\ asks' = asks /\ pending' = pending
        /\ DOMAIN udp_mappings' = DOMAIN udp_mappings
        /\ \A k \in DOMAIN udp_mappings :
             udp_mappings'[k].src_ip = udp_mappings[k].src_ip
    BY <1>8, TickFacts
  <2> QED
    BY <2>1, FewerNamesLast
<1> QED
  BY <1>1, <1>2, <1>4, <1>5, <1>6, <1>7, <1>8 DEF DatagramNext, HostNext

-----------------------------------------------------------------------------
(* Forwarding implements ReturnPath.                                        *)

(* What the refinement needs to hold.                                       *)
PathInv == DatagramTypeOK /\ HasLast /\ InFlight /\ TablesNameLast

(* It holds at the start.                                                   *)
LEMMA InitPath == DatagramInit => PathInv
<1> SUFFICES ASSUME DatagramInit PROVE PathInv
  OBVIOUS
<1>1. DatagramTypeOK
  BY InitTypeOK
<1>2. /\ asks = <<>> /\ to_remote = <<>> /\ responses = <<>>
      /\ DOMAIN task = {} /\ DOMAIN udp_mappings = {} /\ DOMAIN pending = {}
      /\ \A n \in Ask : fate[n] = Open
  BY DEF DatagramInit
<1>3. HasLast
  BY <1>2 DEF HasLast, With
<1>4. InFlight
  BY <1>2 DEF InFlight, Sent, Running, Answered
<1>5. TablesNameLast
  BY <1>2 DEF TablesNameLast
<1> QED
  BY <1>1, <1>3, <1>4, <1>5 DEF PathInv

(* Every step keeps it.                                                     *)
LEMMA NextPath == PathInv /\ [DatagramNext]_datagramVars => PathInv'
<1> SUFFICES ASSUME PathInv, [DatagramNext]_datagramVars PROVE PathInv'
  OBVIOUS
<1>1. DatagramTypeOK /\ HasLast /\ InFlight /\ TablesNameLast
  BY DEF PathInv
<1>2. DatagramTypeOK'
  BY <1>1, NextTypeOK
<1>3. HasLast' /\ InFlight' /\ TablesNameLast'
  BY <1>1, NextHasLast, NextInFlight, NextNamesLast
<1> QED
  BY <1>2, <1>3 DEF PathInv

(* The last askers, key by key.                                             *)
LEMMA AskerFacts ==
  ASSUME HistoryTypeOK
  PROVE  /\ \A k \in DOMAIN LastAsker :
              /\ k \in Key /\ With(k) # {}
              /\ LastAsker[k] = asks[LastWith(k)].from
         /\ \A k \in Key : With(k) # {} => k \in DOMAIN LastAsker
<1>1. \A n \in DOMAIN asks : asks[n].key \in Key
  <2> DEFINE R == [key : Key, from : Addr]
  <2>1. asks \in Seq(R)
    BY DEF HistoryTypeOK
  <2> HIDE DEF R
  <2>2. \A n \in DOMAIN asks : asks[n] \in R
    BY <2>1
  <2> QED
    BY <2>2 DEF R
<1>2. /\ DOMAIN LastAsker = {asks[n].key : n \in DOMAIN asks}
      /\ \A k \in DOMAIN LastAsker : LastAsker[k] = asks[LastWith(k)].from
  BY DEF LastAsker
<1>3. ASSUME NEW k \in DOMAIN LastAsker PROVE k \in Key /\ With(k) # {}
  <2>1. PICK n \in DOMAIN asks : asks[n].key = k
    BY <1>2
  <2> QED
    BY <1>1, <2>1 DEF With
<1>4. ASSUME NEW k \in Key, With(k) # {} PROVE k \in DOMAIN LastAsker
  <2>1. PICK n \in DOMAIN asks : asks[n].key = k
    BY <1>4 DEF With
  <2> QED
    BY <1>2, <2>1
<1> QED
  BY <1>2, <1>3, <1>4

(* A new ask makes its source the last asker with its key.                  *)
LEMMA AskMaps ==
  ASSUME DatagramTypeOK, HasLast, Len(asks) < MaxAsks,
         NEW key \in Key, NEW a \in Addr, NewAsk(key, a)
  PROVE  Promise!Asks(key, a)
<1>1. /\ HistoryTypeOK /\ fate' = fate
      /\ DOMAIN asks' = DOMAIN asks \cup {NextAsk}
      /\ asks'[NextAsk] = [key |-> key, from |-> a]
      /\ \A n \in DOMAIN asks : asks'[n] = asks[n]
  BY TypeParts, NewAskFacts
<1>2. /\ DOMAIN LastAsker = {asks[n].key : n \in DOMAIN asks}
      /\ LastAsker' = [k \in {asks'[n].key : n \in DOMAIN asks'} |->
                         asks'[LastWith(k)'].from]
  BY DEF LastAsker
<1>3. {asks'[n].key : n \in DOMAIN asks'} = DOMAIN LastAsker \cup {key}
  <2>1. asks'[NextAsk].key = key
    BY <1>1
  <2> QED
    BY <1>1, <1>2, <2>1
<1>4. asks'[LastWith(key)'].from = a
  BY AskFacts
<1>5. ASSUME NEW k \in DOMAIN LastAsker, k # key
      PROVE  asks'[LastWith(k)'].from = LastAsker[k]
  BY <1>1, <1>5, AskerFacts, AskFacts
<1>6. LastAsker' = [k \in DOMAIN LastAsker \cup {key} |->
                     asks'[LastWith(k)'].from]
  BY <1>2, <1>3
<1>7. LastAsker' = [k \in DOMAIN LastAsker \cup {key} |->
                     IF k = key THEN a ELSE LastAsker[k]]
  BY <1>4, <1>5, <1>6
<1> QED
  BY <1>1, <1>7 DEF Promise!Asks

(* Without a new ask, the last askers stay who they were.                   *)
LEMMA AskersKept ==
  ASSUME HistoryTypeOK, asks' = asks
  PROVE  LastAsker' = LastAsker
<1>1. /\ LastAsker = [k \in {asks[n].key : n \in DOMAIN asks} |->
                        asks[LastWith(k)].from]
      /\ LastAsker' = [k \in {asks'[n].key : n \in DOMAIN asks'} |->
                        asks'[LastWith(k)'].from]
  BY DEF LastAsker
<1>2. \A k : LastWith(k)' = LastWith(k)
  BY LastKept
<1> QED
  BY <1>1, <1>2

(* The ask of a response in the channel is open, and carries its key.       *)
LEMMA ResponseBelongs ==
  ASSUME PathInv, responses # <<>>
  PROVE  /\ BelongsIn(Head(responses), asks, fate)
         /\ Head(responses).data \in Ask
<1>1. responses \in Seq(RemoteMessage)
  BY DEF PathInv, DatagramTypeOK
<1>2. 1 \in DOMAIN responses /\ Head(responses) = responses[1]
  BY <1>1, TailFacts
<1>3. BelongsIn(responses[1], asks, fate)
  BY <1>2 DEF PathInv, InFlight, Answered
<1> QED
  BY <1>2, <1>3, AsksAreBounded DEF PathInv, BelongsIn

(* Deciding the fate of an open ask is a step of ReturnPath.                *)
LEMMA LosesMaps ==
  ASSUME NEW n \in Ask, fate[n] = Open, LastAsker' = LastAsker,
         NEW f, fate' = [fate EXCEPT ![n] = f],
         f = Lost \/ \E k \in Key : f = Unknown(k)
  PROVE  Promise!Loses(n)
<1>1. f \in [st : {"lost"}] \cup [st : {"unknown"}, key : Key]
  BY DEF Lost, Unknown
<1> QED
  BY <1>1 DEF Promise!Loses, Promise!Open, Open

(* So is passing its answer to the last asker of a key.                     *)
LEMMA PassesMaps ==
  ASSUME NEW n \in Ask, fate[n] = Open, LastAsker' = LastAsker,
         NEW k \in DOMAIN LastAsker, NEW a, a = LastAsker[k],
         fate' = [fate EXCEPT ![n] = Passed(k, a)]
  PROVE  Promise!Passes(n, k)
  BY DEF Promise!Passes, Promise!Open, Open, Promise!Passed, Passed

(* The step of ReturnPath that handling a UDP response is.                  *)
LEMMA UdpResponseMaps ==
  ASSUME PathInv, HandleUdpResponse
  PROVE  Promise!Next \/ UNCHANGED <<LastAsker, fate>>
<1> DEFINE r == Head(responses)
           key == [port |-> r.dst_port, dst |-> r.src]
<1> HIDE DEF r, key
<1>1. DatagramTypeOK /\ HasLast /\ TablesNameLast
  BY DEF PathInv
<1>2. FlowTypeOK /\ TableTypeOK /\ HistoryTypeOK
  BY <1>1, TypeParts
<1>3. /\ TakeResponse("UdpResponse") /\ key \in UdpKey
      /\ \/ /\ key \in DOMAIN udp_mappings
            /\ fate' = [fate EXCEPT ![r.data] =
                          Passed(key, udp_mappings[key].src_ip)]
         \/ fate' = fate
         \/ fate' = [fate EXCEPT ![r.data] = Unknown(key)]
  BY <1>2, UdpResponseFacts DEF r, key
<1>4. asks' = asks /\ responses # <<>>
  BY <1>3 DEF TakeResponse
<1>5. LastAsker' = LastAsker
  BY <1>2, <1>4, AskersKept
<1>6. r.data \in Ask /\ fate[r.data] = Open
  BY <1>4, ResponseBelongs DEF BelongsIn, r
<1>7. key \in Key
  BY <1>3 DEF Key
<1>8. CASE /\ key \in DOMAIN udp_mappings
           /\ fate' = [fate EXCEPT ![r.data] =
                         Passed(key, udp_mappings[key].src_ip)]
  <2>1. With(key) # {} /\ udp_mappings[key].src_ip = asks[LastWith(key)].from
    BY <1>1, <1>8 DEF TablesNameLast
  <2>2. key \in DOMAIN LastAsker /\ udp_mappings[key].src_ip = LastAsker[key]
    BY <1>2, <1>7, <2>1, AskerFacts
  <2>3. Promise!Passes(r.data, key)
    BY <1>5, <1>6, <1>8, <2>2, PassesMaps
  <2> QED
    BY <1>6, <1>7, <2>3 DEF Promise!Next
<1>9. CASE fate' = [fate EXCEPT ![r.data] = Unknown(key)]
  <2>1. Promise!Loses(r.data)
    BY <1>5, <1>6, <1>7, <1>9, LosesMaps
  <2> QED
    BY <1>6, <2>1 DEF Promise!Next
<1> QED
  BY <1>3, <1>5, <1>8, <1>9

(* The step of ReturnPath that handling a DNS response is.                  *)
LEMMA DnsResponseMaps ==
  ASSUME PathInv, HandleDnsResponse
  PROVE  Promise!Next \/ UNCHANGED <<LastAsker, fate>>
<1> DEFINE r == Head(responses)
           key == [id |-> r.id]
<1> HIDE DEF r, key
<1>1. DatagramTypeOK /\ HasLast /\ TablesNameLast
  BY DEF PathInv
<1>2. FlowTypeOK /\ TableTypeOK /\ HistoryTypeOK
  BY <1>1, TypeParts
<1>3. /\ TakeResponse("DnsResponse") /\ key \in DnsKey
      /\ \/ /\ r.id \in DOMAIN pending
            /\ fate' = [fate EXCEPT ![r.data] = Passed(key, pending[r.id])]
         \/ fate' = [fate EXCEPT ![r.data] = Lost]
         \/ fate' = [fate EXCEPT ![r.data] = Unknown(key)]
  BY <1>2, DnsResponseFacts DEF r, key
<1>4. asks' = asks /\ responses # <<>>
  BY <1>3 DEF TakeResponse
<1>5. LastAsker' = LastAsker
  BY <1>2, <1>4, AskersKept
<1>6. r.data \in Ask /\ fate[r.data] = Open
  BY <1>4, ResponseBelongs DEF BelongsIn, r
<1>7. key \in Key
  BY <1>3 DEF Key
<1>8. CASE /\ r.id \in DOMAIN pending
           /\ fate' = [fate EXCEPT ![r.data] = Passed(key, pending[r.id])]
  <2>1. With(key) # {} /\ pending[r.id] = asks[LastWith(key)].from
    BY <1>1, <1>8 DEF TablesNameLast, key
  <2>2. key \in DOMAIN LastAsker /\ pending[r.id] = LastAsker[key]
    BY <1>2, <1>7, <2>1, AskerFacts
  <2>3. Promise!Passes(r.data, key)
    BY <1>5, <1>6, <1>8, <2>2, PassesMaps
  <2> QED
    BY <1>6, <1>7, <2>3 DEF Promise!Next
<1>9. CASE fate' = [fate EXCEPT ![r.data] = Unknown(key)]
  <2>1. Promise!Loses(r.data)
    BY <1>5, <1>6, <1>7, <1>9, LosesMaps
  <2> QED
    BY <1>6, <2>1 DEF Promise!Next
<1>10. CASE fate' = [fate EXCEPT ![r.data] = Lost]
  <2>1. Promise!Loses(r.data)
    BY <1>5, <1>6, <1>10, LosesMaps
  <2> QED
    BY <1>6, <2>1 DEF Promise!Next
<1> QED
  BY <1>3, <1>8, <1>9, <1>10

(* Every step is one of ReturnPath, or none of it.                          *)
LEMMA NextMaps ==
  PathInv /\ [DatagramNext]_datagramVars => [Promise!Next]_<<LastAsker, fate>>
<1> SUFFICES ASSUME PathInv, [DatagramNext]_datagramVars
             PROVE  Promise!Next \/ UNCHANGED <<LastAsker, fate>>
  OBVIOUS
<1>1. DatagramTypeOK /\ HasLast /\ InFlight /\ HistoryTypeOK
  BY TypeParts DEF PathInv
<1>2. ASSUME Len(asks) < MaxAsks, NEW key \in Key, NEW a \in Addr, NewAsk(key, a)
      PROVE  Promise!Next
  BY <1>1, <1>2, AskMaps DEF Promise!Next
<1>3. ASSUME asks' = asks, fate' = fate PROVE UNCHANGED <<LastAsker, fate>>
  BY <1>1, <1>3, AskersKept
<1>4. ASSUME NEW a \in Addr, NEW p \in Port, NEW d \in Dest,
             HandleOutboundUdp(a, p, d)
      PROVE  Promise!Next
  <2>1. [port |-> p, dst |-> d] \in Key
    BY DEF Key, UdpKey
  <2> QED
    BY <1>2, <1>4, <2>1 DEF HandleOutboundUdp
<1>5. ASSUME NEW a \in Addr, HandleQuery(a) PROVE Promise!Next
  <2>1. [id |-> next_id] \in Key
    BY <1>1 DEF Key, DnsKey, DatagramTypeOK
  <2> QED
    BY <1>2, <1>5, <2>1 DEF HandleQuery
<1>6. ASSUME NEW n \in Ask, TaskGivesUp(n) PROVE Promise!Next
  <2>1. /\ n \in DOMAIN task /\ asks' = asks
        /\ fate' = [fate EXCEPT ![n] = Lost]
    BY <1>6 DEF TaskGivesUp, Waiting
  <2>2. fate[n] = Open
    BY <1>1, <2>1 DEF InFlight, Running, BelongsIn
  <2>3. Promise!Loses(n)
    BY <1>1, <2>1, <2>2, AskersKept, LosesMaps
  <2> QED
    BY <2>3 DEF Promise!Next
<1>7. ASSUME NEW n \in Ask, TaskNext(n)
      PROVE  Promise!Next \/ UNCHANGED <<LastAsker, fate>>
  BY <1>3, <1>6, <1>7 DEF TaskNext, TaskReceives, TaskAnswers, history
<1>8. RemoteTakes \/ WriteToTun \/ Tick \/ UNCHANGED datagramVars
        => UNCHANGED <<LastAsker, fate>>
  BY <1>3 DEF RemoteTakes, WriteToTun, Tick, datagramVars, history
<1> QED
  BY <1>4, <1>5, <1>7, <1>8, UdpResponseMaps, DnsResponseMaps
  DEF DatagramNext, HostNext

(* KeepsPromise: the datagram path does what ReturnPath promises: an ask    *)
(* ends at most once, and an answer goes to whoever asked last with the key *)
(* it carries (nat.rs:145-174, dns.rs:85-122, remote/mod.rs:184-199).       *)
THEOREM DatagramKeepsPromise == DatagramSpec => KeepsPromise
<1>1. DatagramInit => Promise!Init
  <2> SUFFICES ASSUME DatagramInit PROVE Promise!Init
    OBVIOUS
  <2>1. asks = <<>> /\ fate = [n \in Ask |-> Open]
    BY DEF DatagramInit
  <2>2. LastAsker = [k \in {} |-> {}]
    BY <2>1 DEF LastAsker
  <2> QED
    BY <2>1, <2>2 DEF Promise!Init, Promise!Open, Open
<1> QED
  BY <1>1, InitPath, NextPath, NextMaps, PTL DEF DatagramSpec, KeepsPromise, Promise!Spec

-----------------------------------------------------------------------------
(* The three safety invariants.                                             *)

(* There is an entry for the key k in the tables U and P.                   *)
Known(k, U, P) ==
  \/ k \in UdpKey /\ k \in DOMAIN U
  \/ k \in DnsKey /\ k.id \in DOMAIN P

(* What a step that makes no ask may do to the fate of n.                   *)
Decides(n) ==
  /\ fate[n] = Open /\ n \in DOMAIN asks /\ age' = age
  /\ DOMAIN pending' \subseteq DOMAIN pending
  /\ \/ fate'[n] = Lost
     \/ \E k \in Key : /\ With(k) # {}
                       /\ fate'[n] = Passed(k, asks[LastWith(k)].from)
                       /\ asks[n].key \in DnsKey
                            => ~Known(asks[n].key, udp_mappings', pending')
     \/ \E k \in Key : /\ fate'[n] = Unknown(k)
                       /\ ~Known(k, udp_mappings, pending)

(* Handling a UDP response decides at most the fate of its ask.             *)
LEMMA UdpResponseDecides ==
  ASSUME PathInv, HandleUdpResponse, NEW n \in Ask
  PROVE  fate'[n] = fate[n] \/ Decides(n)
<1> DEFINE r == Head(responses)
           key == [port |-> r.dst_port, dst |-> r.src]
<1> HIDE DEF r, key
<1>1. DatagramTypeOK /\ HasLast /\ TablesNameLast
  BY DEF PathInv
<1>2. FlowTypeOK /\ TableTypeOK /\ HistoryTypeOK
  BY <1>1, TypeParts
<1>3. /\ TakeResponse("UdpResponse") /\ key \in UdpKey /\ r.type = "UdpResponse"
      /\ \/ /\ key \in DOMAIN udp_mappings
            /\ fate' = [fate EXCEPT ![r.data] =
                          Passed(key, udp_mappings[key].src_ip)]
         \/ fate' = fate
         \/ /\ key \notin DOMAIN udp_mappings
            /\ fate' = [fate EXCEPT ![r.data] = Unknown(key)]
  BY <1>2, UdpResponseFacts, TakeFacts DEF r, key
<1>4. /\ age' = age /\ asks' = asks /\ responses # <<>>
      /\ DOMAIN pending' \subseteq DOMAIN pending
  BY <1>3 DEF TakeResponse, HandleUdpResponse
<1>5. BelongsIn(r, asks, fate) /\ r.data \in Ask
  BY <1>4, ResponseBelongs DEF r
<1>6. r.data \in DOMAIN asks /\ fate[r.data] = Open /\ asks[r.data].key \in UdpKey
  BY <1>3, <1>5 DEF BelongsIn
<1>7. key \in Key /\ asks[r.data].key \notin DnsKey /\ key \notin DnsKey
  BY <1>3, <1>6, KeysDiffer DEF Key
<1>8. fate \in [Ask -> Fate]
  BY <1>1 DEF DatagramTypeOK
<1>9. CASE n # r.data
  BY <1>3, <1>8, <1>9
<1>10. ASSUME n = r.data, key \in DOMAIN udp_mappings,
              fate'[n] = Passed(key, udp_mappings[key].src_ip)
       PROVE  Decides(n)
  <2>1. With(key) # {} /\ udp_mappings[key].src_ip = asks[LastWith(key)].from
    BY <1>1, <1>10 DEF TablesNameLast
  <2> QED
    BY <1>4, <1>6, <1>7, <1>10, <2>1 DEF Decides
<1>11. ASSUME n = r.data, key \notin DOMAIN udp_mappings, fate'[n] = Unknown(key)
       PROVE  Decides(n)
  <2>1. ~Known(key, udp_mappings, pending)
    BY <1>7, <1>11 DEF Known
  <2> QED
    BY <1>4, <1>6, <1>7, <1>11, <2>1 DEF Decides
<1> QED
  BY <1>3, <1>5, <1>8, <1>9, <1>10, <1>11

(* So does handling a DNS response; an answer passed on used up its entry.  *)
LEMMA DnsResponseDecides ==
  ASSUME PathInv, HandleDnsResponse, NEW n \in Ask
  PROVE  fate'[n] = fate[n] \/ Decides(n)
<1> DEFINE r == Head(responses)
           key == [id |-> r.id]
<1> HIDE DEF r
<1>1. DatagramTypeOK /\ HasLast /\ TablesNameLast
  BY DEF PathInv
<1>2. FlowTypeOK /\ TableTypeOK /\ HistoryTypeOK
  BY <1>1, TypeParts
<1>3. /\ TakeResponse("DnsResponse") /\ key \in DnsKey /\ r.type = "DnsResponse"
      /\ \/ /\ r.id \in DOMAIN pending /\ r.id \notin DOMAIN pending'
            /\ \/ fate' = [fate EXCEPT ![r.data] = Passed(key, pending[r.id])]
               \/ fate' = [fate EXCEPT ![r.data] = Lost]
         \/ /\ r.id \notin DOMAIN pending
            /\ fate' = [fate EXCEPT ![r.data] = Unknown(key)]
  BY <1>2, DnsResponseFacts, TakeFacts, ZenonT(60) DEF r, Without, Restrict
<1>4. /\ age' = age /\ asks' = asks /\ responses # <<>>
      /\ DOMAIN pending' \subseteq DOMAIN pending
  BY <1>3, DnsResponsePending DEF TakeResponse
<1>5. BelongsIn(r, asks, fate) /\ r.data \in Ask
  BY <1>4, ResponseBelongs DEF r
<1>6. r.data \in DOMAIN asks /\ fate[r.data] = Open /\ asks[r.data].key = key
  BY <1>3, <1>5 DEF BelongsIn
<1>7. key \in Key /\ key \notin UdpKey /\ key.id = r.id
  BY <1>3, KeysDiffer DEF Key
<1> HIDE DEF key
<1>8. fate \in [Ask -> Fate]
  BY <1>1 DEF DatagramTypeOK
<1>9. CASE n # r.data
  BY <1>3, <1>8, <1>9
<1>10. ASSUME n = r.data, r.id \in DOMAIN pending, r.id \notin DOMAIN pending',
              fate'[n] = Passed(key, pending[r.id])
       PROVE  Decides(n)
  <2>1. With(key) # {} /\ pending[r.id] = asks[LastWith(key)].from
    BY <1>1, <1>10 DEF TablesNameLast, key
  <2>2. ~Known(key, udp_mappings', pending')
    BY <1>7, <1>10 DEF Known
  <2> QED
    BY <1>4, <1>6, <1>7, <1>10, <2>1, <2>2 DEF Decides
<1>11. ASSUME n = r.data, r.id \notin DOMAIN pending, fate'[n] = Unknown(key)
       PROVE  Decides(n)
  <2>1. ~Known(key, udp_mappings, pending)
    BY <1>7, <1>11 DEF Known
  <2> QED
    BY <1>4, <1>6, <1>7, <1>11, <2>1 DEF Decides
<1>12. ASSUME n = r.data, fate'[n] = Lost PROVE Decides(n)
  BY <1>4, <1>6, <1>12 DEF Decides
<1> QED
  BY <1>3, <1>5, <1>8, <1>9, <1>10, <1>11, <1>12

(* Every step leaves a fate alone or decides it.                            *)
LEMMA FateStep ==
  ASSUME PathInv, [DatagramNext]_datagramVars, NEW n \in Ask
  PROVE  fate'[n] = fate[n] \/ (asks' = asks /\ Decides(n))
<1>1. DatagramTypeOK /\ fate \in [Ask -> Fate]
  BY DEF PathInv, DatagramTypeOK
<1>2. ASSUME NEW a \in Addr, NEW p \in Port, NEW d \in Dest,
             HandleOutboundUdp(a, p, d)
      PROVE  fate' = fate
  BY <1>2 DEF HandleOutboundUdp, NewAsk
<1>3. ASSUME NEW a \in Addr, HandleQuery(a) PROVE fate' = fate
  BY <1>3 DEF HandleQuery, NewAsk
<1>4. RemoteTakes \/ WriteToTun \/ Tick \/ UNCHANGED datagramVars => fate' = fate
  BY DEF RemoteTakes, WriteToTun, Tick, datagramVars, history
<1>5. HandleUdpResponse \/ HandleDnsResponse
        => asks' = asks /\ (fate'[n] = fate[n] \/ Decides(n))
  BY UdpResponseDecides, DnsResponseDecides
     DEF HandleUdpResponse, HandleDnsResponse, TakeResponse
<1>6. ASSUME NEW m \in Ask, TaskGivesUp(m)
      PROVE  fate'[n] = fate[n] \/ (asks' = asks /\ Decides(n))
  <2>1. /\ m \in DOMAIN task /\ asks' = asks /\ age' = age /\ pending' = pending
        /\ fate' = [fate EXCEPT ![m] = Lost]
    BY <1>6 DEF TaskGivesUp, Waiting, hostVars, tableVars
  <2>2. fate[m] = Open /\ m \in DOMAIN asks
    BY <2>1 DEF PathInv, InFlight, Running, BelongsIn
  <2> QED
    BY <1>1, <2>1, <2>2 DEF Decides
<1>7. ASSUME NEW m \in Ask, TaskNext(m)
      PROVE  fate'[n] = fate[n] \/ (asks' = asks /\ Decides(n))
  BY <1>6, <1>7 DEF TaskNext, TaskReceives, TaskAnswers, history
<1> QED
  BY <1>2, <1>3, <1>4, <1>5, <1>7 DEF DatagramNext, HostNext

(* The asks with a key only grow in number, and each stays as it was.       *)
LEMMA WithGrows ==
  ASSUME PathInv, [DatagramNext]_datagramVars
  PROVE  /\ DOMAIN asks \subseteq DOMAIN asks'
         /\ \A n \in DOMAIN asks : asks'[n] = asks[n]
         /\ \A k : With(k) \subseteq With(k)'
         /\ \A n \in DOMAIN asks' \ DOMAIN asks : n \in Ask /\ fate[n] = Open
<1>1. DatagramTypeOK
  BY DEF PathInv
<1>2. ASSUME Len(asks) < MaxAsks, NEW key \in Key, NEW a \in Addr, NewAsk(key, a)
      PROVE  /\ DOMAIN asks \subseteq DOMAIN asks'
             /\ \A n \in DOMAIN asks : asks'[n] = asks[n]
             /\ \A n \in DOMAIN asks' \ DOMAIN asks : n \in Ask /\ fate[n] = Open
  <2>1. /\ NextAsk \in Ask /\ NextAsk \notin DOMAIN asks
        /\ DOMAIN asks' = DOMAIN asks \cup {NextAsk}
        /\ \A n \in DOMAIN asks : asks'[n] = asks[n]
    BY <1>1, <1>2, NewAskFacts
  <2> QED
    BY <2>1 DEF PathInv, InFlight
<1>3. /\ DOMAIN asks \subseteq DOMAIN asks'
      /\ \A n \in DOMAIN asks : asks'[n] = asks[n]
      /\ \A n \in DOMAIN asks' \ DOMAIN asks : n \in Ask /\ fate[n] = Open
  BY <1>1, <1>2, AsksStep
<1>4. \A k : With(k) \subseteq With(k)'
  BY <1>3 DEF With
<1> QED
  BY <1>3, <1>4

(* The record of a fate.                                                    *)
LEMMA FateRecords ==
  /\ Open.st = "open" /\ Lost.st = "lost"
  /\ \A k : Unknown(k).st = "unknown" /\ Unknown(k).key = k
  /\ \A k, a : /\ Passed(k, a).st = "passed" /\ Passed(k, a).key = k
               /\ Passed(k, a).to = a
  BY DEF Open, Lost, Unknown, Passed

(* AnswersReachAsker is kept.                                               *)
LEMMA NextAnswers ==
  ASSUME PathInv, AnswersReachAsker, [DatagramNext]_datagramVars
  PROVE  AnswersReachAsker'
<1> SUFFICES ASSUME NEW n \in DOMAIN asks',
                    fate'[n].st = "passed", fate'[n].key = asks'[n].key,
                    \A i, j \in DOMAIN asks' :
                      asks'[i].key = asks'[n].key /\ asks'[j].key = asks'[n].key
                        => asks'[i].from = asks'[j].from
             PROVE  fate'[n].to = asks'[n].from
  BY DEF AnswersReachAsker, Shared, With
<1>1. /\ DOMAIN asks \subseteq DOMAIN asks'
      /\ \A i \in DOMAIN asks : asks'[i] = asks[i]
      /\ \A i \in DOMAIN asks' \ DOMAIN asks : i \in Ask /\ fate[i] = Open
  BY WithGrows
<1>2. DatagramTypeOK /\ HistoryTypeOK /\ HasLast
  BY TypeParts DEF PathInv
<1>3. n \in Ask
  BY <1>1, <1>2, AsksAreBounded
<1>4. CASE fate'[n] = fate[n]
  <2>1. n \in DOMAIN asks
    BY <1>1, <1>4, FateRecords
  <2>2. ~Shared(asks[n].key)
    BY <1>1, <2>1 DEF Shared, With
  <2> QED
    BY <1>1, <1>4, <2>1, <2>2 DEF AnswersReachAsker
<1>5. CASE asks' = asks /\ Decides(n)
  <2>1. PICK k \in Key : /\ With(k) # {}
                         /\ fate'[n] = Passed(k, asks[LastWith(k)].from)
    BY <1>5, FateRecords DEF Decides
  <2>2. k = asks'[n].key /\ fate'[n].to = asks[LastWith(k)].from
    BY <2>1, FateRecords
  <2>3. LastWith(k) \in DOMAIN asks /\ asks[LastWith(k)].key = k
    BY <1>2, <2>1, LastFacts
  <2> QED
    BY <1>5, <2>2, <2>3
<1> QED
  BY <1>3, <1>4, <1>5, FateStep

(* The last query of each pending id is not answered.                       *)
LastUnanswered ==
  \A i \in DOMAIN pending : fate[LastWith([id |-> i])].st # "passed"

(* LastUnanswered is kept when nothing is asked.                            *)
LEMMA UnansweredKept ==
  ASSUME PathInv, LastUnanswered, asks' = asks,
         DOMAIN pending' \subseteq DOMAIN pending,
         \A n \in Ask : fate'[n] = fate[n] \/ Decides(n)
  PROVE  LastUnanswered'
<1> SUFFICES ASSUME NEW i \in DOMAIN pending', NEW k, k = [id |-> i]
             PROVE  fate'[LastWith(k)'].st # "passed"
  BY DEF LastUnanswered
<1>1. DatagramTypeOK /\ HistoryTypeOK /\ HasLast /\ TablesNameLast /\ TableTypeOK
  BY TypeParts DEF PathInv
<1>2. i \in DOMAIN pending /\ k \in DnsKey /\ k \in Key /\ k.id = i
  BY <1>1 DEF TableTypeOK, DnsKey, Key
<1>3. With(k) # {}
  BY <1>1, <1>2 DEF TablesNameLast
<1> DEFINE n == LastWith(k)
<1>4. n \in DOMAIN asks /\ asks[n].key = k
  BY <1>1, <1>2, <1>3, LastFacts
<1>5. LastWith(k)' = n
  BY LastKept
<1>6. fate[n].st # "passed"
  BY <1>2 DEF LastUnanswered
<1> HIDE DEF n
<1>7. n \in Ask
  BY <1>1, <1>4, AsksAreBounded
<1>8. CASE fate'[n] = fate[n]
  BY <1>5, <1>6, <1>8
<1>9. CASE Decides(n)
  <2>1. Known(k, udp_mappings', pending')
    BY <1>2 DEF Known
  <2>2. ~(asks[n].key \in DnsKey => ~Known(asks[n].key, udp_mappings', pending'))
    BY <1>2, <1>4, <2>1
  <2>3. fate'[n] = Lost \/ \E j \in Key : fate'[n] = Unknown(j)
    BY <1>9, <2>2 DEF Decides
  <2> QED
    BY <1>5, <2>3, FateRecords
<1> QED
  BY <1>7, <1>8, <1>9

(* A new query is the last of its id, and is not answered yet.              *)
LEMMA UnansweredAsked ==
  ASSUME PathInv, LastUnanswered, Len(asks) < MaxAsks,
         NEW key \in Key, NEW a \in Addr, NewAsk(key, a),
         \A i \in DOMAIN pending' : i \in DOMAIN pending \/ key = [id |-> i]
  PROVE  LastUnanswered'
<1> SUFFICES ASSUME NEW i \in DOMAIN pending', NEW k, k = [id |-> i]
             PROVE  fate'[LastWith(k)'].st # "passed"
  BY DEF LastUnanswered
<1>1. DatagramTypeOK /\ HasLast /\ TablesNameLast /\ TableTypeOK
  BY TypeParts DEF PathInv
<1>2. /\ fate' = fate /\ NextAsk \in Ask /\ NextAsk \notin DOMAIN asks
  BY <1>1, NewAskFacts
<1>3. CASE k = key
  <2>1. LastWith(k)' = NextAsk
    BY <1>1, <1>3, AskFacts
  <2>2. fate[NextAsk] = Open
    BY <1>2 DEF PathInv, InFlight
  <2> QED
    BY <1>2, <2>1, <2>2, FateRecords
<1>4. CASE k # key
  <2>1. i \in DOMAIN pending /\ k \in Key
    BY <1>1, <1>4 DEF TableTypeOK, DnsKey, Key
  <2>2. LastWith(k)' = LastWith(k)
    BY <1>1, <1>4, <2>1, AskFacts
  <2> QED
    BY <1>2, <2>1, <2>2 DEF LastUnanswered
<1> QED
  BY <1>3, <1>4

(* LastUnanswered is kept.                                                  *)
LEMMA NextUnanswered ==
  ASSUME PathInv, LastUnanswered, [DatagramNext]_datagramVars
  PROVE  LastUnanswered'
<1>1. ASSUME asks' = asks, DOMAIN pending' \subseteq DOMAIN pending
      PROVE  LastUnanswered'
  BY <1>1, FateStep, UnansweredKept
<1>2. ASSUME NEW a \in Addr, NEW p \in Port, NEW d \in Dest,
             HandleOutboundUdp(a, p, d)
      PROVE  LastUnanswered'
  <2>1. [port |-> p, dst |-> d] \in Key
    BY DEF Key, UdpKey
  <2> QED
    BY <1>2, <2>1, UnansweredAsked DEF HandleOutboundUdp
<1>3. ASSUME NEW a \in Addr, HandleQuery(a) PROVE LastUnanswered'
  <2> SUFFICES ASSUME NEW key, key = [id |-> next_id] PROVE LastUnanswered'
    OBVIOUS
  <2>1. key \in Key
    BY DEF Key, DnsKey, PathInv, DatagramTypeOK
  <2>2. \A i \in DOMAIN pending' : i \in DOMAIN pending \/ key = [id |-> i]
    BY <1>3 DEF HandleQuery, Insert
  <2> QED
    BY <1>3, <2>1, <2>2, UnansweredAsked DEF HandleQuery
<1>4. RemoteTakes \/ WriteToTun \/ Tick \/ UNCHANGED datagramVars => LastUnanswered'
  BY <1>1 DEF RemoteTakes, WriteToTun, Tick, datagramVars, hostVars, tableVars, history
<1>5. ASSUME NEW n \in Ask, TaskNext(n) PROVE LastUnanswered'
  BY <1>1, <1>5 DEF TaskNext, TaskReceives, TaskGivesUp, TaskAnswers, hostVars,
                    tableVars, history
<1>6. HandleUdpResponse => LastUnanswered'
  BY <1>1 DEF HandleUdpResponse, TakeResponse
<1>7. HandleDnsResponse => LastUnanswered'
  BY <1>1, DnsResponsePending DEF HandleDnsResponse, TakeResponse
<1> QED
  BY <1>2, <1>3, <1>4, <1>5, <1>6, <1>7 DEF DatagramNext, HostNext

(* An id is pending exactly when a query with it was made after its last    *)
(* answer, and no answer has come after asks not made yet.                  *)
AskedSince(i) == \E n \in With([id |-> i]) : n > answered[i]

PendingExact ==
  \A i \in DnsId :
    answered[i] <= Len(asks) /\ (i \in DOMAIN pending <=> AskedSince(i))

(* A new ask makes its id pending, if it is a query, and no other.          *)
LEMMA ExactAsked ==
  ASSUME PathInv, PendingExact, Len(asks) < MaxAsks,
         NEW key \in Key, NEW a \in Addr, NewAsk(key, a),
         \A i \in DnsId :
           i \in DOMAIN pending' <=> i \in DOMAIN pending \/ key = [id |-> i]
  PROVE  PendingExact'
<1> SUFFICES ASSUME NEW i \in DnsId, NEW k, k = [id |-> i]
             PROVE  /\ answered'[i] <= Len(asks')
                    /\ i \in DOMAIN pending' <=>
                         \E n \in With(k)' : n > answered'[i]
  BY DEF PendingExact, AskedSince
<1>1. /\ DatagramTypeOK /\ HasLast /\ k \in Key
      /\ answered[i] \in Nat /\ Len(asks) \in Nat
  BY DatagramAssumption DEF PathInv, DatagramTypeOK, Key, DnsKey
<1>2. /\ answered' = answered /\ Len(asks') = Len(asks) + 1
      /\ NextAsk = Len(asks) + 1
  BY <1>1, NewAskFacts DEF NewAsk, NextAsk, DatagramTypeOK
<1>3. /\ answered[i] <= Len(asks)
      /\ i \in DOMAIN pending <=> \E n \in With(k) : n > answered[i]
  BY DEF PendingExact, AskedSince
<1>4. CASE k = key
  <2>1. NextAsk \in With(k)'
    BY <1>1, <1>4, AskFacts
  <2> QED
    BY <1>1, <1>2, <1>3, <1>4, <2>1
<1>5. CASE k # key
  <2>1. With(k)' = With(k)
    BY <1>1, <1>5, AskFacts
  <2> QED
    BY <1>1, <1>2, <1>3, <1>5, <2>1
<1> QED
  BY <1>4, <1>5

(* An answer takes the entry of its id away, if it is there: no query with  *)
(* the id is younger than the answer.                                       *)
LEMMA ExactAnswered ==
  ASSUME PathInv, PendingExact, HandleDnsResponse
  PROVE  PendingExact'
<1> DEFINE r == Head(responses)
<1>1. FlowTypeOK /\ HistoryTypeOK
  BY TypeParts DEF PathInv
<1>2. r.id \in DnsId /\ asks' = asks
  BY <1>1, DnsResponseFacts DEF TakeResponse
<1>3. /\ answered' = [answered EXCEPT ![r.id] = Len(asks)]
      /\ r.id \notin DOMAIN pending'
      /\ \A i \in DnsId \ {r.id} : i \in DOMAIN pending' <=> i \in DOMAIN pending
  BY DEF HandleDnsResponse, RemovePending, Without, Restrict
<1> HIDE DEF r
<1>4. \A k : With(k)' = With(k) /\ \A n \in With(k) : n <= Len(asks)
  BY <1>1, <1>2 DEF With, HistoryTypeOK
<1> SUFFICES ASSUME NEW i \in DnsId, NEW k, k = [id |-> i]
             PROVE  /\ answered'[i] <= Len(asks')
                    /\ i \in DOMAIN pending' <=>
                         \E n \in With(k)' : n > answered'[i]
  BY DEF PendingExact, AskedSince
<1>5. Len(asks) \in Nat /\ \A n \in With(k) : n \in Nat
  BY <1>1 DEF HistoryTypeOK, With
<1>6. CASE i = r.id
  <2>1. answered'[i] = Len(asks)
    BY <1>1, <1>3, <1>6 DEF HistoryTypeOK
  <2> QED
    BY <1>2, <1>3, <1>4, <1>5, <1>6, <2>1
<1>7. CASE i # r.id
  <2>1. answered'[i] = answered[i]
    BY <1>1, <1>3, <1>7 DEF HistoryTypeOK
  <2> QED
    BY <1>2, <1>3, <1>4, <1>7, <2>1 DEF PendingExact, AskedSince
<1> QED
  BY <1>6, <1>7

(* PendingExact is kept.                                                    *)
LEMMA NextExact ==
  ASSUME PathInv, PendingExact, [DatagramNext]_datagramVars
  PROVE  PendingExact'
<1>1. ASSUME UNCHANGED <<asks, answered, pending>> PROVE PendingExact'
  BY <1>1 DEF PendingExact, AskedSince, With
<1>2. ASSUME NEW a \in Addr, NEW p \in Port, NEW d \in Dest,
             HandleOutboundUdp(a, p, d)
      PROVE  PendingExact'
  <2> SUFFICES ASSUME NEW key, key = [port |-> p, dst |-> d] PROVE PendingExact'
    OBVIOUS
  <2>1. key \in Key /\ \A i \in DnsId : key # [id |-> i]
    BY KeysDiffer DEF Key, UdpKey, DnsKey
  <2>2. pending' = pending /\ Len(asks) < MaxAsks /\ NewAsk(key, a)
    BY <1>2 DEF HandleOutboundUdp
  <2> QED
    BY <2>1, <2>2, ExactAsked
<1>3. ASSUME NEW a \in Addr, HandleQuery(a) PROVE PendingExact'
  <2> SUFFICES ASSUME NEW key, key = [id |-> next_id] PROVE PendingExact'
    OBVIOUS
  <2>1. key \in Key
    BY DEF Key, DnsKey, PathInv, DatagramTypeOK
  <2>2. \A i \in DnsId :
          i \in DOMAIN pending' <=> i \in DOMAIN pending \/ key = [id |-> i]
    BY <1>3 DEF HandleQuery, Insert
  <2>3. Len(asks) < MaxAsks /\ NewAsk(key, a)
    BY <1>3 DEF HandleQuery
  <2> QED
    BY <2>1, <2>2, <2>3, ExactAsked
<1>4. RemoteTakes \/ WriteToTun \/ Tick \/ UNCHANGED datagramVars => PendingExact'
  BY <1>1 DEF RemoteTakes, WriteToTun, Tick, datagramVars, hostVars, tableVars, history
<1>5. ASSUME NEW n \in Ask, TaskNext(n) PROVE PendingExact'
  BY <1>1, <1>5 DEF TaskNext, TaskReceives, TaskGivesUp, TaskAnswers, hostVars,
                    tableVars, history
<1>6. HandleUdpResponse => PendingExact'
  BY <1>1 DEF HandleUdpResponse, TakeResponse
<1>7. HandleDnsResponse => PendingExact'
  BY ExactAnswered
<1> QED
  BY <1>2, <1>3, <1>4, <1>5, <1>6, <1>7 DEF DatagramNext, HostNext

(* A young datagram has a mapping no older than itself, and an open query   *)
(* that is the only one with its id has an entry.                           *)
Covered ==
  \A n \in DOMAIN asks :
    /\ asks[n].key \in UdpKey /\ age[n] < MappingAge =>
         /\ asks[n].key \in DOMAIN udp_mappings
         /\ udp_mappings[asks[n].key].age <= age[n]
    /\ asks[n].key \in DnsKey /\ fate[n] = Open /\ With(asks[n].key) = {n} =>
         asks[n].key.id \in DOMAIN pending

(* Covered is kept by a datagram.                                           *)
LEMMA UdpCovered ==
  ASSUME PathInv, Covered,
         NEW a \in Addr, NEW p \in Port, NEW d \in Dest, HandleOutboundUdp(a, p, d)
  PROVE  Covered'
<1> DEFINE key == [port |-> p, dst |-> d]
<1>1. key \in UdpKey /\ key \in Key
  BY DEF UdpKey, Key
<1>2. /\ Len(asks) < MaxAsks /\ NewAsk(key, a)
      /\ udp_mappings' = TrackUdp(key, a) /\ pending' = pending
  BY DEF HandleOutboundUdp
<1> HIDE DEF key
<1>3. DatagramTypeOK /\ TableTypeOK /\ HistoryTypeOK
  BY TypeParts DEF PathInv
<1>4. /\ NextAsk \in Ask /\ NextAsk \notin DOMAIN asks
      /\ DOMAIN asks' = DOMAIN asks \cup {NextAsk}
      /\ asks'[NextAsk] = [key |-> key, from |-> a] /\ age'[NextAsk] = 0
      /\ \A n \in DOMAIN asks : asks'[n] = asks[n] /\ age'[n] = age[n]
      /\ fate' = fate
  BY <1>1, <1>2, <1>3, NewAskFacts
<1>5. /\ DOMAIN TrackUdp(key, a) =
           {key} \cup {j \in DOMAIN udp_mappings : udp_mappings[j].age < MappingAge}
      /\ TrackUdp(key, a)[key] = Mapping(a)
      /\ \A j \in DOMAIN TrackUdp(key, a) \ {key} :
           TrackUdp(key, a)[j] = udp_mappings[j]
  BY <1>1, <1>3, TrackUdpFacts DEF TableTypeOK
<1>6. ASSUME NEW n \in DOMAIN asks', asks'[n].key = key
      PROVE  key \in DOMAIN udp_mappings' /\ udp_mappings'[key].age <= age'[n]
  <2>1. age'[n] \in Nat
    <3>1. HistoryTypeOK'
      BY <1>1, <1>2, <1>3, NewAskFacts
    <3> QED
      BY <3>1 DEF HistoryTypeOK, Age
  <2> QED
    BY <1>2, <1>5, <2>1 DEF Mapping
<1>7. ASSUME NEW n \in DOMAIN asks', NEW k \in UdpKey, k # key,
             asks'[n].key = k, age'[n] < MappingAge
      PROVE  k \in DOMAIN udp_mappings' /\ udp_mappings'[k].age <= age'[n]
  <2>1. n \in DOMAIN asks /\ asks[n].key = k /\ age'[n] = age[n]
    BY <1>4, <1>7
  <2>2. k \in DOMAIN udp_mappings /\ udp_mappings[k].age <= age[n]
    BY <1>7, <2>1 DEF Covered
  <2>3. udp_mappings[k].age < MappingAge
    <3>1. udp_mappings[k] \in MappingRecord /\ age[n] \in Age
      BY <1>3, <2>1, <2>2 DEF TableTypeOK, HistoryTypeOK
    <3>2. udp_mappings[k].age \in Nat /\ age[n] \in Nat /\ MappingAge \in Nat
      BY <3>1, DatagramAssumption DEF MappingRecord, Age
    <3> QED
      BY <1>7, <2>1, <2>2, <3>2
  <2> QED
    BY <1>2, <1>5, <1>7, <2>1, <2>2, <2>3
<1>8. ASSUME NEW n \in DOMAIN asks', asks'[n].key \in DnsKey, fate'[n] = Open,
             \A m \in DOMAIN asks' : asks'[m].key = asks'[n].key => m = n
      PROVE  asks'[n].key.id \in DOMAIN pending'
  <2>1. n \in DOMAIN asks /\ asks'[n] = asks[n]
    BY <1>1, <1>4, <1>8, KeysDiffer
  <2>2. With(asks[n].key) = {n}
    BY <1>4, <1>8, <2>1 DEF With
  <2> QED
    BY <1>2, <1>4, <1>8, <2>1, <2>2 DEF Covered
<1>9. ASSUME NEW n \in DOMAIN asks'
      PROVE  /\ asks'[n].key \in UdpKey /\ age'[n] < MappingAge =>
                  /\ asks'[n].key \in DOMAIN udp_mappings'
                  /\ udp_mappings'[asks'[n].key].age <= age'[n]
             /\ /\ asks'[n].key \in DnsKey /\ fate'[n] = Open
                /\ \A m \in DOMAIN asks' : asks'[m].key = asks'[n].key => m = n
                => asks'[n].key.id \in DOMAIN pending'
  BY <1>6, <1>7, <1>8
<1> QED
  BY <1>9 DEF Covered, With

(* Covered is kept by a query.                                              *)
LEMMA QueryCovered ==
  ASSUME PathInv, Covered, NEW a \in Addr, HandleQuery(a)
  PROVE  Covered'
<1> SUFFICES ASSUME NEW key, key = [id |-> next_id] PROVE Covered'
  OBVIOUS
<1>1. key \in DnsKey /\ key \in Key /\ key.id = next_id
  BY DEF DnsKey, Key, PathInv, DatagramTypeOK
<1>2. /\ Len(asks) < MaxAsks /\ NewAsk(key, a)
      /\ DOMAIN pending' = DOMAIN pending \cup {next_id}
      /\ udp_mappings' = udp_mappings
  BY DEF HandleQuery, Insert
<1>3. DatagramTypeOK
  BY DEF PathInv
<1>4. /\ DOMAIN asks' = DOMAIN asks \cup {NextAsk}
      /\ asks'[NextAsk] = [key |-> key, from |-> a]
      /\ \A n \in DOMAIN asks : asks'[n] = asks[n] /\ age'[n] = age[n]
      /\ fate' = fate
  BY <1>1, <1>2, <1>3, NewAskFacts
<1>5. ASSUME NEW n \in DOMAIN asks', asks'[n].key \in UdpKey, age'[n] < MappingAge
      PROVE  /\ asks'[n].key \in DOMAIN udp_mappings'
             /\ udp_mappings'[asks'[n].key].age <= age'[n]
  <2>1. n \in DOMAIN asks /\ asks'[n] = asks[n] /\ age'[n] = age[n]
    BY <1>1, <1>4, <1>5, KeysDiffer
  <2> QED
    BY <1>2, <1>5, <2>1 DEF Covered
<1>6. ASSUME NEW n \in DOMAIN asks', asks'[n].key \in DnsKey, fate'[n] = Open,
             \A m \in DOMAIN asks' : asks'[m].key = asks'[n].key => m = n
      PROVE  asks'[n].key.id \in DOMAIN pending'
  <2>1. CASE n = NextAsk
    BY <1>1, <1>2, <1>4, <2>1
  <2>2. CASE n # NextAsk
    <3>1. n \in DOMAIN asks /\ asks'[n] = asks[n]
      BY <1>4, <2>2
    <3>2. With(asks[n].key) = {n}
      BY <1>4, <1>6, <3>1 DEF With
    <3> QED
      BY <1>2, <1>4, <1>6, <3>1, <3>2 DEF Covered
  <2> QED
    BY <2>1, <2>2
<1> QED
  BY <1>5, <1>6 DEF Covered, With

(* Covered is kept by a step that asks nothing, leaves the mappings alone   *)
(* and takes no entry from a lone query that stays open.                    *)
LEMMA CoveredKept ==
  ASSUME Covered, asks' = asks, age' = age, udp_mappings' = udp_mappings,
         \A n \in DOMAIN asks : fate'[n] = Open => fate[n] = Open,
         \A n \in DOMAIN asks :
           /\ asks[n].key \in DnsKey /\ fate'[n] = Open
           /\ With(asks[n].key) = {n} /\ asks[n].key.id \in DOMAIN pending
           => asks[n].key.id \in DOMAIN pending'
  PROVE  Covered'
<1>1. ASSUME NEW n \in DOMAIN asks', asks'[n].key \in UdpKey, age'[n] < MappingAge
      PROVE  /\ asks'[n].key \in DOMAIN udp_mappings'
             /\ udp_mappings'[asks'[n].key].age <= age'[n]
  BY <1>1 DEF Covered
<1>2. ASSUME NEW n \in DOMAIN asks', asks'[n].key \in DnsKey, fate'[n] = Open,
             \A m \in DOMAIN asks' : asks'[m].key = asks'[n].key => m = n
      PROVE  asks'[n].key.id \in DOMAIN pending'
  <2>1. With(asks[n].key) = {n}
    BY <1>2 DEF With
  <2> QED
    BY <1>2, <2>1 DEF Covered
<1> QED
  BY <1>1, <1>2 DEF Covered, With

(* Covered is kept by a DNS response: the entry it takes is of its own ask. *)
LEMMA DnsResponseCovered ==
  ASSUME PathInv, Covered, HandleDnsResponse
  PROVE  Covered'
<1> DEFINE r == Head(responses)
           key == [id |-> r.id]
<1> HIDE DEF r
<1>1. DatagramTypeOK /\ FlowTypeOK
  BY TypeParts DEF PathInv
<1>2. /\ TakeResponse("DnsResponse") /\ key \in DnsKey /\ r.type = "DnsResponse"
      /\ r.data \in Ask
      /\ \/ /\ pending' = Without(pending, r.id)
            /\ \/ fate' = [fate EXCEPT ![r.data] = Passed(key, pending[r.id])]
               \/ fate' = [fate EXCEPT ![r.data] = Lost]
         \/ /\ pending' = pending
            /\ fate' = [fate EXCEPT ![r.data] = Unknown(key)]
  BY <1>1, DnsResponseFacts, TakeFacts DEF r
<1>3. asks' = asks /\ age' = age /\ udp_mappings' = udp_mappings /\ responses # <<>>
  BY <1>2 DEF TakeResponse
<1>4. r.data \in DOMAIN asks /\ asks[r.data].key = key
  BY <1>2, <1>3, ResponseBelongs DEF BelongsIn, r
<1>5. key.id = r.id
  OBVIOUS
<1> HIDE DEF key
<1>6. fate \in [Ask -> Fate] /\ DOMAIN asks \subseteq Ask
  BY <1>1, AsksAreBounded DEF DatagramTypeOK
<1>7. fate'[r.data] # Open
  BY <1>2, <1>6, FateRecords
<1>8. \A n \in DOMAIN asks : n # r.data => fate'[n] = fate[n]
  BY <1>2, <1>6
<1>9. \A i \in DOMAIN pending : i # r.id => i \in DOMAIN pending'
  BY <1>2 DEF Without, Restrict
<1>10. ASSUME NEW n \in DOMAIN asks, asks[n].key \in DnsKey, fate'[n] = Open,
              With(asks[n].key) = {n}, asks[n].key.id \in DOMAIN pending
       PROVE  asks[n].key.id \in DOMAIN pending'
  <2>1. n # r.data
    BY <1>7, <1>10
  <2>2. asks[n].key # key
    BY <1>4, <1>10, <2>1 DEF With
  <2>3. asks[n].key.id # r.id
    BY <1>5, <1>2, <1>10, <2>2 DEF DnsKey
  <2> QED
    BY <1>9, <1>10, <2>3
<1>11. \A n \in DOMAIN asks : fate'[n] = Open => fate[n] = Open
  BY <1>7, <1>8
<1> QED
  BY <1>3, <1>10, <1>11, CoveredKept

(* Covered is kept by ageing: a mapping ages with its asks.                 *)
LEMMA TickCovered ==
  ASSUME PathInv, Covered, Tick
  PROVE  Covered'
<1>1. DatagramTypeOK /\ TableTypeOK /\ HistoryTypeOK
  BY TypeParts DEF PathInv
<1>2. /\ DOMAIN udp_mappings' = DOMAIN udp_mappings
      /\ \A n \in DOMAIN asks : age'[n] = Older(age[n])
      /\ \A k \in DOMAIN udp_mappings :
           udp_mappings'[k].age = Older(udp_mappings[k].age)
      /\ asks' = asks /\ pending' = pending /\ fate' = fate
  BY <1>1, TickFacts
<1>3. ASSUME NEW n \in DOMAIN asks', asks'[n].key \in UdpKey, age'[n] < MappingAge
      PROVE  /\ asks'[n].key \in DOMAIN udp_mappings'
             /\ udp_mappings'[asks'[n].key].age <= age'[n]
  <2> DEFINE k == asks[n].key
  <2> HIDE DEF k
  <2>1. n \in DOMAIN asks /\ asks'[n].key = k /\ k \in UdpKey
    BY <1>2, <1>3 DEF k
  <2>2. age[n] \in Age /\ age'[n] = Older(age[n])
    BY <1>1, <1>2, <2>1 DEF HistoryTypeOK
  <2>3. age[n] < MappingAge /\ age'[n] = age[n] + 1
    BY <1>3, <2>2 DEF Older
  <2>4. k \in DOMAIN udp_mappings /\ udp_mappings[k].age <= age[n]
    BY <2>1, <2>3 DEF Covered, k
  <2>5. udp_mappings[k].age \in Age
    BY <1>1, <2>4 DEF TableTypeOK, MappingRecord
  <2>6. udp_mappings'[k].age = udp_mappings[k].age + 1
    BY <1>2, <2>2, <2>3, <2>4, <2>5, DatagramAssumption DEF Older, Age
  <2> QED
    BY <1>2, <2>1, <2>2, <2>3, <2>4, <2>5, <2>6, DatagramAssumption DEF Age
<1>4. ASSUME NEW n \in DOMAIN asks', asks'[n].key \in DnsKey, fate'[n] = Open,
             \A m \in DOMAIN asks' : asks'[m].key = asks'[n].key => m = n
      PROVE  asks'[n].key.id \in DOMAIN pending'
  <2>1. With(asks[n].key) = {n}
    BY <1>2, <1>4 DEF With
  <2> QED
    BY <1>2, <1>4, <2>1 DEF Covered
<1> QED
  BY <1>3, <1>4 DEF Covered, With

(* Covered is kept.                                                         *)
LEMMA NextCovered ==
  ASSUME PathInv, Covered, [DatagramNext]_datagramVars
  PROVE  Covered'
<1>1. ASSUME NEW a \in Addr, NEW p \in Port, NEW d \in Dest,
             HandleOutboundUdp(a, p, d)
      PROVE  Covered'
  BY <1>1, UdpCovered
<1>2. ASSUME NEW a \in Addr, HandleQuery(a) PROVE Covered'
  BY <1>2, QueryCovered
<1>3. \A n \in DOMAIN asks : fate'[n] = Open => fate[n] = Open
  BY FateStep, AsksAreBounded DEF Decides, PathInv
<1>4. ASSUME asks' = asks, age' = age, udp_mappings' = udp_mappings,
             pending' = pending
      PROVE  Covered'
  BY <1>3, <1>4, CoveredKept
<1>5. RemoteTakes \/ WriteToTun \/ UNCHANGED datagramVars => Covered'
  BY <1>4 DEF RemoteTakes, WriteToTun, datagramVars, hostVars, tableVars, history
<1>6. ASSUME NEW n \in Ask, TaskNext(n) PROVE Covered'
  BY <1>4, <1>6 DEF TaskNext, TaskReceives, TaskGivesUp, TaskAnswers, hostVars,
                    tableVars, history
<1>7. HandleUdpResponse => Covered'
  BY <1>4 DEF HandleUdpResponse, TakeResponse
<1> QED
  BY <1>1, <1>2, <1>5, <1>6, <1>7, DnsResponseCovered, TickCovered
  DEF DatagramNext, HostNext

(* An ask that is as old as a mapping gets stays so.                        *)
LEMMA OldStaysOld ==
  ASSUME PathInv, [DatagramNext]_datagramVars, NEW n \in DOMAIN asks,
         age[n] = MappingAge
  PROVE  age'[n] = MappingAge
<1>1. DatagramTypeOK
  BY DEF PathInv
<1>2. ASSUME Len(asks) < MaxAsks, NEW key \in Key, NEW a \in Addr, NewAsk(key, a)
      PROVE  age'[n] = age[n]
  BY <1>1, <1>2, NewAskFacts
<1>3. ASSUME NEW a \in Addr, NEW p \in Port, NEW d \in Dest,
             HandleOutboundUdp(a, p, d)
      PROVE  age'[n] = age[n]
  <2>1. [port |-> p, dst |-> d] \in Key
    BY DEF Key, UdpKey
  <2> QED
    BY <1>2, <1>3, <2>1 DEF HandleOutboundUdp
<1>4. ASSUME NEW a \in Addr, HandleQuery(a) PROVE age'[n] = age[n]
  <2>1. [id |-> next_id] \in Key
    BY <1>1 DEF Key, DnsKey, DatagramTypeOK
  <2> QED
    BY <1>2, <1>4, <2>1 DEF HandleQuery
<1>5. Tick => age'[n] = MappingAge
  BY <1>1, TickFacts, DatagramAssumption DEF Older
<1>6. RemoteTakes \/ WriteToTun \/ UNCHANGED datagramVars => age' = age
  BY DEF RemoteTakes, WriteToTun, datagramVars, history
<1>7. HandleUdpResponse \/ HandleDnsResponse => age' = age
  BY DEF HandleUdpResponse, HandleDnsResponse, TakeResponse
<1>8. \A m \in Ask : TaskNext(m) => age' = age
  BY DEF TaskNext, TaskReceives, TaskGivesUp, TaskAnswers, history
<1> QED
  BY <1>3, <1>4, <1>5, <1>6, <1>7, <1>8 DEF DatagramNext, HostNext

(* UnknownAnswersAreLate is kept.                                           *)
LEMMA NextLate ==
  ASSUME PathInv, Covered, UnknownAnswersAreLate, [DatagramNext]_datagramVars
  PROVE  UnknownAnswersAreLate'
<1> SUFFICES ASSUME NEW n \in DOMAIN asks',
                    fate'[n].st = "unknown", fate'[n].key = asks'[n].key
             PROVE  \/ asks'[n].key \in UdpKey /\ age'[n] = MappingAge
                    \/ /\ asks'[n].key \in DnsKey
                       /\ \E m \in DOMAIN asks' :
                            m # n /\ asks'[m].key = asks'[n].key
  BY DEF UnknownAnswersAreLate, With
<1>1. /\ DOMAIN asks \subseteq DOMAIN asks'
      /\ \A i \in DOMAIN asks : asks'[i] = asks[i]
      /\ \A i \in DOMAIN asks' \ DOMAIN asks : i \in Ask /\ fate[i] = Open
  BY WithGrows
<1>2. DatagramTypeOK /\ TableTypeOK /\ HistoryTypeOK
  BY TypeParts DEF PathInv
<1>3. n \in Ask
  BY <1>1, <1>2, AsksAreBounded
<1>4. CASE fate'[n] = fate[n]
  <2>1. n \in DOMAIN asks /\ asks'[n] = asks[n]
    BY <1>1, <1>4, FateRecords
  <2>2. \/ asks[n].key \in UdpKey /\ age[n] = MappingAge
        \/ asks[n].key \in DnsKey /\ With(asks[n].key) # {n}
    BY <1>4, <2>1 DEF UnknownAnswersAreLate
  <2>3. With(asks[n].key) # {n} =>
          \E m \in DOMAIN asks : m # n /\ asks[m].key = asks[n].key
    BY <2>1 DEF With
  <2> QED
    BY <1>1, <2>1, <2>2, <2>3, OldStaysOld
<1>5. CASE asks' = asks /\ Decides(n)
  <2>1. /\ fate[n] = Open /\ n \in DOMAIN asks /\ age' = age
        /\ ~Known(asks[n].key, udp_mappings, pending)
    BY <1>5, FateRecords DEF Decides
  <2>2. asks[n].key \in Key
    <3> DEFINE R == [key : Key, from : Addr]
    <3>1. asks \in Seq(R)
      BY <1>2 DEF HistoryTypeOK
    <3> HIDE DEF R
    <3>2. asks[n] \in R
      BY <2>1, <3>1
    <3> QED
      BY <3>2 DEF R
  <2>3. CASE asks[n].key \in UdpKey
    <3>1. ~(age[n] < MappingAge)
      BY <2>1, <2>3 DEF Known, Covered
    <3>2. age[n] \in Age
      BY <1>2, <2>1 DEF HistoryTypeOK
    <3>3. age[n] = MappingAge
      BY <3>1, <3>2, DatagramAssumption DEF Age
    <3> QED
      BY <1>5, <2>1, <2>3, <3>3
  <2>4. CASE asks[n].key \in DnsKey
    <3>1. With(asks[n].key) # {n}
      BY <2>1, <2>4 DEF Known, Covered
    <3>2. \E m \in DOMAIN asks : m # n /\ asks[m].key = asks[n].key
      BY <2>1, <3>1 DEF With
    <3> QED
      BY <1>5, <2>4, <3>2
  <2> QED
    BY <2>2, <2>3, <2>4 DEF Key
<1> QED
  BY <1>3, <1>4, <1>5, FateStep

(* The inductive invariant of the datagram path.                            *)
DatagramInv ==
  /\ PathInv /\ Covered /\ LastUnanswered /\ PendingExact
  /\ AnswersReachAsker /\ UnknownAnswersAreLate

(* It holds in every reachable state.                                       *)
THEOREM DatagramInvariant == DatagramSpec => []DatagramInv
<1>1. DatagramInit => DatagramInv
  <2> SUFFICES ASSUME DatagramInit PROVE DatagramInv
    OBVIOUS
  <2>1. PathInv
    BY InitPath
  <2>2. DOMAIN asks = {} /\ DOMAIN pending = {}
    BY DEF DatagramInit
  <2>3. PendingExact
    BY <2>2 DEF PendingExact, AskedSince, With, DatagramInit
  <2> QED
    BY <2>1, <2>2, <2>3 DEF DatagramInv, Covered, LastUnanswered, AnswersReachAsker,
                      UnknownAnswersAreLate
<1>2. DatagramInv /\ [DatagramNext]_datagramVars => DatagramInv'
  <2> SUFFICES ASSUME DatagramInv, [DatagramNext]_datagramVars PROVE DatagramInv'
    OBVIOUS
  <2>1. PathInv /\ PathInv'
    BY NextPath DEF DatagramInv
  <2>2. Covered' /\ LastUnanswered' /\ AnswersReachAsker' /\ UnknownAnswersAreLate'
    BY <2>1, NextCovered, NextUnanswered, NextAnswers, NextLate DEF DatagramInv
  <2>3. PendingExact'
    BY <2>1, NextExact DEF DatagramInv
  <2> QED
    BY <2>1, <2>2, <2>3 DEF DatagramInv
<1> QED
  BY <1>1, <1>2, PTL DEF DatagramSpec

(* AnswersReachAsker: an answer from the address that was asked reaches the *)
(* application that asked, unless another shared its key (nat.rs:145-174,   *)
(* dns.rs:85-122).                                                          *)
THEOREM DatagramAnswersReachAsker == DatagramSpec => []AnswersReachAsker
  BY DatagramInvariant, PTL DEF DatagramInv

(* UnknownAnswersAreLate: the host has no entry for the answer to a         *)
(* datagram only when the datagram is a minute old, and to a query only     *)
(* when its id was used again (nat.rs:155-174, dns.rs:110-122).             *)
THEOREM DatagramUnknownAreLate == DatagramSpec => []UnknownAnswersAreLate
  BY DatagramInvariant, PTL DEF DatagramInv

(* PendingIsUnanswered: an id is in the table of pending queries exactly    *)
(* when a query with it was made after the last answer with it; its entry   *)
(* names the last socket that asked, which has had no answer                *)
(* (dns.rs:85-122).                                                         *)
THEOREM DatagramPendingUnanswered == DatagramSpec => []PendingIsUnanswered
<1>1. DatagramInv => PendingIsUnanswered
  BY DEF DatagramInv, PathInv, TablesNameLast, LastUnanswered, PendingExact,
         AskedSince, PendingIsUnanswered
<1> QED
  BY <1>1, DatagramInvariant, PTL
=============================================================================
