--------------------------- MODULE ProtocolProofs ---------------------------
(***************************************************************************)
(* With one SYN per connection attempt, the host keeps to the order of      *)
(* messages the remote relies on, and every id of its table resolves to its *)
(* own connection: HostKeepsProtocol and IdsResolve of Tunnel, for any      *)
(* number of connections, bytes, retransmissions and drops.                 *)
(*                                                                         *)
(* HostKeepsProtocol is what RemoteProxy assumes of its host; the theorem   *)
(* closes that gap.                                                         *)
(***************************************************************************)
EXTENDS TunnelProofs

-----------------------------------------------------------------------------
(* What the handlers do to the table.                                       *)

SynSent(k) == k \in DOMAIN tcp_by_key /\ tcp_by_key[k].state = "SynSent"

(* No connection is new, none changes its id, and none is opened.           *)
Follows ==
  /\ next_id' = next_id
  /\ \A k \in DOMAIN tcp_by_key' :
       /\ k \in DOMAIN tcp_by_key /\ tcp_by_key'[k].id = tcp_by_key[k].id
       /\ tcp_by_key'[k].state = "SynSent" <=> tcp_by_key[k].state = "SynSent"
       /\ tcp_by_key'[k].state = "Established" => tcp_by_key[k].state = "Established"

SameStates(t, u) ==
  /\ DOMAIN u = DOMAIN t
  /\ \A k \in DOMAIN t : u[k].state = t[k].state

(* Counting bytes changes no state.                                         *)
LEMMA AdvanceStates ==
  ASSUME NEW t, SameIds(t), NEW id, NEW n
  PROVE  SameStates(t, AdvanceTcpSeq(t, id, n))
<1>1. CASE ~Resolves(t, id)
  BY <1>1 DEF AdvanceTcpSeq, SameStates
<1>2. CASE Resolves(t, id)
  <2> DEFINE key == tcp_by_id[id]
             w == WrappingAdd(t[key].seq, n)
             conn == [t[key] EXCEPT !.seq = w]
  <2>1. key \in DOMAIN t /\ t[key] \in TcpConnection
    BY <1>2 DEF Resolves, SameIds
  <2>2. AdvanceTcpSeq(t, id, n) = [t EXCEPT ![key] = conn]
    BY <1>2 DEF AdvanceTcpSeq
  <2> HIDE DEF w
  <2>3. conn.state = t[key].state
    BY <2>1 DEF TcpConnection
  <2> HIDE DEF conn, key
  <2> QED
    BY <2>1, <2>2, <2>3 DEF SameStates, SameIds
<1> QED
  BY <1>1, <1>2

(* Nor does an acknowledgment number.                                       *)
LEMMA UpdateAckStates ==
  ASSUME NEW t, SameIds(t), NEW id, NEW ack
  PROVE  SameStates(t, UpdateTcpAck(t, id, ack))
<1>1. CASE ~Resolves(t, id)
  BY <1>1 DEF UpdateTcpAck, SameStates
<1>2. CASE Resolves(t, id)
  <2> DEFINE key == tcp_by_id[id]
             conn == [t[key] EXCEPT !.ack = ack]
  <2>1. key \in DOMAIN t /\ t[key] \in TcpConnection
    BY <1>2 DEF Resolves, SameIds
  <2>2. UpdateTcpAck(t, id, ack) = [t EXCEPT ![key] = conn]
    BY <1>2 DEF UpdateTcpAck
  <2>3. conn.state = t[key].state
    BY <2>1 DEF TcpConnection
  <2> HIDE DEF conn, key
  <2> QED
    BY <2>1, <2>2, <2>3 DEF SameStates, SameIds
<1> QED
  BY <1>1, <1>2

(* Setting one state leaves the others.                                     *)
LEMMA SetStateStates ==
  ASSUME NEW t, SameIds(t), NEW key \in DOMAIN t, NEW state
  PROVE  /\ DOMAIN SetTcpState(t, key, state) = DOMAIN t
         /\ SetTcpState(t, key, state)[key].state = state
         /\ \A k \in DOMAIN t \ {key} : SetTcpState(t, key, state)[k].state = t[k].state
<1> DEFINE conn == [t[key] EXCEPT !.state = state]
<1>1. t[key] \in TcpConnection
  BY DEF SameIds
<1>2. SetTcpState(t, key, state) = [t EXCEPT ![key] = conn]
  BY DEF SetTcpState
<1>3. conn.state = state
  BY <1>1 DEF TcpConnection
<1> HIDE DEF conn
<1> QED
  BY <1>2, <1>3 DEF SameIds

(* An update in place keeps every id on its connection.                     *)
LEMMA IdsKept ==
  ASSUME IdsResolve, NEW t, SameIds(t), SetTable(t)
  PROVE  IdsResolve'
<1>1. /\ DOMAIN tcp_by_key' = DOMAIN tcp_by_key
      /\ \A k \in DOMAIN tcp_by_key : tcp_by_key'[k].id = tcp_by_key[k].id
      /\ tcp_by_id' = tcp_by_id
  BY DEF SetTable, SameIds
<1> QED
  BY <1>1 DEF IdsResolve

(* So does the end of a connection, which takes its id with it.             *)
LEMMA IdsClose ==
  ASSUME IInv, IdsResolve, NEW key, CloseTcpConnection(key)
  PROVE  IdsResolve' /\ Follows /\ key \notin DOMAIN tcp_by_key'
<1>1. CASE key \notin DOMAIN tcp_by_key
  BY <1>1 DEF CloseTcpConnection, IdsResolve, Follows
<1>2. CASE key \in DOMAIN tcp_by_key
  <2> DEFINE id == tcp_by_key[key].id
  <2>1. tcp_by_key' = [x \in DOMAIN tcp_by_key \ {key} |-> tcp_by_key[x]]
    BY <1>2 DEF CloseTcpConnection, Without
  <2>2. tcp_by_id' = [x \in DOMAIN tcp_by_id \ {id} |-> tcp_by_id[x]]
    BY <1>2 DEF CloseTcpConnection, Without
  <2>3. next_id' = next_id
    BY DEF CloseTcpConnection
  <2>4. IdsResolve'
    BY <2>1, <2>2 DEF IdsResolve
  <2>5. Follows /\ key \notin DOMAIN tcp_by_key'
    BY <2>1, <2>3 DEF Follows
  <2> QED
    BY <2>4, <2>5
<1> QED
  BY <1>1, <1>2

(* And a connection for a key that has none.                                *)
LEMMA IdsCreate ==
  ASSUME IInv, IdsResolve, NEW key, key \notin DOMAIN tcp_by_key, NEW isn,
         CreateTcpConnection(key, isn)
  PROVE  IdsResolve'
<1> DEFINE conn == [id |-> next_id, state |-> "SynSent", seq |-> HostIsn,
                    ack |-> WrappingAdd(isn, 1)]
<1>1. tcp_by_key' = [x \in DOMAIN tcp_by_key \cup {key} |->
                       IF x = key THEN conn ELSE tcp_by_key[x]]
  BY DEF CreateTcpConnection, NewConnection, Insert
<1>2. tcp_by_id' = [x \in DOMAIN tcp_by_id \cup {next_id} |->
                      IF x = next_id THEN key ELSE tcp_by_id[x]]
  BY DEF CreateTcpConnection, Insert
<1>3. conn.id = next_id
  OBVIOUS
<1> HIDE DEF conn
<1> QED
  BY <1>1, <1>2, <1>3 DEF IdsResolve

-----------------------------------------------------------------------------
(* What the handlers send.                                                  *)

(* No SYN is added to the packets for the applications.                     *)
NoNewSyn ==
  \A n \in DOMAIN to_tun' :
    \/ n \in DOMAIN to_tun /\ to_tun'[n] = to_tun[n]
    \/ "syn" \notin to_tun'[n].flags

Emits(ms) ==
  \/ UNCHANGED <<to_remote, sent>>
  \/ to_remote' = to_remote \o ms /\ sent' = sent \o ms

(* Data of an established connection, and closes of one that is not         *)
(* connecting and has left the established state; a close comes last.       *)
Proper(ms) ==
  \A m \in DOMAIN ms : \E k \in DOMAIN tcp_by_key :
    /\ ms[m].id = tcp_by_key[k].id /\ tcp_by_key[k].state # "SynSent"
    /\ \/ /\ ms[m].type = "TcpData" /\ tcp_by_key[k].state = "Established"
       \/ /\ ms[m].type = "TcpClose" /\ m = Len(ms)
          /\ k \in DOMAIN tcp_by_key' =>
               tcp_by_key'[k].state \notin {"SynSent", "Established"}

(* The items of a sequence followed by another.                             *)
LEMMA Concatenated ==
  ASSUME NEW S, NEW s \in Seq(S), NEW t \in Seq(S)
  PROVE  /\ s \o t \in Seq(S) /\ Len(s \o t) = Len(s) + Len(t)
         /\ Len(s) \in Nat /\ Len(t) \in Nat
         /\ \A n \in DOMAIN s : n \in DOMAIN (s \o t) /\ (s \o t)[n] = s[n]
         /\ \A n \in DOMAIN (s \o t) :
              \/ n \in DOMAIN s /\ (s \o t)[n] = s[n]
              \/ /\ n - Len(s) \in DOMAIN t /\ n > Len(s)
                 /\ (s \o t)[n] = t[n - Len(s)]
  OBVIOUS

(* Two sequences of one item.                                               *)
LEMMA PairOfItems ==
  ASSUME NEW S, NEW s \in Seq(S), NEW t \in Seq(S), Len(s) = 1, Len(t) = 1
  PROVE  /\ Len(s \o t) = 2 /\ DOMAIN (s \o t) = 1..2
         /\ (s \o t)[1] = s[1] /\ (s \o t)[2] = t[1]
<1>1. 1 \in DOMAIN s /\ 2 \notin DOMAIN s
  OBVIOUS
<1> DEFINE u == s \o t
<1>0. u \in Seq(S) /\ Len(u) = 2
  BY Concatenated
<1> HIDE DEF u
<1>a. Len(u) = 2 /\ DOMAIN u = 1..2
  BY <1>0
<1>2. Len(s \o t) = 2 /\ DOMAIN (s \o t) = 1..2
  BY <1>a DEF u
<1>3. (s \o t)[1] = s[1]
  BY <1>1, Concatenated
<1>4. (s \o t)[2] = t[2 - Len(s)]
  BY <1>1, <1>2, Concatenated
<1> QED
  BY <1>2, <1>3, <1>4

(* What a handler sends to the applications.                                *)
LEMMA EmitPackets ==
  ASSUME ChannelTypeOK, NEW msgs, NEW packets \in Seq(TcpPacket),
         \A n \in DOMAIN packets : "syn" \notin packets[n].flags,
         Emit(msgs, packets)
  PROVE  NoNewSyn
<1>1. CASE UNCHANGED to_tun
  BY <1>1 DEF NoNewSyn
<1>2. CASE to_tun' = to_tun \o packets
  <2>1. to_tun \in Seq(TcpPacket)
    BY DEF ChannelTypeOK
  <2> QED
    BY <1>2, <2>1, Concatenated DEF NoNewSyn
<1> QED
  BY <1>1, <1>2 DEF Emit

(* A handler that sends nothing to the remote.                              *)
LEMMA EmitNothing ==
  ASSUME ChannelTypeOK, NEW packets, Emit(<<>>, packets)
  PROVE  UNCHANGED to_remote
<1>1. to_remote \in Seq(HostMessage)
  BY DEF ChannelTypeOK
<1>2. to_remote \o <<>> = to_remote
  BY <1>1
<1> QED
  BY <1>2 DEF Emit

Recorded == sent' = sent \o SubSeq(to_remote', Len(to_remote) + 1, Len(to_remote'))

(* The history records it.                                                  *)
LEMMA EmitMessages ==
  ASSUME ChannelTypeOK, sent \in Seq(HostMessage), NEW ms \in Seq(HostMessage),
         NEW packets, Emit(ms, packets), Recorded
  PROVE  Emits(ms)
<1>1. to_remote \in Seq(HostMessage)
  BY DEF ChannelTypeOK
<1>2. CASE to_remote' = to_remote \o ms
  <2>1. SubSeq(to_remote \o ms, Len(to_remote) + 1, Len(to_remote \o ms)) = ms
    BY <1>1
  <2> QED
    BY <1>2, <2>1 DEF Emits, Recorded
<1>3. CASE UNCHANGED to_remote
  <2>1. SubSeq(to_remote, Len(to_remote) + 1, Len(to_remote)) = <<>>
    BY <1>1
  <2>2. sent' = sent \o <<>>
    BY <1>3, <2>1 DEF Recorded
  <2>3. sent' = sent
    BY <2>2
  <2> QED
    BY <1>3, <2>3 DEF Emits
<1> QED
  BY <1>2, <1>3 DEF Emit

(* Nothing sent is sent properly.                                           *)
LEMMA NothingProper ==
  ASSUME ChannelTypeOK, sent \in Seq(HostMessage), UNCHANGED to_remote, Recorded
  PROVE  <<>> \in Seq(HostMessage) /\ Emits(<<>>) /\ Proper(<<>>)
<1>1. to_remote \in Seq(HostMessage)
  BY DEF ChannelTypeOK
<1>2. SubSeq(to_remote, Len(to_remote) + 1, Len(to_remote)) = <<>>
  BY <1>1
<1>3. sent' = sent \o <<>>
  BY <1>2 DEF Recorded
<1>4. sent' = sent
  BY <1>3
<1> QED
  BY <1>4 DEF Emits, Proper

(* One reply without a SYN.                                                 *)
LEMMA OneReply ==
  ASSUME NEW t, SameIds(t), NEW key \in TcpKey, NEW id, NEW flags \in SUBSET Flag,
         "syn" \notin flags
  PROVE  /\ <<Reply(t, key, id, flags)>> \in Seq(TcpPacket)
         /\ \A n \in DOMAIN <<Reply(t, key, id, flags)>> :
              "syn" \notin <<Reply(t, key, id, flags)>>[n].flags
<1> DEFINE r == Reply(t, key, id, flags)
<1>1. r \in TcpPacket
  BY ReplyType
<1>2. r.flags = flags
  BY DEF Reply
<1> HIDE DEF r
<1>3. <<r>> \in Seq(TcpPacket) /\ \A n \in DOMAIN <<r>> : "syn" \notin <<r>>[n].flags
  BY <1>1, <1>2
<1> QED
  BY <1>3 DEF r

(* Every branch for an outbound packet but the first: what it does to the   *)
(* table, the packets and the messages.                                     *)
Handled ==
  /\ IdsResolve' /\ Follows /\ NoNewSyn
  /\ \E ms \in Seq(HostMessage) : Emits(ms) /\ Proper(ms)

LEMMA OutboundHandled ==
  ASSUME IInv, IdsResolve, sent \in Seq(HostMessage), Recorded,
         NEW p \in TcpPacketInfo, HandleOutboundTcp(p),
         p.key \in DOMAIN tcp_by_key /\ "rst" \in p.flags =>
           tcp_by_key[p.key].state # "SynSent"
  PROVE  OnSyn(p) \/ Handled
<1> DEFINE id == tcp_by_key[p.key].id
<1>1. /\ p.key \in TcpKey /\ p.seq \in SeqNum /\ p.seq \in Int
      /\ p.payload \in Payload /\ Len(p.payload) \in Nat
  BY PayloadType DEF TcpPacketInfo, SeqNum
<1>2. SameIds(tcp_by_key) /\ ChannelTypeOK
  BY SameIdsRefl DEF IInv, NatIInv
<1>3. p.key \in DOMAIN tcp_by_key => id \in ConnId
  BY DEF IInv, NatIInv, NatTypeOK, TcpConnection
<1>4. {"ack"} \in SUBSET Flag /\ "syn" \notin {"ack"}
  BY DEF Flag
<1>5. <<>> \in Seq(HostMessage) /\ <<>> \in Seq(TcpPacket) /\ DOMAIN <<>> = {}
  OBVIOUS
<1>6. CASE OnRst(p)
  <2>1. IdsResolve' /\ Follows /\ p.key \notin DOMAIN tcp_by_key'
    BY <1>6, IdsClose DEF OnRst
  <2>2. Emit(<<TcpClose(id)>>, <<>>)
    BY <1>6 DEF OnRst
  <2>3. p.key \in DOMAIN tcp_by_key /\ tcp_by_key[p.key].state # "SynSent"
    BY <1>6 DEF OnRst, Known
  <2>4. <<TcpClose(id)>> \in Seq(HostMessage)
    BY <1>3, <2>3 DEF TcpClose, HostMessage
  <2>5. Emits(<<TcpClose(id)>>)
    BY <1>2, <2>2, <2>4, EmitMessages
  <2>6. Proper(<<TcpClose(id)>>)
    BY <2>1, <2>3 DEF Proper, TcpClose
  <2>7. NoNewSyn
    BY <1>2, <1>5, <2>2, EmitPackets
  <2> QED
    BY <2>1, <2>4, <2>5, <2>6, <2>7 DEF Handled
<1>7. CASE OnFin(p)
  <2> DEFINE ack == WrappingAdd(p.seq, Len(p.payload) + 1)
             acked == UpdateTcpAck(tcp_by_key, id, ack)
             data == IF p.payload = <<>> THEN <<>>
                     ELSE <<TcpData(id, p.payload)>>
             t == SetTcpState(acked, p.key, "FinWait")
  <2>0. p.key \in DOMAIN tcp_by_key /\ tcp_by_key[p.key].state = "Established"
    BY <1>7 DEF OnFin, TakeFin, InState, Known
  <2>1. ack \in SeqNum
    BY <1>1, WrappingAddType
  <2>2. SameIds(acked) /\ SameStates(tcp_by_key, acked)
    BY <1>2, <2>1, UpdateAckSameIds, UpdateAckStates
  <2>3. SameIds(t)
    BY <2>2, SetStateSameIds DEF ConnectionState
  <2>4. SetTable(t)
    BY <1>7 DEF OnFin, TakeFin
  <2>5. IdsResolve'
    BY <2>3, <2>4, IdsKept
  <2>6. Emit(data \o <<TcpClose(id)>>, <<Reply(acked, p.key, id, {"ack"})>>)
    BY <1>7 DEF OnFin, TakeFin, Piggybacked, Closing
  <2> HIDE DEF acked
  <2>7. /\ DOMAIN t = DOMAIN tcp_by_key /\ t[p.key].state = "FinWait"
        /\ \A k \in DOMAIN t : /\ t[k].id = tcp_by_key[k].id
                               /\ k # p.key => t[k].state = tcp_by_key[k].state
    BY <2>0, <2>2, <2>3, SetStateStates DEF SameStates, SameIds
  <2> HIDE DEF t
  <2>8. Follows
    BY <2>0, <2>4, <2>7 DEF Follows, SetTable
  <2>9. NoNewSyn
    BY <1>1, <1>2, <1>4, <2>2, <2>6, OneReply, EmitPackets
  <2>10. TcpClose(id) \in HostMessage /\ TcpData(id, p.payload) \in HostMessage
    BY <1>1, <1>3, <2>0 DEF TcpClose, TcpData, HostMessage
  <2>11. tcp_by_key'[p.key].state = "FinWait"
    BY <2>4, <2>7 DEF SetTable
  <2>12. CASE p.payload = <<>>
    <3>1. data \o <<TcpClose(id)>> = <<TcpClose(id)>>
      BY <2>12
    <3>2. <<TcpClose(id)>> \in Seq(HostMessage)
      BY <2>10
    <3>3. Emits(<<TcpClose(id)>>)
      BY <1>2, <2>6, <3>1, <3>2, EmitMessages
    <3>4. Proper(<<TcpClose(id)>>)
      BY <2>0, <2>11 DEF Proper, TcpClose
    <3> QED
      BY <2>5, <2>8, <2>9, <3>2, <3>3, <3>4 DEF Handled
  <2>13. CASE p.payload # <<>>
    <3> DEFINE one == <<TcpData(id, p.payload)>>
               two == <<TcpClose(id)>>
               ms == one \o two
    <3>0. /\ one \in Seq(HostMessage) /\ two \in Seq(HostMessage)
          /\ Len(one) = 1 /\ Len(two) = 1
          /\ one[1].type = "TcpData" /\ one[1].id = id
          /\ two[1].type = "TcpClose" /\ two[1].id = id
      BY <2>10 DEF TcpData, TcpClose
    <3>1. data \o <<TcpClose(id)>> = ms
      BY <2>13
    <3> HIDE DEF one, two
    <3>2. ms \in Seq(HostMessage)
      BY <3>0
    <3>3. Emits(ms)
      BY <1>2, <2>6, <3>1, <3>2, EmitMessages
    <3>4. /\ DOMAIN ms = 1..2 /\ Len(ms) = 2
          /\ ms[1].type = "TcpData" /\ ms[1].id = id
          /\ ms[2].type = "TcpClose" /\ ms[2].id = id
      BY <3>0, PairOfItems
    <3> HIDE DEF ms
    <3>5. Proper(ms)
      BY <2>0, <2>11, <3>4 DEF Proper
    <3> QED
      BY <2>5, <2>8, <2>9, <3>2, <3>3, <3>5 DEF Handled
  <2> QED
    BY <2>12, <2>13
<1>8. CASE OnData(p)
  <2> DEFINE ack == WrappingAdd(p.seq, Len(p.payload))
             acked == IF InOrder(p) THEN UpdateTcpAck(tcp_by_key, id, ack)
                      ELSE tcp_by_key
             ms == IF InOrder(p) THEN <<TcpData(id, p.payload)>> ELSE <<>>
  <2>0. p.key \in DOMAIN tcp_by_key /\ tcp_by_key[p.key].state = "Established"
    BY <1>8 DEF OnData, TakeData, InState, Known
  <2>1. ack \in SeqNum
    BY <1>1, WrappingAddType
  <2>2. SameIds(acked) /\ SameStates(tcp_by_key, acked)
    BY <1>2, <2>1, UpdateAckSameIds, UpdateAckStates DEF SameStates
  <2>3. SetTable(acked)
    BY <1>8 DEF OnData, TakeData
  <2>4. Emit(ms, <<Reply(acked, p.key, id, {"ack"})>>)
    BY <1>8 DEF OnData, TakeData
  <2>5. ms \in Seq(HostMessage)
    <3>1. TcpData(id, p.payload) \in HostMessage
      BY <1>1, <1>3, <2>0 DEF TcpData, HostMessage
    <3> QED
      BY <3>1
  <2>6. Proper(ms)
    BY <2>0 DEF Proper, TcpData
  <2> HIDE DEF acked, ms
  <2>7. IdsResolve' /\ Follows
    BY <2>2, <2>3, IdsKept DEF Follows, SetTable, SameStates, SameIds
  <2>8. NoNewSyn
    BY <1>1, <1>2, <1>4, <2>2, <2>4, OneReply, EmitPackets
  <2>9. Emits(ms)
    BY <1>2, <2>4, <2>5, EmitMessages
  <2> QED
    BY <2>5, <2>6, <2>7, <2>8, <2>9 DEF Handled
<1>9. CASE OnFinInCloseWait(p)
  <2> DEFINE acked == UpdateTcpAck(tcp_by_key, id, WrappingAdd(p.seq, 1))
  <2>1. SameIds(acked)
    BY <1>1, <1>2, WrappingAddType, UpdateAckSameIds
  <2>2. Emit(<<>>, <<Reply(acked, p.key, id, {"ack"})>>)
    BY <1>9 DEF OnFinInCloseWait, AckFin
  <2> HIDE DEF acked
  <2>3. NoNewSyn /\ UNCHANGED to_remote
    BY <1>1, <1>2, <1>4, <2>1, <2>2, OneReply, EmitPackets, EmitNothing
  <2>4. IdsResolve' /\ Follows
    BY <1>9, IdsClose DEF OnFinInCloseWait
  <2> QED
    BY <1>2, <2>3, <2>4, NothingProper DEF Handled
<1>10. CASE OnAckInLastAck(p)
  <2>1. IdsResolve' /\ Follows /\ NoNewSyn /\ UNCHANGED to_remote
    BY <1>10, IdsClose DEF OnAckInLastAck, NoNewSyn
  <2> QED
    BY <1>2, <2>1, NothingProper DEF Handled
<1>11. CASE Ignored(p) /\ Ignore
  <2>1. IdsResolve' /\ Follows /\ NoNewSyn /\ UNCHANGED to_remote
    BY <1>11 DEF Ignore, hostVars, natVars, IdsResolve, Follows, NoNewSyn
  <2> QED
    BY <1>2, <2>1, NothingProper DEF Handled
<1> QED
  BY <1>6, <1>7, <1>8, <1>9, <1>10, <1>11 DEF HandleOutboundTcp

(* The remote's messages: TcpConnected establishes the connection of its    *)
(* id, and the only SYN the host sends is for it.                           *)
Opens(m) ==
  /\ m.type = "TcpConnected" /\ m.id \in DOMAIN tcp_by_id
  /\ next_id' = next_id /\ IdsResolve' /\ UNCHANGED to_remote
  /\ DOMAIN tcp_by_key' = DOMAIN tcp_by_key
  /\ \A k \in DOMAIN tcp_by_key :
       /\ tcp_by_key'[k].id = tcp_by_key[k].id
       /\ tcp_by_key'[k].state =
            IF k = tcp_by_id[m.id] THEN "Established" ELSE tcp_by_key[k].state
  /\ \A n \in DOMAIN to_tun' :
       \/ n \in DOMAIN to_tun /\ to_tun'[n] = to_tun[n]
       \/ to_tun'[n].key = tcp_by_id[m.id]

LEMMA ConnectedOpens ==
  ASSUME IInv, IdsResolve, NEW m \in RemoteMessage, OnTcpConnected(m)
  PROVE  Opens(m)
<1> DEFINE key == tcp_by_id[m.id]
           established == SetTcpState(tcp_by_key, key, "Established")
           t == AdvanceTcpSeq(established, m.id, 1)
           reply == Reply(established, key, m.id, {"syn", "ack"})
<1>1. /\ m.type = "TcpConnected" /\ m.id \in DOMAIN tcp_by_id
      /\ SetTable(t) /\ Emit(<<>>, <<reply>>)
  BY DEF OnTcpConnected, Establish, ForKnown
<1>2. key \in DOMAIN tcp_by_key /\ key \in TcpKey
  BY <1>1 DEF IdsResolve, IInv, NatIInv, NatTypeOK
<1>3. SameIds(tcp_by_key) /\ ChannelTypeOK
  BY SameIdsRefl DEF IInv, NatIInv
<1>4. SameIds(established)
  BY <1>3, SetStateSameIds DEF ConnectionState
<1>5. /\ DOMAIN established = DOMAIN tcp_by_key
      /\ \A k \in DOMAIN tcp_by_key :
           established[k].state = IF k = key THEN "Established"
                                  ELSE tcp_by_key[k].state
  BY <1>2, <1>3, SetStateStates
<1>6. reply \in TcpPacket /\ reply.key = key
  BY <1>2, <1>4, ReplyType DEF Reply, Flag
<1> HIDE DEF established, reply
<1>7. SameIds(t) /\ SameStates(established, t)
  BY <1>4, AdvanceSameIds, AdvanceStates
<1> HIDE DEF t
<1>8. IdsResolve' /\ next_id' = next_id /\ tcp_by_key' = t
  BY <1>1, <1>7, IdsKept DEF SetTable
<1>9. DOMAIN t = DOMAIN tcp_by_key /\ \A k \in DOMAIN tcp_by_key : t[k].id = tcp_by_key[k].id
  BY <1>7 DEF SameIds
<1>10. \A k \in DOMAIN tcp_by_key :
         t[k].state = IF k = key THEN "Established" ELSE tcp_by_key[k].state
  BY <1>5, <1>7 DEF SameStates
<1>11. UNCHANGED to_remote
  BY <1>1, <1>3, EmitNothing
<1>12. ASSUME NEW n \in DOMAIN to_tun'
       PROVE  \/ n \in DOMAIN to_tun /\ to_tun'[n] = to_tun[n]
              \/ to_tun'[n].key = key
  <2>1. CASE UNCHANGED to_tun
    BY <1>12, <2>1
  <2>2. CASE to_tun' = to_tun \o <<reply>>
    <3>1. to_tun \in Seq(TcpPacket) /\ <<reply>> \in Seq(TcpPacket)
      BY <1>3, <1>6 DEF ChannelTypeOK
    <3>2. \A j \in DOMAIN <<reply>> : <<reply>>[j] = reply
      OBVIOUS
    <3> QED
      BY <1>6, <1>12, <2>2, <3>1, <3>2, Concatenated
  <2> QED
    BY <1>1, <2>1, <2>2 DEF Emit
<1> QED
  BY <1>1, <1>8, <1>9, <1>10, <1>11, <1>12 DEF Opens

(* The other messages open nothing and send nothing to the remote.          *)
LEMMA RemoteMessageHandled ==
  ASSUME IInv, IdsResolve, NEW m \in RemoteMessage, HandleRemoteMessage(m)
  PROVE  \/ Opens(m)
         \/ IdsResolve' /\ Follows /\ NoNewSyn /\ UNCHANGED to_remote
<1> DEFINE key == tcp_by_id[m.id]
           Done == IdsResolve' /\ Follows /\ NoNewSyn /\ UNCHANGED to_remote
<1>1. SameIds(tcp_by_key) /\ ChannelTypeOK
  BY SameIdsRefl DEF IInv, NatIInv
<1>2. m.id \in DOMAIN tcp_by_id => key \in TcpKey
  BY DEF IInv, NatIInv, NatTypeOK
<1>3. CASE OnTcpConnected(m)
  BY <1>3, ConnectedOpens
<1>4. CASE OnTcpData(m)
  <2> DEFINE t == AdvanceTcpSeq(tcp_by_key, m.id, Len(m.data))
  <2>1. m.data \in Payload /\ m.id \in DOMAIN tcp_by_id
    BY <1>4 DEF OnTcpData, ForKnown, RemoteMessage
  <2>2. SameIds(t) /\ SameStates(tcp_by_key, t)
    BY <1>1, <2>1, PayloadType, AdvanceSameIds, AdvanceStates
  <2>3. SetTable(t) /\ Emit(<<>>, DataPackets(m.id, m.data))
    BY <1>4 DEF OnTcpData, PassOn
  <2> HIDE DEF t
  <2>4. IdsResolve' /\ Follows
    BY <2>2, <2>3, IdsKept DEF Follows, SetTable, SameStates, SameIds
  <2>5. DataPackets(m.id, m.data) \in Seq(TcpPacket)
    BY <2>1, DataPacketsType DEF IInv
  <2>6. \A n \in DOMAIN DataPackets(m.id, m.data) :
          "syn" \notin DataPackets(m.id, m.data)[n].flags
    BY DEF DataPackets
  <2>7. NoNewSyn /\ UNCHANGED to_remote
    BY <1>1, <2>3, <2>5, <2>6, EmitPackets, EmitNothing
  <2> QED
    BY <2>4, <2>7
<1>5. ASSUME NEW from \in {"Established", "FinWait"}, NEW to \in {"CloseWait", "LastAck"},
             OnTcpClosed(m, from, to)
      PROVE  Done
  <2> DEFINE advanced == AdvanceTcpSeq(tcp_by_key, m.id, 1)
             t == SetTcpState(advanced, key, to)
  <2>1. /\ m.id \in DOMAIN tcp_by_id /\ key \in DOMAIN tcp_by_key
        /\ tcp_by_key[key].state = from
        /\ SetTable(t) /\ Emit(<<>>, <<Reply(tcp_by_key, key, m.id, {"fin", "ack"})>>)
    BY <1>5 DEF OnTcpClosed, ForKnown
  <2>2. SameIds(advanced) /\ SameStates(tcp_by_key, advanced)
    BY <1>1, AdvanceSameIds, AdvanceStates
  <2>3. SameIds(t)
    BY <2>2, SetStateSameIds DEF ConnectionState
  <2>4. /\ DOMAIN t = DOMAIN tcp_by_key /\ t[key].state = to
        /\ \A k \in DOMAIN tcp_by_key : k # key => t[k].state = tcp_by_key[k].state
    BY <2>1, <2>2, SetStateStates DEF SameStates
  <2> HIDE DEF t
  <2>5. IdsResolve' /\ Follows
    BY <2>1, <2>3, <2>4, IdsKept DEF Follows, SetTable, SameIds
  <2>6. {"fin", "ack"} \in SUBSET Flag /\ "syn" \notin {"fin", "ack"}
    BY DEF Flag
  <2>7. NoNewSyn /\ UNCHANGED to_remote
    BY <1>1, <1>2, <2>1, <2>6, OneReply, EmitPackets, EmitNothing
  <2> QED
    BY <2>5, <2>7
<1>6. CASE OnTcpClosedUnexpected(m)
  <2>1. CloseTcpConnection(key) /\ UNCHANGED <<to_remote, to_tun>>
    BY <1>6 DEF OnTcpClosedUnexpected
  <2> QED
    BY <2>1, IdsClose DEF NoNewSyn
<1>7. CASE OnTcpError(m)
  <2> DEFINE reset == [key |-> key, flags |-> {"rst"}, seq |-> 0, ack |-> 0,
                       payload |-> <<>>]
  <2>1. CloseTcpConnection(key) /\ Emit(<<>>, <<reset>>) /\ m.id \in DOMAIN tcp_by_id
    BY <1>7 DEF OnTcpError, ForKnown
  <2>2. <<>> \in Seq(Byte)
    OBVIOUS
  <2>3. reset \in TcpPacket /\ "syn" \notin reset.flags
    BY <1>2, <2>1, <2>2, ZeroSeqNum DEF TcpPacket, Flag
  <2> HIDE DEF reset
  <2>4. <<reset>> \in Seq(TcpPacket) /\ \A n \in DOMAIN <<reset>> : "syn" \notin <<reset>>[n].flags
    BY <2>3
  <2>5. NoNewSyn /\ UNCHANGED to_remote
    BY <1>1, <2>1, <2>4, EmitPackets, EmitNothing
  <2> QED
    BY <2>1, <2>5, IdsClose
<1>8. CASE Ignore
  BY <1>8 DEF Ignore, hostVars, natVars, IdsResolve, Follows, NoNewSyn
<1> QED
  BY <1>3, <1>4, <1>5, <1>6, <1>7, <1>8 DEF HandleRemoteMessage

-----------------------------------------------------------------------------
(* The order of messages.  A connection is announced once the remote has    *)
(* sent TcpConnected for it: the host leaves SynSent only after that.       *)
Announced(i) == task[i] \notin {"none", "connecting", "announcing", "refused"}

Ordered(s) ==
  \A m, n \in DOMAIN s :
    m < n => /\ s[n].type = "TcpConnect" => s[m].id # s[n].id
             /\ s[m] = TcpClose(s[n].id) => s[n].type # "TcpData"

SentInv == Ordered(sent) /\ \A n \in DOMAIN sent : sent[n].id < next_id

ToRemoteInv ==
  /\ \A n \in DOMAIN to_remote :
       /\ to_remote[n].id < next_id
       /\ IF to_remote[n].type = "TcpConnect" THEN task[to_remote[n].id] = "none"
          ELSE Announced(to_remote[n].id)
  /\ \A m, n \in DOMAIN to_remote :
       /\ to_remote[m].type = "TcpConnect" /\ to_remote[n].type = "TcpConnect"
       /\ to_remote[m].id = to_remote[n].id
       => m = n

TaskInv == \A i \in ConnId : task[i] # "none" => i < next_id

ResponsesInv ==
  /\ \A n \in DOMAIN responses : responses[n].type = "TcpConnected" =>
       /\ Announced(responses[n].id)
       /\ \A k \in DOMAIN tcp_by_key : tcp_by_key[k].id = responses[n].id => SynSent(k)
  /\ \A m, n \in DOMAIN responses :
       /\ responses[m].type = "TcpConnected" /\ responses[n].type = "TcpConnected"
       /\ responses[m].id = responses[n].id
       => m = n

TableInv ==
  \A k \in DOMAIN tcp_by_key :
    /\ ~SynSent(k) => Announced(tcp_by_key[k].id)
    /\ tcp_by_key[k].state \in {"SynSent", "Established"} =>
         \A n \in DOMAIN sent : sent[n] # TcpClose(tcp_by_key[k].id)

ProtoInv == SentInv /\ ToRemoteInv /\ TaskInv /\ ResponsesInv /\ TableInv

(* It gives the property.                                                   *)
LEMMA ProtoInvGives ==
  ASSUME ProtoInv
  PROVE  HostKeepsProtocol
  BY DEF ProtoInv, SentInv, ToRemoteInv, Ordered, Announced, HostKeepsProtocol

(* A table that follows the old one, with nothing new sent, keeps it.       *)
LEMMA TableFollows ==
  ASSUME ProtoInv, Follows, UNCHANGED <<task, sent>>
  PROVE  SentInv' /\ TaskInv' /\ TableInv'
<1>1. SentInv' /\ TaskInv'
  BY DEF ProtoInv, SentInv, Ordered, TaskInv, Follows, TcpClose
<1>2. TableInv'
  BY DEF ProtoInv, TableInv, Follows, SynSent, Announced, TcpClose
<1> QED
  BY <1>1, <1>2

(* The host takes a response that opens nothing.                            *)
LEMMA ProtoQuiet ==
  ASSUME TypeInv, ProtoInv, Follows, UNCHANGED <<task, sent, to_remote>>,
         responses # <<>>, responses' = Tail(responses)
  PROVE  ProtoInv'
<1>1. \A n \in DOMAIN responses' : /\ n \in Nat /\ n + 1 \in DOMAIN responses
                                   /\ responses'[n] = responses[n + 1]
  BY HeadTail DEF TypeInv, RemoteInv
<1>2. SentInv' /\ TaskInv' /\ TableInv'
  BY TableFollows
<1>3. ToRemoteInv'
  BY DEF ProtoInv, ToRemoteInv, Follows, Announced
<1>4. ResponsesInv'
  <2>1. ASSUME NEW n \in DOMAIN responses', responses'[n].type = "TcpConnected"
        PROVE  /\ Announced(responses[n].id)'
               /\ \A k \in DOMAIN tcp_by_key' :
                    tcp_by_key'[k].id = responses'[n].id => SynSent(k)'
    BY <1>1, <2>1 DEF ProtoInv, ResponsesInv, Announced, Follows, SynSent
  <2>2. ASSUME NEW m \in DOMAIN responses', NEW n \in DOMAIN responses',
               responses'[m].type = "TcpConnected", responses'[n].type = "TcpConnected",
               responses'[m].id = responses'[n].id
        PROVE  m = n
    <3>1. m \in Nat /\ n \in Nat /\ m + 1 = n + 1
      BY <1>1, <2>2 DEF ProtoInv, ResponsesInv
    <3> QED
      BY <3>1
  <2> QED
    BY <2>1, <2>2 DEF ResponsesInv
<1> QED
  BY <1>2, <1>3, <1>4 DEF ProtoInv

(* The host takes a TcpConnected.                                           *)
LEMMA ProtoOpens ==
  ASSUME TypeInv, IdsResolve, ProtoInv, UNCHANGED <<task, sent>>,
         responses # <<>>, responses' = Tail(responses), Opens(Head(responses))
  PROVE  ProtoInv'
<1> DEFINE id == Head(responses).id
           key == tcp_by_id[id]
<1>1. /\ \A n \in DOMAIN responses' : /\ n \in Nat /\ n + 1 \in DOMAIN responses
                                      /\ n + 1 # 1 /\ responses'[n] = responses[n + 1]
      /\ 1 \in DOMAIN responses /\ Head(responses) = responses[1]
  <2>1. responses \in Seq(RemoteMessage)
    BY DEF TypeInv, RemoteInv
  <2>2. \A n \in Nat : n \in DOMAIN Tail(responses) => n + 1 # 1
    BY <2>1
  <2> QED
    BY <2>1, <2>2, HeadTail
<1>2. key \in DOMAIN tcp_by_key /\ tcp_by_key[key].id = id
  BY DEF Opens, IdsResolve
<1>3. Announced(id) /\ SynSent(key)
  BY <1>1, <1>2 DEF Opens, ProtoInv, ResponsesInv
<1>4. /\ next_id' = next_id /\ UNCHANGED to_remote
      /\ DOMAIN tcp_by_key' = DOMAIN tcp_by_key
      /\ \A k \in DOMAIN tcp_by_key :
           /\ tcp_by_key'[k].id = tcp_by_key[k].id
           /\ tcp_by_key'[k].state = IF k = key THEN "Established" ELSE tcp_by_key[k].state
  BY DEF Opens
<1>5. SentInv' /\ TaskInv' /\ ToRemoteInv'
  BY <1>4 DEF ProtoInv, SentInv, Ordered, TaskInv, ToRemoteInv, Announced, TcpClose
<1>6. TableInv'
  <2>1. ASSUME NEW k \in DOMAIN tcp_by_key' PROVE Announced(tcp_by_key'[k].id) \/ SynSent(k)'
    BY <1>2, <1>3, <1>4, <2>1 DEF ProtoInv, TableInv, SynSent
  <2>2. ASSUME NEW k \in DOMAIN tcp_by_key',
               tcp_by_key'[k].state \in {"SynSent", "Established"}
        PROVE  tcp_by_key[k].state \in {"SynSent", "Established"}
    BY <1>3, <1>4, <2>2 DEF SynSent
  <2> QED
    BY <1>4, <2>1, <2>2 DEF ProtoInv, TableInv, Announced, TcpClose
<1>7. ResponsesInv'
  <2>1. ASSUME NEW n \in DOMAIN responses', responses'[n].type = "TcpConnected"
        PROVE  /\ Announced(responses[n].id)'
               /\ \A k \in DOMAIN tcp_by_key' :
                    tcp_by_key'[k].id = responses'[n].id => SynSent(k)'
    <3>1. Announced(responses[n].id)'
      BY <1>1, <2>1 DEF ProtoInv, ResponsesInv, Announced
    <3>2. responses'[n].id # id
      BY <1>1, <2>1 DEF Opens, ProtoInv, ResponsesInv
    <3>3. ASSUME NEW k \in DOMAIN tcp_by_key', tcp_by_key'[k].id = responses'[n].id
          PROVE  SynSent(k)'
      <4>1. SynSent(k)
        BY <1>1, <1>4, <2>1, <3>3 DEF ProtoInv, ResponsesInv
      <4>2. k # key
        BY <1>2, <1>4, <3>2, <3>3
      <4> QED
        BY <1>4, <4>1, <4>2 DEF SynSent
    <3> QED
      BY <3>1, <3>3
  <2>2. ASSUME NEW m \in DOMAIN responses', NEW n \in DOMAIN responses',
               responses'[m].type = "TcpConnected", responses'[n].type = "TcpConnected",
               responses'[m].id = responses'[n].id
        PROVE  m = n
    <3>1. m \in Nat /\ n \in Nat /\ m + 1 = n + 1
      BY <1>1, <2>2 DEF ProtoInv, ResponsesInv
    <3> QED
      BY <3>1
  <2> QED
    BY <2>1, <2>2 DEF ResponsesInv
<1> QED
  BY <1>5, <1>6, <1>7 DEF ProtoInv

(* Adding messages of an order that goes on from what was sent.             *)
LEMMA OrderedMore ==
  ASSUME NEW s \in Seq(HostMessage), NEW ms \in Seq(HostMessage), Ordered(s),
         \A n \in DOMAIN ms :
           /\ ms[n].type = "TcpConnect" =>
                /\ n = 1
                /\ \A m \in DOMAIN s : s[m].id # ms[n].id
           /\ ms[n].type = "TcpData" =>
                \A m \in DOMAIN s : s[m] # TcpClose(ms[n].id)
           /\ ms[n].type = "TcpClose" => n = Len(ms)
  PROVE  Ordered(s \o ms)
<1> DEFINE u == s \o ms
<1>1. /\ Len(s) \in Nat /\ Len(ms) \in Nat
      /\ \A n \in DOMAIN u :
           \/ n \in DOMAIN s /\ u[n] = s[n]
           \/ n - Len(s) \in DOMAIN ms /\ n > Len(s) /\ u[n] = ms[n - Len(s)]
  BY Concatenated
<1>2. DOMAIN ms = 1..Len(ms) /\ DOMAIN s = 1..Len(s)
  OBVIOUS
<1>3. DOMAIN u \subseteq Nat
  OBVIOUS
<1> HIDE DEF u
<1>4. ASSUME NEW m \in DOMAIN u, NEW n \in DOMAIN u, m < n
      PROVE  /\ u[n].type = "TcpConnect" => u[m].id # u[n].id
             /\ u[m] = TcpClose(u[n].id) => u[n].type # "TcpData"
  <2>0. m \in Nat /\ n \in Nat
    BY <1>3
  <2>1. CASE n \in DOMAIN s /\ u[n] = s[n]
    <3>1. m \in DOMAIN s /\ u[m] = s[m]
      BY <1>1, <1>2, <1>4, <2>0, <2>1
    <3> QED
      BY <1>4, <2>1, <3>1 DEF Ordered
  <2>2. CASE n - Len(s) \in DOMAIN ms /\ n > Len(s) /\ u[n] = ms[n - Len(s)]
    <3>1. CASE m \in DOMAIN s /\ u[m] = s[m]
      BY <2>2, <3>1
    <3>2. CASE m - Len(s) \in DOMAIN ms /\ m > Len(s) /\ u[m] = ms[m - Len(s)]
      <4>1. n - Len(s) # 1 /\ m - Len(s) # Len(ms)
        BY <1>1, <1>2, <1>4, <2>0, <2>2, <3>2
      <4>2. u[n].type # "TcpConnect" /\ u[m].type # "TcpClose"
        BY <2>2, <3>2, <4>1
      <4> QED
        BY <4>2 DEF TcpClose
    <3> QED
      BY <1>1, <3>1, <3>2
  <2> QED
    BY <1>1, <2>1, <2>2
<1> QED
  BY <1>4 DEF Ordered, u

(* The host handles a packet that opens no connection.                      *)
LEMMA ProtoHandled ==
  ASSUME TypeInv, IdsResolve, ProtoInv, Handled, UNCHANGED <<task, responses>>
  PROVE  ProtoInv'
<1>1. PICK ms \in Seq(HostMessage) : Emits(ms) /\ Proper(ms)
  BY DEF Handled
<1>2. Follows /\ UNCHANGED <<task, responses>>
  BY DEF Handled
<1>3. TaskInv' /\ ResponsesInv'
  BY <1>2 DEF ProtoInv, TaskInv, ResponsesInv, Follows, SynSent, Announced
<1>4. CASE UNCHANGED <<to_remote, sent>>
  <2>1. SentInv' /\ TableInv'
    BY <1>2, <1>4, TableFollows
  <2>2. ToRemoteInv'
    BY <1>2, <1>4 DEF ProtoInv, ToRemoteInv, Follows, Announced
  <2> QED
    BY <1>3, <2>1, <2>2 DEF ProtoInv
<1>5. CASE to_remote' = to_remote \o ms /\ sent' = sent \o ms
  <2>1. sent \in Seq(HostMessage) /\ to_remote \in Seq(HostMessage)
    BY DEF TypeInv, EnvInv, IInv, ChannelTypeOK
  <2>2. ASSUME NEW n \in DOMAIN ms
        PROVE  /\ ms[n].type \in {"TcpData", "TcpClose"}
               /\ Announced(ms[n].id) /\ ms[n].id < next_id
               /\ ms[n].type = "TcpData" =>
                    \A m \in DOMAIN sent : sent[m] # TcpClose(ms[n].id)
               /\ ms[n].type = "TcpClose" => n = Len(ms)
    <3>1. PICK k \in DOMAIN tcp_by_key :
            /\ ms[n].id = tcp_by_key[k].id /\ tcp_by_key[k].state # "SynSent"
            /\ \/ /\ ms[n].type = "TcpData" /\ tcp_by_key[k].state = "Established"
               \/ /\ ms[n].type = "TcpClose" /\ n = Len(ms)
      BY <1>1, <2>2 DEF Proper
    <3>2. Announced(ms[n].id)
      BY <3>1 DEF ProtoInv, TableInv, SynSent
    <3>3. ms[n].id \in ConnId
      BY <3>1 DEF TypeInv, IInv, NatIInv, NatTypeOK, TcpConnection
    <3>4. ms[n].id < next_id
      BY <3>2, <3>3 DEF ProtoInv, TaskInv, Announced
    <3> QED
      BY <3>1, <3>2, <3>4 DEF ProtoInv, TableInv
  <2>3. /\ \A n \in DOMAIN sent' :
             \/ n \in DOMAIN sent /\ sent'[n] = sent[n]
             \/ \E m \in DOMAIN ms : sent'[n] = ms[m]
        /\ \A n \in DOMAIN to_remote' :
             \/ n \in DOMAIN to_remote /\ to_remote'[n] = to_remote[n]
             \/ \E m \in DOMAIN ms : to_remote'[n] = ms[m]
    BY <1>5, <2>1, Concatenated, SMTT(30)
  <2>4. SentInv'
    <3>1. Ordered(sent \o ms)
      BY <2>1, <2>2, OrderedMore DEF ProtoInv, SentInv
    <3>2. Ordered(sent)'
      BY <1>5, <3>1 DEF Ordered, TcpClose
    <3> QED
      BY <1>2, <2>2, <2>3, <3>2 DEF ProtoInv, SentInv, Follows
  <2>5. ToRemoteInv'
    BY <1>2, <2>2, <2>3 DEF ProtoInv, ToRemoteInv, Follows, Announced
  <2>6. TableInv'
    <3>1. ASSUME NEW k \in DOMAIN tcp_by_key', ~SynSent(k)'
          PROVE  Announced(tcp_by_key[k].id)'
      BY <1>2, <3>1 DEF ProtoInv, TableInv, Follows, SynSent, Announced
    <3>2. ASSUME NEW k \in DOMAIN tcp_by_key',
                 tcp_by_key'[k].state \in {"SynSent", "Established"},
                 NEW n \in DOMAIN sent', sent'[n] = TcpClose(tcp_by_key'[k].id)
          PROVE  FALSE
      <4>1. k \in DOMAIN tcp_by_key /\ tcp_by_key'[k].id = tcp_by_key[k].id
            /\ tcp_by_key[k].state \in {"SynSent", "Established"}
        BY <1>2, <3>2 DEF Follows
      <4>2. CASE n \in DOMAIN sent /\ sent'[n] = sent[n]
        BY <3>2, <4>1, <4>2 DEF ProtoInv, TableInv
      <4>3. ASSUME NEW m \in DOMAIN ms, sent'[n] = ms[m] PROVE FALSE
        <5>1. ms[m].type = "TcpClose" /\ ms[m].id = tcp_by_key[k].id
          BY <3>2, <4>1, <4>3 DEF TcpClose
        <5>2. PICK j \in DOMAIN tcp_by_key :
                /\ ms[m].id = tcp_by_key[j].id
                /\ j \in DOMAIN tcp_by_key' =>
                     tcp_by_key'[j].state \notin {"SynSent", "Established"}
          BY <1>1, <5>1 DEF Proper
        <5>3. j = k
          BY <4>1, <5>1, <5>2, ZenonT(60) DEF TypeInv, IInv, NatIInv, KeysResolve
        <5> QED
          BY <3>2, <5>2, <5>3
      <4> QED
        BY <2>3, <4>2, <4>3
    <3> QED
      BY <1>2, <3>1, <3>2 DEF TableInv, Announced, Follows, TcpClose
  <2> QED
    BY <1>3, <2>4, <2>5, <2>6 DEF ProtoInv
<1> QED
  BY <1>1, <1>4, <1>5 DEF Emits

(* The host opens a connection for a key without one.                       *)
LEMMA ProtoCreates ==
  ASSUME TypeInv, ProtoInv, NEW p \in TcpPacketInfo, OnSyn(p), Recorded,
         p.key \notin DOMAIN tcp_by_key, UNCHANGED <<task, responses>>
  PROVE  ProtoInv'
<1> DEFINE conn == [id |-> next_id, state |-> "SynSent", seq |-> HostIsn,
                    ack |-> WrappingAdd(p.seq, 1)]
           ms == <<TcpConnect(next_id, p.key[2])>>
<1>1. /\ next_id <= MaxConns /\ next_id' = next_id + 1 /\ next_id \in ConnId
      /\ next_id \in Nat
  BY NatAssumption DEF OnSyn, CreateTcpConnection, TypeInv, IInv, NatIInv, NatTypeOK, ConnId
<1>2. tcp_by_key' = [x \in DOMAIN tcp_by_key \cup {p.key} |->
                       IF x = p.key THEN conn ELSE tcp_by_key[x]]
  BY DEF OnSyn, CreateTcpConnection, NewConnection, Insert
<1>3. conn.id = next_id /\ conn.state = "SynSent"
  OBVIOUS
<1> HIDE DEF conn
<1>4. task[next_id] = "none"
  BY <1>1 DEF ProtoInv, TaskInv
<1>5. sent \in Seq(HostMessage) /\ to_remote \in Seq(HostMessage)
  BY DEF TypeInv, EnvInv, IInv, ChannelTypeOK
<1>6. /\ ms \in Seq(HostMessage) /\ Len(ms) = 1 /\ DOMAIN ms = {1}
      /\ ms[1].type = "TcpConnect" /\ ms[1].id = next_id
  <2>1. p.key[2] \in Server
    BY DEF TcpPacketInfo, TcpKey
  <2>2. TcpConnect(next_id, p.key[2]) \in HostMessage
    BY <1>1, <2>1 DEF TcpConnect, HostMessage
  <2> QED
    BY <2>2 DEF TcpConnect
<1>7. Emits(ms)
  BY <1>5, <1>6, EmitMessages DEF OnSyn, TypeInv, IInv
<1> HIDE DEF ms
<1>8. /\ Ordered(sent)'
      /\ \A n \in DOMAIN sent' :
             \/ n \in DOMAIN sent /\ sent'[n] = sent[n]
             \/ sent'[n] = ms[1]
  <2>1. CASE UNCHANGED sent
    BY <2>1 DEF ProtoInv, SentInv, Ordered, TcpClose
  <2>2. CASE sent' = sent \o ms
    <3>1. Ordered(sent \o ms)
      <4>1. \A m \in DOMAIN sent : sent[m].id # next_id
        BY <1>1 DEF ProtoInv, SentInv
      <4> QED
        BY <1>5, <1>6, <4>1, OrderedMore DEF ProtoInv, SentInv
    <3>2. Ordered(sent)'
      BY <2>2, <3>1 DEF Ordered, TcpClose
    <3> QED
      BY <1>5, <1>6, <2>2, <3>2, Concatenated
  <2> QED
    BY <1>7, <2>1, <2>2 DEF Emits
<1>9. \A m \in DOMAIN sent : sent[m].id < next_id /\ sent[m].id \in Nat
  BY <1>5, NatAssumption DEF ProtoInv, SentInv, HostMessage, ConnId
<1>10. SentInv'
  BY <1>1, <1>6, <1>8, <1>9 DEF SentInv
<1>11. ToRemoteInv'
  <2>1. CASE UNCHANGED to_remote
    BY <1>1, <1>5, <2>1, NatAssumption DEF ProtoInv, ToRemoteInv, Announced, HostMessage, ConnId
  <2>2. CASE to_remote' = to_remote \o ms
    <3>1. \A n \in DOMAIN to_remote' :
            \/ n \in DOMAIN to_remote /\ to_remote'[n] = to_remote[n]
            \/ n = Len(to_remote) + 1 /\ to_remote'[n] = ms[1]
      <4>1. \A n \in Int : n - Len(to_remote) \in DOMAIN ms => n = Len(to_remote) + 1
        BY <1>5, <1>6
      <4>2. DOMAIN (to_remote \o ms) \subseteq Int
        BY <1>5, <1>6
      <4> QED
        BY <1>5, <1>6, <2>2, <4>1, <4>2, Concatenated
    <3>2. \A n \in DOMAIN to_remote : to_remote[n].id < next_id /\ to_remote[n].id \in Nat
      BY <1>5, NatAssumption DEF ProtoInv, ToRemoteInv, HostMessage, ConnId
    <3> QED
      BY <1>1, <1>4, <1>6, <3>1, <3>2 DEF ProtoInv, ToRemoteInv, Announced
  <2> QED
    BY <1>7, <2>1, <2>2 DEF Emits
<1>12. TaskInv'
  BY <1>1 DEF ProtoInv, TaskInv, ConnId
<1>13. ResponsesInv'
  <2>1. ASSUME NEW n \in DOMAIN responses, responses[n].type = "TcpConnected"
        PROVE  responses[n].id # next_id
    BY <1>4, <2>1 DEF ProtoInv, ResponsesInv, Announced
  <2> QED
    BY <1>2, <1>3, <2>1 DEF ProtoInv, ResponsesInv, Announced, SynSent
<1>14. TableInv'
  <2>1. ASSUME NEW k \in DOMAIN tcp_by_key', ~SynSent(k)'
        PROVE  Announced(tcp_by_key[k].id)'
    BY <1>2, <1>3, <2>1 DEF ProtoInv, TableInv, SynSent, Announced
  <2>2. ASSUME NEW k \in DOMAIN tcp_by_key',
               tcp_by_key'[k].state \in {"SynSent", "Established"},
               NEW n \in DOMAIN sent', sent'[n] = TcpClose(tcp_by_key'[k].id)
        PROVE  FALSE
    <3>0. sent'[n].type = "TcpClose" /\ sent'[n].id = tcp_by_key'[k].id
      BY <2>2 DEF TcpClose
    <3>1. n \in DOMAIN sent /\ sent'[n] = sent[n]
      BY <1>6, <1>8, <3>0
    <3>2. k # p.key
      BY <1>1, <1>2, <1>3, <1>9, <3>0, <3>1
    <3> QED
      BY <1>2, <2>2, <3>1, <3>2 DEF ProtoInv, TableInv
  <2> QED
    BY <2>1, <2>2 DEF TableInv, TcpClose
<1> QED
  BY <1>10, <1>11, <1>12, <1>13, <1>14 DEF ProtoInv

(* A step of the remote: no task starts or goes back to connecting.         *)
TasksGoOn ==
  /\ task' \in [ConnId -> R!TaskState]
  /\ \A i \in ConnId : (task'[i] = "none") <=> (task[i] = "none")
  /\ \A i \in ConnId : Announced(i) => Announced(i)'

(* Such a step keeps the invariant, when a TcpConnected is sent by a task   *)
(* that announces itself with it.                                           *)
LEMMA ProtoRemote ==
  ASSUME TypeInv, ProtoInv, TasksGoOn, UNCHANGED <<hostVars, sent>>,
         \/ UNCHANGED responses
         \/ \E m \in RemoteMessage :
              /\ responses' = Append(responses, m)
              /\ m.type = "TcpConnected" => ~Announced(m.id) /\ Announced(m.id)'
  PROVE  ProtoInv'
<1>1. UNCHANGED <<tcp_by_key, to_remote, next_id, sent>>
  BY DEF hostVars, natVars
<1>2. SentInv' /\ TaskInv'
  BY <1>1 DEF ProtoInv, SentInv, Ordered, TaskInv, TasksGoOn, TcpClose
<1>3. ToRemoteInv'
  <2>1. \A n \in DOMAIN to_remote : to_remote[n].id \in ConnId
    BY DEF TypeInv, IInv, ChannelTypeOK, HostMessage
  <2> QED
    BY <1>1, <2>1 DEF ProtoInv, ToRemoteInv, TasksGoOn, Announced
<1>4. TableInv'
  <2>1. \A k \in DOMAIN tcp_by_key : tcp_by_key[k].id \in ConnId
    BY DEF TypeInv, IInv, NatIInv, NatTypeOK, TcpConnection
  <2> QED
    BY <1>1, <2>1 DEF ProtoInv, TableInv, TasksGoOn, Announced, SynSent, TcpClose
<1>5. \A n \in DOMAIN responses : responses[n].id \in ConnId
  BY DEF TypeInv, RemoteInv, RemoteMessage
<1>6. CASE UNCHANGED responses
  <2>1. ResponsesInv'
    BY <1>1, <1>5, <1>6 DEF ProtoInv, ResponsesInv, TasksGoOn, Announced, SynSent
  <2> QED
    BY <1>2, <1>3, <1>4, <2>1 DEF ProtoInv
<1>7. ASSUME NEW r \in RemoteMessage, responses' = Append(responses, r),
             r.type = "TcpConnected" => ~Announced(r.id) /\ Announced(r.id)'
      PROVE  ProtoInv'
  <2>1. responses \in Seq(RemoteMessage)
    BY DEF TypeInv, RemoteInv
  <2>2. \A n \in DOMAIN responses' :
          \/ n \in DOMAIN responses /\ responses'[n] = responses[n]
          \/ n = Len(responses) + 1 /\ responses'[n] = r
    BY <1>7, <2>1
  <2>3. r.id \in ConnId
    BY DEF RemoteMessage
  <2>4. ASSUME NEW n \in DOMAIN responses', responses'[n].type = "TcpConnected"
        PROVE  /\ Announced(responses[n].id)'
               /\ \A k \in DOMAIN tcp_by_key' :
                    tcp_by_key'[k].id = responses'[n].id => SynSent(k)'
    <3>1. CASE n \in DOMAIN responses /\ responses'[n] = responses[n]
      BY <1>1, <1>5, <2>4, <3>1 DEF ProtoInv, ResponsesInv, TasksGoOn, Announced, SynSent
    <3>2. CASE responses'[n] = r
      BY <1>1, <1>7, <2>4, <3>2 DEF ProtoInv, TableInv, Announced, SynSent
    <3> QED
      BY <2>2, <3>1, <3>2
  <2>5. ASSUME NEW n \in DOMAIN responses, responses[n].type = "TcpConnected",
               r.type = "TcpConnected"
        PROVE  responses[n].id # r.id
    BY <1>7, <2>5 DEF ProtoInv, ResponsesInv
  <2>6. ASSUME NEW m \in DOMAIN responses', NEW n \in DOMAIN responses',
               responses'[m].type = "TcpConnected", responses'[n].type = "TcpConnected",
               responses'[m].id = responses'[n].id
        PROVE  m = n
    BY <2>2, <2>5, <2>6 DEF ProtoInv, ResponsesInv
  <2>7. ResponsesInv'
    BY <2>4, <2>6 DEF ResponsesInv
  <2> QED
    BY <1>2, <1>3, <1>4, <2>7 DEF ProtoInv
<1> QED
  BY <1>6, <1>7

(* Each step of a task is one of them.                                      *)
LEMMA GotoGoesOn ==
  ASSUME TypeInv, NEW i \in ConnId, NEW next \in R!TaskState, R!Goto(i, next),
         task[i] # "none", next # "none",
         Announced(i) => next \notin {"connecting", "announcing", "refused"}
  PROVE  TasksGoOn /\ task'[i] = next
<1>1. task \in [ConnId -> R!TaskState]
  BY DEF TypeInv, RemoteInv
<1> QED
  BY <1>1 DEF R!Goto, TasksGoOn, Announced

(* So a task's steps keep the invariant.                                    *)
LEMMA ProtoTask ==
  ASSUME TypeInv, ProtoInv, NEW i \in ConnId, UNCHANGED <<hostVars, sent>>,
         \/ R!TaskSteps(i) \/ R!Connects(i) \/ R!DestEof(i) \/ R!DestFails(i)
         \/ R!WriteAll(i) \/ \E d \in Payload : R!ReadFromDest(i, d)
  PROVE  ProtoInv'
<1> USE DEF R!At, R!TaskState
<1>1. /\ R!Connected(i) \in RemoteMessage /\ R!Closed(i) \in RemoteMessage
      /\ R!Error(i) \in RemoteMessage
      /\ \A d \in Payload : R!Data(i, d) \in RemoteMessage
      /\ R!Connected(i).id = i /\ R!Closed(i).type # "TcpConnected"
      /\ R!Error(i).type # "TcpConnected"
      /\ \A d \in Payload : R!Data(i, d).type # "TcpConnected"
  BY ResponseTypes DEF R!Connected, R!Closed, R!Error, R!Data
<1>2. hand[i] \in Payload
  BY DEF TypeInv, RemoteInv
<1>3. CASE R!Announce(i)
  <2>1. TasksGoOn /\ task'[i] = "inserting" /\ task[i] = "announcing"
    BY <1>3, GotoGoesOn DEF R!Announce, Announced
  <2>2. responses' = Append(responses, R!Connected(i))
    BY <1>3 DEF R!Announce, R!Respond
  <2>3. ~Announced(i) /\ Announced(i)'
    BY <2>1 DEF Announced
  <2> HIDE DEF Announced
  <2> QED
    BY <1>1, <2>1, <2>2, <2>3, ProtoRemote
<1>4. CASE R!Refuse(i) \/ R!SendData(i) \/ R!SendError(i) \/ R!SendClosed(i)
  <2>1. TasksGoOn
    BY <1>4, GotoGoesOn DEF R!Refuse, R!SendData, R!SendError, R!SendClosed, Announced
  <2>2. \E m \in RemoteMessage :
          responses' = Append(responses, m) /\ m.type # "TcpConnected"
    BY <1>1, <1>2, <1>4 DEF R!Refuse, R!SendData, R!SendError, R!SendClosed, R!Respond
  <2> QED
    BY <2>1, <2>2, ProtoRemote
<1>5. CASE \/ R!InsertHandle(i) \/ R!TakeFromHost(i) \/ R!ChannelClosed(i)
           \/ R!RemoveHandle(i) \/ R!Connects(i) \/ R!DestEof(i)
           \/ R!DestFails(i) \/ R!WriteAll(i) \/ \E d \in Payload : R!ReadFromDest(i, d)
  <2>1. UNCHANGED responses
    BY <1>5 DEF R!InsertHandle, R!TakeFromHost, R!ChannelClosed, R!RemoveHandle,
                R!Connects, R!DestEof, R!DestFails, R!WriteAll, R!ReadFromDest
  <2>2. TasksGoOn
    <3>1. CASE R!InsertHandle(i) \/ R!TakeFromHost(i) \/ R!ChannelClosed(i)
               \/ R!RemoveHandle(i)
      BY <3>1, GotoGoesOn DEF R!InsertHandle, R!TakeFromHost, R!ChannelClosed,
                              R!RemoveHandle, Announced
    <3>2. CASE R!Connects(i)
      BY <3>2, GotoGoesOn DEF R!Connects, Announced
    <3>3. CASE \/ R!DestEof(i) \/ R!DestFails(i) \/ R!WriteAll(i)
               \/ \E d \in Payload : R!ReadFromDest(i, d)
      BY <3>3, GotoGoesOn DEF R!DestEof, R!DestFails, R!WriteAll, R!ReadFromDest, Announced
    <3> QED
      BY <1>5, <3>1, <3>2, <3>3
  <2> QED
    BY <2>1, <2>2, ProtoRemote
<1> QED
  BY <1>3, <1>4, <1>5 DEF R!TaskSteps

(* The remote takes a message of the host.                                  *)
LEMMA ProtoRemoteTakes ==
  ASSUME TypeInv, ProtoInv, RemoteTakes
  PROVE  ProtoInv'
<1> DEFINE m == Head(to_remote)
<1>1. /\ to_remote \in Seq(HostMessage) /\ to_remote # <<>>
      /\ to_remote' = Tail(to_remote)
      /\ UNCHANGED <<tcp_by_key, next_id, sent, responses>>
  BY DEF RemoteTakes, SendToRemote, R!HandleHostMessage, R!OnTcpConnect, R!OnTcpData,
         R!OnTcpClose, TypeInv, IInv, ChannelTypeOK, natVars
<1>2. /\ m \in HostMessage /\ m = to_remote[1] /\ 1 \in DOMAIN to_remote
      /\ \A n \in DOMAIN to_remote' : /\ n \in Nat /\ n + 1 \in DOMAIN to_remote
                                      /\ n + 1 # 1 /\ to_remote'[n] = to_remote[n + 1]
  <2>1. \A n \in Nat : n \in DOMAIN Tail(to_remote) => n + 1 # 1
    BY <1>1
  <2> QED
    BY <1>1, <2>1, HeadTail
<1>3. task \in [ConnId -> R!TaskState] /\ m.id \in ConnId
  BY <1>2 DEF TypeInv, RemoteInv, HostMessage
<1>4. /\ task' \in [ConnId -> R!TaskState]
      /\ \A i \in ConnId : Announced(i) => Announced(i)'
      /\ \A i \in ConnId : task'[i] # "none" => task[i] # "none" \/ i = m.id
      /\ \A i \in ConnId : task'[i] # task[i] => m.type = "TcpConnect" /\ i = m.id
  <2>1. CASE UNCHANGED task
    BY <1>3, <2>1 DEF Announced
  <2>2. CASE R!OnTcpConnect(m)
    <3>1. task[m.id] = "none" /\ m.type = "TcpConnect"
      BY <1>2, <2>2 DEF R!OnTcpConnect, ProtoInv, ToRemoteInv
    <3>2. task' = [task EXCEPT ![m.id] = "connecting"]
      BY <2>2 DEF R!OnTcpConnect, R!Goto
    <3> HIDE DEF m
    <3> QED
      BY <1>3, <3>1, <3>2 DEF Announced, R!TaskState
  <2> QED
    BY <2>1, <2>2 DEF RemoteTakes, R!HandleHostMessage, R!OnTcpData, R!OnTcpClose
<1>5. m.id < next_id
  BY <1>2 DEF ProtoInv, ToRemoteInv
<1> HIDE DEF m
<1>6. SentInv' /\ TaskInv'
  BY <1>1, <1>4, <1>5 DEF ProtoInv, SentInv, Ordered, TaskInv, TcpClose
<1>7. TableInv'
  <2>1. \A k \in DOMAIN tcp_by_key : tcp_by_key[k].id \in ConnId
    BY DEF TypeInv, IInv, NatIInv, NatTypeOK, TcpConnection
  <2> QED
    BY <1>1, <1>4, <2>1 DEF ProtoInv, TableInv, Announced, SynSent, TcpClose
<1>8. ResponsesInv'
  <2>1. \A n \in DOMAIN responses : responses[n].id \in ConnId
    BY DEF TypeInv, RemoteInv, RemoteMessage
  <2> QED
    BY <1>1, <1>4, <2>1 DEF ProtoInv, ResponsesInv, Announced, SynSent
<1>9. ToRemoteInv'
  <2>1. ASSUME NEW n \in DOMAIN to_remote'
        PROVE  /\ to_remote'[n].id < next_id
               /\ to_remote'[n].type = "TcpConnect" => task'[to_remote'[n].id] = "none"
               /\ to_remote'[n].type # "TcpConnect" => Announced(to_remote[n].id)'
    <3>1. n + 1 \in DOMAIN to_remote /\ to_remote'[n] = to_remote[n + 1] /\ n + 1 # 1
      BY <1>2, <2>1
    <3>2. to_remote[n + 1].id \in ConnId
      BY <1>1, <3>1 DEF HostMessage
    <3>3. ~(m.type = "TcpConnect" /\ to_remote[n + 1].type = "TcpConnect"
            /\ to_remote[n + 1].id = m.id)
      BY <1>2, <3>1 DEF ProtoInv, ToRemoteInv
    <3> QED
      BY <1>4, <3>1, <3>2, <3>3 DEF ProtoInv, ToRemoteInv, Announced
  <2>2. ASSUME NEW i \in DOMAIN to_remote', NEW j \in DOMAIN to_remote',
               to_remote'[i].type = "TcpConnect", to_remote'[j].type = "TcpConnect",
               to_remote'[i].id = to_remote'[j].id
        PROVE  i = j
    <3>1. i \in Nat /\ j \in Nat /\ i + 1 = j + 1
      BY <1>2, <2>2 DEF ProtoInv, ToRemoteInv
    <3> QED
      BY <3>1
  <2> QED
    BY <1>1, <2>1, <2>2 DEF ToRemoteInv
<1> QED
  BY <1>6, <1>7, <1>8, <1>9 DEF ProtoInv

-----------------------------------------------------------------------------
(* One SYN per connection attempt.  A SYN on its way finds no entry, and    *)
(* until its connection is established the application sends nothing else.  *)
Syn(n) == "syn" \in from_tun[n].flags

SynPending(k) == \E n \in DOMAIN from_tun : from_tun[n].key = k /\ Syn(n)

SynInv ==
  /\ \A n \in DOMAIN from_tun : Syn(n) =>
       /\ app[from_tun[n].key].syns = 1
       /\ from_tun[n].key \notin DOMAIN tcp_by_key
  /\ \A m, n \in DOMAIN from_tun :
       Syn(m) /\ Syn(n) /\ from_tun[m].key = from_tun[n].key => m = n
  /\ \A k \in DOMAIN tcp_by_key : app[k].syns = 1

Fresh(k) == app[k].syns = 0 \/ SynPending(k) \/ SynSent(k)

FreshInv ==
  \A k \in TcpKey : Fresh(k) =>
    /\ app[k].st \notin {"open", "gone"}
    /\ \A n \in DOMAIN from_tun : from_tun[n].key = k => "rst" \notin from_tun[n].flags
    /\ \A n \in DOMAIN to_tun : to_tun[n].key = k => "syn" \notin to_tun[n].flags

(* Steps that send neither a SYN nor a reset of a fresh connection, nor     *)
(* open one.                                                                *)
AppQuiet ==
  /\ UNCHANGED tcp_by_key
  /\ \A k \in TcpKey : /\ app'[k].syns = app[k].syns
                       /\ Fresh(k) => app'[k].st \notin {"open", "gone"}
  /\ \A n \in DOMAIN from_tun' :
       \/ n \in DOMAIN from_tun /\ from_tun'[n] = from_tun[n]
       \/ /\ from_tun'[n].key \in TcpKey /\ "syn" \notin from_tun'[n].flags
          /\ "rst" \in from_tun'[n].flags => app[from_tun'[n].key].st \in {"open", "gone"}
  /\ \A n \in DOMAIN to_tun' : \E m \in DOMAIN to_tun : to_tun'[n] = to_tun[m]

(* The keys that occur.                                                     *)
LEMMA KeysOfType ==
  ASSUME TypeInv
  PROVE  /\ \A n \in DOMAIN from_tun : from_tun[n].key \in TcpKey
         /\ DOMAIN tcp_by_key \subseteq TcpKey
<1>1. from_tun \in Seq(TcpPacketInfo)
  BY DEF TypeInv, EnvInv
<1>2. \A n \in DOMAIN from_tun : from_tun[n] \in TcpPacketInfo
  BY <1>1
<1>3. \A p \in TcpPacketInfo : p.key \in TcpKey
  BY DEF TcpPacketInfo
<1>4. DOMAIN tcp_by_key \subseteq TcpKey
  BY DEF TypeInv, IInv, NatIInv, NatTypeOK
<1> QED
  BY <1>2, <1>3, <1>4

(* Such steps keep the invariant.                                           *)
LEMMA QuietKeeps ==
  ASSUME TypeInv, SynInv, FreshInv, AppQuiet
  PROVE  SynInv' /\ FreshInv'
<1>1. /\ \A n \in DOMAIN from_tun : from_tun[n].key \in TcpKey
      /\ DOMAIN tcp_by_key \subseteq TcpKey
  BY KeysOfType
<1>2. \A n \in DOMAIN from_tun' : "syn" \in from_tun'[n].flags =>
        n \in DOMAIN from_tun /\ from_tun'[n] = from_tun[n]
  BY DEF AppQuiet
<1>3. SynInv'
  BY <1>1, <1>2 DEF AppQuiet, SynInv, Syn
<1>4. ASSUME NEW k \in TcpKey, Fresh(k)' PROVE Fresh(k)
  BY <1>2, <1>4 DEF AppQuiet, Fresh, SynPending, Syn, SynSent
<1>5. FreshInv'
  <2>1. ASSUME NEW k \in TcpKey, Fresh(k)'
        PROVE  /\ app'[k].st \notin {"open", "gone"}
               /\ \A n \in DOMAIN from_tun' :
                    from_tun'[n].key = k => "rst" \notin from_tun'[n].flags
               /\ \A n \in DOMAIN to_tun' :
                    to_tun'[n].key = k => "syn" \notin to_tun'[n].flags
    BY <1>4, <2>1 DEF AppQuiet, FreshInv
  <2> QED
    BY <2>1 DEF FreshInv
<1> QED
  BY <1>3, <1>5

(* The only SYN of a connection.                                            *)
LEMMA ConnectsKeeps ==
  ASSUME MaxSyns = 1, TypeInv, SynInv, FreshInv, NEW k \in TcpKey, AppConnects(k)
  PROVE  SynInv' /\ FreshInv'
<1> DEFINE s == Segment(k, {"syn"}, 0, <<>>)
<1>1. /\ app[k] \in AppEnd /\ app[k].syns = 0
      /\ \A j \in TcpKey : app[j] \in AppEnd
  BY DEF TypeInv, EnvInv, AppEnd, AppConnects
<1>2. /\ app'[k].syns = 1 /\ app'[k].st = "syn_sent"
      /\ \A j \in TcpKey : j # k => app'[j] = app[j]
  BY <1>1 DEF AppConnects, TypeInv, EnvInv, AppEnd
<1>3. from_tun' = from_tun \o <<s>> /\ from_tun \in Seq(TcpPacketInfo)
  BY DEF AppConnects, Transmit, TypeInv, EnvInv
<1>4. s.key = k /\ s.flags = {"syn"}
  BY DEF Segment
<1> HIDE DEF s
<1>5. /\ \A n \in DOMAIN from_tun' :
           \/ n \in DOMAIN from_tun /\ from_tun'[n] = from_tun[n]
           \/ n = Len(from_tun) + 1 /\ from_tun'[n] = s
  BY <1>3
<1>6. UNCHANGED <<tcp_by_key, to_tun>>
  BY DEF AppConnects, AppOnly, hostVars, natVars
<1>7. /\ \A n \in DOMAIN from_tun : from_tun[n].key \in TcpKey
      /\ DOMAIN tcp_by_key \subseteq TcpKey
  BY KeysOfType
<1>8. k \notin DOMAIN tcp_by_key /\ ~SynPending(k)
  BY <1>1 DEF SynInv, SynPending
<1>9. SynInv'
  <2>1. ASSUME NEW n \in DOMAIN from_tun', Syn(n)'
        PROVE  /\ app'[from_tun'[n].key].syns = 1
               /\ from_tun'[n].key \notin DOMAIN tcp_by_key'
    BY <1>2, <1>4, <1>5, <1>6, <1>7, <1>8, <2>1 DEF SynInv, Syn
  <2>2. ASSUME NEW m \in DOMAIN from_tun', NEW n \in DOMAIN from_tun', Syn(m)', Syn(n)',
               from_tun'[m].key = from_tun'[n].key
        PROVE  m = n
    BY <1>4, <1>5, <1>8, <2>2 DEF SynInv, Syn, SynPending
  <2>3. \A j \in DOMAIN tcp_by_key' : app'[j].syns = 1
    BY <1>2, <1>6, <1>7, <1>8 DEF SynInv
  <2> QED
    BY <2>1, <2>2, <2>3 DEF SynInv
<1>10. FreshInv'
  <2>1. ASSUME NEW j \in TcpKey, Fresh(j)'
        PROVE  Fresh(j) /\ app'[j].st \notin {"open", "gone"}
    <3>1. CASE j = k
      BY <1>1, <1>2, <3>1 DEF Fresh
    <3>2. CASE j # k
      <4>1. SynPending(j)' => SynPending(j)
        BY <1>4, <1>5, <3>2 DEF SynPending, Syn
      <4>2. Fresh(j)
        BY <1>2, <1>6, <2>1, <3>2, <4>1 DEF Fresh, SynSent
      <4> QED
        BY <1>2, <3>2, <4>2 DEF FreshInv
    <3> QED
      BY <3>1, <3>2
  <2> QED
    BY <1>4, <1>5, <1>6, <2>1 DEF FreshInv
<1> QED
  BY <1>9, <1>10

(* A segment that is no SYN, and a reset only from a connection that was    *)
(* opened.                                                                  *)
LEMMA TransmitQuiet ==
  ASSUME from_tun \in Seq(TcpPacketInfo), NEW k \in TcpKey, NEW flags \in SUBSET Flag,
         NEW n, NEW d, "syn" \notin flags,
         "rst" \in flags => app[k].st \in {"open", "gone"},
         Transmit(<<Segment(k, flags, n, d)>>)
  PROVE  \A j \in DOMAIN from_tun' :
           \/ j \in DOMAIN from_tun /\ from_tun'[j] = from_tun[j]
           \/ /\ from_tun'[j].key \in TcpKey /\ "syn" \notin from_tun'[j].flags
              /\ "rst" \in from_tun'[j].flags => app[from_tun'[j].key].st \in {"open", "gone"}
<1> DEFINE s == Segment(k, flags, n, d)
<1>1. s.key = k /\ s.flags = flags
  BY DEF Segment
<1>2. from_tun' = from_tun \o <<s>>
  BY DEF Transmit
<1> HIDE DEF s
<1> QED
  BY <1>1, <1>2

(* The applications' other steps are quiet.                                 *)
LEMMA AppStepsQuiet ==
  ASSUME TypeInv, SynInv, FreshInv, NEW k \in TcpKey,
         \/ AppSends(k) \/ AppCloses(k) \/ AppSendsAndCloses(k)
         \/ AppResets(k) \/ AppRetransmits(k)
  PROVE  AppQuiet
<1> USE DEF Flag
<1>1. /\ from_tun \in Seq(TcpPacketInfo) /\ to_tun \in Seq(TcpPacket)
      /\ app \in [TcpKey -> AppEnd]
  BY DEF TypeInv, EnvInv, IInv, ChannelTypeOK
<1>2. UNCHANGED <<tcp_by_key, to_tun>> /\ app[k].st = "open"
  BY DEF AppSends, AppCloses, AppSendsAndCloses, AppResets, AppRetransmits, AppOnly,
         hostVars, natVars
<1>3. ~Fresh(k)
  BY <1>2 DEF FreshInv
<1>4. \A j \in TcpKey : app'[j].syns = app[j].syns /\ (j # k => app'[j] = app[j])
  BY <1>1 DEF AppSends, AppCloses, AppSendsAndCloses, AppResets, AppRetransmits, AppEnd
<1>5. \A j \in DOMAIN from_tun' :
        \/ j \in DOMAIN from_tun /\ from_tun'[j] = from_tun[j]
        \/ /\ from_tun'[j].key \in TcpKey /\ "syn" \notin from_tun'[j].flags
           /\ "rst" \in from_tun'[j].flags => app[from_tun'[j].key].st \in {"open", "gone"}
  BY <1>1, <1>2, TransmitQuiet
  DEF AppSends, AppCloses, AppSendsAndCloses, AppResets, AppRetransmits
<1> QED
  BY <1>2, <1>3, <1>4, <1>5 DEF AppQuiet, FreshInv

(* So is the arrival of a packet: a SYN only answers a connection that the  *)
(* host has established.                                                    *)
LEMMA AppReceivesQuiet ==
  ASSUME TypeInv, SynInv, FreshInv, AppReceives
  PROVE  AppQuiet
<1> USE DEF Flag
<1> DEFINE p == Head(to_tun)
           k == p.key
<1>1. /\ from_tun \in Seq(TcpPacketInfo) /\ app \in [TcpKey -> AppEnd]
      /\ to_tun \in Seq(TcpPacket)
  BY DEF TypeInv, EnvInv, IInv, ChannelTypeOK
<1>2. /\ UNCHANGED tcp_by_key /\ to_tun # <<>> /\ to_tun' = Tail(to_tun)
      /\ \/ AppOpens(k, p) \/ AppTakes(k, p) \/ AppIsReset(k, p)
         \/ AppRefuses(k, p) \/ AppIgnores(k, p)
  BY DEF AppReceives, WriteToTun, natVars
<1>3. /\ p \in TcpPacket /\ p = to_tun[1] /\ 1 \in DOMAIN to_tun
      /\ \A n \in DOMAIN to_tun' : n + 1 \in DOMAIN to_tun /\ to_tun'[n] = to_tun[n + 1]
  BY <1>1, <1>2, HeadTail
<1>4. k \in TcpKey
  BY <1>3 DEF TcpPacket
<1>5. \A n \in DOMAIN to_tun' : \E m \in DOMAIN to_tun : to_tun'[n] = to_tun[m]
  BY <1>3
<1>6. "syn" \in p.flags => ~Fresh(k)
  BY <1>3, <1>4 DEF FreshInv
<1> HIDE DEF p, k
<1>7. /\ \A j \in TcpKey : app'[j].syns = app[j].syns /\ (j # k => app'[j] = app[j])
      /\ Fresh(k) => app'[k].st \notin {"open", "gone"}
  <2>1. CASE AppOpens(k, p)
    BY <1>1, <1>4, <1>6, <2>1 DEF AppOpens, AppEnd
  <2>2. CASE AppTakes(k, p)
    <3>0. ~Fresh(k)
      BY <1>4, <2>2 DEF AppTakes, FreshInv
    <3>1. PICK a : app' = [app EXCEPT ![k] = a] /\ a.syns = app[k].syns
      <4>1. app[k] \in AppEnd
        BY <1>1, <1>4
      <4>2. ASSUME NEW u PROVE [app[k] EXCEPT !.una = u].syns = app[k].syns
        BY <4>1 DEF AppEnd
      <4>3. ASSUME NEW u, NEW r, NEW g, NEW f
            PROVE  [[app[k] EXCEPT !.una = u] EXCEPT !.rcv_nxt = r, !.got = g,
                      !.rfin = f].syns = app[k].syns
        BY <4>1 DEF AppEnd
      <4> DEFINE acked == [app[k] EXCEPT !.una = AckUpTo(app[k], p)]
                 fin == "fin" \in p.flags
                 taken == [acked EXCEPT
                             !.rcv_nxt = WrappingAdd(@, Len(p.payload) + IF fin THEN 1 ELSE 0),
                             !.got = @ \o p.payload,
                             !.rfin = @ \/ fin]
                 a == IF InSequence(app[k], p) THEN taken ELSE acked
      <4>4. acked.syns = app[k].syns /\ taken.syns = app[k].syns
        BY <4>2, <4>3
      <4>5. app' = [app EXCEPT ![k] = a]
        BY <2>2 DEF AppTakes
      <4> HIDE DEF acked, taken
      <4>6. a.syns = app[k].syns
        BY <4>4
      <4> QED
        BY <4>5, <4>6
    <3> QED
      BY <1>1, <1>4, <3>0, <3>1
  <2>3. CASE AppIsReset(k, p)
    BY <1>1, <1>4, <2>3 DEF AppIsReset, AppEnd, FreshInv
  <2>4. CASE AppRefuses(k, p) \/ AppIgnores(k, p)
    BY <1>4, <2>4 DEF AppRefuses, AppIgnores, FreshInv
  <2> QED
    BY <1>2, <2>1, <2>2, <2>3, <2>4
<1>8. \A j \in DOMAIN from_tun' :
        \/ j \in DOMAIN from_tun /\ from_tun'[j] = from_tun[j]
        \/ /\ from_tun'[j].key \in TcpKey /\ "syn" \notin from_tun'[j].flags
           /\ "rst" \in from_tun'[j].flags => app[from_tun'[j].key].st \in {"open", "gone"}
  <2>1. CASE Transmit(<<Ack(k)>>)
    BY <1>1, <1>4, <2>1, TransmitQuiet DEF Ack
  <2>2. CASE UNCHANGED from_tun
    BY <2>2
  <2>3. CASE Transmit(<<>>)
    <3>1. from_tun' = from_tun
      BY <1>1, <2>3 DEF Transmit
    <3> QED
      BY <3>1
  <2>4. CASE AppRefuses(k, p)
    BY <1>1, <1>4, <2>4, TransmitQuiet DEF AppRefuses
  <2> QED
    BY <1>2, <2>1, <2>2, <2>3, <2>4 DEF AppOpens, AppTakes, AppIsReset, AppIgnores
<1> QED
  BY <1>2, <1>5, <1>7, <1>8 DEF AppQuiet, FreshInv

(* And the loss of the newest packet.                                       *)
LEMMA TunDropsQuiet ==
  ASSUME TypeInv, FreshInv, TunDrops
  PROVE  AppQuiet
<1>1. from_tun \in Seq(TcpPacketInfo) /\ from_tun # <<>>
  BY DEF TypeInv, EnvInv, TunDrops
<1>2. \A n \in DOMAIN from_tun' : n \in DOMAIN from_tun /\ from_tun'[n] = from_tun[n]
  <2>1. /\ Len(from_tun) \in Nat
        /\ from_tun' = SubSeq(from_tun, 1, Len(from_tun) - 1)
    BY <1>1 DEF TunDrops
  <2> QED
    BY <1>1, <2>1
<1>3. UNCHANGED <<tcp_by_key, to_tun, app>>
  BY DEF TunDrops, hostVars, natVars
<1> QED
  BY <1>2, <1>3 DEF AppQuiet, FreshInv

-----------------------------------------------------------------------------
(* The host's loop, and the theorems.                                       *)
ProtocolInv == TypeInv /\ IdsResolve /\ SynInv /\ FreshInv /\ ProtoInv

(* The packets left in the queue, and those the host adds to the other one. *)
LEMMA HostStepKeeps ==
  ASSUME TypeInv, SynInv, FreshInv, UNCHANGED app,
         \A n \in DOMAIN from_tun' :
           n \in Nat /\ \E d \in {0, 1} : n + d \in DOMAIN from_tun
                          /\ \A m \in DOMAIN from_tun' : /\ m + d \in DOMAIN from_tun
                                                         /\ from_tun'[m] = from_tun[m + d],
         \A k \in DOMAIN tcp_by_key' :
           /\ k \in TcpKey /\ app[k].syns = 1
           /\ \A n \in DOMAIN from_tun' : Syn(n)' => from_tun'[n].key # k,
         \A k \in TcpKey : SynSent(k)' => Fresh(k),
         \A n \in DOMAIN to_tun' :
           \/ n \in DOMAIN to_tun /\ to_tun'[n] = to_tun[n]
           \/ "syn" \notin to_tun'[n].flags
           \/ to_tun'[n].key \in TcpKey /\ ~Fresh(to_tun[n].key)'
  PROVE  SynInv' /\ FreshInv'
<1>1. \A n \in DOMAIN from_tun' : \E m \in DOMAIN from_tun : from_tun'[n] = from_tun[m]
  OBVIOUS
<1>2. SynInv'
  <2>1. \A n \in DOMAIN from_tun' : Syn(n)' =>
          /\ app'[from_tun'[n].key].syns = 1
          /\ from_tun'[n].key \notin DOMAIN tcp_by_key'
    BY <1>1 DEF SynInv, Syn
  <2>2. ASSUME NEW m \in DOMAIN from_tun', NEW n \in DOMAIN from_tun', Syn(m)', Syn(n)',
               from_tun'[m].key = from_tun'[n].key
        PROVE  m = n
    <3>1. PICK d \in {0, 1} :
            \A j \in DOMAIN from_tun' : /\ j + d \in DOMAIN from_tun
                                        /\ from_tun'[j] = from_tun[j + d]
      BY <2>2
    <3>2. m + d = n + d /\ m \in Nat /\ n \in Nat
      BY <2>2, <3>1 DEF SynInv, Syn
    <3> QED
      BY <3>2
  <2> QED
    BY <2>1, <2>2 DEF SynInv
<1>3. ASSUME NEW k \in TcpKey, Fresh(k)' PROVE Fresh(k)
  <2>1. SynPending(k)' => SynPending(k)
    BY <1>1 DEF SynPending, Syn
  <2> QED
    BY <1>3, <2>1 DEF Fresh
<1>4. FreshInv'
  <2>1. ASSUME NEW k \in TcpKey, Fresh(k)'
        PROVE  /\ app'[k].st \notin {"open", "gone"}
               /\ \A n \in DOMAIN from_tun' :
                    from_tun'[n].key = k => "rst" \notin from_tun'[n].flags
               /\ \A n \in DOMAIN to_tun' :
                    to_tun'[n].key = k => "syn" \notin to_tun'[n].flags
    BY <1>1, <1>3, <2>1 DEF FreshInv
  <2> QED
    BY <2>1 DEF FreshInv
<1> QED
  BY <1>2, <1>4

(* The host reads a packet.                                                 *)
LEMMA HostReadsKeeps ==
  ASSUME ProtocolInv, HostReads
  PROVE  ProtocolInv'
<1> DEFINE p == Head(from_tun)
<1>0. TypeInv /\ IdsResolve /\ SynInv /\ FreshInv /\ ProtoInv
  BY DEF ProtocolInv
<1>1. TypeInv' /\ p \in TcpPacketInfo /\ from_tun \in Seq(TcpPacketInfo)
  BY <1>0, HostReadsType DEF TypeInv, EnvInv
<1>2. /\ from_tun # <<>> /\ from_tun' = Tail(from_tun) /\ HandleOutboundTcp(p) /\ Recorded
      /\ UNCHANGED <<app, task, responses>>
  BY DEF HostReads, Recorded, remoteVars
<1>3. /\ p = from_tun[1] /\ 1 \in DOMAIN from_tun
      /\ \A n \in DOMAIN from_tun' : /\ n \in Nat /\ n + 1 \in DOMAIN from_tun
                                     /\ n + 1 # 1 /\ from_tun'[n] = from_tun[n + 1]
  <2>1. \A n \in Nat : n \in DOMAIN Tail(from_tun) => n + 1 # 1
    BY <1>1
  <2> QED
    BY <1>1, <1>2, <2>1, HeadTail
<1>4. p.key \in TcpKey /\ DOMAIN tcp_by_key \subseteq TcpKey
  BY <1>0, <1>1, KeysOfType DEF TcpPacketInfo
<1>5. sent \in Seq(HostMessage) /\ IInv /\ ChannelTypeOK
  BY <1>0 DEF TypeInv, EnvInv, IInv
<1>6. "rst" \in p.flags => ~SynSent(p.key)
  BY <1>0, <1>3, <1>4 DEF FreshInv, Fresh
<1> HIDE DEF p
<1>7. OnSyn(p) \/ Handled
  BY <1>0, <1>1, <1>2, <1>5, <1>6, OutboundHandled DEF SynSent
<1>8. CASE Handled
  <2>1. ProtoInv'
    BY <1>0, <1>2, <1>8, ProtoHandled
  <2>2. IdsResolve' /\ Follows /\ NoNewSyn
    BY <1>8 DEF Handled
  <2>3. \A k \in DOMAIN tcp_by_key' :
          /\ k \in TcpKey /\ app[k].syns = 1
          /\ \A n \in DOMAIN from_tun' : Syn(n)' => from_tun'[n].key # k
    BY <1>0, <1>3, <1>4, <2>2 DEF Follows, SynInv, Syn
  <2>4. \A k \in TcpKey : SynSent(k)' => Fresh(k)
    BY <2>2 DEF Follows, SynSent, Fresh
  <2>5. SynInv' /\ FreshInv'
    BY <1>0, <1>2, <1>3, <2>2, <2>3, <2>4, HostStepKeeps DEF NoNewSyn
  <2> QED
    BY <1>1, <2>1, <2>2, <2>5 DEF ProtocolInv
<1>9. CASE OnSyn(p)
  <2>1. Syn(1) /\ p.key \notin DOMAIN tcp_by_key /\ app[p.key].syns = 1
    BY <1>0, <1>3, <1>9 DEF OnSyn, SynInv, Syn
  <2>2. ProtoInv'
    BY <1>0, <1>1, <1>2, <1>9, <2>1, ProtoCreates
  <2>3. IdsResolve'
    BY <1>0, <1>5, <1>9, <2>1, IdsCreate DEF OnSyn
  <2>4. NoNewSyn
    <3>1. <<>> \in Seq(TcpPacket) /\ DOMAIN <<>> = {}
      OBVIOUS
    <3> QED
      BY <1>5, <1>9, <3>1, EmitPackets DEF OnSyn
  <2>5. /\ DOMAIN tcp_by_key' = DOMAIN tcp_by_key \cup {p.key}
        /\ \A k \in DOMAIN tcp_by_key : k # p.key => tcp_by_key'[k] = tcp_by_key[k]
    BY <1>9 DEF OnSyn, CreateTcpConnection, Insert
  <2>6. \A k \in DOMAIN tcp_by_key' :
          /\ k \in TcpKey /\ app[k].syns = 1
          /\ \A n \in DOMAIN from_tun' : Syn(n)' => from_tun'[n].key # k
    BY <1>0, <1>3, <1>4, <2>1, <2>5 DEF SynInv, Syn
  <2>7. \A k \in TcpKey : SynSent(k)' => Fresh(k)
    BY <1>3, <2>1, <2>5 DEF SynSent, Fresh, SynPending, Syn
  <2>8. SynInv' /\ FreshInv'
    BY <1>0, <1>2, <1>3, <2>4, <2>6, <2>7, HostStepKeeps DEF NoNewSyn
  <2> QED
    BY <1>1, <2>2, <2>3, <2>8 DEF ProtocolInv
<1> QED
  BY <1>7, <1>8, <1>9

(* The host takes a message.                                                *)
LEMMA HostTakesKeeps ==
  ASSUME ProtocolInv, HostTakes
  PROVE  ProtocolInv'
<1> DEFINE m == Head(responses)
<1>0. TypeInv /\ IdsResolve /\ SynInv /\ FreshInv /\ ProtoInv /\ IInv
  BY DEF ProtocolInv, TypeInv
<1>1. TypeInv' /\ m \in RemoteMessage
  BY <1>0, HostTakesType
<1>2. /\ responses # <<>> /\ responses' = Tail(responses) /\ HandleRemoteMessage(m)
      /\ UNCHANGED <<app, from_tun, task, sent>>
  BY DEF HostTakes, R!WriteResponse
<1>3. DOMAIN tcp_by_key \subseteq TcpKey /\ \A n \in DOMAIN from_tun : n \in Nat
  <2>1. from_tun \in Seq(TcpPacketInfo)
    BY <1>0 DEF TypeInv, EnvInv
  <2> QED
    BY <1>0, <2>1, KeysOfType
<1>4. \A n \in DOMAIN from_tun : n + 0 = n
  BY <1>3
<1>5. CASE Opens(m)
  <2>1. ProtoInv' /\ IdsResolve'
    BY <1>0, <1>2, <1>5, ProtoOpens DEF Opens
  <2>2. PICK key \in TcpKey : key \in DOMAIN tcp_by_key /\ key = tcp_by_id[m.id]
    BY <1>0, <1>3, <1>5 DEF Opens, IdsResolve
  <2>3. /\ DOMAIN tcp_by_key' = DOMAIN tcp_by_key
        /\ tcp_by_key'[key].state = "Established"
        /\ \A k \in DOMAIN tcp_by_key : k # key => tcp_by_key'[k].state = tcp_by_key[k].state
    BY <1>5, <2>2 DEF Opens
  <2>4. /\ \A k \in DOMAIN tcp_by_key' :
             /\ k \in TcpKey /\ app[k].syns = 1
             /\ \A n \in DOMAIN from_tun' : Syn(n)' => from_tun'[n].key # k
        /\ \A k \in TcpKey : SynSent(k)' => Fresh(k)
    BY <1>0, <1>2, <1>3, <2>3 DEF SynInv, Syn, SynSent, Fresh
  <2>5. ~Fresh(key)'
    BY <1>0, <1>2, <2>2, <2>3, <2>4 DEF Fresh, SynPending, Syn, SynSent
  <2>6. \A n \in DOMAIN to_tun' :
          \/ n \in DOMAIN to_tun /\ to_tun'[n] = to_tun[n]
          \/ to_tun'[n].key = key
    BY <1>5, <2>2 DEF Opens
  <2>7. \A n \in DOMAIN to_tun' :
          \/ n \in DOMAIN to_tun /\ to_tun'[n] = to_tun[n]
          \/ to_tun'[n].key \in TcpKey /\ ~Fresh(to_tun[n].key)'
    <3>1. ASSUME NEW n \in DOMAIN to_tun', to_tun'[n].key = key
          PROVE  ~Fresh(to_tun[n].key)'
      BY <2>5, <3>1 DEF Fresh, SynPending, SynSent
    <3> QED
      BY <2>2, <2>6, <3>1
  <2>8. SynInv' /\ FreshInv'
    BY <1>0, <1>2, <1>3, <1>4, <2>4, <2>7, HostStepKeeps
  <2> QED
    BY <1>1, <2>1, <2>8 DEF ProtocolInv
<1>6. CASE IdsResolve' /\ Follows /\ NoNewSyn /\ UNCHANGED to_remote
  <2>1. ProtoInv'
    BY <1>0, <1>2, <1>6, ProtoQuiet
  <2>2. /\ \A k \in DOMAIN tcp_by_key' :
             /\ k \in TcpKey /\ app[k].syns = 1
             /\ \A n \in DOMAIN from_tun' : Syn(n)' => from_tun'[n].key # k
        /\ \A k \in TcpKey : SynSent(k)' => Fresh(k)
    BY <1>0, <1>2, <1>3, <1>6 DEF Follows, SynInv, Syn, SynSent, Fresh
  <2>3. SynInv' /\ FreshInv'
    BY <1>0, <1>2, <1>3, <1>4, <1>6, <2>2, HostStepKeeps DEF NoNewSyn
  <2> QED
    BY <1>1, <1>6, <2>1, <2>3 DEF ProtocolInv
<1> HIDE DEF m
<1> QED
  BY <1>0, <1>1, <1>2, <1>5, <1>6, RemoteMessageHandled

(* Every step keeps the invariant.                                          *)
LEMMA NextProtocolInv ==
  ASSUME MaxSyns = 1, ProtocolInv, [TunnelNext]_tunnelVars
  PROVE  ProtocolInv'
<1>0. TypeInv /\ IdsResolve /\ SynInv /\ FreshInv /\ ProtoInv
  BY DEF ProtocolInv
<1>1. TypeInv'
  BY <1>0, NextTypeInv
<1>2. ASSUME UNCHANGED <<natVars, app, from_tun, to_tun>>
      PROVE  IdsResolve' /\ SynInv' /\ FreshInv'
  <2>1. UNCHANGED <<tcp_by_key, tcp_by_id, app, from_tun, to_tun>>
    BY <1>2 DEF natVars
  <2> QED
    BY <1>0, <2>1 DEF IdsResolve, SynInv, FreshInv, Fresh, SynPending, SynSent, Syn
<1>3. ASSUME UNCHANGED <<natVars, to_remote, sent, task, responses>>
      PROVE  IdsResolve' /\ ProtoInv'
  <2>1. UNCHANGED <<tcp_by_key, tcp_by_id, next_id, to_remote, sent, task, responses>>
    BY <1>3 DEF natVars
  <2> QED
    BY <1>0, <2>1 DEF IdsResolve, ProtoInv, SentInv, Ordered, ToRemoteInv, TaskInv,
      ResponsesInv, TableInv, Announced, SynSent, TcpClose
<1>4. CASE AppNext
  <2>1. UNCHANGED <<natVars, to_remote, sent, task, responses>>
    BY <1>4 DEF AppNext, AppConnects, AppSends, AppCloses, AppSendsAndCloses, AppResets,
      AppRetransmits, AppOnly, AppReceives, WriteToTun, TunDrops, hostVars, remoteVars
  <2>2. ASSUME NEW k \in TcpKey, AppConnects(k) PROVE SynInv' /\ FreshInv'
    BY <1>0, <2>2, ConnectsKeeps
  <2>3. ASSUME NEW k \in TcpKey, \/ AppSends(k) \/ AppCloses(k) \/ AppSendsAndCloses(k)
                                 \/ AppResets(k) \/ AppRetransmits(k)
        PROVE  SynInv' /\ FreshInv'
    BY <1>0, <2>3, AppStepsQuiet, QuietKeeps
  <2>4. ASSUME AppReceives \/ TunDrops PROVE SynInv' /\ FreshInv'
    BY <1>0, <2>4, AppReceivesQuiet, TunDropsQuiet, QuietKeeps
  <2>5. SynInv' /\ FreshInv'
    BY <1>4, <2>2, <2>3, <2>4 DEF AppNext
  <2> QED
    BY <1>1, <1>3, <2>1, <2>5 DEF ProtocolInv
<1>5. CASE RemoteNext
  <2>1. UNCHANGED <<natVars, app, from_tun, to_tun>>
    BY <1>5 DEF RemoteNext, RemoteTakes, SendToRemote, LoopResumes, RemoteRuns, DestAnswers,
      DestSends, DestEnds, DestAccepts, RemoteOnly, hostVars
  <2>2. ASSUME RemoteTakes PROVE ProtoInv'
    BY <1>0, <2>2, ProtoRemoteTakes
  <2>3. ASSUME LoopResumes PROVE ProtoInv'
    <3>1. UNCHANGED <<hostVars, sent, task, responses>>
      BY <2>3 DEF LoopResumes, R!LoopResumes, RemoteOnly
    <3> QED
      BY <1>3, <3>1 DEF hostVars
  <2>4. ASSUME NEW i \in ConnId,
               \/ RemoteRuns(i) \/ DestAnswers(i) \/ DestSends(i) \/ DestEnds(i)
               \/ DestAccepts(i)
        PROVE  ProtoInv'
    <3>1. UNCHANGED <<hostVars, sent>>
      BY <2>4 DEF RemoteRuns, DestAnswers, DestSends, DestEnds, DestAccepts, RemoteOnly
    <3>2. DestSends(i) => \E d \in Payload : R!ReadFromDest(i, d)
      <4>1. dest[i].sent \in Nat
        BY <1>0, TunnelAssumption DEF TypeInv, EnvInv
      <4> QED
        BY <4>1, ReadPayload DEF DestSends
    <3> QED
      BY <1>0, <2>4, <3>1, <3>2, ProtoTask
      DEF RemoteRuns, DestAnswers, DestEnds, DestAccepts
  <2>5. ProtoInv'
    BY <1>5, <2>2, <2>3, <2>4 DEF RemoteNext
  <2> QED
    BY <1>1, <1>2, <2>1, <2>5 DEF ProtocolInv
<1>6. CASE UNCHANGED tunnelVars
  <2>1. UNCHANGED <<natVars, app, from_tun, to_tun, to_remote, sent, task, responses>>
    BY <1>6 DEF tunnelVars, hostVars, remoteVars
  <2> QED
    BY <1>1, <1>2, <1>3, <2>1 DEF ProtocolInv
<1> QED
  BY <1>4, <1>5, <1>6, HostReadsKeeps, HostTakesKeeps DEF TunnelNext

(* And it holds at the start.                                               *)
LEMMA InitProtocolInv ==
  ASSUME TunnelInit
  PROVE  ProtocolInv
<1>1. TypeInv
  BY InitTypeInv
<1>2. /\ DOMAIN tcp_by_key = {} /\ DOMAIN tcp_by_id = {} /\ DOMAIN from_tun = {}
      /\ DOMAIN to_tun = {} /\ DOMAIN to_remote = {} /\ DOMAIN sent = {}
      /\ DOMAIN responses = {}
      /\ \A i \in ConnId : task[i] = "none"
      /\ \A k \in TcpKey : app[k].st = "closed"
  BY DEF TunnelInit, HostInit, NatInit, R!RemoteInit
<1>3. ProtoInv
  BY <1>2 DEF ProtoInv, SentInv, Ordered, ToRemoteInv, TaskInv, ResponsesInv, TableInv
<1>4. IdsResolve /\ SynInv /\ FreshInv
  BY <1>2 DEF IdsResolve, SynInv, FreshInv
<1> QED
  BY <1>1, <1>3, <1>4 DEF ProtocolInv

(* IdsResolve: when an application sends one SYN per connection attempt,    *)
(* every id the host still knows is the id of the connection its key holds, *)
(* so that data of the remote is numbered by its own connection             *)
(* (nat.rs:84-100, mod.rs:284).  The run tunnel_syn shows what a            *)
(* retransmitted SYN does to it.                                            *)
THEOREM OneSynIdsResolve ==
  ASSUME MaxSyns = 1
  PROVE  TunnelSpec => []IdsResolve
<1>1. TunnelInit => ProtocolInv
  BY InitProtocolInv
<1>2. ProtocolInv /\ [TunnelNext]_tunnelVars => ProtocolInv'
  BY NextProtocolInv
<1>3. ProtocolInv => IdsResolve
  BY DEF ProtocolInv
<1> QED
  BY <1>1, <1>2, <1>3, PTL DEF TunnelSpec

(* HostKeepsProtocol: the messages of the host come in the order the remote *)
(* relies on, one TcpConnect per id, data and closes only for a connection  *)
(* the remote has announced, no data after a close (mod.rs:284-296,         *)
(* :335-408).  RemoteProxy assumes it of its host; here it is a theorem.    *)
THEOREM OneSynProtocol ==
  ASSUME MaxSyns = 1
  PROVE  TunnelSpec => []HostKeepsProtocol
<1>1. TunnelInit => ProtocolInv
  BY InitProtocolInv
<1>2. ProtocolInv /\ [TunnelNext]_tunnelVars => ProtocolInv'
  BY NextProtocolInv
<1>3. ProtocolInv => HostKeepsProtocol
  BY ProtoInvGives DEF ProtocolInv
<1> QED
  BY <1>1, <1>2, <1>3, PTL DEF TunnelSpec
=============================================================================
