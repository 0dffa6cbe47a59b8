---------------------------- MODULE HostTcpProofs ----------------------------
(***************************************************************************)
(* What TLAPS proves of HostTcp for every value of its constants: the type  *)
(* invariant, and the two invariants that tie the maps of the NAT table to  *)
(* each other.                                                             *)
(*                                                                         *)
(* Neither of the latter is inductive alone.  That a closing connection     *)
(* takes no other key's id away needs KeysResolve; that a SYN which         *)
(* replaces a live key keeps it needs every id in use to lie below next_id; *)
(* IInv collects what the induction uses.                                   *)
(***************************************************************************)
EXTENDS HostTcp, SequenceTheorems, TLAPS

(* Ids in the reverse map have been handed out.                             *)
IdsBelowNext == \A i \in DOMAIN tcp_by_id : i < next_id

NatIInv ==
  /\ NatTypeOK
  /\ IdsBelowNext
  /\ KeysResolve
  /\ StaleIdsAreOlder

ChannelTypeOK ==
  /\ to_remote \in Seq(HostMessage) /\ Len(to_remote) <= HostChanCap
  /\ to_tun \in Seq(TcpPacket) /\ Len(to_tun) <= HostChanCap
  /\ loop \in {"running", "blocked"}

IInv == NatIInv /\ ChannelTypeOK

-----------------------------------------------------------------------------
(* Arithmetic modulo the sequence space stays in the sequence space.        *)
LEMMA WrappingAddType ==
  ASSUME NEW a \in Int, NEW b \in Int
  PROVE  WrappingAdd(a, b) \in SeqNum
<1>1. SeqSpace \in Nat \ {0}
  BY NatAssumption
<1>2. a + b \in Int
  OBVIOUS
<1>3. (a + b) % SeqSpace \in 0..(SeqSpace - 1)
  BY <1>1, <1>2
<1> QED
  BY <1>3 DEF WrappingAdd, SeqNum

(* 0 is a sequence number: what the lookups return for an unknown id.       *)
LEMMA ZeroSeqNum == 0 \in SeqNum
  BY NatAssumption DEF SeqNum

(* A value of the NAT table that a handler may write back: the same keys    *)
(* with the same ids, and well-typed entries.                               *)
SameIds(t) ==
  /\ t \in [DOMAIN tcp_by_key -> TcpConnection]
  /\ \A k \in DOMAIN tcp_by_key : t[k].id = tcp_by_key[k].id

(* The table itself is such a value.                                        *)
LEMMA SameIdsRefl == NatTypeOK => SameIds(tcp_by_key)
  BY DEF NatTypeOK, SameIds

(* The three in-place updates keep keys, ids and types.                     *)
LEMMA AdvanceSameIds ==
  ASSUME NEW t, SameIds(t), NEW id, NEW n \in Int
  PROVE  SameIds(AdvanceTcpSeq(t, id, n))
<1>1. CASE ~Resolves(t, id)
  BY <1>1 DEF AdvanceTcpSeq
<1>2. CASE Resolves(t, id)
  <2> DEFINE key == tcp_by_id[id]
  <2>1. key \in DOMAIN t
    BY <1>2 DEF Resolves
  <2>2. t[key] \in TcpConnection
    BY <2>1 DEF SameIds
  <2>3. t[key].seq \in Int
    BY <2>2 DEF TcpConnection, SeqNum
  <2> DEFINE seq == WrappingAdd(t[key].seq, n)
             conn == [t[key] EXCEPT !.seq = seq]
  <2>4. seq \in SeqNum
    BY <2>3, WrappingAddType
  <2> HIDE DEF seq
  <2>5. conn \in TcpConnection /\ conn.id = t[key].id
    BY <2>2, <2>4 DEF TcpConnection
  <2>6. AdvanceTcpSeq(t, id, n) = [t EXCEPT ![key] = conn]
    BY <1>2 DEF AdvanceTcpSeq, seq
  <2> HIDE DEF conn
  <2> QED
    BY <2>1, <2>5, <2>6 DEF SameIds
<1> QED
  BY <1>1, <1>2

(* An acknowledgment written back keeps keys and ids.                       *)
LEMMA UpdateAckSameIds ==
  ASSUME NEW t, SameIds(t), NEW id, NEW ack \in SeqNum
  PROVE  SameIds(UpdateTcpAck(t, id, ack))
<1>1. CASE ~Resolves(t, id)
  BY <1>1 DEF UpdateTcpAck
<1>2. CASE Resolves(t, id)
  <2> DEFINE key == tcp_by_id[id]
  <2>1. key \in DOMAIN t /\ t[key] \in TcpConnection
    BY <1>2 DEF Resolves, SameIds
  <2>2. /\ [t[key] EXCEPT !.ack = ack] \in TcpConnection
        /\ [t[key] EXCEPT !.ack = ack].id = t[key].id
    BY <2>1 DEF TcpConnection
  <2>3. UpdateTcpAck(t, id, ack) = [t EXCEPT ![key] = [@ EXCEPT !.ack = ack]]
    BY <1>2 DEF UpdateTcpAck
  <2> QED
    BY <2>1, <2>2, <2>3 DEF SameIds
<1> QED
  BY <1>1, <1>2

(* So does a state.                                                         *)
LEMMA SetStateSameIds ==
  ASSUME NEW t, SameIds(t), NEW key, NEW state \in ConnectionState
  PROVE  SameIds(SetTcpState(t, key, state))
<1>1. CASE key \notin DOMAIN t
  BY <1>1 DEF SetTcpState
<1>2. CASE key \in DOMAIN t
  <2>1. t[key] \in TcpConnection
    BY <1>2 DEF SameIds
  <2>2. /\ [t[key] EXCEPT !.state = state] \in TcpConnection
        /\ [t[key] EXCEPT !.state = state].id = t[key].id
    BY <2>1 DEF TcpConnection
  <2>3. SetTcpState(t, key, state) = [t EXCEPT ![key] = [@ EXCEPT !.state = state]]
    BY <1>2 DEF SetTcpState
  <2> QED
    BY <1>2, <2>2, <2>3 DEF SameIds
<1> QED
  BY <1>1, <1>2

-----------------------------------------------------------------------------
(* The three ways a handler writes the table preserve NatIInv.              *)

(* A handler that only updates entries in place keeps the invariant.        *)
LEMMA SetTableInv ==
  ASSUME NatIInv, NEW t, SameIds(t), SetTable(t)
  PROVE  NatIInv'
<1>1. /\ tcp_by_key' \in [DOMAIN tcp_by_key -> TcpConnection]
      /\ DOMAIN tcp_by_key' = DOMAIN tcp_by_key
      /\ \A k \in DOMAIN tcp_by_key : tcp_by_key'[k].id = tcp_by_key[k].id
      /\ UNCHANGED <<tcp_by_id, next_id>>
  BY DEF SetTable, SameIds
<1>2. NatTypeOK'
  BY <1>1 DEF NatIInv, NatTypeOK
<1>3. IdsBelowNext'
  BY <1>1 DEF NatIInv, IdsBelowNext
<1>4. KeysResolve'
  BY <1>1 DEF NatIInv, KeysResolve
<1>5. StaleIdsAreOlder'
  BY <1>1 DEF NatIInv, StaleIdsAreOlder
<1> QED
  BY <1>2, <1>3, <1>4, <1>5 DEF NatIInv

(* A new connection takes an id nobody holds, so it takes no entry away.    *)
LEMMA CreateInv ==
  ASSUME NatIInv, NEW key \in TcpKey, NEW isn \in SeqNum,
         CreateTcpConnection(key, isn)
  PROVE  NatIInv'
<1> DEFINE conn == [id |-> next_id, state |-> "SynSent", seq |-> HostIsn,
                    ack |-> WrappingAdd(isn, 1)]
<1>1. next_id \in ConnId
  BY NatAssumption DEF CreateTcpConnection, NatIInv, NatTypeOK, ConnId
<1>2. WrappingAdd(isn, 1) \in SeqNum
  BY WrappingAddType DEF SeqNum
<1>3. conn \in TcpConnection
  BY <1>1, <1>2, NatAssumption DEF TcpConnection, ConnectionState, SeqNum
<1>4. tcp_by_key' = [x \in DOMAIN tcp_by_key \cup {key} |->
                       IF x = key THEN conn ELSE tcp_by_key[x]]
  BY DEF CreateTcpConnection, NewConnection, Insert
<1>5. tcp_by_id' = [x \in DOMAIN tcp_by_id \cup {next_id} |->
                      IF x = next_id THEN key ELSE tcp_by_id[x]]
  BY DEF CreateTcpConnection, Insert
<1>6. next_id' = next_id + 1
  BY DEF CreateTcpConnection
<1>7. conn.id = next_id
  OBVIOUS
<1> HIDE DEF conn
<1>8. NatTypeOK'
  <2>1. next_id' \in 1..(MaxConns + 1)
    BY <1>1, <1>6, NatAssumption DEF ConnId
  <2>2. /\ DOMAIN tcp_by_key' \subseteq TcpKey
        /\ tcp_by_key' \in [DOMAIN tcp_by_key' -> TcpConnection]
    BY <1>3, <1>4 DEF NatIInv, NatTypeOK
  <2>3. /\ DOMAIN tcp_by_id' \subseteq ConnId
        /\ tcp_by_id' \in [DOMAIN tcp_by_id' -> TcpKey]
    BY <1>1, <1>5 DEF NatIInv, NatTypeOK
  <2> QED
    BY <2>1, <2>2, <2>3 DEF NatTypeOK
<1>9. IdsBelowNext'
  BY <1>1, <1>5, <1>6 DEF NatIInv, NatTypeOK, IdsBelowNext, ConnId
<1>10. KeysResolve'
  <2> SUFFICES ASSUME NEW k \in DOMAIN tcp_by_key'
               PROVE  /\ tcp_by_key'[k].id \in DOMAIN tcp_by_id'
                      /\ tcp_by_id'[tcp_by_key'[k].id] = k
    BY DEF KeysResolve
  <2>1. CASE k = key
    BY <2>1, <1>4, <1>5, <1>7
  <2>2. CASE k # key
    <3>1. k \in DOMAIN tcp_by_key /\ tcp_by_key'[k] = tcp_by_key[k]
      BY <2>2, <1>4
    <3>2. /\ tcp_by_key[k].id \in DOMAIN tcp_by_id
          /\ tcp_by_id[tcp_by_key[k].id] = k
      BY <3>1 DEF NatIInv, KeysResolve
    <3>3. tcp_by_key[k].id # next_id
      BY <3>2, <1>1 DEF NatIInv, NatTypeOK, IdsBelowNext, ConnId
    <3> QED
      BY <3>1, <3>2, <3>3, <1>5
  <2> QED
    BY <2>1, <2>2
<1>11. StaleIdsAreOlder'
  <2> SUFFICES ASSUME NEW i \in DOMAIN tcp_by_id',
                      tcp_by_id'[i] \in DOMAIN tcp_by_key'
               PROVE  i <= tcp_by_key'[tcp_by_id'[i]].id
    BY DEF StaleIdsAreOlder
  <2>1. CASE i = next_id
    BY <2>1, <1>1, <1>4, <1>5, <1>7 DEF ConnId
  <2>2. CASE i # next_id
    <3>1. i \in DOMAIN tcp_by_id /\ tcp_by_id'[i] = tcp_by_id[i]
      BY <2>2, <1>5
    <3>2. i \in Nat /\ i < next_id
      BY <3>1 DEF NatIInv, NatTypeOK, IdsBelowNext, ConnId
    <3>3. CASE tcp_by_id[i] = key
      BY <3>1, <3>2, <3>3, <1>1, <1>4, <1>7 DEF ConnId
    <3>4. CASE tcp_by_id[i] # key
      BY <3>1, <3>4, <1>4 DEF NatIInv, StaleIdsAreOlder
    <3> QED
      BY <3>3, <3>4
  <2> QED
    BY <2>1, <2>2
<1> QED
  BY <1>8, <1>9, <1>10, <1>11 DEF NatIInv

(* A closed key's id is no other key's id.                                  *)
LEMMA CloseInv ==
  ASSUME NatIInv, NEW key, CloseTcpConnection(key)
  PROVE  NatIInv'
<1>1. CASE key \notin DOMAIN tcp_by_key
  BY <1>1 DEF CloseTcpConnection, NatIInv, NatTypeOK, IdsBelowNext,
              KeysResolve, StaleIdsAreOlder
<1>2. CASE key \in DOMAIN tcp_by_key
  <2> DEFINE id == tcp_by_key[key].id
  <2>1. tcp_by_key' = [x \in DOMAIN tcp_by_key \ {key} |-> tcp_by_key[x]]
    BY <1>2 DEF CloseTcpConnection, Without
  <2>2. tcp_by_id' = [x \in DOMAIN tcp_by_id \ {id} |-> tcp_by_id[x]]
    BY <1>2 DEF CloseTcpConnection, Without
  <2>3. next_id' = next_id
    BY DEF CloseTcpConnection
  <2>4. tcp_by_id[id] = key
    BY <1>2 DEF NatIInv, KeysResolve
  <2> HIDE DEF id
  <2>5. NatTypeOK'
    BY <2>1, <2>2, <2>3 DEF NatIInv, NatTypeOK
  <2>6. IdsBelowNext'
    BY <2>2, <2>3 DEF NatIInv, IdsBelowNext
  <2>7. KeysResolve'
    BY <2>1, <2>2, <2>4 DEF NatIInv, KeysResolve
  <2>8. StaleIdsAreOlder'
    BY <2>1, <2>2 DEF NatIInv, StaleIdsAreOlder
  <2> QED
    BY <2>5, <2>6, <2>7, <2>8 DEF NatIInv
<1> QED
  BY <1>1, <1>2

-----------------------------------------------------------------------------
(* What the handlers send is well typed.                                    *)

(* A handler sends within the capacities, or blocks.                        *)
LEMMA EmitType ==
  ASSUME ChannelTypeOK, NEW msgs \in Seq(HostMessage),
         NEW packets \in Seq(TcpPacket), Emit(msgs, packets)
  PROVE  ChannelTypeOK'
<1>1. CASE Fits(to_remote, msgs) /\ Fits(to_tun, packets)
  <2>1. /\ to_remote' = to_remote \o msgs
        /\ to_tun' = to_tun \o packets
        /\ loop' = loop
        /\ Len(to_remote) + Len(msgs) <= HostChanCap
        /\ Len(to_tun) + Len(packets) <= HostChanCap
    BY <1>1 DEF Emit, Fits
  <2> QED
    BY <2>1 DEF ChannelTypeOK
<1>2. CASE ~(Fits(to_remote, msgs) /\ Fits(to_tun, packets))
  BY <1>2 DEF Emit, ChannelTypeOK
<1> QED
  BY <1>1, <1>2

(* A payload is a sequence of bytes.                                        *)
LEMMA PayloadType ==
  ASSUME NEW data \in Payload
  PROVE  data \in Seq(Byte) /\ Len(data) \in Nat
<1>1. PICK n \in 0..MaxRead : data \in [1..n -> Byte]
  BY DEF Payload
<1>2. n \in Nat
  BY HostAssumption
<1> QED
  BY <1>1, <1>2

(* Sequence and acknowledgment numbers read through an id.                  *)
LEMMA LookupType ==
  ASSUME NEW t, SameIds(t), NEW id
  PROVE  GetTcpSeq(t, id) \in SeqNum /\ GetTcpAck(t, id) \in SeqNum
<1>1. CASE Resolves(t, id)
  <2>1. t[tcp_by_id[id]] \in TcpConnection
    BY <1>1 DEF Resolves, SameIds
  <2> QED
    BY <1>1, <2>1 DEF GetTcpSeq, GetTcpAck, TcpConnection
<1>2. CASE ~Resolves(t, id)
  BY <1>2, ZeroSeqNum DEF GetTcpSeq, GetTcpAck
<1> QED
  BY <1>1, <1>2

(* A reply is a packet.                                                     *)
LEMMA ReplyType ==
  ASSUME NEW t, SameIds(t), NEW key \in TcpKey, NEW id,
         NEW flags \in SUBSET Flag
  PROVE  Reply(t, key, id, flags) \in TcpPacket
<1>1. GetTcpSeq(t, id) \in SeqNum /\ GetTcpAck(t, id) \in SeqNum
  BY LookupType
<1>2. <<>> \in Seq(Byte)
  OBVIOUS
<1> QED
  BY <1>1, <1>2 DEF Reply, TcpPacket

(* Multiplication by a natural number is monotone.                          *)
LEMMA TimesMonotone ==
  ASSUME NEW a \in Int, NEW b \in Int, NEW c \in Nat, a <= b
  PROVE  a * c <= b * c
<1>1. (b - a) * c >= 0
  OBVIOUS
<1>2. (b - a) * c = b * c - a * c
  OBVIOUS
<1> QED
  BY <1>1, <1>2

(* A block of data is cut into well-typed packets, each with a contiguous   *)
(* piece of it.                                                             *)
LEMMA DataPacketsType ==
  ASSUME NatIInv, NEW id \in DOMAIN tcp_by_id, NEW data \in Payload
  PROVE  DataPackets(id, data) \in Seq(TcpPacket)
<1>1. data \in Seq(Byte) /\ Len(data) \in Nat
  BY PayloadType
<1>2. MaxPayload \in Nat \ {0}
  BY HostAssumption
<1>3. ChunkCount(data) \in Nat
  BY <1>1, <1>2 DEF ChunkCount
<1>4. tcp_by_id[id] \in TcpKey
  BY DEF NatIInv, NatTypeOK
<1>5. SameIds(tcp_by_key)
  BY SameIdsRefl DEF NatIInv
<1>6. ASSUME NEW i \in 1..ChunkCount(data)
      PROVE  DataPackets(id, data)[i] \in TcpPacket
  <2> DEFINE before == (i - 1) * MaxPayload
             last == IF i = ChunkCount(data) THEN Len(data) ELSE i * MaxPayload
  <2>1. before \in Int /\ last \in Int
    BY <1>1, <1>2, <1>3
  <2>2. SameIds(AdvanceTcpSeq(tcp_by_key, id, before))
    BY <1>5, <2>1, AdvanceSameIds
  <2>3. GetTcpSeq(AdvanceTcpSeq(tcp_by_key, id, before), id) \in SeqNum
    BY <2>2, LookupType
  <2>4. GetTcpAck(tcp_by_key, id) \in SeqNum
    BY <1>5, LookupType
  <2>5. i * MaxPayload <= Len(data) \/ i = ChunkCount(data)
    <3> DEFINE n == ChunkCount(data)
    <3>1. n * MaxPayload <= Len(data) + MaxPayload - 1
      BY <1>1, <1>2 DEF ChunkCount
    <3>2. CASE i # n
      <4>1. i + 1 <= n
        BY <1>3, <3>2
      <4>2. (i + 1) * MaxPayload <= n * MaxPayload
        BY <1>2, <1>3, <4>1, TimesMonotone
      <4>3. (i + 1) * MaxPayload = i * MaxPayload + MaxPayload
        BY <1>2
      <4>4. i * MaxPayload \in Int /\ n * MaxPayload \in Int
        BY <1>2, <1>3
      <4> QED
        BY <1>1, <1>2, <3>1, <4>2, <4>3, <4>4
    <3> QED
      BY <3>2
  <2>6. before >= 0
    BY <1>2, <1>3
  <2>7. Chunk(data, i) \in Seq(Byte)
    <3>1. Chunk(data, i) = SubSeq(data, before + 1, last)
      BY DEF Chunk
    <3>2. last <= Len(data)
      BY <1>1, <2>5
    <3> HIDE DEF before, last
    <3> QED
      BY <1>1, <2>1, <2>6, <3>1, <3>2
  <2> HIDE DEF before
  <2>8. DataPackets(id, data)[i]
          = [key |-> tcp_by_id[id],
             flags |-> IF i = ChunkCount(data) THEN {"ack", "psh"} ELSE {"ack"},
             seq |-> GetTcpSeq(AdvanceTcpSeq(tcp_by_key, id, before), id),
             ack |-> GetTcpAck(tcp_by_key, id),
             payload |-> Chunk(data, i)]
    BY DEF DataPackets, before
  <2> QED
    BY <1>4, <2>3, <2>4, <2>7, <2>8 DEF TcpPacket, Flag
<1> QED
  BY <1>3, <1>6 DEF DataPackets

-----------------------------------------------------------------------------
(* One lemma per group of handlers: each preserves IInv.                    *)

(* Every branch for an outbound packet keeps the invariant.                 *)
LEMMA OutboundInv ==
  ASSUME IInv, NEW p \in TcpPacketInfo, HandleOutboundTcp(p)
  PROVE  IInv'
<1> DEFINE id == tcp_by_key[p.key].id
<1>1. /\ p.key \in TcpKey /\ p.key[2] \in Server
      /\ p.seq \in SeqNum /\ p.seq \in Int
      /\ p.payload \in Payload /\ Len(p.payload) \in Nat
  BY PayloadType DEF TcpPacketInfo, TcpKey, SeqNum
<1>2. SameIds(tcp_by_key)
  BY SameIdsRefl DEF IInv, NatIInv
<1>3. p.key \in DOMAIN tcp_by_key => id \in ConnId
  BY DEF IInv, NatIInv, NatTypeOK, TcpConnection
<1>4. {"ack"} \in SUBSET Flag
  BY DEF Flag
<1>5. <<>> \in Seq(HostMessage) /\ <<>> \in Seq(TcpPacket)
  OBVIOUS
<1>6. CASE OnSyn(p)
  <2>1. NatIInv'
    BY <1>1, <1>6, CreateInv DEF OnSyn, IInv
  <2>2. next_id \in ConnId
    BY <1>6, NatAssumption
    DEF OnSyn, CreateTcpConnection, IInv, NatIInv, NatTypeOK, ConnId
  <2>3. TcpConnect(next_id, p.key[2]) \in HostMessage
    BY <1>1, <2>2 DEF TcpConnect, HostMessage
  <2>4. <<TcpConnect(next_id, p.key[2])>> \in Seq(HostMessage)
    BY <2>3
  <2>5. Emit(<<TcpConnect(next_id, p.key[2])>>, <<>>)
    BY <1>6 DEF OnSyn
  <2>6. ChannelTypeOK'
    BY <1>5, <2>4, <2>5, EmitType DEF IInv
  <2> QED
    BY <2>1, <2>6 DEF IInv
<1>7. CASE OnRst(p)
  <2>1. NatIInv'
    BY <1>7, CloseInv DEF OnRst, IInv
  <2>2. TcpClose(id) \in HostMessage
    BY <1>3, <1>7 DEF OnRst, Known, TcpClose, HostMessage
  <2>3. <<TcpClose(id)>> \in Seq(HostMessage)
    BY <2>2
  <2>4. Emit(<<TcpClose(id)>>, <<>>)
    BY <1>7 DEF OnRst
  <2>5. ChannelTypeOK'
    BY <1>5, <2>3, <2>4, EmitType DEF IInv
  <2> QED
    BY <2>1, <2>5 DEF IInv
<1>8. CASE OnFin(p)
  <2> DEFINE ack == WrappingAdd(p.seq, Len(p.payload) + 1)
             acked == UpdateTcpAck(tcp_by_key, id, ack)
             data == IF p.payload = <<>> THEN <<>>
                     ELSE <<TcpData(id, p.payload)>>
  <2>1. ack \in SeqNum
    BY <1>1, WrappingAddType
  <2>2. SameIds(acked)
    BY <1>2, <2>1, UpdateAckSameIds
  <2>3. SameIds(SetTcpState(acked, p.key, "FinWait"))
    BY <2>2, SetStateSameIds DEF ConnectionState
  <2>4. NatIInv'
    BY <1>8, <2>3, SetTableInv DEF OnFin, TakeFin, IInv
  <2>5. id \in ConnId
    BY <1>3, <1>8 DEF OnFin, TakeFin, InState, Known
  <2>6. TcpClose(id) \in HostMessage /\ TcpData(id, p.payload) \in HostMessage
    BY <1>1, <2>5 DEF TcpClose, TcpData, HostMessage
  <2>7. data \o <<TcpClose(id)>> \in Seq(HostMessage)
    BY <2>6
  <2>8. <<Reply(acked, p.key, id, {"ack"})>> \in Seq(TcpPacket)
    BY <1>1, <1>4, <2>2, ReplyType
  <2>9. Emit(data \o <<TcpClose(id)>>, <<Reply(acked, p.key, id, {"ack"})>>)
    BY <1>8 DEF OnFin, TakeFin, Piggybacked, Closing
  <2> HIDE DEF acked, data
  <2>10. ChannelTypeOK'
    BY <2>7, <2>8, <2>9, EmitType DEF IInv
  <2> QED
    BY <2>4, <2>10 DEF IInv
<1>9. CASE OnData(p)
  <2> DEFINE ack == WrappingAdd(p.seq, Len(p.payload))
             acked == IF InOrder(p) THEN UpdateTcpAck(tcp_by_key, id, ack)
                      ELSE tcp_by_key
             msgs == IF InOrder(p) THEN <<TcpData(id, p.payload)>> ELSE <<>>
  <2>1. ack \in SeqNum
    BY <1>1, WrappingAddType
  <2>2. SameIds(acked)
    BY <1>2, <2>1, UpdateAckSameIds
  <2>3. NatIInv'
    BY <1>9, <2>2, SetTableInv DEF OnData, TakeData, IInv
  <2>4. id \in ConnId
    BY <1>3, <1>9 DEF OnData, TakeData, InState, Known
  <2>5. msgs \in Seq(HostMessage)
    <3>1. TcpData(id, p.payload) \in HostMessage
      BY <1>1, <2>4 DEF TcpData, HostMessage
    <3> QED
      BY <3>1
  <2>6. <<Reply(acked, p.key, id, {"ack"})>> \in Seq(TcpPacket)
    BY <1>1, <1>4, <2>2, ReplyType
  <2>7. Emit(msgs, <<Reply(acked, p.key, id, {"ack"})>>)
    BY <1>9 DEF OnData, TakeData
  <2> HIDE DEF acked, msgs
  <2>8. ChannelTypeOK'
    BY <2>5, <2>6, <2>7, EmitType DEF IInv
  <2> QED
    BY <2>3, <2>8 DEF IInv
<1>10. CASE OnFinInCloseWait(p)
  <2> DEFINE ack == WrappingAdd(p.seq, 1)
             acked == UpdateTcpAck(tcp_by_key, id, ack)
  <2>1. ack \in SeqNum
    BY <1>1, WrappingAddType
  <2>2. SameIds(acked)
    BY <1>2, <2>1, UpdateAckSameIds
  <2>3. <<Reply(acked, p.key, id, {"ack"})>> \in Seq(TcpPacket)
    BY <1>1, <1>4, <2>2, ReplyType
  <2>4. Emit(<<>>, <<Reply(acked, p.key, id, {"ack"})>>)
    BY <1>10 DEF OnFinInCloseWait, AckFin
  <2> HIDE DEF acked
  <2>5. ChannelTypeOK'
    BY <1>5, <2>3, <2>4, EmitType DEF IInv
  <2>6. NatIInv'
    BY <1>10, CloseInv DEF OnFinInCloseWait, IInv
  <2> QED
    BY <2>5, <2>6 DEF IInv
<1>11. CASE OnAckInLastAck(p)
  <2>1. NatIInv'
    BY <1>11, CloseInv DEF OnAckInLastAck, IInv
  <2> QED
    BY <1>11, <2>1 DEF OnAckInLastAck, IInv, ChannelTypeOK
<1>12. CASE Ignored(p) /\ Ignore
  BY <1>12 DEF Ignore, hostVars, natVars, IInv, NatIInv, ChannelTypeOK,
               NatTypeOK, IdsBelowNext, KeysResolve, StaleIdsAreOlder
<1> QED
  BY <1>6, <1>7, <1>8, <1>9, <1>10, <1>11, <1>12 DEF HandleOutboundTcp

(* Every branch for a remote message keeps the invariant.                   *)
LEMMA RemoteMessageInv ==
  ASSUME IInv, NEW m \in RemoteMessage, HandleRemoteMessage(m)
  PROVE  IInv'
<1> DEFINE key == tcp_by_id[m.id]
<1>1. SameIds(tcp_by_key)
  BY SameIdsRefl DEF IInv, NatIInv
<1>2. m.id \in DOMAIN tcp_by_id => key \in TcpKey
  BY DEF IInv, NatIInv, NatTypeOK
<1>3. <<>> \in Seq(HostMessage) /\ <<>> \in Seq(TcpPacket)
  OBVIOUS
<1>4. CASE OnTcpConnected(m)
  <2> DEFINE established == SetTcpState(tcp_by_key, key, "Established")
             reply == Reply(established, key, m.id, {"syn", "ack"})
  <2>1. SameIds(established)
    BY <1>1, SetStateSameIds DEF ConnectionState
  <2>2. SameIds(AdvanceTcpSeq(established, m.id, 1))
    BY <2>1, AdvanceSameIds
  <2>3. NatIInv'
    BY <1>4, <2>2, SetTableInv DEF OnTcpConnected, Establish, IInv
  <2>4. reply \in TcpPacket
    BY <1>2, <1>4, <2>1, ReplyType DEF OnTcpConnected, Establish, ForKnown, Flag
  <2>5. Emit(<<>>, <<reply>>)
    BY <1>4 DEF OnTcpConnected, Establish
  <2> HIDE DEF reply
  <2>6. <<reply>> \in Seq(TcpPacket)
    BY <2>4
  <2>7. ChannelTypeOK'
    BY <1>3, <2>5, <2>6, EmitType DEF IInv
  <2> QED
    BY <2>3, <2>7 DEF IInv
<1>5. CASE OnTcpData(m)
  <2>1. m.data \in Payload
    BY <1>5 DEF OnTcpData, ForKnown, RemoteMessage
  <2>2. Len(m.data) \in Int
    BY <2>1, PayloadType
  <2>3. SameIds(AdvanceTcpSeq(tcp_by_key, m.id, Len(m.data)))
    BY <1>1, <2>2, AdvanceSameIds
  <2>4. NatIInv'
    BY <1>5, <2>3, SetTableInv DEF OnTcpData, PassOn, IInv
  <2>5. DataPackets(m.id, m.data) \in Seq(TcpPacket)
    BY <1>5, <2>1, DataPacketsType DEF OnTcpData, ForKnown, IInv
  <2>6. Emit(<<>>, DataPackets(m.id, m.data))
    BY <1>5 DEF OnTcpData, PassOn
  <2>7. ChannelTypeOK'
    BY <1>3, <2>5, <2>6, EmitType DEF IInv
  <2> QED
    BY <2>4, <2>7 DEF IInv
<1>6. ASSUME NEW from, NEW to \in ConnectionState, OnTcpClosed(m, from, to)
      PROVE  IInv'
  <2> DEFINE reply == Reply(tcp_by_key, key, m.id, {"fin", "ack"})
             advanced == AdvanceTcpSeq(tcp_by_key, m.id, 1)
  <2>1. SameIds(advanced)
    BY <1>1, AdvanceSameIds
  <2>2. SameIds(SetTcpState(advanced, key, to))
    BY <2>1, SetStateSameIds
  <2>3. NatIInv'
    BY <1>6, <2>2, SetTableInv DEF OnTcpClosed, IInv
  <2>4. reply \in TcpPacket
    BY <1>1, <1>2, <1>6, ReplyType DEF OnTcpClosed, ForKnown, Flag
  <2>5. Emit(<<>>, <<reply>>)
    BY <1>6 DEF OnTcpClosed
  <2> HIDE DEF reply
  <2>6. <<reply>> \in Seq(TcpPacket)
    BY <2>4
  <2>7. ChannelTypeOK'
    BY <1>3, <2>5, <2>6, EmitType DEF IInv
  <2> QED
    BY <2>3, <2>7 DEF IInv
<1>7. CASE OnTcpClosedUnexpected(m)
  <2>1. NatIInv'
    BY <1>7, CloseInv DEF OnTcpClosedUnexpected, IInv
  <2> QED
    BY <1>7, <2>1 DEF OnTcpClosedUnexpected, IInv, ChannelTypeOK
<1>8. CASE OnTcpError(m)
  <2> DEFINE reset == [key |-> key, flags |-> {"rst"}, seq |-> 0, ack |-> 0,
                       payload |-> <<>>]
  <2>1. NatIInv'
    BY <1>8, CloseInv DEF OnTcpError, IInv
  <2>2. <<>> \in Seq(Byte)
    OBVIOUS
  <2>3. reset \in TcpPacket
    BY <1>2, <1>8, <2>2, ZeroSeqNum DEF OnTcpError, ForKnown, TcpPacket, Flag
  <2>4. Emit(<<>>, <<reset>>)
    BY <1>8 DEF OnTcpError
  <2> HIDE DEF reset
  <2>5. <<reset>> \in Seq(TcpPacket)
    BY <2>3
  <2>6. ChannelTypeOK'
    BY <1>3, <2>4, <2>5, EmitType DEF IInv
  <2> QED
    BY <2>1, <2>6 DEF IInv
<1>9. CASE Ignore
  BY <1>9 DEF Ignore, hostVars, natVars, IInv, NatIInv, ChannelTypeOK,
              NatTypeOK, IdsBelowNext, KeysResolve, StaleIdsAreOlder
<1>10. {"CloseWait", "LastAck"} \subseteq ConnectionState
  BY DEF ConnectionState
<1> QED
  BY <1>4, <1>5, <1>6, <1>7, <1>8, <1>9, <1>10 DEF HandleRemoteMessage

(* Draining the channels keeps the invariant.                               *)
LEMMA DrainInv ==
  ASSUME IInv, SendToRemote \/ WriteToTun
  PROVE  IInv'
<1>1. NatIInv'
  BY DEF SendToRemote, WriteToTun, natVars, IInv, NatIInv, NatTypeOK,
         IdsBelowNext, KeysResolve, StaleIdsAreOlder
<1>2. ChannelTypeOK'
  <2>1. CASE SendToRemote
    <3>1. /\ Tail(to_remote) \in Seq(HostMessage)
          /\ Len(Tail(to_remote)) = Len(to_remote) - 1
      BY <2>1, HeadTailProperties DEF SendToRemote, IInv, ChannelTypeOK
    <3> QED
      BY <2>1, <3>1, HostAssumption DEF SendToRemote, IInv, ChannelTypeOK
  <2>2. CASE WriteToTun
    <3>1. /\ Tail(to_tun) \in Seq(TcpPacket)
          /\ Len(Tail(to_tun)) = Len(to_tun) - 1
      BY <2>2, HeadTailProperties DEF WriteToTun, IInv, ChannelTypeOK
    <3> QED
      BY <2>2, <3>1, HostAssumption DEF WriteToTun, IInv, ChannelTypeOK
  <2> QED
    BY <2>1, <2>2
<1> QED
  BY <1>1, <1>2 DEF IInv

-----------------------------------------------------------------------------
(* IInv holds of every reachable state.                                     *)
THEOREM HostInvariant == HostSpec => []IInv
<1>1. HostInit => IInv
  <2> SUFFICES ASSUME HostInit PROVE IInv
    OBVIOUS
  <2>1. NatIInv
    BY NatAssumption DEF HostInit, NatInit, NatIInv, NatTypeOK, IdsBelowNext,
                         KeysResolve, StaleIdsAreOlder
  <2>2. ChannelTypeOK
    BY HostAssumption DEF HostInit, ChannelTypeOK
  <2> QED
    BY <2>1, <2>2 DEF IInv
<1>2. IInv /\ [HostNext]_hostVars => IInv'
  <2> SUFFICES ASSUME IInv, [HostNext]_hostVars PROVE IInv'
    OBVIOUS
  <2>1. CASE \E p \in TcpPacketInfo : HandleOutboundTcp(p)
    BY <2>1, OutboundInv
  <2>2. CASE \E m \in RemoteMessage : m.id < next_id /\ HandleRemoteMessage(m)
    BY <2>2, RemoteMessageInv
  <2>3. CASE SendToRemote \/ WriteToTun
    BY <2>3, DrainInv
  <2>4. CASE UNCHANGED hostVars
    BY <2>4 DEF hostVars, natVars, IInv, NatIInv, ChannelTypeOK, NatTypeOK,
                IdsBelowNext, KeysResolve, StaleIdsAreOlder
  <2> QED
    BY <2>1, <2>2, <2>3, <2>4 DEF HostNext
<1> QED
  BY <1>1, <1>2, PTL DEF HostSpec

(* Every variable keeps its type: in particular no handler writes a table   *)
(* entry or a packet outside the formats of nat.rs and packet.rs.           *)
THEOREM HostTypeCorrect == HostSpec => []HostTypeOK
<1>1. IInv => HostTypeOK
  BY DEF IInv, NatIInv, ChannelTypeOK, HostTypeOK
<1> QED
  BY <1>1, HostInvariant, PTL

(* The connection a key holds is always found from its id (nat.rs:59-73 and *)
(* :98-102), whatever packets and remote messages arrive, in any order.     *)
THEOREM HostKeysResolve == HostSpec => []KeysResolve
<1>1. IInv => KeysResolve
  BY DEF IInv, NatIInv
<1> QED
  BY <1>1, HostInvariant, PTL

(* An id that reaches another connection's entry reaches a younger one.     *)
THEOREM HostStaleIdsAreOlder == HostSpec => []StaleIdsAreOlder
<1>1. IInv => StaleIdsAreOlder
  BY DEF IInv, NatIInv
<1> QED
  BY <1>1, HostInvariant, PTL
=============================================================================
