------------------------------- MODULE HostTcp -------------------------------
(***************************************************************************)
(* The host's TCP handlers (src/host/mod.rs): what run_proxy_loop does with *)
(* a TCP packet read from the TUN device and with a message from the        *)
(* remote, and the two bounded channels those handlers feed.                *)
(*                                                                         *)
(* The select loop is one task, and it is both the only sender and the only *)
(* receiver of its two channels.  A handler therefore runs without          *)
(* interleaving, and a send that finds its channel full never returns: the  *)
(* loop is then "blocked" for good.  Only the loop reads the table and the  *)
(* channels, so where inside the handler it stopped is not observable.      *)
(*                                                                         *)
(* HostSpec leaves the environment free: any packet from the applications,  *)
(* any message from the remote.  The module Tunnel closes the system.       *)
(***************************************************************************)
EXTENDS NatTable, Sequences

CONSTANTS
  Byte,        \* the payload alphabet
  MaxPayload,  \* MAX_TCP_PAYLOAD, 65495 in the code
  MaxRead,     \* bound: bytes in one payload (65535 from TUN, 65536 from remote)
  HostChanCap  \* capacity of to_remote and to_tun, 1024 in the code

ASSUME HostAssumption ==
  /\ MaxPayload \in Nat \ {0}
  /\ MaxRead \in Nat
  /\ HostChanCap \in Nat

VARIABLES
  to_remote,  \* channel of HostMessage, drained to the SSH writer
  to_tun,     \* channel of packets, drained to the TUN device
  loop        \* "running", or "blocked" in a send to a full channel

hostVars == <<natVars, to_remote, to_tun, loop>>

Flag == {"syn", "ack", "fin", "rst", "psh"}

Payload == UNION {[1..n -> Byte] : n \in 0..MaxRead}

(* A packet of the connection with this key, in either direction.  An       *)
(* outbound packet's acknowledgment number is parsed and never read, so     *)
(* only reply packets carry it.                                             *)
TcpPacketInfo ==
  [key : TcpKey, flags : SUBSET Flag, seq : SeqNum, payload : Payload]

TcpPacket ==
  [key : TcpKey, flags : SUBSET Flag, seq : SeqNum, ack : SeqNum,
   payload : Seq(Byte)]

HostMessage ==
  [type : {"TcpConnect"}, id : ConnId, dst : Server]
    \cup [type : {"TcpData"}, id : ConnId, data : Payload]
    \cup [type : {"TcpClose"}, id : ConnId]

RemoteMessage ==
  [type : {"TcpConnected", "TcpClosed", "TcpError"}, id : ConnId]
    \cup [type : {"TcpData"}, id : ConnId, data : Payload]

HostTypeOK ==
  /\ NatTypeOK
  /\ to_remote \in Seq(HostMessage) /\ Len(to_remote) <= HostChanCap
  /\ to_tun \in Seq(TcpPacket) /\ Len(to_tun) <= HostChanCap
  /\ loop \in {"running", "blocked"}

HostInit ==
  /\ NatInit
  /\ to_remote = <<>>
  /\ to_tun = <<>>
  /\ loop = "running"

-----------------------------------------------------------------------------
(* What a handler sends, in order, on each channel.                         *)

Fits(channel, items) == Len(channel) + Len(items) <= HostChanCap

Emit(msgs, packets) ==
  \/ /\ Fits(to_remote, msgs) /\ Fits(to_tun, packets)
     /\ to_remote' = to_remote \o msgs
     /\ to_tun' = to_tun \o packets
     /\ UNCHANGED loop
  \/ /\ ~(Fits(to_remote, msgs) /\ Fits(to_tun, packets))
     /\ loop' = "blocked"
     /\ UNCHANGED <<to_remote, to_tun>>

TcpConnect(id, dst) == [type |-> "TcpConnect", id |-> id, dst |-> dst]
TcpData(id, data) == [type |-> "TcpData", id |-> id, data |-> data]
TcpClose(id) == [type |-> "TcpClose", id |-> id]

(* A payload-free reply to the application from the entry id resolves to.   *)
Reply(t, key, id, flags) ==
  [key |-> key, flags |-> flags, seq |-> GetTcpSeq(t, id),
   ack |-> GetTcpAck(t, id), payload |-> <<>>]

Ignore == UNCHANGED hostVars

-----------------------------------------------------------------------------
(* handle_outbound_tcp: one operator per branch, p the parsed packet.       *)

(* "SYN without ACK" opens a connection, whatever the key held before.      *)
OnSyn(p) ==
  /\ "syn" \in p.flags /\ "ack" \notin p.flags
  /\ CreateTcpConnection(p.key, p.seq)
  /\ Emit(<<TcpConnect(next_id, p.key[2])>>, <<>>)

Known(p) ==
  /\ ~("syn" \in p.flags /\ "ack" \notin p.flags)
  /\ p.key \in DOMAIN tcp_by_key

InState(p, state) ==
  /\ Known(p)
  /\ "rst" \notin p.flags
  /\ tcp_by_key[p.key].state = state

OnRst(p) ==
  /\ Known(p) /\ "rst" \in p.flags
  /\ CloseTcpConnection(p.key)
  /\ Emit(<<TcpClose(tcp_by_key[p.key].id)>>, <<>>)

(* The application closes first.  The segment's sequence number is not      *)
(* compared with the expected one: its payload is forwarded as it comes.    *)
Piggybacked(p) ==
  IF p.payload = <<>> THEN <<>>
  ELSE <<TcpData(tcp_by_key[p.key].id, p.payload)>>

Closing(p) == <<TcpClose(tcp_by_key[p.key].id)>>

TakeFin(p, msgs) ==
  /\ InState(p, "Established") /\ "fin" \in p.flags
  /\ LET id == tcp_by_key[p.key].id
         acked == UpdateTcpAck(tcp_by_key, id,
                    WrappingAdd(p.seq, Len(p.payload) + 1))
     IN  /\ SetTable(SetTcpState(acked, p.key, "FinWait"))
         /\ Emit(msgs, <<Reply(acked, p.key, id, {"ack"})>>)

(* Mutant: the close is sent before the data.                               *)
OnFinClosingFirst(p) == TakeFin(p, Closing(p) \o Piggybacked(p))

OnFin(p) == TakeFin(p, Piggybacked(p) \o Closing(p))

(* Data: forwarded when it is the next expected segment, dropped as a       *)
(* retransmission otherwise, acknowledged either way.                       *)
InOrder(p) == p.seq = GetTcpAck(tcp_by_key, tcp_by_key[p.key].id)

TakeData(p, forward, advance) ==
  /\ InState(p, "Established") /\ "fin" \notin p.flags /\ p.payload # <<>>
  /\ LET id == tcp_by_key[p.key].id
         acked == IF advance
                  THEN UpdateTcpAck(tcp_by_key, id,
                         WrappingAdd(p.seq, Len(p.payload)))
                  ELSE tcp_by_key
     IN  /\ SetTable(acked)
         /\ Emit(IF forward THEN <<TcpData(id, p.payload)>> ELSE <<>>,
                 <<Reply(acked, p.key, id, {"ack"})>>)

(* Mutants: the check is dropped; the acknowledgment ignores its outcome.   *)
OnDataUnchecked(p) == TakeData(p, TRUE, TRUE)
OnDataAlwaysAcked(p) == TakeData(p, InOrder(p), TRUE)

OnData(p) == TakeData(p, InOrder(p), InOrder(p))

(* The application answers the host's FIN with its own; a payload that      *)
(* comes with it is neither forwarded nor counted in the acknowledgment.    *)
AckFin(p) ==
  /\ InState(p, "CloseWait") /\ "fin" \in p.flags
  /\ LET id == tcp_by_key[p.key].id
         acked == UpdateTcpAck(tcp_by_key, id, WrappingAdd(p.seq, 1))
     IN  Emit(<<>>, <<Reply(acked, p.key, id, {"ack"})>>)

(* Mutant: the entry is not removed.                                        *)
OnFinKeepingEntry(p) == AckFin(p) /\ UNCHANGED natVars

OnFinInCloseWait(p) == AckFin(p) /\ CloseTcpConnection(p.key)

OnAckInLastAck(p) ==
  /\ InState(p, "LastAck") /\ "ack" \in p.flags
  /\ CloseTcpConnection(p.key)
  /\ UNCHANGED <<to_remote, to_tun, loop>>

(* Every branch that only logs: unknown connections, SynSent and FinWait,   *)
(* bare ACKs in Established, all but FIN in CloseWait, all but ACK in       *)
(* LastAck.                                                                 *)
Ignored(p) ==
  \/ /\ ~("syn" \in p.flags /\ "ack" \notin p.flags)
     /\ p.key \notin DOMAIN tcp_by_key
  \/ InState(p, "SynSent")
  \/ InState(p, "FinWait")
  \/ InState(p, "Established") /\ "fin" \notin p.flags /\ p.payload = <<>>
  \/ InState(p, "CloseWait") /\ "fin" \notin p.flags
  \/ InState(p, "LastAck") /\ "ack" \notin p.flags

HandleOutboundTcp(p) ==
  /\ loop = "running"
  /\ \/ OnSyn(p)
     \/ OnRst(p)
     \/ OnFin(p)
     \/ OnData(p)
     \/ OnFinInCloseWait(p)
     \/ OnAckInLastAck(p)
     \/ Ignored(p) /\ Ignore

-----------------------------------------------------------------------------
(* handle_remote_message: one operator per RemoteMessage and state.         *)

ForKnown(m, type) == m.type = type /\ m.id \in DOMAIN tcp_by_id

Establish(m, syn_length) ==
  /\ ForKnown(m, "TcpConnected")
  /\ LET key == tcp_by_id[m.id]
         established == SetTcpState(tcp_by_key, key, "Established")
     IN  /\ SetTable(AdvanceTcpSeq(established, m.id, syn_length))
         /\ Emit(<<>>, <<Reply(established, key, m.id, {"syn", "ack"})>>)

(* Mutant: the SYN consumes no sequence number.                             *)
OnTcpConnectedUncounted(m) == Establish(m, 0)

OnTcpConnected(m) == Establish(m, 1)

(* The packets a block of remote data is cut into.  The sequence number is  *)
(* read and advanced per chunk; an id that does not resolve reads 0.        *)
ChunkCount(data) == (Len(data) + MaxPayload - 1) \div MaxPayload

Chunk(data, i) ==
  SubSeq(data, (i - 1) * MaxPayload + 1,
         IF i = ChunkCount(data) THEN Len(data) ELSE i * MaxPayload)

DataPackets(id, data) ==
  [i \in 1..ChunkCount(data) |->
    [key |-> tcp_by_id[id],
     flags |-> IF i = ChunkCount(data) THEN {"ack", "psh"} ELSE {"ack"},
     seq |-> GetTcpSeq(AdvanceTcpSeq(tcp_by_key, id, (i - 1) * MaxPayload), id),
     ack |-> GetTcpAck(tcp_by_key, id),
     payload |-> Chunk(data, i)]]

PassOn(m) ==
  /\ SetTable(AdvanceTcpSeq(tcp_by_key, m.id, Len(m.data)))
  /\ Emit(<<>>, DataPackets(m.id, m.data))

(* Mutant: data that arrives after the application's FIN is discarded.      *)
OnTcpDataUnlessFinWait(m) ==
  /\ ForKnown(m, "TcpData")
  /\ IF /\ Resolves(tcp_by_key, m.id)
        /\ tcp_by_key[tcp_by_id[m.id]].state = "FinWait"
     THEN Ignore
     ELSE PassOn(m)

OnTcpData(m) == ForKnown(m, "TcpData") /\ PassOn(m)

(* The remote end is closed: the host sends its FIN, and waits for the      *)
(* application's FIN or for its last ACK, depending on who closed first.    *)
OnTcpClosed(m, from, to) ==
  /\ ForKnown(m, "TcpClosed")
  /\ LET key == tcp_by_id[m.id]
     IN  /\ key \in DOMAIN tcp_by_key /\ tcp_by_key[key].state = from
         /\ SetTable(SetTcpState(AdvanceTcpSeq(tcp_by_key, m.id, 1), key, to))
         /\ Emit(<<>>, <<Reply(tcp_by_key, key, m.id, {"fin", "ack"})>>)

OnTcpClosedUnexpected(m) ==
  /\ ForKnown(m, "TcpClosed")
  /\ LET key == tcp_by_id[m.id]
     IN  /\ key \in DOMAIN tcp_by_key =>
              tcp_by_key[key].state \notin {"Established", "FinWait"}
         /\ CloseTcpConnection(key)
  /\ UNCHANGED <<to_remote, to_tun, loop>>

OnTcpError(m) ==
  /\ ForKnown(m, "TcpError")
  /\ LET key == tcp_by_id[m.id]
     IN  /\ Emit(<<>>, <<[key |-> key, flags |-> {"rst"}, seq |-> 0,
                          ack |-> 0, payload |-> <<>>]>>)
         /\ CloseTcpConnection(key)

HandleRemoteMessage(m) ==
  /\ loop = "running"
  /\ \/ OnTcpConnected(m)
     \/ OnTcpData(m)
     \/ OnTcpClosed(m, "Established", "CloseWait")
     \/ OnTcpClosed(m, "FinWait", "LastAck")
     \/ OnTcpClosedUnexpected(m)
     \/ OnTcpError(m)
     \/ m.id \notin DOMAIN tcp_by_id /\ Ignore

-----------------------------------------------------------------------------
(* The draining branches of the select loop.                                *)

SendToRemote ==
  /\ loop = "running"
  /\ to_remote # <<>>
  /\ to_remote' = Tail(to_remote)
  /\ UNCHANGED <<natVars, to_tun, loop>>

WriteToTun ==
  /\ loop = "running"
  /\ to_tun # <<>>
  /\ to_tun' = Tail(to_tun)
  /\ UNCHANGED <<natVars, to_remote, loop>>

(* Remote messages name ids the host has sent in a TcpConnect.              *)
HostNext ==
  \/ \E p \in TcpPacketInfo : HandleOutboundTcp(p)
  \/ \E m \in RemoteMessage : m.id < next_id /\ HandleRemoteMessage(m)
  \/ SendToRemote
  \/ WriteToTun

HostSpec == HostInit /\ [][HostNext]_hostVars

=============================================================================
