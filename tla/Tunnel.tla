------------------------------- MODULE Tunnel -------------------------------
(***************************************************************************)
(* The tunnel end to end: HostTcp and RemoteTcp joined by the SSH session,  *)
(* between the TCP stack of the local applications and the destinations.    *)
(*                                                                         *)
(* The session carries messages reliably and in order, and both processes   *)
(* read it through a task that does nothing else; so a message is handled   *)
(* in the step in which it leaves the sender's channel.                     *)
(*                                                                         *)
(* The applications' kernel is not part of the repository.  It follows RFC  *)
(* 9293: it takes only in-order segments, acknowledges what it takes, may   *)
(* retransmit what is unacknowledged, and ignores a reset that is not       *)
(* acceptable.  The TUN queue may drop what it writes.                      *)
(***************************************************************************)
EXTENDS HostTcp, SequencesExt

CONSTANTS
  Shard, ConnChanCap, RespChanCap,   \* of the remote, see RemoteTcp
  MaxSyns,   \* bound: SYNs sent per connection attempt, 1 + retransmissions
  MaxSent,   \* bound: bytes an application sends
  MaxRetx,   \* bound: data and FIN segments an application retransmits
  MaxDrops,  \* bound: packets the full TUN queue drops
  MaxReads   \* bound: bytes read from each destination

ASSUME TunnelAssumption ==
  /\ {MaxSyns, MaxSent, MaxRetx, MaxDrops, MaxReads} \subseteq Nat
  /\ MaxSent + 3 < SeqSpace
  /\ Shard \in [ConnId -> Nat]
  /\ ConnChanCap \in Nat \ {0} /\ RespChanCap \in Nat \ {0}
  /\ MaxRead > 0 /\ (0..MaxConns) \X (1..(MaxSent + MaxReads)) \subseteq Byte

VARIABLES
  handles, task, rx, hand, responses, remote_loop,  \* of the remote
  app,        \* TcpKey -> the application's end of the connection
  from_tun,   \* packets written by the applications, not yet read by the host
  drops,      \* number of packets dropped
  dest,       \* ConnId -> the destination's end of the connection
  sent        \* history: every message the host has put in to_remote

R == INSTANCE RemoteTcp WITH Id <- ConnId

remoteVars == <<handles, task, rx, hand, responses, remote_loop>>
tunnelVars == <<hostVars, remoteVars, app, from_tun, drops, dest, sent>>

(* The application numbers its SYN 0 and byte n of its stream n.            *)
UpByte(n) == <<0, n>>
DownByte(id, n) == <<id, n>>

AppState == {"closed", "syn_sent", "open", "gone"}

AppEnd ==
  [st : AppState, syns : 0..MaxSyns, sent : 0..MaxSent, fin : BOOLEAN,
   una : SeqNum, retx : 0..MaxRetx,
   rcv_nxt : SeqNum, got : Seq(Byte), rfin : BOOLEAN]

TunnelTypeOK ==
  /\ HostTypeOK
  /\ R!RemoteTypeOK
  /\ app \in [TcpKey -> AppEnd]
  /\ from_tun \in Seq(TcpPacketInfo)
  /\ drops \in 0..MaxDrops
  /\ dest \in [ConnId -> [got : Seq(Byte), sent : 0..MaxReads]]
  /\ sent \in Seq(HostMessage)

TunnelInit ==
  /\ HostInit
  /\ R!RemoteInit
  /\ app = [k \in TcpKey |->
              [st |-> "closed", syns |-> 0, sent |-> 0, fin |-> FALSE,
               una |-> 0, retx |-> 0,
               rcv_nxt |-> 0, got |-> <<>>, rfin |-> FALSE]]
  /\ from_tun = <<>>
  /\ drops = 0
  /\ dest = [i \in ConnId |-> [got |-> <<>>, sent |-> 0]]
  /\ sent = <<>>

-----------------------------------------------------------------------------
(* The application's end of a connection.                                   *)

Segment(k, flags, seq, payload) ==
  [key |-> k, flags |-> flags, seq |-> seq, payload |-> payload]

Transmit(segments) == from_tun' = from_tun \o segments

AppOnly == UNCHANGED <<hostVars, remoteVars, drops, dest, sent>>

AppConnects(k) ==
  /\ app[k].st \in {"closed", "syn_sent"} /\ app[k].syns < MaxSyns
  /\ app' = [app EXCEPT ![k].st = "syn_sent", ![k].syns = @ + 1]
  /\ Transmit(<<Segment(k, {"syn"}, 0, <<>>)>>)
  /\ AppOnly

AppSends(k) ==
  /\ app[k].st = "open" /\ ~app[k].fin /\ app[k].sent < MaxSent
  /\ app' = [app EXCEPT ![k].sent = @ + 1]
  /\ Transmit(<<Segment(k, {"ack", "psh"}, app[k].sent + 1,
                        <<UpByte(app[k].sent + 1)>>)>>)
  /\ AppOnly

AppCloses(k) ==
  /\ app[k].st = "open" /\ ~app[k].fin
  /\ app' = [app EXCEPT ![k].fin = TRUE]
  /\ Transmit(<<Segment(k, {"fin", "ack"}, app[k].sent + 1, <<>>)>>)
  /\ AppOnly

(* The last byte and the FIN in one segment.                                *)
AppSendsAndCloses(k) ==
  /\ app[k].st = "open" /\ ~app[k].fin /\ app[k].sent < MaxSent
  /\ app' = [app EXCEPT ![k].fin = TRUE, ![k].sent = @ + 1]
  /\ Transmit(<<Segment(k, {"fin", "ack"}, app[k].sent + 1,
                        <<UpByte(app[k].sent + 1)>>)>>)
  /\ AppOnly

AppResets(k) ==
  /\ app[k].st = "open"
  /\ app' = [app EXCEPT ![k].st = "gone"]
  /\ Transmit(<<Segment(k, {"rst", "ack"}, app[k].sent + 1, <<>>)>>)
  /\ AppOnly

(* The retransmission timer: the first segment not acknowledged.            *)
AppRetransmits(k) ==
  /\ app[k].st = "open" /\ app[k].retx < MaxRetx
  /\ \/ /\ app[k].una <= app[k].sent
        /\ Transmit(<<Segment(k, {"ack", "psh"}, app[k].una,
                              <<UpByte(app[k].una)>>)>>)
     \/ /\ app[k].fin /\ app[k].una = app[k].sent + 1
        /\ Transmit(<<Segment(k, {"fin", "ack"}, app[k].una, <<>>)>>)
  /\ app' = [app EXCEPT ![k].retx = @ + 1]
  /\ AppOnly

(* A packet from the host arrives.  A reset without the ACK flag is not     *)
(* acceptable to a connecting application, and one whose sequence number is *)
(* not the next expected one is not acceptable to a connected one.          *)
Ack(k) == Segment(k, {"ack"}, app[k].sent + (IF app[k].fin THEN 2 ELSE 1), <<>>)

AckUpTo(a, p) ==
  IF "ack" \in p.flags /\ p.ack > a.una
       /\ p.ack <= a.sent + (IF a.fin THEN 2 ELSE 1)
  THEN p.ack ELSE a.una

Consumes(p) == p.payload # <<>> \/ p.flags \cap {"syn", "fin"} # {}

InSequence(a, p) == p.seq = a.rcv_nxt /\ "syn" \notin p.flags

AppOpens(k, p) ==
  /\ app[k].st = "syn_sent"
  /\ {"syn", "ack"} \subseteq p.flags /\ p.ack = 1
  /\ app' = [app EXCEPT ![k].st = "open", ![k].una = 1,
                        ![k].rcv_nxt = WrappingAdd(p.seq, 1)]
  /\ Transmit(<<Ack(k)>>)

AppTakes(k, p) ==
  /\ app[k].st = "open" /\ "rst" \notin p.flags
  /\ LET acked == [app[k] EXCEPT !.una = AckUpTo(app[k], p)]
         fin == "fin" \in p.flags
         taken == [acked EXCEPT
                     !.rcv_nxt = WrappingAdd(@, Len(p.payload) + IF fin THEN 1 ELSE 0),
                     !.got = @ \o p.payload,
                     !.rfin = @ \/ fin]
     IN  app' = [app EXCEPT ![k] = IF InSequence(app[k], p) THEN taken ELSE acked]
  /\ Transmit(IF Consumes(p) THEN <<Ack(k)>> ELSE <<>>)

AppIsReset(k, p) ==
  /\ app[k].st = "open" /\ "rst" \in p.flags /\ p.seq = app[k].rcv_nxt
  /\ app' = [app EXCEPT ![k].st = "gone"]
  /\ UNCHANGED from_tun

(* Nobody listens any more: the kernel may answer with a reset.             *)
AppRefuses(k, p) ==
  /\ app[k].st = "gone" /\ "rst" \notin p.flags
  /\ Transmit(<<Segment(k, {"rst"}, app[k].sent + 1, <<>>)>>)
  /\ UNCHANGED app

AppIgnores(k, p) ==
  /\ \/ app[k].st = "gone"
     \/ app[k].st = "syn_sent" /\ ~({"syn", "ack"} \subseteq p.flags /\ p.ack = 1)
     \/ app[k].st = "open" /\ "rst" \in p.flags /\ p.seq # app[k].rcv_nxt
  /\ UNCHANGED <<app, from_tun>>

AppReceives ==
  /\ WriteToTun
  /\ LET p == Head(to_tun)
         k == p.key
     IN  \/ AppOpens(k, p) \/ AppTakes(k, p) \/ AppIsReset(k, p)
         \/ AppRefuses(k, p) \/ AppIgnores(k, p)
  /\ UNCHANGED <<remoteVars, drops, dest, sent>>

TunDrops ==
  /\ from_tun # <<>> /\ drops < MaxDrops
  /\ from_tun' = SubSeq(from_tun, 1, Len(from_tun) - 1)
  /\ drops' = drops + 1
  /\ UNCHANGED <<hostVars, remoteVars, app, dest, sent>>

-----------------------------------------------------------------------------
(* The host's select loop.                                                  *)

HostReads ==
  /\ from_tun # <<>>
  /\ HandleOutboundTcp(Head(from_tun))
  /\ from_tun' = Tail(from_tun)
  /\ sent' = sent \o SubSeq(to_remote', Len(to_remote) + 1, Len(to_remote'))
  /\ UNCHANGED <<remoteVars, app, drops, dest>>

HostTakes ==
  /\ R!WriteResponse
  /\ HandleRemoteMessage(Head(responses))
  /\ UNCHANGED <<app, from_tun, drops, dest, sent>>

-----------------------------------------------------------------------------
(* The remote process and the destinations.                                 *)

RemoteTakes ==
  /\ SendToRemote
  /\ R!HandleHostMessage(Head(to_remote))
  /\ UNCHANGED <<app, from_tun, drops, dest, sent>>

RemoteOnly == UNCHANGED <<hostVars, app, from_tun, drops, sent>>

RemoteRuns(i) ==
  /\ R!TaskSteps(i)
  /\ UNCHANGED dest /\ RemoteOnly

LoopResumes ==
  /\ R!LoopResumes
  /\ UNCHANGED dest /\ RemoteOnly

DestAnswers(i) ==
  /\ R!Connects(i)
  /\ UNCHANGED dest /\ RemoteOnly

DestSends(i) ==
  /\ \E n \in 1..MaxRead :
       /\ dest[i].sent + n <= MaxReads
       /\ R!ReadFromDest(i, [j \in 1..n |-> DownByte(i, dest[i].sent + j)])
       /\ dest' = [dest EXCEPT ![i].sent = @ + n]
  /\ RemoteOnly

DestEnds(i) ==
  /\ R!DestEof(i) \/ R!DestFails(i)
  /\ UNCHANGED dest /\ RemoteOnly

DestAccepts(i) ==
  /\ R!WriteAll(i)
  /\ dest' = [dest EXCEPT ![i].got = @ \o hand[i]]
  /\ RemoteOnly

AppNext ==
  \/ \E k \in TcpKey :
       \/ AppConnects(k) \/ AppSends(k) \/ AppCloses(k)
       \/ AppSendsAndCloses(k) \/ AppResets(k) \/ AppRetransmits(k)
  \/ AppReceives
  \/ TunDrops

RemoteNext ==
  \/ RemoteTakes
  \/ LoopResumes
  \/ \E i \in ConnId :
       \/ RemoteRuns(i) \/ DestAnswers(i) \/ DestSends(i) \/ DestEnds(i)
       \/ DestAccepts(i)

TunnelNext == AppNext \/ HostReads \/ HostTakes \/ RemoteNext

TunnelSpec == TunnelInit /\ [][TunnelNext]_tunnelVars

(* select! polls its branches in random order, so a branch that stays ready *)
(* is taken; the kernel delivers what is written to the TUN device.         *)
FairTunnelSpec ==
  /\ TunnelSpec
  /\ WF_tunnelVars(HostReads)
  /\ WF_tunnelVars(HostTakes)
  /\ WF_tunnelVars(AppReceives)

-----------------------------------------------------------------------------
IsData(m, i) == m.type = "TcpData" /\ m.id = i

Forwarded(i) ==
  FlattenSeq([n \in DOMAIN sent |->
                IF IsData(sent[n], i) THEN sent[n].data ELSE <<>>])

(* The host forwards a prefix of the application's stream, each byte once   *)
(* and in order, whatever the application retransmits: mod.rs:369, "Drop    *)
(* retransmissions: only forward data matching the expected sequence        *)
(* number".                                                                 *)
ForwardedInOrder ==
  \A i \in ConnId : \A n \in DOMAIN Forwarded(i) : Forwarded(i)[n] = UpByte(n)

(* While the connection is established the acknowledgment number the host   *)
(* advertises covers exactly the bytes it has forwarded: it promises the    *)
(* application nothing it has not passed on (mod.rs:370-407).               *)
AcksWhatItForwards ==
  loop = "running" => \A k \in DOMAIN tcp_by_key :
    LET c == tcp_by_key[k]
    IN  c.state = "Established" => c.ack = Len(Forwarded(c.id)) + 1

(* What the application has read, in the order it read it, is a prefix of   *)
(* what one destination sent: the sequence numbers the host makes up join   *)
(* the blocks of one connection without a hole, an overlap or a byte of     *)
(* another connection (mod.rs:529-558).                                     *)
ReadsOneStream ==
  \A k \in TcpKey : app[k].got # <<>> =>
    \E i \in ConnId :
      \A n \in DOMAIN app[k].got : app[k].got[n] = DownByte(i, n)

(* The application sees the end of the stream only after all of it: no FIN  *)
(* overtakes data read from the destination (mod.rs:559-608, proxy.rs:79).  *)
EofAfterAllData ==
  \A k \in TcpKey : app[k].rfin =>
    \E i \in ConnId : Len(app[k].got) = dest[i].sent

(* The destination receives a run of consecutive bytes of the stream.       *)
DestReadsRun ==
  \A i \in ConnId :
    \A n \in DOMAIN dest[i].got :
      n > 1 => dest[i].got[n][2] = dest[i].got[n - 1][2] + 1

(* The host keeps to the order of messages the remote relies on: one        *)
(* TcpConnect per id, data and closes only once the remote has announced    *)
(* the connection, and no data after a close (mod.rs:284-296, :335-365).    *)
HostKeepsProtocol ==
  /\ \A m, n \in DOMAIN sent :
       m < n => /\ sent[n].type = "TcpConnect" => sent[m].id # sent[n].id
                /\ sent[m] = TcpClose(sent[n].id) => sent[n].type # "TcpData"
  /\ \A n \in DOMAIN to_remote :
       to_remote[n].type \in {"TcpData", "TcpClose"} =>
         task[to_remote[n].id] \notin {"none", "connecting", "announcing", "refused"}

(* What the application expects once it has taken the packets that precede  *)
(* position n on their way to it.                                           *)
InFlight(k) == {n \in DOMAIN to_tun : to_tun[n].key = k}

Length(p) == Len(p.payload) + Cardinality(p.flags \cap {"syn", "fin"})

Expected(k, n) ==
  LET earlier == {m \in InFlight(k) : m < n}
  IN  IF earlier = {} THEN app[k].rcv_nxt
      ELSE LET p == to_tun[Max(earlier)] IN WrappingAdd(p.seq, Length(p))

(* Every packet on its way to a connected application, but for an answer to *)
(* a SYN, has the sequence number the application expects when it gets      *)
(* there, and the table has the one it expects after all of them: nothing   *)
(* the host sends is out of sequence (mod.rs:523-525, :554, :582-605).      *)
SeqAgrees ==
  loop = "running" => \A k \in DOMAIN tcp_by_key :
    app[k].st = "open" /\ tcp_by_key[k].state # "SynSent" =>
      /\ \A n \in InFlight(k) :
           "syn" \in to_tun[n].flags \/ to_tun[n].seq = Expected(k, n)
      /\ tcp_by_key[k].seq = Expected(k, Len(to_tun) + 1)

(* A reset the host sends on TcpError reaches the application as one: its   *)
(* connection does not outlive the destination's: mod.rs:620, "Send RST     *)
(* packet".                                                                 *)
ResetsArrive ==
  [][\A k \in TcpKey :
       (/\ to_tun # <<>> /\ to_tun' = Tail(to_tun)
        /\ Head(to_tun).key = k /\ "rst" \in Head(to_tun).flags)
       => app'[k].st = "gone"]_tunnelVars

(* The closing handshake ends: once both ends of a connection have closed,  *)
(* or the host waits for the last ACK, the entry is removed, in whatever    *)
(* order the segments and the remote's messages crossed (mod.rs:412-450).   *)
BothClosed(k) ==
  /\ k \in DOMAIN tcp_by_key
  /\ \/ tcp_by_key[k].state = "CloseWait" /\ app[k].fin
     \/ tcp_by_key[k].state = "LastAck"

HandshakeEnds ==
  \A k \in TcpKey :
    BothClosed(k) ~> (k \notin DOMAIN tcp_by_key \/ loop = "blocked")

=============================================================================
