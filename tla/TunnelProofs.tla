---------------------------- MODULE TunnelProofs ----------------------------
(***************************************************************************)
(* Theorems about Tunnel, for any number of connections, applications,      *)
(* bytes, retransmissions and drops, any capacities and any sharding.       *)
(*                                                                         *)
(* The host's part of the invariant is IInv of HostTcpProofs: what Tunnel   *)
(* hands to the host's handlers are packets and messages HostTcp allows.    *)
(***************************************************************************)
EXTENDS Tunnel, HostTcpProofs

-----------------------------------------------------------------------------
(* The types.                                                               *)

(* No byte, and one byte of the application, are payloads.                  *)
LEMMA SmallPayloads ==
  /\ <<>> \in Payload
  /\ \A n \in 1..MaxSent : <<UpByte(n)>> \in Payload
<1>1. 0 \in 0..MaxRead /\ 1 \in 0..MaxRead /\ 0 \in 0..MaxConns
  BY TunnelAssumption, HostAssumption, NatAssumption
<1>2. <<>> \in [1..0 -> Byte]
  OBVIOUS
<1>3. ASSUME NEW n \in 1..MaxSent PROVE <<UpByte(n)>> \in [1..1 -> Byte]
  <2>1. n \in 1..(MaxSent + MaxReads)
    BY <1>3, TunnelAssumption
  <2>2. UpByte(n) \in Byte
    BY <1>1, <2>1, TunnelAssumption DEF UpByte
  <2> QED
    BY <2>2
<1> QED
  BY <1>1, <1>2, <1>3 DEF Payload

(* So is what is read from a destination.                                   *)
LEMMA ReadPayload ==
  ASSUME NEW i \in ConnId, NEW n \in 1..MaxRead, NEW k \in Nat, k + n <= MaxReads
  PROVE  [j \in 1..n |-> DownByte(i, k + j)] \in Payload
<1>1. ASSUME NEW j \in 1..n PROVE DownByte(i, k + j) \in Byte
  <2>1. i \in 0..MaxConns /\ k + j \in 1..(MaxSent + MaxReads)
    BY <1>1, TunnelAssumption, NatAssumption DEF ConnId
  <2> QED
    BY <2>1, TunnelAssumption DEF DownByte
<1>2. n \in 0..MaxRead
  BY HostAssumption
<1> QED
  BY <1>1, <1>2 DEF Payload

(* The remote's part, with the payloads that really occur.                  *)
LoopTypes ==
  [pc : {"select", "exited"}]
    \cup [pc : {"sending"}, id : ConnId, data : Payload]
    \cup [pc : {"removing"}, id : ConnId]

RemoteInv ==
  /\ handles \subseteq ConnId
  /\ task \in [ConnId -> R!TaskState]
  /\ rx \in [ConnId -> Seq(Payload)]
  /\ \A i \in ConnId : Len(rx[i]) <= ConnChanCap
  /\ hand \in [ConnId -> Payload]
  /\ responses \in Seq(RemoteMessage) /\ Len(responses) <= RespChanCap
  /\ remote_loop \in LoopTypes

(* A connected application has had its SYN acknowledged.                    *)
OpenInv == \A k \in TcpKey : app[k].st = "open" => app[k].una >= 1

EnvInv ==
  /\ app \in [TcpKey -> AppEnd] /\ OpenInv
  /\ from_tun \in Seq(TcpPacketInfo)
  /\ drops \in 0..MaxDrops
  /\ dest \in [ConnId -> [got : Seq(Byte), sent : 0..MaxReads]]
  /\ sent \in Seq(HostMessage)

TypeInv == IInv /\ RemoteInv /\ EnvInv

(* It gives the type invariant of Tunnel.                                   *)
LEMMA TypeInvGives ==
  ASSUME TypeInv
  PROVE  TunnelTypeOK
<1>1. Payload \subseteq Seq(Byte)
  BY PayloadType
<1>2. HostTypeOK
  BY DEF TypeInv, IInv, NatIInv, ChannelTypeOK, HostTypeOK
<1>3. LoopTypes \subseteq R!LoopState
  BY <1>1 DEF LoopTypes, R!LoopState
<1>4. RemoteMessage \subseteq R!Response
  BY <1>1 DEF RemoteMessage, R!Response
<1>5. rx \in [ConnId -> Seq(Seq(Byte))] /\ hand \in [ConnId -> Seq(Byte)]
  BY <1>1 DEF TypeInv, RemoteInv
<1>6. responses \in Seq(R!Response)
  BY <1>4 DEF TypeInv, RemoteInv
<1>7. R!RemoteTypeOK
  BY <1>3, <1>5, <1>6 DEF TypeInv, RemoteInv, R!RemoteTypeOK
<1> QED
  BY <1>2, <1>7 DEF TypeInv, EnvInv, TunnelTypeOK

(* The first message of a channel, and what is left.                        *)
LEMMA HeadTail ==
  ASSUME NEW S, NEW q \in Seq(S), q # <<>>
  PROVE  /\ Head(q) \in S /\ Head(q) = q[1] /\ 1 \in DOMAIN q
         /\ Tail(q) \in Seq(S) /\ Len(Tail(q)) = Len(q) - 1 /\ Len(q) \in Nat
         /\ \A n \in DOMAIN Tail(q) : /\ n \in Nat /\ n + 1 \in DOMAIN q
                                      /\ Tail(q)[n] = q[n + 1]
  OBVIOUS

(* Adding to a channel of one connection, or taking from it.                *)
LEMMA RxSet ==
  ASSUME RemoteInv, NEW i \in ConnId, NEW q \in Seq(Payload), Len(q) <= ConnChanCap,
         rx' = [rx EXCEPT ![i] = q]
  PROVE  /\ rx' \in [ConnId -> Seq(Payload)]
         /\ \A j \in ConnId : Len(rx'[j]) <= ConnChanCap
  BY DEF RemoteInv

(* A response sent.                                                         *)
LEMMA RespondType ==
  ASSUME RemoteInv, NEW m \in RemoteMessage, R!Respond(m)
  PROVE  responses' \in Seq(RemoteMessage) /\ Len(responses') <= RespChanCap
<1>1. responses \in Seq(RemoteMessage) /\ Len(responses) < RespChanCap
      /\ responses' = Append(responses, m)
  BY DEF RemoteInv, R!Respond
<1>2. Len(Append(responses, m)) = Len(responses) + 1 /\ Len(responses) \in Nat
  BY <1>1
<1> QED
  BY <1>1, <1>2, TunnelAssumption

(* What a task sends.                                                       *)
LEMMA ResponseTypes ==
  ASSUME NEW i \in ConnId
  PROVE  /\ R!Connected(i) \in RemoteMessage /\ R!Closed(i) \in RemoteMessage
         /\ R!Error(i) \in RemoteMessage
         /\ \A d \in Payload : R!Data(i, d) \in RemoteMessage
  BY DEF R!Connected, R!Closed, R!Error, R!Data, RemoteMessage

(* The loop's send into a connection's channel.                             *)
LEMMA SendToTaskType ==
  ASSUME RemoteInv, NEW i \in ConnId, NEW d \in Payload, R!SendToTask(i, d)
  PROVE  /\ rx' \in [ConnId -> Seq(Payload)]
         /\ \A j \in ConnId : Len(rx'[j]) <= ConnChanCap
         /\ remote_loop' \in LoopTypes
<1>1. remote_loop' \in LoopTypes
  BY DEF R!SendToTask, LoopTypes
<1>2. CASE UNCHANGED rx
  BY <1>1, <1>2 DEF RemoteInv
<1>3. CASE Len(rx[i]) < ConnChanCap /\ rx' = [rx EXCEPT ![i] = Append(@, d)]
  <2> DEFINE q == Append(rx[i], d)
  <2>1. rx[i] \in Seq(Payload)
    BY DEF RemoteInv
  <2>2. q \in Seq(Payload) /\ Len(q) = Len(rx[i]) + 1 /\ Len(rx[i]) \in Nat
    BY <2>1
  <2>3. Len(q) <= ConnChanCap
    BY <1>3, <2>2, TunnelAssumption
  <2>4. rx' = [rx EXCEPT ![i] = q]
    BY <1>3
  <2> HIDE DEF q
  <2> QED
    BY <1>1, <2>2, <2>3, <2>4, RxSet
<1> QED
  BY <1>1, <1>2, <1>3 DEF R!SendToTask

(* The remote's loop keeps the types.                                       *)
LEMMA HostMessageRemoteInv ==
  ASSUME RemoteInv, NEW m \in HostMessage, R!HandleHostMessage(m)
  PROVE  RemoteInv'
<1>0. m.id \in ConnId
  BY DEF HostMessage
<1>1. CASE R!OnTcpConnect(m)
  BY <1>0, <1>1 DEF R!OnTcpConnect, R!Goto, R!TaskState, RemoteInv
<1>2. CASE R!OnTcpData(m)
  <2>1. m.data \in Payload
    BY <1>2 DEF R!OnTcpData, HostMessage
  <2>2. UNCHANGED <<handles, task, hand, responses>>
    BY <1>2 DEF R!OnTcpData
  <2>3. CASE R!SendToTask(m.id, m.data)
    BY <1>0, <2>1, <2>2, <2>3, SendToTaskType DEF RemoteInv
  <2>4. CASE UNCHANGED <<rx, remote_loop>>
    BY <2>2, <2>4 DEF RemoteInv
  <2> QED
    BY <1>2, <2>3, <2>4 DEF R!OnTcpData
<1>3. CASE R!OnTcpClose(m)
  BY <1>3 DEF R!OnTcpClose, RemoteInv
<1> QED
  BY <1>1, <1>2, <1>3 DEF R!HandleHostMessage

(* So does a loop that was waiting for room in a channel.                   *)
LEMMA LoopResumesInv ==
  ASSUME RemoteInv, R!LoopResumes
  PROVE  RemoteInv'
<1>1. remote_loop.id \in ConnId /\ remote_loop.data \in Payload
  BY DEF RemoteInv, LoopTypes, R!LoopResumes
<1> QED
  BY <1>1, SendToTaskType DEF R!LoopResumes, RemoteInv

(* And writing a response to the session.                                   *)
LEMMA WriteResponseInv ==
  ASSUME RemoteInv, R!WriteResponse
  PROVE  RemoteInv' /\ Head(responses) \in RemoteMessage
<1>1. responses \in Seq(RemoteMessage) /\ responses # <<>> /\ responses' = Tail(responses)
      /\ Len(responses) <= RespChanCap
  BY DEF R!WriteResponse, RemoteInv
<1>2. Head(responses) \in RemoteMessage /\ responses' \in Seq(RemoteMessage)
      /\ Len(responses') = Len(responses) - 1 /\ Len(responses) \in Nat
  BY <1>1, HeadTail
<1>3. Len(responses') <= RespChanCap
  BY <1>1, <1>2, TunnelAssumption
<1> QED
  BY <1>2, <1>3 DEF R!WriteResponse, RemoteInv

(* The steps of a task keep the types.                                      *)
LEMMA TaskStepsInv ==
  ASSUME RemoteInv, NEW i \in ConnId, R!TaskSteps(i)
  PROVE  RemoteInv'
<1> USE DEF R!Goto, R!TaskState
<1>0. <<>> \in Payload
  BY SmallPayloads
<1>1. CASE R!Refuse(i)
  BY <1>1, RespondType, ResponseTypes DEF R!Refuse, RemoteInv
<1>2. CASE R!Announce(i)
  BY <1>2, RespondType, ResponseTypes DEF R!Announce, RemoteInv
<1>3. CASE R!InsertHandle(i)
  BY <1>3 DEF R!InsertHandle, RemoteInv
<1>4. CASE R!TakeFromHost(i)
  <2> DEFINE q == Tail(rx[i])
  <2>1. rx[i] \in Seq(Payload) /\ rx[i] # <<>> /\ Len(rx[i]) <= ConnChanCap
    BY <1>4 DEF R!TakeFromHost, RemoteInv
  <2>2. Head(rx[i]) \in Payload /\ q \in Seq(Payload) /\ Len(q) = Len(rx[i]) - 1
        /\ Len(rx[i]) \in Nat
    BY <2>1, HeadTail
  <2>3. Len(q) <= ConnChanCap
    BY <2>1, <2>2, TunnelAssumption
  <2>4. rx' = [rx EXCEPT ![i] = q] /\ hand' = [hand EXCEPT ![i] = Head(rx[i])]
        /\ task' = [task EXCEPT ![i] = "writing"]
        /\ UNCHANGED <<handles, responses, remote_loop>>
    BY <1>4 DEF R!TakeFromHost
  <2> HIDE DEF q
  <2>5. /\ rx' \in [ConnId -> Seq(Payload)]
        /\ \A j \in ConnId : Len(rx'[j]) <= ConnChanCap
    BY <2>2, <2>3, <2>4, RxSet
  <2> QED
    BY <2>2, <2>4, <2>5 DEF RemoteInv
<1>5. CASE R!ChannelClosed(i)
  BY <1>5 DEF R!ChannelClosed, RemoteInv
<1>6. CASE R!SendData(i)
  <2>1. R!Data(i, hand[i]) \in RemoteMessage
    BY ResponseTypes DEF RemoteInv
  <2>2. responses' \in Seq(RemoteMessage) /\ Len(responses') <= RespChanCap
    BY <1>6, <2>1, RespondType DEF R!SendData
  <2> QED
    BY <1>0, <1>6, <2>2 DEF R!SendData, RemoteInv
<1>7. CASE R!SendError(i)
  BY <1>7, RespondType, ResponseTypes DEF R!SendError, RemoteInv
<1>8. CASE R!SendClosed(i)
  <2>1. responses' \in Seq(RemoteMessage) /\ Len(responses') <= RespChanCap
    BY <1>8, RespondType, ResponseTypes DEF R!SendClosed
  <2>2. <<>> \in Seq(Payload) /\ Len(<<>>) <= ConnChanCap
    BY TunnelAssumption
  <2>3. /\ rx' \in [ConnId -> Seq(Payload)]
        /\ \A j \in ConnId : Len(rx'[j]) <= ConnChanCap
    BY <1>8, <2>2, RxSet DEF R!SendClosed
  <2> QED
    BY <1>8, <2>1, <2>3 DEF R!SendClosed, RemoteInv
<1>9. CASE R!RemoveHandle(i)
  BY <1>9 DEF R!RemoveHandle, RemoteInv
<1> QED
  BY <1>1, <1>2, <1>3, <1>4, <1>5, <1>6, <1>7, <1>8, <1>9 DEF R!TaskSteps

(* The destinations' steps keep the remote's types.                         *)
LEMMA DestStepsInv ==
  ASSUME RemoteInv, NEW i \in ConnId,
         \/ R!Connects(i) \/ R!DestEof(i) \/ R!DestFails(i) \/ R!WriteAll(i)
         \/ \E d \in Payload : R!ReadFromDest(i, d)
  PROVE  RemoteInv'
<1> USE DEF R!Goto, R!TaskState
<1>0. <<>> \in Payload
  BY SmallPayloads
<1>1. CASE R!Connects(i) \/ R!DestEof(i)
  BY <1>1 DEF R!Connects, R!DestEof, RemoteInv
<1>2. CASE R!DestFails(i)
  BY <1>0, <1>2 DEF R!DestFails, RemoteInv
<1>3. CASE R!WriteAll(i)
  BY <1>0, <1>3 DEF R!WriteAll, RemoteInv
<1>4. CASE \E d \in Payload : R!ReadFromDest(i, d)
  BY <1>4 DEF R!ReadFromDest, RemoteInv
<1> QED
  BY <1>1, <1>2, <1>3, <1>4

(* A destination's counter and what it has read.                            *)
LEMMA DestType ==
  ASSUME TypeInv, NEW i \in ConnId, DestSends(i) \/ DestAccepts(i)
  PROVE  TypeInv'
<1>0. UNCHANGED <<hostVars, app, from_tun, drops, sent>>
  BY DEF DestSends, DestAccepts, RemoteOnly
<1>1. IInv'
  BY <1>0 DEF TypeInv, hostVars, natVars, IInv, NatIInv, ChannelTypeOK, NatTypeOK,
              IdsBelowNext, KeysResolve, StaleIdsAreOlder
<1>2. dest[i] \in [got : Seq(Byte), sent : 0..MaxReads]
  BY DEF TypeInv, EnvInv
<1>3. CASE DestSends(i)
  <2>1. PICK n \in 1..MaxRead :
          /\ dest[i].sent + n <= MaxReads
          /\ R!ReadFromDest(i, [j \in 1..n |-> DownByte(i, dest[i].sent + j)])
          /\ dest' = [dest EXCEPT ![i].sent = @ + n]
    BY <1>3 DEF DestSends
  <2>2. [j \in 1..n |-> DownByte(i, dest[i].sent + j)] \in Payload
    BY <1>2, <2>1, ReadPayload
  <2>3. RemoteInv'
    BY <2>1, <2>2, DestStepsInv DEF TypeInv
  <2>4. dest[i].sent + n \in 0..MaxReads
    BY <1>2, <2>1, TunnelAssumption, SMTT(30)
  <2>5. dest' \in [ConnId -> [got : Seq(Byte), sent : 0..MaxReads]]
    BY <1>2, <2>1, <2>4 DEF TypeInv, EnvInv
  <2> QED
    BY <1>0, <1>1, <2>3, <2>5 DEF TypeInv, EnvInv, OpenInv
<1>4. CASE DestAccepts(i)
  <2>1. RemoteInv'
    BY <1>4, DestStepsInv DEF TypeInv, DestAccepts
  <2>2. hand[i] \in Seq(Byte)
    BY PayloadType DEF TypeInv, RemoteInv
  <2>3. dest[i].got \o hand[i] \in Seq(Byte)
    BY <1>2, <2>2
  <2>4. dest' \in [ConnId -> [got : Seq(Byte), sent : 0..MaxReads]]
    BY <1>2, <1>4, <2>3 DEF TypeInv, EnvInv, DestAccepts
  <2> QED
    BY <1>0, <1>1, <2>1, <2>4 DEF TypeInv, EnvInv, OpenInv
<1> QED
  BY <1>3, <1>4

(* The host's table and channels do not depend on the rest.                 *)
LEMMA IInvKept ==
  ASSUME IInv, UNCHANGED hostVars
  PROVE  IInv'
  BY DEF hostVars, natVars, IInv, NatIInv, ChannelTypeOK, NatTypeOK, IdsBelowNext,
         KeysResolve, StaleIdsAreOlder

(* Nor does the remote's part.                                              *)
LEMMA RemoteInvKept ==
  ASSUME RemoteInv, UNCHANGED remoteVars
  PROVE  RemoteInv'
  BY DEF remoteVars, RemoteInv

(* A segment of an application.                                             *)
LEMMA SegmentType ==
  ASSUME NEW k \in TcpKey, NEW flags \in SUBSET Flag, NEW s \in 0..(MaxSent + 2),
         NEW d \in Payload
  PROVE  Segment(k, flags, s, d) \in TcpPacketInfo
<1>1. s \in SeqNum
  BY TunnelAssumption, NatAssumption DEF SeqNum
<1> QED
  BY <1>1 DEF Segment, TcpPacketInfo

(* An application puts it in the TUN queue.                                 *)
LEMMA TransmitType ==
  ASSUME from_tun \in Seq(TcpPacketInfo), NEW x \in TcpPacketInfo, Transmit(<<x>>)
  PROVE  from_tun' \in Seq(TcpPacketInfo)
  BY DEF Transmit

(* Connecting, sending, closing, resetting, retransmitting.                 *)
LEMMA AppActsType ==
  ASSUME TypeInv, NEW k \in TcpKey,
         \/ AppConnects(k) \/ AppSends(k) \/ AppCloses(k) \/ AppSendsAndCloses(k)
         \/ AppResets(k) \/ AppRetransmits(k)
  PROVE  TypeInv'
<1> USE DEF Flag
<1>0. /\ app \in [TcpKey -> AppEnd] /\ from_tun \in Seq(TcpPacketInfo)
      /\ app[k] \in AppEnd
  BY DEF TypeInv, EnvInv
<1>o. \A j \in TcpKey : app[j].st = "open" => app[j].una >= 1
  BY DEF TypeInv, EnvInv, OpenInv
<1>a. /\ MaxSyns \in Nat /\ MaxSent \in Nat /\ MaxRetx \in Nat
      /\ app[k].sent \in 0..MaxSent /\ app[k].syns \in 0..MaxSyns
      /\ app[k].retx \in 0..MaxRetx /\ app[k].una \in SeqNum
  BY <1>0, TunnelAssumption DEF AppEnd
<1>b. <<>> \in Payload /\ \A n \in 1..MaxSent : <<UpByte(n)>> \in Payload
  BY SmallPayloads
<1>c. SeqNum = 0..(SeqSpace - 1) /\ SeqSpace \in Nat /\ MaxSent + 3 < SeqSpace
  BY TunnelAssumption, NatAssumption DEF SeqNum
<1>d. ASSUME NEW f \in SUBSET Flag, NEW s \in 0..(MaxSent + 2), NEW d \in Payload,
             Transmit(<<Segment(k, f, s, d)>>)
      PROVE  from_tun' \in Seq(TcpPacketInfo)
  BY <1>0, <1>d, SegmentType, TransmitType
<1>1. ASSUME app' \in [TcpKey -> AppEnd], OpenInv', from_tun' \in Seq(TcpPacketInfo), AppOnly
      PROVE  TypeInv'
  BY <1>1, IInvKept, RemoteInvKept DEF AppOnly, TypeInv, EnvInv
<1>2. CASE AppConnects(k)
  <2>1. app[k].syns + 1 \in 0..MaxSyns
    BY <1>2, <1>a DEF AppConnects
  <2>2. app' \in [TcpKey -> AppEnd] /\ OpenInv'
    BY <1>o, <1>0, <1>2, <2>1 DEF OpenInv, AppConnects, AppEnd, AppState
  <2>3. from_tun' \in Seq(TcpPacketInfo)
    BY <1>2, <1>a, <1>b, <1>d DEF AppConnects
  <2> QED
    BY <1>1, <1>2, <2>2, <2>3 DEF AppConnects
<1>3. CASE AppSends(k)
  <2>1. app[k].sent + 1 \in 1..MaxSent /\ app[k].sent + 1 \in 0..(MaxSent + 2)
        /\ app[k].sent + 1 \in 0..MaxSent
    BY <1>3, <1>a DEF AppSends
  <2>2. app' \in [TcpKey -> AppEnd] /\ OpenInv'
    BY <1>o, <1>0, <1>3, <2>1 DEF OpenInv, AppSends, AppEnd
  <2>3. from_tun' \in Seq(TcpPacketInfo)
    BY <1>3, <2>1, <1>b, <1>d DEF AppSends
  <2> QED
    BY <1>1, <1>3, <2>2, <2>3 DEF AppSends
<1>4. CASE AppCloses(k)
  <2>1. app[k].sent + 1 \in 0..(MaxSent + 2)
    BY <1>a
  <2>2. app' \in [TcpKey -> AppEnd] /\ OpenInv'
    BY <1>o, <1>0, <1>4 DEF OpenInv, AppCloses, AppEnd
  <2>3. from_tun' \in Seq(TcpPacketInfo)
    BY <1>4, <2>1, <1>b, <1>d DEF AppCloses
  <2> QED
    BY <1>1, <1>4, <2>2, <2>3 DEF AppCloses
<1>5. CASE AppSendsAndCloses(k)
  <2>1. app[k].sent + 1 \in 1..MaxSent /\ app[k].sent + 1 \in 0..(MaxSent + 2)
        /\ app[k].sent + 1 \in 0..MaxSent
    BY <1>5, <1>a DEF AppSendsAndCloses
  <2>2. app' \in [TcpKey -> AppEnd] /\ OpenInv'
    BY <1>o, <1>0, <1>5, <2>1 DEF OpenInv, AppSendsAndCloses, AppEnd
  <2>3. from_tun' \in Seq(TcpPacketInfo)
    BY <1>5, <2>1, <1>b, <1>d DEF AppSendsAndCloses
  <2> QED
    BY <1>1, <1>5, <2>2, <2>3 DEF AppSendsAndCloses
<1>6. CASE AppResets(k)
  <2>1. app[k].sent + 1 \in 0..(MaxSent + 2)
    BY <1>a
  <2>2. app' \in [TcpKey -> AppEnd] /\ OpenInv'
    BY <1>o, <1>0, <1>6 DEF OpenInv, AppResets, AppEnd, AppState
  <2>3. from_tun' \in Seq(TcpPacketInfo)
    BY <1>6, <2>1, <1>b, <1>d DEF AppResets
  <2> QED
    BY <1>1, <1>6, <2>2, <2>3 DEF AppResets
<1>7. CASE AppRetransmits(k)
  <2>1. app[k].retx + 1 \in 0..MaxRetx
    BY <1>7, <1>a DEF AppRetransmits
  <2>2. app' \in [TcpKey -> AppEnd] /\ OpenInv'
    BY <1>o, <1>0, <1>7, <2>1 DEF OpenInv, AppRetransmits, AppEnd
  <2>3. CASE /\ app[k].una <= app[k].sent
             /\ Transmit(<<Segment(k, {"ack", "psh"}, app[k].una,
                                   <<UpByte(app[k].una)>>)>>)
    <3>1. app[k].una \in 1..MaxSent /\ app[k].una \in 0..(MaxSent + 2)
      BY <1>7, <1>a, <1>c, <1>o, <2>3 DEF AppRetransmits
    <3>2. from_tun' \in Seq(TcpPacketInfo)
      BY <2>3, <3>1, <1>b, <1>d
    <3> QED
      BY <1>1, <1>7, <2>2, <3>2 DEF AppRetransmits
  <2>4. CASE /\ app[k].una = app[k].sent + 1
             /\ Transmit(<<Segment(k, {"fin", "ack"}, app[k].una, <<>>)>>)
    <3>1. app[k].una \in 0..(MaxSent + 2)
      BY <1>a, <2>4
    <3>2. from_tun' \in Seq(TcpPacketInfo)
      BY <2>4, <3>1, <1>b, <1>d
    <3> QED
      BY <1>1, <1>7, <2>2, <3>2 DEF AppRetransmits
  <2> QED
    BY <1>7, <2>3, <2>4 DEF AppRetransmits
<1> QED
  BY <1>2, <1>3, <1>4, <1>5, <1>6, <1>7

(* What an application's end may become.                                    *)
LEMMA AppEndSet ==
  ASSUME TypeInv, NEW k \in TcpKey, NEW a \in AppEnd,
         a.st = "open" => a.una >= 1, app' = [app EXCEPT ![k] = a]
  PROVE  app' \in [TcpKey -> AppEnd] /\ OpenInv'
  BY DEF TypeInv, EnvInv, OpenInv

(* A packet from the host arrives.                                          *)
LEMMA AppReceivesType ==
  ASSUME TypeInv, AppReceives
  PROVE  TypeInv'
<1> DEFINE p == Head(to_tun)
           k == p.key
<1>0. /\ to_tun \in Seq(TcpPacket) /\ to_tun # <<>>
      /\ app \in [TcpKey -> AppEnd] /\ OpenInv /\ from_tun \in Seq(TcpPacketInfo)
  BY DEF TypeInv, IInv, ChannelTypeOK, EnvInv, AppReceives, WriteToTun
<1>1. p \in TcpPacket
  BY <1>0, HeadTail
<1>2. /\ k \in TcpKey /\ p.seq \in SeqNum /\ p.ack \in SeqNum /\ p.payload \in Seq(Byte)
      /\ Len(p.payload) \in Nat
  BY <1>1 DEF TcpPacket
<1> HIDE DEF p, k
<1>3. /\ app[k] \in AppEnd /\ (app[k].st = "open" => app[k].una >= 1)
      /\ app[k].sent \in 0..MaxSent /\ app[k].una \in SeqNum /\ app[k].rcv_nxt \in SeqNum
      /\ MaxSent \in Nat
  BY <1>0, <1>2, TunnelAssumption DEF AppEnd, OpenInv
<1>c. SeqNum = 0..(SeqSpace - 1) /\ SeqSpace \in Nat /\ MaxSent + 3 < SeqSpace
  BY TunnelAssumption, NatAssumption DEF SeqNum
<1>b. <<>> \in Payload
  BY SmallPayloads
<1>4. IInv'
  BY DrainInv DEF AppReceives, TypeInv
<1>5. RemoteInv' /\ UNCHANGED <<drops, dest, sent>>
  BY RemoteInvKept DEF AppReceives, TypeInv
<1>6. ASSUME app' \in [TcpKey -> AppEnd], OpenInv', from_tun' \in Seq(TcpPacketInfo)
      PROVE  TypeInv'
  BY <1>4, <1>5, <1>6 DEF TypeInv, EnvInv
<1>7. Ack(k) \in TcpPacketInfo
  <2>1. app[k].sent + (IF app[k].fin THEN 2 ELSE 1) \in 0..(MaxSent + 2)
    BY <1>3
  <2> QED
    BY <1>2, <1>b, <2>1, SegmentType DEF Ack, Flag
<1>8. Transmit(<<Ack(k)>>) => from_tun' \in Seq(TcpPacketInfo)
  BY <1>0, <1>7, TransmitType
<1>9. CASE AppOpens(k, p)
  <2> DEFINE w == WrappingAdd(p.seq, 1)
             a == [app[k] EXCEPT !.st = "open", !.una = 1, !.rcv_nxt = w]
  <2>0. p.seq \in Int
    BY <1>2, <1>c
  <2>1. w \in SeqNum
    BY <2>0, WrappingAddType
  <2>2. 1 \in SeqNum
    BY <1>3, <1>c
  <2>3. app' = [app EXCEPT ![k] = a]
    BY <1>9 DEF AppOpens
  <2> HIDE DEF w
  <2>4. a \in AppEnd
    BY <1>3, <2>1, <2>2 DEF AppEnd, AppState
  <2>5. a.una >= 1
    BY <1>3 DEF AppEnd
  <2> HIDE DEF a
  <2> QED
    BY <1>2, <1>6, <1>8, <1>9, <2>3, <2>4, <2>5, AppEndSet DEF AppOpens
<1>10. CASE AppTakes(k, p)
  <2> DEFINE una == AckUpTo(app[k], p)
             fin == "fin" \in p.flags
             n == Len(p.payload) + IF fin THEN 1 ELSE 0
             acked == [app[k] EXCEPT !.una = una]
             taken == [acked EXCEPT !.rcv_nxt = WrappingAdd(@, n),
                                    !.got = @ \o p.payload,
                                    !.rfin = @ \/ fin]
  <2>1. una \in SeqNum /\ una >= 1
    BY <1>2, <1>3, <1>10, <1>c DEF AckUpTo, AppTakes
  <2>2. acked \in AppEnd /\ acked.una >= 1 /\ acked.rcv_nxt = app[k].rcv_nxt
        /\ acked.got = app[k].got /\ acked.rfin = app[k].rfin
    <3> HIDE DEF una
    <3> QED
      BY <1>3, <2>1 DEF AppEnd
  <2>3. taken \in AppEnd /\ taken.una >= 1
    <3> DEFINE w == WrappingAdd(app[k].rcv_nxt, n)
               g == app[k].got \o p.payload
               r == app[k].rfin \/ fin
    <3>1. n \in Int /\ app[k].rcv_nxt \in Int
      BY <1>2, <1>3, <1>c
    <3>2. w \in SeqNum
      <4> HIDE DEF n
      <4> QED
        BY <3>1, WrappingAddType
    <3>3. g \in Seq(Byte)
      BY <1>2, <1>3 DEF AppEnd
    <3>4. r \in BOOLEAN
      OBVIOUS
    <3>5. taken = [acked EXCEPT !.rcv_nxt = w, !.got = g, !.rfin = r]
      BY <2>2
    <3> HIDE DEF w, g, r, acked, taken, n
    <3> QED
      BY <2>2, <3>2, <3>3, <3>4, <3>5 DEF AppEnd
  <2>4. app' = [app EXCEPT ![k] = IF InSequence(app[k], p) THEN taken ELSE acked]
    BY <1>10 DEF AppTakes
  <2>5. from_tun' \in Seq(TcpPacketInfo)
    <3>1. Transmit(<<Ack(k)>>) \/ Transmit(<<>>)
      BY <1>10 DEF AppTakes
    <3>2. Transmit(<<>>) => from_tun' \in Seq(TcpPacketInfo)
      BY <1>0 DEF Transmit
    <3> QED
      BY <1>8, <3>1, <3>2
  <2> DEFINE a == IF InSequence(app[k], p) THEN taken ELSE acked
  <2> HIDE DEF acked, taken
  <2>6. a \in AppEnd /\ a.una >= 1
    BY <2>2, <2>3
  <2>7. app' = [app EXCEPT ![k] = a]
    BY <2>4
  <2> HIDE DEF a
  <2> QED
    BY <1>2, <1>6, <2>5, <2>6, <2>7, AppEndSet
<1>11. CASE AppIsReset(k, p)
  <2>1. app' \in [TcpKey -> AppEnd] /\ OpenInv'
    BY <1>0, <1>3, <1>11 DEF AppIsReset, AppEnd, AppState, OpenInv
  <2> QED
    BY <1>0, <1>6, <1>11, <2>1 DEF AppIsReset
<1>12. CASE AppRefuses(k, p)
  <2>1. app[k].sent + 1 \in 0..(MaxSent + 2)
    BY <1>3
  <2>2. Segment(k, {"rst"}, app[k].sent + 1, <<>>) \in TcpPacketInfo
    BY <1>2, <1>b, <2>1, SegmentType DEF Flag
  <2>3. from_tun' \in Seq(TcpPacketInfo)
    BY <1>0, <1>12, <2>2, TransmitType DEF AppRefuses
  <2> QED
    BY <1>0, <1>6, <1>12, <2>3 DEF AppRefuses, OpenInv
<1>13. CASE AppIgnores(k, p)
  BY <1>0, <1>6, <1>13 DEF AppIgnores, OpenInv
<1> QED
  BY <1>9, <1>10, <1>11, <1>12, <1>13 DEF AppReceives, p, k

(* The TUN queue loses its newest packet.                                   *)
LEMMA TunDropsType ==
  ASSUME TypeInv, TunDrops
  PROVE  TypeInv'
<1>1. IInv' /\ RemoteInv'
  BY IInvKept, RemoteInvKept DEF TypeInv, TunDrops
<1>2. from_tun' \in Seq(TcpPacketInfo)
  BY DEF TypeInv, EnvInv, TunDrops
<1>3. drops' \in 0..MaxDrops
  BY TunnelAssumption DEF TypeInv, EnvInv, TunDrops
<1> QED
  BY <1>1, <1>2, <1>3 DEF TypeInv, EnvInv, OpenInv, TunDrops

(* What the host's handlers leave of the rest.                              *)
LEMMA HostReadsType ==
  ASSUME TypeInv, HostReads
  PROVE  TypeInv' /\ Head(from_tun) \in TcpPacketInfo
<1>1. /\ Head(from_tun) \in TcpPacketInfo /\ from_tun' \in Seq(TcpPacketInfo)
  BY HeadTail DEF HostReads, TypeInv, EnvInv
<1>2. IInv'
  BY <1>1, OutboundInv DEF HostReads, TypeInv
<1>3. RemoteInv' /\ UNCHANGED <<app, drops, dest>>
  BY RemoteInvKept DEF HostReads, TypeInv
<1>4. sent' \in Seq(HostMessage)
  <2> DEFINE m == Len(to_remote) + 1
             n == Len(to_remote')
  <2>1. to_remote' \in Seq(HostMessage) /\ m \in Nat \ {0} /\ n \in Nat
    BY <1>2 DEF TypeInv, IInv, ChannelTypeOK
  <2>2. SubSeq(to_remote', m, n) \in Seq(HostMessage)
    BY <2>1
  <2> QED
    BY <2>2 DEF HostReads, TypeInv, EnvInv
<1> QED
  BY <1>1, <1>2, <1>3, <1>4 DEF TypeInv, EnvInv, OpenInv

(* The host handles a message of the remote.                                *)
LEMMA HostTakesType ==
  ASSUME TypeInv, HostTakes
  PROVE  TypeInv' /\ Head(responses) \in RemoteMessage
<1>1. Head(responses) \in RemoteMessage /\ RemoteInv'
  BY WriteResponseInv DEF HostTakes, TypeInv
<1>2. IInv'
  BY <1>1, RemoteMessageInv DEF HostTakes, TypeInv
<1> QED
  BY <1>1, <1>2 DEF TypeInv, EnvInv, OpenInv, HostTakes

(* The remote handles a message of the host.                                *)
LEMMA RemoteTakesType ==
  ASSUME TypeInv, RemoteTakes
  PROVE  TypeInv' /\ Head(to_remote) \in HostMessage
<1>1. Head(to_remote) \in HostMessage
  BY HeadTail DEF RemoteTakes, SendToRemote, TypeInv, IInv, ChannelTypeOK
<1>2. IInv' /\ RemoteInv'
  BY <1>1, DrainInv, HostMessageRemoteInv DEF RemoteTakes, TypeInv
<1> QED
  BY <1>1, <1>2 DEF TypeInv, EnvInv, OpenInv, RemoteTakes

(* The remote's steps that the destinations' counters do not notice.        *)
LEMMA RemoteMovesType ==
  ASSUME TypeInv, NEW i \in ConnId,
         RemoteRuns(i) \/ LoopResumes \/ DestAnswers(i) \/ DestEnds(i)
  PROVE  TypeInv'
<1>1. UNCHANGED <<hostVars, app, from_tun, drops, dest, sent>>
  BY DEF RemoteRuns, LoopResumes, DestAnswers, DestEnds, RemoteOnly
<1>2. RemoteInv'
  BY TaskStepsInv, LoopResumesInv, DestStepsInv
  DEF RemoteRuns, LoopResumes, DestAnswers, DestEnds, TypeInv
<1> QED
  BY <1>1, <1>2, IInvKept DEF TypeInv, EnvInv, OpenInv

(* Every step keeps the types.                                              *)
LEMMA NextTypeInv ==
  ASSUME TypeInv, [TunnelNext]_tunnelVars
  PROVE  TypeInv'
<1>1. ASSUME LoopResumes PROVE TypeInv'
  <2>1. RemoteInv'
    BY <1>1, LoopResumesInv DEF LoopResumes, TypeInv
  <2> QED
    BY <1>1, <2>1, IInvKept DEF TypeInv, EnvInv, OpenInv, LoopResumes, RemoteOnly
<1>2. UNCHANGED tunnelVars => TypeInv'
  BY IInvKept, RemoteInvKept DEF tunnelVars, TypeInv, EnvInv, OpenInv
<1>3. AppNext => TypeInv'
  BY AppActsType, AppReceivesType, TunDropsType DEF AppNext
<1>4. RemoteNext => TypeInv'
  BY <1>1, RemoteTakesType, RemoteMovesType, DestType DEF RemoteNext
<1> QED
  BY <1>2, <1>3, <1>4, HostReadsType, HostTakesType DEF TunnelNext

(* And they hold at the start.                                              *)
LEMMA InitTypeInv ==
  ASSUME TunnelInit
  PROVE  TypeInv
<1>1. IInv
  <2>1. NatIInv
    BY NatAssumption
    DEF TunnelInit, HostInit, NatInit, NatIInv, NatTypeOK, IdsBelowNext, KeysResolve,
        StaleIdsAreOlder
  <2>2. ChannelTypeOK
    BY HostAssumption DEF TunnelInit, HostInit, ChannelTypeOK
  <2> QED
    BY <2>1, <2>2 DEF IInv
<1>2. RemoteInv
  <2>1. <<>> \in Seq(Payload) /\ Len(<<>>) = 0 /\ <<>> \in Seq(RemoteMessage)
    OBVIOUS
  <2> QED
    BY <2>1, SmallPayloads, TunnelAssumption
    DEF TunnelInit, R!RemoteInit, RemoteInv, R!TaskState, LoopTypes
<1>3. EnvInv
  <2>1. 0 \in SeqNum /\ 0 \in 0..MaxSyns /\ 0 \in 0..MaxSent /\ 0 \in 0..MaxRetx
        /\ 0 \in 0..MaxReads /\ 0 \in 0..MaxDrops
    BY ZeroSeqNum, TunnelAssumption
  <2>2. <<>> \in Seq(Byte) /\ <<>> \in Seq(HostMessage) /\ <<>> \in Seq(TcpPacketInfo)
    OBVIOUS
  <2> DEFINE a == [st |-> "closed", syns |-> 0, sent |-> 0, fin |-> FALSE,
                   una |-> 0, retx |-> 0, rcv_nxt |-> 0, got |-> <<>>, rfin |-> FALSE]
  <2>3. a \in AppEnd /\ a.st # "open"
    BY <2>1, <2>2 DEF AppEnd, AppState
  <2>4. app = [k \in TcpKey |-> a]
    BY DEF TunnelInit
  <2>5. app \in [TcpKey -> AppEnd] /\ OpenInv
    <3> HIDE DEF a
    <3> QED
      BY <2>3, <2>4 DEF OpenInv
  <2>6. dest \in [ConnId -> [got : Seq(Byte), sent : 0..MaxReads]]
    BY <2>1, <2>2 DEF TunnelInit
  <2> QED
    BY <2>1, <2>2, <2>5, <2>6 DEF TunnelInit, EnvInv
<1> QED
  BY <1>1, <1>2, <1>3 DEF TypeInv

(* TunnelTypeOK: whatever the applications send, lose and repeat, and       *)
(* whatever the destinations do, every packet and message the handlers      *)
(* build is well formed and of a connection id handed out, the made-up      *)
(* sequence numbers wrap (nat.rs:125, mod.rs:538-554), and no channel holds *)
(* more than its capacity (host/mod.rs:131, :134, remote/mod.rs:36, :178).  *)
THEOREM TunnelTypeCorrect == TunnelSpec => []TunnelTypeOK
<1> QED
  BY InitTypeInv, NextTypeInv, TypeInvGives, PTL DEF TunnelSpec
=============================================================================
