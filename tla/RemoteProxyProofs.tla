------------------------- MODULE RemoteProxyProofs -------------------------
(***************************************************************************)
(* What TLAPS proves of RemoteProxy for every number of connections, every  *)
(* assignment of ids to shards and every channel capacity: types, and the   *)
(* two safety invariants of the remote process.                             *)
(*                                                                         *)
(* LossOnlyBeforeInsert is not inductive.  A block may be discarded only    *)
(* when the handle is missing; that no relayed connection to which the host *)
(* still sends is without its handle is RemovedWasClosed.  The run of       *)
(* blocks starts from nothing at the insertion: UntouchedBeforeInsert, and  *)
(* GuardKeepsEntry with HandlesHaveTasks for the block in the loop's hand.  *)
(***************************************************************************)
EXTENDS RemoteProxy, SequenceTheorems, TLAPS

(* The loop's states, by their program counter.                             *)
LEMMA LoopStates ==
  ASSUME remote_loop \in LoopState
  PROVE  /\ remote_loop.pc \in {"select", "exited", "sending", "removing"}
         /\ remote_loop.pc \in {"sending", "removing"} => remote_loop.id \in Id
         /\ remote_loop.pc = "sending" => remote_loop.data \in Seq(Byte)
  BY DEF LoopState

(* The block a task holds when it holds none.                               *)
LEMMA EmptyBlock == <<>> \in Seq(Byte)
  OBVIOUS

(* A send of the loop appends to one channel with room, waits, or gets      *)
(* stuck.                                                                   *)
LEMMA SendToTaskType ==
  ASSUME RemoteTypeOK, NEW i \in Id, NEW data \in Seq(Byte), SendToTask(i, data)
  PROVE  /\ rx' \in [Id -> Seq(Seq(Byte))]
         /\ \A j \in Id : Len(rx'[j]) <= ConnChanCap
         /\ remote_loop' \in LoopState
<1>1. CASE UNCHANGED rx
  <2>1. remote_loop' \in LoopState
    BY DEF SendToTask, LoopState
  <2> QED
    BY <1>1, <2>1 DEF RemoteTypeOK
<1>2. CASE /\ Len(rx[i]) < ConnChanCap
           /\ rx' = [rx EXCEPT ![i] = Append(@, data)]
           /\ remote_loop' = [pc |-> "select"]
  <2>1. rx[i] \in Seq(Seq(Byte)) /\ Append(rx[i], data) \in Seq(Seq(Byte))
    BY DEF RemoteTypeOK
  <2>2. Len(Append(rx[i], data)) = Len(rx[i]) + 1
    BY <2>1
  <2>3. Len(Append(rx[i], data)) <= ConnChanCap
    BY <1>2, <2>1, <2>2, RemoteAssumption
  <2>4. remote_loop' \in LoopState
    BY <1>2 DEF LoopState
  <2> QED
    BY <1>2, <2>1, <2>3, <2>4 DEF RemoteTypeOK
<1> QED
  BY <1>1, <1>2 DEF SendToTask

(* A response fits in the channel.                                          *)
LEMMA RespondType ==
  ASSUME RemoteTypeOK, NEW msg \in Response, Respond(msg)
  PROVE  responses' \in Seq(Response) /\ Len(responses') <= RespChanCap
  BY RemoteAssumption DEF RemoteTypeOK, Respond

(* A task goes to one of its places.                                        *)
LEMMA TaskType ==
  ASSUME RemoteTypeOK, NEW i \in Id, NEW state \in TaskState, Goto(i, state)
  PROVE  task' \in [Id -> TaskState]
  BY DEF RemoteTypeOK, Goto

(* The handler of a host message keeps the types.                           *)
LEMMA MessageType ==
  ASSUME RemoteTypeOK, NEW i \in Id, NEW m, m.id = i,
         m.type = "TcpData" => m.data \in Seq(Byte),
         HandleHostMessage(m)
  PROVE  RemoteTypeOK'
<1>1. CASE OnTcpConnect(m)
  BY <1>1 DEF OnTcpConnect, Goto, RemoteTypeOK, TaskState
<1>2. CASE OnTcpData(m)
  <2>1. CASE m.id \in handles
    <3>1. SendToTask(i, m.data) /\ m.data \in Seq(Byte)
      BY <1>2, <2>1 DEF OnTcpData
    <3>2. /\ rx' \in [Id -> Seq(Seq(Byte))]
          /\ \A j \in Id : Len(rx'[j]) <= ConnChanCap
          /\ remote_loop' \in LoopState
      BY <3>1, SendToTaskType
    <3> QED
      BY <1>2, <3>2 DEF OnTcpData, RemoteTypeOK
  <2>2. CASE m.id \notin handles
    BY <1>2, <2>2 DEF OnTcpData, RemoteTypeOK
  <2> QED
    BY <2>1, <2>2
<1>3. CASE OnTcpClose(m)
  BY <1>3 DEF OnTcpClose, RemoteTypeOK
<1> QED
  BY <1>1, <1>2, <1>3 DEF HandleHostMessage

(* The loop's own steps keep the types.                                     *)
LEMMA LoopType ==
  ASSUME RemoteTypeOK, LoopResumes \/ WriteResponse \/ LoopExits
  PROVE  RemoteTypeOK'
<1>1. CASE LoopResumes
  <2>1. /\ SendToTask(remote_loop.id, remote_loop.data)
        /\ remote_loop.id \in Id /\ remote_loop.data \in Seq(Byte)
    BY <1>1, LoopStates DEF LoopResumes, RemoteTypeOK
  <2>2. /\ rx' \in [Id -> Seq(Seq(Byte))]
        /\ \A j \in Id : Len(rx'[j]) <= ConnChanCap
        /\ remote_loop' \in LoopState
    BY <2>1, SendToTaskType
  <2> QED
    BY <1>1, <2>2 DEF LoopResumes, RemoteTypeOK
<1>2. CASE WriteResponse
  <2>1. responses' \in Seq(Response) /\ Len(responses') = Len(responses) - 1
    BY <1>2 DEF WriteResponse, RemoteTypeOK
  <2>2. Len(responses') <= RespChanCap
    BY <2>1, RemoteAssumption DEF RemoteTypeOK
  <2> QED
    BY <1>2, <2>1, <2>2 DEF WriteResponse, RemoteTypeOK
<1>3. CASE LoopExits
  BY <1>3 DEF LoopExits, RemoteTypeOK, LoopState
<1> QED
  BY <1>1, <1>2, <1>3

(* A block moves from the channel to the hand of the task.                  *)
LEMMA TakeFromHostType ==
  ASSUME RemoteTypeOK, NEW i \in Id, TakeFromHost(i)
  PROVE  RemoteTypeOK'
<1>1. /\ Head(rx[i]) \in Seq(Byte) /\ Tail(rx[i]) \in Seq(Seq(Byte))
      /\ Len(Tail(rx[i])) = Len(rx[i]) - 1
  BY DEF RemoteTypeOK, TakeFromHost
<1>2. Len(Tail(rx[i])) <= ConnChanCap
  BY <1>1, RemoteAssumption DEF RemoteTypeOK
<1>3. task' \in [Id -> TaskState]
  BY TaskType DEF TakeFromHost, TaskState
<1>4. hand' \in [Id -> Seq(Byte)]
  BY <1>1 DEF RemoteTypeOK, TakeFromHost
<1>5. rx' \in [Id -> Seq(Seq(Byte))] /\ \A j \in Id : Len(rx'[j]) <= ConnChanCap
  BY <1>1, <1>2 DEF RemoteTypeOK, TakeFromHost
<1> QED
  BY <1>3, <1>4, <1>5 DEF RemoteTypeOK, TakeFromHost

(* The steps of a task that send a response keep the types.                 *)
LEMMA RespondingType ==
  ASSUME RemoteTypeOK, NEW i \in Id,
         \/ Refuse(i) \/ Announce(i)
         \/ SendData(i) \/ SendError(i) \/ SendClosed(i)
  PROVE  RemoteTypeOK'
<1>1. /\ {Connected(i), Closed(i), Error(i)} \subseteq Response
      /\ Data(i, hand[i]) \in Response
  BY DEF Connected, Closed, Error, Data, Response, RemoteTypeOK
<1>2. responses' \in Seq(Response) /\ Len(responses') <= RespChanCap
  BY <1>1, RespondType DEF Refuse, Announce, SendData, SendError, SendClosed
<1>3. task' \in [Id -> TaskState]
  BY TaskType DEF Refuse, Announce, SendData, SendError, SendClosed, TaskState
<1>4. rx' \in [Id -> Seq(Seq(Byte))] /\ \A j \in Id : Len(rx'[j]) <= ConnChanCap
  <2>1. CASE SendClosed(i)
    BY <2>1, RemoteAssumption DEF SendClosed, RemoteTypeOK
  <2>2. CASE ~SendClosed(i)
    BY <2>2 DEF Refuse, Announce, SendData, SendError, RemoteTypeOK
  <2> QED
    BY <2>1, <2>2
<1>5. hand' \in [Id -> Seq(Byte)]
  <2>1. CASE hand' = [hand EXCEPT ![i] = <<>>]
    BY <2>1, EmptyBlock DEF RemoteTypeOK
  <2>2. CASE UNCHANGED hand
    BY <2>2 DEF RemoteTypeOK
  <2> QED
    BY <2>1, <2>2 DEF Refuse, Announce, SendData, SendError, SendClosed
<1>6. UNCHANGED <<handles, remote_loop>>
  BY DEF Refuse, Announce, SendData, SendError, SendClosed
<1> QED
  BY <1>2, <1>3, <1>4, <1>5, <1>6 DEF RemoteTypeOK

(* The steps of a task that only move it, or edit the map, keep the types.  *)
LEMMA TaskOnlyType ==
  ASSUME RemoteTypeOK, NEW i \in Id,
         \/ Connects(i) \/ InsertHandle(i) \/ ChannelClosed(i) \/ DestEof(i)
         \/ DestFails(i) \/ WriteAll(i) \/ RemoveHandle(i)
  PROVE  RemoteTypeOK'
<1>1. task' \in [Id -> TaskState]
  BY TaskType DEF Connects, InsertHandle, ChannelClosed, DestEof, DestFails,
                  WriteAll, RemoveHandle, TaskState
<1>2. handles' \subseteq Id
  BY DEF Connects, InsertHandle, ChannelClosed, DestEof, DestFails, WriteAll,
         RemoveHandle, RemoteTypeOK
<1>3. hand' \in [Id -> Seq(Byte)]
  <2>1. CASE hand' = [hand EXCEPT ![i] = <<>>]
    BY <2>1, EmptyBlock DEF RemoteTypeOK
  <2>2. CASE UNCHANGED hand
    BY <2>2 DEF RemoteTypeOK
  <2> QED
    BY <2>1, <2>2 DEF Connects, InsertHandle, ChannelClosed, DestEof,
                      DestFails, WriteAll, RemoveHandle
<1>4. UNCHANGED <<rx, responses, remote_loop>>
  BY DEF Connects, InsertHandle, ChannelClosed, DestEof, DestFails, WriteAll,
         RemoveHandle
<1> QED
  BY <1>1, <1>2, <1>3, <1>4 DEF RemoteTypeOK

(* The host's blocks and the destinations' are payloads.                    *)
LEMMA BlockType ==
  ASSUME NEW i \in Id, NEW n \in Nat, n < MaxBlocks[i] \/ n < MaxReads[i]
  PROVE  <<n + 1>> \in Seq(Byte)
<1>1. n + 1 \in Byte
  BY ProxyAssumption
<1> QED
  BY <1>1

(* A counter below its bound is counted up.                                 *)
LEMMA CountType ==
  ASSUME NEW count \in [Id -> Nat], NEW max \in [Id -> Nat],
         \A i \in Id : count[i] <= max[i],
         NEW j \in Id, count[j] < max[j]
  PROVE  LET c == [count EXCEPT ![j] = @ + 1]
         IN  c \in [Id -> Nat] /\ \A i \in Id : c[i] <= max[i]
<1>1. count[j] \in Nat /\ max[j] \in Nat
  OBVIOUS
<1>2. count[j] + 1 \in Nat /\ count[j] + 1 <= max[j]
  BY <1>1
<1> QED
  BY <1>2

(* Every step keeps the types.                                              *)
LEMMA ProxyTypeStep ==
  ASSUME ProxyTypeOK, [ProxyNext]_proxyVars
  PROVE  ProxyTypeOK'
<1> USE DEF ProxyTypeOK
<1>1. ASSUME NEW i \in Id, HostConnects(i)
      PROVE  ProxyTypeOK'
  BY <1>1, MessageType DEF HostConnects, envVars
<1>2. ASSUME NEW i \in Id, HostSends(i)
      PROVE  ProxyTypeOK'
  <2>1. <<host_sent[i] + 1>> \in Seq(Byte)
    BY <1>2, BlockType DEF HostSends
  <2>2. RemoteTypeOK'
    BY <1>2, <2>1, MessageType DEF HostSends, Data
  <2>3. /\ host_sent' \in [Id -> Nat]
        /\ \A j \in Id : host_sent'[j] <= MaxBlocks[j]
    BY <1>2, CountType, ProxyAssumption DEF HostSends
  <2> QED
    BY <1>2, <2>2, <2>3 DEF HostSends
<1>3. ASSUME NEW i \in Id, HostCloses(i)
      PROVE  ProxyTypeOK'
  <2>1. RemoteTypeOK'
    BY <1>3, MessageType DEF HostCloses
  <2> QED
    BY <1>3, <2>1 DEF HostCloses
<1>4. CASE SessionEnds
  BY <1>4 DEF SessionEnds, remoteVars, RemoteTypeOK
<1>5. CASE ReadsEof \/ LoopRuns
  <2>1. RemoteTypeOK'
    BY <1>5, LoopType DEF ReadsEof, LoopRuns, LoopWrites
  <2>2. CASE LoopWrites
    BY <2>1, <2>2 DEF LoopWrites
  <2>3. CASE UNCHANGED envVars
    BY <2>1, <2>3 DEF envVars
  <2> QED
    BY <1>5, <2>2, <2>3 DEF ReadsEof, LoopRuns
<1>6. ASSUME NEW i \in Id, DestAnswers(i) \/ DestEnds(i)
      PROVE  ProxyTypeOK'
  <2>1. RemoteTypeOK'
    BY <1>6, TaskOnlyType DEF DestAnswers, DestEnds
  <2> QED
    BY <1>6, <2>1 DEF DestAnswers, DestEnds, envVars
<1>7. ASSUME NEW i \in Id, DestSends(i)
      PROVE  ProxyTypeOK'
  <2>1. <<dest_sent[i] + 1>> \in Seq(Byte)
    BY <1>7, BlockType DEF DestSends
  <2>2. task' \in [Id -> TaskState]
    BY <1>7, TaskType DEF DestSends, ReadFromDest, TaskState
  <2>3. RemoteTypeOK'
    BY <1>7, <2>1, <2>2 DEF DestSends, ReadFromDest, RemoteTypeOK
  <2>4. /\ dest_sent' \in [Id -> Nat]
        /\ \A j \in Id : dest_sent'[j] <= MaxReads[j]
    BY <1>7, CountType, ProxyAssumption DEF DestSends
  <2> QED
    BY <1>7, <2>3, <2>4 DEF DestSends
<1>8. ASSUME NEW i \in Id, DestAccepts(i)
      PROVE  ProxyTypeOK'
  <2>1. RemoteTypeOK'
    BY <1>8, TaskOnlyType DEF DestAccepts
  <2>2. Append(delivered[i], hand[i]) \in Seq(Seq(Byte))
    BY DEF RemoteTypeOK
  <2> QED
    BY <1>8, <2>1, <2>2 DEF DestAccepts
<1>9. ASSUME NEW i \in Id, TaskRuns(i)
      PROVE  ProxyTypeOK'
  <2>1. RemoteTypeOK'
    BY <1>9, TakeFromHostType, RespondingType, TaskOnlyType
       DEF TaskRuns, TaskSteps
  <2> QED
    BY <1>9, <2>1 DEF TaskRuns, envVars
<1>10. CASE UNCHANGED proxyVars
  BY <1>10 DEF proxyVars, remoteVars, envVars, RemoteTypeOK
<1> QED
  BY <1>1, <1>2, <1>3, <1>4, <1>5, <1>6, <1>7, <1>8, <1>9, <1>10 DEF ProxyNext

-----------------------------------------------------------------------------
(* The host's steps, by what they do to the remote.  A connect starts a     *)
(* task and touches no other part.                                          *)
LEMMA ConnectStep ==
  ASSUME NEW i, HostConnects(i)
  PROVE  /\ task[i] = "none" /\ Goto(i, "connecting")
         /\ UNCHANGED <<handles, rx, hand, remote_loop, envVars>>
  BY DEF HostConnects, HandleHostMessage, OnTcpConnect, OnTcpData, OnTcpClose

(* A data block of the host enters the channel if there is a handle.        *)
LEMMA SendStep ==
  ASSUME NEW i, HostSends(i)
  PROVE  /\ remote_loop.pc = "select" /\ Announced(i) /\ i \notin host_closed
         /\ IF i \in handles THEN SendToTask(i, <<host_sent[i] + 1>>)
            ELSE UNCHANGED <<rx, remote_loop>>
         /\ host_sent' = [host_sent EXCEPT ![i] = @ + 1]
         /\ UNCHANGED <<handles, task, hand, host_closed, delivered>>
<1>1. HandleHostMessage(Data(i, <<host_sent[i] + 1>>))
  BY DEF HostSends
<1>2. /\ Data(i, <<host_sent[i] + 1>>).type = "TcpData"
      /\ Data(i, <<host_sent[i] + 1>>).id = i
      /\ Data(i, <<host_sent[i] + 1>>).data = <<host_sent[i] + 1>>
  BY DEF Data
<1>3. remote_loop.pc = "select" /\ OnTcpData(Data(i, <<host_sent[i] + 1>>))
  BY <1>1, <1>2 DEF HandleHostMessage, OnTcpConnect, OnTcpClose
<1> QED
  BY <1>2, <1>3 DEF OnTcpData, HostSends

(* A close of the host takes the handle away.                               *)
LEMMA CloseStep ==
  ASSUME NEW i, HostCloses(i)
  PROVE  /\ remote_loop.pc = "select"
         /\ handles' = handles \ {i} /\ host_closed' = host_closed \cup {i}
         /\ UNCHANGED <<task, rx, hand, remote_loop, host_sent, delivered>>
  BY DEF HostCloses, HandleHostMessage, OnTcpConnect, OnTcpData, OnTcpClose

(* The steps that touch neither the map nor the loop's place.               *)
Elsewhere(i) ==
  \/ HostConnects(i) \/ DestAnswers(i) \/ DestSends(i) \/ DestEnds(i)
  \/ DestAccepts(i)
  \/ Refuse(i) \/ Announce(i) \/ TakeFromHost(i) \/ ChannelClosed(i)
  \/ SendData(i) \/ SendError(i) \/ SendClosed(i)

(* They leave the map and the loop alone.                                   *)
LEMMA ElsewhereStep ==
  ASSUME NEW i, Elsewhere(i)
  PROVE  UNCHANGED <<handles, remote_loop>>
  BY ConnectStep
     DEF Elsewhere, DestAnswers, Connects, DestSends, ReadFromDest, DestEnds,
         DestEof, DestFails, DestAccepts, WriteAll, Refuse, Announce,
         TakeFromHost, ChannelClosed, SendData, SendError, SendClosed

(* The entry the loop holds a guard on stays in the map, because the guard  *)
(* locks its shard.                                                         *)
GuardKeepsEntry ==
  remote_loop.pc \in {"sending", "removing"} => remote_loop.id \in handles

(* Only InsertHandle, RemoveHandle and the host's close edit the map: the   *)
(* second waits for the guard, and the last is the loop's own step.         *)
LEMMA GuardStep ==
  ASSUME GuardKeepsEntry, [ProxyNext]_proxyVars
  PROVE  GuardKeepsEntry'
<1> USE DEF GuardKeepsEntry
<1>1. ASSUME NEW i \in Id, NEW data, i \in handles, SendToTask(i, data),
             UNCHANGED handles
      PROVE  GuardKeepsEntry'
  BY <1>1 DEF SendToTask
<1>2. ASSUME NEW i \in Id, HostSends(i)
      PROVE  GuardKeepsEntry'
  BY <1>1, <1>2, SendStep
<1>3. ASSUME NEW i \in Id, HostCloses(i)
      PROVE  GuardKeepsEntry'
  BY <1>3, CloseStep
<1>4. ASSUME NEW i \in Id, Elsewhere(i)
      PROVE  GuardKeepsEntry'
  BY <1>4, ElsewhereStep
<1>5. ASSUME NEW i \in Id, InsertHandle(i)
      PROVE  GuardKeepsEntry'
  BY <1>5 DEF InsertHandle
<1>6. ASSUME NEW i \in Id, RemoveHandle(i)
      PROVE  GuardKeepsEntry'
  <2>1. remote_loop.pc \in {"sending", "removing"} => remote_loop.id # i
    BY <1>6 DEF RemoveHandle, GuardHeld
  <2> QED
    BY <1>6, <2>1 DEF RemoveHandle
<1>7. CASE LoopRuns
  <2>1. CASE LoopResumes
    BY <2>1 DEF LoopResumes, SendToTask
  <2>2. CASE LoopWrites
    BY <2>2 DEF LoopWrites, WriteResponse
  <2> QED
    BY <1>7, <2>1, <2>2 DEF LoopRuns
<1>8. CASE SessionEnds \/ ReadsEof \/ UNCHANGED proxyVars
  BY <1>8 DEF SessionEnds, ReadsEof, LoopExits, proxyVars, remoteVars
<1> QED
  BY <1>2, <1>3, <1>4, <1>5, <1>6, <1>7, <1>8
     DEF ProxyNext, TaskRuns, TaskSteps, Elsewhere

-----------------------------------------------------------------------------
(* An entry of the map has a task behind it.                                *)

Serving == {"relay", "writing", "replying", "erring", "closing", "removing"}

(* The steps of one task, by where they take it.                            *)
LEMMA ServingStep ==
  ASSUME ProxyTypeOK, NEW i \in Id, Elsewhere(i) \/ InsertHandle(i)
  PROVE  /\ \A j \in Id : j # i => task'[j] = task[j]
         /\ task[i] \in Serving \/ InsertHandle(i) => task'[i] \in Serving
<1>1. ASSUME NEW state, Goto(i, state)
      PROVE  task'[i] = state /\ \A j \in Id : j # i => task'[j] = task[j]
  BY <1>1 DEF Goto, ProxyTypeOK, RemoteTypeOK
<1>2. CASE \/ HostConnects(i) \/ DestAnswers(i) \/ Refuse(i) \/ Announce(i)
  <2>1. task[i] \notin Serving /\ ~InsertHandle(i)
    BY <1>2, ConnectStep
       DEF DestAnswers, Connects, Refuse, Announce, InsertHandle, At, Serving
  <2>2. \E state : Goto(i, state)
    BY <1>2, ConnectStep DEF DestAnswers, Connects, Refuse, Announce
  <2> QED
    BY <1>1, <2>1, <2>2
<1>3. CASE ~(HostConnects(i) \/ DestAnswers(i) \/ Refuse(i) \/ Announce(i))
  <2>1. \E state \in Serving : Goto(i, state)
    BY <1>3
       DEF Elsewhere, InsertHandle, DestSends, ReadFromDest, DestEnds, DestEof,
           DestFails, DestAccepts, WriteAll, TakeFromHost, ChannelClosed,
           SendData, SendError, SendClosed, Serving
  <2> QED
    BY <1>1, <2>1
<1> QED
  BY <1>2, <1>3

(* A task leaves the places from which it will remove its handle only by    *)
(* removing it.                                                             *)
LEMMA HandlesStep ==
  ASSUME ProxyTypeOK, HandlesHaveTasks, [ProxyNext]_proxyVars
  PROVE  HandlesHaveTasks'
<1> USE DEF HandlesHaveTasks, Serving
<1>1. ASSUME NEW i \in Id, HostSends(i) \/ HostCloses(i)
      PROVE  HandlesHaveTasks'
  BY <1>1, SendStep, CloseStep
<1>2. ASSUME NEW i \in Id, Elsewhere(i)
      PROVE  HandlesHaveTasks'
  BY <1>2, ElsewhereStep, ServingStep DEF ProxyTypeOK, RemoteTypeOK
<1>3. ASSUME NEW i \in Id, InsertHandle(i)
      PROVE  HandlesHaveTasks'
  <2>1. handles' = handles \cup {i} /\ handles \subseteq Id
    BY <1>3 DEF InsertHandle, ProxyTypeOK, RemoteTypeOK
  <2> QED
    BY <1>3, <2>1, ServingStep
<1>4. ASSUME NEW i \in Id, RemoveHandle(i)
      PROVE  HandlesHaveTasks'
  <2>1. /\ handles' = handles \ {i} /\ handles \subseteq Id
        /\ \A j \in Id : j # i => task'[j] = task[j]
    BY <1>4 DEF RemoveHandle, Goto, ProxyTypeOK, RemoteTypeOK
  <2> QED
    BY <2>1
<1>5. CASE LoopRuns \/ SessionEnds \/ ReadsEof \/ UNCHANGED proxyVars
  BY <1>5 DEF LoopRuns, LoopResumes, LoopWrites, WriteResponse, SessionEnds,
              ReadsEof, LoopExits, proxyVars, remoteVars
<1> QED
  BY <1>1, <1>2, <1>3, <1>4, <1>5 DEF ProxyNext, TaskRuns, TaskSteps, Elsewhere

-----------------------------------------------------------------------------
(* Nothing reaches a connection before its handle is inserted.              *)
BeforeInsert ==
  {"none", "connecting", "announcing", "refused", "inserting"}

UntouchedBeforeInsert ==
  \A i \in Id :
    task[i] \in BeforeInsert => rx[i] = <<>> /\ delivered[i] = <<>>

(* A connection that is relayed without a handle is one the host has closed:*)
(* the host sends it nothing more.                                          *)
RemovedWasClosed ==
  \A i \in Id : Relaying(i) /\ i \notin handles => i \in host_closed

ProxyIInv ==
  /\ ProxyTypeOK
  /\ GuardKeepsEntry
  /\ HandlesHaveTasks
  /\ UntouchedBeforeInsert
  /\ RemovedWasClosed
  /\ LossOnlyBeforeInsert

(* A connection the loop sends to or waits for is past its insertion.       *)
LEMMA HandleIsInserted ==
  ASSUME HandlesHaveTasks, NEW i \in handles
  PROVE  task[i] \notin BeforeInsert
  BY DEF HandlesHaveTasks, BeforeInsert

(* A send of the loop changes one channel, that of a connection with a      *)
(* handle.                                                                  *)
LEMMA SendElsewhere ==
  ASSUME ProxyTypeOK, NEW i, NEW data, SendToTask(i, data), NEW j \in Id, j # i
  PROVE  rx'[j] = rx[j]
  BY DEF SendToTask, ProxyTypeOK, RemoteTypeOK

(* The loop reaches a channel only through a handle, and a handle has a     *)
(* task that is past its insertion.                                         *)
LEMMA UntouchedStep ==
  ASSUME ProxyTypeOK, GuardKeepsEntry, HandlesHaveTasks,
         UntouchedBeforeInsert, [ProxyNext]_proxyVars
  PROVE  UntouchedBeforeInsert'
<1> USE DEF UntouchedBeforeInsert
<1>1. ASSUME NEW i \in Id, HostSends(i)
      PROVE  UntouchedBeforeInsert'
  <2>1. CASE i \in handles
    BY <1>1, <2>1, SendStep, HandleIsInserted, SendElsewhere
  <2>2. CASE i \notin handles
    BY <1>1, <2>2, SendStep
  <2> QED
    BY <2>1, <2>2
<1>2. CASE LoopResumes /\ UNCHANGED envVars
  <2> DEFINE i == remote_loop.id
  <2>1. i \in handles /\ SendToTask(i, remote_loop.data)
    BY <1>2 DEF LoopResumes, GuardKeepsEntry
  <2>2. UNCHANGED <<task, delivered>>
    BY <1>2 DEF LoopResumes, envVars
  <2> HIDE DEF i
  <2> QED
    BY <2>1, <2>2, HandleIsInserted, SendElsewhere
<1>3. ASSUME NEW i \in Id, HostCloses(i)
      PROVE  UntouchedBeforeInsert'
  BY <1>3, CloseStep
<1>4. CASE SessionEnds \/ ReadsEof \/ UNCHANGED proxyVars
  BY <1>4 DEF SessionEnds, ReadsEof, LoopExits, proxyVars, remoteVars, envVars
<1>5. ASSUME NEW i \in Id,
             \/ HostConnects(i) \/ DestAnswers(i)
             \/ UNCHANGED envVars /\ (Refuse(i) \/ Announce(i))
      PROVE  UntouchedBeforeInsert'
  <2>1. task[i] \in BeforeInsert
    BY <1>5, ConnectStep
       DEF DestAnswers, Connects, Refuse, Announce, At, BeforeInsert
  <2>2. \A j \in Id : j # i => task'[j] = task[j]
    BY <1>5, ServingStep DEF Elsewhere
  <2>3. UNCHANGED <<rx, delivered>>
    BY <1>5, ConnectStep DEF DestAnswers, Connects, Refuse, Announce, envVars
  <2> QED
    BY <2>1, <2>2, <2>3
<1>6. ASSUME NEW i \in Id,
             \/ DestSends(i) \/ DestEnds(i) \/ DestAccepts(i)
             \/ /\ UNCHANGED envVars
                /\ \/ InsertHandle(i) \/ TakeFromHost(i) \/ ChannelClosed(i)
                   \/ SendData(i) \/ SendError(i) \/ SendClosed(i)
                   \/ RemoveHandle(i)
      PROVE  UntouchedBeforeInsert'
  <2>1. task'[i] \notin BeforeInsert
    BY <1>6
       DEF DestSends, ReadFromDest, DestEnds, DestEof, DestFails, DestAccepts,
           WriteAll, InsertHandle, TakeFromHost, ChannelClosed, SendData,
           SendError, SendClosed, RemoveHandle, Goto, ProxyTypeOK,
           RemoteTypeOK, BeforeInsert
  <2>2. \A j \in Id : j # i =>
          task'[j] = task[j] /\ rx'[j] = rx[j] /\ delivered'[j] = delivered[j]
    BY <1>6
       DEF DestSends, ReadFromDest, DestEnds, DestEof, DestFails, DestAccepts,
           WriteAll, InsertHandle, TakeFromHost, ChannelClosed, SendData,
           SendError, SendClosed, RemoveHandle, Goto, ProxyTypeOK,
           RemoteTypeOK, envVars
  <2> QED
    BY <2>1, <2>2
<1>7. ASSUME NEW i \in Id, TaskRuns(i)
      PROVE  UntouchedBeforeInsert'
  BY <1>5, <1>6, <1>7 DEF TaskRuns, TaskSteps
<1>8. CASE LoopRuns
  <2>1. CASE LoopWrites
    BY <2>1 DEF LoopWrites, WriteResponse
  <2> QED
    BY <1>2, <1>8, <2>1 DEF LoopRuns
<1> QED
  BY <1>1, <1>3, <1>4, <1>5, <1>6, <1>7, <1>8 DEF ProxyNext

(* Only the host's close takes the handle of a connection that is relayed.  *)
LEMMA RemovedStep ==
  ASSUME ProxyTypeOK, RemovedWasClosed, [ProxyNext]_proxyVars
  PROVE  RemovedWasClosed'
<1> USE DEF RemovedWasClosed, Relaying
<1>1. ASSUME NEW i \in Id, HostSends(i) \/ HostCloses(i)
      PROVE  RemovedWasClosed'
  BY <1>1, SendStep, CloseStep
<1>2. CASE LoopRuns \/ SessionEnds \/ ReadsEof \/ UNCHANGED proxyVars
  BY <1>2 DEF LoopRuns, LoopResumes, LoopWrites, WriteResponse, SessionEnds,
              ReadsEof, LoopExits, proxyVars, remoteVars, envVars
<1>3. ASSUME NEW i \in Id, DestAccepts(i) \/ DestSends(i)
      PROVE  RemovedWasClosed'
  BY <1>3 DEF DestAccepts, WriteAll, DestSends, ReadFromDest, At, Goto,
              ProxyTypeOK, RemoteTypeOK
<1>4. ASSUME NEW i \in Id, HostConnects(i) \/ DestAnswers(i) \/ DestEnds(i)
      PROVE  RemovedWasClosed'
  BY <1>4, ConnectStep
     DEF DestAnswers, Connects, DestEnds, DestEof, DestFails, Goto,
         ProxyTypeOK, RemoteTypeOK, envVars
<1>5. ASSUME NEW i \in Id, TaskRuns(i)
      PROVE  RemovedWasClosed'
  <2>1. CASE TakeFromHost(i) \/ SendData(i)
    BY <1>5, <2>1 DEF TaskRuns, TakeFromHost, SendData, At, Goto, ProxyTypeOK,
                      RemoteTypeOK, envVars
  <2>2. CASE InsertHandle(i)
    BY <1>5, <2>2 DEF TaskRuns, InsertHandle, Goto, ProxyTypeOK, RemoteTypeOK,
                      envVars
  <2>3. CASE \/ Refuse(i) \/ Announce(i) \/ ChannelClosed(i) \/ SendError(i)
             \/ SendClosed(i) \/ RemoveHandle(i)
    BY <1>5, <2>3
       DEF TaskRuns, Refuse, Announce, ChannelClosed, SendError, SendClosed,
           RemoveHandle, Goto, ProxyTypeOK, RemoteTypeOK, envVars
  <2> QED
    BY <1>5, <2>1, <2>2, <2>3 DEF TaskRuns, TaskSteps
<1> QED
  BY <1>1, <1>2, <1>3, <1>4, <1>5 DEF ProxyNext

-----------------------------------------------------------------------------
(* The pipeline of a connection.                                            *)

Block == Seq(Byte)

(* s is a run of consecutive block numbers that ends with n.                *)
IsRun(s, n) == \A k \in DOMAIN s : s[k] = <<n - Len(s) + k>>

(* Runs start empty and grow at their end.                                  *)
LEMMA EmptyRun == ASSUME NEW n PROVE IsRun(<<>>, n)
  BY DEF IsRun

(* The next block prolongs a run.                                           *)
LEMMA LongerRun ==
  ASSUME NEW s \in Seq(Block), NEW n \in Nat, IsRun(s, n), <<n + 1>> \in Block
  PROVE  IsRun(Append(s, <<n + 1>>), n + 1)
<1> DEFINE t == Append(s, <<n + 1>>)
<1>1. /\ t \in Seq(Block) /\ Len(t) = Len(s) + 1
      /\ \A k \in 1..Len(s) : t[k] = s[k]
      /\ t[Len(s) + 1] = <<n + 1>>
  BY AppendProperties
<1>2. DOMAIN t = 1..(Len(s) + 1) /\ DOMAIN s = 1..Len(s) /\ Len(s) \in Nat
  BY <1>1, LenProperties
<1> HIDE DEF t
<1>3. ASSUME NEW k \in 1..(Len(s) + 1)
      PROVE  t[k] = <<(n + 1) - Len(t) + k>>
  <2>1. CASE k = Len(s) + 1
    <3>1. (n + 1) - Len(t) + k = n + 1
      BY <1>1, <1>2, <2>1
    <3> QED
      BY <1>1, <2>1, <3>1
  <2>2. CASE k \in 1..Len(s)
    <3>1. t[k] = <<n - Len(s) + k>>
      BY <1>1, <1>2, <2>2 DEF IsRun
    <3>2. (n + 1) - Len(t) + k = n - Len(s) + k
      BY <1>1, <1>2, <2>2
    <3> QED
      BY <3>1, <3>2
  <2> QED
    BY <1>2, <2>1, <2>2
<1>4. IsRun(t, n + 1)
  BY <1>2, <1>3 DEF IsRun
<1> QED
  BY <1>4 DEF t

(* A block taken from the head of the channel only changes hands.           *)
LEMMA TakeMoves ==
  ASSUME NEW s \in Seq(Block), s # <<>>
  PROVE  <<Head(s)>> \o Tail(s) = <<>> \o s
<1>1. /\ Head(s) \in Block /\ Tail(s) \in Seq(Block) /\ Len(Tail(s)) = Len(s) - 1
      /\ \A i \in 1..Len(Tail(s)) : Tail(s)[i] = s[i + 1]
  BY HeadTailProperties
<1>2. Head(s) = s[1] /\ Len(s) \in Nat \ {0}
  BY EmptySeq
<1>3. <<Head(s)>> \in Seq(Block) /\ Len(<<Head(s)>>) = 1 /\ <<Head(s)>>[1] = Head(s)
  BY <1>1
<1> DEFINE h == <<Head(s)>>
           t == Tail(s)
<1>4. /\ h \o t \in Seq(Block) /\ Len(h \o t) = Len(h) + Len(t)
      /\ \A i \in 1..Len(h) + Len(t) :
           (h \o t)[i] = IF i <= Len(h) THEN h[i] ELSE t[i - Len(h)]
  BY <1>1, <1>3, ConcatProperties
<1> HIDE DEF h, t
<1>5. Len(h \o t) = Len(s)
  BY <1>1, <1>2, <1>3, <1>4 DEF h, t
<1>6. ASSUME NEW i \in 1..Len(s)
      PROVE  (h \o t)[i] = s[i]
  BY <1>1, <1>2, <1>3, <1>4 DEF h, t
<1>7. h \o t = s
  BY <1>4, <1>5, <1>6, SeqEqual
<1> QED
  BY <1>7, ConcatEmptySeq DEF h, t

(* A block written to the destination only changes hands.                   *)
LEMMA WriteMoves ==
  ASSUME NEW d \in Seq(Block), NEW b \in Block, NEW s \in Seq(Block),
         NEW l \in Seq(Block)
  PROVE  Append(d, b) \o (<<>> \o s \o l) = d \o (<<b>> \o s \o l)
<1>1. Append(d, b) = d \o <<b>>
  BY AppendIsConcat
<1>2. <<b>> \in Seq(Block) /\ s \o l \in Seq(Block)
  BY ConcatProperties
<1>3. <<>> \o s = s /\ <<b>> \o s \o l = <<b>> \o (s \o l)
  BY <1>2, ConcatEmptySeq, ConcatAssociative
<1>4. (d \o <<b>>) \o (s \o l) = d \o (<<b>> \o (s \o l))
  BY <1>2, ConcatAssociative
<1> QED
  BY <1>1, <1>3, <1>4

(* At the end of the channel or in the loop's hand: the same place.         *)
LEMMA EnterMoves ==
  ASSUME NEW w \in Seq(Block), NEW s \in Seq(Block), NEW b \in Block
  PROVE  w \o Append(s, b) \o <<>> = w \o s \o <<b>>
<1>1. Append(s, b) = s \o <<b>> /\ <<b>> \in Seq(Block)
  BY AppendIsConcat
<1>2. w \o s \in Seq(Block)
  BY ConcatProperties
<1>3. w \o (s \o <<b>>) = w \o s \o <<b>>
  BY <1>1, ConcatAssociative
<1>4. w \o s \o <<b>> \in Seq(Block)
  BY <1>1, <1>2, ConcatProperties
<1> QED
  BY <1>1, <1>3, <1>4, ConcatEmptySeq

(* A block that enters is the last of the pipeline.                         *)
LEMMA EnterGrows ==
  ASSUME NEW d \in Seq(Block), NEW w \in Seq(Block), NEW s \in Seq(Block),
         NEW b \in Block
  PROVE  d \o (w \o s \o <<b>>) = Append(d \o (w \o s \o <<>>), b)
<1>1. <<b>> \in Seq(Block)
  OBVIOUS
<1>2. w \o s \in Seq(Block) /\ d \o (w \o s) \in Seq(Block)
  BY ConcatProperties
<1>3. w \o s \o <<>> = w \o s
  BY <1>2, ConcatEmptySeq
<1>4. d \o ((w \o s) \o <<b>>) = (d \o (w \o s)) \o <<b>>
  BY <1>1, <1>2, ConcatAssociative
<1>5. Append(d \o (w \o s), b) = (d \o (w \o s)) \o <<b>>
  BY <1>2, AppendIsConcat
<1> QED
  BY <1>3, <1>4, <1>5

(* The parts of a pipeline are sequences of blocks.                         *)
LEMMA PipelineType ==
  ASSUME ProxyTypeOK, NEW i \in Id
  PROVE  /\ delivered[i] \in Seq(Block) /\ hand[i] \in Block
         /\ InTask(i) \in Seq(Block) /\ rx[i] \in Seq(Block)
         /\ InLoop(i) \in Seq(Block)
         /\ Pipeline(i) \in Seq(Block)
<1>1. /\ delivered[i] \in Seq(Block) /\ hand[i] \in Block
      /\ rx[i] \in Seq(Block)
  BY DEF ProxyTypeOK, RemoteTypeOK, Block
<1>2. <<>> \in Seq(Block) /\ \A b \in Block : <<b>> \in Seq(Block)
  OBVIOUS
<1>3. InTask(i) \in Seq(Block)
  BY <1>1, <1>2 DEF InTask
<1>4. InLoop(i) \in Seq(Block)
  BY <1>2, LoopStates DEF InLoop, ProxyTypeOK, RemoteTypeOK, Block
<1>5. InTransit(i) \in Seq(Block)
  BY <1>1, <1>3, <1>4, ConcatProperties DEF InTransit
<1>6. Pipeline(i) \in Seq(Block)
  BY <1>1, <1>5, ConcatProperties DEF Pipeline
<1> QED
  BY <1>1, <1>3, <1>4, <1>6

(* The three things a step can do to a connection that it leaves relayed.   *)
Kept(i) ==
  /\ Relaying(i) /\ Pipeline(i)' = Pipeline(i)
  /\ UNCHANGED host_sent[i]

Grown(i) ==
  /\ Relaying(i) /\ Pipeline(i)' = Append(Pipeline(i), <<host_sent[i] + 1>>)
  /\ host_sent'[i] = host_sent[i] + 1

Started(i) == Pipeline(i)' = <<>>

(* What leaves the parts alone leaves the whole.                            *)
LEMMA KeptParts ==
  ASSUME NEW i, Relaying(i), InTask(i)' = InTask(i), InLoop(i)' = InLoop(i),
         rx'[i] = rx[i], delivered'[i] = delivered[i],
         host_sent'[i] = host_sent[i]
  PROVE  Kept(i)
  BY DEF Kept, Pipeline, InTransit

(* What SendToTask leaves: the block at the end, in the channel or in the   *)
(* loop's hand.                                                             *)
LEMMA SentPipeline ==
  ASSUME ProxyTypeOK, NEW i \in Id, NEW data \in Block, Relaying(i),
         SendToTask(i, data), UNCHANGED <<task, hand, delivered>>
  PROVE  Pipeline(i)' = delivered[i] \o (InTask(i) \o rx[i] \o <<data>>)
<1>1. ReceiverAlive(i)
  BY DEF ReceiverAlive, Relaying
<1>2. InTask(i)' = InTask(i)
  BY DEF InTask
<1>3. CASE /\ rx' = [rx EXCEPT ![i] = Append(@, data)]
           /\ remote_loop' = [pc |-> "select"]
  <2>1. rx'[i] = Append(rx[i], data) /\ InLoop(i)' = <<>>
    BY <1>3 DEF InLoop, ProxyTypeOK, RemoteTypeOK
  <2>2. InTransit(i)' = InTask(i) \o Append(rx[i], data) \o <<>>
    BY <1>2, <2>1 DEF InTransit
  <2>3. InTask(i) \in Seq(Block) /\ rx[i] \in Seq(Block)
    BY PipelineType
  <2>4. InTransit(i)' = InTask(i) \o rx[i] \o <<data>>
    BY <2>2, <2>3, EnterMoves
  <2> QED
    BY <2>4 DEF Pipeline
<1>4. CASE /\ remote_loop' = [pc |-> "sending", id |-> i, data |-> data]
           /\ UNCHANGED rx
  <2>1. rx'[i] = rx[i] /\ InLoop(i)' = <<data>>
    BY <1>4 DEF InLoop
  <2> QED
    BY <1>2, <2>1 DEF InTransit, Pipeline
<1> QED
  BY <1>1, <1>3, <1>4 DEF SendToTask

(* A block the host sends joins its connection's pipeline, no other.        *)
LEMMA HostSendsPipeline ==
  ASSUME ProxyIInv, NEW i \in Id, HostSends(i), NEW j \in Id, Relaying(j)'
  PROVE  Kept(j) \/ Grown(j)
<1> USE DEF ProxyIInv
<1>1. Relaying(j)
  BY SendStep DEF Relaying
<1>2. CASE j = i
  <2>1. i \in handles
    BY <1>1, <1>2, SendStep DEF RemovedWasClosed
  <2>2. <<host_sent[i] + 1>> \in Block
    BY BlockType DEF HostSends, ProxyTypeOK, Block
  <2>3. Pipeline(i)' =
          delivered[i] \o (InTask(i) \o rx[i] \o <<<<host_sent[i] + 1>>>>)
    BY <1>1, <1>2, <2>1, <2>2, SendStep, SentPipeline
  <2>4. InLoop(i) = <<>>
    BY SendStep DEF InLoop
  <2>5. Pipeline(i)' = Append(Pipeline(i), <<host_sent[i] + 1>>)
    <3>1. /\ delivered[i] \in Seq(Block) /\ InTask(i) \in Seq(Block)
          /\ rx[i] \in Seq(Block)
      BY PipelineType
    <3>2. delivered[i] \o (InTask(i) \o rx[i] \o <<<<host_sent[i] + 1>>>>)
            = Append(delivered[i] \o (InTask(i) \o rx[i] \o <<>>),
                     <<host_sent[i] + 1>>)
      BY <2>2, <3>1, EnterGrows
    <3>3. Pipeline(i) = delivered[i] \o (InTask(i) \o rx[i] \o <<>>)
      BY <2>4 DEF Pipeline, InTransit
    <3> QED
      BY <2>3, <3>2, <3>3
  <2>6. host_sent'[i] = host_sent[i] + 1
    BY SendStep DEF ProxyTypeOK
  <2> QED
    BY <1>1, <1>2, <2>5, <2>6 DEF Grown
<1>3. CASE j # i
  <2>1. rx'[j] = rx[j]
    <3>1. CASE i \in handles
      <4>1. ProxyTypeOK /\ SendToTask(i, <<host_sent[i] + 1>>)
        BY <3>1, SendStep
      <4> QED
        BY <1>3, <4>1, SendElsewhere
    <3>2. CASE i \notin handles
      BY <3>2, SendStep
    <3> QED
      BY <3>1, <3>2
  <2>2. InLoop(j) = <<>>
    BY SendStep DEF InLoop
  <2>3. InLoop(j)' = <<>>
    BY <1>3, <2>2, SendStep DEF InLoop, SendToTask
  <2>4. /\ InTask(j)' = InTask(j) /\ delivered'[j] = delivered[j]
        /\ host_sent'[j] = host_sent[j]
    BY <1>3, SendStep DEF InTask, ProxyTypeOK
  <2> QED
    BY <1>1, <2>1, <2>2, <2>3, <2>4, KeptParts
<1> QED
  BY <1>2, <1>3

(* The send that was waiting moves its block from the loop's hand.          *)
LEMMA LoopResumesPipeline ==
  ASSUME ProxyIInv, LoopResumes, UNCHANGED envVars, NEW j \in Id, Relaying(j)'
  PROVE  Kept(j)
<1> USE DEF ProxyIInv
<1> DEFINE data == remote_loop.data
<1>1. /\ SendToTask(remote_loop.id, data) /\ data \in Block
      /\ remote_loop.pc = "sending"
  BY LoopStates DEF LoopResumes, ProxyTypeOK, RemoteTypeOK, Block
<1>2. UNCHANGED <<task, hand, delivered, host_sent>>
  BY DEF LoopResumes, envVars
<1>3. Relaying(j)
  BY <1>2 DEF Relaying
<1>4. CASE j = remote_loop.id
  <2>1. InLoop(j) = <<data>>
    BY <1>1, <1>4 DEF InLoop
  <2> HIDE DEF data
  <2>2. SendToTask(j, data)
    BY <1>1, <1>4
  <2>3. Pipeline(j)' = delivered[j] \o (InTask(j) \o rx[j] \o <<data>>)
    BY <1>1, <1>2, <1>3, <2>2, SentPipeline
  <2>4. Pipeline(j)' = Pipeline(j)
    BY <2>1, <2>3 DEF Pipeline, InTransit
  <2> QED
    BY <1>2, <1>3, <2>4 DEF Kept
<1>5. CASE j # remote_loop.id
  <2>1. InLoop(j) = <<>>
    BY <1>5 DEF InLoop
  <2>2. InLoop(j)' = <<>>
    BY <1>1, <1>5 DEF InLoop, SendToTask
  <2> HIDE DEF data
  <2>3. rx'[j] = rx[j]
    BY <1>1, <1>5, SendElsewhere
  <2>4. InTask(j)' = InTask(j)
    BY <1>2 DEF InTask
  <2> QED
    BY <1>2, <1>3, <2>1, <2>2, <2>3, <2>4, KeptParts
<1> QED
  BY <1>4, <1>5

(* The other steps of the tasks and their destinations.                     *)
LEMMA TaskPipeline ==
  ASSUME ProxyIInv, NEW i \in Id,
         \/ HostConnects(i) \/ DestAnswers(i) \/ DestSends(i) \/ DestEnds(i)
         \/ DestAccepts(i) \/ TaskRuns(i),
         NEW j \in Id, Relaying(j)'
  PROVE  Kept(j) \/ Started(j)
<1> USE DEF ProxyIInv
<1>1. UNCHANGED <<remote_loop, host_sent>>
  BY ConnectStep
     DEF envVars, DestAnswers, Connects, DestSends, ReadFromDest, DestEnds,
         DestEof, DestFails, DestAccepts, WriteAll, TaskRuns, TaskSteps, Refuse,
         Announce, InsertHandle, TakeFromHost, ChannelClosed, SendData,
         SendError, SendClosed, RemoveHandle
<1>2. InLoop(j)' = InLoop(j)
  BY <1>1 DEF InLoop
<1>3. CASE j # i
  <2>1. /\ task'[j] = task[j] /\ hand'[j] = hand[j] /\ rx'[j] = rx[j]
        /\ delivered'[j] = delivered[j]
    BY <1>3, ConnectStep
       DEF Goto, ProxyTypeOK, RemoteTypeOK, envVars, DestAnswers, Connects,
           DestSends, ReadFromDest, DestEnds, DestEof, DestFails, DestAccepts,
           WriteAll, TaskRuns, TaskSteps, Refuse, Announce, InsertHandle,
           TakeFromHost, ChannelClosed, SendData, SendError, SendClosed,
           RemoveHandle
  <2>2. Relaying(j) /\ InTask(j)' = InTask(j)
    BY <2>1 DEF Relaying, InTask
  <2> QED
    BY <1>1, <1>2, <2>1, <2>2, KeptParts
<1>4. CASE j = i
  <2>1. CASE TaskRuns(i) /\ InsertHandle(i)
    <3>1. rx[i] = <<>> /\ delivered[i] = <<>> /\ i \notin handles
      BY <2>1, HandleIsInserted
         DEF InsertHandle, At, UntouchedBeforeInsert, BeforeInsert
    <3>2. InLoop(i) = <<>>
      BY <3>1, <2>1 DEF InLoop, GuardKeepsEntry
    <3>3. InTask(i)' = <<>> /\ rx'[i] = <<>> /\ delivered'[i] = <<>>
      BY <2>1, <3>1
         DEF TaskRuns, InsertHandle, Goto, InTask, envVars, ProxyTypeOK,
             RemoteTypeOK
    <3>4. Pipeline(i)' = <<>> \o (<<>> \o <<>> \o <<>>)
      BY <1>2, <1>4, <3>2, <3>3 DEF Pipeline, InTransit
    <3>5. <<>> \o (<<>> \o <<>> \o <<>>) = <<>>
      <4>1. <<>> \in Seq(Block)
        OBVIOUS
      <4> QED
        BY <4>1, ConcatEmptySeq
    <3> QED
      BY <1>4, <3>4, <3>5 DEF Started
  <2>2. CASE TaskRuns(i) /\ TakeFromHost(i)
    <3>1. /\ task[i] = "relay" /\ rx[i] # <<>>
          /\ task'[i] = "writing" /\ hand'[i] = Head(rx[i])
          /\ rx'[i] = Tail(rx[i]) /\ UNCHANGED delivered
      BY <2>2 DEF TaskRuns, TakeFromHost, At, Goto, envVars, ProxyTypeOK,
                  RemoteTypeOK
    <3>2. /\ InTask(i) = <<>> /\ InTask(i)' = <<Head(rx[i])>>
      BY <3>1 DEF InTask
    <3>3. rx[i] \in Seq(Block)
      BY PipelineType
    <3>4. InTask(i)' \o rx'[i] = InTask(i) \o rx[i]
      BY <3>1, <3>2, <3>3, TakeMoves
    <3>5. InTransit(i)' = InTransit(i)
      BY <1>2, <1>4, <3>4 DEF InTransit
    <3> QED
      BY <1>1, <1>4, <3>1, <3>5 DEF Kept, Relaying, Pipeline
  <2>3. CASE DestAccepts(i)
    <3>1. /\ task[i] = "writing" /\ task'[i] = "relay" /\ UNCHANGED rx
          /\ delivered'[i] = Append(delivered[i], hand[i])
      BY <2>3 DEF DestAccepts, WriteAll, At, Goto, ProxyTypeOK, RemoteTypeOK
    <3>2. InTask(i) = <<hand[i]>> /\ InTask(i)' = <<>>
      BY <3>1 DEF InTask
    <3>3. /\ delivered[i] \in Seq(Block) /\ hand[i] \in Block
          /\ rx[i] \in Seq(Block) /\ InLoop(i) \in Seq(Block)
      BY PipelineType
    <3>4. Append(delivered[i], hand[i]) \o (<<>> \o rx[i] \o InLoop(i))
            = delivered[i] \o (<<hand[i]>> \o rx[i] \o InLoop(i))
      BY <3>3, WriteMoves
    <3>5. Pipeline(i)' = Pipeline(i)
      BY <1>2, <1>4, <3>1, <3>2, <3>4 DEF Pipeline, InTransit
    <3> QED
      BY <1>1, <1>4, <3>1, <3>5 DEF Kept, Relaying
  <2>4. CASE DestSends(i) \/ (TaskRuns(i) /\ SendData(i))
    <3>1. /\ task[i] \in {"relay", "replying"} /\ task'[i] \in {"relay", "replying"}
          /\ UNCHANGED <<rx, delivered>>
      BY <2>4 DEF DestSends, ReadFromDest, TaskRuns, SendData, At, Goto, envVars,
                  ProxyTypeOK, RemoteTypeOK
    <3>2. InTask(i)' = InTask(i) /\ Relaying(i)
      BY <3>1 DEF InTask, Relaying
    <3> QED
      BY <1>1, <1>2, <1>4, <3>1, <3>2, KeptParts
  <2>5. CASE \/ HostConnects(i) \/ DestAnswers(i) \/ DestEnds(i)
             \/ Refuse(i) \/ Announce(i) \/ ChannelClosed(i) \/ SendError(i)
             \/ SendClosed(i) \/ RemoveHandle(i)
    <3>1. ~Relaying(i)'
      BY <2>5, ConnectStep
         DEF Relaying, Goto, ProxyTypeOK, RemoteTypeOK, DestAnswers, Connects,
             DestEnds, DestEof, DestFails, Refuse, Announce, ChannelClosed,
             SendError, SendClosed, RemoveHandle
    <3> QED
      BY <1>4, <3>1
  <2>6. CASE TaskRuns(i)
    <3>1. TaskSteps(i)
      BY <2>6 DEF TaskRuns
    <3> QED
      BY <2>1, <2>2, <2>4, <2>5, <2>6, <3>1 DEF TaskSteps
  <2> QED
    BY <2>3, <2>4, <2>5, <2>6
<1> QED
  BY <1>3, <1>4

(* A step that leaves every variable of the pipeline alone.                 *)
LEMMA KeptUnchanged ==
  ASSUME NEW i, Relaying(i)',
         UNCHANGED <<task, hand, rx, remote_loop, host_sent, delivered>>
  PROVE  Kept(i)
<1>1. /\ Relaying(i) /\ InTask(i)' = InTask(i) /\ InLoop(i)' = InLoop(i)
  BY DEF Relaying, InTask, InLoop
<1> QED
  BY <1>1, KeptParts

(* Every step keeps, extends or starts the run of every connection.         *)
LEMMA LossStep ==
  ASSUME ProxyIInv, [ProxyNext]_proxyVars
  PROVE  LossOnlyBeforeInsert'
<1>1. ASSUME NEW j \in Id, Relaying(j)'
      PROVE  Kept(j) \/ Grown(j) \/ Started(j)
  <2>1. ASSUME NEW i \in Id, HostSends(i)
        PROVE  Kept(j) \/ Grown(j)
    BY <1>1, <2>1, HostSendsPipeline
  <2>2. ASSUME NEW i \in Id, HostCloses(i)
        PROVE  Kept(j)
    BY <1>1, <2>2, CloseStep, KeptUnchanged
  <2>3. ASSUME NEW i \in Id,
               \/ HostConnects(i) \/ DestAnswers(i) \/ DestSends(i)
               \/ DestEnds(i) \/ DestAccepts(i) \/ TaskRuns(i)
        PROVE  Kept(j) \/ Started(j)
    BY <1>1, <2>3, TaskPipeline
  <2>4. CASE LoopRuns
    <3>1. CASE LoopResumes /\ UNCHANGED envVars
      BY <1>1, <3>1, LoopResumesPipeline
    <3>2. CASE LoopWrites
      BY <1>1, <3>2, KeptUnchanged DEF LoopWrites, WriteResponse
    <3> QED
      BY <2>4, <3>1, <3>2 DEF LoopRuns
  <2>5. CASE SessionEnds \/ UNCHANGED proxyVars
    BY <1>1, <2>5, KeptUnchanged
       DEF SessionEnds, proxyVars, remoteVars, envVars
  <2>6. CASE ReadsEof
    BY <1>1, <2>6, KeptParts
       DEF ReadsEof, LoopExits, envVars, Relaying, InTask, InLoop
  <2> QED
    BY <2>1, <2>2, <2>3, <2>4, <2>5, <2>6 DEF ProxyNext
<1>2. ASSUME NEW j \in Id, Relaying(j)'
      PROVE  IsRun(Pipeline(j)', host_sent'[j])
  <2>1. Relaying(j) => IsRun(Pipeline(j), host_sent[j])
    BY DEF ProxyIInv, LossOnlyBeforeInsert, IsRun
  <2>2. CASE Kept(j)
    BY <2>1, <2>2 DEF Kept
  <2>3. CASE Grown(j)
    <3>1. Pipeline(j) \in Seq(Block) /\ host_sent[j] \in Nat
      BY PipelineType DEF ProxyIInv, ProxyTypeOK
    <3>2. host_sent[j] < MaxBlocks[j]
      <4>1. host_sent[j] + 1 <= MaxBlocks[j]
        BY <2>3, ProxyTypeStep DEF Grown, ProxyIInv, ProxyTypeOK
      <4> QED
        BY <3>1, <4>1, ProxyAssumption
    <3>3. <<host_sent[j] + 1>> \in Block
      BY <3>1, <3>2, BlockType DEF Block
    <3> QED
      BY <2>1, <2>3, <3>1, <3>3, LongerRun DEF Grown
  <2>4. CASE Started(j)
    BY <2>4, EmptyRun DEF Started
  <2> QED
    BY <1>1, <1>2, <2>2, <2>3, <2>4
<1> QED
  BY <1>2 DEF LossOnlyBeforeInsert, IsRun

-----------------------------------------------------------------------------
(* The invariant holds at first, every step keeps it, and it implies each   *)
(* of the properties.                                                       *)
THEOREM ProxyInvariant == ProxySpec => []ProxyIInv
<1>1. ProxyInit => ProxyIInv
  <2> SUFFICES ASSUME ProxyInit
               PROVE  ProxyIInv
    OBVIOUS
  <2> USE DEF ProxyInit, RemoteInit
  <2>1. ProxyTypeOK
    <3>1. RemoteTypeOK
      BY RemoteAssumption, EmptyBlock
         DEF RemoteTypeOK, TaskState, LoopState, Response
    <3>2. /\ host_sent \in [Id -> Nat] /\ dest_sent \in [Id -> Nat]
          /\ \A i \in Id : host_sent[i] <= MaxBlocks[i] /\ dest_sent[i] <= MaxReads[i]
      BY ProxyAssumption
    <3> QED
      BY <3>1, <3>2 DEF ProxyTypeOK
  <2>2. GuardKeepsEntry /\ HandlesHaveTasks
    BY DEF GuardKeepsEntry, HandlesHaveTasks
  <2>3. UntouchedBeforeInsert
    BY DEF UntouchedBeforeInsert
  <2>4. RemovedWasClosed /\ LossOnlyBeforeInsert
    BY DEF RemovedWasClosed, LossOnlyBeforeInsert, Relaying
  <2> QED
    BY <2>1, <2>2, <2>3, <2>4 DEF ProxyIInv
<1>2. ProxyIInv /\ [ProxyNext]_proxyVars => ProxyIInv'
  <2> SUFFICES ASSUME ProxyIInv, [ProxyNext]_proxyVars
               PROVE  ProxyIInv'
    OBVIOUS
  <2>1. ProxyTypeOK'
    BY ProxyTypeStep DEF ProxyIInv
  <2>2. GuardKeepsEntry'
    BY GuardStep DEF ProxyIInv
  <2>3. HandlesHaveTasks'
    BY HandlesStep DEF ProxyIInv
  <2>4. UntouchedBeforeInsert'
    BY UntouchedStep DEF ProxyIInv
  <2>5. RemovedWasClosed'
    BY RemovedStep DEF ProxyIInv
  <2>6. LossOnlyBeforeInsert'
    BY LossStep
  <2> QED
    BY <2>1, <2>2, <2>3, <2>4, <2>5, <2>6 DEF ProxyIInv
<1> QED
  BY <1>1, <1>2, PTL DEF ProxySpec

(* Channels keep to their capacities and every variable to its type         *)
(* (remote/mod.rs:36-44, :178).                                             *)
THEOREM ProxyTypeCorrect == ProxySpec => []ProxyTypeOK
<1>1. ProxyIInv => ProxyTypeOK
  BY DEF ProxyIInv
<1> QED
  BY <1>1, ProxyInvariant, PTL

(* No interleaving of closes, ends and lookups leaves an entry of           *)
(* tcp_connections without a task that will remove it                       *)
(* (remote/mod.rs:179-186, :213-217).                                       *)
THEOREM ProxyHandlesHaveTasks == ProxySpec => []HandlesHaveTasks
<1>1. ProxyIInv => HandlesHaveTasks
  BY DEF ProxyIInv
<1> QED
  BY <1>1, ProxyInvariant, PTL

(* A relayed connection loses, repeats and reorders nothing: its blocks,    *)
(* written and on their way, are consecutive up to the last one sent        *)
(* (remote/mod.rs:202-211, proxy.rs:29-46).                                 *)
THEOREM ProxyLossOnlyBeforeInsert == ProxySpec => []LossOnlyBeforeInsert
<1>1. ProxyIInv => LossOnlyBeforeInsert
  BY DEF ProxyIInv
<1> QED
  BY <1>1, ProxyInvariant, PTL

=============================================================================
