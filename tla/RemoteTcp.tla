------------------------------ MODULE RemoteTcp ------------------------------
(***************************************************************************)
(* The TCP side of the remote proxy (src/remote/mod.rs, proxy.rs): the      *)
(* select loop that handles host messages, one spawned task per connection  *)
(* id, the sharded map tcp_connections both sides edit, one bounded channel *)
(* per connection and the bounded channel of responses.                     *)
(*                                                                         *)
(* Loop and tasks run on different threads: they interleave at every await  *)
(* and, for the map, at every map operation.  A map entry is the only       *)
(* sender of its connection's channel, so removing it closes the channel.   *)
(*                                                                         *)
(* Locks.  handle_tcp_data keeps the guard it got from the map across the   *)
(* send into the connection's channel: a read lock on the shard of that id. *)
(* insert and remove need the shard's write lock, and wait for it without   *)
(* yielding.  The loop never inserts or removes while another party holds a *)
(* guard, so the one guard is the loop's own, in "sending" and "removing".  *)
(***************************************************************************)
EXTENDS Integers, Sequences

CONSTANTS
  Id,           \* connection ids the host may use
  Byte,         \* the payload alphabet
  Shard,        \* Id -> shard of tcp_connections the id hashes to
  ConnChanCap,  \* capacity of a connection's channel, 256 in the code
  RespChanCap   \* capacity of the response channel, 1024 in the code

ASSUME RemoteAssumption ==
  /\ Shard \in [Id -> Nat]
  /\ ConnChanCap \in Nat \ {0}
  /\ RespChanCap \in Nat \ {0}

VARIABLES
  handles,      \* ids present in tcp_connections
  task,         \* Id -> where the connection's task is
  rx,           \* Id -> contents of the connection's channel
  hand,         \* Id -> the block the task has taken and not yet passed on
  responses,    \* channel of RemoteMessage, drained to stdout
  remote_loop   \* where the select loop is, and the message it is stuck with

remoteVars == <<handles, task, rx, hand, responses, remote_loop>>

(* A task: not spawned; in TcpStream::connect; about to send TcpConnected   *)
(* or, refused, TcpError; about to insert its handle; in its select; in     *)
(* write_all; in a send of TcpData, of TcpError, of TcpClosed; returned     *)
(* from handle_tcp_connection but not yet removed from the map; finished.   *)
TaskState ==
  {"none", "connecting", "announcing", "refused", "inserting", "relay",
   "writing", "replying", "erring", "closing", "removing", "done"}

LoopState ==
  [pc : {"select", "exited"}]
    \cup [pc : {"sending"}, id : Id, data : Seq(Byte)]
    \cup [pc : {"removing"}, id : Id]

Response ==
  [type : {"TcpConnected", "TcpClosed", "TcpError"}, id : Id]
    \cup [type : {"TcpData"}, id : Id, data : Seq(Byte)]

RemoteTypeOK ==
  /\ handles \subseteq Id
  /\ task \in [Id -> TaskState]
  /\ rx \in [Id -> Seq(Seq(Byte))]
  /\ \A i \in Id : Len(rx[i]) <= ConnChanCap
  /\ hand \in [Id -> Seq(Byte)]
  /\ responses \in Seq(Response) /\ Len(responses) <= RespChanCap
  /\ remote_loop \in LoopState

RemoteInit ==
  /\ handles = {}
  /\ task = [i \in Id |-> "none"]
  /\ rx = [i \in Id |-> <<>>]
  /\ hand = [i \in Id |-> <<>>]
  /\ responses = <<>>
  /\ remote_loop = [pc |-> "select"]

-----------------------------------------------------------------------------
Goto(i, state) == task' = [task EXCEPT ![i] = state]

(* handle_tcp_connection owns the receiver from before the insert until it  *)
(* returns; the loop can only reach it through a handle.                    *)
ReceiverAlive(i) == task[i] \notin {"removing", "done"}

GuardHeld(shard) ==
  /\ remote_loop.pc \in {"sending", "removing"}
  /\ Shard[remote_loop.id] = shard

(* Mutant: an unbounded channel.                                            *)
RespondAlways(msg) == responses' = Append(responses, msg)

Respond(msg) ==
  /\ Len(responses) < RespChanCap
  /\ responses' = Append(responses, msg)

Connected(i) == [type |-> "TcpConnected", id |-> i]
Data(i, data) == [type |-> "TcpData", id |-> i, data |-> data]
Closed(i) == [type |-> "TcpClosed", id |-> i]
Error(i) == [type |-> "TcpError", id |-> i]

-----------------------------------------------------------------------------
(* handle_host_message, for m taken from the input while the loop selects.  *)

OnTcpConnect(m) ==
  /\ m.type = "TcpConnect"
  /\ Goto(m.id, "connecting")
  /\ UNCHANGED <<handles, rx, hand, responses, remote_loop>>

(* Mutant: try_send, a full channel costs the block.                        *)
TrySendToTask(i, data) ==
  /\ IF ReceiverAlive(i) /\ Len(rx[i]) < ConnChanCap
     THEN rx' = [rx EXCEPT ![i] = Append(@, data)]
     ELSE UNCHANGED rx
  /\ remote_loop' = [pc |-> "select"]

(* The send of handle_tcp_data: it completes, waits for room, or finds the  *)
(* receiver gone.  In the last case the code removes the entry while it     *)
(* still holds its own guard on the shard: "removing" is never left.        *)
SendToTask(i, data) ==
  \/ /\ ReceiverAlive(i) /\ Len(rx[i]) < ConnChanCap
     /\ rx' = [rx EXCEPT ![i] = Append(@, data)]
     /\ remote_loop' = [pc |-> "select"]
  \/ /\ ReceiverAlive(i) /\ Len(rx[i]) >= ConnChanCap
     /\ remote_loop' = [pc |-> "sending", id |-> i, data |-> data]
     /\ UNCHANGED rx
  \/ /\ ~ReceiverAlive(i)
     /\ remote_loop' = [pc |-> "removing", id |-> i]
     /\ UNCHANGED rx

OnTcpData(m) ==
  /\ m.type = "TcpData"
  /\ IF m.id \in handles
     THEN SendToTask(m.id, m.data)
     ELSE UNCHANGED <<rx, remote_loop>>     \* "TCP data for unknown connection"
  /\ UNCHANGED <<handles, task, hand, responses>>

OnTcpClose(m) ==
  /\ m.type = "TcpClose"
  /\ handles' = handles \ {m.id}
  /\ UNCHANGED <<task, rx, hand, responses, remote_loop>>

(* Shutdown, and the end of the input, both end the loop: run returns, the  *)
(* process exits and its tasks with it.                                     *)
LoopExits ==
  /\ remote_loop.pc = "select"
  /\ remote_loop' = [pc |-> "exited"]
  /\ UNCHANGED <<handles, task, rx, hand, responses>>

HandleHostMessage(m) ==
  /\ remote_loop.pc = "select"
  /\ \/ OnTcpConnect(m)
     \/ OnTcpData(m)
     \/ OnTcpClose(m)

(* Mutant: only room in the channel wakes the sender.                       *)
LoopResumesForRoom ==
  /\ remote_loop.pc = "sending"
  /\ Len(rx[remote_loop.id]) < ConnChanCap /\ ReceiverAlive(remote_loop.id)
  /\ SendToTask(remote_loop.id, remote_loop.data)
  /\ UNCHANGED <<handles, task, hand, responses>>

(* The blocked send goes on when the task has made room or is gone.         *)
LoopResumes ==
  /\ remote_loop.pc = "sending"
  /\ \/ ~ReceiverAlive(remote_loop.id)
     \/ Len(rx[remote_loop.id]) < ConnChanCap
  /\ SendToTask(remote_loop.id, remote_loop.data)
  /\ UNCHANGED <<handles, task, hand, responses>>

WriteResponse ==
  /\ remote_loop.pc = "select"
  /\ responses # <<>>
  /\ responses' = Tail(responses)
  /\ UNCHANGED <<handles, task, rx, hand, remote_loop>>

-----------------------------------------------------------------------------
(* The task spawned by handle_tcp_connect.  It ends with the process.       *)

At(i, state) == task[i] = state /\ remote_loop.pc # "exited"

Connects(i) ==
  /\ At(i, "connecting")
  /\ \E next \in {"announcing", "refused"} : Goto(i, next)
  /\ UNCHANGED <<handles, rx, hand, responses, remote_loop>>

Refuse(i) ==
  /\ At(i, "refused")
  /\ Respond(Error(i))
  /\ Goto(i, "done")
  /\ UNCHANGED <<handles, rx, hand, remote_loop>>

Announce(i) ==
  /\ At(i, "announcing")
  /\ Respond(Connected(i))
  /\ Goto(i, "inserting")
  /\ UNCHANGED <<handles, rx, hand, remote_loop>>

InsertHandle(i) ==
  /\ At(i, "inserting")
  /\ ~GuardHeld(Shard[i])
  /\ handles' = handles \cup {i}
  /\ Goto(i, "relay")
  /\ UNCHANGED <<rx, hand, responses, remote_loop>>

(* The branches of the select in handle_tcp_connection.                     *)

TakeFromHost(i) ==
  /\ At(i, "relay")
  /\ rx[i] # <<>>
  /\ hand' = [hand EXCEPT ![i] = Head(rx[i])]
  /\ rx' = [rx EXCEPT ![i] = Tail(@)]
  /\ Goto(i, "writing")
  /\ UNCHANGED <<handles, responses, remote_loop>>

(* Mutant: the task keeps a sender of its own, so the channel stays open.   *)
ChannelStaysOpen(i) == FALSE

ChannelClosed(i) ==
  /\ At(i, "relay")
  /\ rx[i] = <<>> /\ i \notin handles
  /\ Goto(i, "closing")
  /\ UNCHANGED <<handles, rx, hand, responses, remote_loop>>

ReadFromDest(i, data) ==
  /\ At(i, "relay")
  /\ hand' = [hand EXCEPT ![i] = data]
  /\ Goto(i, "replying")
  /\ UNCHANGED <<handles, rx, responses, remote_loop>>

DestEof(i) ==
  /\ At(i, "relay")
  /\ Goto(i, "closing")
  /\ UNCHANGED <<handles, rx, hand, responses, remote_loop>>

(* A read error, or the failure of the write in progress.                   *)
DestFails(i) ==
  /\ At(i, "relay") \/ At(i, "writing")
  /\ Goto(i, "erring")
  /\ hand' = [hand EXCEPT ![i] = <<>>]
  /\ UNCHANGED <<handles, rx, responses, remote_loop>>

(* Mutant: a write resumed from the start of its block.                     *)
WriteAgain(i) ==
  /\ At(i, "writing")
  /\ \E next \in {"writing", "relay"} : Goto(i, next)
  /\ UNCHANGED <<handles, rx, hand, responses, remote_loop>>

WriteAll(i) ==
  /\ At(i, "writing")
  /\ Goto(i, "relay")
  /\ hand' = [hand EXCEPT ![i] = <<>>]
  /\ UNCHANGED <<handles, rx, responses, remote_loop>>

(* Mutant: try_send, a full channel costs the block.                        *)
TrySendData(i) ==
  /\ At(i, "replying")
  /\ IF Len(responses) < RespChanCap THEN Respond(Data(i, hand[i]))
     ELSE UNCHANGED responses
  /\ Goto(i, "relay")
  /\ hand' = [hand EXCEPT ![i] = <<>>]
  /\ UNCHANGED <<handles, rx, remote_loop>>

SendData(i) ==
  /\ At(i, "replying")
  /\ Respond(Data(i, hand[i]))
  /\ Goto(i, "relay")
  /\ hand' = [hand EXCEPT ![i] = <<>>]
  /\ UNCHANGED <<handles, rx, remote_loop>>

SendError(i) ==
  /\ At(i, "erring")
  /\ Respond(Error(i))
  /\ Goto(i, "closing")
  /\ UNCHANGED <<handles, rx, hand, remote_loop>>

(* Mutant: the task returns without a word to the host.                     *)
LeaveUntold(i) ==
  /\ At(i, "closing")
  /\ rx' = [rx EXCEPT ![i] = <<>>]
  /\ Goto(i, "removing")
  /\ UNCHANGED <<handles, hand, responses, remote_loop>>

(* The last send, and the return that drops the receiver and its contents.  *)
SendClosed(i) ==
  /\ At(i, "closing")
  /\ Respond(Closed(i))
  /\ rx' = [rx EXCEPT ![i] = <<>>]
  /\ Goto(i, "removing")
  /\ UNCHANGED <<handles, hand, remote_loop>>

(* Mutant: the entry is left in the map.                                    *)
KeepHandle(i) ==
  /\ At(i, "removing")
  /\ Goto(i, "done")
  /\ UNCHANGED <<handles, rx, hand, responses, remote_loop>>

RemoveHandle(i) ==
  /\ At(i, "removing")
  /\ ~GuardHeld(Shard[i])
  /\ handles' = handles \ {i}
  /\ Goto(i, "done")
  /\ UNCHANGED <<rx, hand, responses, remote_loop>>

(* What the task does by itself, and what it waits for the destination for. *)
TaskSteps(i) ==
  \/ Refuse(i) \/ Announce(i) \/ InsertHandle(i)
  \/ TakeFromHost(i) \/ ChannelClosed(i)
  \/ SendData(i) \/ SendError(i) \/ SendClosed(i) \/ RemoveHandle(i)

=============================================================================
