----------------------------- MODULE RemoteProxy -----------------------------
(***************************************************************************)
(* The remote process on its own: RemoteTcp between a host that keeps to    *)
(* its side of the protocol and destinations that do what sockets may do.   *)
(*                                                                         *)
(* The host's messages reach the loop in order and are handled when the     *)
(* loop takes them, so "the host sends" and "the loop handles" are one      *)
(* step; what the host may send depends only on facts that stay true.       *)
(***************************************************************************)
EXTENDS RemoteTcp

CONSTANTS
  MaxBlocks,  \* bound: Id -> data blocks the host sends on the connection
  MaxReads    \* bound: Id -> blocks read from the destination

(* Blocks are numbered per connection and direction.                        *)
ASSUME ProxyAssumption ==
  /\ MaxBlocks \in [Id -> Nat]
  /\ MaxReads \in [Id -> Nat]
  /\ \A i \in Id : 1..MaxBlocks[i] \cup 1..MaxReads[i] \subseteq Byte

VARIABLES
  host_sent,    \* Id -> number of data blocks the host has sent
  host_closed,  \* ids for which the host has sent TcpClose
  delivered,    \* Id -> blocks written to the destination
  dest_sent,    \* Id -> number of blocks read from the destination
  told,         \* Id -> the notices written to the host
  session       \* "up", or "down" once the SSH session has ended

(* What the host can be told of a connection, its data and errors aside.    *)
Notice == {"TcpConnected", "TcpClosed"}

envVars == <<host_sent, host_closed, delivered, dest_sent, told, session>>
proxyVars == <<remoteVars, envVars>>

ProxyTypeOK ==
  /\ RemoteTypeOK
  /\ host_sent \in [Id -> Nat]
  /\ \A i \in Id : host_sent[i] <= MaxBlocks[i] /\ dest_sent[i] <= MaxReads[i]
  /\ host_closed \subseteq Id
  /\ delivered \in [Id -> Seq(Seq(Byte))]
  /\ dest_sent \in [Id -> Nat]
  /\ told \in [Id -> SUBSET Notice]
  /\ session \in {"up", "down"}

ProxyInit ==
  /\ RemoteInit
  /\ host_sent = [i \in Id |-> 0]
  /\ host_closed = {}
  /\ delivered = [i \in Id |-> <<>>]
  /\ dest_sent = [i \in Id |-> 0]
  /\ told = [i \in Id |-> {}]
  /\ session = "up"

-----------------------------------------------------------------------------
(* The host (src/host/mod.rs) opens each id once, sends data and closes     *)
(* only after it has been sent TcpConnected, and sends no data after a      *)
(* close; it may close more than once (HostKeepsProtocol in module Tunnel). *)

Announced(i) == "TcpConnected" \in told[i]

HostConnects(i) ==
  /\ session = "up" /\ task[i] = "none"
  /\ HandleHostMessage([type |-> "TcpConnect", id |-> i])
  /\ UNCHANGED envVars

HostSends(i) ==
  /\ session = "up" /\ Announced(i) /\ i \notin host_closed
  /\ host_sent[i] < MaxBlocks[i]
  /\ HandleHostMessage(Data(i, <<host_sent[i] + 1>>))
  /\ host_sent' = [host_sent EXCEPT ![i] = @ + 1]
  /\ UNCHANGED <<host_closed, delivered, dest_sent, told, session>>

HostCloses(i) ==
  /\ session = "up" /\ Announced(i)
  /\ HandleHostMessage([type |-> "TcpClose", id |-> i])
  /\ host_closed' = host_closed \cup {i}
  /\ UNCHANGED <<host_sent, delivered, dest_sent, told, session>>

SessionEnds ==
  /\ session = "up"
  /\ session' = "down"
  /\ UNCHANGED <<remoteVars, host_sent, host_closed, delivered, dest_sent, told>>

ReadsEof ==
  /\ session = "down"
  /\ LoopExits
  /\ UNCHANGED envVars

DestAnswers(i) ==
  /\ Connects(i)
  /\ UNCHANGED envVars

DestSends(i) ==
  /\ dest_sent[i] < MaxReads[i]
  /\ ReadFromDest(i, <<dest_sent[i] + 1>>)
  /\ dest_sent' = [dest_sent EXCEPT ![i] = @ + 1]
  /\ UNCHANGED <<host_sent, host_closed, delivered, told, session>>

DestEnds(i) ==
  /\ DestEof(i) \/ DestFails(i)
  /\ UNCHANGED envVars

DestAccepts(i) ==
  /\ WriteAll(i)
  /\ delivered' = [delivered EXCEPT ![i] = Append(@, hand[i])]
  /\ UNCHANGED <<host_sent, host_closed, dest_sent, told, session>>

TaskRuns(i) == TaskSteps(i) /\ UNCHANGED envVars

(* A response on its way to the host.                                       *)
LoopWrites ==
  /\ WriteResponse
  /\ LET r == Head(responses)
     IN  told' = [told EXCEPT ![r.id] = @ \cup ({r.type} \cap Notice)]
  /\ UNCHANGED <<host_sent, host_closed, delivered, dest_sent, session>>

LoopRuns == (LoopResumes /\ UNCHANGED envVars) \/ LoopWrites

ProxyNext ==
  \/ \E i \in Id :
       \/ HostConnects(i) \/ HostSends(i) \/ HostCloses(i)
       \/ DestAnswers(i) \/ DestSends(i) \/ DestEnds(i) \/ DestAccepts(i)
       \/ TaskRuns(i)
  \/ SessionEnds
  \/ ReadsEof
  \/ LoopRuns

ProxySpec == ProxyInit /\ [][ProxyNext]_proxyVars

(* tokio runs every ready task, and the loop's select polls its branches in *)
(* random order: a branch that stays ready is taken.  A connect ends, if    *)
(* only by the time-out of the kernel.  A write need not: write_all         *)
(* (proxy.rs:32) has no time-out, and a peer that keeps its window closed   *)
(* and answers the probes holds it for ever.  So DestAccepts is not fair,   *)
(* nor are the host and what a destination sends.                           *)
Fairness ==
  /\ WF_proxyVars(LoopRuns)
  /\ WF_proxyVars(ReadsEof)
  /\ \A i \in Id :
       /\ WF_proxyVars(TaskRuns(i))
       /\ WF_proxyVars(DestAnswers(i))

FairProxySpec == ProxySpec /\ Fairness

-----------------------------------------------------------------------------
(* The blocks of connection i that are on their way through the process, in *)
(* the order they will be, or have been, written.                           *)
InTask(i) == IF task[i] = "writing" THEN <<hand[i]>> ELSE <<>>

InLoop(i) ==
  IF remote_loop.pc = "sending" /\ remote_loop.id = i
  THEN <<remote_loop.data>> ELSE <<>>

InTransit(i) == InTask(i) \o rx[i] \o InLoop(i)

Pipeline(i) == delivered[i] \o InTransit(i)

Relaying(i) == task[i] \in {"relay", "writing", "replying"}

(* A map entry always has a live task behind it: no interleaving of a close *)
(* from the host with the end of the connection leaves an entry that nobody *)
(* will remove (remote/mod.rs:179-186, :213-217).                           *)
HandlesHaveTasks ==
  \A i \in handles : task[i] \in {"relay", "writing", "replying", "erring",
                                  "closing", "removing"}

(* While a connection is relayed, what it has written and will write is a   *)
(* run of consecutive blocks ending with the last block the host sent: a    *)
(* block is lost only before the handle is inserted, never reordered, and   *)
(* never repeated (remote/mod.rs:202-211, proxy.rs:29-46).                  *)
LossOnlyBeforeInsert ==
  \A i \in Id : Relaying(i) =>
    LET p == Pipeline(i)
    IN  \A k \in DOMAIN p : p[k] = <<host_sent[i] - Len(p) + k>>

(* Everything the host sends on an announced connection is on its way to    *)
(* the destination: README.md:7, "any TCP connection or UDP datagram        *)
(* destined for a routed subnet is captured, sent over SSH, and re-emitted  *)
(* from the remote server."                                                 *)
NothingLostWhileOpen ==
  \A i \in Id : Relaying(i) => Len(Pipeline(i)) = host_sent[i]

(* The loop waits for room in the channel of a connection whose task waits  *)
(* for room in the response channel, which only the loop empties.           *)
CircularWait ==
  /\ remote_loop.pc = "sending"
  /\ Len(responses) >= RespChanCap
  /\ Len(rx[remote_loop.id]) >= ConnChanCap
  /\ task[remote_loop.id] \in {"replying", "erring", "closing"}

(* The loop will never run again: it has returned, it waits for the guard   *)
(* it holds itself, or it waits in a circle with a task.                    *)
Seized == remote_loop.pc \in {"exited", "removing"} \/ CircularWait

(* The loop waits for room in the channel of a connection whose task is     *)
(* inside write_all, and so waits for that destination.                     *)
BehindDestination ==
  /\ remote_loop.pc = "sending"
  /\ Len(rx[remote_loop.id]) >= ConnChanCap
  /\ task[remote_loop.id] = "writing"

Withheld(i) == BehindDestination \/ task[i] = "writing"

(* A connection whose handle the host's TcpClose took out of the map ends,  *)
(* with its socket: its task sees the closed channel (proxy.rs:40-44).      *)
(* Exempted are a loop that is stuck, and a destination, its own or the one *)
(* the loop waits behind, that never again takes what is written to it.     *)
ClosedHandleEndsTask ==
  \A i \in Id : (Relaying(i) /\ i \notin handles)
                  ~> (task[i] = "done" \/ Seized \/ []Withheld(i))

(* A block taken for a relayed connection reaches its destination, or the   *)
(* host is told that the connection is over (proxy.rs:78, "Ensure we notify *)
(* host of close"): what the end of the destination's stream, a failure or  *)
(* a close leaves in the channel is never dropped in silence.  The same two *)
(* cases are exempted.                                                      *)
ArrivesOrHostIsTold ==
  \A i \in Id : \A n \in 1..MaxBlocks[i] :
    (\E k \in DOMAIN InTransit(i) : InTransit(i)[k] = <<n>>)
      ~> \/ \E k \in DOMAIN delivered[i] : delivered[i][k] = <<n>>
         \/ "TcpClosed" \in told[i]
         \/ Seized
         \/ []Withheld(i)

(* README.md:75, "the remote process exits with the SSH session."           *)
ExitsWithSession == (session = "down") ~> (remote_loop.pc = "exited")

(* There are three ways for the process to outlive its session: the loop    *)
(* waiting for its own guard (remote/mod.rs:203-206), the circular wait of  *)
(* the loop with a task (remote/mod.rs:204, proxy.rs:60), and the loop      *)
(* waiting behind a destination that never again takes what is written to   *)
(* it (remote/mod.rs:204, proxy.rs:32).  Every other wait of the loop ends. *)
ExitsOrStuck == (session = "down") ~> (Seized \/ []BehindDestination)

=============================================================================
