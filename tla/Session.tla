------------------------------- MODULE Session -------------------------------
(***************************************************************************)
(* One session from start to end: the host's start-up (HostStart), the two  *)
(* select loops (src/host/mod.rs, src/remote/mod.rs), and between them the  *)
(* length-prefixed messages of src/protocol.rs on two byte streams that     *)
(* hold only so much, and that may break anywhere.                          *)
(*                                                                         *)
(* What the messages carry is left to HostTcp, RemoteTcp and Datagrams:     *)
(* here a message is "Ready", "Shutdown" or "data".  A frame is three       *)
(* pieces, two of the length prefix and one body, so that a stream can end  *)
(* before, inside and after the prefix.                                     *)
(*                                                                         *)
(* A process reads the session in a task of its own, which waits when its   *)
(* queue is full; it writes in its select loop, which waits when the stream *)
(* is full.                                                                 *)
(***************************************************************************)
EXTENDS HostStart, Sequences

CONSTANTS
  WireCap,     \* pieces a stream holds: SSH window, socket and pipe buffers
  QueueCap,    \* capacity of the queue of messages read, 1024 in the code
  ChanCap,     \* capacity of to_remote, to_tun, response channel, 1024 each
  MaxBurst     \* bound: messages one handler of the host sends to one channel

ASSUME SessionAssumption ==
  /\ WireCap \in Nat \ {0} /\ QueueCap \in Nat \ {0} /\ ChanCap \in Nat \ {0}
  /\ MaxBurst \in Nat

VARIABLES
  remote,   \* the remote process: "none", "select", "writing", "waiting" for
            \* a connection to take what a handler sends it, or "exited"
  out,      \* side -> pieces of the frame its loop is writing, yet to go
  wire,     \* side -> pieces on their way to it
  frame,    \* side -> pieces of the frame its reader has
  queue,    \* side -> what its reader has read: messages, "eof" or "err"
  reading,  \* side -> whether its reader still runs
  chan,     \* side -> messages in the channel its loop writes from
  to_tun,   \* packets in the host's channel to the TUN device
  ctrl_c    \* "uninstalled", or what this iteration's ctrl_c future has done:
            \* "listening" or "heard" an interrupt

ioVars == <<out, wire, frame, queue, reading, chan, to_tun>>
sessionVars == <<startVars, remote, ioVars, ctrl_c>>

Side == {"host", "remote"}
Peer(s) == IF s = "host" THEN "remote" ELSE "host"

Message == {"Ready", "Shutdown", "data"}
Piece == {"len1", "len2"} \cup Message

Frame(m) == <<"len1", "len2", m>>

SessionTypeOK ==
  /\ StartTypeOK
  /\ remote \in {"none", "select", "writing", "waiting", "exited"}
  /\ out \in [Side -> Seq(Piece)] /\ \A s \in Side : Len(out[s]) <= 3
  /\ wire \in [Side -> Seq(Piece)] /\ \A s \in Side : Len(wire[s]) <= WireCap
  /\ frame \in [Side -> 0..2]
  /\ queue \in [Side -> Seq(Message \cup {"eof", "err"})]
  /\ \A s \in Side : Len(queue[s]) <= QueueCap
  /\ reading \in [Side -> BOOLEAN]
  /\ chan \in [Side -> 0..ChanCap]
  /\ to_tun \in 0..ChanCap
  /\ ctrl_c \in {"uninstalled", "listening", "heard"}

SessionInit ==
  /\ StartInit
  /\ remote = "none"
  /\ out = [s \in Side |-> <<>>]
  /\ wire = [s \in Side |-> <<>>]
  /\ frame = [s \in Side |-> 0]
  /\ queue = [s \in Side |-> <<>>]
  /\ reading = [s \in Side |-> TRUE]
  /\ chan = [s \in Side |-> 0]
  /\ to_tun = 0
  /\ ctrl_c = "uninstalled"

Up == session = "up"
Running(s) == IF s = "host" THEN host # "exited" ELSE remote # "exited"

-----------------------------------------------------------------------------
(* write_message: piece by piece, each waiting for room.                    *)

Writing(s) ==
  IF s = "host" THEN host \in {"writing", "shutting"} ELSE remote = "writing"

WritePiece(s) ==
  /\ Writing(s) /\ out[s] # <<>> /\ Up /\ Running(Peer(s))
  /\ Len(wire[Peer(s)]) < WireCap
  /\ wire' = [wire EXCEPT ![Peer(s)] = Append(@, Head(out[s]))]
  /\ out' = [out EXCEPT ![s] = Tail(@)]
  /\ UNCHANGED <<startVars, remote, frame, queue, reading, chan, to_tun, ctrl_c>>

-----------------------------------------------------------------------------
(* The reader task: read_message in a loop, which waits for room in the     *)
(* queue with the message it has read.                                      *)

(* Mutants: a queue without a bound; a read that is a branch of the select  *)
(* loop, and one that is dropped with it; an end inside a frame not noticed. *)
HasRoomAlways(s) == TRUE
ReadsInLoop(s) == Running(s) /\ reading[s] /\ ~Writing(s)
NextDropped(s) == IF Writing(s) THEN 0 ELSE (frame[s] + 1) % 3
EndedBetweenFrames(s) ==
  frame[s] = 0 /\ (~Up \/ (~Running(Peer(s)) /\ wire[s] = <<>>))

HasRoom(s) == Len(queue[s]) < QueueCap

Reads(s) == Running(s) /\ reading[s]

NextPiece(s) == (frame[s] + 1) % 3

ReadPiece(s) ==
  /\ Reads(s) /\ wire[s] # <<>>
  /\ frame[s] = 2 => HasRoom(s)
  /\ wire' = [wire EXCEPT ![s] = Tail(@)]
  /\ frame' = [frame EXCEPT ![s] = NextPiece(s)]
  /\ queue' = [queue EXCEPT ![s] = IF frame[s] = 2 THEN Append(@, Head(wire[s]))
                                   ELSE @]
  /\ UNCHANGED <<startVars, remote, out, reading, chan, to_tun, ctrl_c>>

(* The stream ends: what was under way is lost, except when the writer has  *)
(* exited in order.  An end before the body is a clean one, even inside the *)
(* prefix; a broken session may also be reported as an error.               *)
Ended(s) == ~Up \/ (~Running(Peer(s)) /\ wire[s] = <<>>)

ReadEnd(s) ==
  /\ Reads(s) /\ session # "none" /\ Ended(s) /\ HasRoom(s)
  /\ \E e \in (IF frame[s] = 2 THEN {"err"} ELSE {"eof"})
                \cup (IF Up THEN {} ELSE {"err"}) :
       queue' = [queue EXCEPT ![s] = Append(@, e)]
  /\ reading' = [reading EXCEPT ![s] = FALSE]
  /\ UNCHANGED <<startVars, remote, out, wire, frame, chan, to_tun, ctrl_c>>

-----------------------------------------------------------------------------
(* The host's start-up reaches the remote: exec starts it, and its first    *)
(* message must be Ready.                                                   *)

ExecutesRemote ==
  \/ /\ GoesTo("exec", "tun") /\ OnlyHost
     /\ remote' = "writing"
     /\ out' = [out EXCEPT !["remote"] = Frame("Ready")]
     /\ UNCHANGED <<wire, frame, queue, reading, chan, to_tun, ctrl_c>>
  \/ Fails("exec", "failed") /\ UNCHANGED <<remote, ioVars, ctrl_c>>

StartUp ==
  /\ StartSteps
  /\ UNCHANGED <<remote, ioVars, ctrl_c>>

(* tokio's handler is installed when a ctrl_c future is polled for the      *)
(* first time: in the loop, unless other branches are ready before it.      *)
KilledUnheard ==
  /\ ctrl_c = "uninstalled" /\ Killed
  /\ UNCHANGED <<remote, ioVars, ctrl_c>>

(* run_proxy_loop returns, and drops the TUN device it was given.           *)
LeavesLoop ==
  /\ host' = "reverting"
  /\ tun' = "absent" /\ routes' = 0
  /\ UNCHANGED <<identities, granted, resolver, session, exit>>

(* A loop that ends drops its channels; its reader cannot deliver any more. *)
Drops(s) ==
  /\ queue' = [queue EXCEPT ![s] = <<>>]
  /\ chan' = [chan EXCEPT ![s] = 0]
  /\ reading' = [reading EXCEPT ![s] = FALSE]

TakesItem(s) == queue[s] # <<>> /\ queue' = [queue EXCEPT ![s] = Tail(@)]

AwaitsReady ==
  /\ host = "ready" /\ TakesItem("host")
  /\ IF Head(queue["host"]) = "Ready"
     THEN host' = "select" /\ OnlyHost
     ELSE LeavesLoop
  /\ UNCHANGED <<remote, out, wire, frame, reading, chan, to_tun, ctrl_c>>

-----------------------------------------------------------------------------
(* The host's select loop.  Taking a branch drops the futures of the        *)
(* others: an interrupt that the ctrl_c future has heard is forgotten with  *)
(* it, and the next iteration's future hears only later ones.  A branch     *)
(* that is ready may be taken before the ctrl_c future is polled at all.    *)

Listens ==
  /\ host = "select" /\ ctrl_c = "uninstalled"
  /\ ctrl_c' = "listening"
  /\ UNCHANGED <<startVars, remote, ioVars>>

Branch ==
  /\ host = "select"
  /\ ctrl_c' = IF ctrl_c = "uninstalled" THEN "uninstalled" ELSE "listening"

(* A handler sends m messages to the remote and t packets to the TUN        *)
(* device; a send to a full channel never returns.                          *)
Handles(m, t) ==
  LET fits == chan["host"] + m <= ChanCap /\ to_tun + t <= ChanCap
  IN  /\ chan' = IF fits THEN [chan EXCEPT !["host"] = @ + m] ELSE chan
      /\ to_tun' = IF fits THEN to_tun + t ELSE to_tun
      /\ host' = IF fits THEN "select" ELSE "blocked"
      /\ OnlyHost

(* Every way out of the loop goes through the Shutdown message.             *)
Breaks ==
  /\ host' = "shutting"
  /\ out' = [out EXCEPT !["host"] = Frame("Shutdown")]
  /\ OnlyHost

(* A packet from the TUN device, or a query from the forwarder's socket.  A *)
(* FIN with a payload sends its data and the close to to_remote.            *)
HostReceives ==
  /\ Branch
  /\ \E m, t \in 0..MaxBurst : Handles(m, t)
  /\ UNCHANGED <<remote, out, wire, frame, queue, reading>>

(* A message from the remote: data of more than one packet's length is cut   *)
(* into several for the TUN device.                                         *)
HostTakes ==
  /\ Branch /\ TakesItem("host")
  /\ \/ /\ Head(queue["host"]) \in Message
        /\ \E t \in 0..MaxBurst : Handles(0, t)
        /\ UNCHANGED out
     \/ /\ Head(queue["host"]) \in {"eof", "err"}
        /\ Breaks
        /\ UNCHANGED <<chan, to_tun>>
  /\ UNCHANGED <<remote, wire, frame, reading>>

HostWrites ==
  /\ Branch /\ chan["host"] > 0
  /\ host' = "writing" /\ OnlyHost
  /\ chan' = [chan EXCEPT !["host"] = @ - 1]
  /\ out' = [out EXCEPT !["host"] = Frame("data")]
  /\ UNCHANGED <<remote, wire, frame, queue, reading, to_tun>>

HostWritesTun ==
  /\ Branch /\ to_tun > 0
  /\ to_tun' = to_tun - 1
  /\ \/ UNCHANGED <<startVars, out>>
     \/ Breaks
  /\ UNCHANGED <<remote, wire, frame, queue, reading, chan>>

TunFails ==
  /\ Branch /\ Breaks
  /\ UNCHANGED <<remote, wire, frame, queue, reading, chan, to_tun>>

Interrupted ==
  /\ ctrl_c = "heard" /\ Branch
  /\ Breaks
  /\ UNCHANGED <<remote, wire, frame, queue, reading, chan, to_tun>>

WriteFailed(s) == ~Up \/ ~Running(Peer(s))

HostWritten ==
  \/ /\ host = "writing" /\ out["host"] = <<>>
     /\ host' = "select" /\ OnlyHost
     /\ UNCHANGED <<remote, ioVars, ctrl_c>>
  \/ /\ host = "writing" /\ out["host"] # <<>> /\ WriteFailed("host")
     /\ Breaks
     /\ UNCHANGED <<remote, wire, frame, queue, reading, chan, to_tun, ctrl_c>>
  \/ /\ host = "shutting" /\ (out["host"] = <<>> \/ WriteFailed("host"))
     /\ LeavesLoop /\ Drops("host") /\ to_tun' = 0
     /\ UNCHANGED <<remote, out, wire, frame, ctrl_c>>

(* Mutant: the error of the loop is returned before the clean-up.           *)
ReturnsUnreverted ==
  /\ Fails("reverting", "done")
  /\ UNCHANGED <<remote, ioVars, ctrl_c>>

(* unregister_dns, when DNS was asked for, then run returns.                *)
RevertsAndReturns ==
  /\ GoesTo("reverting", "exited")
  /\ resolver' = IF resolver = "registered" THEN "reverted" ELSE resolver
  /\ exit' = "done" /\ session' = "down"
  /\ UNCHANGED <<identities, granted, tun, routes, remote, ioVars, ctrl_c>>

-----------------------------------------------------------------------------
(* The remote's select loop; what the connection and datagram tasks answer. *)

(* Mutant: the loop goes on after the end of its input.                     *)
EndsRemoteOnShutdown(item) == item = "Shutdown"

EndsRemote(item) == item \in {"Shutdown", "eof", "err"}

RemoteTakes ==
  /\ remote = "select" /\ queue["remote"] # <<>>
  /\ \/ /\ EndsRemote(Head(queue["remote"]))
        /\ remote' = "exited" /\ Drops("remote")
     \/ /\ ~EndsRemote(Head(queue["remote"]))
        /\ remote' \in {"select", "waiting"} /\ TakesItem("remote")
        /\ UNCHANGED <<chan, reading>>
  /\ UNCHANGED <<startVars, out, wire, frame, to_tun, ctrl_c>>

RemoteResumes ==
  /\ remote = "waiting" /\ remote' = "select"
  /\ UNCHANGED <<startVars, ioVars, ctrl_c>>

Responds ==
  /\ remote \in {"select", "writing", "waiting"}
  /\ chan["remote"] < ChanCap
  /\ chan' = [chan EXCEPT !["remote"] = @ + 1]
  /\ UNCHANGED <<startVars, remote, out, wire, frame, queue, reading, to_tun,
                 ctrl_c>>

RemoteWrites ==
  /\ remote = "select" /\ chan["remote"] > 0
  /\ remote' = "writing"
  /\ chan' = [chan EXCEPT !["remote"] = @ - 1]
  /\ out' = [out EXCEPT !["remote"] = Frame("data")]
  /\ UNCHANGED <<startVars, wire, frame, queue, reading, to_tun, ctrl_c>>

RemoteWritten ==
  /\ remote = "writing"
  /\ \/ /\ out["remote"] = <<>> /\ remote' = "select"
        /\ UNCHANGED <<queue, chan, reading>>
     \/ /\ out["remote"] # <<>> /\ WriteFailed("remote")
        /\ remote' = "exited" /\ Drops("remote")
  /\ UNCHANGED <<startVars, out, wire, frame, to_tun, ctrl_c>>

-----------------------------------------------------------------------------
(* What happens to the two processes (external).                            *)

(* The user interrupts the host once the handler is installed.  The runtime *)
(* tells the ctrl_c futures there are: none while a handler or a write has  *)
(* the loop, and then the interrupt is lost without a trace.                *)
Press ==
  /\ host = "select" /\ ctrl_c # "uninstalled"
  /\ ctrl_c' = "heard"
  /\ UNCHANGED <<startVars, remote, ioVars>>

SessionFails ==
  /\ Up
  /\ session' = "down"
  /\ UNCHANGED <<host, identities, granted, tun, routes, resolver, exit, remote,
                 ioVars, ctrl_c>>

RemoteDies ==
  /\ remote \in {"select", "writing", "waiting"}
  /\ remote' = "exited" /\ Drops("remote")
  /\ UNCHANGED <<startVars, out, wire, frame, to_tun, ctrl_c>>

HostSteps ==
  StartUp \/ ExecutesRemote \/ AwaitsReady \/ HostWritten \/ RevertsAndReturns

ReaderSteps(s) == ReadPiece(s) \/ ReadEnd(s)

SessionNext ==
  \/ HostSteps \/ HostReceives \/ HostTakes \/ HostWrites \/ HostWritesTun
  \/ TunFails \/ Interrupted \/ Listens \/ KilledUnheard
  \/ RemoteTakes \/ RemoteResumes \/ Responds \/ RemoteWrites \/ RemoteWritten
  \/ \E s \in Side : WritePiece(s) \/ ReaderSteps(s)
  \/ Press \/ SessionFails \/ RemoteDies

SessionSpec == SessionInit /\ [][SessionNext]_sessionVars

(* Tasks that can run do, and prompts are answered.  select! polls its      *)
(* branches in random order: one that is ready again and again is taken     *)
(* some time.                                                               *)
FairSessionSpec ==
  /\ SessionSpec
  /\ WF_sessionVars(HostSteps) /\ WF_sessionVars(RemoteWritten)
  /\ \A s \in Side : WF_sessionVars(WritePiece(s)) /\ WF_sessionVars(ReaderSteps(s))
  /\ SF_sessionVars(HostTakes) /\ SF_sessionVars(RemoteTakes)

(* The same of the other branches, which the liveness of the host and of    *)
(* the remote does not need.                                                *)
AttentiveSpec ==
  /\ FairSessionSpec
  /\ SF_sessionVars(HostWrites) /\ SF_sessionVars(RemoteWrites)
  /\ SF_sessionVars(Interrupted)

-----------------------------------------------------------------------------
(* A reader is always where the stream says it is: between writes that are  *)
(* split, waits for room and ends of stream, no reader takes a body for a   *)
(* length or a length for a body (protocol.rs:107-138; the reader tasks of  *)
(* mod.rs:140-152 and remote/mod.rs:57-72 exist because read_message cannot *)
(* be dropped half-way by a select).                                        *)
FramesAligned ==
  \A s \in Side :
    LET rest == wire[s] \o out[Peer(s)]
    IN  (Running(s) /\ Running(Peer(s)) /\ Up) =>
          \A n \in DOMAIN rest :
            CASE (frame[s] + n) % 3 = 1 -> rest[n] = "len1"
              [] (frame[s] + n) % 3 = 2 -> rest[n] = "len2"
              [] OTHER -> rest[n] \in Message

(* Whatever ends the session, the resolver has been told to revert when run *)
(* returns, except after a registration that failed half-way and after a    *)
(* kill before tokio's handler is installed (mod.rs:80-98).                 *)
ResolverReverted ==
  host = "exited" /\ resolver = "registered" => exit \in {"unregistered", "killed"}

(* The host's loop waits for the remote to read: its stream is full and the *)
(* reader there waits for room in a full queue, which the remote's loop does *)
(* not empty: it writes to a full stream itself, or one of its handlers      *)
(* waits for a connection.  Only the end of the session resolves the first.  *)
Stuffed(s) ==
  /\ Up /\ Running(Peer(s)) /\ Writing(s) /\ out[s] # <<>>
  /\ Len(wire[Peer(s)]) = WireCap
  /\ frame[Peer(s)] = 2 /\ ~HasRoom(Peer(s))

Stalled == Stuffed("host") /\ (Stuffed("remote") \/ remote = "waiting")

(* A message the host starts to write gets through, or the session ends,    *)
(* except when the remote stalls: a slow reader, a full queue or a loop that *)
(* is busy with its own write only delay it.  This goes for the Shutdown     *)
(* message too, so an interrupt that is heard ends the host (mod.rs:206-212, *)
(* mod.rs:244, remote/mod.rs:97-105).                                       *)
WritesEnd == Writing("host") ~> (~Writing("host") \/ Stalled)

(* The host returns once its remote is gone or the session has ended, with  *)
(* whatever was in flight, unless its loop is blocked on its own channels   *)
(* (mod.rs:113-126, :178-203, :236-247).                                    *)
HostEnds ==
  (session = "down" \/ remote = "exited") ~> (host \in {"exited", "blocked"})

(* README.md:75, "the remote process exits with the SSH session": whether   *)
(* the host failed half-way through its start-up, was killed, lost the      *)
(* session or shut down, and whatever the remote was doing, unless a        *)
(* handler of its waits for a connection.                                   *)
RemoteEnds ==
  (session = "down" /\ remote # "none") ~> (remote \in {"exited", "waiting"})

(* README.md:75, "Press ctrl-c to shut the tunnel down": one is enough,     *)
(* whatever the loop is doing, as long as it goes on.                       *)
OneInterruptStops ==
  ctrl_c = "heard" ~> (host \in {"shutting", "reverting", "exited", "blocked"})

=============================================================================
