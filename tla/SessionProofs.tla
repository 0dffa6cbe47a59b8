---------------------------- MODULE SessionProofs ----------------------------
(***************************************************************************)
(* What TLAPS proves of Session for every capacity of the streams, queues   *)
(* and channels, and any number of identities and subnets: the type         *)
(* invariant, that the readers stay aligned with the frames, and that the   *)
(* resolver is reverted.                                                    *)
(*                                                                         *)
(* The types need the alignment: what a reader delivers is a message only   *)
(* because it reads a body where a body is.  AlignInv counts pieces three   *)
(* by three: what is on a stream fits what its reader has (WireFits), and   *)
(* what is yet to be written fits what is on the stream and ends a frame    *)
(* (OutFits), so that the next frame starts where one ended.                *)
(***************************************************************************)
EXTENDS Session, SequenceTheorems, TLAPS

-----------------------------------------------------------------------------
(* Start-up keeps its types.                                                *)

(* A return from run leaves a state of the right type.                      *)
LEMMA ReturnsType ==
  ASSUME StartTypeOK, NEW why \in Reason, Returns(why)
  PROVE  StartTypeOK'
  BY StartAssumption DEF StartTypeOK, Returns

(* So does going from one phase to another with the rest as it was.         *)
LEMMA GoesType ==
  ASSUME StartTypeOK, NEW from, NEW to \in Starting, GoesTo(from, to), OnlyHost
  PROVE  StartTypeOK'
  BY DEF StartTypeOK, GoesTo, OnlyHost

(* So does being granted access.                                            *)
LEMMA GrantsType ==
  ASSUME StartTypeOK, NEW from, Grants(from)
  PROVE  StartTypeOK'
  BY StartAssumption DEF StartTypeOK, Grants, GoesTo, Starting

(* And the next identity, when one is left.                                 *)
LEMMA NextIdentityType ==
  ASSUME StartTypeOK, NEW from, NextIdentity(from), identities > 0
  PROVE  StartTypeOK'
  BY StartAssumption DEF StartTypeOK, NextIdentity, GoesTo, Starting

(* The phases in which the resolver may have been told something.           *)
Late == {"domains", "ready", "select", "writing", "blocked", "shutting",
         "reverting", "exited"}

(* The keyboard-interactive step belongs to an identity; the resolver is    *)
(* told when start-up gets there.                                           *)
StartInv ==
  /\ StartTypeOK
  /\ host = "keyboard" => identities > 0
  /\ resolver # "off" => host \in Late
  /\ ResolverReverted

(* A return that is not one of the last two of start-up finds the resolver  *)
(* off.                                                                     *)
LEMMA ReturnsInv ==
  ASSUME StartInv, NEW why \in Reason, Returns(why),
         resolver = "registered" => why \in {"unregistered", "killed"}
  PROVE  StartInv'
<1>1. StartTypeOK'
  BY ReturnsType DEF StartInv
<1> QED
  BY <1>1 DEF StartInv, Returns, ResolverReverted, Late

(* Going to another phase.                                                  *)
LEMMA GoesInv ==
  ASSUME StartInv, NEW from, NEW to \in Starting, GoesTo(from, to), OnlyHost,
         to = "keyboard" => identities > 0,
         from \in Late => to \in Late
  PROVE  StartInv'
<1>1. StartTypeOK'
  BY GoesType DEF StartInv
<1> QED
  BY <1>1 DEF StartInv, GoesTo, OnlyHost, ResolverReverted, Starting

(* Being granted access, and the next identity, happen before the resolver. *)
LEMMA IdentityInv ==
  ASSUME StartInv, NEW from, from \notin Late,
         Grants(from) \/ (NextIdentity(from) /\ identities > 0)
  PROVE  StartInv'
<1>1. StartTypeOK'
  BY GrantsType, NextIdentityType DEF StartInv
<1> QED
  BY <1>1 DEF StartInv, Grants, NextIdentity, GoesTo, ResolverReverted, Late

(* Every step of start-up keeps StartInv.                                   *)
LEMMA StartStepsInv ==
  ASSUME StartInv, StartSteps
  PROVE  StartInv'
<1> USE DEF Starting, Reason, Late
<1>0. StartTypeOK
  BY DEF StartInv
<1>1. ASSUME NEW from \in Starting \ Late, Fails(from, "failed") PROVE StartInv'
  <2>1. Returns("failed") /\ resolver = "off"
    BY <1>0, <1>1 DEF Fails, StartInv, StartTypeOK
  <2> QED
    BY <2>1, ReturnsInv
<1>2. ASSUME ParsesArgs PROVE StartInv'
  BY <1>1, <1>2, GoesInv DEF ParsesArgs
<1>3. ASSUME Connects PROVE StartInv'
  <2>1. CASE Fails("connect", "failed")
    BY <1>1, <2>1
  <2>2. CASE /\ host = "connect" /\ host' \in {"key", "agent"} /\ session' = "up"
             /\ UNCHANGED <<identities, granted, tun, routes, resolver, exit>>
    <3>1. StartTypeOK'
      BY <1>0, <2>2 DEF StartTypeOK
    <3> QED
      BY <2>2, <3>1 DEF StartInv, ResolverReverted
  <2> QED
    BY <1>3, <2>1, <2>2 DEF Connects
<1>4. ASSUME AuthenticatesWithKey PROVE StartInv'
  BY <1>1, <1>4, IdentityInv DEF AuthenticatesWithKey
<1>5. ASSUME AsksAgent PROVE StartInv'
  <2>1. CASE GoesTo("agent", "password") /\ OnlyHost
    BY <2>1, GoesInv
  <2>2. CASE /\ GoesTo("agent", "identity") /\ identities' \in 0..MaxIdentities
             /\ UNCHANGED <<granted, tun, routes, resolver, session, exit>>
    <3>1. StartTypeOK'
      BY <1>0, <2>2 DEF StartTypeOK, GoesTo
    <3> QED
      BY <2>2, <3>1 DEF StartInv, ResolverReverted, GoesTo
  <2> QED
    BY <1>5, <2>1, <2>2 DEF AsksAgent
<1>6. ASSUME TriesIdentity PROVE StartInv'
  <2>1. CASE identities > 0 /\ (Grants("identity") \/ NextIdentity("identity"))
    BY <2>1, IdentityInv
  <2>2. CASE identities > 0 /\ GoesTo("identity", "keyboard") /\ OnlyHost
    BY <2>2, GoesInv
  <2>3. CASE GoesTo("identity", "password") /\ OnlyHost
    BY <2>3, GoesInv
  <2> QED
    BY <1>6, <2>1, <2>2, <2>3 DEF TriesIdentity
<1>7. ASSUME EndsKeyboard PROVE StartInv'
  <2>1. CASE Grants("keyboard")
    BY <2>1, IdentityInv
  <2>2. CASE NextIdentity("keyboard")
    <3>1. identities > 0
      BY <2>2 DEF NextIdentity, GoesTo, StartInv
    <3> QED
      BY <2>2, <3>1, IdentityInv
  <2>3. CASE GoesTo("keyboard", "password") /\ OnlyHost
    BY <2>3, GoesInv
  <2> QED
    BY <1>7, <2>1, <2>2, <2>3 DEF EndsKeyboard
<1>8. ASSUME AuthenticatesWithPassword PROVE StartInv'
  BY <1>1, <1>8, IdentityInv DEF AuthenticatesWithPassword
<1>9. ASSUME CreatesTun PROVE StartInv'
  <2>1. CASE Fails("tun", "failed")
    BY <1>1, <2>1
  <2>2. CASE /\ GoesTo("tun", "routes") /\ tun' = "up"
             /\ UNCHANGED <<identities, granted, routes, resolver, session, exit>>
    <3>1. StartTypeOK'
      BY <1>0, <2>2 DEF StartTypeOK, GoesTo
    <3> QED
      BY <2>2, <3>1 DEF StartInv, ResolverReverted, GoesTo
  <2> QED
    BY <1>9, <2>1, <2>2 DEF CreatesTun
<1>10. ASSUME AddsRoute PROVE StartInv'
  <2>1. CASE Fails("routes", "failed")
    BY <1>1, <2>1
  <2>2. CASE /\ host = "routes" /\ routes < Subnets /\ routes' = routes + 1
             /\ UNCHANGED <<host, identities, granted, tun, resolver, session, exit>>
    <3>1. StartTypeOK'
      BY <1>0, <2>2, StartAssumption DEF StartTypeOK
    <3> QED
      BY <2>2, <3>1 DEF StartInv, ResolverReverted
  <2>3. CASE host = "routes" /\ host' \in {"dns", "ready"} /\ OnlyHost
    BY <2>3, GoesInv DEF GoesTo
  <2> QED
    BY <1>10, <2>1, <2>2, <2>3 DEF AddsRoute
<1>11. ASSUME RegistersServer PROVE StartInv'
  <2>1. CASE Fails("dns", "failed")
    BY <1>1, <2>1
  <2>2. CASE /\ host = "dns" /\ host' \in {"domains", "ready"}
             /\ resolver' = "registered"
             /\ UNCHANGED <<identities, granted, tun, routes, session, exit>>
    <3>1. StartTypeOK'
      BY <1>0, <2>2 DEF StartTypeOK
    <3> QED
      BY <2>2, <3>1 DEF StartInv, ResolverReverted
  <2> QED
    BY <1>11, <2>1, <2>2 DEF RegistersServer
<1>12. ASSUME RegistersDomains PROVE StartInv'
  <2>1. CASE GoesTo("domains", "ready") /\ OnlyHost
    BY <2>1, GoesInv
  <2>2. CASE Fails("domains", "unregistered")
    BY <2>2, ReturnsInv DEF Fails
  <2> QED
    BY <1>12, <2>1, <2>2 DEF RegistersDomains
<1> QED
  BY <1>2, <1>3, <1>4, <1>5, <1>6, <1>7, <1>8, <1>9, <1>10, <1>11, <1>12
  DEF StartSteps

-----------------------------------------------------------------------------
(* The whole session keeps StartInv.                                        *)

(* Moves within the loop.                                                   *)
LEMMA LoopMoveInv ==
  ASSUME StartInv, OnlyHost, host \in Late,
         host' \in {"select", "writing", "blocked", "shutting"}
  PROVE  StartInv'
<1>1. StartTypeOK'
  BY DEF StartInv, StartTypeOK, OnlyHost
<1> QED
  BY <1>1 DEF StartInv, OnlyHost, ResolverReverted, Late

(* Leaving the loop drops the device.                                       *)
LEMMA LeavesInv ==
  ASSUME StartInv, LeavesLoop
  PROVE  StartInv'
<1>1. StartTypeOK'
  BY StartAssumption DEF StartInv, StartTypeOK, LeavesLoop
<1> QED
  BY <1>1 DEF StartInv, LeavesLoop, ResolverReverted, Late

(* What touches none of the start-up's variables.                           *)
LEMMA StartKept ==
  ASSUME StartInv, UNCHANGED startVars
  PROVE  StartInv'
<1>1. StartTypeOK'
  BY DEF StartInv, StartTypeOK, startVars
<1> QED
  BY <1>1 DEF StartInv, startVars, ResolverReverted

(* What the actions of Session do to the phase of the host.                 *)
LEMMA HostEffects ==
  ASSUME SessionNext
  PROVE  \/ StartSteps \/ Killed \/ LeavesLoop
         \/ GoesTo("exec", "tun") /\ OnlyHost
         \/ Fails("exec", "failed")
         \/ /\ OnlyHost /\ host \in Late
            /\ host' \in {"select", "writing", "blocked", "shutting"}
         \/ RevertsAndReturns
         \/ /\ session' = "down"
            /\ UNCHANGED <<host, identities, granted, tun, routes, resolver, exit>>
         \/ UNCHANGED startVars
<1> USE DEF Late, Branch, Breaks, Handles
<1>1. StartUp => StartSteps
  BY DEF StartUp
<1>2. ExecutesRemote => \/ GoesTo("exec", "tun") /\ OnlyHost
                        \/ Fails("exec", "failed")
  BY DEF ExecutesRemote
<1>3. AwaitsReady => \/ LeavesLoop
                     \/ OnlyHost /\ host \in Late /\ host' = "select"
  BY DEF AwaitsReady
<1>4. HostWritten => \/ LeavesLoop
                     \/ /\ OnlyHost /\ host \in Late
                        /\ host' \in {"select", "writing", "blocked", "shutting"}
  BY DEF HostWritten
<1>5. HostReceives => /\ OnlyHost /\ host \in Late
                      /\ host' \in {"select", "writing", "blocked", "shutting"}
  BY DEF HostReceives
<1>6. HostTakes => /\ OnlyHost /\ host \in Late
                   /\ host' \in {"select", "writing", "blocked", "shutting"}
  BY DEF HostTakes
<1>7. HostWrites \/ TunFails \/ Interrupted
        => /\ OnlyHost /\ host \in Late
           /\ host' \in {"select", "writing", "blocked", "shutting"}
  BY DEF HostWrites, TunFails, Interrupted
<1>8. HostWritesTun => \/ UNCHANGED startVars
                       \/ /\ OnlyHost /\ host \in Late
                          /\ host' \in {"select", "writing", "blocked", "shutting"}
  BY DEF HostWritesTun
<1>9. KilledUnheard => Killed
  BY DEF KilledUnheard
<1>10. RemoteTakes \/ RemoteResumes \/ Responds \/ RemoteWrites \/ RemoteWritten
         \/ Listens \/ Press \/ RemoteDies => UNCHANGED startVars
  BY DEF RemoteTakes, RemoteResumes, Responds, RemoteWrites, RemoteWritten, Listens,
         Press, RemoteDies
<1>11. \A s \in Side : WritePiece(s) \/ ReaderSteps(s) => UNCHANGED startVars
  BY DEF WritePiece, ReaderSteps, ReadPiece, ReadEnd
<1>12. SessionFails =>
         /\ session' = "down"
         /\ UNCHANGED <<host, identities, granted, tun, routes, resolver, exit>>
  BY DEF SessionFails
<1> QED
  BY <1>1, <1>2, <1>3, <1>4, <1>5, <1>6, <1>7, <1>8, <1>9, <1>10, <1>11, <1>12
  DEF SessionNext, HostSteps

(* StartInv is kept.                                                        *)
LEMMA NextStartInv ==
  ASSUME StartInv, [SessionNext]_sessionVars
  PROVE  StartInv'
<1>0. StartTypeOK
  BY DEF StartInv
<1>1. StartSteps => StartInv'
  BY StartStepsInv
<1>2. Killed => StartInv'
  BY ReturnsInv DEF Killed, Reason
<1>3. LeavesLoop => StartInv'
  BY LeavesInv
<1>4. GoesTo("exec", "tun") /\ OnlyHost => StartInv'
  BY GoesInv DEF Starting, Late
<1>5. ASSUME Fails("exec", "failed") PROVE StartInv'
  <2>1. Returns("failed") /\ resolver = "off"
    BY <1>0, <1>5 DEF Fails, StartInv, StartTypeOK, Late
  <2> QED
    BY <2>1, ReturnsInv DEF Reason
<1>6. ASSUME OnlyHost, host \in Late,
             host' \in {"select", "writing", "blocked", "shutting"}
      PROVE  StartInv'
  BY <1>6, LoopMoveInv
<1>7. ASSUME RevertsAndReturns PROVE StartInv'
  <2>1. StartTypeOK'
    BY <1>0, <1>7 DEF RevertsAndReturns, GoesTo, StartTypeOK, Reason
  <2> QED
    BY <1>7, <2>1 DEF RevertsAndReturns, GoesTo, StartInv, ResolverReverted, Late
<1>8. ASSUME session' = "down",
             UNCHANGED <<host, identities, granted, tun, routes, resolver, exit>>
      PROVE  StartInv'
  <2>1. StartTypeOK'
    BY <1>0, <1>8 DEF StartTypeOK
  <2> QED
    BY <1>8, <2>1 DEF StartInv, ResolverReverted
<1>9. UNCHANGED startVars \/ UNCHANGED sessionVars => StartInv'
  BY StartKept DEF sessionVars
<1> QED
  BY <1>1, <1>2, <1>3, <1>4, <1>5, <1>6, <1>7, <1>8, <1>9, HostEffects

(* StartInv holds at the start.                                             *)
LEMMA InitStartInv ==
  ASSUME SessionInit
  PROVE  StartInv
<1>1. StartInit
  BY DEF SessionInit
<1>2. StartTypeOK
  <2>1. granted \in BOOLEAN
    BY <1>1, Zenon DEF StartInit
  <2>2. identities \in 0..MaxIdentities /\ routes \in 0..Subnets
    BY <1>1, StartAssumption DEF StartInit
  <2>3. /\ host = "parse" /\ tun = "absent" /\ resolver = "off"
        /\ session = "none" /\ exit = "running"
    BY <1>1 DEF StartInit
  <2> QED
    BY <2>1, <2>2, <2>3 DEF StartTypeOK, Starting, Reason
<1>3. host = "parse" /\ resolver = "off"
  BY <1>1 DEF StartInit
<1> QED
  BY <1>2, <1>3 DEF StartInv, ResolverReverted

(* ResolverReverted: whatever ends the session, systemd-resolved has been   *)
(* told to revert when run returns, unless the registration failed half-way *)
(* or the process was killed while tokio's handler was not installed        *)
(* (mod.rs:80-98).                                                          *)
THEOREM SessionResolverReverted == SessionSpec => []ResolverReverted
<1>1. SessionInit => StartInv
  BY InitStartInv
<1>2. StartInv /\ [SessionNext]_sessionVars => StartInv'
  BY NextStartInv
<1>3. StartInv => ResolverReverted
  BY DEF StartInv
<1> QED
  BY <1>1, <1>2, <1>3, PTL DEF SessionSpec

-----------------------------------------------------------------------------
(* The types of what is between the two processes.                          *)

Item == Message \cup {"eof", "err"}

OutOK == out \in [Side -> Seq(Piece)] /\ \A s \in Side : Len(out[s]) <= 3

WireOK == wire \in [Side -> Seq(Piece)] /\ \A s \in Side : Len(wire[s]) <= WireCap

QueueOK == queue \in [Side -> Seq(Item)] /\ \A s \in Side : Len(queue[s]) <= QueueCap

ChanOK == chan \in [Side -> 0..ChanCap] /\ to_tun \in 0..ChanCap

(* Taking the first of a sequence.                                          *)
LEMMA TailType ==
  ASSUME NEW M, NEW q \in Seq(M), q # <<>>
  PROVE  /\ Tail(q) \in Seq(M) /\ Head(q) \in M /\ Head(q) = q[1]
         /\ Len(Tail(q)) = Len(q) - 1 /\ Len(q) \in Nat /\ 1 \in DOMAIN q
         /\ \A n \in DOMAIN Tail(q) : /\ n \in Nat /\ n + 1 \in DOMAIN q
                                      /\ Tail(q)[n] = q[n + 1]
  OBVIOUS

(* A frame has three pieces.                                                *)
LEMMA FrameFacts ==
  ASSUME NEW m \in Message
  PROVE  /\ Frame(m) \in Seq(Piece) /\ Len(Frame(m)) = 3
         /\ Frame(m)[1] = "len1" /\ Frame(m)[2] = "len2" /\ Frame(m)[3] = m
  BY DEF Frame, Piece

(* Starting a frame.                                                        *)
LEMMA OutSet ==
  ASSUME OutOK, NEW p \in Side, NEW m \in Message, out' = [out EXCEPT ![p] = Frame(m)]
  PROVE  OutOK'
<1>1. Frame(m) \in Seq(Piece) /\ Len(Frame(m)) <= 3
  BY FrameFacts, SMTT(30)
<1> DEFINE q == Frame(m)
<1> HIDE DEF q
<1>2. q \in Seq(Piece) /\ Len(q) <= 3 /\ out' = [out EXCEPT ![p] = q]
  BY <1>1 DEF q
<1> QED
  BY <1>2 DEF OutOK

(* A queue after its first item has been taken, or after it was dropped.    *)
LEMMA QueueLess ==
  ASSUME QueueOK, NEW p \in Side,
         \/ queue[p] # <<>> /\ queue' = [queue EXCEPT ![p] = Tail(@)]
         \/ queue' = [queue EXCEPT ![p] = <<>>]
  PROVE  QueueOK'
<1>1. CASE queue[p] # <<>> /\ queue' = [queue EXCEPT ![p] = Tail(@)]
  <2> DEFINE q == Tail(queue[p])
  <2>1. queue[p] \in Seq(Item) /\ Len(queue[p]) <= QueueCap
    BY DEF QueueOK
  <2>2. q \in Seq(Item) /\ Len(q) = Len(queue[p]) - 1 /\ Len(queue[p]) \in Nat
    BY <1>1, <2>1, TailType
  <2>3. Len(q) <= QueueCap
    BY <2>1, <2>2, SessionAssumption
  <2>4. queue' = [queue EXCEPT ![p] = q]
    BY <1>1
  <2> HIDE DEF q
  <2> QED
    BY <2>2, <2>3, <2>4 DEF QueueOK
<1>2. CASE queue' = [queue EXCEPT ![p] = <<>>]
  <2>1. <<>> \in Seq(Item) /\ Len(<<>>) <= QueueCap
    BY SessionAssumption
  <2> QED
    BY <1>2, <2>1 DEF QueueOK
<1> QED
  BY <1>1, <1>2

(* A queue after its reader has put an item into the room it has.           *)
LEMMA QueueMore ==
  ASSUME QueueOK, NEW p \in Side, NEW e \in Item, HasRoom(p),
         queue' = [queue EXCEPT ![p] = Append(@, e)]
  PROVE  QueueOK'
<1> DEFINE q == Append(queue[p], e)
<1>1. queue[p] \in Seq(Item) /\ Len(queue[p]) < QueueCap
  BY DEF QueueOK, HasRoom
<1>2. q \in Seq(Item) /\ Len(q) = Len(queue[p]) + 1 /\ Len(queue[p]) \in Nat
  BY <1>1
<1>3. Len(q) <= QueueCap
  BY <1>1, <1>2, SessionAssumption
<1>4. queue' = [queue EXCEPT ![p] = q]
  OBVIOUS
<1> HIDE DEF q
<1> QED
  BY <1>2, <1>3, <1>4 DEF QueueOK

(* A piece written, or read, keeps the streams' types.                      *)
LEMMA WriteType ==
  ASSUME OutOK, WireOK, NEW s \in Side, WritePiece(s)
  PROVE  OutOK' /\ WireOK'
<1> DEFINE p == Peer(s)
           q == Tail(out[s])
           w == Append(wire[p], Head(out[s]))
<1>0. p \in Side
  BY DEF Peer, Side
<1>1. out[s] \in Seq(Piece) /\ Len(out[s]) <= 3 /\ out[s] # <<>>
  BY DEF OutOK, WritePiece
<1>2. wire[p] \in Seq(Piece) /\ Len(wire[p]) < WireCap
  BY <1>0 DEF WireOK, WritePiece
<1>3. /\ q \in Seq(Piece) /\ Len(q) = Len(out[s]) - 1 /\ Len(out[s]) \in Nat
      /\ Head(out[s]) \in Piece
  BY <1>1, TailType
<1>4. w \in Seq(Piece) /\ Len(w) = Len(wire[p]) + 1 /\ Len(wire[p]) \in Nat
  BY <1>2, <1>3
<1>5. Len(q) <= 3 /\ Len(w) <= WireCap
  BY <1>1, <1>2, <1>3, <1>4, SessionAssumption
<1>6. out' = [out EXCEPT ![s] = q] /\ wire' = [wire EXCEPT ![p] = w]
  BY DEF WritePiece
<1> HIDE DEF p, q, w
<1>7. OutOK'
  BY <1>3, <1>5, <1>6 DEF OutOK
<1>8. WireOK'
  BY <1>0, <1>4, <1>5, <1>6 DEF WireOK
<1> QED
  BY <1>7, <1>8

(* Reading takes the first piece of a stream.                               *)
LEMMA ReadWireType ==
  ASSUME WireOK, NEW s \in Side, ReadPiece(s)
  PROVE  WireOK'
<1> DEFINE q == Tail(wire[s])
<1>1. wire[s] \in Seq(Piece) /\ Len(wire[s]) <= WireCap /\ wire[s] # <<>>
  BY DEF WireOK, ReadPiece
<1>2. q \in Seq(Piece) /\ Len(q) = Len(wire[s]) - 1 /\ Len(wire[s]) \in Nat
  BY <1>1, TailType
<1>3. Len(q) <= WireCap
  BY <1>1, <1>2, SessionAssumption
<1>4. wire' = [wire EXCEPT ![s] = q]
  BY DEF ReadPiece
<1> HIDE DEF q
<1> QED
  BY <1>2, <1>3, <1>4 DEF WireOK

-----------------------------------------------------------------------------
(* What each step does to each part of the state.                           *)

(* A queue loses its first item or all of them, or its reader adds one.     *)
LEMMA QueueEffects ==
  ASSUME SessionNext
  PROVE  \/ UNCHANGED queue
         \/ \E p \in Side : TakesItem(p) \/ Drops(p) \/ ReadPiece(p) \/ ReadEnd(p)
<1> USE DEF Branch, ioVars
<1>0. "host" \in Side /\ "remote" \in Side
  BY DEF Side
<1>1. StartUp \/ KilledUnheard \/ ExecutesRemote \/ RevertsAndReturns \/ HostReceives
        \/ HostWrites \/ HostWritesTun \/ TunFails \/ Interrupted => UNCHANGED queue
  BY DEF StartUp, KilledUnheard, ExecutesRemote, RevertsAndReturns, HostReceives,
         HostWrites, HostWritesTun, TunFails, Interrupted
<1>2. RemoteResumes \/ Responds \/ RemoteWrites \/ Listens \/ Press \/ SessionFails
        => UNCHANGED queue
  BY DEF RemoteResumes, Responds, RemoteWrites, Listens, Press, SessionFails
<1>3. AwaitsReady \/ HostTakes => TakesItem("host")
  BY DEF AwaitsReady, HostTakes
<1>4. HostWritten => UNCHANGED queue \/ Drops("host")
  BY DEF HostWritten
<1>5. RemoteTakes => TakesItem("remote") \/ Drops("remote")
  BY DEF RemoteTakes
<1>6. RemoteWritten => UNCHANGED queue \/ Drops("remote")
  BY DEF RemoteWritten
<1>7. RemoteDies => Drops("remote")
  BY DEF RemoteDies
<1>8. \A s \in Side : WritePiece(s) => UNCHANGED queue
  BY DEF WritePiece
<1> QED
  BY <1>0, <1>1, <1>2, <1>3, <1>4, <1>5, <1>6, <1>7, <1>8
  DEF SessionNext, HostSteps, ReaderSteps

(* The channels stay within their capacity.                                 *)
LEMMA HandlesType ==
  ASSUME ChanOK, NEW m \in 0..MaxBurst, NEW t \in 0..MaxBurst, Handles(m, t)
  PROVE  ChanOK'
<1>1. chan["host"] \in 0..ChanCap /\ ChanCap \in Nat /\ m \in Nat /\ t \in Nat
  BY SessionAssumption DEF ChanOK, Side
<1>2. CASE chan["host"] + m <= ChanCap /\ to_tun + t <= ChanCap
  <2> DEFINE c == chan["host"] + m
  <2>1. c \in 0..ChanCap /\ to_tun + t \in 0..ChanCap
    BY <1>1, <1>2 DEF ChanOK
  <2>2. chan' = [chan EXCEPT !["host"] = c] /\ to_tun' = to_tun + t
    BY <1>2 DEF Handles
  <2> HIDE DEF c
  <2> QED
    BY <2>1, <2>2 DEF ChanOK
<1>3. CASE ~(chan["host"] + m <= ChanCap /\ to_tun + t <= ChanCap)
  BY <1>3 DEF Handles, ChanOK
<1> QED
  BY <1>2, <1>3

(* A channel of one side emptied, or one message less or more.              *)
LEMMA ChanStep ==
  ASSUME ChanOK, NEW p \in Side, UNCHANGED to_tun \/ to_tun' = 0,
         \/ chan' = [chan EXCEPT ![p] = 0]
         \/ chan[p] > 0 /\ chan' = [chan EXCEPT ![p] = @ - 1]
         \/ chan[p] < ChanCap /\ chan' = [chan EXCEPT ![p] = @ + 1]
         \/ UNCHANGED chan
  PROVE  ChanOK'
<1>1. chan[p] \in 0..ChanCap /\ ChanCap \in Nat
  BY SessionAssumption DEF ChanOK
<1>2. to_tun' \in 0..ChanCap
  BY <1>1 DEF ChanOK
<1>3. chan' = [chan EXCEPT ![p] = 0] => chan' \in [Side -> 0..ChanCap]
  BY <1>1 DEF ChanOK
<1>4. chan[p] > 0 /\ chan' = [chan EXCEPT ![p] = @ - 1]
        => chan' \in [Side -> 0..ChanCap]
  BY <1>1 DEF ChanOK
<1>5. chan[p] < ChanCap /\ chan' = [chan EXCEPT ![p] = @ + 1]
        => chan' \in [Side -> 0..ChanCap]
  BY <1>1 DEF ChanOK
<1>6. UNCHANGED chan => chan' \in [Side -> 0..ChanCap]
  BY DEF ChanOK
<1> QED
  BY <1>2, <1>3, <1>4, <1>5, <1>6 DEF ChanOK

(* ChanOK is kept.                                                          *)
LEMMA NextChanOK ==
  ASSUME ChanOK, SessionNext
  PROVE  ChanOK'
<1> USE DEF Branch, ioVars
<1>0. "host" \in Side /\ "remote" \in Side
  BY DEF Side
<1>1. UNCHANGED <<chan, to_tun>> => ChanOK'
  BY DEF ChanOK
<1>2. StartUp \/ KilledUnheard \/ ExecutesRemote \/ AwaitsReady \/ RevertsAndReturns
        \/ TunFails \/ Interrupted => UNCHANGED <<chan, to_tun>>
  BY DEF StartUp, KilledUnheard, ExecutesRemote, AwaitsReady, RevertsAndReturns,
         TunFails, Interrupted
<1>3. RemoteResumes \/ Listens \/ Press \/ SessionFails => UNCHANGED <<chan, to_tun>>
  BY DEF RemoteResumes, Listens, Press, SessionFails
<1>4. \A s \in Side : WritePiece(s) \/ ReadPiece(s) \/ ReadEnd(s)
                        => UNCHANGED <<chan, to_tun>>
  BY DEF WritePiece, ReadPiece, ReadEnd
<1>5. HostReceives => ChanOK'
  BY HandlesType DEF HostReceives
<1>6. ASSUME HostTakes PROVE ChanOK'
  <2>1. (\E t \in 0..MaxBurst : Handles(0, t)) \/ UNCHANGED <<chan, to_tun>>
    BY <1>6 DEF HostTakes
  <2>2. 0 \in 0..MaxBurst
    BY SessionAssumption
  <2> QED
    BY <1>1, <2>1, <2>2, HandlesType
<1>7. HostWrites => ChanOK'
  BY <1>0, ChanStep DEF HostWrites
<1>8. ASSUME HostWritesTun PROVE ChanOK'
  <2>1. UNCHANGED chan /\ to_tun > 0 /\ to_tun' = to_tun - 1
    BY <1>8 DEF HostWritesTun
  <2>2. to_tun' \in 0..ChanCap
    BY <2>1, SessionAssumption DEF ChanOK
  <2> QED
    BY <2>1, <2>2 DEF ChanOK
<1>9. HostWritten => ChanOK'
  BY <1>0, <1>1, ChanStep DEF HostWritten, Drops
<1>10. RemoteTakes \/ Responds \/ RemoteWrites \/ RemoteWritten \/ RemoteDies
         => ChanOK'
  BY <1>0, ChanStep DEF RemoteTakes, Responds, RemoteWrites, RemoteWritten,
                        RemoteDies, Drops
<1> QED
  BY <1>1, <1>2, <1>3, <1>4, <1>5, <1>6, <1>7, <1>8, <1>9, <1>10
  DEF SessionNext, HostSteps, ReaderSteps

(* The remote's phase.                                                      *)
RemoteOK == remote \in {"none", "select", "writing", "waiting", "exited"}

(* RemoteOK is kept.                                                        *)
LEMMA NextRemoteOK ==
  ASSUME RemoteOK, SessionNext
  PROVE  RemoteOK'
<1> USE DEF Branch, RemoteOK
<1>1. StartUp \/ KilledUnheard \/ ExecutesRemote \/ AwaitsReady \/ RevertsAndReturns
        \/ HostWritten => RemoteOK'
  BY DEF StartUp, KilledUnheard, ExecutesRemote, AwaitsReady, RevertsAndReturns,
         HostWritten
<1>2. HostReceives \/ HostTakes \/ HostWrites \/ HostWritesTun \/ TunFails
        \/ Interrupted \/ Listens \/ Press \/ SessionFails => RemoteOK'
  BY DEF HostReceives, HostTakes, HostWrites, HostWritesTun, TunFails, Interrupted,
         Listens, Press, SessionFails
<1>3. \A s \in Side : WritePiece(s) \/ ReadPiece(s) \/ ReadEnd(s) => RemoteOK'
  BY DEF WritePiece, ReadPiece, ReadEnd
<1>4. RemoteTakes \/ RemoteResumes \/ Responds \/ RemoteWrites \/ RemoteWritten
        \/ RemoteDies => RemoteOK'
  BY DEF RemoteTakes, RemoteResumes, Responds, RemoteWrites, RemoteWritten, RemoteDies
<1> QED
  BY <1>1, <1>2, <1>3, <1>4 DEF SessionNext, HostSteps, ReaderSteps

(* The readers, and what the future of ctrl_c has done.                     *)
ReadingOK ==
  /\ reading \in [Side -> BOOLEAN]
  /\ ctrl_c \in {"uninstalled", "listening", "heard"}

(* ReadingOK is kept.                                                       *)
LEMMA NextReadingOK ==
  ASSUME ReadingOK, SessionNext
  PROVE  ReadingOK'
<1> USE DEF Branch, ioVars
<1>0. "host" \in Side /\ "remote" \in Side
  BY DEF Side
<1>1. UNCHANGED <<reading, ctrl_c>> => ReadingOK'
  BY DEF ReadingOK
<1>2. ASSUME UNCHANGED reading, ctrl_c' \in {"uninstalled", "listening", "heard"}
      PROVE  ReadingOK'
  BY <1>2 DEF ReadingOK
<1>3. ASSUME NEW p \in Side, reading' = [reading EXCEPT ![p] = FALSE], UNCHANGED ctrl_c
      PROVE  ReadingOK'
  BY <1>3 DEF ReadingOK
<1>4. StartUp \/ KilledUnheard \/ ExecutesRemote \/ AwaitsReady \/ RevertsAndReturns
        => UNCHANGED <<reading, ctrl_c>>
  BY DEF StartUp, KilledUnheard, ExecutesRemote, AwaitsReady, RevertsAndReturns
<1>5. HostReceives \/ HostTakes \/ HostWrites \/ HostWritesTun \/ TunFails
        \/ Interrupted
        => UNCHANGED reading /\ ctrl_c' \in {"uninstalled", "listening"}
  BY DEF HostReceives, HostTakes, HostWrites, HostWritesTun, TunFails, Interrupted
<1>6. Listens \/ Press => UNCHANGED reading /\ ctrl_c' \in {"listening", "heard"}
  BY DEF Listens, Press
<1>7. HostWritten => \/ UNCHANGED <<reading, ctrl_c>>
                     \/ reading' = [reading EXCEPT !["host"] = FALSE] /\ UNCHANGED ctrl_c
  BY DEF HostWritten, Drops
<1>8. RemoteTakes \/ RemoteWritten \/ RemoteDies
        => \/ UNCHANGED <<reading, ctrl_c>>
           \/ reading' = [reading EXCEPT !["remote"] = FALSE] /\ UNCHANGED ctrl_c
  BY DEF RemoteTakes, RemoteWritten, RemoteDies, Drops
<1>9. RemoteResumes \/ Responds \/ RemoteWrites \/ SessionFails
        => UNCHANGED <<reading, ctrl_c>>
  BY DEF RemoteResumes, Responds, RemoteWrites, SessionFails
<1>10. ASSUME NEW s \in Side, WritePiece(s) \/ ReadPiece(s) \/ ReadEnd(s)
       PROVE  \/ UNCHANGED <<reading, ctrl_c>>
              \/ reading' = [reading EXCEPT ![s] = FALSE] /\ UNCHANGED ctrl_c
  BY <1>10 DEF WritePiece, ReadPiece, ReadEnd
<1> QED
  BY <1>0, <1>1, <1>2, <1>3, <1>4, <1>5, <1>6, <1>7, <1>8, <1>9, <1>10
  DEF SessionNext, HostSteps, ReaderSteps

-----------------------------------------------------------------------------
(* The readers stay aligned.                                                *)

(* The piece that belongs at place k of a stream of frames.                 *)
Fits(k, x) ==
  /\ k % 3 = 1 => x = "len1"
  /\ k % 3 = 2 => x = "len2"
  /\ k % 3 = 0 => x \in Message

(* Start-up until the remote is executed.                                   *)
Before == {"parse", "connect", "key", "agent", "identity", "keyboard", "password",
           "exec"}

(* No remote, nothing on the streams.                                       *)
Quiet == \A s \in Side : out[s] = <<>> /\ wire[s] = <<>> /\ frame[s] = 0

QuietInv ==
  /\ host \in Before => remote = "none"
  /\ remote = "none" => host \in Before \cup {"exited"} /\ Quiet

(* What is on its way to a side fits what its reader has, always.           *)
WireFits(s) == \A n \in DOMAIN wire[s] : Fits(frame[s] + n, wire[s][n])

(* The place in the stream of a side's next piece.                          *)
Sent(s) == frame[Peer(s)] + Len(wire[Peer(s)])

(* What a side has yet to write fits what is on its way, and ends a frame.  *)
OutFits(s) ==
  /\ \A n \in DOMAIN out[s] : Fits(Sent(s) + n, out[s][n])
  /\ (Sent(s) + Len(out[s])) % 3 = 0

(* As long as both processes run and the session holds; a side that is not  *)
(* writing has nothing left to write.                                       *)
Live == Up /\ Running("host") /\ Running("remote")

AlignInv ==
  /\ QuietInv
  /\ \A s \in Side : WireFits(s)
  /\ Live => \A s \in Side : OutFits(s) /\ (~Writing(s) => out[s] = <<>>)

(* Counting pieces three by three.                                          *)
LEMMA Mod3 ==
  /\ \A k \in Nat : (k + 3) % 3 = k % 3
  /\ \A f \in 0..2, n \in Nat : (((f + 1) % 3) + n) % 3 = (f + (n + 1)) % 3
  /\ \A k \in Nat : k % 3 = 0 =>
       (k + 1) % 3 = 1 /\ (k + 2) % 3 = 2 /\ (k + 3) % 3 = 0
<1>1. \A k \in Nat : (k + 3) % 3 = k % 3
  OBVIOUS
<1>2. ASSUME NEW f \in 0..2, NEW n \in Nat
      PROVE  (((f + 1) % 3) + n) % 3 = (f + (n + 1)) % 3
  <2>1. CASE f \in {0, 1}
    <3>1. (f + 1) % 3 = f + 1 /\ f + 1 + n = f + (n + 1)
      BY <2>1
    <3> QED
      BY <3>1
  <2>2. CASE f = 2
    <3>1. (f + 1) % 3 = 0 /\ f + (n + 1) = n + 3
      BY <2>2
    <3> QED
      BY <1>1, <3>1
  <2> QED
    BY <2>1, <2>2
<1>3. ASSUME NEW k \in Nat, k % 3 = 0
      PROVE  (k + 1) % 3 = 1 /\ (k + 2) % 3 = 2 /\ (k + 3) % 3 = 0
  BY <1>3
<1> QED
  BY <1>1, <1>2, <1>3

(* A frame fits where the last one ended.                                   *)
LEMMA FrameFits ==
  ASSUME NEW k \in Nat, k % 3 = 0, NEW m \in Message
  PROVE  /\ \A n \in DOMAIN Frame(m) : Fits(k + n, Frame(m)[n])
         /\ (k + Len(Frame(m))) % 3 = 0
<1>1. (k + 1) % 3 = 1 /\ (k + 2) % 3 = 2 /\ (k + 3) % 3 = 0
  BY Mod3
<1>2. DOMAIN Frame(m) = 1..3 /\ Len(Frame(m)) = 3
  BY DEF Frame
<1>3. Frame(m)[1] = "len1" /\ Frame(m)[2] = "len2" /\ Frame(m)[3] = m
  BY FrameFacts
<1>4. ASSUME NEW n \in 1..3 PROVE Fits(k + n, Frame(m)[n])
  <2>1. n = 1 \/ n = 2 \/ n = 3
    OBVIOUS
  <2> QED
    BY <1>1, <1>3, <2>1 DEF Fits
<1> QED
  BY <1>1, <1>2, <1>4

Streams ==
  /\ OutOK /\ WireOK /\ frame \in [Side -> 0..2]

(* Facts about a side's stream that the steps below use.                    *)
LEMMA PeerFacts ==
  /\ Side = {"host", "remote"}
  /\ \A s \in Side : Peer(s) \in Side /\ Peer(Peer(s)) = s /\ Peer(s) # s
  BY DEF Side, Peer

(* A place is a number.                                                     *)
LEMMA SentNat ==
  ASSUME Streams, NEW s \in Side
  PROVE  Sent(s) \in Nat
  BY PeerFacts DEF Streams, WireOK, Sent

(* Start-up goes from before the remote to before the remote, or exits; an  *)
(* interrupt that kills the process exits from anywhere.                    *)
LEMMA StartStepsPhase ==
  ASSUME StartSteps \/ Killed
  PROVE  /\ host \in Before => host' \in Before \cup {"exited"}
         /\ host \notin Before => host' \notin Before
         /\ host # "exited" /\ (host \in Starting \/ host' = "exited")
         /\ session' = "up" => session = "up" \/ host = "connect"
<1> USE DEF Before, Starting, GoesTo, Fails, Returns, OnlyHost
<1>1. CASE Killed
  BY <1>1 DEF Killed
<1>2. CASE ParsesArgs \/ Connects \/ AuthenticatesWithKey \/ AsksAgent
  BY <1>2 DEF ParsesArgs, Connects, AuthenticatesWithKey, AsksAgent, Grants
<1>3. CASE TriesIdentity \/ EndsKeyboard \/ AuthenticatesWithPassword
  BY <1>3 DEF TriesIdentity, EndsKeyboard, AuthenticatesWithPassword, Grants,
              NextIdentity
<1>4. CASE CreatesTun \/ AddsRoute \/ RegistersServer \/ RegistersDomains
  BY <1>4 DEF CreatesTun, AddsRoute, RegistersServer, RegistersDomains
<1> QED
  BY <1>1, <1>2, <1>3, <1>4 DEF StartSteps

(* The actions of the loops.                                                *)
LoopStep ==
  \/ AwaitsReady \/ HostReceives \/ HostTakes \/ HostWrites \/ HostWritesTun
  \/ TunFails \/ Interrupted \/ HostWritten \/ RevertsAndReturns
  \/ RemoteTakes \/ RemoteResumes \/ Responds \/ RemoteWrites \/ RemoteWritten
  \/ Listens \/ Press \/ SessionFails \/ RemoteDies

(* None of them brings a process or the session back to life, or goes back  *)
(* to start-up, and those that belong to a loop find it running.            *)
LEMMA LoopStepPhase ==
  ASSUME LoopStep
  PROVE  /\ host' \in Before <=> host \in Before
         /\ host = "exited" => host' = "exited"
         /\ remote = "exited" => remote' = "exited"
         /\ remote = "none" => remote' = "none"
         /\ remote # "none" => remote' # "none"
         /\ session' = "up" => session = "up"
<1> USE DEF Before, Branch, Breaks, Handles, OnlyHost, LeavesLoop, GoesTo
<1>1. CASE AwaitsReady \/ HostReceives \/ HostTakes \/ HostWrites \/ HostWritesTun
  BY <1>1 DEF AwaitsReady, HostReceives, HostTakes, HostWrites, HostWritesTun, startVars
<1>2. CASE TunFails \/ Interrupted \/ HostWritten \/ RevertsAndReturns
  BY <1>2 DEF TunFails, Interrupted, HostWritten, RevertsAndReturns
<1>3. CASE RemoteTakes \/ RemoteResumes \/ Responds \/ RemoteWrites \/ RemoteWritten
  BY <1>3 DEF RemoteTakes, RemoteResumes, Responds, RemoteWrites, RemoteWritten,
              startVars
<1>4. CASE Listens \/ Press \/ SessionFails \/ RemoteDies
  BY <1>4 DEF Listens, Press, SessionFails, RemoteDies, startVars
<1> QED
  BY <1>1, <1>2, <1>3, <1>4 DEF LoopStep

(* The steps of the whole, in the classes the proofs go by.                 *)
LEMMA NextClasses ==
  SessionNext <=>
    \/ StartUp \/ KilledUnheard \/ ExecutesRemote \/ LoopStep
    \/ \E s \in Side : WritePiece(s) \/ ReadPiece(s) \/ ReadEnd(s)
  BY DEF SessionNext, HostSteps, LoopStep, ReaderSteps

(* Executing the remote.                                                    *)
Executed ==
  /\ GoesTo("exec", "tun") /\ OnlyHost
  /\ remote' = "writing"
  /\ out' = [out EXCEPT !["remote"] = Frame("Ready")]
  /\ UNCHANGED <<wire, frame>>

(* It is started, or the exec fails and the host returns.                   *)
LEMMA ExecutesRemoteCases ==
  ASSUME ExecutesRemote
  PROVE  \/ Executed
         \/ /\ host = "exec" /\ host' = "exited" /\ UNCHANGED <<remote, out, wire, frame>>
            /\ session' = "up" => session = "up"
  BY DEF ExecutesRemote, Executed, Fails, Returns, ioVars

(* Without a remote, no loop writes.                                        *)
LEMMA QuietKept ==
  ASSUME LoopStep, host \in Before \cup {"exited"}, remote = "none", Quiet
  PROVE  Quiet'
<1> USE DEF Before, Branch, Breaks, GoesTo, ioVars
<1>1. UNCHANGED <<out, wire, frame>> => Quiet'
  BY DEF Quiet
<1>2. CASE AwaitsReady \/ HostReceives \/ HostTakes \/ HostWrites \/ HostWritesTun
  BY <1>1, <1>2 DEF AwaitsReady, HostReceives, HostTakes, HostWrites, HostWritesTun
<1>3. CASE TunFails \/ Interrupted \/ HostWritten \/ RevertsAndReturns
  BY <1>1, <1>3 DEF TunFails, Interrupted, HostWritten, RevertsAndReturns
<1>4. CASE RemoteTakes \/ RemoteResumes \/ Responds \/ RemoteWrites \/ RemoteWritten
  BY <1>4 DEF RemoteTakes, RemoteResumes, Responds, RemoteWrites, RemoteWritten
<1>5. CASE Listens \/ Press \/ SessionFails \/ RemoteDies
  BY <1>1, <1>5 DEF Listens, Press, SessionFails, RemoteDies
<1> QED
  BY <1>2, <1>3, <1>4, <1>5 DEF LoopStep

(* QuietInv is kept, and with a remote the connection is not made again.    *)
LEMMA NextQuiet ==
  ASSUME QuietInv, OutOK, WireOK, SessionNext
  PROVE  /\ QuietInv'
         /\ Live' => Live \/ Quiet
<1> USE DEF QuietInv, Live, Running, Up
<1>0. "host" \in Side /\ "remote" \in Side
  BY DEF Side
<1>1. ASSUME StartUp \/ KilledUnheard PROVE QuietInv' /\ (Live' => Live \/ Quiet)
  <2>1. StartSteps \/ Killed
    BY <1>1 DEF StartUp, KilledUnheard
  <2>2. UNCHANGED <<remote, out, wire, frame>>
    BY <1>1 DEF StartUp, KilledUnheard, ioVars
  <2>3. Quiet <=> Quiet'
    BY <2>2 DEF Quiet
  <2>4. host # "exited"
    BY <2>1, StartStepsPhase
  <2>5. remote = "none" => host \in Before
    BY <2>4
  <2>6. QuietInv'
    BY <2>1, <2>2, <2>3, <2>5, StartStepsPhase
  <2>7. host = "connect" => Quiet
    BY DEF Before
  <2> QED
    BY <2>1, <2>2, <2>4, <2>6, <2>7, StartStepsPhase
<1>2. ASSUME Executed PROVE QuietInv' /\ (Live' => Live \/ Quiet)
  BY <1>2 DEF Executed, GoesTo, Before
<1>3. ASSUME host = "exec", host' = "exited", UNCHANGED <<remote, out, wire, frame>>
      PROVE  QuietInv' /\ (Live' => Live \/ Quiet)
  BY <1>3 DEF Before, Quiet
<1>4. ASSUME LoopStep PROVE QuietInv' /\ (Live' => Live \/ Quiet)
  <2>1. Live' => Live
    BY <1>4, LoopStepPhase
  <2>2. CASE remote # "none"
    BY <1>4, <2>1, <2>2, LoopStepPhase
  <2>3. CASE remote = "none"
    <3>1. host \in Before \cup {"exited"} /\ Quiet
      BY <2>3
    <3>2. host' \in Before \cup {"exited"}
      BY <1>4, <3>1, LoopStepPhase
    <3>3. Quiet'
      BY <1>4, <2>3, <3>1, QuietKept
    <3> QED
      BY <1>4, <2>1, <2>3, <3>2, <3>3, LoopStepPhase
  <2> QED
    BY <2>2, <2>3
<1>5. ASSUME NEW s \in Side, WritePiece(s) \/ ReadPiece(s) \/ ReadEnd(s)
      PROVE  QuietInv' /\ (Live' => Live \/ Quiet)
  <2>1. UNCHANGED <<host, remote, session>>
    BY <1>5 DEF WritePiece, ReadPiece, ReadEnd, startVars
  <2>2. remote = "none" => ~WritePiece(s) /\ ~ReadPiece(s)
    BY DEF WritePiece, ReadPiece, Quiet
  <2>3. ReadEnd(s) => UNCHANGED <<out, wire, frame>>
    BY DEF ReadEnd
  <2>4. remote = "none" => Quiet'
    BY <1>5, <2>2, <2>3 DEF Quiet
  <2> QED
    BY <2>1, <2>4
<1> QED
  BY <1>1, <1>2, <1>3, <1>4, <1>5, ExecutesRemoteCases, NextClasses

(* A side starts a frame when it had nothing left to write, and writes it;  *)
(* the other side goes on with what it was doing.                           *)
StartsFrame(p) ==
  /\ \E m \in Message : out' = [out EXCEPT ![p] = Frame(m)]
  /\ UNCHANGED <<wire, frame>>
  /\ Live => ~Writing(p)
  /\ Live' => Writing(p)'
  /\ Writing(Peer(p)) => Writing(Peer(p))'

(* Or nothing of the streams changes, and a side that is not done goes on.  *)
KeepsFrames ==
  /\ UNCHANGED <<out, wire, frame>>
  /\ Live /\ Live' => \A s \in Side : Writing(s) /\ out[s] # <<>> => Writing(s)'

(* The host's loop starts frames when it is between writes.                 *)
LEMMA HostStreams ==
  ASSUME HostReceives \/ HostTakes \/ HostWrites \/ HostWritesTun \/ TunFails
           \/ Interrupted \/ HostWritten
  PROVE  KeepsFrames \/ StartsFrame("host")
<1> USE DEF Writing, Branch, Breaks, Handles, Peer, ioVars
<1>1. Side = {"host", "remote"} /\ Message = {"Ready", "Shutdown", "data"}
  BY DEF Side, Message
<1>2. CASE HostReceives
  BY <1>1, <1>2 DEF HostReceives, KeepsFrames
<1>3. CASE HostTakes
  BY <1>1, <1>3 DEF HostTakes, KeepsFrames, StartsFrame
<1>4. CASE HostWrites
  BY <1>1, <1>4 DEF HostWrites, StartsFrame
<1>5. CASE HostWritesTun
  BY <1>1, <1>5 DEF HostWritesTun, KeepsFrames, StartsFrame, startVars
<1>6. CASE TunFails \/ Interrupted
  BY <1>1, <1>6 DEF TunFails, Interrupted, StartsFrame
<1>7. CASE HostWritten
  <2> USE DEF WriteFailed, Live, Running
  <2>1. CASE host = "writing" /\ out["host"] = <<>> /\ UNCHANGED <<remote, ioVars>>
    BY <1>1, <2>1 DEF KeepsFrames
  <2>2. CASE /\ host = "writing" /\ WriteFailed("host") /\ Breaks
             /\ UNCHANGED <<remote, wire, frame>>
    <3>1. ~Live
      BY <2>2
    <3> QED
      BY <1>1, <2>2, <3>1 DEF StartsFrame
  <2>3. CASE /\ host = "shutting" /\ (out["host"] = <<>> \/ WriteFailed("host"))
             /\ UNCHANGED <<remote, out, wire, frame>>
    BY <1>1, <2>3 DEF KeepsFrames
  <2> QED
    BY <1>7, <2>1, <2>2, <2>3 DEF HostWritten
<1> QED
  BY <1>2, <1>3, <1>4, <1>5, <1>6, <1>7

(* So does the remote's.                                                    *)
LEMMA RemoteStreams ==
  ASSUME RemoteTakes \/ RemoteResumes \/ Responds \/ RemoteWrites \/ RemoteWritten
           \/ RemoteDies
  PROVE  KeepsFrames \/ StartsFrame("remote")
<1> USE DEF Writing, Peer, startVars, ioVars
<1>1. Side = {"host", "remote"} /\ Message = {"Ready", "Shutdown", "data"}
  BY DEF Side, Message
<1>2. CASE RemoteTakes \/ RemoteResumes \/ Responds
  BY <1>1, <1>2 DEF RemoteTakes, RemoteResumes, Responds, KeepsFrames
<1>3. CASE RemoteWrites
  BY <1>1, <1>3 DEF RemoteWrites, StartsFrame
<1>4. CASE RemoteWritten \/ RemoteDies
  BY <1>1, <1>4 DEF RemoteWritten, RemoteDies, KeepsFrames, Live, Running
<1> QED
  BY <1>2, <1>3, <1>4

(* What each step does to the streams.                                      *)
LEMMA StreamEffects ==
  ASSUME QuietInv, SessionNext
  PROVE  \/ KeepsFrames
         \/ \E p \in Side : StartsFrame(p) \/ WritePiece(p) \/ ReadPiece(p)
<1>0. "host" \in Side /\ "remote" \in Side /\ Side = {"host", "remote"}
  BY DEF Side
<1>1. StartUp \/ KilledUnheard => KeepsFrames
  <2>1. ASSUME StartUp \/ KilledUnheard PROVE KeepsFrames
    <3>1. /\ host \in Starting \/ host' = "exited"
          /\ UNCHANGED <<remote, out, wire, frame>>
      BY <2>1, StartStepsPhase DEF StartUp, KilledUnheard, ioVars
    <3> QED
      BY <1>0, <3>1 DEF KeepsFrames, Writing, Starting, Live, Running
  <2> QED
    BY <2>1
<1>2. Executed => StartsFrame("remote")
  BY DEF Executed, StartsFrame, Writing, QuietInv, Before, GoesTo, Peer, Message
<1>3. host = "exec" /\ host' = "exited" /\ UNCHANGED <<remote, out, wire, frame>>
        => KeepsFrames
  BY DEF KeepsFrames, Live, Running
<1>4. AwaitsReady \/ RevertsAndReturns \/ Listens \/ Press \/ SessionFails
        => KeepsFrames
  BY <1>0 DEF AwaitsReady, RevertsAndReturns, Listens, Press, SessionFails, KeepsFrames,
              Writing, GoesTo, LeavesLoop, ioVars, startVars
<1>5. \A s \in Side : ReadEnd(s) => KeepsFrames
  BY <1>0 DEF ReadEnd, KeepsFrames, Writing, startVars
<1> QED
  BY <1>0, <1>1, <1>2, <1>3, <1>4, <1>5, HostStreams, RemoteStreams,
     ExecutesRemoteCases DEF SessionNext, HostSteps, ReaderSteps

-----------------------------------------------------------------------------
(* AlignInv is kept.                                                        *)

(* Parts of AlignInv after a step that starts nothing.                      *)
LEMMA KeepsAligned ==
  ASSUME Streams, AlignInv, SessionNext, KeepsFrames
  PROVE  AlignInv'
<1>1. QuietInv' /\ (Live' => Live \/ Quiet)
  BY NextQuiet DEF AlignInv, Streams
<1>2. \A s \in Side : WireFits(s)'
  BY DEF AlignInv, WireFits, KeepsFrames
<1>3. ASSUME Live', NEW s \in Side
      PROVE  OutFits(s)' /\ (~Writing(s)' => out'[s] = <<>>)
  <2>1. OutFits(s)' <=> OutFits(s)
    BY DEF OutFits, Sent, KeepsFrames
  <2>2. CASE Quiet
    <3>1. out[s] = <<>> /\ Sent(s) = 0
      BY <2>2, PeerFacts DEF Quiet, Sent
    <3>2. OutFits(s)
      BY <3>1 DEF OutFits
    <3> QED
      BY <2>1, <3>1, <3>2 DEF KeepsFrames
  <2>3. CASE Live
    BY <1>3, <2>1, <2>3 DEF AlignInv, KeepsFrames
  <2> QED
    BY <1>1, <1>3, <2>2, <2>3
<1> QED
  BY <1>1, <1>2, <1>3 DEF AlignInv

(* After a frame is started.                                                *)
LEMMA StartsAligned ==
  ASSUME Streams, AlignInv, SessionNext, NEW p \in Side, StartsFrame(p)
  PROVE  AlignInv'
<1>1. QuietInv' /\ (Live' => Live \/ Quiet)
  BY NextQuiet DEF AlignInv, Streams
<1>2. \A s \in Side : WireFits(s)'
  BY DEF AlignInv, WireFits, StartsFrame
<1>3. PICK m \in Message : out' = [out EXCEPT ![p] = Frame(m)]
  BY DEF StartsFrame
<1>4. ASSUME Live' PROVE OutFits(p)' /\ Writing(p)'
  <2>1. Sent(p)' = Sent(p) /\ Sent(p) \in Nat
    BY SentNat DEF StartsFrame, Sent
  <2>2. Sent(p) % 3 = 0
    <3>1. CASE Quiet
      BY <3>1, PeerFacts DEF Quiet, Sent
    <3>2. CASE Live
      <4>1. out[p] = <<>> /\ OutFits(p)
        BY <3>2 DEF AlignInv, StartsFrame
      <4>2. Len(out[p]) = 0
        BY <4>1
      <4> QED
        BY <2>1, <4>1, <4>2 DEF OutFits
    <3> QED
      BY <1>1, <1>4, <3>1, <3>2
  <2>3. out'[p] = Frame(m)
    BY <1>3 DEF Streams, OutOK
  <2> QED
    BY <1>4, <2>1, <2>2, <2>3, FrameFits DEF OutFits, StartsFrame
<1>5. ASSUME Live'
      PROVE  OutFits(Peer(p))' /\ (~Writing(Peer(p))' => out'[Peer(p)] = <<>>)
  <2>0. Peer(p) \in Side /\ Peer(p) # p /\ Peer(Peer(p)) = p
    BY PeerFacts
  <2>1. Sent(Peer(p))' = Sent(Peer(p)) /\ out'[Peer(p)] = out[Peer(p)]
    BY <1>3, <2>0 DEF StartsFrame, Sent, Streams, OutOK
  <2>2. CASE Quiet
    <3>1. out[Peer(p)] = <<>> /\ Sent(Peer(p)) = 0
      BY <2>0, <2>2 DEF Quiet, Sent
    <3> QED
      BY <2>1, <3>1 DEF OutFits
  <2>3. CASE Live
    <3>1. OutFits(Peer(p)) /\ (~Writing(Peer(p)) => out[Peer(p)] = <<>>)
      BY <2>0, <2>3 DEF AlignInv
    <3>2. OutFits(Peer(p))'
      BY <2>1, <3>1 DEF OutFits
    <3> QED
      BY <2>1, <3>1, <3>2 DEF StartsFrame
  <2> QED
    BY <1>1, <1>5, <2>2, <2>3
<1>6. Side = {p, Peer(p)}
  BY PeerFacts
<1> QED
  BY <1>1, <1>2, <1>4, <1>5, <1>6 DEF AlignInv

(* Only the place in the frame counts.                                      *)
LEMMA FitsSame ==
  ASSUME NEW j, NEW k, j % 3 = k % 3, NEW x, Fits(j, x)
  PROVE  Fits(k, x)
  BY DEF Fits

(* Where a side's next piece goes, before and after a step.                 *)
LEMMA SentOf ==
  ASSUME NEW q \in Side, NEW p \in Side, Peer(q) = p
  PROVE  /\ Sent(q) = frame[p] + Len(wire[p])
         /\ Sent(q)' = frame'[p] + Len(wire'[p])
  BY DEF Sent

(* After a piece is written.                                                *)
LEMMA WriteAligned ==
  ASSUME Streams, AlignInv, SessionNext, NEW s \in Side, WritePiece(s)
  PROVE  AlignInv'
<1>0. PICK p \in Side : p = Peer(s) /\ p # s /\ Peer(p) = s /\ Side = {s, p}
  BY PeerFacts
<1>1. QuietInv'
  BY NextQuiet DEF AlignInv, Streams
<1>2. UNCHANGED <<host, remote, session, frame>>
  BY DEF WritePiece, startVars
<1>3. Live
  <2>1. Running(s)
    BY DEF WritePiece, Writing, Running, Side
  <2> QED
    BY <1>0, <2>1, PeerFacts DEF WritePiece, Live, Side
<1>4. OutFits(s) /\ OutFits(p) /\ WireFits(s) /\ WireFits(p)
  BY <1>0, <1>3 DEF AlignInv
<1>5. /\ out[s] \in Seq(Piece) /\ out[s] # <<>> /\ wire[p] \in Seq(Piece)
      /\ frame[p] \in Nat
  BY <1>0 DEF Streams, OutOK, WireOK, WritePiece
<1>6. /\ out'[s] = Tail(out[s]) /\ out'[p] = out[p]
      /\ wire'[p] = Append(wire[p], Head(out[s])) /\ wire'[s] = wire[s]
  BY <1>0 DEF WritePiece, Streams, OutOK, WireOK
<1>7. /\ Head(out[s]) = out[s][1] /\ 1 \in DOMAIN out[s]
      /\ Len(Tail(out[s])) = Len(out[s]) - 1 /\ Len(out[s]) \in Nat
      /\ \A n \in DOMAIN Tail(out[s]) : /\ n \in Nat /\ n + 1 \in DOMAIN out[s]
                                        /\ Tail(out[s])[n] = out[s][n + 1]
  BY <1>5, TailType
<1>8. Sent(s) \in Nat /\ Sent(s)' = Sent(s) + 1 /\ Sent(p)' = Sent(p)
  <2>1. Len(wire[p]) \in Nat /\ Len(wire'[p]) = Len(wire[p]) + 1
    BY <1>5, <1>6
  <2>2. /\ Sent(s) = frame[p] + Len(wire[p]) /\ Sent(s)' = frame'[p] + Len(wire'[p])
        /\ Sent(p) = frame[s] + Len(wire[s]) /\ Sent(p)' = frame'[s] + Len(wire'[s])
    BY <1>0, SentOf
  <2>3. Sent(s) \in Nat /\ Sent(s)' = Sent(s) + 1
    BY <1>2, <1>5, <2>1, <2>2, SMTT(30)
  <2>4. Sent(p)' = Sent(p)
    BY <1>2, <1>6, <2>2
  <2> QED
    BY <2>3, <2>4
<1>9. WireFits(s)'
  BY <1>2, <1>4, <1>6 DEF WireFits
<1>10. WireFits(p)'
  <2>1. ASSUME NEW n \in DOMAIN wire'[p] PROVE Fits(frame'[p] + n, wire'[p][n])
    <3>1. n \in 1..(Len(wire[p]) + 1) /\ Len(wire[p]) \in Nat
      BY <1>5, <1>6, <2>1
    <3>2. CASE n \in DOMAIN wire[p]
      <4>1. wire'[p][n] = wire[p][n]
        BY <1>5, <1>6, <3>2
      <4> QED
        BY <1>2, <1>4, <3>2, <4>1 DEF WireFits
    <3>3. CASE n = Len(wire[p]) + 1
      <4>1. wire'[p][n] = out[s][1]
        BY <1>5, <1>6, <1>7, <3>3
      <4>2. Fits(Sent(s) + 1, out[s][1])
        BY <1>4, <1>7 DEF OutFits
      <4>3. Sent(s) = frame[p] + Len(wire[p])
        BY <1>0, SentOf
      <4>4. Sent(s) + 1 = frame'[p] + n
        BY <1>2, <1>5, <3>1, <3>3, <4>3, SMTT(30)
      <4> QED
        BY <4>1, <4>2, <4>4
    <3> QED
      BY <1>5, <3>1, <3>2, <3>3
  <2> QED
    BY <2>1 DEF WireFits
<1>11. OutFits(s)'
  <2>1. ASSUME NEW n \in DOMAIN out'[s] PROVE Fits(Sent(s)' + n, out'[s][n])
    <3>1. n \in Nat /\ n + 1 \in DOMAIN out[s] /\ out'[s][n] = out[s][n + 1]
      BY <1>6, <1>7, <2>1
    <3>2. Fits(Sent(s) + (n + 1), out[s][n + 1])
      BY <1>4, <3>1 DEF OutFits
    <3>3. Sent(s) + (n + 1) = Sent(s)' + n
      BY <1>8, <3>1
    <3> QED
      BY <3>1, <3>2, <3>3
  <2>2. Sent(s)' + Len(out'[s]) = Sent(s) + Len(out[s])
    BY <1>6, <1>7, <1>8
  <2> QED
    BY <1>4, <2>1, <2>2 DEF OutFits
<1>12. OutFits(p)'
  BY <1>4, <1>6, <1>8 DEF OutFits
<1>13. Writing(s)' /\ (~Writing(p)' => out'[p] = <<>>)
  <2>1. ~Writing(p) => out[p] = <<>>
    BY <1>0, <1>3 DEF AlignInv
  <2>2. Writing(p)' <=> Writing(p)
    BY <1>2 DEF Writing
  <2>3. Writing(s)'
    BY <1>2 DEF Writing, WritePiece
  <2> QED
    BY <1>6, <2>1, <2>2, <2>3
<1> QED
  BY <1>0, <1>1, <1>9, <1>10, <1>11, <1>12, <1>13 DEF AlignInv

(* After a piece is read.                                                   *)
LEMMA ReadAligned ==
  ASSUME Streams, AlignInv, SessionNext, NEW s \in Side, ReadPiece(s)
  PROVE  AlignInv'
<1>0. PICK p \in Side : p = Peer(s) /\ p # s /\ Peer(p) = s /\ Side = {s, p}
  BY PeerFacts
<1>1. QuietInv'
  BY NextQuiet DEF AlignInv, Streams
<1>2. UNCHANGED <<host, remote, session, out>>
  BY DEF ReadPiece, startVars
<1>3. WireFits(s) /\ WireFits(p)
  BY <1>0 DEF AlignInv
<1>4. wire[s] \in Seq(Piece) /\ wire[s] # <<>> /\ frame[s] \in 0..2
  BY DEF Streams, WireOK, ReadPiece
<1>5. /\ wire'[s] = Tail(wire[s]) /\ wire'[p] = wire[p]
      /\ frame'[s] = (frame[s] + 1) % 3 /\ frame'[p] = frame[p]
  BY <1>0 DEF ReadPiece, NextPiece, Streams, WireOK
<1>6. /\ Len(Tail(wire[s])) = Len(wire[s]) - 1 /\ Len(wire[s]) \in Nat
      /\ 1 \in DOMAIN wire[s]
      /\ \A n \in DOMAIN Tail(wire[s]) : /\ n \in Nat /\ n + 1 \in DOMAIN wire[s]
                                         /\ Tail(wire[s])[n] = wire[s][n + 1]
  BY <1>4, TailType
<1>7. WireFits(s)'
  <2>1. ASSUME NEW n \in DOMAIN wire'[s] PROVE Fits(frame'[s] + n, wire'[s][n])
    <3>1. n \in Nat /\ n + 1 \in DOMAIN wire[s] /\ wire'[s][n] = wire[s][n + 1]
      BY <1>5, <1>6, <2>1
    <3>2. Fits(frame[s] + (n + 1), wire[s][n + 1])
      BY <1>3, <3>1 DEF WireFits
    <3>3. (frame[s] + (n + 1)) % 3 = (frame'[s] + n) % 3
      BY <1>4, <1>5, <3>1, Mod3
    <3> QED
      BY <3>1, <3>2, <3>3, FitsSame
  <2> QED
    BY <2>1 DEF WireFits
<1>8. WireFits(p)'
  BY <1>3, <1>5 DEF WireFits
<1>9. Sent(s)' = Sent(s)
  <2>1. Sent(s) = frame[p] + Len(wire[p]) /\ Sent(s)' = frame'[p] + Len(wire'[p])
    BY <1>0, SentOf
  <2> QED
    BY <1>5, <2>1
<1>10. \A n \in Nat : (Sent(p) + n) % 3 = (Sent(p)' + n) % 3
  <2>1. ASSUME NEW n \in Nat PROVE (Sent(p) + n) % 3 = (Sent(p)' + n) % 3
    <3> DEFINE l == (Len(wire[s]) - 1) + n
    <3>1. l \in Nat
      <4>1. Len(wire[s]) >= 1
        BY <1>4, <1>6
      <4> QED
        BY <1>6, <2>1, <4>1
    <3>2. Sent(p) = frame[s] + Len(wire[s]) /\ Sent(p)' = frame'[s] + Len(wire'[s])
      BY <1>0, SentOf
    <3>3. Sent(p) + n = frame[s] + (l + 1)
      BY <1>4, <1>6, <2>1, <3>2
    <3>4. Sent(p)' + n = ((frame[s] + 1) % 3) + l
      BY <1>4, <1>5, <1>6, <2>1, <3>2
    <3> HIDE DEF l
    <3> QED
      BY <1>4, <3>1, <3>3, <3>4, Mod3
  <2> QED
    BY <2>1
<1>11. Live' => Live /\ (\A q \in Side : Writing(q)' <=> Writing(q))
  BY <1>2 DEF Live, Up, Running, Writing
<1>12. OutFits(s) => OutFits(s)'
  BY <1>2, <1>9 DEF OutFits
<1>13. ASSUME OutFits(p) PROVE OutFits(p)'
  <2>0. out[p] \in Seq(Piece) /\ Len(out[p]) \in Nat
    BY <1>0 DEF Streams, OutOK
  <2>1. ASSUME NEW n \in DOMAIN out'[p] PROVE Fits(Sent(p)' + n, out'[p][n])
    <3>1. n \in Nat /\ n \in DOMAIN out[p] /\ out'[p][n] = out[p][n]
      BY <1>2, <2>0, <2>1
    <3>2. Fits(Sent(p) + n, out[p][n])
      BY <1>13, <3>1 DEF OutFits
    <3>3. (Sent(p) + n) % 3 = (Sent(p)' + n) % 3
      BY <1>10, <3>1
    <3> QED
      BY <3>1, <3>2, <3>3, FitsSame
  <2>2. (Sent(p)' + Len(out'[p])) % 3 = 0
    BY <1>2, <1>10, <1>13, <2>0 DEF OutFits
  <2> QED
    BY <2>1, <2>2 DEF OutFits
<1>14. Live' => \A q \in Side : OutFits(q)' /\ (~Writing(q)' => out'[q] = <<>>)
  BY <1>0, <1>2, <1>11, <1>12, <1>13 DEF AlignInv
<1> QED
  BY <1>0, <1>1, <1>7, <1>8, <1>14 DEF AlignInv

(* What a reader delivers is a message: only aligned readers do.            *)
LEMMA NextQueueOK ==
  ASSUME Streams, AlignInv, QueueOK, SessionNext
  PROVE  QueueOK'
<1>1. ASSUME NEW s \in Side, ReadPiece(s) PROVE QueueOK'
  <2>1. CASE frame[s] = 2
    <3>1. wire[s] \in Seq(Piece) /\ wire[s] # <<>>
      BY <1>1 DEF ReadPiece, Streams, WireOK
    <3>2. Head(wire[s]) = wire[s][1] /\ 1 \in DOMAIN wire[s]
      BY <3>1, TailType
    <3>3. Fits(2 + 1, wire[s][1])
      BY <2>1, <3>2 DEF AlignInv, WireFits
    <3>4. Head(wire[s]) \in Item
      BY <3>2, <3>3 DEF Fits, Item
    <3>5. HasRoom(s) /\ queue' = [queue EXCEPT ![s] = Append(@, Head(wire[s]))]
      BY <1>1, <2>1 DEF ReadPiece
    <3> QED
      BY <3>4, <3>5, QueueMore
  <2>2. CASE frame[s] # 2
    <3>1. queue' = queue
      BY <1>1, <2>2 DEF ReadPiece, QueueOK
    <3> QED
      BY <3>1 DEF QueueOK
  <2> QED
    BY <2>1, <2>2
<1>2. ASSUME NEW s \in Side, ReadEnd(s) PROVE QueueOK'
  <2>1. PICK e \in {"eof", "err"} : queue' = [queue EXCEPT ![s] = Append(@, e)]
    BY <1>2 DEF ReadEnd
  <2>2. e \in Item /\ HasRoom(s)
    BY <1>2 DEF Item, ReadEnd
  <2> QED
    BY <2>1, <2>2, QueueMore
<1>3. ASSUME NEW s \in Side, TakesItem(s) \/ Drops(s) PROVE QueueOK'
  BY <1>3, QueueLess DEF TakesItem, Drops
<1>4. UNCHANGED queue => QueueOK'
  BY DEF QueueOK
<1> QED
  BY <1>1, <1>2, <1>3, <1>4, QueueEffects

(* A reader's place stays within its frame.                                 *)
LEMMA NextStreams ==
  ASSUME Streams, AlignInv, SessionNext
  PROVE  Streams'
<1>1. KeepsFrames => Streams'
  BY DEF KeepsFrames, Streams, OutOK, WireOK
<1>2. ASSUME NEW p \in Side, StartsFrame(p) PROVE Streams'
  <2>1. OutOK'
    BY <1>2, OutSet DEF StartsFrame, Streams
  <2>2. UNCHANGED <<wire, frame>>
    BY <1>2 DEF StartsFrame
  <2> QED
    BY <2>1, <2>2 DEF Streams, WireOK
<1>3. ASSUME NEW p \in Side, WritePiece(p) PROVE Streams'
  <2>1. OutOK' /\ WireOK'
    BY <1>3, WriteType DEF Streams
  <2>2. UNCHANGED frame
    BY <1>3 DEF WritePiece
  <2> QED
    BY <2>1, <2>2 DEF Streams
<1>4. ASSUME NEW p \in Side, ReadPiece(p) PROVE Streams'
  <2>1. WireOK'
    BY <1>4, ReadWireType DEF Streams
  <2>2. UNCHANGED out /\ frame' = [frame EXCEPT ![p] = NextPiece(p)]
    BY <1>4 DEF ReadPiece
  <2>3. NextPiece(p) \in 0..2
    BY DEF NextPiece, Streams
  <2> QED
    BY <2>1, <2>2, <2>3 DEF Streams, OutOK
<1> QED
  BY <1>1, <1>2, <1>3, <1>4, StreamEffects DEF AlignInv

(* The inductive invariant: the types, the phases, the alignment.           *)
SessionInv ==
  /\ StartInv
  /\ Streams /\ QueueOK /\ ChanOK /\ RemoteOK /\ ReadingOK
  /\ AlignInv

(* It holds at the start, when there is nothing.                            *)
LEMMA InitSessionInv ==
  ASSUME SessionInit
  PROVE  SessionInv
<1>1. /\ host = "parse" /\ remote = "none" /\ to_tun = 0
      /\ out = [s \in Side |-> <<>>] /\ wire = [s \in Side |-> <<>>]
      /\ frame = [s \in Side |-> 0] /\ queue = [s \in Side |-> <<>>]
      /\ chan = [s \in Side |-> 0]
  BY DEF SessionInit, StartInit
<1>2. reading = [s \in Side |-> TRUE] /\ ctrl_c = "uninstalled"
  BY Zenon DEF SessionInit
<1>3. <<>> \in Seq(Piece) /\ <<>> \in Seq(Item) /\ Len(<<>>) = 0
  OBVIOUS
<1>4. Streams /\ QueueOK /\ ChanOK
  BY <1>1, <1>3, SessionAssumption DEF Streams, OutOK, WireOK, QueueOK, ChanOK
<1>5. RemoteOK
  BY <1>1 DEF RemoteOK
<1>6. ReadingOK
  BY <1>2, Zenon DEF ReadingOK
<1>7. Quiet /\ QuietInv
  BY <1>1 DEF Quiet, QuietInv, Before
<1>8. \A s \in Side : WireFits(s)
  BY <1>1 DEF WireFits
<1>9. \A s \in Side : out[s] = <<>> /\ Sent(s) = 0
  BY <1>7, PeerFacts DEF Quiet, Sent
<1>10. \A s \in Side : OutFits(s)
  BY <1>9 DEF OutFits
<1> QED
  BY <1>4, <1>5, <1>6, <1>7, <1>8, <1>9, <1>10, InitStartInv DEF SessionInv, AlignInv

(* Every step keeps it.                                                     *)
LEMMA NextSessionInv ==
  ASSUME SessionInv, [SessionNext]_sessionVars
  PROVE  SessionInv'
<1> USE DEF SessionInv
<1>1. StartInv'
  BY NextStartInv
<1>2. CASE SessionNext
  <2>1. Streams' /\ QueueOK' /\ ChanOK' /\ RemoteOK' /\ ReadingOK'
    BY <1>2, NextStreams, NextQueueOK, NextChanOK, NextRemoteOK, NextReadingOK
  <2>2. AlignInv'
    BY <1>2, StreamEffects, KeepsAligned, StartsAligned, WriteAligned, ReadAligned
    DEF AlignInv
  <2> QED
    BY <1>1, <2>1, <2>2
<1>3. CASE UNCHANGED sessionVars
  <2>1. UNCHANGED <<host, session, remote, out, wire, frame, queue, chan, to_tun>>
    BY <1>3 DEF sessionVars, startVars, ioVars
  <2>2. UNCHANGED <<reading, ctrl_c>>
    BY <1>3, Zenon DEF sessionVars, ioVars
  <2>3. Streams' /\ QueueOK' /\ ChanOK' /\ RemoteOK'
    BY <2>1 DEF Streams, OutOK, WireOK, QueueOK, ChanOK, RemoteOK
  <2>4. ReadingOK'
    BY <2>2, Zenon DEF ReadingOK
  <2>5. AlignInv'
    BY <2>1 DEF AlignInv, QuietInv, Quiet, WireFits, OutFits, Sent, Live, Up, Running,
                Writing
  <2> QED
    BY <1>1, <2>3, <2>4, <2>5
<1> QED
  BY <1>2, <1>3

(* The invariant gives the types.                                           *)
LEMMA InvTypes ==
  ASSUME SessionInv
  PROVE  SessionTypeOK
  BY DEF SessionInv, StartInv, Streams, OutOK, WireOK, QueueOK, ChanOK, RemoteOK,
         ReadingOK, SessionTypeOK, Item

(* Where the places of two streams, one after the other, come from.         *)
LEMMA Concat ==
  ASSUME NEW M, NEW a \in Seq(M), NEW b \in Seq(M), NEW n \in DOMAIN (a \o b)
  PROVE  /\ n \in Nat /\ Len(a) \in Nat
         /\ n <= Len(a) => n \in DOMAIN a /\ (a \o b)[n] = a[n]
         /\ n > Len(a) => n - Len(a) \in DOMAIN b /\ (a \o b)[n] = b[n - Len(a)]
<1>1. Len(a \o b) = Len(a) + Len(b) /\ DOMAIN (a \o b) = 1..Len(a \o b)
  OBVIOUS
<1>2. n \in 1..(Len(a) + Len(b)) /\ Len(a) \in Nat /\ Len(b) \in Nat
  BY <1>1
<1>3. n <= Len(a) => n \in DOMAIN a /\ (a \o b)[n] = a[n]
  BY <1>2
<1>4. n > Len(a) => n - Len(a) \in DOMAIN b /\ (a \o b)[n] = b[n - Len(a)]
  BY <1>2
<1> QED
  BY <1>2, <1>3, <1>4

(* Fits, as FramesAligned says it.                                          *)
LEMMA FitsCase ==
  ASSUME NEW k \in Nat, NEW x, Fits(k, x)
  PROVE  CASE k % 3 = 1 -> x = "len1"
           [] k % 3 = 2 -> x = "len2"
           [] OTHER -> x \in Message
<1>1. k % 3 \in 0..2
  OBVIOUS
<1> QED
  BY <1>1 DEF Fits

(* And the alignment of both readers.                                       *)
LEMMA InvAligned ==
  ASSUME SessionInv
  PROVE  FramesAligned
<1>1. ASSUME NEW s \in Side, Running(s), Running(Peer(s)), Up,
             NEW n \in DOMAIN (wire[s] \o out[Peer(s)])
      PROVE  frame[s] + n \in Nat /\ Fits(frame[s] + n, (wire[s] \o out[Peer(s)])[n])
  <2>0. PICK p \in Side : p = Peer(s) /\ Peer(p) = s /\ Side = {s, p}
    BY PeerFacts
  <2>1. wire[s] \in Seq(Piece) /\ out[p] \in Seq(Piece) /\ frame[s] \in 0..2
    BY DEF SessionInv, Streams, OutOK, WireOK
  <2>2. Live
    BY <1>1, PeerFacts DEF Live, Peer
  <2>3. WireFits(s) /\ OutFits(p)
    BY <2>2 DEF SessionInv, AlignInv
  <2>4. /\ n \in Nat /\ Len(wire[s]) \in Nat
        /\ n <= Len(wire[s]) => /\ n \in DOMAIN wire[s]
                               /\ (wire[s] \o out[p])[n] = wire[s][n]
        /\ n > Len(wire[s]) => /\ n - Len(wire[s]) \in DOMAIN out[p]
                              /\ (wire[s] \o out[p])[n] = out[p][n - Len(wire[s])]
    <3> DEFINE a == wire[s]
               b == out[p]
    <3>1. a \in Seq(Piece) /\ b \in Seq(Piece) /\ n \in DOMAIN (a \o b)
      BY <1>1, <2>0, <2>1
    <3> HIDE DEF a, b
    <3>2. /\ n \in Nat /\ Len(a) \in Nat
          /\ n <= Len(a) => n \in DOMAIN a /\ (a \o b)[n] = a[n]
          /\ n > Len(a) => n - Len(a) \in DOMAIN b /\ (a \o b)[n] = b[n - Len(a)]
      BY <3>1, Concat, Zenon
    <3> QED
      BY <3>2 DEF a, b
  <2>5. CASE n <= Len(wire[s])
    BY <2>0, <2>1, <2>3, <2>4, <2>5 DEF WireFits
  <2>6. CASE n > Len(wire[s])
    <3>1. Sent(p) = frame[s] + Len(wire[s])
      BY <2>0, SentOf
    <3>2. Sent(p) + (n - Len(wire[s])) = frame[s] + n
      BY <2>1, <2>4, <3>1
    <3>3. Fits(Sent(p) + (n - Len(wire[s])), out[p][n - Len(wire[s])])
      BY <2>3, <2>4, <2>6 DEF OutFits
    <3> QED
      BY <2>0, <2>1, <2>4, <2>6, <3>2, <3>3
  <2> QED
    BY <2>4, <2>5, <2>6
<1> QED
  BY <1>1, FitsCase DEF FramesAligned

(* SessionTypeOK: streams, queues and channels stay within their capacity,  *)
(* and what a reader delivers is a message (src/protocol.rs:85-138, the     *)
(* queues and loops of host/mod.rs and remote/mod.rs).                      *)
THEOREM SessionTypeCorrect == SessionSpec => []SessionTypeOK
<1> QED
  BY InitSessionInv, NextSessionInv, InvTypes, PTL DEF SessionSpec

(* FramesAligned: however writes are split, whatever waits and wherever a   *)
(* stream ends, no reader takes a body for a length or a length for a body  *)
(* (src/protocol.rs:107-138, host/mod.rs:140-152, remote/mod.rs:57-72).     *)
THEOREM SessionFramesAligned == SessionSpec => []FramesAligned
<1> QED
  BY InitSessionInv, NextSessionInv, InvAligned, PTL DEF SessionSpec
=============================================================================
