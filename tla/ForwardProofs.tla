---------------------------- MODULE ForwardProofs ----------------------------
(***************************************************************************)
(* The way up, from an application to its destination: AcksWhatItForwards,  *)
(* ForwardedInOrder and DestReadsRun of Tunnel, for any number of           *)
(* connections, bytes and retransmissions, with one SYN per connection      *)
(* attempt.  The last two also need a TUN queue that drops nothing: a       *)
(* segment dropped before a FIN breaks them (Tunnel_fin).                   *)
(*                                                                         *)
(* The argument follows a byte: in the TUN queue every byte the host waits  *)
(* for comes in its order (QueueInv); the host forwards the byte it waits   *)
(* for and acknowledges it in one step (AcksInv); and what is in its        *)
(* channel, in the remote's loop, in the connection's channel, in the       *)
(* task's hand and at the destination is one run of the stream (DestInv).   *)
(***************************************************************************)
EXTENDS ProtocolProofs, FiniteSetTheorems

-----------------------------------------------------------------------------
(* What FlattenSeq returns.                                                 *)

(* Induction, over a set: the library's theorem takes a predicate, which    *)
(* the provers cannot instantiate.  A set closed under successor that       *)
(* misses n would map its part of 0..n injectively into a smaller set.      *)
LEMMA SetInduction ==
  ASSUME NEW T, 0 \in T, \A n \in Nat : n \in T => n + 1 \in T
  PROVE  Nat \subseteq T
<1>1. SUFFICES ASSUME NEW n \in Nat, n \notin T PROVE FALSE
  OBVIOUS
<1> DEFINE D == {i \in 0..n : i \in T}
           E == D \ {0}
           f == [i \in D |-> i + 1]
<1>2. IsFiniteSet(0..n)
  BY FS_Interval
<1>3. IsFiniteSet(D) /\ 0 \in D
  BY <1>2, FS_Subset
<1>4. IsFiniteSet(E) /\ Cardinality(E) = Cardinality(D) - 1
  BY <1>3, FS_RemoveElement
<1>5. Cardinality(D) \in Nat /\ Cardinality(E) \in Nat
  BY <1>3, <1>4, FS_CardinalityType
<1>6. \A i \in D : i + 1 \in E
  BY <1>1
<1>7. f \in [D -> E]
  BY <1>6
<1>8. Cardinality(E) < Cardinality(D)
  BY <1>4, <1>5
<1>9. PICK i \in D, j \in D : i # j /\ f[i] = f[j]
  <2> HIDE DEF D, E, f
  <2> QED
    BY <1>3, <1>4, <1>7, <1>8, FS_PigeonHole
<1>10. i + 1 = j + 1 /\ i \in Nat /\ j \in Nat
  BY <1>9
<1> QED
  BY <1>9, <1>10

(* The function FlattenSeq builds.                                          *)
Flattens(f, q, n) ==
  f = [i \in 1..n |-> IF i = 1 THEN q[i] ELSE f[i - 1] \o q[i]]

(* It exists.                                                               *)
LEMMA FlattensExists ==
  ASSUME NEW q, NEW n \in Nat
  PROVE  \E f : Flattens(f, q, n)
<1> DEFINE T == {m \in Nat : \E f : Flattens(f, q, m)}
<1>1. 0 \in T
  <2> DEFINE z == [i \in 1..0 |-> 0]
  <2>1. Flattens(z, q, 0)
    BY DEF Flattens
  <2> QED
    BY <2>1
<1>2. ASSUME NEW m \in Nat, m \in T PROVE m + 1 \in T
  <2>1. PICK f : Flattens(f, q, m)
    BY <1>2
  <2> DEFINE g == [i \in 1..(m + 1) |->
                     IF i \in 1..m THEN f[i]
                     ELSE IF i = 1 THEN q[i] ELSE f[i - 1] \o q[i]]
  <2>2. ASSUME NEW i \in 1..(m + 1)
        PROVE  g[i] = IF i = 1 THEN q[i] ELSE g[i - 1] \o q[i]
    <3>1. CASE i = 1
      <4>1. i \in 1..m => f[i] = q[i]
        BY <2>1, <3>1 DEF Flattens
      <4> QED
        BY <3>1, <4>1
    <3>2. CASE i # 1
      <4>1. i - 1 \in 1..m /\ i - 1 \in 1..(m + 1)
        BY <3>2
      <4>2. g[i - 1] = f[i - 1]
        BY <4>1
      <4>3. i \in 1..m => f[i] = f[i - 1] \o q[i]
        BY <2>1, <3>2 DEF Flattens
      <4>4. g[i] = f[i - 1] \o q[i]
        BY <3>2, <4>3
      <4> QED
        BY <3>2, <4>2, <4>4
    <3> QED
      BY <3>1, <3>2
  <2>3. Flattens(g, q, m + 1)
    <3>1. g = [i \in 1..(m + 1) |-> g[i]]
      OBVIOUS
    <3> HIDE DEF g
    <3>2. [i \in 1..(m + 1) |-> g[i]]
          = [i \in 1..(m + 1) |-> IF i = 1 THEN q[i] ELSE g[i - 1] \o q[i]]
      BY <2>2
    <3> QED
      BY <3>1, <3>2 DEF Flattens
  <2> QED
    BY <2>3
<1> HIDE DEF T
<1>3. n \in T
  BY <1>1, <1>2, SetInduction
<1> QED
  BY <1>3 DEF T

(* It depends on no item beyond the ones flattened.                         *)
LEMMA FlattensAgree ==
  ASSUME NEW q, NEW r, NEW n \in Nat, NEW m \in Nat, m >= n,
         \A i \in 1..n : q[i] = r[i],
         NEW f, Flattens(f, q, n), NEW g, Flattens(g, r, m)
  PROVE  \A i \in 1..n : f[i] = g[i]
<1> DEFINE T == {j \in Nat : j \in 1..n => f[j] = g[j]}
<1>1. 0 \in T
  OBVIOUS
<1>2. ASSUME NEW j \in Nat, j \in T PROVE j + 1 \in T
  <2>1. SUFFICES ASSUME j + 1 \in 1..n PROVE f[j + 1] = g[j + 1]
    OBVIOUS
  <2> DEFINE i == j + 1
  <2>2. i \in 1..n /\ i \in 1..m /\ q[i] = r[i]
    BY <2>1
  <2>3. CASE j = 0
    <3>1. f[i] = q[i] /\ g[i] = r[i]
      BY <2>2, <2>3 DEF Flattens
    <3> QED
      BY <2>2, <3>1
  <2>4. CASE j # 0
    <3>1. j \in 1..n /\ i # 1 /\ i - 1 = j
      BY <2>2, <2>4
    <3>2. f[i] = f[j] \o q[i] /\ g[i] = g[j] \o r[i]
      BY <2>2, <3>1, ZenonT(60) DEF Flattens
    <3> QED
      BY <1>2, <2>2, <3>1, <3>2
  <2> QED
    BY <2>3, <2>4
<1> HIDE DEF T
<1>3. Nat \subseteq T
  BY <1>1, <1>2, SetInduction
<1> QED
  BY <1>3 DEF T

(* Its values are sequences of the items' elements.                         *)
LEMMA FlattensType ==
  ASSUME NEW S, NEW q \in Seq(Seq(S)), NEW f, Flattens(f, q, Len(q))
  PROVE  \A i \in 1..Len(q) : f[i] \in Seq(S)
<1> DEFINE T == {j \in Nat : j \in 1..Len(q) => f[j] \in Seq(S)}
<1>1. 0 \in T
  OBVIOUS
<1>2. ASSUME NEW j \in Nat, j \in T PROVE j + 1 \in T
  <2>1. SUFFICES ASSUME j + 1 \in 1..Len(q) PROVE f[j + 1] \in Seq(S)
    OBVIOUS
  <2> DEFINE i == j + 1
  <2>2. i \in 1..Len(q) /\ q[i] \in Seq(S)
    BY <2>1
  <2>3. CASE j = 0
    BY <2>2, <2>3 DEF Flattens
  <2>4. CASE j # 0
    <3>1. j \in 1..Len(q) /\ i # 1 /\ i - 1 = j
      BY <2>2, <2>4
    <3>2. f[i] = f[j] \o q[i] /\ f[j] \in Seq(S)
      BY <1>2, <2>2, <3>1 DEF Flattens
    <3> QED
      BY <2>2, <3>2
  <2> QED
    BY <2>3, <2>4
<1> HIDE DEF T
<1>3. Nat \subseteq T
  BY <1>1, <1>2, SetInduction
<1> QED
  BY <1>3 DEF T

(* FlattenSeq is the last value of such a function.                         *)
LEMMA FlattenValue ==
  ASSUME NEW S, NEW q \in Seq(Seq(S)), Len(q) > 0
  PROVE  \E f : Flattens(f, q, Len(q)) /\ FlattenSeq(q) = f[Len(q)]
<1> DEFINE f == CHOOSE flatten :
                  flatten = [i \in 1..Len(q) |->
                               IF i = 1 THEN q[i] ELSE flatten[i - 1] \o q[i]]
<1>1. FlattenSeq(q) = f[Len(q)]
  BY DEF FlattenSeq
<1>2. Len(q) \in Nat
  OBVIOUS
<1>3. Flattens(f, q, Len(q))
  BY <1>2, FlattensExists DEF Flattens
<1> QED
  BY <1>1, <1>3

(* Flattening one item more adds it at the end.                             *)
LEMMA FlattenAppend ==
  ASSUME NEW S, NEW q \in Seq(Seq(S)), NEW x \in Seq(S)
  PROVE  /\ FlattenSeq(q) \in Seq(S)
         /\ FlattenSeq(Append(q, x)) = FlattenSeq(q) \o x
<1> DEFINE r == Append(q, x)
<1>1. /\ r \in Seq(Seq(S)) /\ Len(r) = Len(q) + 1 /\ Len(q) \in Nat /\ r[Len(q) + 1] = x
      /\ \A i \in 1..Len(q) : q[i] = r[i]
  OBVIOUS
<1> HIDE DEF r
<1>2. PICK g : Flattens(g, r, Len(r)) /\ FlattenSeq(r) = g[Len(r)]
  <2>1. Len(r) > 0
    BY <1>1
  <2> QED
    BY <1>1, <2>1, FlattenValue
<1>3. CASE Len(q) = 0
  <2>1. FlattenSeq(q) = <<>>
    BY <1>3 DEF FlattenSeq
  <2>2. g[1] = r[1]
    BY <1>1, <1>2, <1>3 DEF Flattens
  <2>3. FlattenSeq(r) = x
    BY <1>1, <1>2, <1>3, <2>2
  <2> QED
    BY <2>1, <2>3 DEF r
<1>4. CASE Len(q) # 0
  <2>1. PICK f : Flattens(f, q, Len(q)) /\ FlattenSeq(q) = f[Len(q)]
    BY <1>1, <1>4, FlattenValue, SMTT(30)
  <2>2. Len(q) \in 1..Len(q) /\ Len(r) \in 1..Len(r) /\ Len(r) # 1 /\ Len(r) - 1 = Len(q)
    BY <1>1, <1>4
  <2>3. f[Len(q)] = g[Len(q)]
    <3> DEFINE n == Len(q)
               m == Len(r)
    <3>1. /\ n \in Nat /\ m \in Nat /\ m >= n
          /\ Flattens(f, q, n) /\ Flattens(g, r, m)
          /\ \A i \in 1..n : q[i] = r[i]
      BY <1>1, <1>2, <2>1
    <3> HIDE DEF n, m
    <3>2. \A i \in 1..n : f[i] = g[i]
      BY <3>1, FlattensAgree
    <3> QED
      BY <2>2, <3>2 DEF n
  <2>4. g[Len(r)] = g[Len(q)] \o r[Len(r)]
    BY <1>2, <2>2 DEF Flattens
  <2>5. FlattenSeq(q) \in Seq(S)
    BY <2>1, <2>2, FlattensType
  <2> QED
    BY <1>1, <1>2, <2>1, <2>3, <2>4, <2>5 DEF r
<1> QED
  BY <1>3, <1>4

-----------------------------------------------------------------------------
(* What was forwarded.                                                      *)
Bytes(m, i) == IF IsData(m, i) THEN m.data ELSE <<>>

Passed(s, i) == FlattenSeq([n \in DOMAIN s |-> Bytes(s[n], i)])

(* Forwarded of Tunnel is what its history passed on.                       *)
LEMMA ForwardedPassed ==
  ASSUME NEW i
  PROVE  Forwarded(i) = Passed(sent, i)
  BY DEF Forwarded, Passed, Bytes

(* The bytes of a message.                                                  *)
LEMMA BytesType ==
  ASSUME NEW m \in HostMessage, NEW i
  PROVE  Bytes(m, i) \in Seq(Byte)
<1>1. IsData(m, i) => m.data \in Payload
  BY DEF IsData, HostMessage
<1> QED
  BY <1>1, PayloadType DEF Bytes

(* One message more.                                                        *)
LEMMA PassedAppend ==
  ASSUME NEW s \in Seq(HostMessage), NEW m \in HostMessage, NEW i
  PROVE  /\ Passed(s, i) \in Seq(Byte)
         /\ Passed(Append(s, m), i) = Passed(s, i) \o Bytes(m, i)
<1> DEFINE q == [n \in DOMAIN s |-> Bytes(s[n], i)]
           u == Append(s, m)
<1>1. /\ u \in Seq(HostMessage) /\ Len(u) = Len(s) + 1 /\ Len(s) \in Nat
      /\ DOMAIN s = 1..Len(s) /\ DOMAIN u = 1..(Len(s) + 1) /\ u[Len(s) + 1] = m
      /\ \A n \in 1..Len(s) : u[n] = s[n]
  OBVIOUS
<1> HIDE DEF u
<1>2. q \in Seq(Seq(Byte)) /\ Len(q) = Len(s)
  BY <1>1, BytesType
<1>3. Bytes(m, i) \in Seq(Byte)
  BY BytesType
<1>4. [n \in DOMAIN u |-> Bytes(u[n], i)] = Append(q, Bytes(m, i))
  <2> DEFINE l == [n \in DOMAIN u |-> Bytes(u[n], i)]
             x == Bytes(m, i)
             r == Append(q, x)
  <2>1. DOMAIN l = 1..(Len(s) + 1)
    BY <1>1
  <2>2. r = [n \in 1..(Len(s) + 1) |-> IF n <= Len(s) THEN q[n] ELSE x]
    <3> HIDE DEF q, x
    <3>1. /\ r \in Seq(Seq(Byte)) /\ Len(r) = Len(q) + 1 /\ Len(q) \in Nat
          /\ \A n \in 1..(Len(q) + 1) : r[n] = IF n <= Len(q) THEN q[n] ELSE x
      BY <1>2, <1>3 DEF x
    <3> HIDE DEF r
    <3>2. r = [n \in 1..Len(r) |-> r[n]]
      BY <3>1
    <3> QED
      BY <1>2, <3>1, <3>2
  <2>3. \A n \in 1..(Len(s) + 1) : l[n] = IF n <= Len(s) THEN q[n] ELSE x
    BY <1>1
  <2> HIDE DEF l, r, q, x
  <2>4. l = [n \in 1..(Len(s) + 1) |-> l[n]]
    <3>1. l = [n \in DOMAIN l |-> l[n]]
      BY DEF l
    <3> QED
      BY <2>1, <3>1
  <2>5. l = r
    BY <2>2, <2>3, <2>4
  <2> QED
    BY <2>5 DEF l, r, x
<1> HIDE DEF q
<1>5. FlattenSeq(q) \in Seq(Byte) /\ FlattenSeq(Append(q, Bytes(m, i))) = FlattenSeq(q) \o Bytes(m, i)
  BY <1>2, <1>3, FlattenAppend
<1> QED
  BY <1>4, <1>5 DEF Passed, q, u

(* Nothing at the start.                                                    *)
LEMMA PassedNothing ==
  ASSUME NEW i
  PROVE  Passed(<<>>, i) = <<>>
<1> DEFINE q == [n \in DOMAIN <<>> |-> Bytes(<<>>[n], i)]
<1>1. q = <<>> /\ Len(q) = 0
  OBVIOUS
<1> HIDE DEF q
<1>2. FlattenSeq(q) = q
  BY <1>1 DEF FlattenSeq
<1> QED
  BY <1>1, <1>2 DEF Passed, q

(* A close or a connect adds nothing; data adds its bytes to its own        *)
(* connection, alone or before a close.                                     *)
LEMMA PassedType ==
  ASSUME NEW s \in Seq(HostMessage), NEW i
  PROVE  Passed(s, i) \in Seq(Byte)
<1> DEFINE q == [n \in DOMAIN s |-> Bytes(s[n], i)]
<1>1. q \in Seq(Seq(Byte))
  BY BytesType
<1>2. <<>> \in Seq(Byte)
  OBVIOUS
<1> HIDE DEF q
<1>3. FlattenSeq(q) \in Seq(Byte)
  BY <1>1, <1>2, FlattenAppend
<1> QED
  BY <1>3 DEF Passed, q

(* A message sent adds its bytes, and only those.                           *)
LEMMA PassedOne ==
  ASSUME NEW s \in Seq(HostMessage), NEW i, NEW e \in HostMessage, NEW d, Bytes(e, i) = d
  PROVE  Passed(s \o <<e>>, i) = Passed(s, i) \o d
<1>1. s \o <<e>> = Append(s, e)
  OBVIOUS
<1>2. Passed(Append(s, e), i) = Passed(s, i) \o Bytes(e, i)
  BY PassedAppend
<1> QED
  BY <1>1, <1>2

(* A TcpConnect adds nothing (mod.rs:284).                                  *)
LEMMA PassedConnect ==
  ASSUME NEW s \in Seq(HostMessage), NEW i, NEW id \in ConnId, NEW c \in Server
  PROVE  Passed(s \o <<TcpConnect(id, c)>>, i) = Passed(s, i)
<1> DEFINE e == TcpConnect(id, c)
<1>1. e \in HostMessage /\ Bytes(e, i) = <<>>
  BY DEF TcpConnect, HostMessage, Bytes, IsData
<1> HIDE DEF e
<1>2. Passed(s \o <<e>>, i) = Passed(s, i) \o <<>> /\ Passed(s, i) \in Seq(Byte)
  BY <1>1, PassedOne, PassedType
<1> QED
  BY <1>2 DEF e

(* A TcpData adds its block to its own connection (mod.rs:372).             *)
LEMMA PassedData ==
  ASSUME NEW s \in Seq(HostMessage), NEW i, NEW id \in ConnId, NEW d \in Payload
  PROVE  Passed(s \o <<TcpData(id, d)>>, i) = Passed(s, i) \o (IF i = id THEN d ELSE <<>>)
<1> DEFINE e == TcpData(id, d)
           x == IF i = id THEN d ELSE <<>>
<1>1. e \in HostMessage /\ Bytes(e, i) = x
  BY DEF TcpData, HostMessage, Bytes, IsData
<1> HIDE DEF e, x
<1>2. Passed(s \o <<e>>, i) = Passed(s, i) \o x
  BY <1>1, PassedOne
<1> QED
  BY <1>2 DEF e, x

(* A TcpClose adds nothing (mod.rs:363).                                    *)
LEMMA PassedClose ==
  ASSUME NEW s \in Seq(HostMessage), NEW i, NEW id \in ConnId
  PROVE  Passed(s \o <<TcpClose(id)>>, i) = Passed(s, i)
<1> DEFINE e == TcpClose(id)
<1>1. e \in HostMessage /\ Bytes(e, i) = <<>>
  BY DEF TcpClose, HostMessage, Bytes, IsData
<1> HIDE DEF e
<1>2. Passed(s \o <<e>>, i) = Passed(s, i) \o <<>> /\ Passed(s, i) \in Seq(Byte)
  BY <1>1, PassedOne, PassedType
<1> QED
  BY <1>2 DEF e

(* A FIN with data sends both (mod.rs:336-365).                             *)
LEMMA PassedDataClose ==
  ASSUME NEW s \in Seq(HostMessage), NEW i, NEW id \in ConnId, NEW d \in Payload
  PROVE  Passed(s \o (<<TcpData(id, d)>> \o <<TcpClose(id)>>), i)
           = Passed(s, i) \o (IF i = id THEN d ELSE <<>>)
<1> DEFINE b == TcpData(id, d)
           e == TcpClose(id)
<1>1. /\ b \in HostMessage /\ Bytes(b, i) = (IF i = id THEN d ELSE <<>>)
      /\ e \in HostMessage
  BY DEF TcpData, TcpClose, HostMessage, Bytes, IsData
<1>2. Append(s, b) \in Seq(HostMessage)
  <2> HIDE DEF b
  <2> QED
    BY <1>1
<1>3. Passed(Append(s, b), i) = Passed(s, i) \o Bytes(b, i)
  <2> HIDE DEF b
  <2> QED
    BY <1>1, PassedAppend
<1>4. Passed(Append(s, b) \o <<TcpClose(id)>>, i) = Passed(Append(s, b), i)
  <2> DEFINE r == Append(s, b)
  <2> HIDE DEF r
  <2>1. r \in Seq(HostMessage)
    BY <1>2 DEF r
  <2>2. Passed(r \o <<TcpClose(id)>>, i) = Passed(r, i)
    BY <2>1, PassedClose
  <2> QED
    BY <2>2 DEF r
<1> HIDE DEF b, e
<1>5. Append(s, b) \o <<e>> = s \o (<<b>> \o <<e>>)
  <2>1. Append(s, b) \o <<e>> = Append(Append(s, b), e)
    BY <1>1
  <2>2. s \o (<<b>> \o <<e>>) = Append(Append(s, b), e)
    BY <1>1
  <2> QED
    BY <2>1, <2>2
<1> QED
  BY <1>1, <1>3, <1>4, <1>5 DEF b, e

-----------------------------------------------------------------------------
(* What a handler of the host does when it returns.                         *)

(* What it does to the table.                                               *)
Others(key) ==
  \A k \in DOMAIN tcp_by_key \ {key} : tcp_by_key'[k] = tcp_by_key[k]

Added(key, c) ==
  /\ DOMAIN tcp_by_key' = DOMAIN tcp_by_key \cup {key}
  /\ tcp_by_key'[key] = c /\ Others(key)

Updated(key, c) ==
  /\ key \in DOMAIN tcp_by_key /\ DOMAIN tcp_by_key' = DOMAIN tcp_by_key
  /\ tcp_by_key'[key] = c /\ Others(key) /\ UNCHANGED next_id

Removed(key) ==
  /\ key \in DOMAIN tcp_by_key /\ DOMAIN tcp_by_key' = DOMAIN tcp_by_key \ {key}
  /\ Others(key) /\ UNCHANGED next_id

(* What it sends.                                                           *)
Sends(ms, ps) ==
  /\ to_remote' = to_remote \o ms /\ sent' = sent \o ms
  /\ to_tun' = to_tun \o ps

Answer(key, flags, seq, ack) ==
  [key |-> key, flags |-> flags, seq |-> seq, ack |-> ack, payload |-> <<>>]

(* It sends all of it, or nothing and is blocked.                           *)
LEMMA EmitSends ==
  ASSUME ChannelTypeOK, sent \in Seq(HostMessage), NEW ms \in Seq(HostMessage),
         NEW ps, Emit(ms, ps), Recorded
  PROVE  \/ Sends(ms, ps) /\ loop' = loop
         \/ UNCHANGED <<to_remote, sent, to_tun>> /\ loop' = "blocked"
<1>1. to_remote \in Seq(HostMessage)
  BY DEF ChannelTypeOK
<1>2. CASE to_remote' = to_remote \o ms /\ to_tun' = to_tun \o ps /\ UNCHANGED loop
  <2>1. SubSeq(to_remote \o ms, Len(to_remote) + 1, Len(to_remote \o ms)) = ms
    BY <1>1
  <2> QED
    BY <1>2, <2>1 DEF Sends, Recorded
<1>3. CASE UNCHANGED <<to_remote, to_tun>> /\ loop' = "blocked"
  <2>1. SubSeq(to_remote, Len(to_remote) + 1, Len(to_remote)) = <<>>
    BY <1>1
  <2>2. sent' = sent \o <<>>
    BY <1>3, <2>1 DEF Recorded
  <2>3. sent' = sent
    BY <2>2
  <2> QED
    BY <1>3, <2>3
<1> QED
  BY <1>2, <1>3 DEF Emit

(* An update through the id of a key reaches the key's own entry.           *)
LEMMA OwnEntry ==
  ASSUME NatTypeOK, KeysResolve, NEW t, DOMAIN t = DOMAIN tcp_by_key,
         NEW key \in DOMAIN tcp_by_key
  PROVE  LET id == tcp_by_key[key].id
         IN  /\ Resolves(t, id) /\ tcp_by_id[id] = key
             /\ GetTcpSeq(t, id) = t[key].seq /\ GetTcpAck(t, id) = t[key].ack
             /\ \A a : UpdateTcpAck(t, id, a) = [t EXCEPT ![key].ack = a]
             /\ \A n : AdvanceTcpSeq(t, id, n)
                         = [t EXCEPT ![key].seq = WrappingAdd(t[key].seq, n)]
  BY DEF KeysResolve, Resolves, GetTcpSeq, GetTcpAck, UpdateTcpAck, AdvanceTcpSeq

(* What the host does with a packet of its connection c.                    *)
Created(p) ==
  /\ "syn" \in p.flags
  /\ next_id \in ConnId /\ next_id' = next_id + 1
  /\ Added(p.key, [id |-> next_id, state |-> "SynSent", seq |-> HostIsn,
                   ack |-> WrappingAdd(p.seq, 1)])
  /\ Sends(<<TcpConnect(next_id, p.key[2])>>, <<>>)

FinTaken(p, c) ==
  LET ack == WrappingAdd(p.seq, Len(p.payload) + 1)
  IN  /\ c.state = "Established" /\ "fin" \in p.flags
      /\ Updated(p.key, [id |-> c.id, state |-> "FinWait", seq |-> c.seq, ack |-> ack])
      /\ \/ /\ p.payload = <<>>
            /\ Sends(<<TcpClose(c.id)>>, <<Answer(p.key, {"ack"}, c.seq, ack)>>)
         \/ /\ p.payload # <<>>
            /\ Sends(<<TcpData(c.id, p.payload)>> \o <<TcpClose(c.id)>>,
                     <<Answer(p.key, {"ack"}, c.seq, ack)>>)

DataTaken(p, c) ==
  LET ack == WrappingAdd(p.seq, Len(p.payload))
  IN  /\ c.state = "Established" /\ "fin" \notin p.flags /\ p.payload # <<>>
      /\ \/ /\ p.seq = c.ack
            /\ Updated(p.key, [id |-> c.id, state |-> c.state, seq |-> c.seq, ack |-> ack])
            /\ Sends(<<TcpData(c.id, p.payload)>>, <<Answer(p.key, {"ack"}, c.seq, ack)>>)
         \/ /\ p.seq # c.ack
            /\ Updated(p.key, c)
            /\ Sends(<<>>, <<Answer(p.key, {"ack"}, c.seq, c.ack)>>)

FinAnswered(p, c) ==
  /\ c.state = "CloseWait"
  /\ Removed(p.key)
  /\ Sends(<<>>, <<Answer(p.key, {"ack"}, c.seq, WrappingAdd(p.seq, 1))>>)

GivenUp(p, c) ==
  /\ Removed(p.key)
  /\ \/ "rst" \in p.flags /\ Sends(<<TcpClose(c.id)>>, <<>>)
     \/ c.state = "LastAck" /\ Sends(<<>>, <<>>)

Passes(p, c) ==
  /\ UNCHANGED <<tcp_by_key, next_id>> /\ Sends(<<>>, <<>>)
  /\ p.key \in DOMAIN tcp_by_key /\ c.state = "Established" =>
       "fin" \notin p.flags /\ p.payload = <<>>

Reacts(p) ==
  LET c == tcp_by_key[p.key]
  IN  \/ Created(p) \/ FinTaken(p, c) \/ DataTaken(p, c) \/ FinAnswered(p, c)
      \/ GivenUp(p, c) \/ Passes(p, c)

(* The handler of a packet, when it returns.                                *)
LEMMA HostReacts ==
  ASSUME IInv, sent \in Seq(HostMessage), Recorded,
         NEW p \in TcpPacketInfo, HandleOutboundTcp(p)
  PROVE  \/ Reacts(p)
         \/ UNCHANGED <<to_remote, sent, to_tun>> /\ loop' = "blocked"
<1> DEFINE c == tcp_by_key[p.key]
           id == c.id
<1>1. /\ p.key \in TcpKey /\ p.seq \in SeqNum /\ p.payload \in Payload
      /\ p.key \in Client \X Server /\ p.key[2] \in Server
  BY DEF TcpPacketInfo, TcpKey
<1>2. NatTypeOK /\ KeysResolve /\ ChannelTypeOK
  BY DEF IInv, NatIInv
<1>3. p.key \in DOMAIN tcp_by_key =>
        c \in TcpConnection /\ id \in ConnId
  BY <1>2 DEF NatTypeOK, TcpConnection
<1>4. UNCHANGED <<to_remote, to_tun, sent>> => Sends(<<>>, <<>>)
  <2>1. to_remote \o <<>> = to_remote /\ to_tun \o <<>> = to_tun /\ sent \o <<>> = sent
    BY <1>2 DEF ChannelTypeOK
  <2> QED
    BY <2>1 DEF Sends
<1>5. UNCHANGED <<to_remote, to_tun>> => Sends(<<>>, <<>>)
  <2>1. SUFFICES ASSUME UNCHANGED <<to_remote, to_tun>> PROVE UNCHANGED sent
    BY <1>4
  <2>2. SubSeq(to_remote, Len(to_remote) + 1, Len(to_remote)) = <<>>
    BY <1>2 DEF ChannelTypeOK
  <2>3. sent' = sent \o <<>>
    BY <2>1, <2>2 DEF Recorded
  <2> QED
    BY <2>3
<1>6. <<>> \in Seq(HostMessage)
  OBVIOUS
<1>7. CASE OnSyn(p)
  <2>1. /\ next_id \in ConnId
        /\ tcp_by_key' = Insert(tcp_by_key, p.key, NewConnection(p.seq))
        /\ next_id' = next_id + 1
        /\ Emit(<<TcpConnect(next_id, p.key[2])>>, <<>>)
    BY <1>2, <1>7, NatAssumption DEF OnSyn, CreateTcpConnection, ConnId, NatTypeOK
  <2>2. Added(p.key, NewConnection(p.seq))
    BY <2>1 DEF Added, Insert, Others
  <2>3. <<TcpConnect(next_id, p.key[2])>> \in Seq(HostMessage)
    BY <1>1, <2>1 DEF TcpConnect, HostMessage
  <2>4. \/ Sends(<<TcpConnect(next_id, p.key[2])>>, <<>>)
        \/ UNCHANGED <<to_remote, sent, to_tun>> /\ loop' = "blocked"
    BY <1>2, <2>1, <2>3, EmitSends
  <2> QED
    BY <1>7, <2>1, <2>2, <2>4 DEF Reacts, Created, NewConnection, OnSyn
<1>8. ASSUME p.key \in DOMAIN tcp_by_key, CloseTcpConnection(p.key)
      PROVE  Removed(p.key)
  BY <1>8 DEF CloseTcpConnection, Removed, Without, Others
<1>9. CASE OnRst(p)
  <2>1. /\ p.key \in DOMAIN tcp_by_key /\ CloseTcpConnection(p.key) /\ "rst" \in p.flags
        /\ Emit(<<TcpClose(id)>>, <<>>)
    BY <1>9 DEF OnRst, Known
  <2>2. <<TcpClose(id)>> \in Seq(HostMessage)
    BY <1>3, <2>1 DEF TcpClose, HostMessage
  <2>3. \/ Sends(<<TcpClose(id)>>, <<>>)
        \/ UNCHANGED <<to_remote, sent, to_tun>> /\ loop' = "blocked"
    BY <1>2, <2>1, <2>2, EmitSends
  <2> QED
    BY <1>8, <2>1, <2>3 DEF Reacts, GivenUp
<1>10. ASSUME p.key \in DOMAIN tcp_by_key, NEW a, NEW s
       PROVE  LET t == UpdateTcpAck(tcp_by_key, id, a)
              IN  /\ Reply(t, p.key, id, {"ack"}) = Answer(p.key, {"ack"}, c.seq, a)
                  /\ DOMAIN t = DOMAIN tcp_by_key
                  /\ t[p.key] = [id |-> id, state |-> c.state, seq |-> c.seq, ack |-> a]
                  /\ \A k \in DOMAIN tcp_by_key \ {p.key} : t[k] = tcp_by_key[k]
  <2> DEFINE t == UpdateTcpAck(tcp_by_key, id, a)
  <2>1. t = [tcp_by_key EXCEPT ![p.key].ack = a]
    BY <1>2, <1>10, OwnEntry, SMTT(30)
  <2>2. /\ DOMAIN t = DOMAIN tcp_by_key
        /\ t[p.key] = [id |-> id, state |-> c.state, seq |-> c.seq, ack |-> a]
        /\ \A k \in DOMAIN tcp_by_key \ {p.key} : t[k] = tcp_by_key[k]
    <3> HIDE DEF t
    <3>1. /\ DOMAIN t = DOMAIN tcp_by_key /\ t[p.key] = [c EXCEPT !.ack = a]
          /\ \A k \in DOMAIN tcp_by_key \ {p.key} : t[k] = tcp_by_key[k]
      BY <1>10, <2>1
    <3>2. [c EXCEPT !.ack = a] = [id |-> id, state |-> c.state, seq |-> c.seq, ack |-> a]
      BY <1>3, <1>10 DEF TcpConnection
    <3> QED
      BY <3>1, <3>2
  <2> HIDE DEF t
  <2>3. GetTcpSeq(t, id) = t[p.key].seq /\ GetTcpAck(t, id) = t[p.key].ack
    BY <1>2, <1>10, <2>2, OwnEntry
  <2>4. GetTcpSeq(t, id) = c.seq /\ GetTcpAck(t, id) = a
    BY <2>2, <2>3
  <2>5. Reply(t, p.key, id, {"ack"}) = Answer(p.key, {"ack"}, c.seq, a)
    BY <2>4 DEF Reply, Answer
  <2> QED
    BY <2>2, <2>5 DEF t
<1>11. CASE OnFin(p)
  <2> DEFINE ack == WrappingAdd(p.seq, Len(p.payload) + 1)
             t == UpdateTcpAck(tcp_by_key, id, ack)
             u == SetTcpState(t, p.key, "FinWait")
             ps == <<Answer(p.key, {"ack"}, c.seq, ack)>>
  <2>1. /\ p.key \in DOMAIN tcp_by_key /\ c.state = "Established" /\ "fin" \in p.flags
        /\ SetTable(u)
        /\ Emit(Piggybacked(p) \o Closing(p), <<Reply(t, p.key, id, {"ack"})>>)
    BY <1>11 DEF OnFin, TakeFin, InState, Known
  <2>2. /\ Reply(t, p.key, id, {"ack"}) = Answer(p.key, {"ack"}, c.seq, ack)
        /\ DOMAIN t = DOMAIN tcp_by_key
        /\ t[p.key] = [id |-> id, state |-> c.state, seq |-> c.seq, ack |-> ack]
        /\ \A k \in DOMAIN tcp_by_key \ {p.key} : t[k] = tcp_by_key[k]
    BY <1>10, <2>1
  <2> HIDE DEF t
  <2>3. /\ DOMAIN u = DOMAIN tcp_by_key
        /\ u[p.key] = [id |-> id, state |-> "FinWait", seq |-> c.seq, ack |-> ack]
        /\ \A k \in DOMAIN tcp_by_key \ {p.key} : u[k] = tcp_by_key[k]
    <3>1. u = [t EXCEPT ![p.key].state = "FinWait"]
      BY <2>1, <2>2 DEF SetTcpState
    <3>2. /\ DOMAIN u = DOMAIN tcp_by_key /\ u[p.key] = [t[p.key] EXCEPT !.state = "FinWait"]
          /\ \A k \in DOMAIN tcp_by_key \ {p.key} : u[k] = t[k]
      BY <2>1, <2>2, <3>1
    <3>3. u[p.key] = [id |-> id, state |-> "FinWait", seq |-> c.seq, ack |-> ack]
      <4> DEFINE r == t[p.key]
                 i == id
                 n == c.seq
      <4>1. /\ r = [id |-> i, state |-> c.state, seq |-> n, ack |-> ack]
            /\ u[p.key] = [r EXCEPT !.state = "FinWait"]
        BY <2>2, <3>2
      <4> HIDE DEF r, u, i, n, ack
      <4>2. u[p.key] = [id |-> i, state |-> "FinWait", seq |-> n, ack |-> ack]
        BY <4>1
      <4> QED
        BY <4>2 DEF i, n
    <3> QED
      BY <2>2, <3>2, <3>3
  <2> HIDE DEF u
  <2>4. Updated(p.key, [id |-> id, state |-> "FinWait", seq |-> c.seq, ack |-> ack])
    BY <2>1, <2>3 DEF Updated, Others, SetTable
  <2>5. TcpClose(id) \in HostMessage /\ TcpData(id, p.payload) \in HostMessage
    BY <1>1, <1>3, <2>1 DEF TcpClose, TcpData, HostMessage
  <2>6. CASE p.payload = <<>>
    <3>1. Piggybacked(p) \o Closing(p) = <<TcpClose(id)>> /\ <<TcpClose(id)>> \in Seq(HostMessage)
      BY <2>5, <2>6 DEF Piggybacked, Closing
    <3>2. \/ Sends(<<TcpClose(id)>>, ps)
          \/ UNCHANGED <<to_remote, sent, to_tun>> /\ loop' = "blocked"
      BY <1>2, <2>1, <2>2, <3>1, EmitSends
    <3> QED
      BY <2>1, <2>4, <2>6, <3>2 DEF Reacts, FinTaken
  <2>7. CASE p.payload # <<>>
    <3> DEFINE ms == <<TcpData(id, p.payload)>> \o <<TcpClose(id)>>
    <3>1. Piggybacked(p) \o Closing(p) = ms /\ ms \in Seq(HostMessage)
      BY <2>5, <2>7 DEF Piggybacked, Closing
    <3>2. \/ Sends(ms, ps)
          \/ UNCHANGED <<to_remote, sent, to_tun>> /\ loop' = "blocked"
      BY <1>2, <2>1, <2>2, <3>1, EmitSends
    <3> QED
      BY <2>1, <2>4, <2>7, <3>2 DEF Reacts, FinTaken
  <2> QED
    BY <2>6, <2>7
<1>12. CASE OnData(p)
  <2> DEFINE ack == WrappingAdd(p.seq, Len(p.payload))
  <2>1. /\ p.key \in DOMAIN tcp_by_key /\ c.state = "Established"
        /\ "fin" \notin p.flags /\ p.payload # <<>>
    BY <1>12 DEF OnData, TakeData, InState, Known
  <2>2. InOrder(p) <=> p.seq = c.ack
    BY <1>2, <2>1, OwnEntry DEF InOrder
  <2>3. CASE InOrder(p)
    <3> DEFINE t == UpdateTcpAck(tcp_by_key, id, ack)
               ms == <<TcpData(id, p.payload)>>
               ps == <<Answer(p.key, {"ack"}, c.seq, ack)>>
    <3>1. SetTable(t) /\ Emit(ms, <<Reply(t, p.key, id, {"ack"})>>)
      BY <1>12, <2>3 DEF OnData, TakeData
    <3>2. /\ Reply(t, p.key, id, {"ack"}) = Answer(p.key, {"ack"}, c.seq, ack)
          /\ DOMAIN t = DOMAIN tcp_by_key
          /\ t[p.key] = [id |-> id, state |-> c.state, seq |-> c.seq, ack |-> ack]
          /\ \A k \in DOMAIN tcp_by_key \ {p.key} : t[k] = tcp_by_key[k]
      BY <1>10, <2>1
    <3> HIDE DEF t
    <3>3. Updated(p.key, [id |-> id, state |-> c.state, seq |-> c.seq, ack |-> ack])
      BY <2>1, <3>1, <3>2 DEF Updated, Others, SetTable
    <3>4. ms \in Seq(HostMessage)
      BY <1>1, <1>3, <2>1 DEF TcpData, HostMessage
    <3>5. \/ Sends(ms, ps)
          \/ UNCHANGED <<to_remote, sent, to_tun>> /\ loop' = "blocked"
      BY <1>2, <3>1, <3>2, <3>4, EmitSends
    <3> QED
      BY <2>1, <2>2, <2>3, <3>3, <3>5 DEF Reacts, DataTaken
  <2>4. CASE ~InOrder(p)
    <3> DEFINE ps == <<Answer(p.key, {"ack"}, c.seq, c.ack)>>
    <3>1. SetTable(tcp_by_key) /\ Emit(<<>>, <<Reply(tcp_by_key, p.key, id, {"ack"})>>)
      BY <1>12, <2>4 DEF OnData, TakeData
    <3>2. Reply(tcp_by_key, p.key, id, {"ack"}) = Answer(p.key, {"ack"}, c.seq, c.ack)
      BY <1>2, <2>1, OwnEntry DEF Reply, Answer
    <3>3. Updated(p.key, c)
      BY <2>1, <3>1 DEF Updated, Others, SetTable
    <3>4. \/ Sends(<<>>, ps)
          \/ UNCHANGED <<to_remote, sent, to_tun>> /\ loop' = "blocked"
      BY <1>2, <1>6, <3>1, <3>2, EmitSends
    <3> QED
      BY <2>1, <2>2, <2>4, <3>3, <3>4 DEF Reacts, DataTaken
  <2> QED
    BY <2>3, <2>4
<1>13. CASE OnFinInCloseWait(p)
  <2> DEFINE ack == WrappingAdd(p.seq, 1)
             t == UpdateTcpAck(tcp_by_key, id, ack)
  <2>1. /\ p.key \in DOMAIN tcp_by_key /\ c.state = "CloseWait"
        /\ CloseTcpConnection(p.key)
        /\ Emit(<<>>, <<Reply(t, p.key, id, {"ack"})>>)
    BY <1>13 DEF OnFinInCloseWait, AckFin, InState, Known
  <2>2. Reply(t, p.key, id, {"ack"}) = Answer(p.key, {"ack"}, c.seq, ack)
    BY <1>10, <2>1
  <2>3. \/ Sends(<<>>, <<Answer(p.key, {"ack"}, c.seq, ack)>>)
        \/ UNCHANGED <<to_remote, sent, to_tun>> /\ loop' = "blocked"
    BY <1>2, <1>6, <2>1, <2>2, EmitSends
  <2> QED
    BY <1>8, <2>1, <2>3 DEF Reacts, FinAnswered
<1>14. CASE OnAckInLastAck(p)
  BY <1>5, <1>8, <1>14 DEF OnAckInLastAck, InState, Known, Reacts, GivenUp
<1>15. CASE Ignored(p) /\ Ignore
  <2>1. UNCHANGED <<tcp_by_key, next_id, to_remote, to_tun>>
    BY <1>15 DEF Ignore, hostVars, natVars
  <2>2. p.key \in DOMAIN tcp_by_key /\ c.state = "Established" =>
          "fin" \notin p.flags /\ p.payload = <<>>
    BY <1>15 DEF Ignored, InState, Known
  <2> QED
    BY <1>5, <2>1, <2>2 DEF Reacts, Passes
<1> QED
  BY <1>7, <1>9, <1>11, <1>12, <1>13, <1>14, <1>15 DEF HandleOutboundTcp

-----------------------------------------------------------------------------
(* What the host does with a message about its connection c.                *)
Writes(ps) == to_tun' = to_tun \o ps

Opened(m, key, c) ==
  /\ m.type = "TcpConnected"
  /\ Updated(key, [id |-> c.id, state |-> "Established",
                   seq |-> WrappingAdd(c.seq, 1), ack |-> c.ack])
  /\ Writes(<<Answer(key, {"syn", "ack"}, c.seq, c.ack)>>)

Relayed(m, key, c) ==
  /\ m.type = "TcpData"
  /\ Updated(key, [id |-> c.id, state |-> c.state,
                   seq |-> WrappingAdd(c.seq, Len(m.data)), ack |-> c.ack])
  /\ Writes(DataPackets(m.id, m.data))

Finished(m, key, c) ==
  /\ m.type = "TcpClosed"
  /\ \E state \in {"CloseWait", "LastAck"} :
       /\ c.state = IF state = "CloseWait" THEN "Established" ELSE "FinWait"
       /\ Updated(key, [id |-> c.id, state |-> state,
                        seq |-> WrappingAdd(c.seq, 1), ack |-> c.ack])
  /\ Writes(<<Answer(key, {"fin", "ack"}, c.seq, c.ack)>>)

Forgotten(m, key, c) ==
  /\ m.type = "TcpClosed" /\ c.state \notin {"Established", "FinWait"}
  /\ Removed(key) /\ UNCHANGED to_tun

Refused(m, key) ==
  /\ m.type = "TcpError"
  /\ Removed(key) /\ Writes(<<Answer(key, {"rst"}, 0, 0)>>)

Answers(m) ==
  LET key == tcp_by_id[m.id]
      c == tcp_by_key[key]
  IN  /\ m.id \in DOMAIN tcp_by_id /\ key \in DOMAIN tcp_by_key /\ c.id = m.id
      /\ \/ Opened(m, key, c) \/ Relayed(m, key, c) \/ Finished(m, key, c)
         \/ Forgotten(m, key, c) \/ Refused(m, key)

(* The state and the sequence number of an entry change, nothing else.      *)
LEMMA EntryAdvanced ==
  ASSUME NatTypeOK, KeysResolve, NEW key \in DOMAIN tcp_by_key, NEW n, NEW s,
         NEW t, t = SetTcpState(tcp_by_key, key, s) \/ (t = tcp_by_key /\ s = tcp_by_key[key].state)
  PROVE  LET c == tcp_by_key[key]
             u == AdvanceTcpSeq(t, c.id, n)
         IN  /\ DOMAIN t = DOMAIN tcp_by_key /\ DOMAIN u = DOMAIN tcp_by_key
             /\ GetTcpSeq(t, c.id) = c.seq /\ GetTcpAck(t, c.id) = c.ack
             /\ u[key] = [id |-> c.id, state |-> s, seq |-> WrappingAdd(c.seq, n), ack |-> c.ack]
             /\ \A k \in DOMAIN tcp_by_key \ {key} : u[k] = tcp_by_key[k]
<1> DEFINE c == tcp_by_key[key]
           u == AdvanceTcpSeq(t, c.id, n)
           w == WrappingAdd(c.seq, n)
<1>1. c \in TcpConnection
  BY DEF NatTypeOK
<1>2. /\ DOMAIN t = DOMAIN tcp_by_key
      /\ t[key] = [id |-> c.id, state |-> s, seq |-> c.seq, ack |-> c.ack]
      /\ \A k \in DOMAIN tcp_by_key \ {key} : t[k] = tcp_by_key[k]
  <2>1. CASE t = SetTcpState(tcp_by_key, key, s)
    <3>1. t = [tcp_by_key EXCEPT ![key].state = s]
      BY <2>1 DEF SetTcpState
    <3>2. t[key] = [c EXCEPT !.state = s]
      BY <3>1
    <3>3. [c EXCEPT !.state = s] = [id |-> c.id, state |-> s, seq |-> c.seq, ack |-> c.ack]
      <4> HIDE DEF c
      <4> QED
        BY <1>1 DEF TcpConnection
    <3> QED
      BY <3>1, <3>2, <3>3
  <2>2. CASE t = tcp_by_key /\ s = tcp_by_key[key].state
    <3>1. c = [id |-> c.id, state |-> c.state, seq |-> c.seq, ack |-> c.ack]
      <4> HIDE DEF c
      <4> QED
        BY <1>1 DEF TcpConnection
    <3> QED
      BY <2>2, <3>1
  <2> QED
    BY <2>1, <2>2
<1>3. /\ GetTcpSeq(t, c.id) = t[key].seq /\ GetTcpAck(t, c.id) = t[key].ack
      /\ u = [t EXCEPT ![key].seq = WrappingAdd(t[key].seq, n)]
  <2> DEFINE id == tcp_by_key[key].id
  <2>1. /\ GetTcpSeq(t, id) = t[key].seq /\ GetTcpAck(t, id) = t[key].ack
        /\ \A x : AdvanceTcpSeq(t, id, x) = [t EXCEPT ![key].seq = WrappingAdd(t[key].seq, x)]
    BY <1>2, OwnEntry
  <2> HIDE DEF id
  <2>2. AdvanceTcpSeq(t, id, n) = [t EXCEPT ![key].seq = WrappingAdd(t[key].seq, n)]
    BY <2>1
  <2> QED
    BY <2>1, <2>2 DEF id
<1>4. t[key].seq = c.seq /\ t[key].ack = c.ack
  BY <1>2
<1>5. u = [t EXCEPT ![key].seq = w]
  BY <1>3, <1>4
<1> HIDE DEF u
<1>6. DOMAIN u = DOMAIN t /\ u[key] = [t[key] EXCEPT !.seq = w]
      /\ \A k \in DOMAIN t \ {key} : u[k] = t[k]
  BY <1>2, <1>5
<1>7. u[key] = [id |-> c.id, state |-> s, seq |-> w, ack |-> c.ack]
  <2> DEFINE r == t[key]
             i == c.id
             a == c.ack
  <2>1. r = [id |-> i, state |-> s, seq |-> c.seq, ack |-> a] /\ u[key] = [r EXCEPT !.seq = w]
    BY <1>2, <1>6
  <2> HIDE DEF r, i, a, w
  <2>2. u[key] = [id |-> i, state |-> s, seq |-> w, ack |-> a]
    BY <2>1
  <2> QED
    BY <2>2 DEF i, a
<1> QED
  BY <1>2, <1>3, <1>4, <1>6, <1>7 DEF u

(* The handler of a message, when it returns.                               *)
LEMMA HostAnswers ==
  ASSUME IInv, IdsResolve, NEW m \in RemoteMessage, HandleRemoteMessage(m)
  PROVE  /\ UNCHANGED to_remote
         /\ \/ Answers(m)
            \/ UNCHANGED <<tcp_by_key, next_id, to_tun>> /\ m.id \notin DOMAIN tcp_by_id
            \/ UNCHANGED to_tun /\ loop' = "blocked"
<1> DEFINE key == tcp_by_id[m.id]
           c == tcp_by_key[key]
<1>1. NatTypeOK /\ KeysResolve /\ ChannelTypeOK
  BY DEF IInv, NatIInv
<1>2. m.id \in DOMAIN tcp_by_id => key \in DOMAIN tcp_by_key /\ c.id = m.id
  BY DEF IdsResolve
<1>3. ASSUME NEW ps, Emit(<<>>, ps)
      PROVE  UNCHANGED to_remote /\ (Writes(ps) \/ (UNCHANGED to_tun /\ loop' = "blocked"))
  <2>1. UNCHANGED to_remote
    BY <1>1, <1>3, EmitNothing
  <2> QED
    BY <1>3, <2>1 DEF Emit, Writes
<1>4. ASSUME m.id \in DOMAIN tcp_by_id, CloseTcpConnection(key)
      PROVE  Removed(key)
  BY <1>2, <1>4 DEF CloseTcpConnection, Removed, Without, Others
<1>5. CASE OnTcpConnected(m)
  <2> DEFINE t == SetTcpState(tcp_by_key, key, "Established")
             u == AdvanceTcpSeq(t, m.id, 1)
  <2>1. /\ m.type = "TcpConnected" /\ m.id \in DOMAIN tcp_by_id /\ SetTable(u)
        /\ Emit(<<>>, <<Reply(t, key, m.id, {"syn", "ack"})>>)
    BY <1>5 DEF OnTcpConnected, Establish, ForKnown
  <2>2. /\ DOMAIN u = DOMAIN tcp_by_key
        /\ GetTcpSeq(t, m.id) = c.seq /\ GetTcpAck(t, m.id) = c.ack
        /\ u[key] = [id |-> m.id, state |-> "Established", seq |-> WrappingAdd(c.seq, 1), ack |-> c.ack]
        /\ \A k \in DOMAIN tcp_by_key \ {key} : u[k] = tcp_by_key[k]
    <3> HIDE DEF u
    <3>1. key \in DOMAIN tcp_by_key /\ c.id = m.id
      BY <1>2, <2>1
    <3> HIDE DEF key, t
    <3>2. t = SetTcpState(tcp_by_key, key, "Established")
      BY DEF t
    <3>3. LET d == tcp_by_key[key]
              v == AdvanceTcpSeq(t, d.id, 1)
          IN  /\ DOMAIN v = DOMAIN tcp_by_key
              /\ GetTcpSeq(t, d.id) = d.seq /\ GetTcpAck(t, d.id) = d.ack
              /\ v[key] = [id |-> d.id, state |-> "Established",
                           seq |-> WrappingAdd(d.seq, 1), ack |-> d.ack]
              /\ \A k \in DOMAIN tcp_by_key \ {key} : v[k] = tcp_by_key[k]
      BY <1>1, <3>1, <3>2, EntryAdvanced
    <3> QED
      BY <3>1, <3>3 DEF u
  <2>3. Reply(t, key, m.id, {"syn", "ack"}) = Answer(key, {"syn", "ack"}, c.seq, c.ack)
    BY <2>2 DEF Reply, Answer
  <2> HIDE DEF u
  <2>4. Updated(key, [id |-> c.id, state |-> "Established", seq |-> WrappingAdd(c.seq, 1), ack |-> c.ack])
    BY <1>2, <2>1, <2>2 DEF Updated, Others, SetTable
  <2> QED
    BY <1>2, <1>3, <2>1, <2>3, <2>4 DEF Answers, Opened
<1>6. CASE OnTcpData(m)
  <2> DEFINE n == Len(m.data)
             u == AdvanceTcpSeq(tcp_by_key, m.id, n)
  <2>1. /\ m.type = "TcpData" /\ m.id \in DOMAIN tcp_by_id /\ SetTable(u)
        /\ Emit(<<>>, DataPackets(m.id, m.data))
    BY <1>6 DEF OnTcpData, PassOn, ForKnown
  <2>2. /\ DOMAIN u = DOMAIN tcp_by_key
        /\ u[key] = [id |-> m.id, state |-> c.state, seq |-> WrappingAdd(c.seq, n), ack |-> c.ack]
        /\ \A k \in DOMAIN tcp_by_key \ {key} : u[k] = tcp_by_key[k]
    <3> DEFINE s == c.state
    <3>1. key \in DOMAIN tcp_by_key /\ c.id = m.id /\ s = tcp_by_key[key].state
      BY <1>2, <2>1
    <3> HIDE DEF key, n, u, s
    <3>2. tcp_by_key = tcp_by_key
      OBVIOUS
    <3>3. LET d == tcp_by_key[key]
              v == AdvanceTcpSeq(tcp_by_key, d.id, n)
          IN  /\ DOMAIN v = DOMAIN tcp_by_key
              /\ v[key] = [id |-> d.id, state |-> s, seq |-> WrappingAdd(d.seq, n), ack |-> d.ack]
              /\ \A k \in DOMAIN tcp_by_key \ {key} : v[k] = tcp_by_key[k]
      BY <1>1, <3>1, <3>2, EntryAdvanced
    <3> QED
      BY <3>1, <3>3 DEF u, s
  <2> HIDE DEF u
  <2>4. Updated(key, [id |-> c.id, state |-> c.state, seq |-> WrappingAdd(c.seq, n), ack |-> c.ack])
    BY <1>2, <2>1, <2>2 DEF Updated, Others, SetTable
  <2> QED
    BY <1>2, <1>3, <2>1, <2>4 DEF Answers, Relayed
<1>7. ASSUME NEW from, NEW to, OnTcpClosed(m, from, to), to \in {"CloseWait", "LastAck"},
             from = IF to = "CloseWait" THEN "Established" ELSE "FinWait"
      PROVE  UNCHANGED to_remote /\ (Answers(m) \/ (UNCHANGED to_tun /\ loop' = "blocked"))
  <2> DEFINE t == AdvanceTcpSeq(tcp_by_key, m.id, 1)
             u == SetTcpState(t, key, to)
  <2>1. /\ m.type = "TcpClosed" /\ m.id \in DOMAIN tcp_by_id /\ SetTable(u) /\ c.state = from
        /\ Emit(<<>>, <<Reply(tcp_by_key, key, m.id, {"fin", "ack"})>>)
    BY <1>7 DEF OnTcpClosed, ForKnown
  <2>2. /\ DOMAIN t = DOMAIN tcp_by_key
        /\ GetTcpSeq(tcp_by_key, m.id) = c.seq /\ GetTcpAck(tcp_by_key, m.id) = c.ack
        /\ t[key] = [id |-> m.id, state |-> c.state, seq |-> WrappingAdd(c.seq, 1), ack |-> c.ack]
        /\ \A k \in DOMAIN tcp_by_key \ {key} : t[k] = tcp_by_key[k]
    <3> DEFINE s == c.state
    <3>1. key \in DOMAIN tcp_by_key /\ c.id = m.id /\ s = tcp_by_key[key].state
      BY <1>2, <2>1
    <3> HIDE DEF key, t, s
    <3>2. tcp_by_key = tcp_by_key
      OBVIOUS
    <3>3. LET d == tcp_by_key[key]
              v == AdvanceTcpSeq(tcp_by_key, d.id, 1)
          IN  /\ DOMAIN v = DOMAIN tcp_by_key
              /\ GetTcpSeq(tcp_by_key, d.id) = d.seq /\ GetTcpAck(tcp_by_key, d.id) = d.ack
              /\ v[key] = [id |-> d.id, state |-> s, seq |-> WrappingAdd(d.seq, 1), ack |-> d.ack]
              /\ \A k \in DOMAIN tcp_by_key \ {key} : v[k] = tcp_by_key[k]
      BY <1>1, <3>1, <3>2, EntryAdvanced
    <3> QED
      BY <3>1, <3>3 DEF t, s
  <2>3. Reply(tcp_by_key, key, m.id, {"fin", "ack"}) = Answer(key, {"fin", "ack"}, c.seq, c.ack)
    BY <2>2 DEF Reply, Answer
  <2> DEFINE w == WrappingAdd(c.seq, 1)
             i == c.id
             a == c.ack
  <2>4. DOMAIN u = DOMAIN tcp_by_key /\ u[key] = [id |-> i, state |-> to, seq |-> w, ack |-> a]
        /\ \A k \in DOMAIN tcp_by_key \ {key} : u[k] = tcp_by_key[k]
    <3>1. /\ DOMAIN t = DOMAIN tcp_by_key /\ key \in DOMAIN t
          /\ t[key] = [id |-> i, state |-> c.state, seq |-> w, ack |-> a]
          /\ \A k \in DOMAIN tcp_by_key \ {key} : t[k] = tcp_by_key[k]
      BY <1>2, <2>1, <2>2
    <3> HIDE DEF t, w, i, a, key
    <3>2. u = [t EXCEPT ![key].state = to]
      BY <3>1 DEF SetTcpState
    <3> HIDE DEF u
    <3>3. DOMAIN u = DOMAIN t /\ u[key] = [t[key] EXCEPT !.state = to]
          /\ \A k \in DOMAIN t \ {key} : u[k] = t[k]
      BY <3>1, <3>2
    <3>4. u[key] = [id |-> i, state |-> to, seq |-> w, ack |-> a]
      BY <3>1, <3>3
    <3> QED
      BY <3>1, <3>3, <3>4
  <2> HIDE DEF u
  <2>5. Updated(key, [id |-> c.id, state |-> to, seq |-> WrappingAdd(c.seq, 1), ack |-> c.ack])
    BY <1>2, <2>1, <2>4 DEF Updated, Others, SetTable
  <2> QED
    BY <1>2, <1>3, <1>7, <2>1, <2>3, <2>5 DEF Answers, Finished
<1>8. CASE OnTcpClosedUnexpected(m)
  BY <1>2, <1>4, <1>8 DEF OnTcpClosedUnexpected, ForKnown, Answers, Forgotten
<1>9. CASE OnTcpError(m)
  <2>1. /\ m.type = "TcpError" /\ m.id \in DOMAIN tcp_by_id /\ CloseTcpConnection(key)
        /\ Emit(<<>>, <<Answer(key, {"rst"}, 0, 0)>>)
    BY <1>9 DEF OnTcpError, ForKnown, Answer
  <2> QED
    BY <1>2, <1>3, <1>4, <2>1 DEF Answers, Refused
<1>10. CASE m.id \notin DOMAIN tcp_by_id /\ Ignore
  BY <1>10 DEF Ignore, hostVars, natVars
<1>11. CASE OnTcpClosed(m, "Established", "CloseWait")
  BY <1>7, <1>11
<1>12. CASE OnTcpClosed(m, "FinWait", "LastAck")
  BY <1>7, <1>12
<1> QED
  BY <1>5, <1>6, <1>8, <1>9, <1>10, <1>11, <1>12 DEF HandleRemoteMessage

-----------------------------------------------------------------------------
(* What an application does: nothing the host sees but one segment.         *)
Later(st, new) == st \in {"open", "gone"} => new \in {"open", "gone"}

Queues(x) == x \in TcpPacketInfo /\ from_tun' = Append(from_tun, x)

AppMoves(k) ==
  /\ \A j \in TcpKey \ {k} : app'[j] = app[j]
  /\ Later(app[k].st, app'[k].st)
  /\ \/ app'[k].sent = app[k].sent /\ UNCHANGED from_tun
     \/ /\ app'[k].sent = app[k].sent
        /\ \E x : /\ Queues(x) /\ x.key = k /\ x.payload = <<>>
                  /\ "syn" \in x.flags => x.seq = 0
     \/ /\ app[k].st = "open"
        /\ \E x : /\ Queues(x) /\ x.key = k /\ "syn" \notin x.flags
                  /\ x.payload = <<UpByte(x.seq)>>
                  /\ \/ x.seq = app[k].sent + 1 /\ app'[k].sent = app[k].sent + 1
                     \/ /\ x.seq \in 1..app[k].sent /\ app'[k].sent = app[k].sent
                        /\ "fin" \notin x.flags

(* Transmitting one segment.                                                *)
LEMMA TransmitQueues ==
  ASSUME from_tun \in Seq(TcpPacketInfo), NEW k \in TcpKey, NEW flags \in SUBSET Flag,
         NEW n \in 0..(MaxSent + 2), NEW d \in Payload, Transmit(<<Segment(k, flags, n, d)>>)
  PROVE  LET x == Segment(k, flags, n, d)
         IN  /\ Queues(x) /\ x.key = k /\ x.payload = d /\ x.seq = n /\ x.flags = flags
<1> DEFINE x == Segment(k, flags, n, d)
<1>1. x \in TcpPacketInfo /\ x.key = k /\ x.payload = d /\ x.seq = n /\ x.flags = flags
  BY SegmentType DEF Segment
<1> HIDE DEF x
<1>2. from_tun \o <<x>> = Append(from_tun, x)
  BY <1>1
<1> QED
  BY <1>1, <1>2 DEF Queues, Transmit, x

(* What the applications do by themselves.                                  *)
LEMMA AppActsMoves ==
  ASSUME TypeInv, NEW k \in TcpKey,
         \/ AppConnects(k) \/ AppSends(k) \/ AppCloses(k) \/ AppSendsAndCloses(k)
         \/ AppResets(k) \/ AppRetransmits(k)
  PROVE  AppMoves(k)
<1> USE DEF Flag
<1>1. /\ app \in [TcpKey -> AppEnd] /\ from_tun \in Seq(TcpPacketInfo)
      /\ app[k] \in AppEnd
  BY DEF TypeInv, EnvInv
<1>2. app[k].st = "open" => app[k].una >= 1
  BY DEF TypeInv, EnvInv, OpenInv
<1>3. /\ MaxSent \in Nat /\ app[k].sent \in 0..MaxSent /\ app[k].una \in SeqNum
      /\ app[k].sent \in Nat
  BY <1>1, TunnelAssumption DEF AppEnd
<1>4. <<>> \in Payload /\ \A n \in 1..MaxSent : <<UpByte(n)>> \in Payload
  BY SmallPayloads
<1>5. app[k].una \in Int
  BY <1>3 DEF SeqNum
<1>6. CASE AppConnects(k)
  <2>1. Later(app[k].st, app'[k].st) /\ app'[k].sent = app[k].sent
        /\ \A j \in TcpKey \ {k} : app'[j] = app[j]
    BY <1>1, <1>6 DEF AppConnects, AppEnd, Later
  <2>2. PICK x : Queues(x) /\ x.key = k /\ x.payload = <<>> /\ x.seq = 0
    BY <1>1, <1>3, <1>4, <1>6, TransmitQueues DEF AppConnects
  <2> QED
    BY <2>1, <2>2 DEF AppMoves
<1>7. CASE AppSends(k)
  <2> DEFINE n == app[k].sent + 1
  <2>1. n \in 1..MaxSent /\ n \in 0..(MaxSent + 2)
    BY <1>3, <1>7 DEF AppSends
  <2>2. Later(app[k].st, app'[k].st) /\ app'[k].sent = n /\ app[k].st = "open"
        /\ \A j \in TcpKey \ {k} : app'[j] = app[j]
    BY <1>1, <1>7 DEF AppSends, AppEnd, Later
  <2>3. PICK x : /\ Queues(x) /\ x.key = k /\ x.payload = <<UpByte(n)>> /\ x.seq = n
                 /\ x.flags = {"ack", "psh"}
    BY <1>1, <1>4, <1>7, <2>1, TransmitQueues DEF AppSends
  <2> HIDE DEF n
  <2>4. "syn" \notin x.flags /\ x.payload = <<UpByte(x.seq)>>
    BY <2>3
  <2> QED
    BY <2>2, <2>3, <2>4 DEF AppMoves, n
<1>8. CASE AppCloses(k)
  <2>0. app[k].sent + 1 \in 0..(MaxSent + 2)
    BY <1>3
  <2>1. Later(app[k].st, app'[k].st) /\ app'[k].sent = app[k].sent
        /\ \A j \in TcpKey \ {k} : app'[j] = app[j]
    BY <1>1, <1>8 DEF AppCloses, AppEnd, Later
  <2>2. PICK x : Queues(x) /\ x.key = k /\ x.payload = <<>> /\ x.flags = {"fin", "ack"}
    BY <1>1, <1>4, <1>8, <2>0, TransmitQueues DEF AppCloses
  <2> QED
    BY <2>1, <2>2 DEF AppMoves
<1>9. CASE AppSendsAndCloses(k)
  <2> DEFINE n == app[k].sent + 1
  <2>1. n \in 1..MaxSent /\ n \in 0..(MaxSent + 2)
    BY <1>3, <1>9 DEF AppSendsAndCloses
  <2>2. Later(app[k].st, app'[k].st) /\ app'[k].sent = n /\ app[k].st = "open"
        /\ \A j \in TcpKey \ {k} : app'[j] = app[j]
    BY <1>1, <1>9 DEF AppSendsAndCloses, AppEnd, Later
  <2>3. PICK x : /\ Queues(x) /\ x.key = k /\ x.payload = <<UpByte(n)>> /\ x.seq = n
                 /\ x.flags = {"fin", "ack"}
    BY <1>1, <1>4, <1>9, <2>1, TransmitQueues DEF AppSendsAndCloses
  <2> HIDE DEF n
  <2>4. "syn" \notin x.flags /\ x.payload = <<UpByte(x.seq)>>
    BY <2>3
  <2> QED
    BY <2>2, <2>3, <2>4 DEF AppMoves, n
<1>10. CASE AppResets(k)
  <2>0. app[k].sent + 1 \in 0..(MaxSent + 2)
    BY <1>3
  <2>1. Later(app[k].st, app'[k].st) /\ app'[k].sent = app[k].sent
        /\ \A j \in TcpKey \ {k} : app'[j] = app[j]
    BY <1>1, <1>10 DEF AppResets, AppEnd, Later
  <2>2. PICK x : Queues(x) /\ x.key = k /\ x.payload = <<>> /\ x.flags = {"rst", "ack"}
    BY <1>1, <1>4, <1>10, <2>0, TransmitQueues DEF AppResets
  <2> QED
    BY <2>1, <2>2 DEF AppMoves
<1>11. CASE AppRetransmits(k)
  <2> DEFINE n == app[k].una
  <2>1. Later(app[k].st, app'[k].st) /\ app'[k].sent = app[k].sent /\ app[k].st = "open"
        /\ \A j \in TcpKey \ {k} : app'[j] = app[j]
    BY <1>1, <1>11 DEF AppRetransmits, AppEnd, Later
  <2>2. n \in Int /\ n >= 1
    BY <1>2, <1>5, <2>1
  <2>3. CASE n <= app[k].sent /\ Transmit(<<Segment(k, {"ack", "psh"}, n, <<UpByte(n)>>)>>)
    <3>1. n \in 1..MaxSent /\ n \in 0..(MaxSent + 2) /\ n \in 1..app[k].sent
      BY <1>3, <2>2, <2>3
    <3>2. PICK x : /\ Queues(x) /\ x.key = k /\ x.payload = <<UpByte(n)>> /\ x.seq = n
                   /\ x.flags = {"ack", "psh"}
      BY <1>1, <1>4, <2>3, <3>1, TransmitQueues
    <3> HIDE DEF n
    <3>3. "syn" \notin x.flags /\ "fin" \notin x.flags /\ x.payload = <<UpByte(x.seq)>>
      BY <3>2
    <3> QED
      BY <2>1, <3>1, <3>2, <3>3 DEF AppMoves
  <2>4. CASE n = app[k].sent + 1 /\ Transmit(<<Segment(k, {"fin", "ack"}, n, <<>>)>>)
    <3>1. n \in 0..(MaxSent + 2)
      BY <1>3, <2>4
    <3>2. PICK x : Queues(x) /\ x.key = k /\ x.payload = <<>> /\ x.flags = {"fin", "ack"}
      BY <1>1, <1>4, <2>4, <3>1, TransmitQueues
    <3> QED
      BY <2>1, <3>2 DEF AppMoves
  <2> QED
    BY <1>11, <2>3, <2>4 DEF AppRetransmits
<1> QED
  BY <1>6, <1>7, <1>8, <1>9, <1>10, <1>11

(* What they do with a packet of the host.                                  *)
LEMMA AppReceivesMoves ==
  ASSUME TypeInv, AppReceives
  PROVE  \E k \in TcpKey : AppMoves(k)
<1> USE DEF Flag
<1> DEFINE p == Head(to_tun)
           k == p.key
<1>1. /\ from_tun \in Seq(TcpPacketInfo) /\ app \in [TcpKey -> AppEnd]
      /\ to_tun \in Seq(TcpPacket) /\ to_tun # <<>>
      /\ \/ AppOpens(k, p) \/ AppTakes(k, p) \/ AppIsReset(k, p)
         \/ AppRefuses(k, p) \/ AppIgnores(k, p)
  BY DEF TypeInv, EnvInv, IInv, ChannelTypeOK, AppReceives, WriteToTun
<1>2. k \in TcpKey
  <2>1. p \in TcpPacket
    BY <1>1, HeadTail
  <2> QED
    BY <2>1 DEF TcpPacket
<1> HIDE DEF p, k
<1>3. app[k] \in AppEnd /\ app[k].sent \in 0..MaxSent /\ MaxSent \in Nat
  BY <1>1, <1>2, TunnelAssumption DEF AppEnd
<1>4. <<>> \in Payload
  BY SmallPayloads
<1>5. ASSUME NEW f \in SUBSET Flag, NEW n \in 0..(MaxSent + 2), "syn" \notin f,
             Transmit(<<Segment(k, f, n, <<>>)>>)
      PROVE  \E x : /\ Queues(x) /\ x.key = k /\ x.payload = <<>>
                    /\ "syn" \in x.flags => x.seq = 0
  BY <1>1, <1>2, <1>4, <1>5, TransmitQueues
<1>6. Transmit(<<Ack(k)>>) =>
        \E x : /\ Queues(x) /\ x.key = k /\ x.payload = <<>>
               /\ "syn" \in x.flags => x.seq = 0
  <2> DEFINE n == app[k].sent + (IF app[k].fin THEN 2 ELSE 1)
  <2>1. n \in 0..(MaxSent + 2) /\ {"ack"} \in SUBSET Flag /\ "syn" \notin {"ack"}
    BY <1>3
  <2> HIDE DEF n
  <2> QED
    BY <1>5, <2>1 DEF Ack, n
<1>7. ASSUME \A j \in TcpKey \ {k} : app'[j] = app[j],
             app'[k].sent = app[k].sent, Later(app[k].st, app'[k].st),
             \/ UNCHANGED from_tun
             \/ Transmit(<<Ack(k)>>)
             \/ Transmit(<<>>)
             \/ Transmit(<<Segment(k, {"rst"}, app[k].sent + 1, <<>>)>>)
      PROVE  AppMoves(k)
  <2>1. app[k].sent + 1 \in 0..(MaxSent + 2) /\ {"rst"} \in SUBSET Flag /\ "syn" \notin {"rst"}
    BY <1>3
  <2>2. Transmit(<<>>) => UNCHANGED from_tun
    BY <1>1 DEF Transmit
  <2> QED
    BY <1>5, <1>6, <1>7, <2>1, <2>2 DEF AppMoves
<1>8. CASE AppTakes(k, p)
  <2> DEFINE acked == [app[k] EXCEPT !.una = AckUpTo(app[k], p)]
             fin == "fin" \in p.flags
             taken == [acked EXCEPT
                         !.rcv_nxt = WrappingAdd(@, Len(p.payload) + IF fin THEN 1 ELSE 0),
                         !.got = @ \o p.payload,
                         !.rfin = @ \/ fin]
             a == IF InSequence(app[k], p) THEN taken ELSE acked
  <2>1. ASSUME NEW u
        PROVE  /\ [app[k] EXCEPT !.una = u].sent = app[k].sent
               /\ [app[k] EXCEPT !.una = u].st = app[k].st
    BY <1>3 DEF AppEnd
  <2>2. ASSUME NEW u, NEW r, NEW g, NEW f
        PROVE  LET b == [[app[k] EXCEPT !.una = u] EXCEPT !.rcv_nxt = r, !.got = g, !.rfin = f]
               IN  b.sent = app[k].sent /\ b.st = app[k].st
    BY <1>3 DEF AppEnd
  <2>3. acked.sent = app[k].sent /\ acked.st = app[k].st
    BY <2>1
  <2>4. taken.sent = app[k].sent /\ taken.st = app[k].st
    BY <2>2
  <2>5. app' = [app EXCEPT ![k] = a]
    BY <1>8 DEF AppTakes
  <2> HIDE DEF acked, taken
  <2>6. a.sent = app[k].sent /\ a.st = app[k].st
    BY <2>3, <2>4
  <2> HIDE DEF a
  <2>7. /\ \A j \in TcpKey \ {k} : app'[j] = app[j]
        /\ app'[k].sent = app[k].sent /\ Later(app[k].st, app'[k].st)
    BY <1>1, <1>2, <2>5, <2>6 DEF Later
  <2> QED
    BY <1>2, <1>7, <1>8, <2>7 DEF AppTakes
<1>9. CASE AppOpens(k, p)
  <2>1. /\ \A j \in TcpKey \ {k} : app'[j] = app[j]
        /\ app'[k].sent = app[k].sent /\ Later(app[k].st, app'[k].st)
    <3> DEFINE w == WrappingAdd(p.seq, 1)
               a == [app[k] EXCEPT !.st = "open", !.una = 1, !.rcv_nxt = w]
    <3>1. app' = [app EXCEPT ![k] = a]
      BY <1>9 DEF AppOpens
    <3> HIDE DEF w
    <3>2. a.sent = app[k].sent /\ a.st = "open"
      BY <1>3 DEF AppEnd
    <3> HIDE DEF a
    <3> QED
      BY <1>1, <1>2, <3>1, <3>2 DEF Later
  <2> QED
    BY <1>2, <1>7, <1>9, <2>1 DEF AppOpens
<1>10. CASE AppIsReset(k, p)
  <2>1. /\ \A j \in TcpKey \ {k} : app'[j] = app[j]
        /\ app'[k].sent = app[k].sent /\ Later(app[k].st, app'[k].st)
    BY <1>1, <1>2, <1>3, <1>10 DEF AppIsReset, AppEnd, Later
  <2> QED
    BY <1>2, <1>7, <1>10, <2>1 DEF AppIsReset
<1>11. CASE AppRefuses(k, p) \/ AppIgnores(k, p)
  BY <1>2, <1>7, <1>11 DEF AppRefuses, AppIgnores, Later
<1> QED
  BY <1>1, <1>8, <1>9, <1>10, <1>11

-----------------------------------------------------------------------------
(* What is acknowledged is what was passed on.                              *)

(* A segment in the TUN queue carries a byte its application has sent.      *)
Carries(p) ==
  /\ p.seq \in 1..app[p.key].sent /\ p.payload = <<UpByte(p.seq)>>
  /\ app[p.key].st \in {"open", "gone"}

SegmentsInv ==
  \A n \in DOMAIN from_tun :
    /\ "syn" \in from_tun[n].flags => from_tun[n].seq = 0
    /\ from_tun[n].payload # <<>> => Carries(from_tun[n])

IdleInv ==
  \A k \in TcpKey : app[k].st \in {"closed", "syn_sent"} => app[k].sent = 0

(* Ids not handed out yet have forwarded nothing.                           *)
NothingYet ==
  loop = "running" => \A i \in ConnId : i >= next_id => Passed(sent, i) = <<>>

Acks(k) ==
  LET c == tcp_by_key[k]
  IN  c.state \in {"SynSent", "Established"} =>
        c.ack = Len(Passed(sent, c.id)) + 1 /\ c.ack <= app[k].sent + 1

AckInv == loop = "running" => \A k \in DOMAIN tcp_by_key : Acks(k)

AcksInv == SegmentsInv /\ IdleInv /\ NothingYet /\ AckInv

(* The types the arguments below use.                                       *)
LEMMA UpTypes ==
  ASSUME TypeInv
  PROVE  /\ from_tun \in Seq(TcpPacketInfo) /\ sent \in Seq(HostMessage)
         /\ to_tun \in Seq(TcpPacket) /\ to_remote \in Seq(HostMessage)
         /\ responses \in Seq(RemoteMessage)
         /\ \A k \in TcpKey : /\ app[k] \in AppEnd /\ app[k].sent \in 0..MaxSent
                              /\ app[k].sent \in Nat /\ app[k].st \in AppState
         /\ MaxSent \in Nat /\ SeqSpace \in Nat /\ MaxSent + 3 < SeqSpace
         /\ DOMAIN tcp_by_key \subseteq TcpKey
         /\ \A k \in DOMAIN tcp_by_key : /\ tcp_by_key[k] \in TcpConnection
                                         /\ tcp_by_key[k].id \in ConnId
                                         /\ tcp_by_key[k].ack \in SeqNum
                                         /\ tcp_by_key[k].ack \in Nat
                                         /\ tcp_by_key[k].seq \in SeqNum
         /\ next_id \in Nat /\ KeysResolve /\ NatTypeOK /\ ChannelTypeOK
         /\ \A k \in DOMAIN tcp_by_key : tcp_by_key[k].id < next_id
<1>1. IInv /\ RemoteInv /\ EnvInv /\ NatIInv /\ ChannelTypeOK /\ NatTypeOK
  BY DEF TypeInv, IInv, NatIInv
<1>2. \A k \in TcpKey : /\ app[k] \in AppEnd /\ app[k].sent \in 0..MaxSent
                        /\ app[k].st \in AppState
  BY <1>1 DEF EnvInv, AppEnd
<1>3. MaxSent \in Nat /\ SeqSpace \in Nat /\ MaxSent + 3 < SeqSpace
  BY TunnelAssumption, NatAssumption
<1>4. \A k \in DOMAIN tcp_by_key : tcp_by_key[k] \in TcpConnection
  BY <1>1 DEF NatTypeOK
<1>5. \A k \in DOMAIN tcp_by_key :
        /\ tcp_by_key[k].id \in ConnId /\ tcp_by_key[k].ack \in SeqNum
        /\ tcp_by_key[k].seq \in SeqNum
  BY <1>4 DEF TcpConnection
<1>6. SeqNum \subseteq Nat
  BY <1>3 DEF SeqNum
<1>7. next_id \in Nat
  BY <1>1, NatAssumption DEF NatTypeOK
<1>8. \A k \in TcpKey : app[k].sent \in Nat
  BY <1>2, <1>3
<1>9. \A k \in DOMAIN tcp_by_key : tcp_by_key[k].id < next_id
  BY <1>1 DEF NatIInv, KeysResolve, IdsBelowNext
<1> QED
  BY <1>1, <1>2, <1>3, <1>4, <1>5, <1>6, <1>7, <1>8, <1>9
  DEF NatIInv, NatTypeOK, ChannelTypeOK, RemoteInv, EnvInv

(* One packet more in the TUN queue.                                        *)
LEMMA QueuedPackets ==
  ASSUME from_tun \in Seq(TcpPacketInfo), NEW x, Queues(x)
  PROVE  /\ x \in TcpPacketInfo /\ Len(from_tun) \in Nat
         /\ DOMAIN from_tun = 1..Len(from_tun)
         /\ DOMAIN from_tun' = 1..(Len(from_tun) + 1)
         /\ from_tun'[Len(from_tun) + 1] = x
         /\ \A n \in DOMAIN from_tun : n \in DOMAIN from_tun' /\ from_tun'[n] = from_tun[n]
         /\ \A n \in DOMAIN from_tun' :
              \/ n \in DOMAIN from_tun /\ from_tun'[n] = from_tun[n]
              \/ n = Len(from_tun) + 1 /\ from_tun'[n] = x
<1> DEFINE q == Append(from_tun, x)
<1>1. x \in TcpPacketInfo /\ from_tun' = q
  BY DEF Queues
<1>2. /\ Len(from_tun) \in Nat /\ DOMAIN from_tun = 1..Len(from_tun)
      /\ DOMAIN q = 1..(Len(from_tun) + 1) /\ q[Len(from_tun) + 1] = x
      /\ \A n \in 1..Len(from_tun) : q[n] = from_tun[n]
  BY <1>1
<1> HIDE DEF q
<1> QED
  BY <1>1, <1>2

(* A step of the applications.                                              *)
LEMMA AcksMoves ==
  ASSUME TypeInv, TypeInv', AcksInv, NEW k \in TcpKey, AppMoves(k),
         UNCHANGED <<tcp_by_key, next_id, loop, sent>>
  PROVE  AcksInv'
<1>1. /\ from_tun \in Seq(TcpPacketInfo) /\ DOMAIN tcp_by_key \subseteq TcpKey
      /\ \A j \in TcpKey : /\ app[j].sent \in Nat /\ app[j].st \in AppState
      /\ \A j \in DOMAIN tcp_by_key : tcp_by_key[j].ack \in Nat
  BY UpTypes
<1>2. \A j \in TcpKey : app'[j].sent \in Nat /\ app'[j].st \in AppState
  <2>1. app' \in [TcpKey -> AppEnd]
    BY DEF TypeInv, EnvInv
  <2> QED
    BY <2>1, TunnelAssumption DEF AppEnd
<1>3. \A j \in TcpKey : /\ app'[j].sent >= app[j].sent /\ Later(app[j].st, app'[j].st)
                        /\ j # k => app'[j].sent = app[j].sent
  BY <1>1, <1>2 DEF AppMoves, Later
<1>4. /\ SegmentsInv /\ IdleInv /\ NothingYet /\ AckInv
      /\ \A n \in DOMAIN from_tun : from_tun[n].key \in TcpKey
  BY KeysOfType DEF AcksInv
<1>5. ASSUME NEW n \in DOMAIN from_tun, NEW p, p = from_tun[n], Carries(p)
      PROVE  Carries(p)'
  <2>1. p.key \in TcpKey
    BY <1>4, <1>5
  <2>2. app'[p.key].sent >= app[p.key].sent /\ Later(app[p.key].st, app'[p.key].st)
        /\ app[p.key].sent \in Nat /\ app'[p.key].sent \in Nat
    BY <1>1, <1>2, <1>3, <2>1
  <2>3. 1..app[p.key].sent \subseteq 1..app'[p.key].sent
    BY <2>2
  <2> QED
    BY <1>5, <2>2, <2>3 DEF Carries, Later
<1>6. IdleInv'
  <2>1. SUFFICES ASSUME NEW j \in TcpKey, app'[j].st \in {"closed", "syn_sent"}
                 PROVE  app'[j].sent = 0
    BY DEF IdleInv
  <2>2. app[j].st \in {"closed", "syn_sent"}
    BY <1>1, <1>3, <2>1 DEF Later, AppState
  <2>3. app[j].sent = 0
    BY <1>4, <2>2 DEF IdleInv
  <2> QED
    BY <2>2, <2>3 DEF AppMoves
<1>7. SegmentsInv'
  <2>1. CASE UNCHANGED from_tun
    BY <1>4, <1>5, <2>1 DEF SegmentsInv, Carries
  <2>2. ASSUME NEW x, Queues(x), "syn" \in x.flags => x.seq = 0,
               x.payload # <<>> => Carries(x)'
        PROVE  SegmentsInv'
    <3> DEFINE q == from_tun'
    <3>1. \A n \in DOMAIN q : \/ n \in DOMAIN from_tun /\ q[n] = from_tun[n]
                              \/ q[n] = x
      BY <1>1, <2>2, QueuedPackets
    <3>2. \A n \in DOMAIN from_tun : /\ "syn" \in from_tun[n].flags => from_tun[n].seq = 0
                                     /\ from_tun[n].payload # <<>> =>
                                          \E p : p = from_tun[n] /\ Carries(p)'
      BY <1>4, <1>5 DEF SegmentsInv
    <3>3. \A n \in DOMAIN q : /\ "syn" \in q[n].flags => q[n].seq = 0
                              /\ q[n].payload # <<>> => /\ q[n].seq \in 1..app'[q[n].key].sent
                                                        /\ q[n].payload = <<UpByte(q[n].seq)>>
                                                        /\ app'[q[n].key].st \in {"open", "gone"}
      BY <2>2, <3>1, <3>2 DEF Carries
    <3> QED
      BY <3>3 DEF SegmentsInv, Carries
  <2>3. CASE \E x : /\ Queues(x) /\ x.key = k /\ x.payload = <<>>
                    /\ "syn" \in x.flags => x.seq = 0
    BY <2>2, <2>3
  <2>4. ASSUME app[k].st = "open", NEW x, Queues(x), x.key = k, "syn" \notin x.flags,
               x.payload = <<UpByte(x.seq)>>,
               \/ x.seq = app[k].sent + 1 /\ app'[k].sent = app[k].sent + 1
               \/ x.seq \in 1..app[k].sent /\ app'[k].sent = app[k].sent
        PROVE  SegmentsInv'
    <3>1. x.seq \in 1..app'[x.key].sent
      BY <1>1, <2>4
    <3>2. app'[x.key].st \in {"open", "gone"}
      BY <1>3, <2>4 DEF Later
    <3> QED
      BY <2>2, <2>4, <3>1, <3>2 DEF Carries
  <2> QED
    BY <2>1, <2>3, <2>4 DEF AppMoves
<1>8. NothingYet' /\ AckInv'
  <2>1. ASSUME NEW j \in DOMAIN tcp_by_key, Acks(j) PROVE Acks(j)'
    BY <1>1, <1>2, <1>3, <2>1 DEF Acks
  <2> QED
    BY <1>4, <2>1 DEF NothingYet, AckInv
<1> QED
  BY <1>6, <1>7, <1>8 DEF AcksInv

(* Fewer packets in the TUN queue.                                          *)
LEMMA SegmentsKept ==
  ASSUME SegmentsInv, IdleInv, UNCHANGED app,
         \A n \in DOMAIN from_tun' :
           \E m \in DOMAIN from_tun : from_tun'[n] = from_tun[m]
  PROVE  SegmentsInv' /\ IdleInv'
  BY DEF SegmentsInv, IdleInv, Carries

(* What a packet adds to what was passed on.                                *)
Took(p, i) ==
  /\ p.key \in DOMAIN tcp_by_key /\ i = tcp_by_key[p.key].id
  /\ tcp_by_key[p.key].state = "Established" /\ p.payload # <<>>
  /\ \/ FinTaken(p, tcp_by_key[p.key])
     \/ DataTaken(p, tcp_by_key[p.key]) /\ p.seq = tcp_by_key[p.key].ack

(* So the host passes on the payload of the packet it reads, or nothing.    *)
LEMMA ReactsPasses ==
  ASSUME TypeInv, NEW p \in TcpPacketInfo, Reacts(p)
  PROVE  \A i \in ConnId : /\ Passed(sent, i) \in Seq(Byte)
                           /\ \/ Passed(sent', i) = Passed(sent, i)
                              \/ /\ Took(p, i)
                                 /\ Passed(sent', i) = Passed(sent, i) \o p.payload
<1> DEFINE c == tcp_by_key[p.key]
<1>1. /\ sent \in Seq(HostMessage) /\ p.payload \in Payload /\ p.key[2] \in Server
      /\ p.key \in DOMAIN tcp_by_key => c.id \in ConnId
  BY UpTypes DEF TcpPacketInfo, TcpKey
<1>2. ASSUME NEW i \in ConnId, NEW id \in ConnId
      PROVE  /\ Passed(sent, i) \in Seq(Byte) /\ Passed(sent \o <<>>, i) = Passed(sent, i)
             /\ Passed(sent \o <<TcpConnect(id, p.key[2])>>, i) = Passed(sent, i)
             /\ Passed(sent \o <<TcpClose(id)>>, i) = Passed(sent, i)
             /\ Passed(sent \o <<TcpData(id, p.payload)>>, i)
                  = Passed(sent, i) \o (IF i = id THEN p.payload ELSE <<>>)
             /\ Passed(sent \o (<<TcpData(id, p.payload)>> \o <<TcpClose(id)>>), i)
                  = Passed(sent, i) \o (IF i = id THEN p.payload ELSE <<>>)
             /\ Passed(sent, i) \o <<>> = Passed(sent, i)
  <2>1. Passed(sent, i) \in Seq(Byte)
    BY <1>1, PassedType
  <2>2. Passed(sent, i) \o <<>> = Passed(sent, i)
    BY <2>1
  <2>3. PICK d \in Payload, e \in Server : d = p.payload /\ e = p.key[2]
    BY <1>1
  <2>4. Passed(sent \o <<>>, i) = Passed(sent, i)
    BY <1>1
  <2>5. Passed(sent \o <<TcpConnect(id, e)>>, i) = Passed(sent, i)
    BY <1>1, <1>2, <2>3, PassedConnect
  <2>6. Passed(sent \o <<TcpClose(id)>>, i) = Passed(sent, i)
    BY <1>1, <1>2, PassedClose
  <2>7. Passed(sent \o <<TcpData(id, d)>>, i) = Passed(sent, i) \o (IF i = id THEN d ELSE <<>>)
    BY <1>1, <1>2, <2>3, PassedData
  <2>8. Passed(sent \o (<<TcpData(id, d)>> \o <<TcpClose(id)>>), i)
          = Passed(sent, i) \o (IF i = id THEN d ELSE <<>>)
    BY <1>1, <1>2, <2>3, PassedDataClose, ZenonT(60)
  <2> QED
    BY <2>1, <2>2, <2>3, <2>4, <2>5, <2>6, <2>7, <2>8
<1>3. SUFFICES ASSUME NEW i \in ConnId
               PROVE  \/ Passed(sent', i) = Passed(sent, i)
                      \/ /\ Took(p, i)
                         /\ Passed(sent', i) = Passed(sent, i) \o p.payload
  BY <1>2
<1>4. CASE Created(p)
  BY <1>2, <1>4 DEF Created, Sends
<1>5. CASE FinTaken(p, c)
  <2>1. p.key \in DOMAIN tcp_by_key /\ c.state = "Established"
    BY <1>5 DEF FinTaken, Updated
  <2>2. CASE sent' = sent \o <<TcpClose(c.id)>>
    BY <1>1, <1>2, <2>1, <2>2
  <2>3. CASE sent' = sent \o (<<TcpData(c.id, p.payload)>> \o <<TcpClose(c.id)>>) /\ p.payload # <<>>
    <3>1. Passed(sent', i) = Passed(sent, i) \o (IF i = c.id THEN p.payload ELSE <<>>)
      BY <1>1, <1>2, <2>1, <2>3
    <3>2. CASE i = c.id
      BY <1>5, <2>1, <2>3, <3>1, <3>2 DEF Took
    <3>3. CASE i # c.id
      BY <1>1, <1>2, <2>1, <3>1, <3>3
    <3> QED
      BY <3>2, <3>3
  <2> QED
    BY <1>5, <2>2, <2>3 DEF FinTaken, Sends
<1>6. CASE DataTaken(p, c)
  <2>1. p.key \in DOMAIN tcp_by_key /\ c.state = "Established" /\ p.payload # <<>>
    BY <1>6 DEF DataTaken, Updated
  <2>2. CASE sent' = sent \o <<>>
    BY <1>1, <1>2, <2>1, <2>2
  <2>3. CASE sent' = sent \o <<TcpData(c.id, p.payload)>> /\ p.seq = c.ack
    <3>1. Passed(sent', i) = Passed(sent, i) \o (IF i = c.id THEN p.payload ELSE <<>>)
      BY <1>1, <1>2, <2>1, <2>3
    <3>2. CASE i = c.id
      BY <1>6, <2>1, <2>3, <3>1, <3>2 DEF Took
    <3>3. CASE i # c.id
      BY <1>1, <1>2, <2>1, <3>1, <3>3
    <3> QED
      BY <3>2, <3>3
  <2> QED
    BY <1>6, <2>2, <2>3 DEF DataTaken, Sends
<1>7. CASE FinAnswered(p, c) \/ Passes(p, c)
  BY <1>2, <1>3, <1>7 DEF FinAnswered, Passes, Sends
<1>8. CASE GivenUp(p, c)
  <2>1. p.key \in DOMAIN tcp_by_key
    BY <1>8 DEF GivenUp, Removed
  <2> QED
    BY <1>1, <1>2, <1>8, <2>1, ZenonT(60) DEF GivenUp, Sends
<1> QED
  BY <1>4, <1>5, <1>6, <1>7, <1>8 DEF Reacts

(* A packet that is read.                                                   *)
LEMMA HeadPacket ==
  ASSUME TypeInv, from_tun # <<>>, from_tun' = Tail(from_tun)
  PROVE  /\ Head(from_tun) \in TcpPacketInfo /\ 1 \in DOMAIN from_tun
         /\ Head(from_tun) = from_tun[1]
         /\ \A n \in DOMAIN from_tun' : /\ n \in Nat /\ n + 1 \in DOMAIN from_tun
                                        /\ from_tun'[n] = from_tun[n + 1]
         /\ \A n \in DOMAIN from_tun : n # 1 => n - 1 \in DOMAIN from_tun' /\ n \in Nat
<1>1. from_tun \in Seq(TcpPacketInfo)
  BY UpTypes
<1> DEFINE r == Tail(from_tun)
<1>2. /\ DOMAIN r = 1..Len(r) /\ DOMAIN from_tun = 1..Len(from_tun)
      /\ Len(r) = Len(from_tun) - 1 /\ Len(from_tun) \in Nat
  BY <1>1, HeadTail
<1>3. \A n \in DOMAIN from_tun : n # 1 => n - 1 \in DOMAIN r /\ n \in Nat
  BY <1>2
<1> QED
  BY <1>1, <1>3, HeadTail

(* The host reads a packet: what it adds to the acknowledgment number is    *)
(* what it passes on (mod.rs:335-409).                                      *)
LEMMA AcksReads ==
  ASSUME TypeInv, TypeInv', AcksInv, HostReads
  PROVE  AcksInv'
<1>0. PICK p : p = Head(from_tun)
  OBVIOUS
<1> DEFINE c == tcp_by_key[p.key]
<1>1. /\ from_tun # <<>> /\ from_tun' = Tail(from_tun) /\ HandleOutboundTcp(p) /\ Recorded
      /\ UNCHANGED app /\ loop = "running"
  BY <1>0 DEF HostReads, HandleOutboundTcp, Recorded
<1>2. /\ p \in TcpPacketInfo /\ p = from_tun[1] /\ 1 \in DOMAIN from_tun
      /\ \A n \in DOMAIN from_tun' : \E m \in DOMAIN from_tun : from_tun'[n] = from_tun[m]
  BY <1>0, <1>1, HeadPacket
<1>3. SegmentsInv /\ IdleInv /\ NothingYet /\ AckInv
  BY DEF AcksInv
<1>4. SegmentsInv' /\ IdleInv'
  BY <1>1, <1>2, <1>3, SegmentsKept
<1>5. /\ "syn" \in p.flags => p.seq = 0
      /\ p.payload # <<>> => Carries(p)
  BY <1>2, <1>3 DEF SegmentsInv
<1>6. CASE UNCHANGED <<to_remote, sent, to_tun>> /\ loop' = "blocked"
  BY <1>4, <1>6 DEF AcksInv, NothingYet, AckInv
<1>7. CASE Reacts(p)
  <2>1. /\ DOMAIN tcp_by_key \subseteq TcpKey /\ KeysResolve /\ next_id \in Nat
        /\ \A k \in DOMAIN tcp_by_key : /\ tcp_by_key[k].id \in ConnId /\ tcp_by_key[k].ack \in Nat
                                        /\ tcp_by_key[k].id < next_id
        /\ \A k \in TcpKey : app[k].sent \in 0..MaxSent /\ app[k].sent \in Nat
        /\ MaxSent \in Nat /\ SeqSpace \in Nat /\ MaxSent + 3 < SeqSpace
    BY UpTypes
  <2>2. \A i \in ConnId : /\ Passed(sent, i) \in Seq(Byte)
                          /\ \/ Passed(sent', i) = Passed(sent, i)
                             \/ /\ Took(p, i)
                                /\ Passed(sent', i) = Passed(sent, i) \o p.payload
    BY <1>2, <1>7, ReactsPasses
  <2>3. p.key \in TcpKey /\ p.seq \in SeqNum
    BY <1>2 DEF TcpPacketInfo
  <2>4. p.payload # <<>> => /\ p.seq \in 1..app[p.key].sent /\ Len(p.payload) = 1
                            /\ p.seq \in Nat
                            /\ WrappingAdd(p.seq, Len(p.payload)) = p.seq + 1
    <3>1. SUFFICES ASSUME p.payload # <<>>
                   PROVE  /\ p.seq \in 1..app[p.key].sent /\ Len(p.payload) = 1
                          /\ p.seq \in Nat
                          /\ WrappingAdd(p.seq, Len(p.payload)) = p.seq + 1
      OBVIOUS
    <3>2. p.seq \in 1..app[p.key].sent /\ Len(p.payload) = 1
      BY <1>5, <3>1 DEF Carries
    <3>3. p.seq \in Nat /\ p.seq + 1 \in 0..(SeqSpace - 1)
      BY <2>1, <2>3, <3>2
    <3>4. (p.seq + 1) % SeqSpace = p.seq + 1
      BY <2>1, <3>3
    <3> QED
      BY <3>2, <3>3, <3>4 DEF WrappingAdd
  <2>5. \A j, k \in DOMAIN tcp_by_key : j # k => tcp_by_key[j].id # tcp_by_key[k].id
    BY <2>1 DEF KeysResolve
  <2>6. \A k \in DOMAIN tcp_by_key : Acks(k)
    BY <1>1, <1>3 DEF AckInv
  <2>7. /\ \A k \in DOMAIN tcp_by_key' \ {p.key} :
             k \in DOMAIN tcp_by_key /\ tcp_by_key'[k] = tcp_by_key[k]
        /\ next_id' \in {next_id, next_id + 1}
    BY <1>7 DEF Reacts, Created, FinTaken, DataTaken, FinAnswered, GivenUp, Passes,
                Added, Updated, Removed, Others
  <2>8. ASSUME NEW k \in DOMAIN tcp_by_key' \ {p.key} PROVE Acks(k)'
    <3>1. k \in DOMAIN tcp_by_key /\ tcp_by_key'[k] = tcp_by_key[k] /\ Acks(k)
      BY <2>6, <2>7, <2>8
    <3>2. ~Took(p, tcp_by_key[k].id)
      BY <2>5, <2>8, <3>1 DEF Took
    <3>3. Passed(sent', tcp_by_key[k].id) = Passed(sent, tcp_by_key[k].id)
      BY <2>1, <2>2, <3>1, <3>2
    <3> QED
      BY <1>1, <3>1, <3>3 DEF Acks
  <2>9. NothingYet'
    <3>1. ASSUME NEW i \in ConnId, i >= next_id' PROVE Passed(sent', i) = <<>>
      <4>1. i >= next_id /\ i \in Nat
        BY <2>1, <2>7, <3>1, NatAssumption DEF ConnId
      <4>2. ~Took(p, i)
        BY <2>1, <4>1 DEF Took
      <4> QED
        BY <1>1, <1>3, <2>2, <4>1, <4>2 DEF NothingYet
    <3> QED
      BY <3>1 DEF NothingYet
  <2>10. ASSUME p.key \in DOMAIN tcp_by_key' PROVE Acks(p.key)'
    <3>1. CASE Created(p)
      <4> DEFINE w == WrappingAdd(p.seq, 1)
                 r == [id |-> next_id, state |-> "SynSent", seq |-> HostIsn, ack |-> w]
      <4>1. next_id \in ConnId /\ tcp_by_key'[p.key] = r /\ p.seq = 0
        BY <1>5, <3>1 DEF Created, Added
      <4>2. w = 1
        BY <2>1, <4>1 DEF WrappingAdd
      <4>3. ~Took(p, next_id)
        BY <2>1 DEF Took
      <4>4. Passed(sent, next_id) = <<>>
        BY <1>1, <1>3, <2>1, <4>1 DEF NothingYet
      <4>5. Passed(sent', next_id) = <<>>
        BY <2>2, <4>1, <4>3, <4>4
      <4> HIDE DEF w
      <4>6. tcp_by_key'[p.key].id = next_id /\ tcp_by_key'[p.key].ack = 1
        BY <4>1, <4>2
      <4>7. 1 <= app[p.key].sent + 1
        BY <2>1, <2>3
      <4> QED
        BY <1>1, <4>5, <4>6, <4>7 DEF Acks
    <3>2. CASE FinTaken(p, c)
      BY <3>2 DEF FinTaken, Updated, Acks
    <3>3. CASE DataTaken(p, c)
      <4>1. /\ p.key \in DOMAIN tcp_by_key /\ c.state = "Established" /\ p.payload # <<>>
            /\ Acks(p.key)
        BY <2>6, <3>3 DEF DataTaken, Updated
      <4>2. c.ack = Len(Passed(sent, c.id)) + 1 /\ c.ack <= app[p.key].sent + 1
        BY <4>1 DEF Acks
      <4>3. CASE p.seq = c.ack
        <5> DEFINE w == WrappingAdd(p.seq, Len(p.payload))
        <5>1. /\ tcp_by_key'[p.key] = [id |-> c.id, state |-> c.state, seq |-> c.seq, ack |-> w]
              /\ sent' = sent \o <<TcpData(c.id, p.payload)>>
          BY <3>3, <4>3 DEF DataTaken, Updated, Sends
        <5>2. w = p.seq + 1 /\ Len(p.payload) = 1 /\ p.seq \in 1..app[p.key].sent
          BY <2>4, <4>1
        <5>3. sent \in Seq(HostMessage) /\ p.payload \in Payload /\ c.id \in ConnId
          BY <1>2, <2>1, <4>1, UpTypes DEF TcpPacketInfo
        <5> HIDE DEF w
        <5>4. tcp_by_key'[p.key].id = c.id /\ tcp_by_key'[p.key].ack = p.seq + 1
          BY <5>1, <5>2
        <5>5. Passed(sent', c.id) = Passed(sent, c.id) \o p.payload
          BY <5>1, <5>3, PassedData
        <5>6. p.payload \in Seq(Byte) /\ Passed(sent, c.id) \in Seq(Byte)
          BY <2>2, <5>3, PayloadType
        <5>7. Len(Passed(sent', c.id)) = Len(Passed(sent, c.id)) + 1
          <6> DEFINE u == Passed(sent, c.id)
                     v == Passed(sent', c.id)
                     d == p.payload
          <6>1. u \in Seq(Byte) /\ d \in Seq(Byte) /\ v = u \o d /\ Len(d) = 1
            BY <5>2, <5>5, <5>6
          <6> HIDE DEF u, v, d
          <6>2. Len(u \o d) = Len(u) + Len(d)
            BY <6>1, Concatenated
          <6>3. Len(v) = Len(u) + 1
            BY <6>1, <6>2
          <6> QED
            BY <6>3 DEF u, v
        <5>8. p.seq + 1 = Len(Passed(sent', c.id)) + 1 /\ p.seq + 1 <= app[p.key].sent + 1
          <6>1. p.seq \in Nat /\ app[p.key].sent \in Nat
            BY <2>1, <2>3, <2>4, <4>1
          <6> QED
            BY <4>2, <4>3, <5>2, <5>7, <6>1
        <5> QED
          BY <1>1, <5>4, <5>8 DEF Acks
      <4>4. CASE p.seq # c.ack
        <5>1. tcp_by_key'[p.key] = c /\ sent' = sent \o <<>>
          BY <3>3, <4>4 DEF DataTaken, Updated, Sends
        <5>2. sent' = sent
          BY <5>1, UpTypes
        <5> QED
          BY <1>1, <4>2, <5>1, <5>2 DEF Acks
      <4> QED
        BY <4>3, <4>4
    <3>3a. CASE FinAnswered(p, c) \/ GivenUp(p, c)
      BY <2>10, <3>3a DEF FinAnswered, GivenUp, Removed
    <3>4. CASE Passes(p, c)
      <4>1. tcp_by_key' = tcp_by_key /\ sent' = sent \o <<>>
        BY <3>4 DEF Passes, Sends
      <4>2. sent' = sent
        BY <4>1, UpTypes
      <4> QED
        BY <1>1, <2>6, <2>10, <4>1, <4>2 DEF Acks
    <3> QED
      BY <1>7, <3>1, <3>2, <3>3, <3>3a, <3>4 DEF Reacts
  <2>11. AckInv'
    BY <2>8, <2>10 DEF AckInv
  <2> QED
    BY <1>4, <2>9, <2>11 DEF AcksInv
<1>8. Reacts(p) \/ (UNCHANGED <<to_remote, sent, to_tun>> /\ loop' = "blocked")
  <2>1. IInv /\ sent \in Seq(HostMessage)
    BY UpTypes DEF TypeInv
  <2> QED
    BY <1>1, <1>2, <2>1, HostReacts
<1> QED
  BY <1>6, <1>7, <1>8

(* A message that is taken leaves every entry as it was, but for its        *)
(* sequence number and its state; the one it opens was connecting.          *)
LEMMA TakesKeepsAcks ==
  ASSUME ProtocolInv, HostTakes
  PROVE  /\ UNCHANGED <<app, from_tun, sent, to_remote>>
         /\ loop = "running"
         /\ \/ loop' = "blocked"
            \/ /\ next_id' = next_id
               /\ \A k \in DOMAIN tcp_by_key' :
                    LET c == tcp_by_key[k]
                        d == tcp_by_key'[k]
                    IN  /\ k \in DOMAIN tcp_by_key /\ d.id = c.id /\ d.ack = c.ack
                        /\ d.state = "SynSent" => c.state = "SynSent"
                        /\ d.state = "Established" => c.state \in {"SynSent", "Established"}
<1>1. /\ responses # <<>> /\ HandleRemoteMessage(Head(responses))
      /\ UNCHANGED <<app, from_tun, sent>> /\ loop = "running"
  BY DEF HostTakes, R!WriteResponse, HandleRemoteMessage
<1>2. /\ TypeInv /\ IdsResolve /\ ResponsesInv /\ IInv
      /\ responses \in Seq(RemoteMessage)
  BY DEF ProtocolInv, ProtoInv, TypeInv, RemoteInv
<1>3. PICK m \in RemoteMessage : m = Head(responses) /\ m = responses[1] /\ 1 \in DOMAIN responses
  BY <1>1, <1>2, HeadTail
<1>4. m.type = "TcpConnected" =>
        \A k \in DOMAIN tcp_by_key : tcp_by_key[k].id = m.id => tcp_by_key[k].state = "SynSent"
  BY <1>2, <1>3 DEF ResponsesInv, SynSent
<1>5. /\ UNCHANGED to_remote
      /\ \/ Answers(m)
         \/ UNCHANGED <<tcp_by_key, next_id, to_tun>> /\ m.id \notin DOMAIN tcp_by_id
         \/ UNCHANGED to_tun /\ loop' = "blocked"
  BY <1>1, <1>2, <1>3, HostAnswers
<1>6. CASE Answers(m)
  <2>1. PICK key \in DOMAIN tcp_by_key :
          LET c == tcp_by_key[key]
          IN  /\ c.id = m.id
              /\ \/ Opened(m, key, c) \/ Relayed(m, key, c) \/ Finished(m, key, c)
                 \/ Forgotten(m, key, c) \/ Refused(m, key)
    BY <1>6 DEF Answers
  <2> DEFINE c == tcp_by_key[key]
  <2>2. CASE Opened(m, key, c) \/ Relayed(m, key, c) \/ Finished(m, key, c)
    <3>1. /\ DOMAIN tcp_by_key' = DOMAIN tcp_by_key /\ next_id' = next_id /\ Others(key)
          /\ tcp_by_key'[key].id = c.id /\ tcp_by_key'[key].ack = c.ack
          /\ tcp_by_key'[key].state = "SynSent" => c.state = "SynSent"
          /\ tcp_by_key'[key].state = "Established" => c.state \in {"SynSent", "Established"}
      BY <1>4, <2>1, <2>2 DEF Opened, Relayed, Finished, Updated
    <3> QED
      BY <1>1, <1>5, <2>1, <3>1 DEF Others
  <2>3. CASE Forgotten(m, key, c) \/ Refused(m, key)
    <3>1. /\ DOMAIN tcp_by_key' = DOMAIN tcp_by_key \ {key} /\ next_id' = next_id /\ Others(key)
      BY <2>3 DEF Forgotten, Refused, Removed
    <3> QED
      BY <1>1, <1>5, <3>1 DEF Others
  <2> QED
    BY <2>1, <2>2, <2>3
<1> QED
  BY <1>1, <1>5, <1>6

(* So a message of the remote keeps it.                                     *)
LEMMA AcksTakes ==
  ASSUME ProtocolInv, AcksInv, HostTakes
  PROVE  AcksInv'
<1>1. SegmentsInv /\ IdleInv /\ NothingYet /\ AckInv
  BY DEF AcksInv
<1>2. UNCHANGED <<app, from_tun, sent>> /\ loop = "running"
  BY TakesKeepsAcks
<1>3. SegmentsInv' /\ IdleInv'
  BY <1>1, <1>2 DEF SegmentsInv, IdleInv, Carries
<1>4. CASE loop' = "blocked"
  BY <1>3, <1>4 DEF AcksInv, NothingYet, AckInv
<1>5. CASE loop' # "blocked"
  <2>1. NothingYet'
    BY <1>1, <1>2, <1>5, TakesKeepsAcks DEF NothingYet
  <2>2. ASSUME NEW k \in DOMAIN tcp_by_key' PROVE Acks(k)'
    <3>1. LET c == tcp_by_key[k]
              d == tcp_by_key'[k]
          IN  /\ k \in DOMAIN tcp_by_key /\ d.id = c.id /\ d.ack = c.ack
              /\ d.state \in {"SynSent", "Established"} => c.state \in {"SynSent", "Established"}
      BY <1>5, <2>2, TakesKeepsAcks
    <3>2. Acks(k)
      BY <1>1, <1>2, <3>1 DEF AckInv
    <3> QED
      BY <1>2, <3>1, <3>2 DEF Acks
  <2> QED
    BY <1>3, <2>1, <2>2 DEF AcksInv, AckInv
<1> QED
  BY <1>4, <1>5

(* The other steps do not touch what it speaks of.                          *)
LEMMA AcksQuiet ==
  ASSUME AcksInv, UNCHANGED <<tcp_by_key, next_id, loop, app, from_tun, sent>>
  PROVE  AcksInv'
  BY DEF AcksInv, SegmentsInv, IdleInv, NothingYet, AckInv, Acks, Carries

RemoteStep ==
  \/ RemoteTakes
  \/ LoopResumes
  \/ \E i \in ConnId :
       RemoteRuns(i) \/ DestAnswers(i) \/ DestSends(i) \/ DestEnds(i) \/ DestAccepts(i)

(* What the steps of each part leave alone.                                 *)
LEMMA StepKinds ==
  ASSUME TypeInv, [TunnelNext]_tunnelVars
  PROVE  \/ \E k \in TcpKey : /\ AppMoves(k)
                              /\ UNCHANGED <<tcp_by_key, next_id, loop, sent, to_remote>>
         \/ TunDrops
         \/ HostReads
         \/ HostTakes
         \/ RemoteStep /\ UNCHANGED <<tcp_by_key, next_id, loop, app, from_tun, sent>>
         \/ UNCHANGED tunnelVars
<1>1. ASSUME NEW k \in TcpKey,
             \/ AppConnects(k) \/ AppSends(k) \/ AppCloses(k) \/ AppSendsAndCloses(k)
             \/ AppResets(k) \/ AppRetransmits(k)
      PROVE  AppMoves(k) /\ UNCHANGED <<tcp_by_key, next_id, loop, sent, to_remote>>
  <2>1. AppMoves(k)
    BY <1>1, AppActsMoves
  <2>2. AppOnly
    BY <1>1 DEF AppConnects, AppSends, AppCloses, AppSendsAndCloses, AppResets, AppRetransmits
  <2> QED
    BY <2>1, <2>2 DEF AppOnly, hostVars, natVars
<1>2. ASSUME AppReceives
      PROVE  \E k \in TcpKey : AppMoves(k) /\ UNCHANGED <<tcp_by_key, next_id, loop, sent, to_remote>>
  BY <1>2, AppReceivesMoves DEF AppReceives, WriteToTun, natVars
<1>3. RemoteTakes => UNCHANGED <<tcp_by_key, next_id, loop, app, from_tun, sent>>
  BY DEF RemoteTakes, SendToRemote, natVars
<1>4. (\/ LoopResumes
       \/ \E i \in ConnId :
            RemoteRuns(i) \/ DestAnswers(i) \/ DestSends(i) \/ DestEnds(i) \/ DestAccepts(i))
      => UNCHANGED <<tcp_by_key, next_id, loop, app, from_tun, sent>>
  BY DEF LoopResumes, RemoteRuns, DestAnswers, DestSends, DestEnds, DestAccepts, RemoteOnly,
         hostVars, natVars
<1> QED
  BY <1>1, <1>2, <1>3, <1>4 DEF TunnelNext, AppNext, RemoteNext, RemoteStep

(* Every step keeps it.                                                     *)
LEMMA NextAcksInv ==
  ASSUME ProtocolInv, TypeInv', AcksInv, [TunnelNext]_tunnelVars
  PROVE  AcksInv'
<1>1. TypeInv
  BY DEF ProtocolInv
<1>2. CASE TunDrops
  <2>1. /\ from_tun \in Seq(TcpPacketInfo) /\ from_tun # <<>>
        /\ from_tun' = SubSeq(from_tun, 1, Len(from_tun) - 1)
        /\ UNCHANGED <<tcp_by_key, next_id, loop, app, sent>>
    BY <1>1, <1>2, UpTypes DEF TunDrops, hostVars, natVars
  <2>2. \A n \in DOMAIN from_tun' : \E m \in DOMAIN from_tun : from_tun'[n] = from_tun[m]
    BY <2>1
  <2>3. SegmentsInv' /\ IdleInv'
    BY <2>1, <2>2, SegmentsKept DEF AcksInv
  <2> QED
    BY <2>1, <2>3 DEF AcksInv, NothingYet, AckInv, Acks
<1> QED
  BY <1>1, <1>2, StepKinds, AcksMoves, AcksReads, AcksTakes, AcksQuiet
  DEF tunnelVars, hostVars, natVars

(* It holds at the start.                                                   *)
LEMMA InitAcksInv ==
  ASSUME TunnelInit
  PROVE  AcksInv
<1>1. from_tun = <<>> /\ sent = <<>> /\ tcp_by_key = [k \in {} |-> {}]
      /\ \A k \in TcpKey : app[k].sent = 0
  BY DEF TunnelInit, HostInit, NatInit
<1>2. SegmentsInv /\ IdleInv /\ AckInv
  BY <1>1 DEF SegmentsInv, IdleInv, AckInv
<1>3. NothingYet
  BY <1>1, PassedNothing DEF NothingYet
<1> QED
  BY <1>2, <1>3 DEF AcksInv

(* While a connection is established the acknowledgment number the host     *)
(* advertises covers exactly the bytes it has forwarded (mod.rs:370-407),   *)
(* whatever is retransmitted or dropped.                                    *)
THEOREM OneSynAcks ==
  ASSUME MaxSyns = 1
  PROVE  TunnelSpec => []AcksWhatItForwards
<1>1. TunnelInit => ProtocolInv /\ AcksInv
  BY InitProtocolInv, InitAcksInv
<1>2. ProtocolInv /\ AcksInv /\ [TunnelNext]_tunnelVars => (ProtocolInv /\ AcksInv)'
  <2>1. ASSUME ProtocolInv, AcksInv, [TunnelNext]_tunnelVars PROVE ProtocolInv' /\ AcksInv'
    <3>1. ProtocolInv'
      BY <2>1, NextProtocolInv
    <3>2. TypeInv'
      BY <3>1 DEF ProtocolInv
    <3> QED
      BY <2>1, <3>1, <3>2, NextAcksInv
  <2> QED
    BY <2>1
<1>3. ProtocolInv /\ AcksInv => AcksWhatItForwards
  BY ForwardedPassed DEF AcksInv, AckInv, Acks, AcksWhatItForwards
<1> QED
  BY <1>1, <1>2, <1>3, PTL DEF TunnelSpec

-----------------------------------------------------------------------------
(* When the TUN queue drops nothing, bytes are passed on in their order.    *)

(* The packet at n in the TUN queue carries a byte of k.                    *)
Bears(n, k) == from_tun[n].key = k /\ from_tun[n].payload # <<>>

(* Every byte the host still waits for is on its way; a segment that is     *)
(* ahead of it comes after its predecessor; and a segment with the FIN      *)
(* comes after everything it follows.                                       *)
Coming(k, ack) ==
  \A s \in ack..app[k].sent : \E n \in DOMAIN from_tun : Bears(n, k) /\ from_tun[n].seq = s

Preceded(k, ack) ==
  \A n \in DOMAIN from_tun : Bears(n, k) /\ from_tun[n].seq > ack =>
    \E m \in DOMAIN from_tun : m < n /\ Bears(m, k) /\ from_tun[m].seq = from_tun[n].seq - 1

FinLast(k, ack) ==
  \A n \in DOMAIN from_tun : Bears(n, k) /\ "fin" \in from_tun[n].flags =>
    /\ from_tun[n].seq >= ack
    /\ \A m \in DOMAIN from_tun : m < n /\ Bears(m, k) => from_tun[m].seq < from_tun[n].seq

Queued(k, ack) == Coming(k, ack) /\ Preceded(k, ack) /\ FinLast(k, ack)

QueueInv ==
  loop = "running" => \A k \in DOMAIN tcp_by_key :
    tcp_by_key[k].state = "Established" => Queued(k, tcp_by_key[k].ack)

OrderInv ==
  \A i \in ConnId : \A n \in DOMAIN Passed(sent, i) : Passed(sent, i)[n] = UpByte(n)

(* A segment more.                                                          *)
LEMMA QueuedMoves ==
  ASSUME TypeInv, AcksInv, NEW k \in TcpKey, AppMoves(k),
         NEW j \in TcpKey, NEW ack \in Nat, ack <= app[j].sent + 1, Queued(j, ack)
  PROVE  Queued(j, ack)'
<1>1. /\ from_tun \in Seq(TcpPacketInfo)
      /\ \A i \in TcpKey : app[i].sent \in Nat
      /\ \A n \in DOMAIN from_tun : n \in Nat
      /\ \A n \in DOMAIN from_tun : from_tun[n].key \in TcpKey
  BY UpTypes, KeysOfType
<1>2. /\ Coming(j, ack) /\ Preceded(j, ack) /\ FinLast(j, ack)
  BY DEF Queued
<1>3. \A n \in DOMAIN from_tun : Bears(n, j) => from_tun[n].seq \in 1..app[j].sent
  BY <1>1 DEF AcksInv, SegmentsInv, Carries, Bears
<1>4. CASE UNCHANGED from_tun /\ app'[j].sent = app[j].sent
  BY <1>2, <1>4 DEF Queued, Coming, Preceded, FinLast, Bears
<1>5. ASSUME NEW x, Queues(x), x.key = j /\ x.payload # <<>> =>
                                 /\ x.seq \in 1..(app[j].sent + 1)
                                 /\ "fin" \in x.flags => x.seq = app[j].sent + 1,
             \/ app'[j].sent = app[j].sent
             \/ /\ app'[j].sent = app[j].sent + 1
                /\ x.key = j /\ x.payload # <<>> /\ x.seq = app[j].sent + 1
      PROVE  Queued(j, ack)'
  <2> DEFINE q == from_tun'
             N == Len(from_tun) + 1
  <2>1. /\ Len(from_tun) \in Nat /\ N \in Nat /\ DOMAIN from_tun = 1..Len(from_tun)
        /\ DOMAIN q = 1..N /\ q[N] = x /\ N \in DOMAIN q
        /\ \A n \in DOMAIN from_tun : n \in DOMAIN q /\ q[n] = from_tun[n] /\ n < N /\ n \in Nat
        /\ \A n \in DOMAIN q : n = N \/ n \in DOMAIN from_tun
    BY <1>1, <1>5, QueuedPackets
  <2> HIDE DEF N, q
  <2> DEFINE B(n) == q[n].key = j /\ q[n].payload # <<>>
  <2>2. \A n \in DOMAIN from_tun : B(n) <=> Bears(n, j)
    BY <2>1 DEF Bears
  <2>3. B(N) => x.key = j /\ x.payload # <<>>
    BY <2>1
  <2>4. ASSUME NEW s \in ack..app'[j].sent
        PROVE  \E n \in DOMAIN q : B(n) /\ q[n].seq = s
    <3>1. CASE s \in ack..app[j].sent
      BY <1>2, <2>1, <2>2, <3>1 DEF Coming
    <3>2. CASE s = app[j].sent + 1 /\ x.key = j /\ x.payload # <<>> /\ x.seq = app[j].sent + 1
      BY <2>1, <3>2
    <3> QED
      BY <1>1, <1>5, <2>4, <3>1, <3>2
  <2>5. ASSUME NEW n \in DOMAIN q, B(n), q[n].seq > ack
        PROVE  \E m \in DOMAIN q : m < n /\ B(m) /\ q[m].seq = q[n].seq - 1
    <3>1. CASE n \in DOMAIN from_tun
      <4>1. PICK m \in DOMAIN from_tun : m < n /\ Bears(m, j) /\ from_tun[m].seq = from_tun[n].seq - 1
        BY <1>2, <2>1, <2>2, <2>5, <3>1 DEF Preceded
      <4> QED
        BY <2>1, <2>2, <3>1, <4>1
    <3>2. CASE n = N
      <4>1. x.seq \in 1..(app[j].sent + 1) /\ x.seq > ack
        BY <1>5, <2>1, <2>3, <2>5, <3>2
      <4>2. x.seq - 1 \in ack..app[j].sent
        BY <1>1, <4>1
      <4>3. PICK m \in DOMAIN from_tun : Bears(m, j) /\ from_tun[m].seq = x.seq - 1
        BY <1>2, <4>2 DEF Coming
      <4> QED
        BY <2>1, <2>2, <3>2, <4>3
    <3> QED
      BY <2>1, <3>1, <3>2
  <2>6. ASSUME NEW n \in DOMAIN q, B(n), "fin" \in q[n].flags
        PROVE  /\ q[n].seq >= ack
               /\ \A m \in DOMAIN q : m < n /\ B(m) => q[m].seq < q[n].seq
    <3>1. CASE n \in DOMAIN from_tun
      <4>1. ASSUME NEW m \in DOMAIN q, m < n PROVE m \in DOMAIN from_tun
        BY <2>1, <3>1, <4>1
      <4>2. /\ from_tun[n].seq >= ack
            /\ \A m \in DOMAIN from_tun : m < n /\ Bears(m, j) => from_tun[m].seq < from_tun[n].seq
        BY <1>2, <2>1, <2>2, <2>6, <3>1 DEF FinLast
      <4> QED
        BY <2>1, <2>2, <3>1, <4>1, <4>2
    <3>2. CASE n = N
      <4>1. x.seq = app[j].sent + 1
        BY <1>5, <2>1, <2>3, <2>6, <3>2
      <4>2. ASSUME NEW m \in DOMAIN q, m < n, B(m) PROVE q[m].seq < x.seq
        <5>1. m \in DOMAIN from_tun /\ Bears(m, j) /\ q[m] = from_tun[m]
          BY <2>1, <2>2, <3>2, <4>2
        <5> QED
          BY <1>1, <1>3, <4>1, <5>1
      <4> QED
        BY <1>1, <2>1, <3>2, <4>1, <4>2
    <3> QED
      BY <2>1, <3>1, <3>2
  <2>7. Coming(j, ack)'
    BY <2>4 DEF Coming, Bears, q
  <2>8. Preceded(j, ack)'
    BY <2>5 DEF Preceded, Bears, q
  <2>9. FinLast(j, ack)'
    BY <2>6 DEF FinLast, Bears, q
  <2> QED
    BY <2>7, <2>8, <2>9 DEF Queued
<1>6. CASE j # k
  <2>1. app'[j].sent = app[j].sent
    BY <1>6 DEF AppMoves
  <2>2. \/ UNCHANGED from_tun
        \/ \E x : Queues(x) /\ x.key = k
    BY DEF AppMoves
  <2> QED
    BY <1>4, <1>5, <1>6, <2>1, <2>2
<1>7. CASE j = k
  <2>1. CASE app'[k].sent = app[k].sent /\ UNCHANGED from_tun
    BY <1>4, <1>7, <2>1
  <2>2. CASE app'[k].sent = app[k].sent /\ \E x : Queues(x) /\ x.payload = <<>>
    BY <1>5, <1>7, <2>2
  <2>3. ASSUME NEW x, Queues(x), x.key = k, x.payload = <<UpByte(x.seq)>>,
               \/ x.seq = app[k].sent + 1 /\ app'[k].sent = app[k].sent + 1
               \/ /\ x.seq \in 1..app[k].sent /\ app'[k].sent = app[k].sent
                  /\ "fin" \notin x.flags
        PROVE  Queued(j, ack)'
    <3>1. x.payload # <<>>
      BY <2>3
    <3>2. x.seq \in 1..(app[j].sent + 1)
      BY <1>1, <1>7, <2>3
    <3> QED
      BY <1>5, <1>7, <2>3, <3>1, <3>2
  <2> QED
    BY <2>1, <2>2, <2>3 DEF AppMoves
<1> QED
  BY <1>6, <1>7

(* The first segment is read: it carries the byte the host waits for, or    *)
(* nothing the host still waits for.                                        *)
LEMMA QueuedReads ==
  ASSUME TypeInv, from_tun # <<>>, from_tun' = Tail(from_tun), UNCHANGED app,
         NEW k \in TcpKey, NEW ack \in Nat, Queued(k, ack), SegmentsInv
  PROVE  /\ ~Bears(1, k) => Queued(k, ack)'
         /\ Bears(1, k) /\ from_tun[1].seq = ack => Queued(k, ack + 1)'
         /\ Bears(1, k) /\ from_tun[1].seq # ack => Queued(k, ack)'
         /\ Bears(1, k) /\ "fin" \in from_tun[1].flags => from_tun[1].seq = ack
<1> DEFINE q == from_tun'
<1>1. /\ 1 \in DOMAIN from_tun
      /\ \A n \in DOMAIN q : /\ n \in Nat /\ n + 1 \in DOMAIN from_tun
                             /\ q[n] = from_tun[n + 1]
      /\ \A n \in DOMAIN from_tun : n # 1 => n - 1 \in DOMAIN q /\ n \in Nat
  BY HeadPacket
<1>2. /\ Coming(k, ack) /\ Preceded(k, ack) /\ FinLast(k, ack)
      /\ \A n \in DOMAIN from_tun : n \in Nat /\ n >= 1
  BY UpTypes DEF Queued
<1>3. \A n \in DOMAIN from_tun : Bears(n, k) => from_tun[n].seq \in Nat
  BY UpTypes DEF SegmentsInv, Carries, Bears
<1>12. \A n \in DOMAIN q : n >= 1
  <2>1. from_tun \in Seq(TcpPacketInfo)
    BY UpTypes
  <2> QED
    BY <2>1
<1> HIDE DEF q
<1> DEFINE B(n) == q[n].key = k /\ q[n].payload # <<>>
<1>4. \A n \in DOMAIN q : B(n) <=> Bears(n + 1, k)
  BY <1>1 DEF Bears
<1>5. ASSUME NEW a \in {ack, ack + 1}, Bears(1, k) => from_tun[1].seq < a,
             \A n \in DOMAIN from_tun : Bears(n, k) /\ "fin" \in from_tun[n].flags /\ n # 1 =>
               from_tun[n].seq >= a
      PROVE  Queued(k, a)'
  <2>1. ASSUME NEW s \in a..app'[k].sent PROVE \E n \in DOMAIN q : B(n) /\ q[n].seq = s
    <3>1. s \in ack..app[k].sent /\ s >= a
      BY <1>5, <2>1, UpTypes
    <3>2. PICK n \in DOMAIN from_tun : Bears(n, k) /\ from_tun[n].seq = s
      BY <1>2, <3>1 DEF Coming
    <3>3. n # 1
      BY <1>5, <3>1, <3>2
    <3>4. n - 1 \in DOMAIN q /\ (n - 1) + 1 = n
      BY <1>1, <3>3
    <3>5. q[n - 1] = from_tun[n] /\ B(n - 1)
      BY <1>1, <1>4, <3>2, <3>4
    <3> QED
      BY <3>2, <3>4, <3>5
  <2>2. ASSUME NEW n \in DOMAIN q, B(n), q[n].seq > a
        PROVE  \E m \in DOMAIN q : m < n /\ B(m) /\ q[m].seq = q[n].seq - 1
    <3>1. n + 1 \in DOMAIN from_tun /\ Bears(n + 1, k) /\ from_tun[n + 1].seq > ack
          /\ from_tun[n + 1].seq \in Nat /\ q[n] = from_tun[n + 1]
      BY <1>1, <1>3, <1>4, <1>5, <2>2
    <3>2. PICK m \in DOMAIN from_tun :
            m < n + 1 /\ Bears(m, k) /\ from_tun[m].seq = from_tun[n + 1].seq - 1
      BY <1>2, <3>1 DEF Preceded
    <3>3. m # 1
      BY <1>5, <2>2, <3>1, <3>2
    <3>4. m - 1 \in DOMAIN q /\ (m - 1) + 1 = m /\ m - 1 < n
      BY <1>1, <1>2, <3>2, <3>3
    <3>5. q[m - 1] = from_tun[m] /\ B(m - 1)
      BY <1>1, <1>4, <3>2, <3>4
    <3> QED
      BY <3>1, <3>2, <3>4, <3>5
  <2>3. ASSUME NEW n \in DOMAIN q, B(n), "fin" \in q[n].flags
        PROVE  /\ q[n].seq >= a
               /\ \A m \in DOMAIN q : m < n /\ B(m) => q[m].seq < q[n].seq
    <3>1. n + 1 \in DOMAIN from_tun /\ Bears(n + 1, k) /\ q[n] = from_tun[n + 1] /\ n + 1 # 1
      <4>1. n + 1 \in DOMAIN from_tun /\ Bears(n + 1, k) /\ q[n] = from_tun[n + 1]
        BY <1>1, <1>4, <2>3
      <4>2. n \in Nat /\ n >= 1
        BY <1>1, <1>12
      <4> QED
        BY <4>1, <4>2
    <3>2. \A m \in DOMAIN from_tun : m < n + 1 /\ Bears(m, k) => from_tun[m].seq < from_tun[n + 1].seq
      BY <1>2, <2>3, <3>1 DEF FinLast
    <3>3. ASSUME NEW m \in DOMAIN q, m < n, B(m) PROVE q[m].seq < q[n].seq
      BY <1>1, <1>4, <3>1, <3>2, <3>3, SMTT(30)
    <3> QED
      BY <1>5, <2>3, <3>1, <3>3
  <2>4. Coming(k, a)'
    BY <2>1 DEF Coming, Bears, q
  <2>5. Preceded(k, a)'
    BY <2>2 DEF Preceded, Bears, q
  <2>6. FinLast(k, a)'
    BY <2>3 DEF FinLast, Bears, q
  <2> QED
    BY <2>4, <2>5, <2>6 DEF Queued
<1>6. Bears(1, k) => from_tun[1].seq <= ack /\ from_tun[1].seq \in Nat
  <2>1. SUFFICES ASSUME Bears(1, k), from_tun[1].seq > ack PROVE FALSE
    BY <1>1, <1>3
  <2>2. PICK m \in DOMAIN from_tun : m < 1
    BY <1>1, <1>2, <2>1 DEF Preceded
  <2> QED
    BY <1>2, <2>2
<1>7. \A n \in DOMAIN from_tun : Bears(n, k) /\ "fin" \in from_tun[n].flags => from_tun[n].seq >= ack
  BY <1>2 DEF FinLast
<1>8. ~Bears(1, k) => Queued(k, ack)'
  BY <1>5, <1>7
<1>9. Bears(1, k) /\ from_tun[1].seq # ack => Queued(k, ack)'
  <2>1. Bears(1, k) /\ from_tun[1].seq # ack => from_tun[1].seq < ack
    BY <1>6
  <2> QED
    BY <1>5, <1>7, <2>1
<1>10. Bears(1, k) /\ from_tun[1].seq = ack => Queued(k, ack + 1)'
  <2>1. SUFFICES ASSUME Bears(1, k), from_tun[1].seq = ack PROVE Queued(k, ack + 1)'
    OBVIOUS
  <2>2. ASSUME NEW n \in DOMAIN from_tun, Bears(n, k), "fin" \in from_tun[n].flags, n # 1
        PROVE  from_tun[n].seq >= ack + 1
    <3>1. 1 < n
      BY <1>2, <2>2
    <3>2. from_tun[1].seq < from_tun[n].seq /\ from_tun[n].seq \in Nat
      BY <1>1, <1>2, <1>3, <2>1, <2>2, <3>1 DEF FinLast
    <3> QED
      BY <2>1, <3>2
  <2> QED
    BY <1>5, <2>1, <2>2
<1>11. Bears(1, k) /\ "fin" \in from_tun[1].flags => from_tun[1].seq = ack
  BY <1>1, <1>6, <1>7
<1> QED
  BY <1>8, <1>9, <1>10, <1>11

(* A sequence and one item more.                                            *)
LEMMA ItemAdded ==
  ASSUME NEW S, NEW u \in Seq(S), NEW b \in S, NEW n \in DOMAIN (u \o <<b>>)
  PROVE  \/ n = Len(u) + 1 /\ (u \o <<b>>)[n] = b
         \/ n \in DOMAIN u /\ (u \o <<b>>)[n] = u[n]
  OBVIOUS

(* So what the host passes on is the next byte.                             *)
LEMMA QueueReads ==
  ASSUME TypeInv, AcksInv, QueueInv, OrderInv, HostReads
  PROVE  QueueInv' /\ OrderInv'
<1>0. PICK p : p = Head(from_tun)
  OBVIOUS
<1> DEFINE c == tcp_by_key[p.key]
<1>1. /\ from_tun # <<>> /\ from_tun' = Tail(from_tun) /\ HandleOutboundTcp(p) /\ Recorded
      /\ UNCHANGED app /\ loop = "running"
  BY <1>0 DEF HostReads, HandleOutboundTcp, Recorded
<1>2. p \in TcpPacketInfo /\ p = from_tun[1] /\ 1 \in DOMAIN from_tun
  BY <1>0, <1>1, HeadPacket
<1>3. SegmentsInv /\ IdleInv /\ NothingYet /\ AckInv
  BY DEF AcksInv
<1>4. p.payload # <<>> => p.seq \in 1..app[p.key].sent /\ p.payload = <<UpByte(p.seq)>>
  BY <1>2, <1>3 DEF SegmentsInv, Carries
<1>5. Bears(1, p.key) <=> p.payload # <<>>
  BY <1>2 DEF Bears
<1>6. /\ DOMAIN tcp_by_key \subseteq TcpKey
      /\ \A k \in DOMAIN tcp_by_key : tcp_by_key[k].id \in ConnId /\ tcp_by_key[k].ack \in Nat
      /\ \A k \in TcpKey : app[k].sent \in 0..MaxSent /\ app[k].sent \in Nat
      /\ MaxSent \in Nat /\ SeqSpace \in Nat /\ MaxSent + 3 < SeqSpace
  BY UpTypes
<1>7. p.payload # <<>> => /\ WrappingAdd(p.seq, Len(p.payload)) = p.seq + 1 /\ p.seq \in Nat
  <2>1. SUFFICES ASSUME p.payload # <<>>
                 PROVE  WrappingAdd(p.seq, Len(p.payload)) = p.seq + 1 /\ p.seq \in Nat
    OBVIOUS
  <2>2. Len(p.payload) = 1 /\ p.key \in TcpKey
    BY <1>2, <1>4, <2>1 DEF TcpPacketInfo
  <2>3. p.seq \in Nat /\ p.seq + 1 \in 0..(SeqSpace - 1)
    BY <1>4, <1>6, <2>1, <2>2
  <2>4. (p.seq + 1) % SeqSpace = p.seq + 1
    BY <1>6, <2>3
  <2> QED
    BY <2>2, <2>3, <2>4 DEF WrappingAdd
<1>12. PICK key, ack : key = p.key /\ ack = c.ack
  OBVIOUS
<1>8. ASSUME p.key \in DOMAIN tcp_by_key, c.state = "Established"
      PROVE  /\ p.payload = <<>> => Queued(key, ack)'
             /\ p.payload # <<>> /\ p.seq = ack => Queued(key, ack + 1)'
             /\ p.payload # <<>> /\ p.seq # ack => Queued(key, ack)'
             /\ p.payload # <<>> /\ "fin" \in p.flags => p.seq = ack
  <2>1. key \in TcpKey /\ ack \in Nat /\ key = p.key /\ ack = c.ack
    BY <1>6, <1>8, <1>12
  <2>2. Queued(key, ack)
    BY <1>1, <1>8, <2>1 DEF QueueInv
  <2>3. /\ ~Bears(1, key) => Queued(key, ack)'
        /\ Bears(1, key) /\ from_tun[1].seq = ack => Queued(key, ack + 1)'
        /\ Bears(1, key) /\ from_tun[1].seq # ack => Queued(key, ack)'
        /\ Bears(1, key) /\ "fin" \in from_tun[1].flags => from_tun[1].seq = ack
    BY <1>1, <1>3, <2>1, <2>2, QueuedReads
  <2>4. /\ p.payload = <<>> => Queued(key, ack)'
        /\ p.payload # <<>> /\ p.seq = ack => Queued(key, ack + 1)'
        /\ p.payload # <<>> /\ p.seq # ack => Queued(key, ack)'
        /\ p.payload # <<>> /\ "fin" \in p.flags => p.seq = ack
    BY <1>2, <1>5, <2>1, <2>3
  <2> QED
    BY <2>4
<1>9. CASE UNCHANGED <<to_remote, sent, to_tun>> /\ loop' = "blocked"
  BY <1>9 DEF QueueInv, OrderInv
<1>10. CASE Reacts(p)
  <2>1. OrderInv'
    <3>1. SUFFICES ASSUME NEW i \in ConnId, NEW n \in DOMAIN Passed(sent', i)
                   PROVE  Passed(sent', i)[n] = UpByte(n)
      BY DEF OrderInv
    <3>2. \A m \in DOMAIN Passed(sent, i) : Passed(sent, i)[m] = UpByte(m)
      BY DEF OrderInv
    <3>3. CASE Passed(sent', i) = Passed(sent, i)
      BY <3>1, <3>2, <3>3
    <3>4. CASE Took(p, i) /\ Passed(sent', i) = Passed(sent, i) \o p.payload
      <4>1. /\ p.key \in DOMAIN tcp_by_key /\ i = c.id /\ c.state = "Established"
            /\ p.payload # <<>> /\ p.seq = c.ack
        BY <1>8, <1>12, <3>4 DEF Took, FinTaken
      <4>2. c.ack = Len(Passed(sent, i)) + 1
        BY <1>1, <1>3, <4>1 DEF AckInv, Acks
      <4> DEFINE u == Passed(sent, i)
                 v == Passed(sent', i)
                 b == UpByte(p.seq)
      <4>3. u \in Seq(Byte) /\ p.payload = <<b>> /\ p.seq = Len(u) + 1 /\ v = u \o <<b>>
        BY <1>2, <1>4, <1>10, <3>4, <4>1, <4>2, ReactsPasses
      <4>4. b \in Byte
        <5>1. <<b>> \in Payload
          BY <1>2, <4>3 DEF TcpPacketInfo
        <5>2. <<b>> \in Seq(Byte)
          BY <5>1, PayloadType
        <5> HIDE DEF b
        <5> QED
          BY <5>2
      <4> HIDE DEF u, v, b
      <4>5. \/ n = Len(u) + 1 /\ v[n] = b
            \/ n \in DOMAIN u /\ v[n] = u[n]
        <5>1. n \in DOMAIN v
          BY <3>1 DEF v
        <5>2. v = u \o <<b>> /\ u \in Seq(Byte)
          BY <4>3
        <5> QED
          BY <4>4, <5>1, <5>2, ItemAdded
      <4>6. \A m \in DOMAIN u : u[m] = UpByte(m)
        BY <3>2 DEF u
      <4>7. v[n] = UpByte(n)
        <5>1. CASE n = Len(u) + 1 /\ v[n] = b
          <6>1. p.seq = n
            BY <4>3, <5>1
          <6> QED
            BY <5>1, <6>1 DEF b
        <5>2. CASE n \in DOMAIN u /\ v[n] = u[n]
          BY <4>6, <5>2
        <5> QED
          BY <4>5, <5>1, <5>2
      <4> QED
        BY <4>7 DEF v
    <3> QED
      BY <1>2, <1>10, <3>3, <3>4, ReactsPasses
  <2>2. ASSUME NEW k \in DOMAIN tcp_by_key', tcp_by_key'[k].state = "Established"
        PROVE  \E a : a = tcp_by_key'[k].ack /\ Queued(k, a)'
    <3>1. CASE k # p.key
      <4>1. k \in DOMAIN tcp_by_key /\ tcp_by_key'[k] = tcp_by_key[k]
        BY <1>10, <2>2, <3>1 DEF Reacts, Created, FinTaken, DataTaken, FinAnswered,
           GivenUp, Passes, Added, Updated, Removed, Others
      <4>2. PICK a \in Nat : a = tcp_by_key[k].ack
        BY <1>6, <4>1
      <4>3. Queued(k, a) /\ k \in TcpKey /\ ~Bears(1, k)
        BY <1>1, <1>2, <1>6, <2>2, <3>1, <4>1, <4>2 DEF QueueInv, Bears
      <4>4. Queued(k, a)'
        BY <1>1, <1>3, <4>3, QueuedReads
      <4> QED
        BY <4>1, <4>2, <4>4
    <3>2. CASE k = p.key
      <4>1. CASE Created(p)
        BY <2>2, <3>2, <4>1 DEF Created, Added
      <4>2. CASE FinTaken(p, c)
        BY <2>2, <3>2, <4>2 DEF FinTaken, Updated
      <4>3. CASE FinAnswered(p, c) \/ GivenUp(p, c)
        BY <2>2, <3>2, <4>3 DEF FinAnswered, GivenUp, Removed
      <4>4. CASE Passes(p, c)
        <5>1. /\ p.key \in DOMAIN tcp_by_key /\ tcp_by_key' = tcp_by_key /\ c.state = "Established"
              /\ p.payload = <<>>
          BY <2>2, <3>2, <4>4 DEF Passes
        <5>2. k = key /\ tcp_by_key'[k].ack = ack
          BY <1>12, <3>2, <5>1
        <5> QED
          BY <1>8, <5>1, <5>2
      <4>5. CASE DataTaken(p, c)
        <5>1. p.key \in DOMAIN tcp_by_key /\ c.state = "Established" /\ p.payload # <<>>
          BY <4>5 DEF DataTaken, Updated
        <5>2. CASE p.seq = c.ack
          <6>1. tcp_by_key'[k].ack = WrappingAdd(p.seq, Len(p.payload))
            BY <3>2, <4>5, <5>2 DEF DataTaken, Updated
          <6>2. k = key /\ tcp_by_key'[k].ack = ack + 1
            BY <1>7, <1>12, <3>2, <5>1, <5>2, <6>1
          <6>3. \E a : a = ack + 1 /\ Queued(key, a)'
            BY <1>8, <1>12, <5>1, <5>2
          <6> QED
            BY <6>2, <6>3
        <5>3. CASE p.seq # c.ack
          <6>1. tcp_by_key'[k] = c
            BY <3>2, <4>5, <5>3 DEF DataTaken, Updated
          <6>2. k = key /\ tcp_by_key'[k].ack = ack
            BY <1>12, <3>2, <6>1
          <6> QED
            BY <1>8, <1>12, <5>1, <5>3, <6>2
        <5> QED
          BY <5>2, <5>3
      <4> QED
        BY <1>10, <4>1, <4>2, <4>3, <4>4, <4>5 DEF Reacts
    <3> QED
      BY <3>1, <3>2
  <2>3. QueueInv'
    BY <2>2 DEF QueueInv, Queued, Coming, Preceded, FinLast, Bears
  <2> QED
    BY <2>1, <2>3
<1>11. Reacts(p) \/ (UNCHANGED <<to_remote, sent, to_tun>> /\ loop' = "blocked")
  <2>1. IInv /\ sent \in Seq(HostMessage)
    BY UpTypes DEF TypeInv
  <2> QED
    BY <1>1, <1>2, <2>1, HostReacts
<1> QED
  BY <1>9, <1>10, <1>11

(* A connection that is being opened waits for the first byte, and nothing  *)
(* of it has been sent.                                                     *)
LEMMA QueueOpens ==
  ASSUME ProtocolInv, AcksInv, loop = "running",
         NEW k \in DOMAIN tcp_by_key, tcp_by_key[k].state = "SynSent",
         NEW ack, ack = tcp_by_key[k].ack
  PROVE  Queued(k, ack)
<1>1. TypeInv /\ FreshInv /\ SegmentsInv /\ IdleInv /\ AckInv
  BY DEF ProtocolInv, AcksInv
<1>2. k \in TcpKey /\ app[k].st \in AppState
      /\ \A n \in DOMAIN from_tun : from_tun[n].key \in TcpKey
  BY <1>1, UpTypes, KeysOfType
<1>3. app[k].st \notin {"open", "gone"}
  BY <1>1, <1>2 DEF FreshInv, Fresh, SynSent
<1>4. app[k].sent = 0
  BY <1>1, <1>2, <1>3 DEF IdleInv, AppState
<1>5. \A n \in DOMAIN from_tun : ~Bears(n, k)
  BY <1>1, <1>3 DEF SegmentsInv, Carries, Bears
<1>6. ack >= 1
  <2> DEFINE u == Passed(sent, tcp_by_key[k].id)
  <2>1. ack = Len(u) + 1
    BY <1>1 DEF AckInv, Acks
  <2>2. u \in Seq(Byte)
    BY <1>1, UpTypes, PassedType
  <2> HIDE DEF u
  <2>3. Len(u) \in Nat
    BY <2>2
  <2> QED
    BY <2>1, <2>3
<1>7. ack \in Nat
  BY <1>1, UpTypes
<1>8. \A s \in ack..app[k].sent : FALSE
  BY <1>4, <1>6, <1>7
<1> QED
  BY <1>5, <1>8 DEF Queued, Coming, Preceded, FinLast

(* What the host takes from the remote leaves all of this as it was.        *)
LEMMA QueueTakes ==
  ASSUME ProtocolInv, AcksInv, QueueInv, OrderInv, HostTakes
  PROVE  QueueInv' /\ OrderInv'
<1>1. UNCHANGED <<app, from_tun, sent>> /\ loop = "running"
  BY TakesKeepsAcks
<1>2. OrderInv'
  BY <1>1 DEF OrderInv
<1>3. CASE loop' = "blocked"
  BY <1>2, <1>3 DEF QueueInv
<1>4. CASE loop' # "blocked"
  <2>1. ASSUME NEW k \in DOMAIN tcp_by_key', tcp_by_key'[k].state = "Established"
        PROVE  \E a : a = tcp_by_key'[k].ack /\ Queued(k, a)'
    <3>1. /\ k \in DOMAIN tcp_by_key /\ tcp_by_key'[k].ack = tcp_by_key[k].ack
          /\ tcp_by_key[k].state \in {"SynSent", "Established"}
      BY <1>4, <2>1, TakesKeepsAcks
    <3>2. PICK a : a = tcp_by_key[k].ack
      OBVIOUS
    <3>3. Queued(k, a)
      BY <1>1, <3>1, <3>2, QueueOpens DEF QueueInv
    <3>4. Queued(k, a)'
      BY <1>1, <3>3 DEF Queued, Coming, Preceded, FinLast, Bears
    <3> QED
      BY <3>1, <3>2, <3>4
  <2> QED
    BY <1>2, <2>1 DEF QueueInv, Queued, Coming, Preceded, FinLast, Bears
<1> QED
  BY <1>3, <1>4

(* Every step keeps the order, when nothing is dropped.                     *)
LEMMA NextQueueInv ==
  ASSUME MaxDrops = 0, ProtocolInv, AcksInv, QueueInv, OrderInv, [TunnelNext]_tunnelVars
  PROVE  QueueInv' /\ OrderInv'
<1>1. TypeInv
  BY DEF ProtocolInv
<1>2. ASSUME NEW k \in TcpKey, AppMoves(k),
             UNCHANGED <<tcp_by_key, next_id, loop, sent, to_remote>>
      PROVE  QueueInv' /\ OrderInv'
  <2>1. ASSUME loop = "running", NEW j \in DOMAIN tcp_by_key, tcp_by_key[j].state = "Established"
        PROVE  \E a : a = tcp_by_key[j].ack /\ Queued(j, a)'
    <3>1. PICK a \in Nat : a = tcp_by_key[j].ack
      BY <1>1, UpTypes
    <3>2. j \in TcpKey /\ Queued(j, a) /\ a <= app[j].sent + 1
      BY <1>1, <2>1, <3>1, UpTypes DEF QueueInv, AcksInv, AckInv, Acks
    <3> QED
      BY <1>1, <1>2, <3>1, <3>2, QueuedMoves
  <2> QED
    BY <1>2, <2>1 DEF QueueInv, OrderInv, Queued, Coming, Preceded, FinLast, Bears
<1>3. ~TunDrops
  BY <1>1 DEF TunDrops, TypeInv, EnvInv
<1>4. CASE UNCHANGED <<tcp_by_key, next_id, loop, app, from_tun, sent>>
  BY <1>4 DEF QueueInv, OrderInv, Queued, Coming, Preceded, FinLast, Bears
<1> QED
  BY <1>1, <1>2, <1>3, <1>4, StepKinds, QueueReads, QueueTakes DEF tunnelVars, hostVars, natVars

(* It holds at the start.                                                   *)
LEMMA InitQueueInv ==
  ASSUME TunnelInit
  PROVE  QueueInv /\ OrderInv
<1>1. sent = <<>> /\ tcp_by_key = [k \in {} |-> {}]
  BY DEF TunnelInit, HostInit, NatInit
<1>2. QueueInv
  BY <1>1 DEF QueueInv
<1>3. OrderInv
  BY <1>1, PassedNothing DEF OrderInv
<1> QED
  BY <1>2, <1>3

(* The host forwards a prefix of the application's stream, each byte once   *)
(* and in order, whatever is retransmitted (mod.rs:369-409).  It needs a    *)
(* queue that drops nothing: the data of a FIN segment is forwarded         *)
(* whatever its sequence number (mod.rs:336-351), see Tunnel_fin.           *)
THEOREM LosslessForwarding ==
  ASSUME MaxSyns = 1, MaxDrops = 0
  PROVE  TunnelSpec => []ForwardedInOrder
<1>1. TunnelInit => ProtocolInv /\ AcksInv /\ QueueInv /\ OrderInv
  BY InitProtocolInv, InitAcksInv, InitQueueInv
<1>2. ProtocolInv /\ AcksInv /\ QueueInv /\ OrderInv /\ [TunnelNext]_tunnelVars
      => (ProtocolInv /\ AcksInv /\ QueueInv /\ OrderInv)'
  <2>1. ASSUME ProtocolInv, AcksInv, QueueInv, OrderInv, [TunnelNext]_tunnelVars
        PROVE  ProtocolInv' /\ AcksInv' /\ QueueInv' /\ OrderInv'
    <3>1. ProtocolInv'
      BY <2>1, NextProtocolInv
    <3>2. TypeInv'
      BY <3>1 DEF ProtocolInv
    <3> QED
      BY <2>1, <3>1, <3>2, NextAcksInv, NextQueueInv
  <2> QED
    BY <2>1
<1>3. OrderInv => ForwardedInOrder
  BY ForwardedPassed DEF OrderInv, ForwardedInOrder
<1> QED
  BY <1>1, <1>2, <1>3, PTL DEF TunnelSpec

-----------------------------------------------------------------------------
(* What a destination receives.                                             *)

Carried(n, i, s) == IsData(to_remote[n], i) /\ to_remote[n].data = <<UpByte(s)>>

(* The bytes of connection i from y to the last one passed on are in the    *)
(* host's channel, in their order.                                          *)
Waiting(i, y, l) ==
  /\ \A n \in DOMAIN to_remote : IsData(to_remote[n], i) => \E s \in y..l : Carried(n, i, s)
  /\ \A s \in y..l : \E n \in DOMAIN to_remote : Carried(n, i, s)
  /\ \A m, n \in DOMAIN to_remote : \A s, t \in y..l :
       m < n /\ Carried(m, i, s) /\ Carried(n, i, t) => s < t

InLoop(i) == remote_loop.pc = "sending" /\ remote_loop.id = i

Before(i) == task[i] \in {"none", "connecting", "announcing", "refused", "inserting"}
Relaying(i) == task[i] \in {"relay", "writing", "replying"}

Run(b) == \A n \in DOMAIN b : n > 1 => b[n][2] = b[n - 1][2] + 1

(* Byte a is the next one the destination gets; the task holds the bytes    *)
(* before c, its channel those before e, and the loop those before z.       *)
Path(i, a, c, e, z) ==
  /\ \A n \in DOMAIN dest[i].got : n = Len(dest[i].got) => dest[i].got[n][2] + 1 = a
  /\ IF task[i] = "writing" THEN hand[i] = <<UpByte(a)>> /\ c = a + 1 ELSE c = a
  /\ e = c + Len(rx[i]) /\ \A n \in DOMAIN rx[i] : rx[i][n] = <<UpByte(c + n - 1)>>
  /\ IF InLoop(i) THEN remote_loop.data = <<UpByte(e)>> /\ z = e + 1 ELSE z = e

LoopInv == remote_loop.pc \in {"sending", "removing"} => remote_loop.id \in handles

BeforeInv(i) == Before(i) => i \notin handles /\ rx[i] = <<>> /\ dest[i].got = <<>>

(* What is on its way follows what has arrived.                             *)
Follow(i, y) ==
  Relaying(i) => \E a, c, e, z \in Nat : Path(i, a, c, e, z) /\ (i \in handles => z = y)

Between(i) ==
  \E y \in Nat \ {0} : /\ y <= Len(Passed(sent, i)) + 1
                       /\ Waiting(i, y, Len(Passed(sent, i))) /\ Follow(i, y)

DestInv ==
  /\ LoopInv
  /\ \A i \in ConnId : Run(dest[i].got) /\ BeforeInv(i) /\ Between(i)

(* A byte tells its number.                                                 *)
LEMMA UpByteInjective ==
  ASSUME NEW s, NEW t, <<UpByte(s)>> = <<UpByte(t)>>
  PROVE  s = t
  BY DEF UpByte

(* Messages are added to the channel.                                       *)
Silent(ms, i) == \A n \in DOMAIN ms : ~IsData(ms[n], i)

Delivers(ms, i, d) ==
  \E m \in DOMAIN ms : /\ IsData(ms[m], i) /\ ms[m].data = d
                       /\ \A n \in DOMAIN ms : IsData(ms[n], i) => n = m

(* The host adds the next byte of a connection, or none.                    *)
LEMMA WaitingMore ==
  ASSUME to_remote \in Seq(HostMessage), NEW ms \in Seq(HostMessage),
         to_remote' = to_remote \o ms,
         NEW i \in ConnId, NEW y \in Nat, NEW l \in Nat, NEW h \in Nat, Waiting(i, y, l),
         y <= l + 1,
         \/ h = l /\ Silent(ms, i)
         \/ h = l + 1 /\ Delivers(ms, i, <<UpByte(l + 1)>>)
  PROVE  Waiting(i, y, h)'
<1> DEFINE q == to_remote'
           N == Len(to_remote)
<1>1. /\ N \in Nat /\ DOMAIN to_remote = 1..N
      /\ \A n \in DOMAIN to_remote : n \in DOMAIN q /\ q[n] = to_remote[n]
      /\ \A n \in DOMAIN q :
           /\ n \in Nat
           /\ \/ n \in DOMAIN to_remote
              \/ n - N \in DOMAIN ms /\ q[n] = ms[n - N] /\ n > N
      /\ \A n \in DOMAIN ms : n \in Nat /\ n + N \in DOMAIN q /\ q[n + N] = ms[n] /\ n + N > N
  <2>1. N \in Nat /\ DOMAIN to_remote = 1..N /\ \A n \in DOMAIN q : n \in Nat
    OBVIOUS
  <2>2. \A n \in DOMAIN ms : n \in Nat /\ n + N \in DOMAIN q /\ q[n + N] = ms[n] /\ n + N > N
    OBVIOUS
  <2>3. /\ \A n \in DOMAIN to_remote : n \in DOMAIN q /\ q[n] = to_remote[n]
        /\ \A n \in DOMAIN q :
             \/ n \in DOMAIN to_remote
             \/ n - N \in DOMAIN ms /\ q[n] = ms[n - N] /\ n > N
    BY Concatenated
  <2> QED
    BY <2>1, <2>2, <2>3
<1> HIDE DEF q, N
<1> DEFINE C(n, s) == IsData(q[n], i) /\ q[n].data = <<UpByte(s)>>
<1>2. \A n \in DOMAIN to_remote, s \in Nat : C(n, s) <=> Carried(n, i, s)
  BY <1>1 DEF Carried
<1>3. /\ \A n \in DOMAIN to_remote : IsData(to_remote[n], i) => \E s \in y..l : Carried(n, i, s)
      /\ \A s \in y..l : \E n \in DOMAIN to_remote : Carried(n, i, s)
      /\ \A m, n \in DOMAIN to_remote : \A s, t \in y..l :
           m < n /\ Carried(m, i, s) /\ Carried(n, i, t) => s < t
  BY DEF Waiting
<1>5. \A s \in y..l : s \in y..h /\ s \in Nat
  OBVIOUS
<1>6. ASSUME NEW n \in DOMAIN q, n \notin DOMAIN to_remote, IsData(q[n], i)
      PROVE  h = l + 1 /\ C(n, h) /\ Delivers(ms, i, <<UpByte(l + 1)>>) /\ n > N
  <2>1. n - N \in DOMAIN ms /\ IsData(ms[n - N], i) /\ n > N
    BY <1>1, <1>6
  <2>2. h = l + 1 /\ Delivers(ms, i, <<UpByte(l + 1)>>)
    BY <2>1 DEF Silent
  <2>3. q[n].data = <<UpByte(l + 1)>>
    BY <1>1, <1>6, <2>1, <2>2 DEF Delivers
  <2> QED
    BY <1>6, <2>1, <2>2, <2>3
<1>7. ASSUME NEW n \in DOMAIN q, IsData(q[n], i) PROVE \E s \in y..h : C(n, s)
  <2>1. CASE n \in DOMAIN to_remote
    BY <1>1, <1>2, <1>3, <1>5, <1>7, <2>1
  <2>2. CASE n \notin DOMAIN to_remote
    <3>1. h \in y..h
      BY <1>6, <1>7, <2>2
    <3> QED
      BY <1>6, <1>7, <2>2, <3>1
  <2> QED
    BY <2>1, <2>2
<1>8. ASSUME NEW s \in y..h PROVE \E n \in DOMAIN q : C(n, s)
  <2>1. CASE s \in y..l
    BY <1>1, <1>2, <1>3, <1>5, <2>1
  <2>2. CASE s = l + 1 /\ h = l + 1
    <3>1. Delivers(ms, i, <<UpByte(l + 1)>>)
      BY <2>2
    <3>2. PICK m \in DOMAIN ms : IsData(ms[m], i) /\ ms[m].data = <<UpByte(l + 1)>>
      BY <3>1 DEF Delivers
    <3> QED
      BY <1>1, <2>2, <3>2, ZenonT(60)
  <2> QED
    BY <1>8, <2>1, <2>2
<1>9. ASSUME NEW m \in DOMAIN q, NEW n \in DOMAIN q, NEW s \in y..h, NEW t \in y..h,
             m < n, C(m, s), C(n, t)
      PROVE  s < t
  <2>0. s \in Nat /\ t \in Nat /\ m \in Nat /\ n \in Nat
    BY <1>1
  <2>1. CASE n \in DOMAIN to_remote
    <3>1. m \in DOMAIN to_remote
      BY <1>1, <1>9, <2>0, <2>1
    <3>2. Carried(m, i, s) /\ Carried(n, i, t)
      BY <1>2, <1>9, <2>0, <2>1, <3>1
    <3>3. s \in y..l /\ t \in y..l
      BY <1>3, <2>1, <3>1, <3>2, UpByteInjective DEF Carried
    <3> QED
      BY <1>3, <1>9, <2>1, <3>1, <3>2, <3>3
  <2>2. CASE n \notin DOMAIN to_remote
    <3>1. h = l + 1 /\ C(n, h) /\ Delivers(ms, i, <<UpByte(l + 1)>>) /\ n > N
      BY <1>6, <1>9, <2>2
    <3>2. t = l + 1
      BY <1>9, <3>1, UpByteInjective
    <3>3. m \in DOMAIN to_remote
      <4>1. SUFFICES ASSUME m \notin DOMAIN to_remote PROVE FALSE
        OBVIOUS
      <4>2. /\ m - N \in DOMAIN ms /\ IsData(ms[m - N], i)
            /\ n - N \in DOMAIN ms /\ IsData(ms[n - N], i)
        BY <1>1, <1>9, <2>2, <4>1
      <4>3. m - N = n - N
        BY <3>1, <4>2 DEF Delivers
      <4> QED
        BY <1>1, <1>9, <2>0, <4>3
    <3>4. Carried(m, i, s)
      BY <1>2, <1>9, <2>0, <3>3
    <3>5. s \in y..l
      BY <1>3, <3>3, <3>4, UpByteInjective DEF Carried
    <3> QED
      BY <3>2, <3>5
  <2> QED
    BY <2>1, <2>2
<1> QED
  BY <1>7, <1>8, <1>9 DEF Waiting, Carried, q

(* The first message is taken from it.                                      *)
LEMMA WaitingLess ==
  ASSUME to_remote \in Seq(HostMessage), to_remote # <<>>, to_remote' = Tail(to_remote),
         NEW i \in ConnId, NEW y \in Nat, NEW l \in Nat, Waiting(i, y, l)
  PROVE  /\ ~IsData(to_remote[1], i) => Waiting(i, y, l)'
         /\ IsData(to_remote[1], i) => /\ Carried(1, i, y) /\ y <= l
                                       /\ Waiting(i, y + 1, l)'
<1> DEFINE q == to_remote'
<1>1. /\ 1 \in DOMAIN to_remote
      /\ \A n \in DOMAIN q : /\ n \in Nat /\ n + 1 \in DOMAIN to_remote
                             /\ q[n] = to_remote[n + 1] /\ 1 < n + 1
      /\ \A n \in DOMAIN to_remote : /\ n \in Nat /\ 1 <= n
                                     /\ n # 1 => n - 1 \in DOMAIN q /\ q[n - 1] = to_remote[n]
  OBVIOUS
<1> HIDE DEF q
<1> DEFINE C(n, s) == IsData(q[n], i) /\ q[n].data = <<UpByte(s)>>
<1>2. \A n \in DOMAIN q, s \in Nat : C(n, s) <=> Carried(n + 1, i, s)
  BY <1>1 DEF Carried
<1>3. /\ \A n \in DOMAIN to_remote : IsData(to_remote[n], i) => \E s \in y..l : Carried(n, i, s)
      /\ \A s \in y..l : \E n \in DOMAIN to_remote : Carried(n, i, s)
      /\ \A m, n \in DOMAIN to_remote : \A s, t \in y..l :
           m < n /\ Carried(m, i, s) /\ Carried(n, i, t) => s < t
  BY DEF Waiting
<1>4. ASSUME NEW z \in Nat, z >= y,
             \A s \in z..l : ~Carried(1, i, s),
             \A n \in DOMAIN to_remote : n # 1 /\ IsData(to_remote[n], i) =>
               \E s \in z..l : Carried(n, i, s)
      PROVE  Waiting(i, z, l)'
  <2>0. \A s \in z..l : s \in Nat /\ s \in y..l
    BY <1>4
  <2>1. ASSUME NEW n \in DOMAIN q, IsData(q[n], i) PROVE \E s \in z..l : C(n, s)
    <3>1. n + 1 \in DOMAIN to_remote /\ IsData(to_remote[n + 1], i) /\ n + 1 # 1
          /\ q[n] = to_remote[n + 1]
      BY <1>1, <2>1
    <3>2. PICK s \in z..l : Carried(n + 1, i, s)
      BY <1>4, <3>1
    <3> QED
      BY <2>1, <3>1, <3>2 DEF Carried
  <2>2. ASSUME NEW s \in z..l PROVE \E n \in DOMAIN q : C(n, s)
    <3>1. PICK n \in DOMAIN to_remote : Carried(n, i, s)
      BY <1>3, <2>0
    <3>2. n # 1
      BY <1>4, <3>1
    <3>3. PICK m \in DOMAIN q : q[m] = to_remote[n]
      BY <1>1, <3>2
    <3> QED
      BY <3>1, <3>3 DEF Carried
  <2>3. ASSUME NEW m \in DOMAIN q, NEW n \in DOMAIN q, NEW s \in z..l, NEW t \in z..l,
               m < n, C(m, s), C(n, t)
        PROVE  s < t
    <3>1. /\ m + 1 \in DOMAIN to_remote /\ n + 1 \in DOMAIN to_remote /\ m + 1 < n + 1
          /\ Carried(m + 1, i, s) /\ Carried(n + 1, i, t)
      BY <1>1, <1>2, <2>0, <2>3, SMTT(30)
    <3> QED
      BY <1>3, <2>0, <3>1
  <2> QED
    BY <2>1, <2>2, <2>3, ZenonT(60) DEF Waiting, Carried, q
<1>5. ASSUME ~IsData(to_remote[1], i) PROVE Waiting(i, y, l)'
  <2>1. \A s \in y..l : ~Carried(1, i, s)
    BY <1>5 DEF Carried
  <2> QED
    BY <1>3, <1>4, <2>1
<1>6. ASSUME IsData(to_remote[1], i)
      PROVE  Carried(1, i, y) /\ y <= l /\ Waiting(i, y + 1, l)'
  <2>1. PICK s \in y..l : Carried(1, i, s)
    BY <1>1, <1>3, <1>6
  <2>2. y \in y..l /\ y <= l
    BY <2>1
  <2>3. PICK n \in DOMAIN to_remote : Carried(n, i, y)
    BY <1>3, <2>2
  <2>4. n = 1
    <3>1. SUFFICES ASSUME 1 < n PROVE FALSE
      BY <1>1
    <3>2. s < y
      BY <1>1, <1>3, <2>1, <2>2, <2>3, <3>1
    <3> QED
      BY <2>1, <3>2
  <2>5. Carried(1, i, y)
    BY <2>3, <2>4
  <2>6. PICK z \in Nat : z = y + 1
    OBVIOUS
  <2>7. \A t \in z..l : t # y /\ t \in y..l
    BY <2>6
  <2>8. \A t \in z..l : ~Carried(1, i, t)
    BY <2>5, <2>7, UpByteInjective DEF Carried
  <2>9. ASSUME NEW m \in DOMAIN to_remote, m # 1, IsData(to_remote[m], i)
        PROVE  \E t \in z..l : Carried(m, i, t)
    <3>1. PICK t \in y..l : Carried(m, i, t)
      BY <1>3, <2>9
    <3>2. 1 < m
      BY <1>1, <2>9
    <3>3. y < t
      BY <1>1, <1>3, <2>2, <2>5, <3>1, <3>2
    <3>4. t \in z..l
      BY <2>6, <3>3
    <3> QED
      BY <3>1, <3>4
  <2>11. Waiting(i, z, l)'
    BY <1>4, <2>6, <2>8, <2>9
  <2> QED
    BY <2>2, <2>5, <2>6, <2>11
<1> QED
  BY <1>5, <1>6

(* The messages the host sends at once.                                     *)
LEMMA MessagesCarry ==
  ASSUME NEW id \in ConnId, NEW d \in Payload, NEW e \in Server, NEW i \in ConnId
  PROVE  /\ <<>> \in Seq(HostMessage) /\ Silent(<<>>, i)
         /\ <<TcpConnect(id, e)>> \in Seq(HostMessage) /\ Silent(<<TcpConnect(id, e)>>, i)
         /\ <<TcpClose(id)>> \in Seq(HostMessage) /\ Silent(<<TcpClose(id)>>, i)
         /\ <<TcpData(id, d)>> \in Seq(HostMessage)
         /\ IF i = id THEN Delivers(<<TcpData(id, d)>>, i, d) ELSE Silent(<<TcpData(id, d)>>, i)
         /\ <<TcpData(id, d)>> \o <<TcpClose(id)>> \in Seq(HostMessage)
         /\ IF i = id THEN Delivers(<<TcpData(id, d)>> \o <<TcpClose(id)>>, i, d)
            ELSE Silent(<<TcpData(id, d)>> \o <<TcpClose(id)>>, i)
<1> DEFINE a == TcpConnect(id, e)
           b == TcpData(id, d)
           c == TcpClose(id)
<1>1. /\ a \in HostMessage /\ b \in HostMessage /\ c \in HostMessage
      /\ ~IsData(a, i) /\ ~IsData(c, i) /\ (IsData(b, i) <=> i = id) /\ b.data = d
  BY DEF TcpConnect, TcpData, TcpClose, HostMessage, IsData
<1> HIDE DEF a, b, c
<1>2. /\ <<>> \in Seq(HostMessage) /\ <<a>> \in Seq(HostMessage) /\ <<c>> \in Seq(HostMessage)
      /\ <<b>> \in Seq(HostMessage) /\ Silent(<<>>, i) /\ Silent(<<a>>, i) /\ Silent(<<c>>, i)
  BY <1>1 DEF Silent
<1>3. IF i = id THEN Delivers(<<b>>, i, d) ELSE Silent(<<b>>, i)
  BY <1>1 DEF Silent, Delivers
<1> DEFINE s == <<b>> \o <<c>>
<1>4. s \in Seq(HostMessage) /\ DOMAIN s = 1..2 /\ s[1] = b /\ s[2] = c
  BY <1>1
<1> HIDE DEF s
<1>5. 1 \in DOMAIN s /\ \A n \in DOMAIN s : n = 1 \/ n = 2
  BY <1>4
<1>6. IF i = id THEN Delivers(s, i, d) ELSE Silent(s, i)
  BY <1>1, <1>4, <1>5 DEF Silent, Delivers
<1> QED
  BY <1>2, <1>3, <1>4, <1>6 DEF a, b, c, s

(* What the host adds to its channel is what it passes on.                  *)
LEMMA ReactsDelivers ==
  ASSUME TypeInv, NEW p \in TcpPacketInfo, Reacts(p)
  PROVE  \E ms \in Seq(HostMessage) :
           /\ to_remote' = to_remote \o ms
           /\ \A i \in ConnId :
                \/ Silent(ms, i) /\ Passed(sent', i) = Passed(sent, i)
                \/ /\ Delivers(ms, i, p.payload) /\ p.payload # <<>>
                   /\ Passed(sent', i) = Passed(sent, i) \o p.payload
<1> DEFINE c == tcp_by_key[p.key]
<1>1. /\ sent \in Seq(HostMessage) /\ p.payload \in Payload /\ p.key[2] \in Server
      /\ p.key \in DOMAIN tcp_by_key => c.id \in ConnId
  BY UpTypes DEF TcpPacketInfo, TcpKey
<1>2. ASSUME NEW ms, NEW ps, Sends(ms, ps),
             \/ ms = <<>>
             \/ \E id \in ConnId : ms = <<TcpConnect(id, p.key[2])>> \/ ms = <<TcpClose(id)>>
             \/ /\ p.payload # <<>>
                /\ \E id \in ConnId : \/ ms = <<TcpData(id, p.payload)>>
                                      \/ ms = <<TcpData(id, p.payload)>> \o <<TcpClose(id)>>
      PROVE  \E xs \in Seq(HostMessage) :
               /\ to_remote' = to_remote \o xs
               /\ \A i \in ConnId :
                    \/ Silent(xs, i) /\ Passed(sent', i) = Passed(sent, i)
                    \/ /\ Delivers(xs, i, p.payload) /\ p.payload # <<>>
                       /\ Passed(sent', i) = Passed(sent, i) \o p.payload
  <2>0. to_remote' = to_remote \o ms /\ sent' = sent \o ms
    BY <1>2 DEF Sends
  <2>1. PICK d \in Payload, e \in Server : d = p.payload /\ e = p.key[2]
    BY <1>1
  <2>2. CASE ms = <<>>
    <3>1. sent' = sent /\ to_remote' = to_remote \o <<>> /\ <<>> \in Seq(HostMessage)
          /\ \A i \in ConnId : Silent(<<>>, i)
      BY <1>1, <2>0, <2>2 DEF Silent
    <3> QED
      BY <3>1
  <2>3. ASSUME NEW id \in ConnId, ms = <<TcpConnect(id, e)>> \/ ms = <<TcpClose(id)>>
        PROVE  ms \in Seq(HostMessage) /\ \A i \in ConnId :
                 Silent(ms, i) /\ Passed(sent', i) = Passed(sent, i)
    <3>1. CASE ms = <<TcpConnect(id, e)>>
      BY <1>1, <2>0, <3>1, MessagesCarry, SmallPayloads, PassedConnect
    <3>2. CASE ms = <<TcpClose(id)>>
      BY <1>1, <2>0, <2>1, <3>2, MessagesCarry, PassedClose
    <3> QED
      BY <2>3, <3>1, <3>2
  <2>4. ASSUME NEW id \in ConnId, d # <<>>,
               ms = <<TcpData(id, d)>> \/ ms = <<TcpData(id, d)>> \o <<TcpClose(id)>>
        PROVE  ms \in Seq(HostMessage) /\ \A i \in ConnId :
                 \/ Silent(ms, i) /\ Passed(sent', i) = Passed(sent, i)
                 \/ Delivers(ms, i, d) /\ Passed(sent', i) = Passed(sent, i) \o d
    <3>0. ms \in Seq(HostMessage)
      BY <2>1, <2>4, MessagesCarry
    <3>1. SUFFICES ASSUME NEW i \in ConnId
                   PROVE  \/ Silent(ms, i) /\ Passed(sent', i) = Passed(sent, i)
                          \/ Delivers(ms, i, d) /\ Passed(sent', i) = Passed(sent, i) \o d
      BY <3>0
    <3>2. IF i = id THEN Delivers(ms, i, d) ELSE Silent(ms, i)
      BY <2>1, <2>4, MessagesCarry
    <3>3. Passed(sent', i) = Passed(sent, i) \o (IF i = id THEN d ELSE <<>>)
      <4>1. Passed(sent \o <<TcpData(id, d)>>, i) = Passed(sent, i) \o (IF i = id THEN d ELSE <<>>)
        BY <1>1, <2>4, PassedData
      <4>2. Passed(sent \o (<<TcpData(id, d)>> \o <<TcpClose(id)>>), i)
              = Passed(sent, i) \o (IF i = id THEN d ELSE <<>>)
        BY <1>1, <2>4, PassedDataClose
      <4> QED
        BY <2>0, <2>4, <4>1, <4>2
    <3>4. Passed(sent, i) \o <<>> = Passed(sent, i)
      <4>1. Passed(sent, i) \in Seq(Byte)
        BY <1>1, PassedType
      <4> QED
        BY <4>1
    <3> QED
      BY <3>2, <3>3, <3>4
  <2> QED
    BY <1>2, <2>0, <2>1, <2>2, <2>3, <2>4
<1>3. CASE Created(p)
  BY <1>1, <1>2, <1>3 DEF Created
<1>4. CASE FinTaken(p, c)
  BY <1>1, <1>2, <1>4 DEF FinTaken, Updated
<1>5. CASE DataTaken(p, c)
  BY <1>1, <1>2, <1>5 DEF DataTaken, Updated
<1>6. CASE FinAnswered(p, c) \/ Passes(p, c)
  BY <1>1, <1>2, <1>6 DEF FinAnswered, Passes
<1>7. CASE GivenUp(p, c)
  BY <1>1, <1>2, <1>7 DEF GivenUp, Removed
<1> QED
  BY <1>3, <1>4, <1>5, <1>6, <1>7 DEF Reacts

(* What the remote holds does not depend on the rest.                       *)
LEMMA PathKept ==
  ASSUME NEW i \in ConnId, NEW a, NEW c, NEW e, NEW z, Path(i, a, c, e, z),
         rx'[i] = rx[i], dest'[i].got = dest[i].got,
         task'[i] = "writing" <=> task[i] = "writing",
         task[i] = "writing" => hand'[i] = hand[i],
         InLoop(i)' <=> InLoop(i), InLoop(i) => remote_loop'.data = remote_loop.data
  PROVE  Path(i, a, c, e, z)'
<1>1. /\ \A n \in DOMAIN dest'[i].got : n = Len(dest'[i].got) => dest'[i].got[n][2] + 1 = a
      /\ IF task'[i] = "writing" THEN hand'[i] = <<UpByte(a)>> /\ c = a + 1 ELSE c = a
  BY DEF Path
<1>2. e = c + Len(rx'[i]) /\ \A n \in DOMAIN rx'[i] : rx'[i][n] = <<UpByte(c + n - 1)>>
  BY DEF Path
<1>3. IF InLoop(i) THEN remote_loop'.data = <<UpByte(e)>> /\ z = e + 1 ELSE z = e
  BY DEF Path
<1> QED
  BY <1>1, <1>2, <1>3 DEF Path

(* Nor does its place in the stream.                                        *)
LEMMA FollowKept ==
  ASSUME NEW i \in ConnId, NEW y, Follow(i, y), Relaying(i)' => Relaying(i),
         i \in handles' => i \in handles,
         rx'[i] = rx[i], dest'[i].got = dest[i].got,
         task'[i] = "writing" <=> task[i] = "writing",
         task[i] = "writing" => hand'[i] = hand[i],
         InLoop(i)' <=> InLoop(i), InLoop(i) => remote_loop'.data = remote_loop.data
  PROVE  Follow(i, y)'
<1>1. SUFFICES ASSUME Relaying(i)'
               PROVE  \E a, c, e, z \in Nat : Path(i, a, c, e, z)' /\ (i \in handles' => z = y)
  BY DEF Follow
<1>2. PICK a \in Nat, c \in Nat, e \in Nat, z \in Nat :
        Path(i, a, c, e, z) /\ (i \in handles => z = y)
  BY <1>1 DEF Follow
<1>3. Path(i, a, c, e, z)'
  BY <1>2, PathKept
<1> QED
  BY <1>2, <1>3

(* What the host reads from the TUN device is added to what is on its way.  *)
LEMMA BetweenReads ==
  ASSUME TypeInv, TypeInv', AcksInv, OrderInv, OrderInv', HostReads, NEW i \in ConnId, Between(i)
  PROVE  Between(i)'
<1>0. PICK p : p = Head(from_tun)
  OBVIOUS
<1>1. /\ from_tun # <<>> /\ from_tun' = Tail(from_tun) /\ HandleOutboundTcp(p) /\ Recorded
      /\ UNCHANGED remoteVars /\ UNCHANGED dest
  BY <1>0 DEF HostReads, Recorded
<1>2. p \in TcpPacketInfo /\ p = from_tun[1] /\ 1 \in DOMAIN from_tun
  BY <1>0, <1>1, HeadPacket
<1> DEFINE u == Passed(sent, i)
           v == Passed(sent', i)
<1>3. /\ u \in Seq(Byte) /\ Len(u) \in Nat
      /\ \A n \in DOMAIN u : u[n] = UpByte(n)
      /\ \A n \in DOMAIN v : v[n] = UpByte(n)
  <2>1. u \in Seq(Byte)
    BY UpTypes, PassedType
  <2> QED
    BY <2>1 DEF OrderInv
<1>4. PICK y \in Nat \ {0} : y <= Len(u) + 1 /\ Waiting(i, y, Len(u)) /\ Follow(i, y)
  BY DEF Between
<1>5. Follow(i, y)'
  <2>1. UNCHANGED <<handles, task, rx, hand, remote_loop, dest>>
    BY <1>1 DEF remoteVars
  <2> QED
    BY <1>4, <2>1, FollowKept DEF Relaying, InLoop
<1>6. to_remote \in Seq(HostMessage) /\ IInv /\ sent \in Seq(HostMessage)
  BY UpTypes DEF TypeInv
<1>7. CASE UNCHANGED <<to_remote, sent, to_tun>> /\ loop' = "blocked"
  <2>1. Waiting(i, y, Len(u))'
    BY <1>4, <1>7 DEF Waiting, Carried
  <2> QED
    BY <1>4, <1>5, <1>7, <2>1 DEF Between, Waiting, Carried
<1>8. CASE Reacts(p)
  <2>1. PICK ms \in Seq(HostMessage) :
           /\ to_remote' = to_remote \o ms
           /\ \/ Silent(ms, i) /\ v = u
              \/ Delivers(ms, i, p.payload) /\ p.payload # <<>> /\ v = u \o p.payload
    BY <1>2, <1>8, ReactsDelivers
  <2>2. PICK l \in Nat : l = Len(u)
    BY <1>3
  <2>3. ASSUME p.payload # <<>>, v = u \o p.payload
        PROVE  p.payload = <<UpByte(l + 1)>> /\ Len(v) = l + 1
    <3>1. PICK s : p.payload = <<UpByte(s)>>
      BY <1>2, <2>3 DEF AcksInv, SegmentsInv, Carries
    <3>2. PICK b : b = UpByte(s)
      OBVIOUS
    <3> HIDE DEF u, v
    <3>3. <<b>> \in Seq(Byte)
      BY <1>2, <3>1, <3>2, PayloadType DEF TcpPacketInfo
    <3>4. b \in Byte /\ v = u \o <<b>>
      BY <2>3, <3>1, <3>2, <3>3
    <3>5. Len(v) = l + 1 /\ v[l + 1] = b /\ l + 1 \in DOMAIN v
      BY <1>3, <2>2, <3>4
    <3>6. b = UpByte(l + 1)
      BY <1>3, <3>5
    <3> QED
      BY <3>1, <3>2, <3>5, <3>6
  <2>4. PICK h \in Nat : /\ h = Len(v) /\ h >= l
                         /\ \/ h = l /\ Silent(ms, i)
                            \/ h = l + 1 /\ Delivers(ms, i, <<UpByte(l + 1)>>)
    <3>1. CASE Silent(ms, i) /\ v = u
      BY <2>2, <3>1
    <3>2. CASE Delivers(ms, i, p.payload) /\ p.payload # <<>> /\ v = u \o p.payload
      BY <2>3, <3>2, SMTT(30)
    <3> QED
      BY <2>1, <3>1, <3>2
  <2>5. Waiting(i, y, l) /\ y <= l + 1
    BY <1>4, <2>2
  <2>6. Waiting(i, y, h)'
    BY <1>6, <2>1, <2>4, <2>5, WaitingMore
  <2>7. y <= h + 1
    BY <2>4, <2>5
  <2>8. \E x : x = Len(v) /\ y <= x + 1 /\ Waiting(i, y, x)'
    BY <2>4, <2>6, <2>7
  <2> QED
    BY <1>4, <1>5, <2>8 DEF Between, Waiting, Carried
<1>9. Reacts(p) \/ (UNCHANGED <<to_remote, sent, to_tun>> /\ loop' = "blocked")
  BY <1>1, <1>2, <1>6, HostReacts
<1> QED
  BY <1>7, <1>8, <1>9

(* So a packet the host reads keeps the invariant.                          *)
LEMMA DestReads ==
  ASSUME TypeInv, TypeInv', AcksInv, OrderInv, OrderInv', DestInv, HostReads
  PROVE  DestInv'
<1>1. UNCHANGED remoteVars /\ UNCHANGED dest
  BY DEF HostReads
<1>2. \A i \in ConnId : Between(i)'
  BY BetweenReads DEF DestInv
<1> QED
  BY <1>1, <1>2 DEF DestInv, LoopInv, Run, BeforeInv, Before, remoteVars

(* One connection's part of the invariant.                                  *)
Own(i) == Run(dest[i].got) /\ BeforeInv(i) /\ Between(i)

(* A step that leaves the channel alone keeps what the remote's part keeps. *)
LEMMA OwnKept ==
  ASSUME NEW i \in ConnId, Own(i), UNCHANGED <<to_remote, sent>>,
         Run(dest'[i].got), BeforeInv(i)', \A y \in Nat : Follow(i, y) => Follow(i, y)'
  PROVE  Own(i)'
<1>1. PICK y \in Nat \ {0} : /\ y <= Len(Passed(sent, i)) + 1
                             /\ Waiting(i, y, Len(Passed(sent, i))) /\ Follow(i, y)
  BY DEF Own, Between
<1>2. Follow(i, y)' /\ sent' = sent /\ to_remote' = to_remote
  BY <1>1
<1>3. Between(i)'
  BY <1>1, <1>2 DEF Between, Waiting, Carried
<1> QED
  BY <1>3 DEF Own

(* A step of another connection.                                            *)
LEMMA OwnOthers ==
  ASSUME NEW i \in ConnId, Own(i), UNCHANGED <<to_remote, sent, remote_loop>>,
         task'[i] = task[i], rx'[i] = rx[i], hand'[i] = hand[i], dest'[i].got = dest[i].got,
         i \in handles' <=> i \in handles
  PROVE  Own(i)'
<1>1. Run(dest'[i].got) /\ BeforeInv(i)'
  BY DEF Own, BeforeInv, Before
<1>2. InLoop(i)' <=> InLoop(i)
  BY DEF InLoop
<1>3. Relaying(i)' => Relaying(i)
  BY DEF Relaying
<1>4. ASSUME NEW y \in Nat, Follow(i, y) PROVE Follow(i, y)'
  BY <1>2, <1>3, <1>4, FollowKept
<1> QED
  BY <1>1, <1>4, OwnKept

(* The task starts to relay: nothing of the connection has come so far.     *)
LEMMA OwnInserts ==
  ASSUME TypeInv, LoopInv, NEW i \in ConnId, Own(i), UNCHANGED <<to_remote, sent, dest>>,
         R!InsertHandle(i)
  PROVE  Own(i)'
<1>1. /\ task[i] = "inserting" /\ handles' = handles \cup {i} /\ task'[i] = "relay"
      /\ UNCHANGED <<rx, hand, remote_loop>>
  BY DEF R!InsertHandle, R!At, R!Goto, TypeInv, RemoteInv
<1>2. i \notin handles /\ rx[i] = <<>> /\ dest[i].got = <<>> /\ ~InLoop(i)
  BY <1>1 DEF Own, BeforeInv, Before, LoopInv, InLoop
<1>3. Run(dest'[i].got) /\ BeforeInv(i)'
  BY <1>1 DEF Own, BeforeInv, Before
<1>4. ASSUME NEW y \in Nat PROVE Follow(i, y)'
  <2>1. ~InLoop(i)'
    BY <1>1, <1>2 DEF InLoop
  <2>2. y = y + Len(rx'[i])
    BY <1>1, <1>2
  <2>3. \A n \in DOMAIN rx'[i] : FALSE
    BY <1>1, <1>2
  <2>4. \A n \in DOMAIN dest'[i].got : FALSE
    BY <1>2
  <2>5. Path(i, y, y, y, y)'
    BY <1>1, <2>1, <2>2, <2>3, <2>4 DEF Path
  <2> QED
    BY <2>5 DEF Follow
<1> QED
  BY <1>3, <1>4, OwnKept

(* It takes the next block from its channel.                                *)
LEMMA OwnTakes ==
  ASSUME TypeInv, NEW i \in ConnId, Own(i), UNCHANGED <<to_remote, sent, dest>>,
         R!TakeFromHost(i)
  PROVE  Own(i)'
<1>1. /\ task[i] = "relay" /\ task'[i] = "writing" /\ rx[i] # <<>>
      /\ hand'[i] = Head(rx[i]) /\ rx'[i] = Tail(rx[i])
      /\ UNCHANGED <<handles, remote_loop>>
  BY DEF R!TakeFromHost, R!At, R!Goto, TypeInv, RemoteInv
<1>2. rx[i] \in Seq(Payload)
  BY DEF TypeInv, RemoteInv
<1>3. Run(dest'[i].got) /\ BeforeInv(i)'
  BY <1>1 DEF Own, BeforeInv, Before
<1>4. ASSUME NEW y \in Nat, Follow(i, y) PROVE Follow(i, y)'
  <2>1. PICK a \in Nat, c \in Nat, e \in Nat, z \in Nat :
          Path(i, a, c, e, z) /\ (i \in handles => z = y)
    BY <1>1, <1>4 DEF Follow, Relaying
  <2> DEFINE q == rx[i]
  <2>2. /\ c = a /\ e = c + Len(q) /\ \A n \in DOMAIN q : q[n] = <<UpByte(c + n - 1)>>
        /\ \A n \in DOMAIN dest[i].got : n = Len(dest[i].got) => dest[i].got[n][2] + 1 = a
        /\ IF InLoop(i) THEN remote_loop.data = <<UpByte(e)>> /\ z = e + 1 ELSE z = e
    BY <1>1, <2>1 DEF Path
  <2>3. /\ q \in Seq(Payload) /\ q # <<>>
        /\ Head(q) = q[1] /\ 1 \in DOMAIN q /\ Len(Tail(q)) = Len(q) - 1 /\ Len(q) \in Nat
        /\ \A n \in DOMAIN Tail(q) : n \in Nat /\ n + 1 \in DOMAIN q /\ Tail(q)[n] = q[n + 1]
    BY <1>1, <1>2, HeadTail
  <2> HIDE DEF q
  <2>4. c + 1 - 1 = a
    BY <2>2
  <2>5. Head(q) = <<UpByte(a)>>
    BY <2>2, <2>3, <2>4
  <2>6. e = (c + 1) + Len(Tail(q))
    BY <2>2, <2>3
  <2>7. ASSUME NEW n \in DOMAIN Tail(q) PROVE Tail(q)[n] = <<UpByte((c + 1) + n - 1)>>
    <3>1. Tail(q)[n] = <<UpByte(c + (n + 1) - 1)>> /\ n \in Nat
      BY <2>2, <2>3
    <3>2. c + (n + 1) - 1 = (c + 1) + n - 1
      BY <3>1
    <3> QED
      BY <3>1, <3>2
  <2>8. InLoop(i)' <=> InLoop(i)
    BY <1>1 DEF InLoop
  <2>9. PICK d \in Nat : d = c + 1
    OBVIOUS
  <2>10. Path(i, a, d, e, z)'
    BY <1>1, <2>2, <2>5, <2>6, <2>7, <2>8, <2>9 DEF Path, q
  <2> QED
    BY <1>1, <2>1, <2>10 DEF Follow
<1> QED
  BY <1>3, <1>4, OwnKept

(* It writes the block to the destination.                                  *)
LEMMA OwnWrites ==
  ASSUME TypeInv, NEW i \in ConnId, Own(i), UNCHANGED <<to_remote, sent>>,
         R!WriteAll(i), dest' = [dest EXCEPT ![i].got = @ \o hand[i]]
  PROVE  Own(i)'
<1>1. /\ task[i] = "writing" /\ task'[i] = "relay"
      /\ rx'[i] = rx[i] /\ UNCHANGED <<handles, remote_loop>>
  BY DEF R!WriteAll, R!At, R!Goto, TypeInv, RemoteInv
<1> DEFINE u == dest[i].got
           v == dest'[i].got
<1>2. u \in Seq(Byte) /\ v = u \o hand[i] /\ hand[i] \in Payload
  BY DEF TypeInv, RemoteInv, EnvInv
<1>3. PICK x \in Nat : Follow(i, x)
  BY DEF Own, Between
<1>4. PICK a : /\ hand[i] = <<UpByte(a)>> /\ a \in Nat
               /\ \A n \in DOMAIN u : n = Len(u) => u[n][2] + 1 = a
  BY <1>1, <1>3 DEF Follow, Relaying, Path
<1>5. PICK b \in Byte : b = UpByte(a) /\ b[2] = a
  <2>1. PICK b : b = UpByte(a) /\ b[2] = a
    <3>1. <<0, a>>[2] = a
      OBVIOUS
    <3>2. UpByte(a)[2] = a
      BY <3>1 DEF UpByte
    <3> QED
      BY <3>2
  <2>2. <<b>> \in Seq(Byte)
    BY <1>2, <1>4, <2>1, PayloadType
  <2> QED
    BY <2>1, <2>2
<1> HIDE DEF u, v
<1>6. /\ v = u \o <<b>> /\ DOMAIN v = 1..(Len(u) + 1) /\ DOMAIN u = 1..Len(u) /\ Len(u) \in Nat
      /\ Len(v) = Len(u) + 1
      /\ v[Len(u) + 1] = b /\ \A n \in DOMAIN u : v[n] = u[n]
  BY <1>2, <1>4, <1>5
<1>7. Run(u) /\ \A n \in DOMAIN u : n = Len(u) => u[n][2] + 1 = a
  BY <1>4 DEF Own, u
<1>8. Run(v)
  <2>1. SUFFICES ASSUME NEW n \in DOMAIN v, n > 1 PROVE v[n][2] = v[n - 1][2] + 1
    BY DEF Run
  <2>2. n \in Nat /\ n - 1 \in DOMAIN u
    BY <1>6, <2>1
  <2>3. CASE n \in DOMAIN u
    BY <1>6, <1>7, <2>1, <2>2, <2>3 DEF Run
  <2>4. CASE n = Len(u) + 1
    <3>1. n - 1 = Len(u)
      BY <1>6, <2>4
    <3> QED
      BY <1>5, <1>6, <1>7, <2>2, <2>4, <3>1
  <2> QED
    BY <1>6, <2>1, <2>3, <2>4
<1>9. \A n \in DOMAIN v : n = Len(v) => v[n][2] + 1 = a + 1
  BY <1>5, <1>6
<1>10. BeforeInv(i)'
  BY <1>1 DEF BeforeInv, Before
<1>11. ASSUME NEW y \in Nat, Follow(i, y) PROVE Follow(i, y)'
  <2>1. PICK a2 \in Nat, c \in Nat, e \in Nat, z \in Nat :
          Path(i, a2, c, e, z) /\ (i \in handles => z = y)
    BY <1>1, <1>11 DEF Follow, Relaying
  <2>2. /\ hand[i] = <<UpByte(a2)>> /\ c = a2 + 1
        /\ e = c + Len(rx[i]) /\ \A n \in DOMAIN rx[i] : rx[i][n] = <<UpByte(c + n - 1)>>
        /\ IF InLoop(i) THEN remote_loop.data = <<UpByte(e)>> /\ z = e + 1 ELSE z = e
    BY <1>1, <2>1 DEF Path
  <2>3. c = a + 1
    BY <1>4, <2>2, UpByteInjective
  <2>4. InLoop(i)' <=> InLoop(i)
    BY <1>1 DEF InLoop
  <2>5. Path(i, c, c, e, z)'
    BY <1>1, <1>9, <2>2, <2>3, <2>4 DEF Path, v
  <2> QED
    BY <1>1, <2>1, <2>5 DEF Follow
<1> QED
  BY <1>8, <1>10, <1>11, OwnKept DEF v

(* The task's other steps, and the destination's.                           *)
LEMMA OwnSteps ==
  ASSUME TypeInv, NEW i \in ConnId, Own(i), UNCHANGED <<to_remote, sent>>,
         dest'[i].got = dest[i].got,
         \/ R!Refuse(i) \/ R!Announce(i) \/ R!ChannelClosed(i) \/ R!SendData(i)
         \/ R!SendError(i) \/ R!SendClosed(i) \/ R!RemoveHandle(i) \/ R!Connects(i)
         \/ R!DestEof(i) \/ R!DestFails(i) \/ \E d : R!ReadFromDest(i, d)
  PROVE  Own(i)'
<1>0. task \in [ConnId -> R!TaskState] /\ rx \in [ConnId -> Seq(Payload)]
  BY DEF TypeInv, RemoteInv
<1>1. ASSUME UNCHANGED <<rx, remote_loop>>, Before(i)' => Before(i),
             i \in handles' => i \in handles,
             \/ ~Relaying(i)'
             \/ Relaying(i) /\ task[i] # "writing" /\ task'[i] # "writing"
      PROVE  Own(i)'
  <2>1. Run(dest'[i].got) /\ BeforeInv(i)'
    BY <1>1 DEF Own, BeforeInv
  <2>2. InLoop(i)' <=> InLoop(i)
    BY <1>1 DEF InLoop
  <2>3. ASSUME NEW y \in Nat, Follow(i, y) PROVE Follow(i, y)'
    <3>1. CASE ~Relaying(i)'
      BY <3>1 DEF Follow
    <3>2. CASE Relaying(i) /\ task[i] # "writing" /\ task'[i] # "writing"
      BY <1>1, <2>2, <2>3, <3>2, FollowKept
    <3> QED
      BY <1>1, <3>1, <3>2
  <2> QED
    BY <2>1, <2>3, OwnKept
<1>2. CASE R!Refuse(i) \/ R!Announce(i) \/ R!Connects(i)
  <2>1. UNCHANGED <<rx, remote_loop, handles>> /\ Before(i) /\ ~Relaying(i)'
    BY <1>0, <1>2 DEF R!Refuse, R!Announce, R!Connects, R!At, R!Goto, Before, Relaying
  <2> QED
    BY <1>1, <2>1
<1>3. CASE R!ChannelClosed(i) \/ R!SendError(i) \/ R!RemoveHandle(i) \/ R!DestEof(i) \/ R!DestFails(i)
  <2>1. UNCHANGED <<rx, remote_loop>> /\ (i \in handles' => i \in handles)
        /\ ~Before(i)' /\ ~Relaying(i)'
    BY <1>0, <1>3 DEF R!ChannelClosed, R!SendError, R!RemoveHandle, R!DestEof, R!DestFails,
       R!At, R!Goto, Before, Relaying
  <2> QED
    BY <1>1, <2>1
<1>4. CASE R!SendData(i) \/ \E d : R!ReadFromDest(i, d)
  <2>1. /\ UNCHANGED <<rx, remote_loop, handles>> /\ ~Before(i)'
        /\ task[i] \in {"relay", "replying"} /\ task'[i] \in {"relay", "replying"}
    BY <1>0, <1>4 DEF R!SendData, R!ReadFromDest, R!At, R!Goto, Before
  <2> QED
    BY <1>1, <2>1 DEF Relaying
<1>5. CASE R!SendClosed(i)
  <2>1. ~Before(i)' /\ ~Relaying(i)'
    BY <1>0, <1>5 DEF R!SendClosed, R!At, R!Goto, Before, Relaying
  <2> QED
    BY <2>1, OwnKept DEF Own, BeforeInv, Follow
<1> QED
  BY <1>2, <1>3, <1>4, <1>5

(* So the invariant is kept by what the tasks and the destinations do.      *)
LEMMA DestTasks ==
  ASSUME TypeInv, DestInv, NEW j \in ConnId,
         RemoteRuns(j) \/ DestAnswers(j) \/ DestSends(j) \/ DestEnds(j) \/ DestAccepts(j)
  PROVE  DestInv'
<1>1. UNCHANGED <<to_remote, sent>>
  BY DEF RemoteRuns, DestAnswers, DestSends, DestEnds, DestAccepts, RemoteOnly, hostVars
<1>2. LoopInv /\ \A i \in ConnId : Own(i)
  BY DEF DestInv, Own
<1>3. /\ task \in [ConnId -> R!TaskState] /\ rx \in [ConnId -> Seq(Payload)]
      /\ hand \in [ConnId -> Payload]
      /\ dest \in [ConnId -> [got : Seq(Byte), sent : 0..MaxReads]]
      /\ remote_loop \in LoopTypes /\ Shard \in [ConnId -> Nat]
  BY TunnelAssumption DEF TypeInv, RemoteInv, EnvInv
<1>4. \/ /\ dest'[j].got = dest[j].got
         /\ \/ R!Refuse(j) \/ R!Announce(j) \/ R!ChannelClosed(j) \/ R!SendData(j)
            \/ R!SendError(j) \/ R!SendClosed(j) \/ R!RemoveHandle(j) \/ R!Connects(j)
            \/ R!DestEof(j) \/ R!DestFails(j) \/ \E d : R!ReadFromDest(j, d)
      \/ R!InsertHandle(j) /\ UNCHANGED dest
      \/ R!TakeFromHost(j) /\ UNCHANGED dest
      \/ R!WriteAll(j) /\ dest' = [dest EXCEPT ![j].got = @ \o hand[j]]
  <2>1. CASE RemoteRuns(j) \/ DestAnswers(j) \/ DestEnds(j) \/ DestAccepts(j)
    BY <2>1 DEF RemoteRuns, DestAnswers, DestEnds, DestAccepts, R!TaskSteps
  <2>2. CASE DestSends(j)
    <3>1. PICK n \in 1..MaxRead :
            /\ R!ReadFromDest(j, [m \in 1..n |-> DownByte(j, dest[j].sent + m)])
            /\ dest' = [dest EXCEPT ![j].sent = @ + n]
      BY <2>2 DEF DestSends
    <3>2. dest'[j].got = dest[j].got
      BY <1>3, <3>1
    <3> QED
      BY <3>1, <3>2
  <2> QED
    BY <2>1, <2>2
<1>5. UNCHANGED remote_loop
  BY <1>4 DEF R!Refuse, R!Announce, R!ChannelClosed, R!SendData, R!SendError, R!SendClosed,
     R!RemoveHandle, R!Connects, R!DestEof, R!DestFails, R!ReadFromDest, R!InsertHandle,
     R!TakeFromHost, R!WriteAll
<1>6. ASSUME NEW i \in ConnId, i # j
      PROVE  /\ task'[i] = task[i] /\ rx'[i] = rx[i] /\ hand'[i] = hand[i]
             /\ i \in handles' <=> i \in handles
  <2>1. CASE R!Refuse(j) \/ R!Announce(j) \/ R!ChannelClosed(j) \/ R!SendData(j) \/ R!SendError(j)
    BY <1>3, <1>6, <2>1
    DEF R!Refuse, R!Announce, R!ChannelClosed, R!SendData, R!SendError, R!Goto
  <2>2. CASE R!SendClosed(j) \/ R!RemoveHandle(j) \/ R!Connects(j) \/ R!DestEof(j)
    BY <1>3, <1>6, <2>2 DEF R!SendClosed, R!RemoveHandle, R!Connects, R!DestEof, R!Goto
  <2>3. CASE R!DestFails(j) \/ (\E d : R!ReadFromDest(j, d)) \/ R!InsertHandle(j)
    BY <1>3, <1>6, <2>3 DEF R!DestFails, R!ReadFromDest, R!InsertHandle, R!Goto
  <2>4. CASE R!TakeFromHost(j) \/ R!WriteAll(j)
    BY <1>3, <1>6, <2>4 DEF R!TakeFromHost, R!WriteAll, R!Goto
  <2> QED
    BY <1>4, <2>1, <2>2, <2>3, <2>4
<1>7. ASSUME NEW i \in ConnId, i # j PROVE dest'[i].got = dest[i].got
  <2>1. CASE DestSends(j)
    <3>1. PICK n : dest' = [dest EXCEPT ![j].sent = @ + n]
      BY <2>1 DEF DestSends
    <3> QED
      BY <1>3, <1>7, <3>1
  <2>2. CASE RemoteRuns(j) \/ DestAnswers(j) \/ DestEnds(j) \/ DestAccepts(j)
    BY <1>3, <1>7, <2>2 DEF RemoteRuns, DestAnswers, DestEnds, DestAccepts
  <2> QED
    BY <2>1, <2>2
<1>8. \A i \in ConnId : i # j => Own(i)'
  BY <1>1, <1>2, <1>5, <1>6, <1>7, OwnOthers
<1>9. Own(j)'
  BY <1>1, <1>2, <1>4, OwnSteps, OwnInserts, OwnTakes, OwnWrites
<1>10. LoopInv'
  <2>1. SUFFICES ASSUME remote_loop.pc \in {"sending", "removing"}, remote_loop.id \notin handles'
                 PROVE  FALSE
    BY <1>5 DEF LoopInv
  <2>2. remote_loop.id \in handles
    BY <1>2, <2>1 DEF LoopInv
  <2>3. R!RemoveHandle(j) \/ handles \subseteq handles'
    BY <1>4 DEF R!Refuse, R!Announce, R!ChannelClosed, R!SendData, R!SendError, R!SendClosed,
       R!Connects, R!DestEof, R!DestFails, R!ReadFromDest, R!InsertHandle,
       R!TakeFromHost, R!WriteAll
  <2>4. R!RemoveHandle(j) /\ remote_loop.id = j
    BY <2>1, <2>2, <2>3 DEF R!RemoveHandle
  <2> QED
    BY <2>1, <2>4 DEF R!RemoveHandle, R!GuardHeld
<1> QED
  BY <1>8, <1>9, <1>10 DEF DestInv, Own

(* A sequence with one item appended.                                       *)
LEMMA ItemAppended ==
  ASSUME NEW S, NEW u \in Seq(S), NEW b \in S
  PROVE  /\ Len(Append(u, b)) = Len(u) + 1 /\ Len(u) \in Nat
         /\ \A n \in DOMAIN Append(u, b) :
              \/ n \in DOMAIN u /\ Append(u, b)[n] = u[n]
              \/ n = Len(u) + 1 /\ Append(u, b)[n] = b
  OBVIOUS

(* The loop passes a block on to the task.                                  *)
LEMMA SendPath ==
  ASSUME TypeInv, NEW i \in ConnId, NEW d \in Payload, R!SendToTask(i, d),
         UNCHANGED <<task, hand, dest>>, R!ReceiverAlive(i),
         NEW a \in Nat, NEW c \in Nat, NEW e \in Nat, NEW z, Path(i, a, c, e, z),
         d = <<UpByte(e)>>
  PROVE  \E x \in Nat : Path(i, a, c, x, e + 1)'
<1> DEFINE q == rx[i]
<1>1. q \in Seq(Payload) /\ rx \in [ConnId -> Seq(Payload)]
  BY DEF TypeInv, RemoteInv
<1>2. /\ \A n \in DOMAIN dest'[i].got : n = Len(dest'[i].got) => dest'[i].got[n][2] + 1 = a
      /\ IF task'[i] = "writing" THEN hand'[i] = <<UpByte(a)>> /\ c = a + 1 ELSE c = a
      /\ e = c + Len(q) /\ \A n \in DOMAIN q : q[n] = <<UpByte(c + n - 1)>>
  BY DEF Path
<1>3. CASE rx' = [rx EXCEPT ![i] = Append(@, d)] /\ remote_loop' = [pc |-> "select"]
  <2> DEFINE r == Append(q, d)
  <2>1. rx'[i] = r /\ ~InLoop(i)'
    BY <1>1, <1>3 DEF InLoop
  <2> HIDE DEF q, r
  <2>2. /\ Len(r) = Len(q) + 1 /\ Len(q) \in Nat
        /\ \A n \in DOMAIN r : \/ n \in DOMAIN q /\ r[n] = q[n]
                               \/ n = Len(q) + 1 /\ r[n] = d
    BY <1>1, ItemAppended DEF r
  <2>3. e + 1 = c + Len(r)
    BY <1>2, <2>2
  <2>4. ASSUME NEW n \in DOMAIN r PROVE r[n] = <<UpByte(c + n - 1)>>
    <3>1. CASE n \in DOMAIN q /\ r[n] = q[n]
      BY <1>2, <3>1
    <3>2. CASE n = Len(q) + 1 /\ r[n] = d
      <4>1. c + n - 1 = e
        BY <1>2, <2>2, <3>2
      <4> QED
        BY <3>2, <4>1
    <3> QED
      BY <2>2, <3>1, <3>2
  <2>5. PICK x \in Nat : x = e + 1
    OBVIOUS
  <2>6. Path(i, a, c, x, x)'
    BY <1>2, <2>1, <2>3, <2>4, <2>5 DEF Path
  <2> QED
    BY <2>5, <2>6
<1>4. CASE UNCHANGED rx /\ remote_loop' = [pc |-> "sending", id |-> i, data |-> d]
  <2>1. InLoop(i)' /\ remote_loop'.data = <<UpByte(e)>> /\ rx'[i] = q
    BY <1>4 DEF InLoop
  <2>2. PICK x \in Nat : x = e + 1
    OBVIOUS
  <2>3. Path(i, a, c, e, x)'
    BY <1>2, <2>1, <2>2 DEF Path
  <2> QED
    BY <2>2, <2>3
<1> QED
  BY <1>3, <1>4 DEF R!SendToTask

(* It touches no other connection.                                          *)
LEMMA SendToTaskOthers ==
  ASSUME TypeInv, NEW i \in ConnId, NEW d, R!SendToTask(i, d)
  PROVE  /\ \A k \in ConnId : k # i => rx'[k] = rx[k] /\ ~InLoop(k)'
         /\ remote_loop'.pc \in {"sending", "removing"} => remote_loop'.id = i
  BY DEF R!SendToTask, InLoop, TypeInv, RemoteInv

(* A blocked send that goes on.                                             *)
LEMMA DestResumes ==
  ASSUME TypeInv, DestInv, LoopResumes
  PROVE  DestInv'
<1>1. /\ UNCHANGED <<to_remote, sent, dest, handles, task, hand>>
      /\ remote_loop.pc = "sending" /\ R!SendToTask(remote_loop.id, remote_loop.data)
  BY DEF LoopResumes, RemoteOnly, hostVars, R!LoopResumes
<1>2. PICK j \in ConnId, d \in Payload : j = remote_loop.id /\ d = remote_loop.data
  BY <1>1 DEF TypeInv, RemoteInv, LoopTypes
<1>3. R!SendToTask(j, d) /\ InLoop(j)
  BY <1>1, <1>2 DEF InLoop
<1>4. LoopInv /\ j \in handles /\ \A i \in ConnId : Own(i)
  BY <1>1, <1>2 DEF DestInv, Own, LoopInv
<1>5. /\ \A k \in ConnId : k # j => rx'[k] = rx[k] /\ ~InLoop(k)' /\ ~InLoop(k)
      /\ remote_loop'.pc \in {"sending", "removing"} => remote_loop'.id = j
  BY <1>2, <1>3, SendToTaskOthers DEF InLoop
<1>6. LoopInv'
  BY <1>1, <1>4, <1>5 DEF LoopInv
<1>7. ASSUME NEW i \in ConnId, i # j PROVE Own(i)'
  <2>1. Run(dest'[i].got) /\ BeforeInv(i)'
    BY <1>1, <1>4, <1>5, <1>7 DEF Own, BeforeInv, Before
  <2>2. Relaying(i)' => Relaying(i)
    BY <1>1 DEF Relaying
  <2>3. ASSUME NEW y \in Nat, Follow(i, y) PROVE Follow(i, y)'
    BY <1>1, <1>5, <1>7, <2>2, <2>3, FollowKept
  <2> QED
    BY <1>1, <1>4, <2>1, <2>3, OwnKept
<1>8. Own(j)'
  <2>1. Own(j) /\ ~Before(j) /\ ~Before(j)'
    BY <1>1, <1>4 DEF Own, BeforeInv, Before
  <2>2. Run(dest'[j].got) /\ BeforeInv(j)'
    BY <1>1, <2>1 DEF Own, BeforeInv
  <2>3. ASSUME NEW y \in Nat, Follow(j, y) PROVE Follow(j, y)'
    <3>1. SUFFICES ASSUME Relaying(j) PROVE Follow(j, y)'
      BY <1>1 DEF Follow, Relaying
    <3>2. PICK a \in Nat, c \in Nat, e \in Nat, z \in Nat :
            Path(j, a, c, e, z) /\ (j \in handles => z = y)
      BY <2>3, <3>1 DEF Follow
    <3>3. d = <<UpByte(e)>> /\ z = e + 1
      BY <1>2, <1>3, <3>2 DEF Path
    <3>4. R!ReceiverAlive(j)
      BY <3>1 DEF R!ReceiverAlive, Relaying
    <3>5. PICK x \in Nat : Path(j, a, c, x, e + 1)'
      BY <1>1, <1>3, <3>2, <3>3, <3>4, SendPath
    <3>6. PICK w \in Nat : w = e + 1
      OBVIOUS
    <3>7. Path(j, a, c, x, w)' /\ (j \in handles' => w = y)
      BY <1>1, <3>2, <3>3, <3>5, <3>6
    <3> QED
      BY <3>7 DEF Follow
  <2> QED
    BY <1>1, <2>1, <2>2, <2>3, OwnKept
<1> QED
  BY <1>6, <1>7, <1>8 DEF DestInv, Own

(* A message of the host that the remote takes.                             *)
LEMMA DestTakes ==
  ASSUME ProtocolInv, DestInv, RemoteTakes
  PROVE  DestInv'
<1>1. /\ to_remote # <<>> /\ to_remote' = Tail(to_remote) /\ R!HandleHostMessage(Head(to_remote))
      /\ UNCHANGED <<sent, dest>>
  BY DEF RemoteTakes, SendToRemote
<1>2. /\ TypeInv /\ ToRemoteInv /\ to_remote \in Seq(HostMessage) /\ sent \in Seq(HostMessage)
      /\ \A i \in ConnId : Own(i)
  BY UpTypes DEF ProtocolInv, ProtoInv, DestInv, Own
<1>3. PICK m \in HostMessage : m = Head(to_remote) /\ m = to_remote[1] /\ 1 \in DOMAIN to_remote
  BY <1>1, <1>2, HeadTail
<1>4. R!HandleHostMessage(m) /\ remote_loop.pc = "select" /\ \A i \in ConnId : ~InLoop(i)
  BY <1>1, <1>3 DEF R!HandleHostMessage, InLoop
<1>5. PICK j \in ConnId : j = m.id
  BY DEF HostMessage
<1>6. /\ task \in [ConnId -> R!TaskState] /\ rx \in [ConnId -> Seq(Payload)]
      /\ hand \in [ConnId -> Payload]
  BY <1>2 DEF TypeInv, RemoteInv
(* Another message, or a message of another connection. *)
<1>7. ASSUME NEW i \in ConnId, ~IsData(m, i),
             Run(dest'[i].got), BeforeInv(i)', \A y \in Nat : Follow(i, y) => Follow(i, y)'
      PROVE  Own(i)'
  <2>1. PICK l \in Nat : l = Len(Passed(sent, i))
    <3>1. Passed(sent, i) \in Seq(Byte)
      BY <1>2, PassedType
    <3> HIDE DEF Passed
    <3> QED
      BY <3>1
  <2>2. PICK y \in Nat \ {0} : y <= l + 1 /\ Waiting(i, y, l) /\ Follow(i, y)
    BY <1>2, <2>1 DEF Own, Between
  <2>3. Waiting(i, y, l)'
    BY <1>1, <1>2, <1>3, <1>7, <2>2, WaitingLess
  <2>4. sent' = sent /\ Follow(i, y)'
    BY <1>1, <1>7, <2>2
  <2>5. Between(i)'
    BY <2>1, <2>2, <2>3, <2>4 DEF Between, Waiting, Carried
  <2> QED
    BY <1>7, <2>5 DEF Own
<1>8. CASE R!OnTcpConnect(m)
  <2>1. /\ UNCHANGED <<handles, rx, hand, remote_loop>> /\ m.type = "TcpConnect"
        /\ \A i \in ConnId : task'[i] = IF i = j THEN "connecting" ELSE task[i]
    BY <1>5, <1>6, <1>8 DEF R!OnTcpConnect, R!Goto
  <2>2. task[j] = "none"
    BY <1>2, <1>3, <1>5, <2>1 DEF ToRemoteInv
  <2>3. ASSUME NEW i \in ConnId PROVE Own(i)'
    <3>1. ~IsData(m, i)
      BY <2>1 DEF IsData
    <3>2. /\ Before(i)' => Before(i)
          /\ Relaying(i)' => Relaying(i)
          /\ task'[i] = "writing" <=> task[i] = "writing"
          /\ InLoop(i)' <=> InLoop(i)
      BY <2>1, <2>2 DEF Before, Relaying, InLoop
    <3>3. Run(dest'[i].got) /\ BeforeInv(i)'
      BY <1>1, <1>2, <2>1, <3>2 DEF Own, BeforeInv
    <3>4. ASSUME NEW y \in Nat, Follow(i, y) PROVE Follow(i, y)'
      BY <1>1, <2>1, <3>2, <3>4, FollowKept
    <3> QED
      BY <1>7, <3>1, <3>3, <3>4
  <2>4. LoopInv'
    BY <1>4, <2>1 DEF LoopInv
  <2> QED
    BY <2>3, <2>4 DEF DestInv, Own
<1>9. CASE R!OnTcpClose(m)
  <2>1. /\ UNCHANGED <<task, rx, hand, remote_loop>> /\ m.type = "TcpClose"
        /\ handles' \subseteq handles
    BY <1>9 DEF R!OnTcpClose
  <2>2. ASSUME NEW i \in ConnId PROVE Own(i)'
    <3>1. ~IsData(m, i)
      BY <2>1 DEF IsData
    <3>2. /\ Before(i)' => Before(i)
          /\ Relaying(i)' => Relaying(i)
          /\ InLoop(i)' <=> InLoop(i)
      BY <2>1 DEF Before, Relaying, InLoop
    <3>3. Run(dest'[i].got) /\ BeforeInv(i)'
      BY <1>1, <1>2, <2>1, <3>2 DEF Own, BeforeInv
    <3>4. ASSUME NEW y \in Nat, Follow(i, y) PROVE Follow(i, y)'
      BY <1>1, <2>1, <3>2, <3>4, FollowKept
    <3> QED
      BY <1>7, <3>1, <3>3, <3>4
  <2>3. LoopInv'
    BY <1>4, <2>1 DEF LoopInv
  <2> QED
    BY <2>2, <2>3 DEF DestInv, Own
<1>10. CASE R!OnTcpData(m)
  <2>1. /\ UNCHANGED <<handles, task, hand>> /\ m.type = "TcpData"
        /\ IF j \in handles THEN R!SendToTask(j, m.data) ELSE UNCHANGED <<rx, remote_loop>>
    BY <1>5, <1>10 DEF R!OnTcpData
  <2>2. PICK d \in Payload : d = m.data
    BY <2>1 DEF HostMessage
  <2>3. /\ \A k \in ConnId : k # j => rx'[k] = rx[k] /\ ~InLoop(k)'
        /\ remote_loop'.pc \in {"sending", "removing"} => remote_loop'.id = j /\ j \in handles
        /\ j \notin handles => UNCHANGED <<rx, remote_loop>>
        /\ j \in handles => R!SendToTask(j, d)
    BY <1>2, <1>4, <2>1, <2>2, SendToTaskOthers DEF InLoop
  <2>4. LoopInv'
    BY <2>1, <2>3 DEF LoopInv
  <2>5. ASSUME NEW i \in ConnId, i # j PROVE Own(i)'
    <3>1. ~IsData(m, i)
      BY <1>5, <2>5 DEF IsData
    <3>2. /\ Before(i)' => Before(i)
          /\ Relaying(i)' => Relaying(i)
          /\ InLoop(i)' <=> InLoop(i)
      BY <1>4, <2>1, <2>3, <2>5 DEF Before, Relaying
    <3>3. Run(dest'[i].got) /\ BeforeInv(i)'
      BY <1>1, <1>2, <2>1, <2>3, <2>5, <3>2 DEF Own, BeforeInv
    <3>4. ASSUME NEW y \in Nat, Follow(i, y) PROVE Follow(i, y)'
      BY <1>1, <1>4, <2>1, <2>3, <2>5, <3>2, <3>4, FollowKept
    <3> QED
      BY <1>7, <3>1, <3>3, <3>4
  <2>6. Own(j)'
    <3>1. IsData(m, j) /\ IsData(to_remote[1], j) /\ Own(j)
      BY <1>2, <1>3, <1>5, <2>1 DEF IsData
    <3>2. Run(dest'[j].got)
      BY <1>1, <3>1 DEF Own
    <3>3. BeforeInv(j)'
      <4>1. SUFFICES ASSUME Before(j) PROVE BeforeInv(j)'
        BY <2>1 DEF BeforeInv, Before
      <4>2. j \notin handles /\ rx[j] = <<>> /\ dest[j].got = <<>>
        BY <3>1, <4>1 DEF Own, BeforeInv
      <4> QED
        BY <1>1, <2>1, <2>3, <4>2 DEF BeforeInv
    <3>4. PICK l \in Nat : l = Len(Passed(sent, j))
      <4>1. Passed(sent, j) \in Seq(Byte)
        BY <1>2, PassedType
      <4> HIDE DEF Passed
      <4> QED
        BY <4>1
    <3>5. PICK y \in Nat \ {0} : y <= l + 1 /\ Waiting(j, y, l) /\ Follow(j, y)
      BY <3>1, <3>4 DEF Own, Between
    <3>6. PICK x \in Nat \ {0} : x = y + 1
      OBVIOUS
    <3>7. Carried(1, j, y) /\ y <= l /\ Waiting(j, x, l)'
      BY <1>1, <1>2, <3>1, <3>5, <3>6, WaitingLess
    <3>8. d = <<UpByte(y)>>
      BY <1>3, <2>2, <3>7 DEF Carried
    <3>9. Follow(j, x)'
      <4>1. SUFFICES ASSUME Relaying(j) PROVE Follow(j, x)'
        BY <2>1 DEF Follow, Relaying
      <4>2. PICK a \in Nat, c \in Nat, e \in Nat, z \in Nat :
              Path(j, a, c, e, z) /\ (j \in handles => z = y)
        BY <3>5, <4>1 DEF Follow
      <4>3. CASE j \in handles
        <5>1. z = y /\ e = y
          BY <1>4, <4>2, <4>3 DEF Path
        <5>2. R!ReceiverAlive(j)
          BY <4>1 DEF R!ReceiverAlive, Relaying
        <5>3. UNCHANGED <<task, hand, dest>> /\ R!SendToTask(j, d) /\ d = <<UpByte(e)>>
          BY <1>1, <2>1, <2>3, <3>8, <4>3, <5>1
        <5>4. PICK w \in Nat : Path(j, a, c, w, e + 1)'
          BY <1>2, <4>2, <5>2, <5>3, SendPath
        <5>5. e + 1 = x
          BY <3>6, <5>1
        <5>6. PICK v \in Nat : v = e + 1 /\ v = x
          BY <5>5
        <5>7. Path(j, a, c, w, v)'
          BY <5>4, <5>6
        <5> QED
          BY <5>6, <5>7 DEF Follow
      <4>4. CASE j \notin handles
        <5>1. UNCHANGED <<rx, remote_loop, task, hand, dest, handles>>
          BY <1>1, <2>1, <2>3, <4>4
        <5>2. Path(j, a, c, e, z)'
          BY <4>2, <5>1, PathKept DEF InLoop
        <5> QED
          BY <4>4, <5>1, <5>2 DEF Follow
      <4> QED
        BY <4>3, <4>4
    <3>10. x <= l + 1 /\ sent' = sent
      BY <1>1, <3>6, <3>7
    <3>11. Between(j)'
      BY <3>4, <3>7, <3>9, <3>10 DEF Between, Waiting, Carried
    <3> QED
      BY <3>2, <3>3, <3>11 DEF Own
  <2> QED
    BY <2>4, <2>5, <2>6 DEF DestInv, Own
<1> QED
  BY <1>4, <1>8, <1>9, <1>10 DEF R!HandleHostMessage

(* A step that touches none of this keeps it.                               *)
LEMMA DestQuiet ==
  ASSUME DestInv, UNCHANGED <<handles, task, rx, hand, remote_loop, dest, to_remote, sent>>
  PROVE  DestInv'
<1>1. LoopInv'
  BY DEF DestInv, LoopInv
<1>2. ASSUME NEW i \in ConnId PROVE Own(i)'
  <2>1. Own(i) /\ Run(dest'[i].got) /\ BeforeInv(i)'
    BY DEF DestInv, Own, BeforeInv, Before
  <2>2. (Relaying(i)' => Relaying(i)) /\ (InLoop(i)' <=> InLoop(i))
    BY DEF Relaying, InLoop
  <2>3. ASSUME NEW y \in Nat, Follow(i, y) PROVE Follow(i, y)'
    BY <2>2, <2>3, FollowKept
  <2> QED
    BY <2>1, <2>3, OwnKept
<1> QED
  BY <1>1, <1>2 DEF DestInv, Own

(* Every step keeps it.                                                     *)
LEMMA NextDestInv ==
  ASSUME ProtocolInv, TypeInv', AcksInv, OrderInv, OrderInv', DestInv, [TunnelNext]_tunnelVars
  PROVE  DestInv'
<1>1. TypeInv
  BY DEF ProtocolInv
<1>2. CASE AppNext
  <2>1. UNCHANGED remoteVars /\ UNCHANGED <<dest, to_remote, sent>>
    BY <1>2 DEF AppNext, AppConnects, AppSends, AppCloses, AppSendsAndCloses, AppResets,
       AppRetransmits, AppOnly, AppReceives, WriteToTun, TunDrops, hostVars
  <2> QED
    BY <2>1, DestQuiet DEF remoteVars
<1>3. CASE HostReads
  BY <1>1, <1>3, DestReads
<1>4. CASE HostTakes
  <2>1. UNCHANGED <<handles, task, rx, hand, remote_loop, dest, sent, to_remote>>
    BY <1>4, TakesKeepsAcks DEF HostTakes, R!WriteResponse
  <2> QED
    BY <2>1, DestQuiet
<1>5. CASE RemoteNext
  BY <1>1, <1>5, DestTakes, DestResumes, DestTasks DEF RemoteNext
<1>6. CASE UNCHANGED tunnelVars
  BY <1>6, DestQuiet DEF tunnelVars, remoteVars, hostVars
<1> QED
  BY <1>2, <1>3, <1>4, <1>5, <1>6 DEF TunnelNext

(* It holds at the start.                                                   *)
LEMMA InitDestInv ==
  ASSUME TunnelInit
  PROVE  DestInv
<1>1. /\ to_remote = <<>> /\ sent = <<>> /\ handles = {} /\ remote_loop.pc = "select"
      /\ \A i \in ConnId : task[i] = "none" /\ rx[i] = <<>> /\ dest[i].got = <<>>
  BY DEF TunnelInit, HostInit, R!RemoteInit
<1>2. ASSUME NEW i \in ConnId PROVE Own(i)
  <2>1. Run(dest[i].got) /\ BeforeInv(i)
    BY <1>1 DEF Run, BeforeInv
  <2>2. Len(Passed(sent, i)) = 0
    BY <1>1, PassedNothing
  <2>3. Waiting(i, 1, 0) /\ Follow(i, 1)
    BY <1>1 DEF Waiting, Follow, Relaying
  <2>4. Between(i)
    BY <2>2, <2>3 DEF Between
  <2> QED
    BY <2>1, <2>4 DEF Own
<1> QED
  BY <1>1, <1>2 DEF DestInv, Own, LoopInv

(* Each destination receives a run of consecutive bytes of the stream: a    *)
(* block may be missing before the first it gets, while its task starts, or *)
(* after the last, but none between (remote/mod.rs:186-238, :120-182).      *)
THEOREM LosslessDelivery ==
  ASSUME MaxSyns = 1, MaxDrops = 0
  PROVE  TunnelSpec => []DestReadsRun
<1> DEFINE UpInv == ProtocolInv /\ AcksInv /\ QueueInv /\ OrderInv /\ DestInv
<1>1. TunnelInit => UpInv
  BY InitProtocolInv, InitAcksInv, InitQueueInv, InitDestInv
<1>2. UpInv /\ [TunnelNext]_tunnelVars => UpInv'
  <2>1. ASSUME UpInv, [TunnelNext]_tunnelVars
        PROVE  ProtocolInv' /\ AcksInv' /\ QueueInv' /\ OrderInv' /\ DestInv'
    <3>1. ProtocolInv'
      BY <2>1, NextProtocolInv
    <3>2. TypeInv'
      BY <3>1 DEF ProtocolInv
    <3>3. AcksInv' /\ QueueInv' /\ OrderInv'
      BY <2>1, <3>2, NextAcksInv, NextQueueInv
    <3> QED
      BY <2>1, <3>1, <3>2, <3>3, NextDestInv
  <2> QED
    BY <2>1
<1>3. UpInv => DestReadsRun
  BY DEF DestInv, Run, DestReadsRun
<1> HIDE DEF UpInv
<1> QED
  BY <1>1, <1>2, <1>3, PTL DEF TunnelSpec
=============================================================================
