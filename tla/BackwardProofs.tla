--------------------------- MODULE BackwardProofs ---------------------------
(***************************************************************************)
(* The way down, from a destination to its application: ReadsOneStream,     *)
(* EofAfterAllData and SeqAgrees of Tunnel, for any number of connections,  *)
(* bytes, retransmissions and dropped packets, with one SYN per connection  *)
(* attempt.                                                                *)
(*                                                                         *)
(* The argument counts what a connection has said: its SYN, its bytes, its  *)
(* FIN.  The application has read up to a count, the packets on their way   *)
(* to it lead from there to the one the table holds, the responses on their *)
(* way to the host lead on from the table to what the task has said         *)
(* (Leads, Onward), and every block on this trail is the destination's      *)
(* bytes from that count on (Block).  A packet's sequence number is the     *)
(* count it starts from (OnWire), so each is taken in its turn.             *)
(***************************************************************************)
EXTENDS ForwardProofs

-----------------------------------------------------------------------------
(* Sequence numbers that wrap.                                              *)

(* A number has one remainder.                                              *)
LEMMA OneRemainder ==
  ASSUME NEW s \in Nat \ {0}, NEW r \in 0..(s - 1), NEW t \in 0..(s - 1),
         NEW a \in Int, NEW b \in Int,
         NEW c \in Int, c = a * s, NEW d \in Int, d = b * s, c + r = d + t
  PROVE  r = t
<1>1. CASE a = b
  BY <1>1
<1>2. CASE a + 1 <= b
  <2>1. (a + 1) * s <= b * s
    BY <1>2, TimesMonotone
  <2>2. (a + 1) * s = a * s + s
    OBVIOUS
  <2> QED
    BY <2>1, <2>2
<1>3. CASE b + 1 <= a
  <2>1. (b + 1) * s <= a * s
    BY <1>3, TimesMonotone
  <2>2. (b + 1) * s = b * s + s
    OBVIOUS
  <2> QED
    BY <2>1, <2>2
<1> QED
  BY <1>1, <1>2, <1>3

(* Quotient and remainder.                                                  *)
LEMMA DivMod ==
  ASSUME NEW s \in Nat \ {0}, NEW a \in Int
  PROVE  \E x \in Int, r \in 0..(s - 1) : r = a % s /\ a = x * s + r
<1>1. a % s \in 0..(s - 1) /\ a \div s \in Int
  OBVIOUS
<1>2. a = (a \div s) * s + (a % s)
  OBVIOUS
<1> QED
  BY <1>1, <1>2

(* Rounding down is less than one divisor off.                              *)
LEMMA Quotient ==
  ASSUME NEW s \in Nat \ {0}, NEW a \in Int
  PROVE  a \div s \in Int /\ (a \div s) * s <= a /\ a < (a \div s) * s + s
<1>1. a % s \in 0..(s - 1) /\ a \div s \in Int
  OBVIOUS
<1>2. a = (a \div s) * s + (a % s)
  OBVIOUS
<1>3. (a \div s) * s \in Int
  BY <1>1
<1> QED
  BY <1>1, <1>2, <1>3

(* A remainder taken before an addition makes no difference after it.       *)
LEMMA RemainderTwice ==
  ASSUME NEW s \in Nat \ {0}, NEW a \in Int, NEW b \in Int
  PROVE  ((a % s) + b) % s = (a + b) % s
<1>1. PICK x \in Int, r \in 0..(s - 1) : r = a % s /\ a = x * s + r
  BY DivMod
<1>2. r + b \in Int /\ a + b \in Int
  BY <1>1
<1>3. PICK y \in Int, t \in 0..(s - 1) : t = (r + b) % s /\ r + b = y * s + t
  BY <1>2, DivMod
<1>4. PICK z \in Int, u \in 0..(s - 1) : u = (a + b) % s /\ a + b = z * s + u
  BY <1>2, DivMod
<1>5. (x + y) * s + t = z * s + u
  <2>1. (x + y) * s = x * s + y * s
    BY <1>1, <1>3
  <2>2. /\ x * s \in Int /\ y * s \in Int /\ z * s \in Int
        /\ r \in Int /\ t \in Int /\ u \in Int
    BY <1>1, <1>3, <1>4
  <2> QED
    BY <1>1, <1>3, <1>4, <2>1, <2>2
<1>6. PICK v \in Int : v = x + y
  BY <1>1, <1>3
<1>7. PICK c \in Int, d \in Int : c = v * s /\ d = z * s
  BY <1>4, <1>6
<1>8. c + t = d + u
  BY <1>5, <1>6, <1>7
<1>9. t \in 0..(s - 1) /\ u \in 0..(s - 1) /\ z \in Int
  BY <1>3, <1>4
<1>10. t = u
  BY ONLY s \in Nat \ {0}, <1>6, <1>7, <1>8, <1>9, OneRemainder
<1> QED
  BY <1>1, <1>3, <1>4, <1>10

(* The host may wrap after every packet: the sum is the same (nat.rs:171).  *)
LEMMA WrappingTwice ==
  ASSUME NEW a \in Nat, NEW b \in Nat
  PROVE  /\ WrappingAdd(WrappingAdd(HostIsn, a), b) = WrappingAdd(HostIsn, a + b)
         /\ WrappingAdd(HostIsn, 0) = HostIsn
         /\ WrappingAdd(HostIsn, a) \in SeqNum
<1>1. SeqSpace \in Nat \ {0} /\ HostIsn \in 0..(SeqSpace - 1)
  BY NatAssumption
<1>2. WrappingAdd(HostIsn, a) \in SeqNum
  BY <1>1, WrappingAddType
<1>3. WrappingAdd(HostIsn, 0) = HostIsn
  BY <1>1 DEF WrappingAdd
<1>4. (((HostIsn + a) % SeqSpace) + b) % SeqSpace = ((HostIsn + a) + b) % SeqSpace
  <2>1. HostIsn \in Int /\ a \in Int /\ b \in Int
    BY <1>1
  <2>2. PICK h \in Int : h = HostIsn + a
    BY <2>1
  <2>3. ((h % SeqSpace) + b) % SeqSpace = (h + b) % SeqSpace
    BY <1>1, <2>1, <2>2, RemainderTwice
  <2> QED
    BY <2>2, <2>3
<1>5. (HostIsn + a) + b = HostIsn + (a + b)
  BY <1>1
<1> QED
  BY <1>2, <1>3, <1>4, <1>5 DEF WrappingAdd

-----------------------------------------------------------------------------
(* Walks: each item of a queue moves a counter.                             *)

(* W says which item moves the counter from where to where.                 *)
Walk(q, W, x) ==
  /\ x \in [1..(Len(q) + 1) -> Nat]
  /\ \A n \in DOMAIN q : <<q[n], x[n], x[n + 1]>> \in W

(* The items of q, in their order, move the counter from a to b.            *)
Leads(q, W, a, b) == \E x : Walk(q, W, x) /\ x[1] = a /\ x[Len(q) + 1] = b

(* A walk begins and ends at a number.                                      *)
LEMMA LeadsTypes ==
  ASSUME NEW S, NEW q \in Seq(S), NEW W, NEW a, NEW b, Leads(q, W, a, b)
  PROVE  a \in Nat /\ b \in Nat
<1>1. PICK x : Walk(q, W, x) /\ x[1] = a /\ x[Len(q) + 1] = b
  BY DEF Leads
<1>2. Len(q) \in Nat
  OBVIOUS
<1>3. 1 \in 1..(Len(q) + 1) /\ Len(q) + 1 \in 1..(Len(q) + 1)
  BY <1>2
<1> QED
  BY <1>1, <1>3 DEF Walk

(* Items that leave the counter alone.                                      *)
LEMMA LeadsStill ==
  ASSUME NEW S, NEW q \in Seq(S), NEW W, NEW a \in Nat,
         \A n \in DOMAIN q : <<q[n], a, a>> \in W
  PROVE  Leads(q, W, a, a)
<1> DEFINE x == [n \in 1..(Len(q) + 1) |-> a]
<1>1. Len(q) \in Nat /\ DOMAIN q = 1..Len(q)
  OBVIOUS
<1>2. \A n \in DOMAIN q : x[n] = a /\ x[n + 1] = a
  BY <1>1
<1>3. x \in [1..(Len(q) + 1) -> Nat] /\ x[1] = a /\ x[Len(q) + 1] = a
  BY <1>1
<1> HIDE DEF x
<1>4. Walk(q, W, x)
  BY <1>2, <1>3 DEF Walk
<1> QED
  BY <1>3, <1>4 DEF Leads

(* One item.                                                                *)
LEMMA LeadsOne ==
  ASSUME NEW W, NEW p, NEW a \in Nat, NEW b \in Nat, <<p, a, b>> \in W
  PROVE  Leads(<<p>>, W, a, b)
<1> DEFINE x == [n \in 1..2 |-> IF n = 1 THEN a ELSE b]
           q == <<p>>
<1>1. Len(q) = 1 /\ DOMAIN q = {1} /\ q[1] = p
  OBVIOUS
<1>2. x \in [1..2 -> Nat] /\ x[1] = a /\ x[2] = b
  OBVIOUS
<1> HIDE DEF x, q
<1>3. Len(q) + 1 = 2 /\ 1 + 1 = 2
  BY <1>1
<1>4. Walk(q, W, x)
  BY <1>1, <1>2, <1>3 DEF Walk
<1>5. Leads(q, W, a, b)
  BY <1>2, <1>3, <1>4 DEF Leads
<1> QED
  BY <1>5 DEF q

(* A relation that allows more allows the same walks.                       *)
LEMMA LeadsWider ==
  ASSUME NEW q, NEW W, NEW V, NEW a, NEW b, Leads(q, W, a, b),
         \A n \in DOMAIN q : \A c, d \in Nat : <<q[n], c, d>> \in W => <<q[n], c, d>> \in V,
         DOMAIN q = 1..Len(q), Len(q) \in Nat
  PROVE  Leads(q, V, a, b)
<1>1. PICK x : Walk(q, W, x) /\ x[1] = a /\ x[Len(q) + 1] = b
  BY DEF Leads
<1>2. \A n \in DOMAIN q : n \in 1..(Len(q) + 1) /\ n + 1 \in 1..(Len(q) + 1)
  OBVIOUS
<1>3. \A n \in DOMAIN q : x[n] \in Nat /\ x[n + 1] \in Nat
  BY <1>1, <1>2 DEF Walk
<1>4. Walk(q, V, x)
  BY <1>1, <1>3 DEF Walk
<1> QED
  BY <1>1, <1>4 DEF Leads

(* The first item is taken.                                                 *)
LEMMA LeadsTail ==
  ASSUME NEW S, NEW q \in Seq(S), q # <<>>, NEW W, NEW a, NEW b, Leads(q, W, a, b)
  PROVE  \E c \in Nat : <<Head(q), a, c>> \in W /\ Leads(Tail(q), W, c, b)
<1>1. PICK x : Walk(q, W, x) /\ x[1] = a /\ x[Len(q) + 1] = b
  BY DEF Leads
<1>2. PICK l \in Nat : l = Len(q) /\ l >= 1
  OBVIOUS
<1>3. PICK r \in Seq(S) : /\ r = Tail(q) /\ Len(r) = l - 1
                          /\ \A n \in DOMAIN r : n + 1 \in DOMAIN q /\ r[n] = q[n + 1]
  <2>1. /\ Tail(q) \in Seq(S) /\ Len(Tail(q)) = Len(q) - 1
        /\ \A n \in DOMAIN Tail(q) : n + 1 \in DOMAIN q /\ Tail(q)[n] = q[n + 1]
    BY HeadTail
  <2> QED
    BY <1>2, <2>1
<1>4. Head(q) = q[1] /\ 1 \in DOMAIN q
  BY HeadTail
<1> DEFINE z == [n \in 1..l |-> x[n + 1]]
<1>5. \A n \in 1..l : n + 1 \in 1..(l + 1) /\ x[n + 1] \in Nat
  BY <1>1, <1>2 DEF Walk
<1>6. z \in [1..l -> Nat] /\ z[1] = x[2] /\ z[l] = b /\ x[2] \in Nat
  BY <1>1, <1>2, <1>5
<1>7. \A n \in DOMAIN r : z[n] = x[n + 1] /\ z[n + 1] = x[(n + 1) + 1]
  BY <1>2, <1>3
<1> HIDE DEF z
<1>8. Walk(r, W, z)
  <2>1. Len(r) + 1 = l
    BY <1>2, <1>3
  <2>2. \A n \in DOMAIN r : <<r[n], z[n], z[n + 1]>> \in W
    BY <1>1, <1>3, <1>7 DEF Walk
  <2> QED
    BY <1>6, <2>1, <2>2 DEF Walk
<1>9. Leads(r, W, x[2], b)
  <2>1. Len(r) + 1 = l
    BY <1>2, <1>3
  <2> QED
    BY <1>6, <1>8, <2>1 DEF Leads
<1>10. <<Head(q), a, x[2]>> \in W
  <2>1. 1 + 1 = 2
    OBVIOUS
  <2> QED
    BY <1>1, <1>4, <2>1 DEF Walk
<1> QED
  BY <1>3, <1>6, <1>9, <1>10

(* One queue after another.                                                 *)
LEMMA LeadsMore ==
  ASSUME NEW S, NEW q \in Seq(S), NEW r \in Seq(S), NEW W, NEW a, NEW b, NEW c,
         Leads(q, W, a, b), Leads(r, W, b, c)
  PROVE  Leads(q \o r, W, a, c)
<1>1. PICK x : Walk(q, W, x) /\ x[1] = a /\ x[Len(q) + 1] = b
  BY DEF Leads
<1>2. PICK y : Walk(r, W, y) /\ y[1] = b /\ y[Len(r) + 1] = c
  BY DEF Leads
<1>3. PICK l \in Nat, m \in Nat : l = Len(q) /\ m = Len(r)
  OBVIOUS
<1>4. PICK s \in Seq(S) : /\ s = q \o r /\ Len(s) = l + m /\ DOMAIN s = 1..(l + m)
                          /\ \A n \in 1..(l + m) :
                               s[n] = IF n <= l THEN q[n] ELSE r[n - l]
  <2>1. q \o r \in Seq(S) /\ Len(q \o r) = Len(q) + Len(r)
    OBVIOUS
  <2>2. \A n \in 1..(Len(q) + Len(r)) :
          (q \o r)[n] = IF n <= Len(q) THEN q[n] ELSE r[n - Len(q)]
    OBVIOUS
  <2>3. DOMAIN (q \o r) = 1..(Len(q) + Len(r))
    BY <2>1
  <2> QED
    BY <1>3, <2>1, <2>2, <2>3
<1> DEFINE z == [n \in 1..(l + m + 1) |-> IF n <= l THEN x[n] ELSE y[n - l]]
<1>5. /\ DOMAIN q = 1..l /\ DOMAIN r = 1..m
      /\ \A n \in 1..(l + 1) : x[n] \in Nat
      /\ \A n \in 1..(m + 1) : y[n] \in Nat
  <2>1. DOMAIN q = 1..l /\ DOMAIN r = 1..m
    BY <1>3
  <2>2. x \in [1..(l + 1) -> Nat]
    BY <1>1, <1>3 DEF Walk
  <2>3. y \in [1..(m + 1) -> Nat]
    BY <1>2, <1>3 DEF Walk
  <2> QED
    BY <2>1, <2>2, <2>3
<1>6. z \in [1..(l + m + 1) -> Nat]
  BY <1>5
<1>7. z[1] = a /\ z[l + m + 1] = c
  <2>1. CASE l = 0
    BY <1>1, <1>2, <1>3, <2>1
  <2>2. CASE l > 0
    <3>1. z[1] = x[1]
      BY <2>2
    <3>2. z[l + m + 1] = y[m + 1]
      <4>1. (l + m + 1) - l = m + 1 /\ l + m + 1 \in 1..(l + m + 1) /\ ~(l + m + 1 <= l)
        OBVIOUS
      <4> QED
        BY <4>1
    <3> QED
      BY <1>1, <1>2, <1>3, <3>1, <3>2
  <2> QED
    BY <2>1, <2>2
<1>8. ASSUME NEW n \in 1..(l + m)
      PROVE  <<s[n], z[n], z[n + 1]>> \in W
  <2>1. CASE n < l
    <3>1. z[n] = x[n] /\ z[n + 1] = x[n + 1] /\ s[n] = q[n]
      BY <1>4, <2>1
    <3> QED
      BY <1>1, <1>5, <2>1, <3>1 DEF Walk
  <2>2. CASE n = l
    <3>1. z[n] = x[n] /\ s[n] = q[n]
      BY <1>4, <2>2
    <3>2. z[n + 1] = x[n + 1]
      <4>1. z[n + 1] = y[1]
        BY <2>2
      <4> QED
        BY <1>1, <1>2, <1>3, <2>2, <4>1
    <3> QED
      <4>1. n \in DOMAIN q
        BY <1>5, <2>2
      <4> QED
        BY <1>1, <3>1, <3>2, <4>1 DEF Walk
  <2>3. CASE n > l
    <3>1. PICK j \in 1..m : j = n - l
      BY <2>3
    <3>2. z[n] = y[j] /\ z[n + 1] = y[j + 1] /\ s[n] = r[j]
      BY <1>4, <2>3, <3>1, SMTT(30)
    <3> QED
      BY <1>2, <1>5, <3>1, <3>2 DEF Walk
  <2> QED
    BY <2>1, <2>2, <2>3
<1> HIDE DEF z
<1>9. Walk(s, W, z)
  BY <1>4, <1>6, <1>8 DEF Walk
<1>10. Leads(s, W, a, c)
  BY <1>4, <1>7, <1>9 DEF Leads
<1> QED
  BY <1>4, <1>10

-----------------------------------------------------------------------------
(* The way down: what a connection's packets and responses say.             *)

(* A connection counts its SYN, the bytes of its destination and its FIN:   *)
(* the SYN takes the count from 0 to 1, byte n from n to n + 1.  On the     *)
(* wire the count is added to the host's initial sequence number.           *)
OnWire(a) == WrappingAdd(HostIsn, a)

(* The bytes of connection i's destination, from byte a on.                 *)
Block(i, b, a) == \A j \in DOMAIN b : b[j] = DownByte(i, a + j - 1)

Early(i) == task[i] \in {"none", "connecting", "announcing", "refused"}
Ended(i) == task[i] \in {"removing", "done"}

(* A packet of connection i moves the count from a to b, where d bytes have *)
(* been read from the destination and e says that its task has ended.       *)
Opening(p, a, b) ==
  p.flags = {"syn", "ack"} /\ p.ack = 1 /\ p.payload = <<>> /\ a = 0 /\ b = 1
Carrying(p, i, d, a, b) ==
  /\ "syn" \notin p.flags /\ "fin" \notin p.flags
  /\ a >= 1 /\ b = a + Len(p.payload) /\ Block(i, p.payload, a)
  /\ p.payload # <<>> => b <= d + 1
Finishing(p, d, e, a, b) ==
  p.flags = {"fin", "ack"} /\ p.payload = <<>> /\ a = d + 1 /\ b = d + 2 /\ e

PacketMove(p, k, i, d, e, a, b) ==
  IF p.key = k /\ "rst" \notin p.flags
  THEN /\ p.seq = OnWire(a)
       /\ Opening(p, a, b) \/ Carrying(p, i, d, a, b) \/ Finishing(p, d, e, a, b)
  ELSE b = a /\ (p.key = k => "syn" \notin p.flags)

(* So does a response of the remote.                                        *)
ReplyMove(m, i, d, e, a, b) ==
  IF m.id = i
  THEN \/ m.type = "TcpConnected" /\ a = 0 /\ b = 1
       \/ /\ m.type = "TcpData" /\ a >= 1 /\ b = a + Len(m.data) /\ b <= d + 1
          /\ Block(i, m.data, a)
       \/ m.type = "TcpClosed" /\ a = d + 1 /\ b = d + 2 /\ e
       \/ m.type = "TcpError" /\ b = a
  ELSE b = a

PacketMoves(k, i, d, e) ==
  {w \in TcpPacket \X Nat \X Nat : PacketMove(w[1], k, i, d, e, w[2], w[3])}
ReplyMoves(i, d, e) ==
  {w \in RemoteMessage \X Nat \X Nat : ReplyMove(w[1], i, d, e, w[2], w[3])}

(* Where the application is, and where the connection's task is.            *)
Offset(k) ==
  IF app[k].st \in {"closed", "syn_sent"} THEN 0
  ELSE 1 + Len(app[k].got) + (IF app[k].rfin THEN 1 ELSE 0)
Goal(i) ==
  IF Early(i) THEN 0
  ELSE IF task[i] = "replying" THEN dest[i].sent + 1 - Len(hand[i])
  ELSE dest[i].sent + 1

Packets(k, i, a, b) == Leads(to_tun, PacketMoves(k, i, dest[i].sent, Ended(i)), a, b)
Replies(i, b) ==
  \E z \in Nat : /\ Leads(responses, ReplyMoves(i, dest[i].sent, Ended(i)), b, z)
                 /\ ~Ended(i) => z = Goal(i)

NoReset(k) == \A n \in InFlight(k) : "rst" \notin to_tun[n].flags

Entry(k, i, b) ==
  LET c == tcp_by_key[k]
  IN  /\ c.id = i /\ c.seq = OnWire(b)
      /\ c.state # "SynSent" => b >= 1
      /\ NoReset(k) /\ Replies(i, b)

(* What the application has read, and what is on its way to it.             *)
Reads(k, i) ==
  /\ Block(i, app[k].got, 1)
  /\ app[k].rfin => Len(app[k].got) = dest[i].sent /\ Ended(i)
Coherent(k) ==
  /\ app[k].st = "open" => app[k].rcv_nxt = OnWire(Offset(k))
  /\ app[k].st \in {"closed", "syn_sent"} => app[k].got = <<>> /\ ~app[k].rfin
Onward(k, i) ==
  \E b \in Nat : /\ Packets(k, i, Offset(k), b)
                 /\ k \in DOMAIN tcp_by_key => Entry(k, i, b)
Used(k, i) ==
  /\ Reads(k, i)
  /\ loop = "running" /\ app[k].st # "gone" => Coherent(k) /\ Onward(k, i)

(* A key no connection has been opened for.                                 *)
Idle(k) ==
  /\ app[k].got = <<>> /\ ~app[k].rfin /\ app[k].st \in {"closed", "syn_sent"}
  /\ InFlight(k) = {}
Unused(k) ==
  /\ app[k].got = <<>> /\ ~app[k].rfin
  /\ loop = "running" /\ app[k].st # "gone" => Idle(k) /\ k \notin DOMAIN tcp_by_key

StreamInv == \A k \in TcpKey : Unused(k) \/ \E i \in ConnId : Used(k, i)

(* What it rests on.                                                        *)
NewInv == \A k \in TcpKey : app[k].syns = 0 \/ SynPending(k) => Idle(k)
SynAckInv ==
  loop = "running" => \A k \in DOMAIN tcp_by_key :
    tcp_by_key[k].state = "SynSent" => tcp_by_key[k].ack = 1
QuietInv ==
  \A i \in ConnId : Early(i) =>
    dest[i].sent = 0 /\ \A n \in DOMAIN responses : responses[n].id # i
HandInv ==
  \A i \in ConnId : task[i] = "replying" =>
    /\ Len(hand[i]) <= dest[i].sent
    /\ Block(i, hand[i], dest[i].sent + 1 - Len(hand[i]))

ReturnInv == NewInv /\ SynAckInv /\ QuietInv /\ HandInv /\ StreamInv

(* What it is to be a move of a packet.                                     *)
LEMMA InPacketMoves ==
  ASSUME NEW p \in TcpPacket, NEW k, NEW i, NEW d, NEW e, NEW a \in Nat, NEW b \in Nat
  PROVE  <<p, a, b>> \in PacketMoves(k, i, d, e) <=> PacketMove(p, k, i, d, e, a, b)
<1>1. <<p, a, b>> \in TcpPacket \X Nat \X Nat
  OBVIOUS
<1>2. <<p, a, b>>[1] = p /\ <<p, a, b>>[2] = a /\ <<p, a, b>>[3] = b
  OBVIOUS
<1> QED
  BY <1>1, <1>2 DEF PacketMoves

(* And of a response.                                                       *)
LEMMA InReplyMoves ==
  ASSUME NEW m \in RemoteMessage, NEW i, NEW d, NEW e, NEW a \in Nat, NEW b \in Nat
  PROVE  <<m, a, b>> \in ReplyMoves(i, d, e) <=> ReplyMove(m, i, d, e, a, b)
<1>1. <<m, a, b>> \in RemoteMessage \X Nat \X Nat
  OBVIOUS
<1>2. <<m, a, b>>[1] = m /\ <<m, a, b>>[2] = a /\ <<m, a, b>>[3] = b
  OBVIOUS
<1> QED
  BY <1>1, <1>2 DEF ReplyMoves

(* More has been read from the destination, or the task has ended.          *)
LEMMA MovesWider ==
  ASSUME NEW k, NEW i, NEW d \in Nat, NEW d2 \in Nat, NEW e \in BOOLEAN, NEW e2 \in BOOLEAN,
         d <= d2, e => e2 /\ d2 = d
  PROVE  /\ \A p \in TcpPacket : \A a, b \in Nat :
              PacketMove(p, k, i, d, e, a, b) => PacketMove(p, k, i, d2, e2, a, b)
         /\ \A m \in RemoteMessage : \A a, b \in Nat :
              ReplyMove(m, i, d, e, a, b) => ReplyMove(m, i, d2, e2, a, b)
<1>1. ASSUME NEW p \in TcpPacket, NEW a \in Nat, NEW b \in Nat, PacketMove(p, k, i, d, e, a, b)
      PROVE  PacketMove(p, k, i, d2, e2, a, b)
  <2>1. Carrying(p, i, d, a, b) => Carrying(p, i, d2, a, b)
    BY DEF Carrying
  <2>2. Finishing(p, d, e, a, b) => Finishing(p, d2, e2, a, b)
    BY DEF Finishing
  <2> QED
    BY <1>1, <2>1, <2>2 DEF PacketMove
<1>2. ASSUME NEW m \in RemoteMessage, NEW a \in Nat, NEW b \in Nat, ReplyMove(m, i, d, e, a, b)
      PROVE  ReplyMove(m, i, d2, e2, a, b)
  <2>1. b <= d + 1 => b <= d2 + 1
    OBVIOUS
  <2> QED
    BY <1>2, <2>1 DEF ReplyMove
<1> QED
  BY <1>1, <1>2

(* So the walk of the packets stays one when the destination goes on.       *)
LEMMA LeadsPackets ==
  ASSUME NEW q \in Seq(TcpPacket), NEW a, NEW b,
         NEW k, NEW i, NEW d \in Nat, NEW d2 \in Nat, NEW e \in BOOLEAN, NEW e2 \in BOOLEAN,
         d <= d2, e => e2 /\ d2 = d, Leads(q, PacketMoves(k, i, d, e), a, b)
  PROVE  Leads(q, PacketMoves(k, i, d2, e2), a, b)
<1> DEFINE W == PacketMoves(k, i, d, e)
           V == PacketMoves(k, i, d2, e2)
<1>1. \A n \in DOMAIN q : \A x, y \in Nat : <<q[n], x, y>> \in W => <<q[n], x, y>> \in V
  <2>1. \A n \in DOMAIN q : q[n] \in TcpPacket
    OBVIOUS
  <2> QED
    BY <2>1, InPacketMoves, MovesWider
<1>2. DOMAIN q = 1..Len(q) /\ Len(q) \in Nat
  OBVIOUS
<1> HIDE DEF W, V
<1>3. Leads(q, W, a, b)
  BY DEF W
<1>4. Leads(q, V, a, b)
  BY <1>1, <1>2, <1>3, LeadsWider
<1> QED
  BY <1>4 DEF V

(* And that of the responses.                                               *)
LEMMA LeadsReplies ==
  ASSUME NEW q \in Seq(RemoteMessage), NEW a, NEW b,
         NEW i, NEW d \in Nat, NEW d2 \in Nat, NEW e \in BOOLEAN, NEW e2 \in BOOLEAN,
         d <= d2, e => e2 /\ d2 = d, Leads(q, ReplyMoves(i, d, e), a, b)
  PROVE  Leads(q, ReplyMoves(i, d2, e2), a, b)
<1> DEFINE W == ReplyMoves(i, d, e)
           V == ReplyMoves(i, d2, e2)
<1>1. \A n \in DOMAIN q : \A x, y \in Nat : <<q[n], x, y>> \in W => <<q[n], x, y>> \in V
  <2>1. \A n \in DOMAIN q : q[n] \in RemoteMessage
    OBVIOUS
  <2> QED
    BY <2>1, InReplyMoves, MovesWider
<1>2. DOMAIN q = 1..Len(q) /\ Len(q) \in Nat
  OBVIOUS
<1> HIDE DEF W, V
<1>3. Leads(q, W, a, b)
  BY DEF W
<1>4. Leads(q, V, a, b)
  BY <1>1, <1>2, <1>3, LeadsWider
<1> QED
  BY <1>4 DEF V

(* The types the arguments below use.                                       *)
LEMMA DownTypes ==
  ASSUME TypeInv
  PROVE  /\ to_tun \in Seq(TcpPacket) /\ responses \in Seq(RemoteMessage)
         /\ \A i \in ConnId : /\ dest[i].sent \in Nat /\ hand[i] \in Payload
                              /\ Len(hand[i]) \in Nat /\ Ended(i) \in BOOLEAN
                              /\ task[i] \in R!TaskState
         /\ \A k \in TcpKey : /\ app[k] \in AppEnd /\ app[k].got \in Seq(Byte)
                              /\ Len(app[k].got) \in Nat /\ app[k].rfin \in BOOLEAN
                              /\ app[k].st \in AppState /\ Offset(k) \in Nat
         /\ DOMAIN tcp_by_key \subseteq TcpKey /\ tcp_by_key \in [DOMAIN tcp_by_key -> TcpConnection]
<1>1. to_tun \in Seq(TcpPacket) /\ responses \in Seq(RemoteMessage)
  BY DEF TypeInv, IInv, ChannelTypeOK, RemoteInv
<1>2. ASSUME NEW i \in ConnId
      PROVE  /\ dest[i].sent \in Nat /\ hand[i] \in Payload
             /\ Len(hand[i]) \in Nat /\ Ended(i) \in BOOLEAN /\ task[i] \in R!TaskState
  <2>1. dest[i] \in [got : Seq(Byte), sent : 0..MaxReads]
    BY DEF TypeInv, EnvInv
  <2>2. dest[i].sent \in Nat
    BY <2>1
  <2>3. hand[i] \in Payload /\ task[i] \in R!TaskState
    BY DEF TypeInv, RemoteInv
  <2>4. Len(hand[i]) \in Nat
    BY <2>3, PayloadType
  <2> QED
    BY <2>2, <2>3, <2>4 DEF Ended
<1>3. ASSUME NEW k \in TcpKey
      PROVE  /\ app[k] \in AppEnd /\ app[k].got \in Seq(Byte)
             /\ Len(app[k].got) \in Nat /\ app[k].rfin \in BOOLEAN
             /\ app[k].st \in AppState /\ Offset(k) \in Nat
  <2>1. app[k] \in AppEnd
    BY DEF TypeInv, EnvInv
  <2>2. app[k].got \in Seq(Byte) /\ app[k].rfin \in BOOLEAN /\ app[k].st \in AppState
    BY <2>1 DEF AppEnd
  <2>3. PICK l \in Nat : l = Len(app[k].got)
    BY <2>2
  <2>4. PICK f \in {0, 1} : f = IF app[k].rfin THEN 1 ELSE 0
    OBVIOUS
  <2>5. Offset(k) \in Nat
    <3>1. Offset(k) = 0 \/ Offset(k) = 1 + l + f
      BY <2>3, <2>4, Zenon DEF Offset
    <3>2. l \in Nat /\ f \in {0, 1}
      BY <2>3, <2>4
    <3>3. 1 + l + f \in Nat /\ 0 \in Nat
      BY <3>2
    <3> QED
      BY <3>1, <3>3, Zenon
  <2> QED
    BY <2>1, <2>2, <2>3, <2>5
<1>4. DOMAIN tcp_by_key \subseteq TcpKey /\ tcp_by_key \in [DOMAIN tcp_by_key -> TcpConnection]
  BY DEF TypeInv, IInv, NatIInv, NatTypeOK
<1> QED
  BY <1>1, <1>2, <1>3, <1>4

(* Nothing is added.                                                        *)
LEMMA NoItems ==
  ASSUME NEW S, NEW q \in Seq(S)
  PROVE  q \o <<>> = q /\ <<>> \in Seq(S) /\ DOMAIN <<>> = {}
<1>1. q \o <<>> = q /\ <<>> \in Seq(S)
  OBVIOUS
<1>2. Len(<<>>) = 0 /\ DOMAIN <<>> = 1..Len(<<>>)
  OBVIOUS
<1> QED
  BY <1>1, <1>2

(* What other connections see of a step.                                    *)
SameApp(k) ==
  /\ app'[k].got = app[k].got /\ app'[k].rfin = app[k].rfin
  /\ app'[k].rcv_nxt = app[k].rcv_nxt
  /\ \/ app'[k].st = app[k].st
     \/ app'[k].st = "gone"
     \/ app[k].st \in {"closed", "syn_sent"} /\ app'[k].st \in {"closed", "syn_sent"}

GoesOn(i) ==
  /\ dest[i].sent <= dest'[i].sent
  /\ Ended(i) => Ended(i)' /\ dest'[i].sent = dest[i].sent

WritesToOthers(k) ==
  \E ps \in Seq(TcpPacket) : to_tun' = to_tun \o ps /\ \A n \in DOMAIN ps : ps[n].key # k

(* Packets of others leave what is on its way to k as it is.                *)
LEMMA FlightKept ==
  ASSUME to_tun \in Seq(TcpPacket), NEW k, WritesToOthers(k)
  PROVE  /\ NoReset(k) => NoReset(k)'
         /\ InFlight(k) = {} => InFlight(k)' = {}
<1>1. PICK ps \in Seq(TcpPacket) : to_tun' = to_tun \o ps /\ \A n \in DOMAIN ps : ps[n].key # k
  BY DEF WritesToOthers
<1>2. \A n \in DOMAIN to_tun' : \/ n \in DOMAIN to_tun /\ to_tun'[n] = to_tun[n]
                                \/ to_tun'[n].key # k
  BY <1>1, Concatenated
<1> QED
  BY <1>2 DEF NoReset, InFlight

(* And where it leads.                                                      *)
LEMMA PacketsOthers ==
  ASSUME TypeInv, TypeInv', NEW k, NEW i \in ConnId, NEW a, NEW b,
         Packets(k, i, a, b), GoesOn(i), WritesToOthers(k)
  PROVE  Packets(k, i, a, b)'
<1>1. PICK ps \in Seq(TcpPacket) : to_tun' = to_tun \o ps /\ \A n \in DOMAIN ps : ps[n].key # k
  BY DEF WritesToOthers
<1>2. PICK d \in Nat, e \in BOOLEAN : d = dest'[i].sent /\ e = Ended(i)'
  <2>1. dest'[i] \in [got : Seq(Byte), sent : 0..MaxReads]
    BY DEF TypeInv, EnvInv
  <2>2. dest'[i].sent \in Nat
    BY <2>1
  <2>3. Ended(i)' \in BOOLEAN
    BY DEF Ended
  <2> QED
    BY <2>2, <2>3
<1>3. PICK d0 \in Nat, e0 \in BOOLEAN : d0 = dest[i].sent /\ e0 = Ended(i)
  BY DownTypes
<1>4. to_tun \in Seq(TcpPacket)
  BY DownTypes
<1> DEFINE W == PacketMoves(k, i, d, e)
<1>5. Leads(to_tun, PacketMoves(k, i, d0, e0), a, b)
  BY <1>3 DEF Packets
<1>6. d0 <= d /\ (e0 => e /\ d = d0)
  BY <1>2, <1>3 DEF GoesOn
<1>7. Leads(to_tun, W, a, b)
  BY <1>4, <1>5, <1>6, LeadsPackets
<1>8. b \in Nat
  BY <1>4, <1>5, LeadsTypes
<1>9. Leads(ps, W, b, b)
  <2>1. \A n \in DOMAIN ps : ps[n] \in TcpPacket /\ PacketMove(ps[n], k, i, d, e, b, b)
    BY <1>1 DEF PacketMove
  <2>2. \A n \in DOMAIN ps : <<ps[n], b, b>> \in W
    BY <1>8, <2>1, InPacketMoves
  <2> HIDE DEF W
  <2> QED
    BY <1>8, <2>2, LeadsStill
<1>10. Leads(to_tun \o ps, W, a, b)
  <2> HIDE DEF W
  <2> QED
    BY <1>4, <1>7, <1>9, LeadsMore
<1> QED
  BY <1>1, <1>2, <1>10 DEF Packets

(* A step of somebody else keeps what is known of a connection.             *)
LEMMA UsedKept ==
  ASSUME TypeInv, TypeInv', NEW k \in TcpKey, NEW i \in ConnId, Used(k, i),
         SameApp(k), GoesOn(i),
         loop' = "running" =>
           /\ loop = "running" /\ WritesToOthers(k)
           /\ k \in DOMAIN tcp_by_key' => /\ k \in DOMAIN tcp_by_key
                                          /\ tcp_by_key'[k] = tcp_by_key[k]
                                          /\ \A b \in Nat : Replies(i, b) => Replies(i, b)'
  PROVE  Used(k, i)'
<1>1. Reads(k, i)'
  BY DEF Used, Reads, SameApp, GoesOn
<1>2. ASSUME loop' = "running", app'[k].st # "gone"
      PROVE  Coherent(k)' /\ Onward(k, i)'
  <2>1. Coherent(k) /\ Onward(k, i)
    BY <1>2 DEF Used, SameApp
  <2>2. Offset(k)' = Offset(k)
    BY <1>2 DEF Offset, SameApp
  <2>3. Coherent(k)'
    BY <1>2, <2>1, <2>2 DEF Coherent, SameApp
  <2>4. PICK b \in Nat : /\ Packets(k, i, Offset(k), b)
                         /\ k \in DOMAIN tcp_by_key => Entry(k, i, b)
    BY <2>1 DEF Onward
  <2>5. PICK a : a = Offset(k)
    OBVIOUS
  <2>6. Packets(k, i, a, b)'
    BY <1>2, <2>4, <2>5, PacketsOthers
  <2>7. k \in DOMAIN tcp_by_key' => Entry(k, i, b)'
    BY <1>2, <2>4, FlightKept, DownTypes DEF Entry
  <2> QED
    BY <2>2, <2>3, <2>5, <2>6, <2>7 DEF Onward
<1> QED
  BY <1>1, <1>2 DEF Used

(* And what is known of a key without one.                                  *)
LEMMA UnusedKept ==
  ASSUME TypeInv, NEW k \in TcpKey, Unused(k), SameApp(k),
         loop' = "running" => /\ loop = "running" /\ WritesToOthers(k)
                              /\ k \in DOMAIN tcp_by_key' => k \in DOMAIN tcp_by_key
  PROVE  Unused(k)'
  BY FlightKept, DownTypes DEF Unused, SameApp, Idle

(* Nothing was opened for a key whose SYN has not been read.                *)
LEMMA NewQuiet ==
  ASSUME TypeInv, TypeInv', NewInv, AppQuiet,
         \A k \in TcpKey : Idle(k) => app'[k].got = <<>> /\ ~app'[k].rfin
  PROVE  NewInv'
<1>1. ASSUME NEW k \in TcpKey, (app[k].syns = 0 \/ SynPending(k))'
      PROVE  Idle(k)'
  <2>1. app[k].syns = 0 \/ SynPending(k)
    BY <1>1 DEF AppQuiet, SynPending, Syn
  <2>2. Idle(k) /\ Fresh(k)
    BY <2>1 DEF NewInv, Fresh
  <2>3. app'[k].st \in AppState /\ app'[k].st \notin {"open", "gone"}
    <3>1. app'[k] \in AppEnd
      BY DEF TypeInv, EnvInv
    <3> QED
      BY <2>2, <3>1 DEF AppQuiet, AppEnd
  <2>4. InFlight(k)' = {}
    BY <2>2 DEF AppQuiet, Idle, InFlight
  <2> QED
    BY <2>2, <2>3, <2>4 DEF Idle, AppState
<1> QED
  BY <1>1 DEF NewInv

(* An application that opens, writes or closes reads nothing.               *)
LEMMA AppActsSame ==
  ASSUME TypeInv, NEW k \in TcpKey,
         \/ AppConnects(k) \/ AppSends(k) \/ AppCloses(k) \/ AppSendsAndCloses(k)
         \/ AppResets(k) \/ AppRetransmits(k)
  PROVE  /\ \A j \in TcpKey : SameApp(j)
         /\ UNCHANGED <<hostVars, remoteVars, dest>>
<1>1. UNCHANGED <<hostVars, remoteVars, dest>>
  BY DEF AppConnects, AppSends, AppCloses, AppSendsAndCloses, AppResets, AppRetransmits, AppOnly
<1>2. app \in [TcpKey -> AppEnd]
  BY DEF TypeInv, EnvInv
<1>3. \A j \in TcpKey : j # k => app'[j] = app[j]
  BY <1>2 DEF AppConnects, AppSends, AppCloses, AppSendsAndCloses, AppResets, AppRetransmits
<1>4. app[k] \in AppEnd
  BY <1>2
<1>5. SameApp(k)
  <2>1. CASE AppConnects(k)
    BY <1>2, <1>4, <2>1 DEF AppConnects, SameApp, AppEnd
  <2>2. CASE AppSends(k)
    BY <1>2, <1>4, <2>2 DEF AppSends, SameApp, AppEnd
  <2>3. CASE AppCloses(k)
    BY <1>2, <1>4, <2>3 DEF AppCloses, SameApp, AppEnd
  <2>4. CASE AppSendsAndCloses(k)
    BY <1>2, <1>4, <2>4 DEF AppSendsAndCloses, SameApp, AppEnd
  <2>5. CASE AppResets(k)
    BY <1>2, <1>4, <2>5 DEF AppResets, SameApp, AppEnd
  <2>6. CASE AppRetransmits(k)
    BY <1>2, <1>4, <2>6 DEF AppRetransmits, SameApp, AppEnd
  <2> QED
    BY <2>1, <2>2, <2>3, <2>4, <2>5, <2>6
<1>6. \A j \in TcpKey : SameApp(j)
  BY <1>3, <1>5 DEF SameApp
<1> QED
  BY <1>1, <1>6

(* The host, the remote and the destinations stand still.                   *)
LEMMA StreamQuiet ==
  ASSUME TypeInv, TypeInv', StreamInv, \A k \in TcpKey : SameApp(k),
         UNCHANGED <<hostVars, remoteVars, dest>>
  PROVE  StreamInv'
<1>1. to_tun' = to_tun \o <<>> /\ <<>> \in Seq(TcpPacket) /\ DOMAIN <<>> = {}
  BY NoItems, DownTypes DEF hostVars
<1>2. \A k : WritesToOthers(k)
  <2>1. PICK ps \in Seq(TcpPacket) : to_tun' = to_tun \o ps /\ DOMAIN ps = {}
    BY <1>1
  <2> QED
    BY <2>1 DEF WritesToOthers
<1>3. /\ tcp_by_key' = tcp_by_key /\ loop' = loop /\ responses' = responses
      /\ task' = task /\ hand' = hand /\ dest' = dest
  BY DEF hostVars, natVars, remoteVars
<1>4. \A i \in ConnId : GoesOn(i) /\ \A b \in Nat : Replies(i, b) => Replies(i, b)'
  BY <1>3, DownTypes DEF GoesOn, Ended, Replies, Goal, Early
<1> QED
  BY <1>2, <1>3, <1>4, UsedKept, UnusedKept DEF StreamInv

(* The applications' own steps keep the invariant.                          *)
LEMMA ReturnActs ==
  ASSUME MaxSyns = 1, TypeInv, TypeInv', SynInv, FreshInv, ReturnInv, NEW k \in TcpKey,
         \/ AppConnects(k) \/ AppSends(k) \/ AppCloses(k) \/ AppSendsAndCloses(k)
         \/ AppResets(k) \/ AppRetransmits(k)
  PROVE  ReturnInv'
<1>1. /\ \A j \in TcpKey : SameApp(j)
      /\ UNCHANGED <<hostVars, remoteVars, dest>>
  BY AppActsSame
<1>2. /\ tcp_by_key' = tcp_by_key /\ to_tun' = to_tun /\ loop' = loop
      /\ responses' = responses /\ task' = task /\ hand' = hand /\ dest' = dest
  BY <1>1 DEF hostVars, natVars, remoteVars
<1>3. StreamInv'
  BY <1>1, StreamQuiet DEF ReturnInv
<1>4. SynAckInv' /\ QuietInv' /\ HandInv'
  BY <1>2 DEF ReturnInv, SynAckInv, QuietInv, HandInv, Early
<1>5. NewInv'
  <2>1. CASE AppConnects(k)
    <3>1. app[k].syns = 0
      <4>1. app[k] \in AppEnd /\ app[k].syns < 1
        BY <2>1 DEF AppConnects, TypeInv, EnvInv
      <4>2. app[k].syns \in 0..1
        BY <4>1 DEF AppEnd
      <4> QED
        BY <4>1, <4>2
    <3>2. Idle(k)
      BY <3>1 DEF ReturnInv, NewInv
    <3>3. app'[k].st = "syn_sent" /\ \A j \in TcpKey : j # k => app'[j] = app[j]
      BY <2>1 DEF AppConnects, TypeInv, EnvInv, AppEnd
    <3>4. Idle(k)'
      BY <1>1, <1>2, <3>2, <3>3 DEF Idle, SameApp, InFlight
    <3>5. ASSUME NEW j \in TcpKey, j # k, (app[j].syns = 0 \/ SynPending(j))'
          PROVE  Idle(j)'
      <4>1. PICK x : x \in TcpPacketInfo /\ from_tun' = Append(from_tun, x) /\ x.key = k
        <5>1. Segment(k, {"syn"}, 0, <<>>) \in TcpPacketInfo
          <6>1. {"syn"} \in SUBSET Flag /\ 0 \in 0..(MaxSent + 2)
            BY UpTypes DEF Flag
          <6> QED
            BY <6>1, SegmentType, SmallPayloads
        <5>2. from_tun' = Append(from_tun, Segment(k, {"syn"}, 0, <<>>))
          BY <2>1, <5>1 DEF AppConnects, Transmit, TypeInv, EnvInv
        <5> QED
          BY <5>1, <5>2 DEF Segment
      <4>2. SynPending(j)' => SynPending(j)
        BY <3>5, <4>1, QueuedPackets DEF SynPending, Syn, Queues, TypeInv, EnvInv
      <4>3. Idle(j)
        BY <3>3, <3>5, <4>2 DEF ReturnInv, NewInv
      <4> QED
        BY <1>2, <3>3, <3>5, <4>3 DEF Idle, InFlight
    <3> QED
      BY <3>4, <3>5 DEF NewInv
  <2>2. CASE ~AppConnects(k)
    <3>1. AppQuiet
      BY <2>2, AppStepsQuiet
    <3> QED
      BY <1>1, <3>1, NewQuiet DEF ReturnInv, SameApp, Idle
  <2> QED
    BY <2>1, <2>2
<1> QED
  BY <1>3, <1>4, <1>5 DEF ReturnInv

-----------------------------------------------------------------------------
(* A packet arrives.                                                        *)

(* The packet that is taken, and those that are left.                       *)
LEMMA HeadToTun ==
  ASSUME TypeInv, to_tun # <<>>, to_tun' = Tail(to_tun)
  PROVE  /\ Head(to_tun) \in TcpPacket /\ Head(to_tun).key \in TcpKey
         /\ InFlight(Head(to_tun).key) # {}
         /\ \A k : /\ NoReset(k) => NoReset(k)'
                   /\ InFlight(k) = {} => InFlight(k)' = {}
<1>1. to_tun \in Seq(TcpPacket)
  BY DownTypes
<1>2. /\ Head(to_tun) \in TcpPacket /\ Head(to_tun) = to_tun[1] /\ 1 \in DOMAIN to_tun
      /\ \A n \in DOMAIN to_tun' : n + 1 \in DOMAIN to_tun /\ to_tun'[n] = to_tun[n + 1]
  BY <1>1, HeadTail
<1>3. Head(to_tun).key \in TcpKey
  BY <1>2 DEF TcpPacket
<1>4. InFlight(Head(to_tun).key) # {}
  BY <1>2 DEF InFlight
<1>5. ASSUME NEW k
      PROVE  /\ NoReset(k) => NoReset(k)'
             /\ InFlight(k) = {} => InFlight(k)' = {}
  BY <1>2 DEF NoReset, InFlight
<1> QED
  BY <1>2, <1>3, <1>4, <1>5

(* The packet that is taken moves the count.                                *)
LEMMA PacketsTail ==
  ASSUME TypeInv, to_tun # <<>>, to_tun' = Tail(to_tun), UNCHANGED <<task, dest>>,
         NEW k, NEW i \in ConnId, NEW a, NEW b, Packets(k, i, a, b)
  PROVE  \E c \in Nat : /\ PacketMove(Head(to_tun), k, i, dest[i].sent, Ended(i), a, c)
                        /\ Packets(k, i, c, b)'
<1>1. PICK d \in Nat, e \in BOOLEAN : d = dest[i].sent /\ e = Ended(i)
  BY DownTypes
<1>2. dest'[i].sent = d /\ Ended(i)' = e
  BY <1>1 DEF Ended
<1> DEFINE W == PacketMoves(k, i, d, e)
<1>3. to_tun \in Seq(TcpPacket) /\ Head(to_tun) \in TcpPacket
  BY DownTypes, HeadToTun
<1>4. Leads(to_tun, W, a, b)
  BY <1>1 DEF Packets
<1>5. PICK c \in Nat : <<Head(to_tun), a, c>> \in W /\ Leads(Tail(to_tun), W, c, b)
  <2> HIDE DEF W
  <2> QED
    BY <1>3, <1>4, LeadsTail
<1>6. a \in Nat
  BY <1>3, <1>4, LeadsTypes
<1>7. PacketMove(Head(to_tun), k, i, d, e, a, c)
  BY <1>3, <1>5, <1>6, InPacketMoves
<1>8. Packets(k, i, c, b)'
  BY <1>2, <1>5 DEF Packets
<1> QED
  BY <1>1, <1>7, <1>8

(* The other connections do not see it.                                     *)
LEMMA ReceivesOthers ==
  ASSUME TypeInv, AppReceives, NEW k \in TcpKey, k # Head(to_tun).key
  PROVE  /\ app'[k] = app[k]
         /\ \A i \in ConnId : Used(k, i) => Used(k, i)'
         /\ Unused(k) => Unused(k)'
<1>1. /\ loop = "running" /\ loop' = loop /\ to_tun # <<>> /\ to_tun' = Tail(to_tun)
      /\ UNCHANGED <<tcp_by_key, task, dest, hand, responses>>
  BY DEF AppReceives, WriteToTun, natVars, remoteVars
<1>2. app'[k] = app[k]
  BY DEF AppReceives, AppOpens, AppTakes, AppIsReset, AppRefuses, AppIgnores, TypeInv, EnvInv
<1>3. ASSUME NEW i \in ConnId, Used(k, i)
      PROVE  Used(k, i)'
  <2>1. Reads(k, i)'
    BY <1>1, <1>2, <1>3 DEF Used, Reads, Ended
  <2>2. ASSUME app'[k].st # "gone"
        PROVE  Coherent(k)' /\ Onward(k, i)'
    <3>1. Coherent(k) /\ Onward(k, i) /\ Offset(k)' = Offset(k)
      BY <1>1, <1>2, <1>3, <2>2 DEF Used, Offset
    <3>2. Coherent(k)'
      BY <1>2, <3>1 DEF Coherent
    <3>3. PICK b \in Nat : /\ Packets(k, i, Offset(k), b)
                           /\ k \in DOMAIN tcp_by_key => Entry(k, i, b)
      BY <3>1 DEF Onward
    <3>4. PICK a : a = Offset(k)
      OBVIOUS
    <3>5. Packets(k, i, a, b)'
      BY <1>1, <3>3, <3>4, PacketsTail DEF PacketMove
    <3>6. k \in DOMAIN tcp_by_key => Entry(k, i, b)'
      <4>1. Replies(i, b) => Replies(i, b)'
        BY <1>1 DEF Replies, Ended, Goal, Early
      <4> QED
        BY <1>1, <3>3, <4>1, HeadToTun DEF Entry
    <3> QED
      BY <1>1, <3>1, <3>2, <3>4, <3>5, <3>6 DEF Onward
  <2> QED
    BY <2>1, <2>2 DEF Used
<1>4. Unused(k) => Unused(k)'
  BY <1>1, <1>2, HeadToTun DEF Unused, Idle
<1> QED
  BY <1>2, <1>3, <1>4

(* Two blocks that follow each other are one.                               *)
LEMMA BlockMore ==
  ASSUME NEW i, NEW x \in Seq(Byte), NEW y \in Seq(Byte), NEW a \in Nat,
         NEW b \in Nat, b = a + Len(x), Block(i, x, a), Block(i, y, b)
  PROVE  Block(i, x \o y, a)
<1>1. SUFFICES ASSUME NEW j \in DOMAIN (x \o y)
               PROVE  (x \o y)[j] = DownByte(i, a + j - 1)
  BY DEF Block
<1>2. j \in Int /\ Len(x) \in Nat
  BY Concatenated
<1>3. CASE j \in DOMAIN x /\ (x \o y)[j] = x[j]
  BY <1>3 DEF Block
<1>4. CASE j - Len(x) \in DOMAIN y /\ (x \o y)[j] = y[j - Len(x)]
  <2>1. y[j - Len(x)] = DownByte(i, b + (j - Len(x)) - 1)
    BY <1>4 DEF Block
  <2>2. b + (j - Len(x)) - 1 = a + j - 1
    BY <1>2
  <2> QED
    BY <1>4, <2>1, <2>2
<1> QED
  BY <1>3, <1>4, Concatenated

(* The application takes what it gets from where it is.                     *)
LEMMA TakesInSequence ==
  ASSUME TypeInv, NEW k \in TcpKey, NEW i \in ConnId, NEW p \in TcpPacket,
         AppTakes(k, p), Reads(k, i), Coherent(k),
         p.key = k, NEW a, a = Offset(k), NEW c \in Nat,
         PacketMove(p, k, i, dest[i].sent, Ended(i), a, c), UNCHANGED <<task, dest>>
  PROVE  /\ app'[k].st = "open" /\ Offset(k)' = c
         /\ app'[k].rcv_nxt = OnWire(c)
         /\ Reads(k, i)'
<1>1. /\ app[k].st = "open" /\ "rst" \notin p.flags /\ app[k] \in AppEnd
      /\ app[k].got \in Seq(Byte) /\ app[k].rfin \in BOOLEAN
      /\ p.payload \in Seq(Byte) /\ app[k].rcv_nxt = OnWire(a)
  BY DownTypes DEF AppTakes, Coherent, TcpPacket
<1>2. PICK l \in Nat, m \in Nat, d \in Nat, e \in BOOLEAN :
        /\ l = Len(app[k].got) /\ m = Len(p.payload) /\ d = dest[i].sent /\ e = Ended(i)
  <2>1. Len(p.payload) \in Nat
    BY <1>1
  <2> QED
    BY <2>1, DownTypes
<1>3. a = IF app[k].rfin THEN l + 2 ELSE l + 1
  <2>1. a = 1 + l + (IF app[k].rfin THEN 1 ELSE 0)
    BY <1>1, <1>2 DEF Offset
  <2>2. CASE app[k].rfin
    BY <2>1, <2>2
  <2>3. CASE ~app[k].rfin
    BY <2>1, <2>3
  <2> QED
    BY <2>2, <2>3
<1>4. a \in Nat /\ a >= 1
  BY <1>3
<1>5. p.seq = OnWire(a) /\ (Carrying(p, i, d, a, c) \/ Finishing(p, d, e, a, c))
  BY <1>1, <1>2, <1>4 DEF PacketMove, Opening
<1>6. "syn" \notin p.flags
  BY <1>5 DEF Carrying, Finishing
<1>7. InSequence(app[k], p)
  BY <1>1, <1>5, <1>6 DEF InSequence
<1>8. PICK acked \in AppEnd :
        /\ acked.st = "open" /\ acked.rcv_nxt = app[k].rcv_nxt
        /\ acked.got = app[k].got /\ acked.rfin = app[k].rfin
        /\ app' = [app EXCEPT ![k] =
             [acked EXCEPT
                !.rcv_nxt = WrappingAdd(@, m + IF "fin" \in p.flags THEN 1 ELSE 0),
                !.got = @ \o p.payload,
                !.rfin = @ \/ "fin" \in p.flags]]
  <2> DEFINE acked == [app[k] EXCEPT !.una = AckUpTo(app[k], p)]
  <2>1. acked \in AppEnd
    BY <1>1 DEF AckUpTo, TcpPacket, AppEnd
  <2>2. /\ acked.st = "open" /\ acked.rcv_nxt = app[k].rcv_nxt
        /\ acked.got = app[k].got /\ acked.rfin = app[k].rfin
    BY <1>1 DEF AppEnd
  <2>3. app' = [app EXCEPT ![k] =
             [acked EXCEPT
                !.rcv_nxt = WrappingAdd(@, m + IF "fin" \in p.flags THEN 1 ELSE 0),
                !.got = @ \o p.payload,
                !.rfin = @ \/ "fin" \in p.flags]]
    BY <1>2, <1>7 DEF AppTakes
  <2> HIDE DEF acked
  <2> QED
    BY <2>1, <2>2, <2>3
<1>9. /\ app'[k].st = "open"
      /\ app'[k].rcv_nxt = WrappingAdd(app[k].rcv_nxt, m + IF "fin" \in p.flags THEN 1 ELSE 0)
      /\ app'[k].got = app[k].got \o p.payload
      /\ app'[k].rfin = (app[k].rfin \/ "fin" \in p.flags)
  BY <1>8 DEF AppEnd, TypeInv, EnvInv
<1>10. Len(app'[k].got) = l + m
  BY <1>1, <1>2, <1>9
<1>11. app[k].rfin => l = d /\ e
  BY <1>2 DEF Reads
<1>12. dest'[i].sent = d /\ Ended(i)' = e
  BY <1>2 DEF Ended
<1>13. CASE Carrying(p, i, d, a, c)
  <2>1. "fin" \notin p.flags /\ c = a + m
    BY <1>2, <1>13 DEF Carrying
  <2>2. app'[k].rfin = app[k].rfin
    BY <1>1, <1>9, <2>1
  <2>3. app'[k].rcv_nxt = OnWire(c)
    <3>1. app'[k].rcv_nxt = WrappingAdd(app[k].rcv_nxt, m)
      BY <1>9, <2>1
    <3> QED
      BY <1>1, <1>4, <2>1, <3>1, WrappingTwice DEF OnWire
  <2>4. Offset(k)' = c
    <3>1. Offset(k)' = 1 + (l + m) + (IF app[k].rfin THEN 1 ELSE 0)
      BY <1>9, <1>10, <2>2 DEF Offset
    <3>2. CASE app[k].rfin
      BY <1>3, <2>1, <3>1, <3>2
    <3>3. CASE ~app[k].rfin
      BY <1>3, <2>1, <3>1, <3>3
    <3> QED
      BY <3>2, <3>3
  <2>5. app[k].rfin => m = 0
    <3>1. SUFFICES ASSUME app[k].rfin, m # 0 PROVE FALSE
      OBVIOUS
    <3>2. p.payload # <<>>
      BY <1>2, <3>1
    <3>3. c <= d + 1
      BY <1>13, <3>2 DEF Carrying
    <3>4. a = d + 2
      BY <1>3, <1>11, <3>1
    <3> QED
      BY <2>1, <3>3, <3>4
  <2>6. Block(i, app'[k].got, 1)
    <3>1. Block(i, app[k].got, 1)
      BY DEF Reads
    <3>2. CASE m = 0
      <4>1. p.payload = <<>>
        <5>1. p.payload \in Seq(Byte) /\ Len(p.payload) = 0
          BY <1>1, <1>2, <3>2
        <5> QED
          BY ONLY <5>1
      <4> QED
        BY <1>1, <1>9, <3>1, <4>1, NoItems
    <3>3. CASE m > 0
      <4>1. a = 1 + l
        BY <1>2, <1>3, <2>5, <3>3
      <4> QED
        BY <1>1, <1>2, <1>4, <1>9, <1>13, <3>1, <4>1, BlockMore DEF Carrying
    <3> QED
      BY <1>2, <3>2, <3>3
  <2>7. app'[k].rfin => Len(app'[k].got) = d /\ e
    BY <1>10, <1>11, <2>2, <2>5
  <2> QED
    BY <1>9, <1>12, <2>3, <2>4, <2>6, <2>7 DEF Reads
<1>14. CASE Finishing(p, d, e, a, c)
  <2>1. "fin" \in p.flags /\ m = 0 /\ a = d + 1 /\ c = a + 1 /\ e /\ p.payload = <<>>
    BY <1>2, <1>14 DEF Finishing
  <2>2. ~app[k].rfin /\ l = d
    BY <1>3, <1>11, <2>1
  <2>3. app'[k].rcv_nxt = OnWire(c)
    <3>1. app'[k].rcv_nxt = WrappingAdd(app[k].rcv_nxt, 1)
      BY <1>9, <2>1
    <3> QED
      <4>1. WrappingAdd(WrappingAdd(HostIsn, a), 1) = WrappingAdd(HostIsn, a + 1)
        BY <1>4, WrappingTwice
      <4> QED
        BY <1>1, <2>1, <3>1, <4>1 DEF OnWire
  <2>4. app'[k].rfin /\ app'[k].got = app[k].got
    BY <1>1, <1>9, <2>1, NoItems, Zenon
  <2>5. Offset(k)' = c
    <3>1. Offset(k)' = 1 + l + 1
      BY <1>2, <1>9, <2>4 DEF Offset
    <3> QED
      BY <2>1, <2>2, <3>1
  <2>6. Reads(k, i)'
    BY <1>2, <1>12, <2>1, <2>2, <2>4 DEF Reads
  <2> QED
    BY <1>9, <2>3, <2>5, <2>6
<1> QED
  BY <1>5, <1>13, <1>14

(* The application of the packet's key goes on from where it is.            *)
LEMMA ReceivesOwn ==
  ASSUME TypeInv, AppReceives, NEW k \in TcpKey, k = Head(to_tun).key,
         NEW i \in ConnId, Used(k, i)
  PROVE  Used(k, i)'
<1>1. PICK p : p = Head(to_tun)
  OBVIOUS
<1>2. /\ loop = "running" /\ loop' = loop /\ to_tun # <<>> /\ to_tun' = Tail(to_tun)
      /\ UNCHANGED <<tcp_by_key, task, dest, hand, responses>>
      /\ \/ AppOpens(k, p) \/ AppTakes(k, p) \/ AppIsReset(k, p)
         \/ AppRefuses(k, p) \/ AppIgnores(k, p)
  BY <1>1 DEF AppReceives, WriteToTun, natVars, remoteVars
<1>3. p \in TcpPacket /\ app \in [TcpKey -> AppEnd] /\ app[k] \in AppEnd
  BY <1>1, <1>2, HeadToTun DEF TypeInv, EnvInv
<1>4. Reads(k, i)
  BY DEF Used
<1>5. ASSUME app'[k].got = app[k].got, app'[k].rfin => app[k].rfin PROVE Reads(k, i)'
  BY <1>2, <1>4, <1>5 DEF Reads, Ended
<1>6. CASE app[k].st = "gone"
  <2>1. app' = app
    BY <1>2, <1>6 DEF AppOpens, AppTakes, AppIsReset, AppRefuses, AppIgnores
  <2> QED
    BY <1>5, <1>6, <2>1 DEF Used
<1>7. CASE app[k].st # "gone"
  <2>1. Coherent(k) /\ Onward(k, i)
    BY <1>2, <1>7 DEF Used
  <2>2. PICK b \in Nat : /\ Packets(k, i, Offset(k), b)
                         /\ k \in DOMAIN tcp_by_key => Entry(k, i, b)
    BY <2>1 DEF Onward
  <2>3. PICK a \in Nat : a = Offset(k)
    BY DownTypes
  <2>4. PICK c \in Nat : PacketMove(p, k, i, dest[i].sent, Ended(i), a, c) /\ Packets(k, i, c, b)'
    BY <1>1, <1>2, <2>2, <2>3, PacketsTail
  <2>5. k \in DOMAIN tcp_by_key' => Entry(k, i, b)'
    <3>1. Replies(i, b) => Replies(i, b)'
      BY <1>2 DEF Replies, Ended, Goal, Early
    <3> QED
      BY <1>2, <2>2, <3>1, HeadToTun DEF Entry
  <2>6. SUFFICES \/ app'[k].st = "gone" /\ Reads(k, i)'
                 \/ Reads(k, i)' /\ Coherent(k)' /\ Offset(k)' = c
    BY <2>4, <2>5 DEF Used, Onward
  <2>7. CASE "rst" \in p.flags
    <3>1. "syn" \notin p.flags /\ c = a
      BY <1>1, <2>4, <2>7 DEF PacketMove
    <3>2. AppIsReset(k, p) \/ app' = app
      BY <1>2, <2>7, <3>1 DEF AppOpens, AppTakes, AppRefuses, AppIgnores
    <3>3. CASE AppIsReset(k, p)
      <4>1. /\ app'[k].st = "gone" /\ app'[k].got = app[k].got
            /\ app'[k].rfin = app[k].rfin
        BY <1>3, <3>3 DEF AppIsReset, AppEnd
      <4> QED
        BY <1>5, <4>1
    <3>4. CASE app' = app
      BY <1>5, <2>1, <2>3, <3>1, <3>4 DEF Coherent, Offset
    <3> QED
      BY <3>2, <3>3, <3>4
  <2>8. CASE "rst" \notin p.flags /\ app[k].st = "open"
    <3>1. AppTakes(k, p)
      BY <1>2, <2>8 DEF AppOpens, AppIsReset, AppRefuses, AppIgnores
    <3>2. /\ app'[k].st = "open" /\ Offset(k)' = c
          /\ app'[k].rcv_nxt = OnWire(c) /\ Reads(k, i)'
      BY <1>1, <1>2, <1>3, <1>4, <2>1, <2>3, <2>4, <3>1, TakesInSequence
    <3> QED
      BY <3>2 DEF Coherent
  <2>9. CASE "rst" \notin p.flags /\ app[k].st # "open"
    <3>1. app[k].st = "syn_sent"
      BY <1>2, <1>7, <2>9 DEF AppOpens, AppTakes, AppIsReset, AppRefuses, AppIgnores
    <3>2. a = 0 /\ app[k].got = <<>> /\ ~app[k].rfin
      BY <2>1, <2>3, <3>1 DEF Coherent, Offset
    <3>3. dest[i].sent \in Nat
      BY DownTypes
    <3>4. p.seq = OnWire(0) /\ Opening(p, a, c)
      BY <1>1, <2>4, <2>9, <3>2, <3>3 DEF PacketMove, Carrying, Finishing
    <3>5. AppOpens(k, p)
      BY <1>2, <2>9, <3>1, <3>4 DEF AppTakes, AppIsReset, AppRefuses, AppIgnores, Opening
    <3>6. /\ app'[k].st = "open" /\ app'[k].rcv_nxt = WrappingAdd(p.seq, 1)
          /\ app'[k].got = <<>> /\ ~app'[k].rfin
      BY <1>3, <3>2, <3>5 DEF AppOpens, AppEnd
    <3>7. Reads(k, i)'
      BY <1>5, <3>2, <3>6
    <3>8. Offset(k)' = 1 /\ c = 1
      <4>1. Len(<<>>) = 0
        OBVIOUS
      <4> QED
        BY <3>4, <3>6, <4>1 DEF Offset, Opening
    <3>9. WrappingAdd(p.seq, 1) = OnWire(1)
      <4>1. 0 \in Nat /\ 1 \in Nat /\ 0 + 1 = 1
        OBVIOUS
      <4>2. WrappingAdd(WrappingAdd(HostIsn, 0), 1) = WrappingAdd(HostIsn, 0 + 1)
        BY ONLY <4>1, WrappingTwice
      <4> QED
        BY <3>4, <4>1, <4>2, Zenon DEF OnWire
    <3> QED
      BY <3>6, <3>7, <3>8, <3>9 DEF Coherent
  <2> QED
    BY <2>7, <2>8, <2>9
<1> QED
  BY <1>6, <1>7

(* An application that takes a packet keeps the invariant.                  *)
LEMMA ReturnReceives ==
  ASSUME MaxSyns = 1, TypeInv, TypeInv', SynInv, FreshInv, ReturnInv, AppReceives
  PROVE  ReturnInv'
<1>1. PICK h : h = Head(to_tun).key
  OBVIOUS
<1>2. /\ loop = "running" /\ loop' = loop /\ to_tun # <<>> /\ to_tun' = Tail(to_tun)
      /\ UNCHANGED <<tcp_by_key, task, dest, hand, responses>>
  BY DEF AppReceives, WriteToTun, natVars, remoteVars
<1>3. h \in TcpKey /\ InFlight(h) # {}
  BY <1>1, <1>2, HeadToTun
<1>4. SynAckInv' /\ QuietInv' /\ HandInv'
  BY <1>2 DEF ReturnInv, SynAckInv, QuietInv, HandInv, Early
<1>5. \A k \in TcpKey : k # h => app'[k] = app[k]
  BY <1>1, ReceivesOthers
<1>6. NewInv'
  <2>1. \A k \in TcpKey : Idle(k) => k # h
    BY <1>3 DEF Idle
  <2> QED
    BY <1>5, <2>1, AppReceivesQuiet, NewQuiet DEF ReturnInv, Idle
<1>7. StreamInv'
  <2>1. ASSUME NEW k \in TcpKey PROVE Unused(k)' \/ \E i \in ConnId : Used(k, i)'
    <3>1. CASE \E i \in ConnId : Used(k, i)
      BY <1>1, <3>1, ReceivesOthers, ReceivesOwn
    <3>2. CASE Unused(k)
      <4>1. CASE k # h
        BY <1>1, <3>2, <4>1, ReceivesOthers
      <4>2. CASE k = h
        <5>1. app[k].st = "gone"
          BY <1>2, <1>3, <3>2, <4>2 DEF Unused, Idle
        <5>2. app' = app
          BY <1>1, <4>2, <5>1 DEF AppReceives, AppOpens, AppTakes, AppIsReset, AppRefuses,
                                   AppIgnores
        <5> QED
          BY <3>2, <5>1, <5>2 DEF Unused
      <4> QED
        BY <4>1, <4>2
    <3> QED
      BY <3>1, <3>2 DEF ReturnInv, StreamInv
  <2> QED
    BY <2>1 DEF StreamInv
<1> QED
  BY <1>4, <1>6, <1>7 DEF ReturnInv

(* The queue loses a packet on its way up.                                  *)
LEMMA ReturnDrops ==
  ASSUME TypeInv, TypeInv', FreshInv, ReturnInv, TunDrops
  PROVE  ReturnInv'
<1>1. UNCHANGED <<hostVars, remoteVars, app, dest>>
  BY DEF TunDrops
<1>2. UNCHANGED <<tcp_by_key, loop, responses, task, hand>>
  BY <1>1 DEF hostVars, natVars, remoteVars
<1>3. \A k \in TcpKey : SameApp(k)
  BY <1>1 DEF SameApp
<1>4. StreamInv'
  BY <1>1, <1>3, StreamQuiet DEF ReturnInv
<1>5. SynAckInv' /\ QuietInv' /\ HandInv'
  BY <1>1, <1>2 DEF ReturnInv, SynAckInv, QuietInv, HandInv, Early
<1>6. NewInv'
  BY <1>1, TunDropsQuiet, NewQuiet DEF ReturnInv, Idle
<1> QED
  BY <1>4, <1>5, <1>6 DEF ReturnInv

-----------------------------------------------------------------------------
(* The host reads a packet.                                                 *)

(* It answers from where its own packets have led to.                       *)
LEMMA OwnAnswered ==
  ASSUME TypeInv, TypeInv', NEW k \in TcpKey, NEW i \in ConnId, Used(k, i),
         UNCHANGED <<app, task, dest, hand, responses>>, loop = "running",
         NEW ps \in Seq(TcpPacket), to_tun' = to_tun \o ps,
         \/ ps = <<>>
         \/ /\ k \in DOMAIN tcp_by_key /\ tcp_by_key[k].state # "SynSent"
            /\ \E ack : ps = <<Answer(k, {"ack"}, tcp_by_key[k].seq, ack)>>,
         k \in DOMAIN tcp_by_key' =>
           /\ k \in DOMAIN tcp_by_key /\ tcp_by_key'[k].id = tcp_by_key[k].id
           /\ tcp_by_key'[k].seq = tcp_by_key[k].seq
           /\ tcp_by_key'[k].state # "SynSent" => tcp_by_key[k].state # "SynSent"
  PROVE  Used(k, i)'
<1>1. Reads(k, i)'
  BY DEF Used, Reads, Ended
<1>2. SUFFICES ASSUME app[k].st # "gone" PROVE Coherent(k)' /\ Onward(k, i)'
  BY <1>1 DEF Used
<1>3. Coherent(k) /\ Onward(k, i) /\ Coherent(k)' /\ Offset(k)' = Offset(k)
  BY <1>2 DEF Used, Coherent, Offset
<1>4. PICK b \in Nat : /\ Packets(k, i, Offset(k), b)
                       /\ k \in DOMAIN tcp_by_key => Entry(k, i, b)
  BY <1>3 DEF Onward
<1>5. PICK a \in Nat : a = Offset(k)
  BY DownTypes
<1>6. PICK d \in Nat, e \in BOOLEAN :
        d = dest[i].sent /\ e = Ended(i) /\ d = dest'[i].sent /\ e = Ended(i)'
  BY DownTypes DEF Ended
<1>7. to_tun \in Seq(TcpPacket) /\ DOMAIN ps = 1..Len(ps)
  BY DownTypes
<1>8. /\ Leads(ps, PacketMoves(k, i, d, e), b, b)
      /\ \A n \in DOMAIN ps : "rst" \notin ps[n].flags
  <2>1. \A n \in DOMAIN ps : <<ps[n], b, b>> \in PacketMoves(k, i, d, e)
                              /\ "rst" \notin ps[n].flags
    <3>1. CASE ps = <<>>
      BY <3>1, NoItems
    <3>2. CASE ps # <<>>
      <4>1. PICK q, ack : q = Answer(k, {"ack"}, tcp_by_key[k].seq, ack) /\ ps = <<q>>
        BY <3>2
      <4>2. Entry(k, i, b) /\ tcp_by_key[k].state # "SynSent"
        BY <1>4, <3>2
      <4>3. Len(q.payload) = 0 /\ DOMAIN q.payload = {} /\ q.payload = <<>>
        <5>1. q.payload = <<>>
          BY <4>1 DEF Answer
        <5> QED
          BY <5>1, NoItems
      <4>4. Carrying(q, i, d, b, b)
        <5>1. q.flags = {"ack"}
          BY <4>1 DEF Answer
        <5>2. b >= 1
          BY <4>2 DEF Entry
        <5> QED
          BY <4>3, <5>1, <5>2 DEF Carrying, Block
      <4>5. PacketMove(q, k, i, d, e, b, b)
        BY <4>1, <4>2, <4>4 DEF PacketMove, Answer, Entry
      <4>6. DOMAIN ps = {1} /\ ps[1] = q /\ "rst" \notin q.flags
        BY <4>1 DEF Answer
      <4>7. q \in TcpPacket
        BY <4>6
      <4>8. <<q, b, b>> \in PacketMoves(k, i, d, e)
        BY <4>5, <4>7, InPacketMoves
      <4> QED
        BY <4>6, <4>8
    <3> QED
      BY <3>1, <3>2
  <2> QED
    BY <2>1, LeadsStill
<1>9. Packets(k, i, a, b)'
  <2> DEFINE W == PacketMoves(k, i, d, e)
  <2>1. Leads(to_tun, W, a, b)
    BY <1>4, <1>5, <1>6 DEF Packets
  <2>2. Leads(to_tun \o ps, W, a, b)
    <3>1. Leads(ps, W, b, b)
      BY <1>8
    <3> HIDE DEF W
    <3> QED
      BY <1>7, <2>1, <3>1, LeadsMore
  <2> QED
    BY <1>6, <2>2 DEF Packets
<1>10. k \in DOMAIN tcp_by_key' => Entry(k, i, b)'
  <2>1. Replies(i, b) => Replies(i, b)'
    BY DEF Replies, Ended, Goal, Early
  <2>2. NoReset(k) => NoReset(k)'
    <3>1. \A n \in DOMAIN to_tun' : \/ n \in DOMAIN to_tun /\ to_tun'[n] = to_tun[n]
                                    \/ "rst" \notin to_tun'[n].flags
      BY <1>7, <1>8, Concatenated
    <3> QED
      BY <3>1 DEF NoReset, InFlight
  <2> QED
    BY <1>4, <2>1, <2>2 DEF Entry
<1> QED
  BY <1>3, <1>5, <1>9, <1>10 DEF Onward

(* A connection is created with nothing on its way.                         *)
LEMMA OwnCreated ==
  ASSUME TypeInv, TypeInv', ProtoInv, QuietInv, NEW k \in TcpKey, Idle(k), NEW i \in ConnId,
         i = next_id, UNCHANGED <<app, task, dest, hand, responses, to_tun>>,
         \E ack : tcp_by_key'[k] = [id |-> next_id, state |-> "SynSent", seq |-> HostIsn, ack |-> ack]
  PROVE  Used(k, i)'
<1>2. 0 \in Nat /\ 1 \in Nat /\ OnWire(0) = HostIsn
  BY WrappingTwice DEF OnWire
<1>3. task[i] = "none"
  <2>1. ~(i < next_id)
    BY DEF ConnId
  <2> QED
    BY <2>1 DEF ProtoInv, TaskInv
<1>4. app'[k].got = <<>> /\ ~app'[k].rfin /\ app'[k].st \in {"closed", "syn_sent"}
  BY DEF Idle
<1>5. Reads(k, i)' /\ Coherent(k)' /\ Offset(k)' = 0
  BY <1>4, NoItems DEF Reads, Coherent, Offset, Block
<1>6. PICK d \in Nat, e \in BOOLEAN : d = dest'[i].sent /\ e = Ended(i)'
  BY DownTypes DEF Ended
<1>7. Packets(k, i, 0, 0)'
  <2>1. to_tun' \in Seq(TcpPacket)
    BY DownTypes
  <2>2. \A n \in DOMAIN to_tun' : to_tun'[n] \in TcpPacket /\ to_tun'[n].key # k
    BY <2>1 DEF Idle, InFlight
  <2>3. \A n \in DOMAIN to_tun' : <<to_tun'[n], 0, 0>> \in PacketMoves(k, i, d, e)
    BY <1>2, <2>2, InPacketMoves DEF PacketMove
  <2> QED
    BY <1>2, <1>6, <2>1, <2>3, LeadsStill DEF Packets
<1>8. Replies(i, 0)'
  <2>1. responses' \in Seq(RemoteMessage) /\ Early(i) /\ Goal(i)' = 0
    BY <1>3, DownTypes DEF Early, Goal
  <2>2. \A n \in DOMAIN responses' : responses'[n] \in RemoteMessage /\ responses'[n].id # i
    BY <2>1 DEF QuietInv
  <2>3. ASSUME NEW n \in DOMAIN responses'
        PROVE  <<responses'[n], 0, 0>> \in ReplyMoves(i, d, e)
    <3>1. PICK m \in RemoteMessage : m = responses'[n] /\ m.id # i
      BY <2>2
    <3>2. ReplyMove(m, i, d, e, 0, 0)
      BY <3>1 DEF ReplyMove
    <3> QED
      BY ONLY <1>2, m \in RemoteMessage, <3>1, <3>2, InReplyMoves
  <2> QED
    BY <1>2, <1>6, <2>1, <2>3, LeadsStill DEF Replies
<1>9. NoReset(k)'
  BY DEF Idle, NoReset, InFlight
<1>10. Entry(k, i, 0)'
  BY <1>2, <1>8, <1>9 DEF Entry
<1> QED
  BY <1>2, <1>5, <1>7, <1>10 DEF Used, Onward

(* Otherwise no entry is new or loses its place, and what the host writes   *)
(* is one acknowledgment at most.                                           *)
Stays(key) ==
  /\ \A k \in DOMAIN tcp_by_key' :
       /\ k \in DOMAIN tcp_by_key /\ tcp_by_key'[k].id = tcp_by_key[k].id
       /\ tcp_by_key'[k].seq = tcp_by_key[k].seq
       /\ \/ tcp_by_key'[k] = tcp_by_key[k]
          \/ /\ k = key /\ tcp_by_key'[k].state # "SynSent"
             /\ tcp_by_key[k].state # "SynSent"
  /\ \E ps \in Seq(TcpPacket) :
       /\ to_tun' = to_tun \o ps
       /\ \/ ps = <<>>
          \/ /\ key \in DOMAIN tcp_by_key /\ tcp_by_key[key].state # "SynSent"
             /\ \E ack : ps = <<Answer(key, {"ack"}, tcp_by_key[key].seq, ack)>>

(* The host's reactions to a packet, as this argument sees them.            *)
LEMMA ReactsStays ==
  ASSUME TypeInv, NEW p \in TcpPacketInfo, Reacts(p)
  PROVE  Created(p) \/ Stays(p.key)
<1>0. PICK k \in TcpKey : k = p.key
  BY DEF TcpPacketInfo
<1>1. PICK c : c = tcp_by_key[p.key] /\ k = p.key
  BY <1>0
<1>2. /\ p.payload \in Payload /\ p.seq \in Int /\ Len(p.payload) \in Int
      /\ Len(p.payload) + 1 \in Int /\ 1 \in Int
  <2>1. p.payload \in Payload /\ p.seq \in SeqNum
    BY DEF TcpPacketInfo
  <2>2. Len(p.payload) \in Nat
    BY <2>1, PayloadType
  <2> QED
    BY <2>1, <2>2 DEF SeqNum
<1>3. k \in DOMAIN tcp_by_key => c \in TcpConnection /\ c.seq \in SeqNum /\ c.ack \in SeqNum
  BY <1>1, DownTypes DEF TcpConnection
<1>4. ASSUME k \in DOMAIN tcp_by_key, NEW ack \in SeqNum
      PROVE  <<Answer(k, {"ack"}, c.seq, ack)>> \in Seq(TcpPacket)
  <2>1. <<>> \in Seq(Byte)
    OBVIOUS
  <2>2. Answer(k, {"ack"}, c.seq, ack) \in TcpPacket
    BY <1>3, <1>4, <2>1 DEF Answer, TcpPacket, Flag
  <2> QED
    BY <2>2
<1> DEFINE KeepPlace ==
      \A j \in DOMAIN tcp_by_key' :
        /\ j \in DOMAIN tcp_by_key /\ tcp_by_key'[j].id = tcp_by_key[j].id
        /\ tcp_by_key'[j].seq = tcp_by_key[j].seq
        /\ \/ tcp_by_key'[j] = tcp_by_key[j]
           \/ /\ j = k /\ tcp_by_key'[j].state # "SynSent"
              /\ tcp_by_key[j].state # "SynSent"
<1>10. ASSUME c.state = "Established", NEW a, NEW r, Updated(k, r),
              \/ r = c
              \/ r = [id |-> c.id, state |-> "FinWait", seq |-> c.seq, ack |-> a]
              \/ r = [id |-> c.id, state |-> c.state, seq |-> c.seq, ack |-> a]
       PROVE  KeepPlace
  BY <1>1, <1>10 DEF Updated, Others
<1>5. CASE FinTaken(p, c)
  <2>1. PICK ack : ack = WrappingAdd(p.seq, Len(p.payload) + 1)
    OBVIOUS
  <2>2. ack \in SeqNum
    BY <1>2, <2>1, WrappingAddType
  <2>3. /\ c.state = "Established"
        /\ Updated(k, [id |-> c.id, state |-> "FinWait", seq |-> c.seq, ack |-> ack])
        /\ to_tun' = to_tun \o <<Answer(k, {"ack"}, c.seq, ack)>>
    BY <1>1, <1>5, <2>1 DEF FinTaken, Sends
  <2>4. k \in DOMAIN tcp_by_key
    BY <2>3 DEF Updated
  <2> QED
    BY <1>1, <1>4, <1>10, <2>2, <2>3, <2>4 DEF Stays
<1>6. CASE DataTaken(p, c)
  <2>1. PICK ack : ack = WrappingAdd(p.seq, Len(p.payload))
    OBVIOUS
  <2>2. ack \in SeqNum
    BY <1>2, <2>1, WrappingAddType
  <2>3. /\ c.state = "Established"
        /\ \/ /\ Updated(k, [id |-> c.id, state |-> c.state, seq |-> c.seq, ack |-> ack])
              /\ to_tun' = to_tun \o <<Answer(k, {"ack"}, c.seq, ack)>>
           \/ /\ Updated(k, c)
              /\ to_tun' = to_tun \o <<Answer(k, {"ack"}, c.seq, c.ack)>>
    BY <1>1, <1>6, <2>1 DEF DataTaken, Sends
  <2>4. k \in DOMAIN tcp_by_key
    BY <2>3 DEF Updated
  <2>5. KeepPlace
    BY <1>3, <1>10, <2>3, <2>4
  <2>6. PICK a \in SeqNum : to_tun' = to_tun \o <<Answer(k, {"ack"}, c.seq, a)>>
    BY <1>3, <2>2, <2>3, <2>4
  <2> QED
    BY <1>1, <1>4, <2>3, <2>4, <2>5, <2>6 DEF Stays
<1>7. CASE FinAnswered(p, c)
  <2>1. PICK ack : ack = WrappingAdd(p.seq, 1)
    OBVIOUS
  <2>2. ack \in SeqNum
    BY <1>2, <2>1, WrappingAddType
  <2>3. /\ c.state = "CloseWait" /\ Removed(k)
        /\ to_tun' = to_tun \o <<Answer(k, {"ack"}, c.seq, ack)>>
    BY <1>1, <1>7, <2>1 DEF FinAnswered, Sends
  <2>4. k \in DOMAIN tcp_by_key
    BY <2>3 DEF Removed
  <2> QED
    BY <1>1, <1>4, <2>2, <2>3, <2>4 DEF Stays, Removed, Others
<1>8. CASE GivenUp(p, c)
  <2>1. <<>> \in Seq(TcpPacket) /\ to_tun' = to_tun \o <<>> /\ Removed(k)
    BY <1>1, <1>8, NoItems DEF GivenUp, Sends
  <2> QED
    BY <1>1, <2>1 DEF Stays, Removed, Others
<1>9. CASE Passes(p, c)
  <2>1. <<>> \in Seq(TcpPacket) /\ to_tun' = to_tun \o <<>>
    BY <1>1, <1>9, NoItems DEF Passes, Sends
  <2> QED
    BY <1>1, <1>9, <2>1 DEF Stays, Passes
<1> QED
  BY <1>1, <1>5, <1>6, <1>7, <1>8, <1>9 DEF Reacts

(* The host's step on a packet keeps the invariant.                         *)
LEMMA ReturnReads ==
  ASSUME MaxSyns = 1, ProtocolInv, TypeInv', SynInv', SegmentsInv, ReturnInv, HostReads
  PROVE  ReturnInv'
<1>0. PICK p : p = Head(from_tun)
  OBVIOUS
<1>1. /\ from_tun # <<>> /\ from_tun' = Tail(from_tun) /\ HandleOutboundTcp(p) /\ Recorded
      /\ UNCHANGED <<app, task, dest, hand, responses>> /\ loop = "running"
  BY <1>0 DEF HostReads, HandleOutboundTcp, Recorded, remoteVars
<1>2. TypeInv /\ SynInv /\ FreshInv /\ ProtoInv /\ IInv /\ sent \in Seq(HostMessage)
  BY DEF ProtocolInv, TypeInv, EnvInv
<1>3. /\ p \in TcpPacketInfo /\ p = from_tun[1] /\ 1 \in DOMAIN from_tun
      /\ \A n \in DOMAIN from_tun' : \E m \in DOMAIN from_tun : from_tun'[n] = from_tun[m]
  BY <1>0, <1>1, <1>2, HeadPacket
<1>4. PICK k \in TcpKey : k = p.key
  BY <1>3 DEF TcpPacketInfo
<1>5. \/ Created(p) \/ Stays(k)
      \/ UNCHANGED to_tun /\ loop' = "blocked"
  BY <1>1, <1>2, <1>3, <1>4, HostReacts, ReactsStays
<1>6. \A i \in ConnId : GoesOn(i) /\ \A b \in Nat : Replies(i, b) => Replies(i, b)'
  BY <1>1, <1>2, DownTypes DEF GoesOn, Ended, Replies, Goal, Early
<1>7. \A j \in TcpKey : SameApp(j)
  BY <1>1 DEF SameApp
<1>8. Created(p) => Idle(k) /\ k \notin DOMAIN tcp_by_key
  <2>1. SUFFICES ASSUME Created(p) PROVE Idle(k) /\ k \notin DOMAIN tcp_by_key
    OBVIOUS
  <2>2. Syn(1) /\ from_tun[1].key = k
    BY <1>3, <1>4, <2>1 DEF Created, Syn
  <2> QED
    BY <1>2, <1>3, <2>2 DEF SynInv, SynPending, ReturnInv, NewInv
<1>9. HandInv' /\ QuietInv'
  BY <1>1 DEF ReturnInv, HandInv, QuietInv, Early
<1>10. SynAckInv'
  <2>1. CASE Created(p) /\ loop' = "running"
    <3>1. WrappingAdd(p.seq, 1) = 1
      <4>1. p.seq = 0
        BY <1>3, <2>1 DEF SegmentsInv, Created
      <4>2. MaxSent \in Nat /\ MaxSent + 3 < SeqSpace /\ SeqSpace \in Nat
        BY TunnelAssumption, NatAssumption
      <4>3. 1 < SeqSpace
        BY <4>2
      <4>4. 1 % SeqSpace = 1
        BY <4>2, <4>3
      <4> QED
        BY <4>1, <4>4 DEF WrappingAdd
    <3> QED
      BY <1>1, <2>1, <3>1 DEF Created, Added, Others, ReturnInv, SynAckInv
  <2>2. CASE Stays(k)
    BY <1>1, <2>2 DEF Stays, ReturnInv, SynAckInv
  <2> QED
    BY <1>5, <2>1, <2>2 DEF SynAckInv
<1>11. \A j \in TcpKey : j # k \/ k \notin DOMAIN tcp_by_key =>
         WritesToOthers(j) \/ (UNCHANGED to_tun /\ loop' = "blocked")
  <2>1. CASE Created(p)
    <3>1. to_tun' = to_tun \o <<>> /\ <<>> \in Seq(TcpPacket) /\ DOMAIN <<>> = {}
      BY <2>1, NoItems DEF Created, Sends
    <3> QED
      BY <3>1 DEF WritesToOthers
  <2>2. CASE Stays(k)
    <3>1. PICK ps \in Seq(TcpPacket) :
       /\ to_tun' = to_tun \o ps
       /\ \/ ps = <<>>
          \/ /\ k \in DOMAIN tcp_by_key
             /\ \E ack : ps = <<Answer(k, {"ack"}, tcp_by_key[k].seq, ack)>>
      BY <2>2 DEF Stays
    <3>2. CASE ps = <<>>
      BY <3>1, <3>2, NoItems DEF WritesToOthers
    <3>3. CASE ps # <<>>
      <4>1. k \in DOMAIN tcp_by_key /\ \A n \in DOMAIN ps : ps[n].key = k
        BY <3>1, <3>3 DEF Answer
      <4>2. ASSUME NEW j \in TcpKey, j # k PROVE WritesToOthers(j)
        <5>1. \A n \in DOMAIN ps : ps[n].key # j
          BY <4>1, <4>2
        <5> QED
          BY <3>1, <5>1 DEF WritesToOthers
      <4> QED
        BY <4>1, <4>2
    <3> QED
      BY <3>2, <3>3
  <2> QED
    BY <1>5, <2>1, <2>2
<1>12. NewInv'
  <2>1. SUFFICES ASSUME NEW j \in TcpKey, (app[j].syns = 0 \/ SynPending(j))'
                 PROVE  Idle(j)'
    BY DEF NewInv
  <2>2. app[j].syns = 0 \/ SynPending(j)
    BY <1>1, <1>3, <2>1 DEF SynPending, Syn
  <2>3. Idle(j) /\ j \notin DOMAIN tcp_by_key
    BY <1>2, <2>2 DEF ReturnInv, NewInv, SynInv, SynPending
  <2>4. InFlight(j)' = {}
    <3>1. CASE WritesToOthers(j)
      BY <1>2, <2>3, <3>1, FlightKept, DownTypes DEF Idle
    <3>2. CASE UNCHANGED to_tun
      BY <2>3, <3>2 DEF Idle, InFlight
    <3>3. j # k \/ k \notin DOMAIN tcp_by_key
      BY <2>3
    <3>4. WritesToOthers(j) \/ UNCHANGED to_tun
      BY <1>11, <3>3
    <3> QED
      BY <3>1, <3>2, <3>4
  <2> QED
    BY <1>1, <2>3, <2>4 DEF Idle
<1>13. StreamInv'
  <2>1. SUFFICES ASSUME NEW j \in TcpKey PROVE Unused(j)' \/ \E i \in ConnId : Used(j, i)'
    BY DEF StreamInv
  <2>2. Unused(j) \/ \E i \in ConnId : Used(j, i)
    BY DEF ReturnInv, StreamInv
  <2>3. CASE loop' = "blocked"
    BY <1>2, <1>6, <1>7, <2>2, <2>3, UsedKept, UnusedKept
  <2>4. CASE loop' # "blocked" /\ j # k
    <3>1. j \in DOMAIN tcp_by_key' => j \in DOMAIN tcp_by_key /\ tcp_by_key'[j] = tcp_by_key[j]
      BY <1>4, <1>5, <2>4 DEF Created, Added, Others, Stays
    <3> QED
      BY <1>1, <1>2, <1>6, <1>7, <1>11, <2>2, <2>4, <3>1, UsedKept, UnusedKept
  <2>5. CASE loop' # "blocked" /\ j = k /\ Created(p)
    <3>1. /\ next_id \in ConnId /\ to_tun' = to_tun
          /\ \E ack : tcp_by_key'[k] = [id |-> next_id, state |-> "SynSent", seq |-> HostIsn,
                                        ack |-> ack]
      <4>1. to_tun' = to_tun \o <<>>
        BY <2>5 DEF Created, Sends
      <4>2. to_tun' = to_tun
        BY <1>2, <4>1, NoItems, DownTypes
      <4> QED
        BY <1>4, <2>5, <4>2 DEF Created, Added
    <3>2. PICK i \in ConnId : i = next_id
      BY <3>1
    <3>3. Used(k, i)'
      BY <1>1, <1>2, <1>8, <2>5, <3>1, <3>2, OwnCreated DEF ReturnInv
    <3> QED
      BY <2>5, <3>3
  <2>6. CASE loop' # "blocked" /\ j = k /\ Stays(k)
    <3>1. CASE Unused(k)
      <4>1. CASE app[k].st = "gone"
        BY <1>1, <2>6, <3>1, <4>1 DEF Unused
      <4>2. CASE app[k].st # "gone"
        <5>1. k \notin DOMAIN tcp_by_key
          BY <1>1, <3>1, <4>2 DEF Unused
        <5>2. k \notin DOMAIN tcp_by_key' /\ WritesToOthers(k)
          BY <1>11, <2>6, <5>1 DEF Stays
        <5> QED
          BY <1>1, <1>2, <1>7, <2>6, <3>1, <5>2, UnusedKept
      <4> QED
        BY <4>1, <4>2
    <3>2. ASSUME NEW i \in ConnId, Used(k, i) PROVE Used(k, i)'
      <4>1. PICK ps \in Seq(TcpPacket) :
           /\ to_tun' = to_tun \o ps
           /\ \/ ps = <<>>
              \/ /\ k \in DOMAIN tcp_by_key /\ tcp_by_key[k].state # "SynSent"
                 /\ \E ack : ps = <<Answer(k, {"ack"}, tcp_by_key[k].seq, ack)>>
        BY <2>6 DEF Stays
      <4>2. k \in DOMAIN tcp_by_key' =>
              /\ k \in DOMAIN tcp_by_key /\ tcp_by_key'[k].id = tcp_by_key[k].id
              /\ tcp_by_key'[k].seq = tcp_by_key[k].seq
              /\ tcp_by_key'[k].state # "SynSent" => tcp_by_key[k].state # "SynSent"
        BY <2>6 DEF Stays
      <4> QED
        BY <1>1, <1>2, <3>2, <4>1, <4>2, OwnAnswered
    <3> QED
      BY <2>2, <2>6, <3>1, <3>2
  <2> QED
    BY <1>5, <2>3, <2>4, <2>5, <2>6
<1> QED
  BY <1>9, <1>10, <1>12, <1>13 DEF ReturnInv

-----------------------------------------------------------------------------
(* The host takes a message.                                                *)

(* The response that is taken moves the count.                              *)
LEMMA RepliesTail ==
  ASSUME TypeInv, responses # <<>>, responses' = Tail(responses),
         UNCHANGED <<task, dest, hand>>,
         NEW i \in ConnId, NEW b \in Nat, Replies(i, b)
  PROVE  \E c \in Nat : /\ ReplyMove(Head(responses), i, dest[i].sent, Ended(i), b, c)
                        /\ Replies(i, c)'
<1>1. PICK d \in Nat, e \in BOOLEAN : d = dest[i].sent /\ e = Ended(i)
  BY DownTypes
<1>2. dest'[i].sent = d /\ Ended(i)' = e /\ Goal(i)' = Goal(i)
  BY <1>1 DEF Ended, Goal, Early
<1> DEFINE W == ReplyMoves(i, d, e)
<1>3. responses \in Seq(RemoteMessage) /\ Head(responses) \in RemoteMessage
  BY DownTypes, HeadTail
<1>4. PICK z \in Nat : Leads(responses, W, b, z) /\ (~e => z = Goal(i))
  BY <1>1 DEF Replies
<1>5. PICK c \in Nat : <<Head(responses), b, c>> \in W /\ Leads(Tail(responses), W, c, z)
  <2> HIDE DEF W
  <2> QED
    BY <1>3, <1>4, LeadsTail
<1>6. ReplyMove(Head(responses), i, d, e, b, c)
  BY <1>3, <1>5, InReplyMoves
<1>7. Replies(i, c)'
  BY <1>2, <1>4, <1>5 DEF Replies
<1> QED
  BY <1>1, <1>6, <1>7

(* A part of a sequence.                                                    *)
LEMMA Piece ==
  ASSUME NEW S, NEW q \in Seq(S), NEW f \in Nat, NEW l \in Nat, f <= l, l <= Len(q)
  PROVE  /\ Len(SubSeq(q, f + 1, l)) = l - f
         /\ \A j \in DOMAIN SubSeq(q, f + 1, l) :
              /\ j \in Nat /\ f + j \in DOMAIN q
              /\ SubSeq(q, f + 1, l)[j] = q[f + j]
  OBVIOUS

(* Where a chunk begins and ends.                                           *)
LEMMA ChunkPlace ==
  ASSUME NEW data \in Payload, NEW n \in 1..ChunkCount(data)
  PROVE  \E f \in Nat, l \in Nat :
           /\ f = (n - 1) * MaxPayload /\ f <= l /\ l <= Len(data)
           /\ l = IF n = ChunkCount(data) THEN Len(data) ELSE n * MaxPayload
           /\ Chunk(data, n) = SubSeq(data, f + 1, l)
<1>1. MaxPayload \in Nat \ {0}
  BY HostAssumption
<1>2. PICK M \in Nat \ {0}, L \in Nat, N \in Nat :
        M = MaxPayload /\ L = Len(data) /\ N = ChunkCount(data) /\ n \in 1..N
        /\ N = (L + M - 1) \div M
  <2>1. Len(data) \in Nat
    BY PayloadType
  <2>2. ChunkCount(data) \in Nat
    BY <1>1, <2>1 DEF ChunkCount
  <2> QED
    BY <1>1, <2>1, <2>2 DEF ChunkCount
<1>3. PICK f \in Int, g \in Int, t \in Int : f = (n - 1) * M /\ g = n * M /\ t = N * M
  BY <1>2
<1>4. g = f + M
  <2>1. n * M = (n - 1) * M + M
    BY <1>2
  <2> QED
    BY <1>3, <2>1
<1>5. t <= L + M - 1
  <2>1. PICK q \in Int : q = L + M - 1
    OBVIOUS
  <2>2. (q \div M) * M <= q
    BY ONLY M \in Nat \ {0}, q \in Int, Quotient
  <2> QED
    BY <1>2, <1>3, <2>1, <2>2
<1>6. f >= 0
  <2>1. 0 * M <= (n - 1) * M
    BY <1>2, TimesMonotone
  <2> QED
    BY <1>2, <1>3, <2>1
<1>7. CASE n = N
  <2>1. g = t
    BY <1>3, <1>7
  <2>2. f <= L
    BY <1>2, <1>3, <1>4, <1>5, <2>1
  <2> QED
    BY <1>2, <1>3, <1>6, <1>7, <2>2 DEF Chunk
<1>8. CASE n # N
  <2>1. (n + 1) * M <= N * M
    BY <1>2, <1>8, TimesMonotone
  <2>2. (n + 1) * M = n * M + M
    BY <1>2
  <2>3. g + M <= t
    BY <1>3, <2>1, <2>2
  <2>4. g <= L /\ g \in Nat /\ f <= g
    BY <1>2, <1>3, <1>4, <1>5, <1>6, <2>3
  <2> QED
    BY <1>2, <1>3, <1>6, <1>8, <2>4 DEF Chunk
<1> QED
  BY <1>7, <1>8

(* Packets for k's application that reset nothing and move the count on.    *)
Conveys(ps, k, i, d, e, a, b) ==
  /\ ps \in Seq(TcpPacket)
  /\ \A n \in DOMAIN ps : ps[n].key = k /\ "rst" \notin ps[n].flags
  /\ Leads(ps, PacketMoves(k, i, d, e), a, b)

(* The packets a block is cut into carry all of it, in order (mod.rs:545).  *)
LEMMA DataLeads ==
  ASSUME TypeInv, NEW k \in DOMAIN tcp_by_key, NEW i \in ConnId, NEW data \in Payload,
         i \in DOMAIN tcp_by_id, tcp_by_id[i] = k, NEW a \in Nat, a >= 1,
         tcp_by_key[k].seq = OnWire(a), Block(i, data, a),
         NEW d \in Nat, NEW e, NEW b \in Nat, b = a + Len(data), b <= d + 1
  PROVE  Conveys(DataPackets(i, data), k, i, d, e, a, b)
<1>1. PICK ps \in Seq(TcpPacket) : ps = DataPackets(i, data)
  BY DataPacketsType DEF TypeInv, IInv
<1>2. MaxPayload \in Nat \ {0}
  BY HostAssumption
<1>3. PICK L \in Nat, N \in Nat : L = Len(data) /\ N = ChunkCount(data)
  <2>1. Len(data) \in Nat
    BY PayloadType
  <2>2. ChunkCount(data) \in Nat
    BY <1>2, <2>1 DEF ChunkCount
  <2> QED
    BY <2>1, <2>2
<1>4. data \in Seq(Byte) /\ DOMAIN data = 1..L
  BY <1>3, PayloadType
<1>5. Len(ps) = N /\ DOMAIN ps = 1..N
  BY <1>1, <1>3 DEF DataPackets
<1> DEFINE x == [n \in 1..(N + 1) |-> IF n = N + 1 THEN b ELSE a + (n - 1) * MaxPayload]
<1>6. \A n \in 1..N : n \in 1..(N + 1) /\ n + 1 \in 1..(N + 1) /\ n # N + 1
                      /\ (n + 1 = N + 1 <=> n = N) /\ (n + 1) - 1 = n
  OBVIOUS
<1>7. ASSUME NEW n \in 1..N
      PROVE  \E f \in Nat, l \in Nat :
               /\ f = (n - 1) * MaxPayload /\ f <= l /\ l <= L
               /\ x[n] = a + f /\ x[n + 1] = a + l
               /\ Chunk(data, n) = SubSeq(data, f + 1, l)
  <2>1. PICK f \in Nat, l \in Nat :
           /\ f = (n - 1) * MaxPayload /\ f <= l /\ l <= L
           /\ l = IF n = N THEN L ELSE n * MaxPayload
           /\ Chunk(data, n) = SubSeq(data, f + 1, l)
    <3>1. n \in 1..ChunkCount(data)
      BY <1>3
    <3> QED
      BY ONLY data \in Payload, <1>3, <3>1, ChunkPlace
  <2>2. x[n] = a + f
    BY <1>6, <2>1
  <2>3. x[n + 1] = a + l
    <3>1. CASE n = N
      BY <1>3, <1>6, <2>1, <3>1
    <3>2. CASE n # N
      <4>1. x[n + 1] = a + ((n + 1) - 1) * MaxPayload
        BY <1>6, <3>2
      <4>2. l = n * MaxPayload /\ (n + 1) - 1 = n
        BY <1>6, <2>1, <3>2
      <4> QED
        BY <4>1, <4>2
    <3> QED
      BY <3>1, <3>2
  <2> QED
    BY <2>1, <2>2, <2>3
<1>8. x \in [1..(N + 1) -> Nat]
  <2>1. \A n \in 1..(N + 1) : n = N + 1 \/ n \in 1..N
    OBVIOUS
  <2>2. \A n \in 1..(N + 1) : x[n] \in Nat
    <3>1. x[N + 1] = b
      BY <1>3
    <3> HIDE DEF x
    <3>2. ASSUME NEW n \in 1..N PROVE x[n] \in Nat
      <4>1. PICK f \in Nat : x[n] = a + f
        BY <1>7
      <4> QED
        BY <4>1
    <3> QED
      BY <2>1, <3>1, <3>2
  <2>3. x = [n \in 1..(N + 1) |-> x[n]]
    OBVIOUS
  <2> HIDE DEF x
  <2> QED
    BY <2>2, <2>3
<1>9. x[1] = a /\ x[N + 1] = b
  <2>1. x[N + 1] = b
    OBVIOUS
  <2>2. CASE N = 0
    <3>1. N = (L + MaxPayload - 1) \div MaxPayload
      BY <1>3 DEF ChunkCount
    <3>2. PICK M \in Nat \ {0} : M = MaxPayload
      BY <1>2
    <3>3. L + M - 1 < M
      <4>1. PICK q \in Int : q = L + M - 1
        BY <3>2
      <4>2. q \div M = 0
        BY <2>2, <3>1, <3>2, <4>1
      <4>3. q < (q \div M) * M + M
        BY ONLY M \in Nat \ {0}, q \in Int, Quotient
      <4>4. 0 * M = 0
        OBVIOUS
      <4> QED
        BY <4>1, <4>2, <4>3, <4>4
    <3>4. L = 0
      BY <3>2, <3>3
    <3> QED
      BY <1>3, <2>1, <2>2, <3>4
  <2>3. CASE N # 0
    <3>1. PICK f \in Nat : f = (1 - 1) * MaxPayload /\ x[1] = a + f
      <4>1. 1 \in 1..N
        BY <2>3
      <4> HIDE DEF x
      <4> QED
        BY <1>7, <4>1
    <3>2. (1 - 1) * MaxPayload = 0
      BY <1>2
    <3> QED
      BY <2>1, <3>1, <3>2
  <2> QED
    BY <2>2, <2>3
<1> HIDE DEF x
<1>10. ASSUME NEW n \in 1..N
       PROVE  /\ ps[n].key = k /\ "rst" \notin ps[n].flags
              /\ PacketMove(ps[n], k, i, d, e, x[n], x[n + 1])
  <2>1. PICK f \in Nat, l \in Nat :
               /\ f = (n - 1) * MaxPayload /\ f <= l /\ l <= L
               /\ x[n] = a + f /\ x[n + 1] = a + l
               /\ Chunk(data, n) = SubSeq(data, f + 1, l)
    BY <1>7
  <2>2. /\ ps[n].key = k /\ ps[n].payload = SubSeq(data, f + 1, l)
        /\ ps[n].flags = IF n = N THEN {"ack", "psh"} ELSE {"ack"}
        /\ ps[n].seq = GetTcpSeq(AdvanceTcpSeq(tcp_by_key, i, f), i)
    BY <1>1, <1>3, <2>1 DEF DataPackets
  <2>3. {"syn", "fin", "rst"} \cap ps[n].flags = {}
    BY <2>2
  <2>4. ps[n].seq = OnWire(a + f)
    <3>1. Resolves(tcp_by_key, i)
      BY DEF Resolves
    <3>2. AdvanceTcpSeq(tcp_by_key, i, f)
            = [tcp_by_key EXCEPT ![k].seq = WrappingAdd(tcp_by_key[k].seq, f)]
      BY <3>1 DEF AdvanceTcpSeq
    <3>3. PICK t : t = AdvanceTcpSeq(tcp_by_key, i, f)
      OBVIOUS
    <3>4. DOMAIN t = DOMAIN tcp_by_key /\ t[k].seq = WrappingAdd(tcp_by_key[k].seq, f)
      <4>1. tcp_by_key[k] \in TcpConnection
        BY DownTypes
      <4> QED
        BY <3>2, <3>3, <4>1 DEF TcpConnection
    <3>5. GetTcpSeq(t, i) = t[k].seq
      BY <3>4 DEF GetTcpSeq, Resolves
    <3>6. WrappingAdd(WrappingAdd(HostIsn, a), f) = WrappingAdd(HostIsn, a + f)
      BY <2>1, WrappingTwice
    <3> QED
      BY <2>2, <3>3, <3>4, <3>5, <3>6, Zenon DEF OnWire
  <2>9. /\ Len(SubSeq(data, f + 1, l)) = l - f
        /\ \A j \in DOMAIN SubSeq(data, f + 1, l) :
              /\ j \in Nat /\ f + j \in DOMAIN data
              /\ SubSeq(data, f + 1, l)[j] = data[f + j]
    <3>1. data \in Seq(Byte) /\ f \in Nat /\ l \in Nat /\ f <= l /\ l <= Len(data)
      BY <1>3, <1>4, <2>1
    <3> QED
      BY ONLY <3>1, Piece
  <2>5. Len(ps[n].payload) = l - f /\ x[n + 1] = x[n] + Len(ps[n].payload)
    <3>1. Len(ps[n].payload) = l - f
      BY <2>2, <2>9
    <3> QED
      BY <2>1, <3>1
  <2>6. Block(i, ps[n].payload, x[n])
    <3>1. SUFFICES ASSUME NEW j \in DOMAIN ps[n].payload
                   PROVE  ps[n].payload[j] = DownByte(i, x[n] + j - 1)
      BY DEF Block
    <3>2. j \in Nat /\ f + j \in DOMAIN data /\ ps[n].payload[j] = data[f + j]
      <4>1. ps[n].payload = SubSeq(data, f + 1, l) /\ j \in DOMAIN ps[n].payload
        BY <2>2
      <4> QED
        BY ONLY <2>9, <4>1
    <3>3. data[f + j] = DownByte(i, a + (f + j) - 1)
      BY <3>2 DEF Block
    <3>4. a + (f + j) - 1 = x[n] + j - 1
      <4>1. x[n] = a + f /\ a \in Nat /\ f \in Nat /\ j \in Nat
        BY <2>1, <3>2
      <4> QED
        BY ONLY <4>1
    <3> QED
      BY <3>2, <3>3, <3>4
  <2>7. x[n] >= 1 /\ x[n + 1] <= d + 1
    BY <1>3, <2>1, SMTT(30)
  <2>8. Carrying(ps[n], i, d, x[n], x[n + 1])
    BY <2>3, <2>5, <2>6, <2>7 DEF Carrying
  <2> QED
    BY <2>1, <2>2, <2>3, <2>4, <2>8 DEF PacketMove
<1>11. Walk(ps, PacketMoves(k, i, d, e), x)
  <2>1. \A n \in 1..N : x[n] \in Nat /\ x[n + 1] \in Nat /\ ps[n] \in TcpPacket
    BY <1>5, <1>6, <1>8
  <2>2. \A n \in 1..N : <<ps[n], x[n], x[n + 1]>> \in PacketMoves(k, i, d, e)
    BY <1>10, <2>1, InPacketMoves
  <2> QED
    BY <1>5, <1>8, <2>2 DEF Walk
<1>12. Leads(ps, PacketMoves(k, i, d, e), a, b)
  BY <1>5, <1>9, <1>11 DEF Leads
<1> QED
  BY <1>1, <1>5, <1>10, <1>12 DEF Conveys

(* What is written goes on from where the packets on their way lead to.     *)
LEMMA OwnMoved ==
  ASSUME TypeInv, TypeInv', NEW k \in TcpKey, NEW i \in ConnId,
         Reads(k, i), Coherent(k), UNCHANGED <<app, task, dest>>,
         NEW b \in Nat, Packets(k, i, Offset(k), b),
         NEW ps \in Seq(TcpPacket), to_tun' = to_tun \o ps,
         NEW c \in Nat, Leads(ps, PacketMoves(k, i, dest[i].sent, Ended(i)), b, c),
         k \in DOMAIN tcp_by_key' => Entry(k, i, c)'
  PROVE  Used(k, i)'
<1>1. Reads(k, i)' /\ Coherent(k)' /\ Offset(k)' = Offset(k)
  BY DEF Reads, Coherent, Offset, Ended
<1>2. PICK a \in Nat : a = Offset(k)
  BY DownTypes
<1>3. PICK d \in Nat, e \in BOOLEAN :
        d = dest[i].sent /\ e = Ended(i) /\ d = dest'[i].sent /\ e = Ended(i)'
  BY DownTypes DEF Ended
<1> DEFINE W == PacketMoves(k, i, d, e)
<1>4. Leads(to_tun, W, a, b) /\ Leads(ps, W, b, c) /\ to_tun \in Seq(TcpPacket)
  BY <1>2, <1>3, DownTypes DEF Packets
<1>5. Leads(to_tun \o ps, W, a, c)
  <2> HIDE DEF W
  <2> QED
    BY <1>4, LeadsMore
<1>6. Packets(k, i, a, c)'
  BY <1>3, <1>5 DEF Packets
<1> QED
  BY <1>1, <1>2, <1>6 DEF Used, Onward

(* One packet without a reset.                                              *)
LEMMA OneSent ==
  ASSUME TypeInv, TypeInv', NEW k \in TcpKey, NEW p, to_tun' = to_tun \o <<p>>
  PROVE  /\ p \in TcpPacket /\ <<p>> \in Seq(TcpPacket)
         /\ NoReset(k) /\ "rst" \notin p.flags => NoReset(k)'
<1>1. to_tun \in Seq(TcpPacket) /\ to_tun' \in Seq(TcpPacket)
  BY DEF TypeInv, IInv, ChannelTypeOK
<1>2. PICK r : r = to_tun \o <<p>> /\ r \in Seq(TcpPacket)
  BY <1>1
<1>3. <<p>> \in Seq({p}) /\ Len(<<p>>) = 1 /\ DOMAIN <<p>> = {1} /\ <<p>>[1] = p
  OBVIOUS
<1>4. PICK l \in Nat : l = Len(to_tun)
  BY <1>1
<1>5. l + 1 \in DOMAIN r /\ r[l + 1] = p
  BY <1>1, <1>2, <1>3, <1>4
<1>6. p \in TcpPacket
  BY <1>2, <1>5
<1>7. <<p>> \in Seq(TcpPacket)
  BY <1>6
<1>8. \A n \in DOMAIN to_tun' : \/ n \in DOMAIN to_tun /\ to_tun'[n] = to_tun[n]
                                \/ to_tun'[n] = p
  BY <1>1, <1>6, ItemAdded
<1> QED
  BY <1>6, <1>7, <1>8 DEF NoReset, InFlight

(* The message is about the application's own connection.                   *)
LEMMA OwnTold ==
  ASSUME TypeInv, TypeInv', ResponsesInv, SynAckInv, responses # <<>>,
         responses' = Tail(responses), UNCHANGED <<app, task, dest, hand>>,
         loop = "running", NEW m \in RemoteMessage, m = Head(responses), Answers(m),
         NEW k \in TcpKey, k = tcp_by_id[m.id], NEW i \in ConnId, Used(k, i)
  PROVE  Used(k, i)'
<1>1. CASE app[k].st = "gone"
  BY <1>1 DEF Used, Reads, Ended
<1>2. CASE app[k].st # "gone"
  <2>1. Reads(k, i) /\ Coherent(k) /\ Onward(k, i)
    BY <1>2 DEF Used
  <2>2. PICK b \in Nat : /\ Packets(k, i, Offset(k), b)
                         /\ k \in DOMAIN tcp_by_key => Entry(k, i, b)
    BY <2>1 DEF Onward
  <2>3. k \in DOMAIN tcp_by_key /\ m.id \in DOMAIN tcp_by_id
    BY DEF Answers
  <2>4. PICK c : c = tcp_by_key[k]
    OBVIOUS
  <2>5. /\ c.id = m.id /\ c.id = i /\ c.seq = OnWire(b) /\ (c.state # "SynSent" => b >= 1)
        /\ NoReset(k) /\ Replies(i, b)
        /\ \/ Opened(m, k, c) \/ Relayed(m, k, c) \/ Finished(m, k, c)
           \/ Forgotten(m, k, c) \/ Refused(m, k)
    BY <2>2, <2>3, <2>4 DEF Entry, Answers
  <2>6. PICK d \in Nat, e \in BOOLEAN : d = dest[i].sent /\ e = Ended(i)
    BY DownTypes
  <2>7. PICK z \in Nat : ReplyMove(m, i, d, e, b, z) /\ Replies(i, z)'
    BY <2>5, <2>6, RepliesTail
  <2>8. Answer(k, {"ack"}, 0, 0).payload = <<>> /\ Len(<<>>) = 0 /\ DOMAIN <<>> = {}
    BY NoItems DEF Answer
  <2>9. CASE Opened(m, k, c)
    <3>1. b = 0 /\ z = 1
      BY <2>5, <2>7, <2>9 DEF ReplyMove, Opened
    <3>2. PICK p : p = Answer(k, {"syn", "ack"}, c.seq, c.ack)
      OBVIOUS
    <3>3. /\ to_tun' = to_tun \o <<p>>
          /\ Updated(k, [id |-> c.id, state |-> "Established",
                         seq |-> WrappingAdd(c.seq, 1), ack |-> c.ack])
      BY <2>9, <3>2 DEF Opened, Writes
    <3>4. c.ack = 1
      <4>1. responses \in Seq(RemoteMessage)
        BY DownTypes
      <4>2. m = responses[1] /\ 1 \in DOMAIN responses
        BY <4>1, HeadTail
      <4>3. SynSent(k)
        BY <2>3, <2>4, <2>5, <2>9, <4>2 DEF Opened, ResponsesInv
      <4> QED
        BY <2>3, <2>4, <4>3 DEF SynSent, SynAckInv
    <3>5. PacketMove(p, k, i, d, e, b, z)
      BY <2>5, <3>1, <3>2, <3>4 DEF PacketMove, Opening, Answer
    <3>6. p \in TcpPacket /\ <<p>> \in Seq(TcpPacket) /\ NoReset(k)'
      <4>1. p.flags = {"syn", "ack"}
        BY <3>2 DEF Answer
      <4>2. "rst" \notin p.flags
        BY <4>1
      <4> QED
        BY <2>5, <3>3, <4>2, OneSent
    <3>7. Leads(<<p>>, PacketMoves(k, i, d, e), b, z)
      BY <3>5, <3>6, InPacketMoves, LeadsOne
    <3>8. WrappingAdd(c.seq, 1) = OnWire(z)
      <4>1. 0 \in Nat /\ 1 \in Nat /\ 0 + 1 = 1
        OBVIOUS
      <4>2. WrappingAdd(WrappingAdd(HostIsn, 0), 1) = WrappingAdd(HostIsn, 0 + 1)
        BY ONLY <4>1, WrappingTwice
      <4> QED
        BY <2>5, <3>1, <4>1, <4>2, Zenon DEF OnWire
    <3>9. Entry(k, i, z)'
      BY <2>5, <2>7, <3>1, <3>3, <3>6, <3>8 DEF Entry, Updated
    <3> QED
      BY <2>1, <2>2, <2>6, <3>3, <3>6, <3>7, <3>9, OwnMoved
  <2>10. CASE Relayed(m, k, c)
    <3>1. m.type = "TcpData" /\ m.data \in Payload
      BY <2>10 DEF Relayed, RemoteMessage
    <3>2. b >= 1 /\ z = b + Len(m.data) /\ z <= d + 1 /\ Block(i, m.data, b)
      BY <2>5, <2>7, <3>1 DEF ReplyMove
    <3>3. i \in DOMAIN tcp_by_id /\ tcp_by_id[i] = k /\ m.id = i
      BY <2>3, <2>5
    <3>4. PICK ps : ps = DataPackets(i, m.data)
      OBVIOUS
    <3>5. /\ ps \in Seq(TcpPacket)
          /\ \A n \in DOMAIN ps : ps[n].key = k /\ "rst" \notin ps[n].flags
          /\ Leads(ps, PacketMoves(k, i, d, e), b, z)
      <4>1. PICK data \in Payload : data = m.data
        BY <3>1
      <4>2. /\ k \in DOMAIN tcp_by_key /\ i \in DOMAIN tcp_by_id /\ tcp_by_id[i] = k
            /\ tcp_by_key[k].seq = OnWire(b) /\ Block(i, data, b)
            /\ b \in Nat /\ b >= 1 /\ z \in Nat /\ z = b + Len(data) /\ z <= d + 1
            /\ d \in Nat /\ e \in BOOLEAN
        BY <2>2, <2>3, <2>4, <2>5, <2>6, <2>7, <3>2, <3>3, <4>1
      <4>3. Conveys(DataPackets(i, data), k, i, d, e, b, z)
        BY ONLY TypeInv, i \in ConnId, <4>1, <4>2, DataLeads
      <4> QED
        BY <3>4, <4>1, <4>3 DEF Conveys
    <3>6. /\ to_tun' = to_tun \o ps
          /\ Updated(k, [id |-> c.id, state |-> c.state,
                         seq |-> WrappingAdd(c.seq, Len(m.data)), ack |-> c.ack])
      BY <2>10, <3>3, <3>4 DEF Relayed, Writes
    <3>7. NoReset(k)'
      <4>1. \A n \in DOMAIN to_tun' : \/ n \in DOMAIN to_tun /\ to_tun'[n] = to_tun[n]
                                      \/ "rst" \notin to_tun'[n].flags
        BY <3>5, <3>6, DownTypes, Concatenated, SMTT(30)
      <4> QED
        BY <2>5, <4>1 DEF NoReset, InFlight
    <3>8. WrappingAdd(c.seq, Len(m.data)) = OnWire(z)
      <4>1. PICK l \in Nat : l = Len(m.data)
        BY <3>1, PayloadType
      <4>2. WrappingAdd(WrappingAdd(HostIsn, b), l) = WrappingAdd(HostIsn, b + l)
        BY WrappingTwice
      <4> QED
        BY <2>5, <3>2, <4>1, <4>2, Zenon DEF OnWire
    <3>9. z >= 1
      BY <3>1, <3>2, PayloadType
    <3>10. Entry(k, i, z)'
      BY <2>5, <2>7, <3>6, <3>7, <3>8, <3>9 DEF Entry, Updated
    <3> QED
      BY <2>1, <2>2, <2>6, <3>5, <3>6, <3>10, OwnMoved
  <2>11. CASE Finished(m, k, c)
    <3>1. b = d + 1 /\ z = b + 1 /\ e
      BY <2>5, <2>7, <2>11 DEF ReplyMove, Finished
    <3>2. PICK p : p = Answer(k, {"fin", "ack"}, c.seq, c.ack)
      OBVIOUS
    <3>3. /\ to_tun' = to_tun \o <<p>>
          /\ \E state \in {"CloseWait", "LastAck"} :
               Updated(k, [id |-> c.id, state |-> state,
                           seq |-> WrappingAdd(c.seq, 1), ack |-> c.ack])
      BY <2>11, <3>2 DEF Finished, Writes
    <3>4. PacketMove(p, k, i, d, e, b, z)
      BY <2>5, <3>1, <3>2 DEF PacketMove, Finishing, Answer
    <3>5. p \in TcpPacket /\ <<p>> \in Seq(TcpPacket) /\ NoReset(k)'
      <4>1. p.flags = {"fin", "ack"}
        BY <3>2 DEF Answer
      <4>2. "rst" \notin p.flags
        BY <4>1
      <4> QED
        BY <2>5, <3>3, <4>2, OneSent
    <3>6. Leads(<<p>>, PacketMoves(k, i, d, e), b, z)
      BY <3>4, <3>5, InPacketMoves, LeadsOne
    <3>7. WrappingAdd(c.seq, 1) = OnWire(z)
      <4>1. 1 \in Nat
        OBVIOUS
      <4>2. WrappingAdd(WrappingAdd(HostIsn, b), 1) = WrappingAdd(HostIsn, b + 1)
        BY <4>1, WrappingTwice
      <4> QED
        BY <2>5, <3>1, <4>2, Zenon DEF OnWire
    <3>8. z >= 1
      BY <3>1
    <3>9. Entry(k, i, z)'
      BY <2>5, <2>7, <3>3, <3>5, <3>7, <3>8 DEF Entry, Updated
    <3> QED
      BY <2>1, <2>2, <2>6, <3>3, <3>5, <3>6, <3>9, OwnMoved
  <2>12. CASE Forgotten(m, k, c)
    <3>1. PICK ps \in Seq(TcpPacket) : ps = <<>> /\ to_tun' = to_tun \o ps
      BY <2>12, NoItems, DownTypes DEF Forgotten
    <3>2. k \notin DOMAIN tcp_by_key'
      BY <2>12 DEF Forgotten, Removed
    <3>3. Leads(ps, PacketMoves(k, i, d, e), b, b)
      BY <3>1, NoItems, LeadsStill
    <3> QED
      BY <2>1, <2>2, <2>6, <3>1, <3>2, <3>3, OwnMoved
  <2>13. CASE Refused(m, k)
    <3>1. PICK p : p = Answer(k, {"rst"}, 0, 0) /\ to_tun' = to_tun \o <<p>>
      BY <2>13 DEF Refused, Writes
    <3>2. k \notin DOMAIN tcp_by_key'
      BY <2>13 DEF Refused, Removed
    <3>3. PacketMove(p, k, i, d, e, b, b)
      BY <3>1 DEF PacketMove, Answer
    <3>4. p \in TcpPacket /\ <<p>> \in Seq(TcpPacket)
      BY <3>1, OneSent
    <3>5. Leads(<<p>>, PacketMoves(k, i, d, e), b, b)
      BY <3>3, <3>4, InPacketMoves, LeadsOne
    <3> QED
      BY <2>1, <2>2, <2>6, <3>1, <3>2, <3>4, <3>5, OwnMoved
  <2> QED
    BY <2>5, <2>9, <2>10, <2>11, <2>12, <2>13
<1> QED
  BY <1>1, <1>2

(* What it writes is for the connection the message is about.               *)
LEMMA AnswersOthers ==
  ASSUME TypeInv, TypeInv', NEW m \in RemoteMessage, Answers(m),
         NEW j \in TcpKey, j # tcp_by_id[m.id]
  PROVE  /\ WritesToOthers(j)
         /\ j \in DOMAIN tcp_by_key' => j \in DOMAIN tcp_by_key /\ tcp_by_key'[j] = tcp_by_key[j]
<1>1. PICK k, c : k = tcp_by_id[m.id] /\ c = tcp_by_key[k]
  OBVIOUS
<1>2. /\ m.id \in DOMAIN tcp_by_id /\ k \in DOMAIN tcp_by_key /\ j # k /\ k \in TcpKey
      /\ \/ Opened(m, k, c) \/ Relayed(m, k, c) \/ Finished(m, k, c)
         \/ Forgotten(m, k, c) \/ Refused(m, k)
  BY <1>1, DownTypes DEF Answers
<1>3. j \in DOMAIN tcp_by_key' => j \in DOMAIN tcp_by_key /\ tcp_by_key'[j] = tcp_by_key[j]
  BY <1>2 DEF Opened, Relayed, Finished, Forgotten, Refused, Updated, Removed, Others
<1>4. ASSUME NEW p, p.key = k, to_tun' = to_tun \o <<p>>
      PROVE  WritesToOthers(j)
  <2>1. <<p>> \in Seq(TcpPacket)
    BY <1>2, <1>4, OneSent
  <2>2. \A n \in DOMAIN <<p>> : <<p>>[n].key # j
    BY <1>2, <1>4
  <2> QED
    BY <1>4, <2>1, <2>2 DEF WritesToOthers
<1>5. ASSUME NEW flags, NEW seq, NEW ack, Writes(<<Answer(k, flags, seq, ack)>>)
      PROVE  WritesToOthers(j)
  <2>1. PICK p : p = Answer(k, flags, seq, ack)
    OBVIOUS
  <2>2. p.key = k
    BY <2>1 DEF Answer
  <2> QED
    BY <1>4, <1>5, <2>1, <2>2 DEF Writes
<1>6. CASE Relayed(m, k, c)
  <2>1. m.data \in Payload
    BY <1>6 DEF Relayed, RemoteMessage
  <2>2. PICK ps \in Seq(TcpPacket) : ps = DataPackets(m.id, m.data)
    BY <1>2, <2>1, DataPacketsType DEF TypeInv, IInv
  <2>3. \A n \in DOMAIN ps : ps[n].key = k
    BY <1>1, <2>2 DEF DataPackets
  <2>4. to_tun' = to_tun \o ps /\ \A n \in DOMAIN ps : ps[n].key # j
    BY <1>2, <1>6, <2>2, <2>3 DEF Relayed, Writes
  <2> QED
    BY <1>3, <2>4 DEF WritesToOthers
<1>7. CASE Forgotten(m, k, c)
  <2>1. to_tun' = to_tun \o <<>> /\ <<>> \in Seq(TcpPacket) /\ DOMAIN <<>> = {}
    BY <1>7, NoItems, DownTypes DEF Forgotten
  <2>2. PICK ps \in Seq(TcpPacket) : to_tun' = to_tun \o ps /\ DOMAIN ps = {}
    BY <2>1
  <2> QED
    BY <1>3, <2>2 DEF WritesToOthers
<1>8. WritesToOthers(j)
  BY <1>2, <1>5, <1>6, <1>7 DEF Opened, Finished, Refused
<1> QED
  BY <1>3, <1>8

(* A response taken by the host is for its own connection's count only.     *)
LEMMA RepliesOthers ==
  ASSUME TypeInv, responses # <<>>, responses' = Tail(responses),
         UNCHANGED <<task, dest, hand>>,
         NEW i \in ConnId, Head(responses).id # i, NEW b \in Nat, Replies(i, b)
  PROVE  Replies(i, b)'
<1>1. PICK c \in Nat : /\ ReplyMove(Head(responses), i, dest[i].sent, Ended(i), b, c)
                       /\ Replies(i, c)'
  BY RepliesTail
<1>2. c = b
  BY <1>1 DEF ReplyMove
<1> QED
  BY <1>1, <1>2

(* The host's step on a message keeps the invariant.                        *)
LEMMA ReturnTakes ==
  ASSUME ProtocolInv, TypeInv', ReturnInv, HostTakes
  PROVE  ReturnInv'
<1>1. PICK m : m = Head(responses)
  OBVIOUS
<1>2. /\ responses # <<>> /\ responses' = Tail(responses) /\ HandleRemoteMessage(m)
      /\ UNCHANGED <<app, from_tun, dest, task, hand>> /\ loop = "running"
  BY <1>1 DEF HostTakes, R!WriteResponse, HandleRemoteMessage
<1>3. /\ TypeInv /\ SynInv /\ IdsResolve /\ ResponsesInv /\ IInv
      /\ NewInv /\ SynAckInv /\ QuietInv /\ HandInv /\ StreamInv
  BY DEF ProtocolInv, ProtoInv, TypeInv, ReturnInv
<1>4. /\ responses \in Seq(RemoteMessage) /\ m \in RemoteMessage
      /\ \A n \in DOMAIN responses' : n + 1 \in DOMAIN responses /\ responses'[n] = responses[n + 1]
  BY <1>1, <1>2, <1>3, DownTypes, HeadTail
<1>5. \/ Answers(m)
      \/ UNCHANGED <<tcp_by_key, to_tun>> /\ m.id \notin DOMAIN tcp_by_id
      \/ UNCHANGED to_tun /\ loop' = "blocked"
  BY <1>2, <1>3, <1>4, HostAnswers
<1>6. \A j \in TcpKey : SameApp(j)
  BY <1>2 DEF SameApp
<1>7. \A i \in ConnId : GoesOn(i)
  BY <1>2, <1>3, DownTypes DEF GoesOn, Ended
<1>8. HandInv' /\ QuietInv'
  BY <1>2, <1>3, <1>4 DEF HandInv, QuietInv, Early
<1>9. KeysResolve
  BY <1>3 DEF IInv, NatIInv
<1>10. SynAckInv'
  <2>1. CASE Answers(m)
    <3>1. PICK k, c : k = tcp_by_id[m.id] /\ c = tcp_by_key[k]
      OBVIOUS
    <3>2. /\ k \in DOMAIN tcp_by_key
          /\ \/ Opened(m, k, c) \/ Relayed(m, k, c) \/ Finished(m, k, c)
             \/ Forgotten(m, k, c) \/ Refused(m, k)
      BY <2>1, <3>1 DEF Answers
    <3>3. \A j \in DOMAIN tcp_by_key' :
            /\ j \in DOMAIN tcp_by_key
            /\ tcp_by_key'[j].state = "SynSent" =>
                 /\ tcp_by_key'[j].state = tcp_by_key[j].state
                 /\ tcp_by_key'[j].ack = tcp_by_key[j].ack
      BY <3>1, <3>2 DEF Opened, Relayed, Finished, Forgotten, Refused, Updated, Removed, Others
    <3> QED
      BY <1>2, <1>3, <3>3 DEF SynAckInv
  <2>2. CASE UNCHANGED tcp_by_key
    BY <1>2, <1>3, <2>2 DEF SynAckInv
  <2> QED
    BY <1>5, <2>1, <2>2 DEF SynAckInv
<1>11. ASSUME NEW j \in TcpKey, j \notin DOMAIN tcp_by_key \/ ~Answers(m) \/ j # tcp_by_id[m.id]
       PROVE  /\ WritesToOthers(j) \/ (UNCHANGED to_tun /\ loop' = "blocked")
              /\ loop' = "running" /\ j \in DOMAIN tcp_by_key' =>
                   j \in DOMAIN tcp_by_key /\ tcp_by_key'[j] = tcp_by_key[j]
  <2>1. CASE Answers(m)
    <3>1. tcp_by_id[m.id] \in DOMAIN tcp_by_key
      BY <2>1 DEF Answers
    <3>2. j # tcp_by_id[m.id]
      BY <1>11, <2>1, <3>1
    <3> QED
      BY <1>3, <1>4, <2>1, <3>2, AnswersOthers
  <2>2. CASE UNCHANGED <<tcp_by_key, to_tun>>
    <3>1. to_tun' = to_tun \o <<>> /\ <<>> \in Seq(TcpPacket) /\ DOMAIN <<>> = {}
      BY <1>3, <2>2, NoItems, DownTypes
    <3> QED
      BY <2>2, <3>1 DEF WritesToOthers
  <2>3. CASE UNCHANGED to_tun /\ loop' = "blocked"
    BY <2>3
  <2> QED
    BY <1>5, <2>1, <2>2, <2>3
<1>12. NewInv'
  <2>1. SUFFICES ASSUME NEW j \in TcpKey, (app[j].syns = 0 \/ SynPending(j))'
                 PROVE  Idle(j)'
    BY DEF NewInv
  <2>2. app[j].syns = 0 \/ SynPending(j)
    BY <1>2, <2>1 DEF SynPending, Syn
  <2>3. Idle(j) /\ j \notin DOMAIN tcp_by_key
    BY <1>3, <2>2 DEF NewInv, SynInv, SynPending
  <2>4. InFlight(j)' = {}
    <3>1. CASE WritesToOthers(j)
      BY <1>3, <2>3, <3>1, FlightKept, DownTypes DEF Idle
    <3>2. CASE UNCHANGED to_tun
      BY <2>3, <3>2 DEF Idle, InFlight
    <3> QED
      BY <1>11, <2>3, <3>1, <3>2
  <2> QED
    BY <1>2, <2>3, <2>4 DEF Idle
<1>13. StreamInv'
  <2>1. SUFFICES ASSUME NEW j \in TcpKey PROVE Unused(j)' \/ \E i \in ConnId : Used(j, i)'
    BY DEF StreamInv
  <2>2. CASE Unused(j)
    <3>1. CASE app[j].st = "gone"
      BY <1>2, <2>2, <3>1 DEF Unused
    <3>2. CASE app[j].st # "gone"
      <4>1. j \notin DOMAIN tcp_by_key
        BY <1>2, <2>2, <3>2 DEF Unused
      <4> QED
        BY <1>2, <1>3, <1>6, <1>11, <2>2, <4>1, UnusedKept
    <3> QED
      BY <3>1, <3>2
  <2>3. ASSUME NEW i \in ConnId, Used(j, i) PROVE Used(j, i)'
    <3>1. CASE app[j].st = "gone"
      BY <1>2, <2>3, <3>1 DEF Used, Reads, Ended
    <3>2. CASE Answers(m) /\ j = tcp_by_id[m.id]
      BY <1>1, <1>2, <1>3, <1>4, <2>3, <3>2, OwnTold
    <3>3. CASE app[j].st # "gone" /\ ~(Answers(m) /\ j = tcp_by_id[m.id])
      <4>1. ASSUME loop' = "running", j \in DOMAIN tcp_by_key', NEW b \in Nat, Replies(i, b)
            PROVE  Replies(i, b)'
        <5>1. j \in DOMAIN tcp_by_key /\ tcp_by_key[j].id = i
          BY <1>2, <1>11, <2>3, <3>3, <4>1 DEF Used, Onward, Entry
        <5>2. i \in DOMAIN tcp_by_id /\ tcp_by_id[i] = j
          BY <1>9, <5>1 DEF KeysResolve
        <5>3. m.id # i
          BY <1>5, <3>3, <4>1, <5>2
        <5> QED
          BY <1>1, <1>2, <1>3, <4>1, <5>3, RepliesOthers
      <4> QED
        BY <1>2, <1>3, <1>6, <1>7, <1>11, <2>3, <3>3, <4>1, UsedKept
    <3> QED
      BY <3>1, <3>2, <3>3
  <2> QED
    BY <1>3, <2>2, <2>3 DEF StreamInv
<1> QED
  BY <1>8, <1>10, <1>12, <1>13 DEF ReturnInv

-----------------------------------------------------------------------------
(* The remote and the destinations.                                         *)

(* A step of connection i's task that sends nothing, and one that sends m.  *)
OthersStay(i) ==
  \A j \in ConnId \ {i} : task'[j] = task[j] /\ hand'[j] = hand[j] /\ dest'[j] = dest[j]

SaysNothing(i) ==
  /\ OthersStay(i) /\ UNCHANGED responses /\ GoesOn(i)
  /\ Early(i)' => Early(i) /\ dest'[i].sent = dest[i].sent
  /\ ~Ended(i)' => Goal(i)' = Goal(i)

Says(i, m) ==
  /\ OthersStay(i) /\ responses' = Append(responses, m)
  /\ m \in RemoteMessage /\ m.id = i
  /\ ~Ended(i) /\ ~Early(i)' /\ dest'[i] = dest[i]
  /\ \E b \in Nat : /\ ReplyMove(m, i, dest[i].sent, Ended(i)', Goal(i), b)
                    /\ ~Ended(i)' => b = Goal(i)'

(* What the next types give.                                                *)
LEMMA DownTypesNext ==
  ASSUME TypeInv', NEW i \in ConnId
  PROVE  /\ dest'[i].sent \in Nat /\ Ended(i)' \in BOOLEAN
         /\ responses' \in Seq(RemoteMessage)
<1>1. dest'[i] \in [got : Seq(Byte), sent : 0..MaxReads]
  BY DEF TypeInv, EnvInv
<1>2. dest'[i].sent \in Nat
  BY <1>1
<1>3. responses' \in Seq(RemoteMessage)
  BY DEF TypeInv, RemoteInv
<1> QED
  BY <1>2, <1>3 DEF Ended

(* The count goes on where the responses have led it.                       *)
LEMMA RepliesKept ==
  ASSUME TypeInv, TypeInv', NEW i \in ConnId, UNCHANGED responses, GoesOn(i),
         ~Ended(i)' => Goal(i)' = Goal(i), NEW b \in Nat, Replies(i, b)
  PROVE  Replies(i, b)'
<1>1. PICK d \in Nat, e \in BOOLEAN : d = dest[i].sent /\ e = Ended(i)
  BY DownTypes
<1>2. PICK d2 \in Nat, e2 \in BOOLEAN : d2 = dest'[i].sent /\ e2 = Ended(i)'
  BY DownTypesNext
<1>3. d <= d2 /\ (e => e2 /\ d2 = d)
  BY <1>1, <1>2 DEF GoesOn
<1>4. PICK z \in Nat : Leads(responses, ReplyMoves(i, d, e), b, z) /\ (~e => z = Goal(i))
  BY <1>1 DEF Replies
<1>5. Leads(responses, ReplyMoves(i, d2, e2), b, z)
  BY <1>3, <1>4, LeadsReplies, DownTypes
<1> QED
  BY <1>2, <1>3, <1>4, <1>5 DEF Replies

(* And where a response that is added leads it.                             *)
LEMMA RepliesMore ==
  ASSUME TypeInv, TypeInv', NEW i \in ConnId, NEW m \in RemoteMessage,
         responses' = Append(responses, m), GoesOn(i),
         \A z \in Nat : (~Ended(i) => z = Goal(i)) =>
           \E c \in Nat : /\ ReplyMove(m, i, dest'[i].sent, Ended(i)', z, c)
                          /\ ~Ended(i)' => c = Goal(i)',
         NEW b \in Nat, Replies(i, b)
  PROVE  Replies(i, b)'
<1>1. PICK d \in Nat, e \in BOOLEAN : d = dest[i].sent /\ e = Ended(i)
  BY DownTypes
<1>2. PICK d2 \in Nat, e2 \in BOOLEAN : d2 = dest'[i].sent /\ e2 = Ended(i)'
  BY DownTypesNext
<1>3. d <= d2 /\ (e => e2 /\ d2 = d)
  BY <1>1, <1>2 DEF GoesOn
<1>4. PICK z \in Nat : Leads(responses, ReplyMoves(i, d, e), b, z) /\ (~e => z = Goal(i))
  BY <1>1 DEF Replies
<1>5. PICK W : W = ReplyMoves(i, d2, e2)
  OBVIOUS
<1>6. responses \in Seq(RemoteMessage) /\ <<m>> \in Seq(RemoteMessage)
      /\ responses' = responses \o <<m>>
  BY DownTypes
<1>7. Leads(responses, W, b, z)
  BY <1>3, <1>4, <1>5, <1>6, LeadsReplies
<1>8. PICK c \in Nat : ReplyMove(m, i, d2, e2, z, c) /\ (~e2 => c = Goal(i)')
  BY <1>1, <1>2, <1>4
<1>9. Leads(<<m>>, W, z, c)
  BY <1>5, <1>8, InReplyMoves, LeadsOne
<1>10. Leads(responses \o <<m>>, W, b, c)
  BY <1>6, <1>7, <1>9, LeadsMore
<1> QED
  BY <1>2, <1>5, <1>6, <1>8, <1>10 DEF Replies

(* So it does for every connection.                                         *)
LEMMA TaskReplies ==
  ASSUME TypeInv, TypeInv', NEW i \in ConnId, SaysNothing(i) \/ \E m : Says(i, m)
  PROVE  \A j \in ConnId : GoesOn(j) /\ \A b \in Nat : Replies(j, b) => Replies(j, b)'
<1>1. GoesOn(i)
  BY DownTypes DEF SaysNothing, Says, GoesOn
<1>2. OthersStay(i)
  BY DEF SaysNothing, Says
<1>3. ASSUME NEW j \in ConnId, j # i
      PROVE  GoesOn(j) /\ Goal(j)' = Goal(j) /\ (Ended(j)' <=> Ended(j))
  <2>1. task'[j] = task[j] /\ hand'[j] = hand[j] /\ dest'[j] = dest[j]
    BY <1>2, <1>3 DEF OthersStay
  <2>2. (Early(j)' <=> Early(j)) /\ (Ended(j)' <=> Ended(j))
    BY <2>1 DEF Early, Ended
  <2>3. Goal(j)' = Goal(j)
    BY <2>1, <2>2 DEF Goal
  <2>4. GoesOn(j)
    BY <2>1, <2>2, DownTypes DEF GoesOn
  <2> QED
    BY <2>2, <2>3, <2>4
<1>4. ASSUME SaysNothing(i), NEW j \in ConnId, NEW b \in Nat, Replies(j, b)
      PROVE  Replies(j, b)'
  BY <1>1, <1>3, <1>4, RepliesKept DEF SaysNothing
<1>5. ASSUME NEW m, Says(i, m), NEW j \in ConnId, NEW b \in Nat, Replies(j, b)
      PROVE  Replies(j, b)'
  <2>1. m \in RemoteMessage /\ m.id = i /\ responses' = Append(responses, m)
    BY <1>5 DEF Says
  <2>2. CASE j = i
    <3>1. PICK c \in Nat : /\ ReplyMove(m, i, dest'[i].sent, Ended(i)', Goal(i), c)
                           /\ ~Ended(i)' => c = Goal(i)'
      BY <1>5 DEF Says
    <3>2. ~Ended(i)
      BY <1>5 DEF Says
    <3> QED
      BY <1>1, <1>5, <2>1, <2>2, <3>1, <3>2, RepliesMore
  <2>3. CASE j # i
    <3>1. \A z \in Nat : ReplyMove(m, j, dest'[j].sent, Ended(j)', z, z)
      BY <2>1, <2>3 DEF ReplyMove
    <3>2. GoesOn(j) /\ Goal(j)' = Goal(j) /\ (~Ended(j)' => ~Ended(j))
      BY <1>3, <2>3
    <3> QED
      BY <1>5, <2>1, <3>1, <3>2, RepliesMore
  <2> QED
    BY <2>2, <2>3
<1>6. \A j \in ConnId : GoesOn(j)
  BY <1>1, <1>3
<1> QED
  BY <1>4, <1>5, <1>6

(* A task that has not announced its connection has said nothing.           *)
LEMMA TaskQuiet ==
  ASSUME TypeInv, QuietInv, NEW i \in ConnId, SaysNothing(i) \/ \E m : Says(i, m)
  PROVE  QuietInv'
<1>1. SUFFICES ASSUME NEW j \in ConnId, Early(j)'
               PROVE  /\ dest'[j].sent = 0
                      /\ \A n \in DOMAIN responses' : responses'[n].id # j
  BY DEF QuietInv
<1>2. OthersStay(i)
  BY DEF SaysNothing, Says
<1>3. CASE SaysNothing(i)
  BY <1>1, <1>2, <1>3 DEF QuietInv, SaysNothing, OthersStay, Early
<1>4. ASSUME NEW m, Says(i, m)
      PROVE  /\ dest'[j].sent = 0
             /\ \A n \in DOMAIN responses' : responses'[n].id # j
  <2>1. j # i /\ Early(j) /\ dest'[j] = dest[j]
    BY <1>1, <1>2, <1>4 DEF Says, OthersStay, Early
  <2>2. /\ m \in RemoteMessage /\ m.id = i /\ responses' = Append(responses, m)
        /\ responses \in Seq(RemoteMessage)
    BY <1>4, DownTypes DEF Says
  <2>3. \A n \in DOMAIN responses' : \/ n \in DOMAIN responses /\ responses'[n] = responses[n]
                                     \/ responses'[n] = m
    BY <2>2, ItemAppended
  <2> QED
    BY <2>1, <2>2, <2>3 DEF QuietInv
<1> QED
  BY <1>3, <1>4

(* The host and the applications stand still.                               *)
LEMMA RemoteFrame ==
  ASSUME TypeInv, TypeInv', ReturnInv, QuietInv', HandInv',
         UNCHANGED <<tcp_by_key, to_tun, loop, app, from_tun>>,
         \A i \in ConnId : GoesOn(i) /\ \A b \in Nat : Replies(i, b) => Replies(i, b)'
  PROVE  ReturnInv'
<1>1. NewInv' /\ SynAckInv'
  BY DEF ReturnInv, NewInv, SynAckInv, Idle, InFlight, SynPending, Syn
<1>2. PICK ps \in Seq(TcpPacket) : to_tun' = to_tun \o ps /\ DOMAIN ps = {}
  BY NoItems, DownTypes
<1>3. \A k : WritesToOthers(k)
  BY <1>2 DEF WritesToOthers
<1>4. \A k \in TcpKey : SameApp(k)
  BY DEF SameApp
<1>5. StreamInv'
  BY <1>3, <1>4, UsedKept, UnusedKept DEF ReturnInv, StreamInv
<1> QED
  BY <1>1, <1>5 DEF ReturnInv

(* A block is in hand only until it has been passed on.                     *)
LEMMA HandKept ==
  ASSUME HandInv,
         \A j \in ConnId : task'[j] = "replying" =>
           /\ task[j] = "replying" /\ hand'[j] = hand[j] /\ dest'[j].sent = dest[j].sent
  PROVE  HandInv'
  BY DEF HandInv, Block

(* A step that sends nothing and leaves the task where its count is.        *)
LEMMA QuietTask ==
  ASSUME TypeInv, NEW i \in ConnId, OthersStay(i), UNCHANGED responses,
         dest'[i].sent = dest[i].sent,
         \/ task[i] \in {"none", "connecting"}
            /\ task'[i] \in {"connecting", "announcing", "refused"}
         \/ task[i] \in {"inserting", "relay", "writing", "erring", "closing"}
            /\ task'[i] \in {"relay", "writing", "erring", "closing"}
         \/ task[i] = "removing" /\ task'[i] = "done"
  PROVE  SaysNothing(i)
<1>1. PICK d \in Nat : d = dest[i].sent /\ d = dest'[i].sent
  BY DownTypes
<1>2. GoesOn(i)
  BY <1>1 DEF GoesOn, Ended
<1>3. Early(i)' => Early(i)
  BY DEF Early
<1>4. ~Ended(i)' => Goal(i)' = Goal(i)
  BY <1>1 DEF Ended, Goal, Early
<1> QED
  BY <1>2, <1>3, <1>4 DEF SaysNothing

(* What a task does by itself.                                              *)
LEMMA ReturnTasks ==
  ASSUME TypeInv, TypeInv', ReturnInv, NEW i \in ConnId, UNCHANGED dest,
         UNCHANGED <<tcp_by_key, to_tun, loop, app, from_tun>>,
         R!TaskSteps(i)
  PROVE  ReturnInv'
<1>0. task \in [ConnId -> R!TaskState] /\ hand \in [ConnId -> Payload]
  BY DEF TypeInv, RemoteInv
<1>1. PICK d \in Nat : d = dest[i].sent /\ d = dest'[i].sent
  BY DownTypes
<1>2. QuietInv /\ HandInv
  BY DEF ReturnInv
<1>3. /\ \A j \in ConnId \ {i} : task'[j] = task[j] /\ hand'[j] = hand[j]
      /\ task'[i] # "replying"
  BY <1>0 DEF R!TaskSteps, R!Refuse, R!Announce, R!InsertHandle, R!TakeFromHost, R!ChannelClosed,
              R!SendData, R!SendError, R!SendClosed, R!RemoveHandle, R!Goto
<1>4. OthersStay(i)
  BY <1>3 DEF OthersStay
<1>5. HandInv'
  BY <1>2, <1>3, HandKept
<1>6. ASSUME R!InsertHandle(i) \/ R!TakeFromHost(i) \/ R!ChannelClosed(i) \/ R!RemoveHandle(i)
      PROVE  SaysNothing(i)
  <2>1. /\ UNCHANGED responses
        /\ \/ task[i] \in {"inserting", "relay"} /\ task'[i] \in {"relay", "writing", "closing"}
           \/ task[i] = "removing" /\ task'[i] = "done"
    BY <1>0, <1>6 DEF R!InsertHandle, R!TakeFromHost, R!ChannelClosed, R!RemoveHandle, R!Goto, R!At
  <2> QED
    BY <1>1, <1>4, <2>1, QuietTask
<1>7. ASSUME R!Refuse(i)
      PROVE  Says(i, R!Error(i))
  <2>1. task[i] = "refused" /\ task'[i] = "done" /\ responses' = Append(responses, R!Error(i))
    BY <1>0, <1>7 DEF R!Refuse, R!Goto, R!At, R!Respond
  <2>2. /\ R!Error(i) \in RemoteMessage /\ R!Error(i).id = i /\ R!Error(i).type = "TcpError"
    BY ResponseTypes DEF R!Error
  <2>3. Goal(i) = 0 /\ ~Ended(i) /\ ~Early(i)' /\ Ended(i)'
    BY <2>1 DEF Goal, Early, Ended
  <2>4. ReplyMove(R!Error(i), i, d, Ended(i)', 0, 0) /\ 0 \in Nat
    BY <2>2 DEF ReplyMove
  <2>5. \E b \in Nat : /\ ReplyMove(R!Error(i), i, dest[i].sent, Ended(i)', Goal(i), b)
                       /\ ~Ended(i)' => b = Goal(i)'
    BY <1>1, <2>3, <2>4, Zenon
  <2> QED
    BY <1>4, <2>1, <2>2, <2>3, <2>5 DEF Says
<1>8. ASSUME R!Announce(i)
      PROVE  Says(i, R!Connected(i))
  <2>1. /\ task[i] = "announcing" /\ task'[i] = "inserting"
        /\ responses' = Append(responses, R!Connected(i))
    BY <1>0, <1>8 DEF R!Announce, R!Goto, R!At, R!Respond
  <2>2. /\ R!Connected(i) \in RemoteMessage /\ R!Connected(i).id = i
        /\ R!Connected(i).type = "TcpConnected"
    BY ResponseTypes DEF R!Connected
  <2>3. Goal(i) = 0 /\ ~Ended(i) /\ ~Early(i)' /\ ~Ended(i)'
    BY <2>1 DEF Goal, Early, Ended
  <2>4. Goal(i)' = 1
    <3>1. d = 0
      BY <1>1, <1>2, <2>1 DEF QuietInv, Early
    <3>2. Goal(i)' = d + 1
      BY <1>1, <2>1 DEF Goal, Early
    <3> QED
      BY <3>1, <3>2
  <2>5. ReplyMove(R!Connected(i), i, d, Ended(i)', 0, 1)
    BY <2>2 DEF ReplyMove
  <2> QED
    BY <1>1, <1>4, <2>1, <2>2, <2>3, <2>4, <2>5 DEF Says
<1>9. ASSUME R!SendData(i)
      PROVE  Says(i, R!Data(i, hand[i]))
  <2>1. /\ task[i] = "replying" /\ task'[i] = "relay"
        /\ responses' = Append(responses, R!Data(i, hand[i]))
    BY <1>0, <1>9 DEF R!SendData, R!Goto, R!At, R!Respond
  <2>2. PICK data \in Payload, l \in Nat : data = hand[i] /\ l = Len(data)
    BY DownTypes
  <2>3. /\ R!Data(i, data) \in RemoteMessage /\ R!Data(i, data).id = i
        /\ R!Data(i, data).type = "TcpData" /\ R!Data(i, data).data = data
    BY ResponseTypes DEF R!Data
  <2>4. l <= d /\ Block(i, data, d + 1 - l)
    BY <1>1, <1>2, <2>1, <2>2 DEF HandInv
  <2>5. Goal(i) = d + 1 - l /\ Goal(i)' = d + 1 /\ ~Ended(i) /\ ~Early(i)' /\ ~Ended(i)'
    BY <1>1, <2>1, <2>2 DEF Goal, Early, Ended
  <2>6. PICK a \in Nat : a = d + 1 - l
    BY <2>4
  <2>7. a >= 1 /\ d + 1 = a + l /\ Block(i, data, a)
    BY <2>4, <2>6
  <2>8. ReplyMove(R!Data(i, data), i, d, Ended(i)', a, d + 1)
    <3>1. PICK m : m = R!Data(i, data)
      OBVIOUS
    <3>2. m.id = i /\ m.type = "TcpData" /\ Len(m.data) = l /\ Block(i, m.data, a)
      BY <2>2, <2>3, <2>7, <3>1
    <3>3. ReplyMove(m, i, d, Ended(i)', a, d + 1)
      BY <2>7, <3>2 DEF ReplyMove
    <3> QED
      BY <3>1, <3>3
  <2> QED
    BY <1>1, <1>4, <2>1, <2>2, <2>3, <2>5, <2>6, <2>8 DEF Says
<1>10. ASSUME R!SendError(i)
       PROVE  Says(i, R!Error(i))
  <2>1. task[i] = "erring" /\ task'[i] = "closing" /\ responses' = Append(responses, R!Error(i))
    BY <1>0, <1>10 DEF R!SendError, R!Goto, R!At, R!Respond
  <2>2. R!Error(i) \in RemoteMessage /\ R!Error(i).id = i /\ R!Error(i).type = "TcpError"
    BY ResponseTypes DEF R!Error
  <2>3. Goal(i) = d + 1 /\ Goal(i)' = d + 1 /\ ~Ended(i) /\ ~Early(i)'
    BY <1>1, <2>1 DEF Goal, Early, Ended
  <2>4. ReplyMove(R!Error(i), i, d, Ended(i)', d + 1, d + 1)
    BY <2>2 DEF ReplyMove
  <2> QED
    BY <1>1, <1>4, <2>1, <2>2, <2>3, <2>4 DEF Says
<1>11. ASSUME R!SendClosed(i)
       PROVE  Says(i, R!Closed(i))
  <2>1. /\ task[i] = "closing" /\ task'[i] = "removing"
        /\ responses' = Append(responses, R!Closed(i))
    BY <1>0, <1>11 DEF R!SendClosed, R!Goto, R!At, R!Respond
  <2>2. R!Closed(i) \in RemoteMessage /\ R!Closed(i).id = i /\ R!Closed(i).type = "TcpClosed"
    BY ResponseTypes DEF R!Closed
  <2>3. Goal(i) = d + 1 /\ ~Ended(i) /\ ~Early(i)' /\ Ended(i)'
    BY <1>1, <2>1 DEF Goal, Early, Ended
  <2>4. ReplyMove(R!Closed(i), i, d, Ended(i)', d + 1, d + 2) /\ d + 2 \in Nat
    BY <2>2, <2>3 DEF ReplyMove
  <2>5. \E b \in Nat : /\ ReplyMove(R!Closed(i), i, dest[i].sent, Ended(i)', Goal(i), b)
                       /\ ~Ended(i)' => b = Goal(i)'
    BY <1>1, <2>3, <2>4, Zenon
  <2> QED
    BY <1>4, <2>1, <2>2, <2>3, <2>5 DEF Says
<1>12. SaysNothing(i) \/ \E m : Says(i, m)
  BY <1>6, <1>7, <1>8, <1>9, <1>10, <1>11 DEF R!TaskSteps
<1> QED
  BY <1>2, <1>5, <1>12, TaskReplies, TaskQuiet, RemoteFrame

(* What the destinations do.                                                *)
LEMMA ReturnDests ==
  ASSUME TypeInv, TypeInv', ReturnInv, NEW i \in ConnId,
         DestAnswers(i) \/ DestSends(i) \/ DestEnds(i) \/ DestAccepts(i)
  PROVE  ReturnInv'
<1>0. /\ task \in [ConnId -> R!TaskState] /\ hand \in [ConnId -> Payload]
      /\ dest \in [ConnId -> [got : Seq(Byte), sent : 0..MaxReads]]
      /\ UNCHANGED <<tcp_by_key, to_tun, loop, app, from_tun, responses>>
  BY DEF TypeInv, RemoteInv, EnvInv, DestAnswers, DestSends, DestEnds, DestAccepts, RemoteOnly,
         hostVars, natVars, R!Connects, R!ReadFromDest, R!DestEof, R!DestFails, R!WriteAll
<1>1. PICK d \in Nat : d = dest[i].sent
  BY DownTypes
<1>2. QuietInv /\ HandInv
  BY DEF ReturnInv
<1>3. \A j \in ConnId \ {i} : task'[j] = task[j] /\ hand'[j] = hand[j] /\ dest'[j] = dest[j]
  BY <1>0 DEF DestAnswers, DestSends, DestEnds, DestAccepts,
              R!Connects, R!ReadFromDest, R!DestEof, R!DestFails, R!WriteAll, R!Goto
<1>4. OthersStay(i)
  BY <1>3 DEF OthersStay
<1>5. CASE DestAnswers(i) \/ DestEnds(i) \/ DestAccepts(i)
  <2>1. /\ \/ task[i] = "connecting" /\ task'[i] \in {"announcing", "refused"}
           \/ task[i] \in {"relay", "writing"} /\ task'[i] \in {"relay", "closing", "erring"}
        /\ dest'[i].sent = dest[i].sent
    BY <1>0, <1>5 DEF DestAnswers, DestEnds, DestAccepts,
                      R!Connects, R!DestEof, R!DestFails, R!WriteAll, R!Goto, R!At
  <2>2. SaysNothing(i)
    BY <1>0, <1>4, <2>1, QuietTask
  <2>3. HandInv'
    BY <1>2, <1>3, <2>1, HandKept
  <2> QED
    BY <1>0, <1>2, <2>2, <2>3, TaskReplies, TaskQuiet, RemoteFrame
<1>6. CASE DestSends(i)
  <2>1. PICK n \in 1..MaxRead :
          /\ R!ReadFromDest(i, [j \in 1..n |-> DownByte(i, dest[i].sent + j)])
          /\ dest' = [dest EXCEPT ![i].sent = @ + n]
    BY <1>6 DEF DestSends
  <2>2. PICK data : data = [j \in 1..n |-> DownByte(i, d + j)]
    OBVIOUS
  <2>3. n \in Nat /\ Len(data) = n /\ DOMAIN data = 1..n
    BY <2>2, HostAssumption
  <2>4. task[i] = "relay" /\ task'[i] = "replying" /\ hand'[i] = data /\ dest'[i].sent = d + n
    BY <1>0, <1>1, <2>1, <2>2 DEF R!ReadFromDest, R!Goto, R!At
  <2>5. Block(i, data, d + 1)
    <3>1. \A j \in 1..n : d + j = (d + 1) + j - 1
      BY <2>3
    <3> QED
      BY <2>2, <2>3, <3>1 DEF Block
  <2>6. HandInv'
    <3>1. SUFFICES ASSUME NEW j \in ConnId, task'[j] = "replying"
                   PROVE  /\ Len(hand'[j]) <= dest'[j].sent
                          /\ Block(j, hand'[j], dest'[j].sent + 1 - Len(hand'[j]))
      BY DEF HandInv, Block
    <3>2. CASE j = i
      <4>1. d + n + 1 - n = d + 1 /\ n <= d + n
        BY <2>3
      <4> QED
        BY <2>3, <2>4, <2>5, <3>2, <4>1
    <3>3. CASE j # i
      BY <1>2, <1>3, <3>1, <3>3 DEF HandInv
    <3> QED
      BY <3>2, <3>3
  <2>7. SaysNothing(i)
    <3>1. Goal(i) = d + 1 /\ Goal(i)' = d + n + 1 - n
      BY <1>1, <2>3, <2>4 DEF Goal, Early
    <3>2. Goal(i)' = Goal(i) /\ d <= d + n
      BY <2>3, <3>1
    <3> QED
      BY <1>0, <1>1, <1>4, <2>4, <3>2 DEF SaysNothing, GoesOn, Early, Ended
  <2> QED
    BY <1>0, <1>2, <2>6, <2>7, TaskReplies, TaskQuiet, RemoteFrame
<1> QED
  BY <1>5, <1>6

(* What the remote's select loop does.                                      *)
LEMMA ReturnLoop ==
  ASSUME TypeInv, TypeInv', ProtoInv, ReturnInv, RemoteTakes \/ LoopResumes
  PROVE  ReturnInv'
<1>0. /\ task \in [ConnId -> R!TaskState]
      /\ UNCHANGED <<tcp_by_key, to_tun, loop, app, from_tun, responses, hand, dest>>
  BY DEF TypeInv, RemoteInv, RemoteTakes, LoopResumes, RemoteOnly, SendToRemote,
         hostVars, natVars, R!LoopResumes, R!HandleHostMessage, R!OnTcpConnect, R!OnTcpData,
         R!OnTcpClose
<1>1. QuietInv /\ HandInv
  BY DEF ReturnInv
<1>2. CASE UNCHANGED task
  <2>1. QuietInv' /\ HandInv'
    BY <1>0, <1>1, <1>2 DEF QuietInv, HandInv, Early
  <2>2. \A i \in ConnId : GoesOn(i) /\ \A b \in Nat : Replies(i, b) => Replies(i, b)'
    BY <1>0, <1>2, DownTypes DEF GoesOn, Ended, Replies, Goal, Early
  <2> QED
    BY <1>0, <2>1, <2>2, RemoteFrame
<1>3. ASSUME NEW m, m = Head(to_remote), to_remote # <<>>, R!OnTcpConnect(m)
      PROVE  ReturnInv'
  <2>1. /\ to_remote \in Seq(HostMessage) /\ m \in HostMessage
        /\ m = to_remote[1] /\ 1 \in DOMAIN to_remote
    BY <1>3, HeadTail DEF TypeInv, IInv, ChannelTypeOK
  <2>2. m.id \in ConnId /\ task[m.id] = "none"
    BY <1>3, <2>1 DEF HostMessage, R!OnTcpConnect, ProtoInv, ToRemoteInv
  <2>3. PICK i \in ConnId : i = m.id
    BY <2>2
  <2>4. task[i] = "none" /\ task' = [task EXCEPT ![i] = "connecting"]
    BY <1>3, <2>2, <2>3 DEF R!OnTcpConnect, R!Goto
  <2>5. OthersStay(i) /\ task'[i] = "connecting"
    BY <1>0, <2>4 DEF OthersStay
  <2>6. SaysNothing(i)
    BY <1>0, <2>4, <2>5, QuietTask
  <2>7. HandInv'
    BY <1>0, <1>1, <2>4, HandKept
  <2> QED
    BY <1>0, <1>1, <2>6, <2>7, TaskReplies, TaskQuiet, RemoteFrame
<1>4. CASE RemoteTakes
  BY <1>2, <1>3, <1>4 DEF RemoteTakes, SendToRemote, R!HandleHostMessage, R!OnTcpData, R!OnTcpClose
<1>5. CASE LoopResumes
  BY <1>2, <1>5 DEF LoopResumes, R!LoopResumes
<1> QED
  BY <1>4, <1>5

-----------------------------------------------------------------------------
(* The invariant, and what it gives.                                        *)

(* It holds at the start.                                                   *)
LEMMA InitReturnInv ==
  ASSUME TunnelInit
  PROVE  ReturnInv
<1>1. /\ to_tun = <<>> /\ responses = <<>> /\ DOMAIN tcp_by_key = {}
      /\ \A i \in ConnId : task[i] = "none" /\ dest[i].sent = 0
      /\ \A k \in TcpKey : app[k].st = "closed" /\ app[k].got = <<>> /\ ~app[k].rfin
  BY DEF TunnelInit, HostInit, NatInit, R!RemoteInit
<1>2. DOMAIN <<>> = {}
  BY NoItems
<1>3. \A k \in TcpKey : Idle(k) /\ k \notin DOMAIN tcp_by_key
  BY <1>1, <1>2 DEF Idle, InFlight
<1>4. NewInv /\ StreamInv
  BY <1>3 DEF NewInv, StreamInv, Unused, Idle
<1>5. SynAckInv /\ QuietInv /\ HandInv
  BY <1>1, <1>2 DEF SynAckInv, QuietInv, HandInv
<1> QED
  BY <1>4, <1>5 DEF ReturnInv

(* Every step keeps it.                                                     *)
LEMMA NextReturnInv ==
  ASSUME MaxSyns = 1, ProtocolInv, ProtocolInv', AcksInv, ReturnInv, [TunnelNext]_tunnelVars
  PROVE  ReturnInv'
<1>1. /\ TypeInv /\ TypeInv' /\ SynInv /\ SynInv' /\ FreshInv /\ ProtoInv /\ SegmentsInv
  BY DEF ProtocolInv, AcksInv
<1>2. CASE AppNext
  BY <1>1, <1>2, ReturnActs, ReturnReceives, ReturnDrops DEF AppNext
<1>3. CASE HostReads
  BY <1>1, <1>3, ReturnReads
<1>4. CASE HostTakes
  BY <1>1, <1>4, ReturnTakes
<1>5. CASE RemoteNext
  <2>1. ASSUME NEW i \in ConnId, RemoteRuns(i)
        PROVE  ReturnInv'
    BY <1>1, <2>1, ReturnTasks DEF RemoteRuns, RemoteOnly, hostVars, natVars
  <2> QED
    BY <1>1, <1>5, <2>1, ReturnDests, ReturnLoop DEF RemoteNext
<1>6. CASE UNCHANGED tunnelVars
  <2>1. UNCHANGED <<tcp_by_key, to_tun, loop, app, from_tun, task, hand, dest, responses>>
    BY <1>6 DEF tunnelVars, hostVars, natVars, remoteVars
  <2>2. QuietInv' /\ HandInv'
    BY <2>1 DEF ReturnInv, QuietInv, HandInv, Early
  <2>3. \A i \in ConnId : GoesOn(i) /\ \A b \in Nat : Replies(i, b) => Replies(i, b)'
    BY <1>1, <2>1, DownTypes DEF GoesOn, Ended, Replies, Goal, Early
  <2> QED
    BY <1>1, <2>1, <2>2, <2>3, RemoteFrame
<1> QED
  BY <1>2, <1>3, <1>4, <1>5, <1>6 DEF TunnelNext

(* What an application has read is a prefix of its destination's stream.    *)
LEMMA StreamReads ==
  ASSUME TypeInv, StreamInv
  PROVE  ReadsOneStream /\ EofAfterAllData
<1>1. ASSUME NEW k \in TcpKey
      PROVE  /\ app[k].got # <<>> =>
                  \E i \in ConnId : \A n \in DOMAIN app[k].got : app[k].got[n] = DownByte(i, n)
             /\ app[k].rfin => \E i \in ConnId : Len(app[k].got) = dest[i].sent
  <2>1. CASE Unused(k)
    BY <2>1 DEF Unused
  <2>2. ASSUME NEW i \in ConnId, Used(k, i)
        PROVE  /\ \A n \in DOMAIN app[k].got : app[k].got[n] = DownByte(i, n)
               /\ app[k].rfin => Len(app[k].got) = dest[i].sent
    <3>1. Block(i, app[k].got, 1) /\ (app[k].rfin => Len(app[k].got) = dest[i].sent)
      BY <2>2 DEF Used, Reads
    <3>2. \A n \in DOMAIN app[k].got : 1 + n - 1 = n
      BY DownTypes
    <3>3. \A n \in DOMAIN app[k].got : app[k].got[n] = DownByte(i, 1 + n - 1)
      BY <3>1 DEF Block
    <3> QED
      BY <3>1, <3>2, <3>3
  <2> QED
    BY <2>1, <2>2 DEF StreamInv
<1> QED
  BY <1>1 DEF ReadsOneStream, EofAfterAllData

(* A counter that only the items in F move has the value the last of them   *)
(* left it.                                                                 *)
LEMMA LastMove ==
  ASSUME NEW L \in Nat, NEW x, NEW F,
         \A n \in 1..L : n \notin F => x[n + 1] = x[n], NEW l \in Nat, l <= L
  PROVE  \/ {m \in F : m < l + 1} \cap (1..L) = {} /\ x[l + 1] = x[1]
         \/ \E m \in F : /\ m \in 1..l /\ x[l + 1] = x[m + 1]
                         /\ \A y \in F \cap (1..L) : y < l + 1 => m >= y
<1> DEFINE P(n) == \/ (\A m \in F \cap (1..L) : ~(m < n + 1)) /\ x[n + 1] = x[1]
                   \/ \E m \in F : /\ m \in 1..n /\ x[n + 1] = x[m + 1]
                                   /\ \A y \in F \cap (1..L) : y < n + 1 => m >= y
           T == {n \in Nat : n <= L => P(n)}
<1>1. 0 \in T
  <2>1. \A m \in F \cap (1..L) : ~(m < 0 + 1)
    OBVIOUS
  <2>2. 0 + 1 = 1
    OBVIOUS
  <2> QED
    BY <2>1, <2>2
<1>2. ASSUME NEW n \in Nat, n \in T
      PROVE  n + 1 \in T
  <2>1. SUFFICES ASSUME n + 1 <= L PROVE P(n + 1)
    OBVIOUS
  <2>2. P(n) /\ n + 1 \in 1..L
    BY <1>2, <2>1
  <2>3. CASE n + 1 \in F
    <3>1. n + 1 \in 1..(n + 1)
      OBVIOUS
    <3>2. \A y \in F \cap (1..L) : y < (n + 1) + 1 => n + 1 >= y
      OBVIOUS
    <3> QED
      BY <2>3, <3>1, <3>2
  <2>4. CASE n + 1 \notin F
    <3>1. x[(n + 1) + 1] = x[n + 1]
      BY <2>2, <2>4
    <3>2. \A y \in F \cap (1..L) : y < (n + 1) + 1 => y < n + 1
      BY <2>4
    <3>3. \A m \in 1..n : m \in 1..(n + 1)
      OBVIOUS
    <3> QED
      BY <2>2, <3>1, <3>2, <3>3
  <2> QED
    BY <2>3, <2>4
<1>3. l \in T
  <2> HIDE DEF T
  <2> QED
    BY <1>1, <1>2, SetInduction
<1>4. P(l)
  BY <1>3
<1> QED
  BY <1>4

(* A packet moves the count by its length.                                  *)
LEMMA MoveLength ==
  ASSUME NEW p, NEW k, NEW i, NEW d, NEW e, NEW a, NEW b,
         p \in TcpPacket, d \in Nat, a \in Nat, b \in Nat,
         p.key = k, "rst" \notin p.flags, PacketMove(p, k, i, d, e, a, b)
  PROVE  p.seq = OnWire(a) /\ Length(p) \in Nat /\ b = a + Length(p)
<1>1. p.seq = OnWire(a) /\ (Opening(p, a, b) \/ Carrying(p, i, d, a, b) \/ Finishing(p, d, e, a, b))
  BY DEF PacketMove
<1>2. Len(<<>>) = 0 /\ Len(p.payload) \in Nat
  BY DEF TcpPacket
<1>3. CASE Opening(p, a, b)
  <2>1. p.flags \cap {"syn", "fin"} = {"syn"}
    BY <1>3 DEF Opening
  <2>2. Cardinality(p.flags \cap {"syn", "fin"}) = 1
    BY <2>1, FS_Singleton
  <2>3. Length(p) = 1
    BY <1>2, <1>3, <2>2 DEF Opening, Length
  <2> QED
    BY <1>1, <1>3, <2>3 DEF Opening
<1>4. CASE Carrying(p, i, d, a, b)
  <2>1. p.flags \cap {"syn", "fin"} = {}
    BY <1>4 DEF Carrying
  <2>2. Cardinality(p.flags \cap {"syn", "fin"}) = 0
    BY <2>1, FS_EmptySet
  <2>3. Length(p) = Len(p.payload)
    BY <1>2, <2>2 DEF Length
  <2> QED
    BY <1>1, <1>2, <1>4, <2>3 DEF Carrying
<1>5. CASE Finishing(p, d, e, a, b)
  <2>1. p.flags \cap {"syn", "fin"} = {"fin"}
    BY <1>5 DEF Finishing
  <2>2. Cardinality(p.flags \cap {"syn", "fin"}) = 1
    BY <2>1, FS_Singleton
  <2>3. Length(p) = 1
    BY <1>2, <1>5, <2>2 DEF Finishing, Length
  <2> QED
    BY <1>1, <1>5, <2>3 DEF Finishing
<1> QED
  BY <1>1, <1>3, <1>4, <1>5

(* Its largest element.                                                     *)
LEMMA MaxIs ==
  ASSUME NEW S \in SUBSET Nat, NEW m \in S, \A y \in S : m >= y
  PROVE  Max(S) = m
<1>1. Max(S) \in S /\ \A y \in S : Max(S) >= y
  BY DEF Max
<1>2. \A y, z \in Nat : y >= z /\ z >= y => y = z
  OBVIOUS
<1> QED
  BY <1>1, <1>2

(* So the packets follow one another, and the table follows the last.       *)
LEMMA StreamSequence ==
  ASSUME TypeInv, StreamInv
  PROVE  SeqAgrees
<1>1. SUFFICES ASSUME loop = "running", NEW k \in DOMAIN tcp_by_key, app[k].st = "open",
                      tcp_by_key[k].state # "SynSent"
               PROVE  /\ \A n \in InFlight(k) :
                           "syn" \in to_tun[n].flags \/ to_tun[n].seq = Expected(k, n)
                      /\ tcp_by_key[k].seq = Expected(k, Len(to_tun) + 1)
  BY DEF SeqAgrees
<1>2. k \in TcpKey /\ to_tun \in Seq(TcpPacket)
  BY DownTypes
<1>3. PICK i \in ConnId : Used(k, i)
  BY <1>1, <1>2 DEF StreamInv, Unused, Idle
<1>4. PICK b \in Nat : Packets(k, i, Offset(k), b) /\ Entry(k, i, b)
  BY <1>1, <1>3 DEF Used, Onward
<1>5. PICK a : a = Offset(k) /\ app[k].rcv_nxt = OnWire(a)
  BY <1>1, <1>3 DEF Used, Coherent
<1>6. PICK d \in Nat, e \in BOOLEAN : d = dest[i].sent /\ e = Ended(i)
  BY DownTypes
<1>7. PICK x : /\ Walk(to_tun, PacketMoves(k, i, d, e), x)
               /\ x[1] = a /\ x[Len(to_tun) + 1] = b
  BY <1>4, <1>5, <1>6 DEF Packets, Leads
<1>8. PICK L \in Nat : L = Len(to_tun) /\ DOMAIN to_tun = 1..L
  BY <1>2
<1>9. PICK F : F = InFlight(k)
  OBVIOUS
<1>10. ASSUME NEW n \in 1..L
       PROVE  /\ x[n] \in Nat /\ x[n + 1] \in Nat
              /\ n \in F => /\ to_tun[n].seq = OnWire(x[n]) /\ Length(to_tun[n]) \in Nat
                            /\ x[n + 1] = x[n] + Length(to_tun[n])
              /\ n \notin F => x[n + 1] = x[n]
  <2>1. n \in 1..(L + 1) /\ n + 1 \in 1..(L + 1)
    OBVIOUS
  <2>2. x[n] \in Nat /\ x[n + 1] \in Nat /\ to_tun[n] \in TcpPacket
    <3>1. x \in [1..(L + 1) -> Nat]
      BY <1>7, <1>8 DEF Walk
    <3>2. to_tun[n] \in TcpPacket
      BY <1>2, <1>8
    <3> QED
      BY <2>1, <3>1, <3>2
  <2>3. PacketMove(to_tun[n], k, i, d, e, x[n], x[n + 1])
    BY <1>7, <1>8, <2>2, InPacketMoves DEF Walk
  <2>4. CASE n \in F
    <3>1. to_tun[n].key = k /\ "rst" \notin to_tun[n].flags
      BY <1>4, <1>9, <2>4 DEF Entry, NoReset, InFlight
    <3>2. PICK p \in TcpPacket, u \in Nat, v \in Nat :
            p = to_tun[n] /\ u = x[n] /\ v = x[n + 1]
      BY <2>2
    <3>3. p.seq = OnWire(u) /\ Length(p) \in Nat /\ v = u + Length(p)
      <4>1. PacketMove(p, k, i, d, e, u, v)
        BY <2>3, <3>2
      <4>2. p.key = k /\ "rst" \notin p.flags
        BY <3>1, <3>2
      <4>3. d \in Nat /\ u \in Nat /\ v \in Nat /\ p \in TcpPacket
        BY <1>6, <3>2
      <4> QED
        BY ONLY <4>1, <4>2, <4>3, MoveLength, ZenonT(60)
    <3> QED
      BY <2>2, <2>4, <3>2, <3>3
  <2>5. CASE n \notin F
    <3>1. to_tun[n].key # k
      BY <1>8, <1>9, <2>5 DEF InFlight
    <3> QED
      BY <2>2, <2>3, <2>5, <3>1 DEF PacketMove
  <2> QED
    BY <2>4, <2>5
<1>11. ASSUME NEW l \in Nat, l <= L
       PROVE  Expected(k, l + 1) = OnWire(x[l + 1])
  <2>1. PICK E \in SUBSET Nat : E = {m \in F : m < l + 1} /\ E \subseteq 1..L
    <3>1. F \subseteq 1..L
      BY <1>8, <1>9 DEF InFlight
    <3>2. PICK G : G = {m \in F : m < l + 1}
      OBVIOUS
    <3>3. G \subseteq F
      BY <3>2
    <3>4. G \subseteq 1..L /\ G \in SUBSET Nat
      BY <1>8, <3>1, <3>3
    <3> QED
      BY <3>2, <3>4
  <2>2. \/ E = {} /\ x[l + 1] = x[1]
        \/ \E m \in F : /\ m \in 1..l /\ x[l + 1] = x[m + 1]
                        /\ \A y \in F \cap (1..L) : y < l + 1 => m >= y
    <3>1. \A n \in 1..L : n \notin F => x[n + 1] = x[n]
      BY <1>10
    <3>2. E \cap (1..L) = E
      BY <2>1
    <3> QED
      BY ONLY L \in Nat, l \in Nat, <1>11, <2>1, <3>1, <3>2, LastMove, ZenonT(60)
  <2>3. Expected(k, l + 1) = IF E = {} THEN app[k].rcv_nxt
                             ELSE WrappingAdd(to_tun[Max(E)].seq, Length(to_tun[Max(E)]))
    BY <1>9, <2>1 DEF Expected
  <2>4. CASE E = {}
    <3>1. x[l + 1] = x[1]
      BY <2>1, <2>2, <2>4
    <3> QED
      BY <1>5, <1>7, <2>3, <2>4, <3>1
  <2>5. CASE E # {}
    <3>1. PICK m \in E : m \in 1..L /\ x[l + 1] = x[m + 1] /\ \A y \in E : m >= y
      BY <1>11, <2>1, <2>2, <2>5
    <3>2. Max(E) = m
      BY <2>1, <3>1, MaxIs
    <3>3. m \in F
      BY <2>1, <3>1
    <3>4. PICK u \in Nat, v \in Nat : /\ u = x[m] /\ v = Length(to_tun[m])
                                      /\ to_tun[m].seq = OnWire(u) /\ x[m + 1] = u + v
      BY <1>10, <3>1, <3>3
    <3>5. WrappingAdd(WrappingAdd(HostIsn, u), v) = WrappingAdd(HostIsn, u + v)
      BY WrappingTwice
    <3> QED
      BY <2>3, <2>5, <3>1, <3>2, <3>4, <3>5 DEF OnWire
  <2> QED
    BY <2>4, <2>5
<1>12. ASSUME NEW n \in InFlight(k)
       PROVE  to_tun[n].seq = Expected(k, n)
  <2>1. n \in 1..L /\ n \in F
    BY <1>8, <1>9 DEF InFlight
  <2>2. PICK l \in Nat : n = l + 1 /\ l <= L
    BY <2>1
  <2> QED
    BY <1>10, <1>11, <2>1, <2>2
<1>13. tcp_by_key[k].seq = Expected(k, Len(to_tun) + 1)
  <2>1. Expected(k, L + 1) = OnWire(x[L + 1])
    BY <1>11
  <2> QED
    BY <1>4, <1>7, <1>8, <2>1 DEF Entry
<1> QED
  BY <1>12, <1>13

(* The invariant of the way down, with one SYN per connection attempt.      *)
LEMMA WayDown ==
  ASSUME MaxSyns = 1
  PROVE  TunnelSpec => [](TypeInv /\ StreamInv)
<1> DEFINE DownInv == ProtocolInv /\ AcksInv /\ ReturnInv
<1>1. TunnelInit => DownInv
  BY InitProtocolInv, InitAcksInv, InitReturnInv
<1>2. DownInv /\ [TunnelNext]_tunnelVars => DownInv'
  <2>1. ASSUME DownInv, [TunnelNext]_tunnelVars
        PROVE  ProtocolInv' /\ AcksInv' /\ ReturnInv'
    <3>1. ProtocolInv'
      BY <2>1, NextProtocolInv
    <3>2. TypeInv'
      BY <3>1 DEF ProtocolInv
    <3>3. AcksInv'
      BY <2>1, <3>2, NextAcksInv
    <3> QED
      BY <2>1, <3>1, <3>3, NextReturnInv
  <2> QED
    BY <2>1
<1>3. DownInv => TypeInv /\ StreamInv
  BY DEF ProtocolInv, ReturnInv
<1> HIDE DEF DownInv
<1> QED
  BY <1>1, <1>2, <1>3, PTL DEF TunnelSpec

(* What an application reads is, from its first byte on, what one           *)
(* destination sent: the sequence numbers the host makes up join the blocks *)
(* of a connection without a hole, an overlap or a byte of another one      *)
(* (mod.rs:529-558), whatever is dropped on its way to the host.            *)
THEOREM OneSynStream ==
  ASSUME MaxSyns = 1
  PROVE  TunnelSpec => []ReadsOneStream
<1>1. TypeInv /\ StreamInv => ReadsOneStream
  BY StreamReads
<1> QED
  BY <1>1, WayDown, PTL

(* No FIN overtakes what was read from the destination: an application that *)
(* sees the end of its stream has all of it (mod.rs:559-608, proxy.rs:79).  *)
THEOREM OneSynEof ==
  ASSUME MaxSyns = 1
  PROVE  TunnelSpec => []EofAfterAllData
<1>1. TypeInv /\ StreamInv => EofAfterAllData
  BY StreamReads
<1> QED
  BY <1>1, WayDown, PTL

(* Every packet on its way to a connected application has the sequence      *)
(* number the application will expect, and the table has the next one       *)
(* (mod.rs:523-525, :554, :582-605).                                        *)
THEOREM OneSynSequence ==
  ASSUME MaxSyns = 1
  PROVE  TunnelSpec => []SeqAgrees
<1>1. TypeInv /\ StreamInv => SeqAgrees
  BY StreamSequence
<1> QED
  BY <1>1, WayDown, PTL
=============================================================================
