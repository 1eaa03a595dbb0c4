----------------------------- MODULE BridgeProofs -----------------------------
(***************************************************************************)
(* What TLAPS proves of SerialBridge for any sizes of the buffers and any  *)
(* number of bytes and faults: the order of the bytes, that none           *)
(* disappears, and that every pass of the loop ends.                       *)
(***************************************************************************)
EXTENDS SerialBridge, TLAPS

Rising(q) == \A i, j \in 1 .. Len(q) : i < j => q[i] < q[j]
Below(p, q) == \A x \in ToSet(p), y \in ToSet(q) : x < y
UpTo(q, m) == \A x \in ToSet(q) : x <= m

-----------------------------------------------------------------------------
(* Lemmas about sequences. *)

LEMMA InToSet ==
  ASSUME NEW s \in Seq(Nat), NEW i \in 1 .. Len(s)
  PROVE  s[i] \in ToSet(s)
<1>1. i \in DOMAIN s
      OBVIOUS
<1> QED  BY <1>1 DEF ToSet

LEMMA OfToSet ==
  ASSUME NEW s \in Seq(Nat), NEW x \in ToSet(s)
  PROVE  \E i \in 1 .. Len(s) : x = s[i]
<1>1. \E i \in DOMAIN s : x = s[i]
      BY DEF ToSet
<1>2. DOMAIN s = 1 .. Len(s)
      OBVIOUS
<1> QED  BY <1>1, <1>2

\* The parts of a sequence that is cut in two.
LEMMA Cut ==
  ASSUME NEW q \in Seq(Nat), NEW k \in 0 .. Len(q)
  PROVE  /\ First(q, k) \in Seq(Nat)
         /\ Len(First(q, k)) = k
         /\ \A i \in 1 .. k : First(q, k)[i] = q[i]
         /\ Rest(q, k) \in Seq(Nat)
         /\ Len(Rest(q, k)) = Len(q) - k
         /\ \A i \in 1 .. Len(q) - k : Rest(q, k)[i] = q[k + i]
BY DEF First, Rest

\* Two sequences joined.
LEMMA Join ==
  ASSUME NEW p \in Seq(Nat), NEW q \in Seq(Nat)
  PROVE  /\ p \o q \in Seq(Nat)
         /\ Len(p \o q) = Len(p) + Len(q)
         /\ \A i \in 1 .. Len(p) : (p \o q)[i] = p[i]
         /\ \A i \in 1 .. Len(q) : (p \o q)[Len(p) + i] = q[i]
OBVIOUS

\* The front of a queue moved to the end of what was handed on.
Moved(p, q, k, h, g) ==
  /\ h \in Seq(Nat) /\ g \in Seq(Nat)
  /\ Len(h) = Len(p) + k
  /\ Len(g) = Len(q) - k
  /\ \A i \in 1 .. Len(p) : h[i] = p[i]
  /\ \A i \in 1 .. k : h[Len(p) + i] = q[i]
  /\ \A i \in 1 .. Len(q) - k : g[i] = q[k + i]

LEMMA Move ==
  ASSUME NEW p \in Seq(Nat), NEW q \in Seq(Nat), NEW k \in 0 .. Len(q)
  PROVE  Moved(p, q, k, p \o First(q, k), Rest(q, k))
<1> DEFINE f == First(q, k)
           g == Rest(q, k)
<1>1. /\ f \in Seq(Nat) /\ Len(f) = k
      /\ \A i \in 1 .. k : f[i] = q[i]
      /\ g \in Seq(Nat) /\ Len(g) = Len(q) - k
      /\ \A i \in 1 .. Len(q) - k : g[i] = q[k + i]
      BY Cut
<1> HIDE DEF f, g
<1>2. /\ p \o f \in Seq(Nat)
      /\ Len(p \o f) = Len(p) + Len(f)
      /\ \A i \in 1 .. Len(p) : (p \o f)[i] = p[i]
      /\ \A i \in 1 .. Len(f) : (p \o f)[Len(p) + i] = f[i]
      BY <1>1, Join
<1>3. Moved(p, q, k, p \o f, g)
      BY <1>1, <1>2 DEF Moved
<1> QED  BY <1>3 DEF f, g

\* It keeps the order.
LEMMA MoveKeepsOrder ==
  ASSUME NEW p \in Seq(Nat), NEW q \in Seq(Nat), NEW k \in 0 .. Len(q),
         NEW h, NEW g, Moved(p, q, k, h, g),
         Rising(p), Rising(q), Below(p, q)
  PROVE  Rising(h) /\ Rising(g) /\ Below(h, g)
<1>1. ASSUME NEW i \in 1 .. Len(h)
      PROVE  \/ i \in 1 .. Len(p) /\ h[i] = p[i]
             \/ \E a \in 1 .. k : i = Len(p) + a /\ h[i] = q[a]
  <2>1. CASE i <= Len(p)
        BY <2>1 DEF Moved
  <2>2. CASE i > Len(p)
    <3>1. i - Len(p) \in 1 .. k /\ i = Len(p) + (i - Len(p))
          BY <2>2 DEF Moved
    <3> QED  BY <3>1 DEF Moved
  <2> QED  BY <2>1, <2>2 DEF Moved
<1>2. ASSUME NEW i \in 1 .. Len(g)
      PROVE  \E a \in 1 .. Len(q) : a = k + i /\ g[i] = q[a]
  <2>1. k + i \in 1 .. Len(q) /\ i \in 1 .. Len(q) - k
        BY DEF Moved
  <2> QED  BY <2>1 DEF Moved
<1>3. Rising(h)
  <2> SUFFICES ASSUME NEW i \in 1 .. Len(h), NEW j \in 1 .. Len(h), i < j
               PROVE  h[i] < h[j]
      BY DEF Rising
  <2>1. CASE i \in 1 .. Len(p) /\ h[i] = p[i] /\ j \in 1 .. Len(p) /\ h[j] = p[j]
        BY <2>1 DEF Rising
  <2>2. CASE i \in 1 .. Len(p) /\ h[i] = p[i] /\ \E a \in 1 .. k : j = Len(p) + a /\ h[j] = q[a]
    <3>1. PICK a \in 1 .. k : j = Len(p) + a /\ h[j] = q[a]
          BY <2>2
    <3>2. a \in 1 .. Len(q)
          OBVIOUS
    <3>3. p[i] \in ToSet(p) /\ q[a] \in ToSet(q)
          BY <2>2, <3>2, InToSet
    <3> QED  BY <2>2, <3>1, <3>3 DEF Below
  <2>3. CASE /\ \E a \in 1 .. k : i = Len(p) + a /\ h[i] = q[a]
             /\ \E a \in 1 .. k : j = Len(p) + a /\ h[j] = q[a]
    <3>1. PICK a \in 1 .. k : i = Len(p) + a /\ h[i] = q[a]
          BY <2>3
    <3>2. PICK b \in 1 .. k : j = Len(p) + b /\ h[j] = q[b]
          BY <2>3
    <3>3. a \in 1 .. Len(q) /\ b \in 1 .. Len(q) /\ a < b
          BY <3>1, <3>2
    <3> QED  BY <3>1, <3>2, <3>3 DEF Rising
  <2> QED  BY <1>1, <2>1, <2>2, <2>3
<1>4. Rising(g)
  <2> SUFFICES ASSUME NEW i \in 1 .. Len(g), NEW j \in 1 .. Len(g), i < j
               PROVE  g[i] < g[j]
      BY DEF Rising
  <2>1. PICK a \in 1 .. Len(q) : a = k + i /\ g[i] = q[a]
        BY <1>2
  <2>2. PICK b \in 1 .. Len(q) : b = k + j /\ g[j] = q[b]
        BY <1>2
  <2>3. a < b
        BY <2>1, <2>2 DEF Moved
  <2> QED  BY <2>1, <2>2, <2>3 DEF Rising
<1>5. Below(h, g)
  <2> SUFFICES ASSUME NEW x \in ToSet(h), NEW y \in ToSet(g)
               PROVE  x < y
      BY DEF Below
  <2>4. PICK i \in 1 .. Len(h) : x = h[i]
        BY OfToSet DEF Moved
  <2>5. PICK j \in 1 .. Len(g) : y = g[j]
        BY OfToSet DEF Moved
  <2>1. PICK b \in 1 .. Len(q) : b = k + j /\ g[j] = q[b]
        BY <1>2
  <2>2. CASE i \in 1 .. Len(p) /\ h[i] = p[i]
    <3>1. p[i] \in ToSet(p) /\ q[b] \in ToSet(q)
          BY <2>2, InToSet
    <3> QED  BY <2>1, <2>2, <2>4, <2>5, <3>1 DEF Below
  <2>3. CASE \E a \in 1 .. k : i = Len(p) + a /\ h[i] = q[a]
    <3>1. PICK a \in 1 .. k : i = Len(p) + a /\ h[i] = q[a]
          BY <2>3
    <3>2. a \in 1 .. Len(q) /\ a < b
          BY <2>1 DEF Moved
    <3> QED  BY <2>1, <2>4, <2>5, <3>1, <3>2 DEF Rising
  <2> QED  BY <1>1, <2>2, <2>3
<1> QED  BY <1>3, <1>4, <1>5

\* Bytes are neither lost nor added.
LEMMA MoveKeepsBytes ==
  ASSUME NEW p \in Seq(Nat), NEW q \in Seq(Nat), NEW k \in 0 .. Len(q),
         NEW h, NEW g, Moved(p, q, k, h, g)
  PROVE  ToSet(h) \cup ToSet(g) = ToSet(p) \cup ToSet(q)
<1>1. ASSUME NEW x \in ToSet(h)
      PROVE  x \in ToSet(p) \cup ToSet(q)
  <2>1. PICK i \in 1 .. Len(h) : x = h[i]
        BY OfToSet DEF Moved
  <2>2. CASE i <= Len(p)
    <3>1. i \in 1 .. Len(p) /\ x = p[i]
          BY <2>1, <2>2 DEF Moved
    <3> QED  BY <3>1, InToSet
  <2>3. CASE i > Len(p)
    <3>1. i - Len(p) \in 1 .. k /\ i = Len(p) + (i - Len(p))
          BY <2>1, <2>3 DEF Moved
    <3>2. x = q[i - Len(p)] /\ i - Len(p) \in 1 .. Len(q)
          BY <2>1, <3>1 DEF Moved
    <3> QED  BY <3>2, InToSet
  <2> QED  BY <2>2, <2>3 DEF Moved
<1>2. ASSUME NEW x \in ToSet(g)
      PROVE  x \in ToSet(q)
  <2>1. PICK i \in 1 .. Len(g) : x = g[i]
        BY OfToSet DEF Moved
  <2>2. k + i \in 1 .. Len(q) /\ x = q[k + i]
        BY <2>1 DEF Moved
  <2> QED  BY <2>2, InToSet
<1>3. ASSUME NEW x \in ToSet(p)
      PROVE  x \in ToSet(h)
  <2>1. PICK i \in 1 .. Len(p) : x = p[i]
        BY OfToSet
  <2>2. i \in 1 .. Len(h) /\ x = h[i]
        BY <2>1 DEF Moved
  <2> QED  BY <2>2, InToSet DEF Moved
<1>4. ASSUME NEW x \in ToSet(q)
      PROVE  x \in ToSet(h) \cup ToSet(g)
  <2>1. PICK i \in 1 .. Len(q) : x = q[i]
        BY OfToSet
  <2>2. CASE i <= k
    <3>1. Len(p) + i \in 1 .. Len(h) /\ x = h[Len(p) + i]
          BY <2>1, <2>2 DEF Moved
    <3> QED  BY <3>1, InToSet DEF Moved
  <2>3. CASE i > k
    <3>1. i - k \in 1 .. Len(q) - k /\ i = k + (i - k)
          BY <2>1, <2>3
    <3>2. i - k \in 1 .. Len(g) /\ x = g[i - k]
          BY <2>1, <3>1 DEF Moved
    <3> QED  BY <3>2, InToSet DEF Moved
  <2> QED  BY <2>2, <2>3
<1> QED  BY <1>1, <1>2, <1>3, <1>4

\* A new byte at the end of a queue.
Grown(q, m, a) ==
  /\ a \in Seq(Nat) /\ Len(a) = Len(q) + 1
  /\ \A i \in 1 .. Len(q) : a[i] = q[i]
  /\ a[Len(q) + 1] = m

LEMMA Grow ==
  ASSUME NEW q \in Seq(Nat), NEW m \in Nat
  PROVE  Grown(q, m, Append(q, m))
BY DEF Grown

LEMMA GrowKeepsOrder ==
  ASSUME NEW q \in Seq(Nat), NEW m \in Nat, NEW a, Grown(q, m + 1, a),
         Rising(q), UpTo(q, m)
  PROVE  Rising(a)
<1>1. \A i \in 1 .. Len(a) : \/ i \in 1 .. Len(q) /\ a[i] = q[i]
                             \/ i = Len(q) + 1 /\ a[i] = m + 1
      BY DEF Grown
<1>2. \A i \in 1 .. Len(q) : q[i] \in Nat /\ q[i] <= m
      BY InToSet DEF UpTo
<1>3. Rising(a)
  <2> SUFFICES ASSUME NEW i \in 1 .. Len(a), NEW j \in 1 .. Len(a), i < j
               PROVE  a[i] < a[j]
      BY DEF Rising
  <2>1. i \in 1 .. Len(q) /\ a[i] = q[i]
        BY <1>1 DEF Grown
  <2>2. CASE j \in 1 .. Len(q) /\ a[j] = q[j]
        BY <2>1, <2>2 DEF Rising
  <2>3. CASE j = Len(q) + 1 /\ a[j] = m + 1
        BY <1>2, <2>1, <2>3
  <2> QED  BY <1>1, <2>2, <2>3
<1> QED  BY <1>3

LEMMA GrowKeepsBytes ==
  ASSUME NEW q \in Seq(Nat), NEW m \in Nat, NEW a, Grown(q, m, a)
  PROVE  ToSet(a) = ToSet(q) \cup {m}
<1>1. ASSUME NEW x \in ToSet(a)
      PROVE  x \in ToSet(q) \cup {m}
  <2>1. PICK i \in 1 .. Len(a) : x = a[i]
        BY OfToSet DEF Grown
  <2>2. CASE i = Len(q) + 1
        BY <2>1, <2>2 DEF Grown
  <2>3. CASE i \in 1 .. Len(q)
        BY <2>1, <2>3, InToSet DEF Grown
  <2> QED  BY <2>2, <2>3 DEF Grown
<1>2. ASSUME NEW x \in ToSet(q)
      PROVE  x \in ToSet(a)
  <2>1. PICK i \in 1 .. Len(q) : x = q[i]
        BY OfToSet
  <2>2. i \in 1 .. Len(a) /\ x = a[i]
        BY <2>1 DEF Grown
  <2> QED  BY <2>2, InToSet DEF Grown
<1>3. m \in ToSet(a)
  <2>1. Len(q) + 1 \in 1 .. Len(a) /\ m = a[Len(q) + 1]
        BY DEF Grown
  <2> QED  BY <2>1, InToSet DEF Grown
<1> QED  BY <1>1, <1>2, <1>3
-----------------------------------------------------------------------------
(* Inductive invariant. *)

\* One direction: in waits in the socket, out has reached the UART.
Peer(in, out, m, lost) ==
  /\ in \in Seq(Nat) /\ out \in Seq(Nat) /\ m \in Nat /\ lost \in SUBSET Nat
  /\ Rising(out) /\ Rising(in) /\ Below(out, in)
  /\ 1 .. m = ToSet(out) \cup ToSet(in) \cup lost

\* The other: c waits in the UART, b in the buffer, a is sent.
Device(a, b, c, m, lost) ==
  /\ a \in Seq(Nat) /\ b \in Seq(Nat) /\ c \in Seq(Nat) /\ m \in Nat /\ lost \in SUBSET Nat
  /\ Rising(a) /\ Rising(b) /\ Rising(c)
  /\ Below(a, b) /\ Below(a, c) /\ Below(b, c)
  /\ 1 .. m = ToSet(a) \cup ToSet(b) \cup ToSet(c) \cup lost

LEMMA Nothing == /\ <<>> \in Seq(Nat) /\ Rising(<<>>) /\ ToSet(<<>>) = {}
BY DEF Rising, ToSet

LEMMA PeerGrows ==
  ASSUME NEW in, NEW out, NEW m, NEW lost, Peer(in, out, m, lost)
  PROVE  Peer(Append(in, m + 1), out, m + 1, lost)
<1> DEFINE a == Append(in, m + 1)
<1>1. Grown(in, m + 1, a)
      BY Grow DEF Peer
<1> HIDE DEF a
<1>2. ToSet(a) = ToSet(in) \cup {m + 1}
      BY <1>1, GrowKeepsBytes DEF Peer
<1>3. UpTo(in, m) /\ UpTo(out, m)
      BY DEF Peer, UpTo
<1>4. Rising(a)
      BY <1>1, <1>3, GrowKeepsOrder DEF Peer
<1>5. Below(out, a)
      BY <1>2, <1>3 DEF Peer, Below, UpTo
<1>6. 1 .. m + 1 = (1 .. m) \cup {m + 1}
      BY DEF Peer
<1>7. Peer(a, out, m + 1, lost)
      BY <1>1, <1>2, <1>4, <1>5, <1>6 DEF Peer, Grown
<1> QED  BY <1>7 DEF a

LEMMA PeerLoses ==
  ASSUME NEW in, NEW out, NEW m, NEW lost, Peer(in, out, m, lost)
  PROVE  Peer(<<>>, out, m, lost \cup ToSet(in))
BY Nothing DEF Peer, Below

LEMMA PeerMoves ==
  ASSUME NEW in, NEW out, NEW m, NEW lost, Peer(in, out, m, lost), NEW k \in 0 .. Len(in)
  PROVE  Peer(Rest(in, k), out \o First(in, k), m, lost)
<1> DEFINE h == out \o First(in, k)
           g == Rest(in, k)
<1>1. Moved(out, in, k, h, g)
      BY Move DEF Peer
<1> HIDE DEF h, g
<1>2. Rising(h) /\ Rising(g) /\ Below(h, g)
      BY <1>1, MoveKeepsOrder DEF Peer
<1>3. ToSet(h) \cup ToSet(g) = ToSet(out) \cup ToSet(in)
      BY <1>1, MoveKeepsBytes DEF Peer
<1>4. Peer(g, h, m, lost)
      BY <1>1, <1>2, <1>3 DEF Peer, Moved
<1> QED  BY <1>4 DEF g, h

LEMMA DeviceGrows ==
  ASSUME NEW a, NEW b, NEW c, NEW m, NEW lost, Device(a, b, c, m, lost)
  PROVE  Device(a, b, Append(c, m + 1), m + 1, lost)
<1> DEFINE d == Append(c, m + 1)
<1>1. Grown(c, m + 1, d)
      BY Grow DEF Device
<1> HIDE DEF d
<1>2. ToSet(d) = ToSet(c) \cup {m + 1}
      BY <1>1, GrowKeepsBytes DEF Device
<1>3. UpTo(a, m) /\ UpTo(b, m) /\ UpTo(c, m)
      BY DEF Device, UpTo
<1>4. Rising(d)
      BY <1>1, <1>3, GrowKeepsOrder DEF Device
<1>5. Below(a, d) /\ Below(b, d)
      BY <1>2, <1>3 DEF Device, Below, UpTo
<1>6. 1 .. m + 1 = (1 .. m) \cup {m + 1}
      BY DEF Device
<1>7. Device(a, b, d, m + 1, lost)
      BY <1>1, <1>2, <1>4, <1>5, <1>6 DEF Device, Grown
<1> QED  BY <1>7 DEF d

LEMMA DeviceOverruns ==
  ASSUME NEW a, NEW b, NEW c, NEW m, NEW lost, Device(a, b, c, m, lost)
  PROVE  Device(a, b, c, m + 1, lost \cup {m + 1})
<1>1. 1 .. m + 1 = (1 .. m) \cup {m + 1}
      BY DEF Device
<1> QED  BY <1>1 DEF Device

\* From the UART into the empty buffer.
LEMMA DeviceReads ==
  ASSUME NEW a, NEW b, NEW c, NEW m, NEW lost, Device(a, b, c, m, lost),
         ToSet(b) = {}, NEW e \in Seq(Nat), Rising(e), ToSet(e) = {},
         NEW k \in 0 .. Len(c), NEW h, NEW g, Moved(e, c, k, h, g)
  PROVE  Device(a, h, g, m, lost)
<1>0. c \in Seq(Nat) /\ Rising(c) /\ Below(e, c)
      BY DEF Device, Below
<1>1. Rising(h) /\ Rising(g) /\ Below(h, g)
      BY <1>0, MoveKeepsOrder
<1>2. ToSet(h) \cup ToSet(g) = ToSet(c)
  <2>1. ToSet(h) \cup ToSet(g) = ToSet(e) \cup ToSet(c)
        BY <1>0, MoveKeepsBytes
  <2> QED  BY <2>1
<1>3. Below(a, h) /\ Below(a, g)
      BY <1>2 DEF Device, Below
<1> QED  BY <1>1, <1>2, <1>3 DEF Device, Moved

\* From the buffer into the socket.
LEMMA DeviceMoves ==
  ASSUME NEW a, NEW b, NEW c, NEW m, NEW lost, Device(a, b, c, m, lost),
         NEW k \in 0 .. Len(b), NEW h, NEW g, Moved(a, b, k, h, g)
  PROVE  Device(h, g, c, m, lost)
<1>1. Rising(h) /\ Rising(g) /\ Below(h, g)
      BY MoveKeepsOrder DEF Device
<1>2. ToSet(h) \cup ToSet(g) = ToSet(a) \cup ToSet(b)
      BY MoveKeepsBytes DEF Device
<1>3. Below(h, c) /\ Below(g, c)
      BY <1>2 DEF Device, Below
<1> QED  BY <1>1, <1>2, <1>3 DEF Device, Moved

LEMMA DeviceLoses ==
  ASSUME NEW a, NEW b, NEW c, NEW m, NEW lost, Device(a, b, c, m, lost)
  PROVE  Device(a, <<>>, c, m, lost \cup ToSet(b))
BY Nothing DEF Device, Below
-----------------------------------------------------------------------------
PeerBytes == Peer(rx, toUart, made.peer, gone.peer)
DeviceBytes == Device(toTcp, Unsent, fifo, made.device, gone.device)

BridgeTypes ==
  /\ buf \in Seq(Nat) /\ sent \in 0 .. Len(buf)
  /\ made \in [peer : Nat, device : Nat]
  /\ gone \in [peer : SUBSET Nat, device : SUBSET Nat]
  /\ sr \in {"closed", "init", "listen", "established", "close_wait"}

\* The buffer is filled only when it is empty, and the socket closed only
\* when it is read to the end.
TaskFollows ==
  /\ pc # "send" => Unsent = <<>>
  /\ pc \in {"drain", "disconnect"} => sr \in {"close_wait", "closed"}
  /\ pc = "disconnect" => rx = <<>>

BridgeInv == PeerBytes /\ DeviceBytes /\ BridgeTypes /\ TaskFollows

LEMMA BridgeHolds == BridgeInv => InOrder /\ Complete
<1> SUFFICES ASSUME BridgeInv
             PROVE  InOrder /\ Complete
    OBVIOUS
<1>1. InOrder
  <2>1. ASSUME NEW q \in {toUart, toTcp}
        PROVE  q \in Seq(Nat) /\ Rising(q)
        BY DEF BridgeInv, PeerBytes, DeviceBytes, Peer, Device
  <2>2. ASSUME NEW q \in {toUart, toTcp}
        PROVE  \A i, j \in DOMAIN q : i < j => q[i] < q[j]
    <3>1. DOMAIN q = 1 .. Len(q)
          BY <2>1
    <3> QED  BY <2>1, <3>1 DEF Rising
  <2> QED  BY <2>2 DEF InOrder
<1>2. Complete
      BY DEF BridgeInv, PeerBytes, DeviceBytes, Peer, Device, Complete
<1> QED  BY <1>1, <1>2

LEMMA InitBridge == Init => BridgeInv
<1> SUFFICES ASSUME Init
             PROVE  BridgeInv
    OBVIOUS
<1>1. Unsent = <<>>
      BY DEF Init, Unsent, Rest
<1>2. Below(<<>>, <<>>) /\ 1 .. 0 = {}
      BY Nothing DEF Below
<1>3. PeerBytes
      BY <1>2, Nothing DEF Init, PeerBytes, Peer
<1>4. DeviceBytes
      BY <1>1, <1>2, Nothing DEF Init, DeviceBytes, Device
<1>5. BridgeTypes
      BY DEF Init, BridgeTypes
<1>6. TaskFollows
      BY <1>1 DEF Init, TaskFollows
<1> QED  BY <1>3, <1>4, <1>5, <1>6 DEF BridgeInv

\* What the socket had received is lost with it.
LEMMA LoseKeeps ==
  ASSUME BridgeInv, Lose, UNCHANGED <<toUart, made, fifo, buf, sent, toTcp>>
  PROVE  PeerBytes' /\ DeviceBytes' /\ BridgeTypes' /\ rx' = <<>> /\ sr' = "closed" /\ Unsent' = Unsent
<1> USE DEF BridgeInv, BridgeTypes
<1>1. /\ gone'.peer = gone.peer \cup ToSet(rx) /\ gone'.device = gone.device
      /\ gone' \in [peer : SUBSET Nat, device : SUBSET Nat]
  <2>1. ToSet(rx) \subseteq Nat
        BY DEF PeerBytes, Peer, ToSet
  <2> QED  BY <2>1 DEF Lose
<1>2. PeerBytes'
      BY <1>1, PeerLoses DEF Lose, PeerBytes
<1>3. DeviceBytes' /\ Unsent' = Unsent
      BY <1>1 DEF DeviceBytes, Unsent
<1>4. BridgeTypes'
      BY <1>1 DEF Lose
<1> QED  BY <1>2, <1>3, <1>4 DEF Lose

LEMMA ForwardKeeps ==
  ASSUME BridgeInv, Forward
  PROVE  PeerBytes' /\ DeviceBytes' /\ BridgeTypes' /\ Unsent' = Unsent
<1> DEFINE k == Least(Len(rx), BufferSize)
<1>1. k \in 0 .. Len(rx)
      BY BridgeAssumption DEF Least, BridgeInv, PeerBytes, Peer
<1>2. /\ toUart' = toUart \o First(rx, k) /\ rx' = Rest(rx, k)
      /\ UNCHANGED <<made, gone, fifo, buf, sent, toTcp, sr>>
      BY DEF Forward, outside
<1> HIDE DEF k
<1>3. PeerBytes'
      BY <1>1, <1>2, PeerMoves DEF BridgeInv, PeerBytes
<1>4. DeviceBytes' /\ BridgeTypes' /\ Unsent' = Unsent
      BY <1>2 DEF BridgeInv, DeviceBytes, BridgeTypes, Unsent
<1> QED  BY <1>3, <1>4

\* The environment.
LEMMA OutsideKeeps ==
  ASSUME BridgeInv, \/ PeerConnects \/ PeerSends \/ PeerCloses \/ Reset
                    \/ DeviceSends \/ Notify \/ Outage
  PROVE  BridgeInv'
<1> USE DEF task, socket, serial, outside
<1>1. CASE PeerConnects
      BY <1>1 DEF PeerConnects, BridgeInv, PeerBytes, DeviceBytes, BridgeTypes, TaskFollows, Unsent
<1>2. CASE PeerSends
  <2>1. /\ made'.peer = made.peer + 1 /\ made'.device = made.device
        /\ made' \in [peer : Nat, device : Nat]
        BY <1>2 DEF PeerSends, BridgeInv, BridgeTypes
  <2>2. PeerBytes'
        BY <1>2, <2>1, PeerGrows DEF PeerSends, BridgeInv, PeerBytes
  <2>3. DeviceBytes' /\ BridgeTypes'
        BY <1>2, <2>1 DEF PeerSends, BridgeInv, DeviceBytes, BridgeTypes, Unsent
  <2>4. TaskFollows'
        BY <1>2 DEF PeerSends, BridgeInv, TaskFollows, Unsent
  <2> QED  BY <2>2, <2>3, <2>4 DEF BridgeInv
<1>3. CASE PeerCloses
      BY <1>3 DEF PeerCloses, BridgeInv, PeerBytes, DeviceBytes, BridgeTypes, TaskFollows, Unsent
<1>4. CASE Reset
  <2>1. Lose /\ UNCHANGED <<pc, toUart, made, fifo, buf, sent, toTcp>>
        BY <1>4 DEF Reset
  <2>2. PeerBytes' /\ DeviceBytes' /\ BridgeTypes' /\ rx' = <<>> /\ sr' = "closed" /\ Unsent' = Unsent
        BY <2>1, LoseKeeps
  <2> QED  BY <2>1, <2>2 DEF BridgeInv, TaskFollows
<1>5. CASE DeviceSends
  <2>1. /\ made'.peer = made.peer /\ made'.device = made.device + 1
        /\ made' \in [peer : Nat, device : Nat]
        BY <1>5 DEF DeviceSends, BridgeInv, BridgeTypes
  <2>2. /\ DeviceBytes' /\ gone' \in [peer : SUBSET Nat, device : SUBSET Nat]
        /\ gone'.peer = gone.peer
    <3>1. CASE Len(fifo) < FifoDepth
      <4>1. /\ fifo' = Append(fifo, made.device + 1) /\ gone' = gone
            /\ toTcp' = toTcp /\ Unsent' = Unsent
            BY <1>5, <3>1 DEF DeviceSends, Unsent
      <4>2. Device(toTcp, Unsent, Append(fifo, made.device + 1), made.device + 1, gone.device)
            BY DeviceGrows DEF BridgeInv, DeviceBytes
      <4>3. DeviceBytes'
            BY <2>1, <4>1, <4>2 DEF DeviceBytes
      <4> QED  BY <4>1, <4>3 DEF BridgeInv, BridgeTypes
    <3>2. CASE ~(Len(fifo) < FifoDepth)
      <4>1. /\ gone'.peer = gone.peer /\ gone'.device = gone.device \cup {made.device + 1}
            /\ gone' \in [peer : SUBSET Nat, device : SUBSET Nat]
            BY <1>5, <3>2 DEF DeviceSends, BridgeInv, BridgeTypes
      <4> QED  BY <1>5, <2>1, <3>2, <4>1, DeviceOverruns DEF DeviceSends, BridgeInv, DeviceBytes, Unsent
    <3> QED  BY <3>1, <3>2
  <2>3. PeerBytes' /\ BridgeTypes' /\ TaskFollows'
        BY <1>5, <2>1, <2>2 DEF DeviceSends, BridgeInv, PeerBytes, BridgeTypes, TaskFollows, Unsent
  <2> QED  BY <2>2, <2>3 DEF BridgeInv
<1>6. CASE Notify \/ Outage
      BY <1>6 DEF Notify, Outage, BridgeInv, PeerBytes, DeviceBytes, BridgeTypes, TaskFollows, Unsent
<1> QED  BY <1>1, <1>2, <1>3, <1>4, <1>5, <1>6

\* The steps of the task that move bytes, or lose them.
LEMMA TaskMoves ==
  ASSUME BridgeInv, \/ WaitTimesOut \/ IpChanged \/ Recv \/ Drain
                    \/ ReadUart \/ Send \/ SendFails \/ Disconnect
  PROVE  BridgeInv'
<1> USE DEF task, socket, serial, outside, Goto
<1>1. CASE WaitTimesOut
  <2>1. Lose /\ pc' = "wait" /\ UNCHANGED <<toUart, made, fifo, buf, sent, toTcp>> /\ pc = "wait"
        BY <1>1 DEF WaitTimesOut
  <2>2. PeerBytes' /\ DeviceBytes' /\ BridgeTypes' /\ Unsent' = Unsent
        BY <2>1, LoseKeeps
  <2> QED  BY <2>1, <2>2 DEF BridgeInv, TaskFollows
<1>2. CASE IpChanged
  <2>1. pc' = "wait" /\ UNCHANGED <<toUart, made, fifo, buf, sent, toTcp>> /\ pc = "check"
        BY <1>2 DEF IpChanged
  <2>2. PeerBytes' /\ DeviceBytes' /\ BridgeTypes' /\ Unsent' = Unsent
    <3>1. CASE wasConnected
          BY <1>2, <2>1, <3>1, LoseKeeps DEF IpChanged
    <3>2. CASE ~wasConnected
          BY <1>2, <2>1, <3>2 DEF IpChanged, BridgeInv, PeerBytes, DeviceBytes, BridgeTypes, Unsent
    <3> QED  BY <3>1, <3>2
  <2> QED  BY <2>1, <2>2 DEF BridgeInv, TaskFollows
<1>3. CASE Recv \/ Drain
  <2>1. /\ Forward /\ pc # "send" /\ pc' # "send" /\ pc' # "disconnect" /\ sr' = sr
        /\ pc' = "drain" => pc = "drain"
        BY <1>3 DEF Recv, Drain, Forward
  <2>2. PeerBytes' /\ DeviceBytes' /\ BridgeTypes' /\ Unsent' = Unsent
        BY <2>1, ForwardKeeps
  <2> QED  BY <2>1, <2>2 DEF BridgeInv, TaskFollows
<1>4. CASE ReadUart
  <2> DEFINE k == Least(Len(fifo), BufferSize)
  <2>1. /\ k \in 0 .. Len(fifo) /\ fifo \in Seq(Nat)
        /\ fifo = <<>> => k = 0
        BY BridgeAssumption DEF Least, BridgeInv, DeviceBytes, Device
  <2>2. /\ buf' = First(fifo, k) /\ fifo' = Rest(fifo, k) /\ sent' = 0
        /\ UNCHANGED <<toTcp, rx, toUart, made, gone, sr>>
        /\ pc = "uart" /\ pc' = IF fifo = <<>> THEN "track" ELSE "send"
        BY <1>4 DEF ReadUart
  <2> HIDE DEF k
  <2>3. /\ buf' \in Seq(Nat) /\ Len(buf') = k
        /\ \A i \in 1 .. k : buf'[i] = fifo[i]
        /\ fifo' \in Seq(Nat) /\ Len(fifo') = Len(fifo) - k
        /\ \A i \in 1 .. Len(fifo) - k : fifo'[i] = fifo[k + i]
        BY <2>1, <2>2, Cut
  <2>4. /\ Unsent' \in Seq(Nat) /\ Len(Unsent') = k
        /\ \A i \in 1 .. k : Unsent'[i] = fifo[i]
    <3>1. Unsent' = Rest(buf', 0)
          BY <2>2 DEF Unsent
    <3>2. 0 \in 0 .. Len(buf')
          BY <2>1, <2>3
    <3>3. /\ Rest(buf', 0) \in Seq(Nat) /\ Len(Rest(buf', 0)) = Len(buf') - 0
          /\ \A i \in 1 .. Len(buf') - 0 : Rest(buf', 0)[i] = buf'[0 + i]
          BY <2>3, <3>2, Cut
    <3>4. Len(Unsent') = k
          BY <2>1, <2>3, <3>1, <3>3
    <3>5. ASSUME NEW i \in 1 .. k
          PROVE  Unsent'[i] = fifo[i]
      <4>1. i \in 1 .. Len(buf') - 0 /\ 0 + i = i
            BY <2>1, <2>3
      <4> QED  BY <2>3, <3>1, <3>3, <4>1
    <3> QED  BY <3>1, <3>3, <3>4, <3>5
  <2>5. DeviceBytes'
    <3>1. PICK e \in Seq(Nat) : Len(e) = 0 /\ Rising(e) /\ ToSet(e) = {}
          BY Nothing
    <3>2. Moved(e, fifo, k, Unsent', fifo')
          BY <2>1, <2>3, <2>4, <3>1 DEF Moved
    <3>3. Device(toTcp, Unsent, fifo, made.device, gone.device) /\ ToSet(Unsent) = {}
          BY <2>2, Nothing DEF BridgeInv, DeviceBytes, TaskFollows
    <3>4. Device(toTcp, Unsent', fifo', made.device, gone.device)
          BY <2>1, <3>1, <3>2, <3>3, DeviceReads
    <3> QED  BY <2>2, <3>4 DEF DeviceBytes
  <2>6. PeerBytes' /\ BridgeTypes'
        BY <2>2, <2>3 DEF BridgeInv, PeerBytes, BridgeTypes
  <2>7. TaskFollows'
    <3>1. fifo = <<>> => Unsent' = <<>>
          BY <2>1, <2>4
    <3> QED  BY <2>2, <3>1 DEF BridgeInv, TaskFollows
  <2> QED  BY <2>5, <2>6, <2>7 DEF BridgeInv
<1>5. CASE Send
  <2>1. PICK k \in 1 .. Len(Unsent) :
          /\ pc = "send" /\ pc' = IF k = Len(Unsent) THEN "track" ELSE "send"
          /\ toTcp' = toTcp \o First(Unsent, k)
          /\ sent' = sent + k
        BY <1>5 DEF Send
  <2>2. UNCHANGED <<buf, rx, toUart, made, gone, sr, fifo>>
        BY <1>5 DEF Send
  <2>3. /\ Unsent \in Seq(Nat) /\ Len(Unsent) = Len(buf) - sent
        /\ \A i \in 1 .. Len(buf) - sent : Unsent[i] = buf[sent + i]
        BY Cut DEF Unsent, BridgeInv, BridgeTypes
  <2>4. k \in 0 .. Len(Unsent) /\ sent' \in 0 .. Len(buf)
        BY <2>1, <2>3 DEF BridgeInv, BridgeTypes
  <2>5. /\ Unsent' \in Seq(Nat) /\ Len(Unsent') = Len(Unsent) - k
        /\ \A i \in 1 .. Len(Unsent) - k : Unsent'[i] = Unsent[k + i]
    <3>1. Unsent' = Rest(buf, sent + k)
          BY <2>1, <2>2 DEF Unsent
    <3>2. /\ Rest(buf, sent + k) \in Seq(Nat) /\ Len(Rest(buf, sent + k)) = Len(buf) - (sent + k)
          /\ \A i \in 1 .. Len(buf) - (sent + k) : Rest(buf, sent + k)[i] = buf[(sent + k) + i]
          BY <2>1, <2>4, Cut DEF BridgeInv, BridgeTypes
    <3>3. ASSUME NEW i \in 1 .. Len(Unsent) - k
          PROVE  buf[(sent + k) + i] = Unsent[k + i]
      <4>1. k + i \in 1 .. Len(buf) - sent /\ (sent + k) + i = sent + (k + i)
            BY <2>3 DEF BridgeInv, BridgeTypes
      <4> QED  BY <2>3, <4>1
    <3>4. Len(Unsent) - k = Len(buf) - (sent + k)
          BY <2>3 DEF BridgeInv, BridgeTypes
    <3> QED  BY <3>1, <3>2, <3>3, <3>4
  <2>6. Moved(toTcp, Unsent, k, toTcp', Unsent')
    <3>1. Moved(toTcp, Unsent, k, toTcp \o First(Unsent, k), Rest(Unsent, k))
          BY <2>3, <2>4, Move DEF BridgeInv, DeviceBytes, Device
    <3> QED  BY <2>1, <2>5, <3>1 DEF Moved
  <2>7. DeviceBytes'
    <3>1. Device(toTcp', Unsent', fifo, made.device, gone.device)
          BY <2>4, <2>6, DeviceMoves DEF BridgeInv, DeviceBytes
    <3> QED  BY <2>2, <3>1 DEF DeviceBytes
  <2>8. PeerBytes' /\ BridgeTypes'
        BY <2>2, <2>4 DEF BridgeInv, PeerBytes, BridgeTypes
  <2>9. TaskFollows'
    <3>1. k = Len(Unsent) => Unsent' = <<>>
          BY <2>5
    <3> QED  BY <2>1, <2>2, <3>1 DEF TaskFollows
  <2> QED  BY <2>7, <2>8, <2>9 DEF BridgeInv
<1>6. CASE SendFails
  <2>1. /\ gone' = [gone EXCEPT !.device = @ \cup ToSet(Unsent)] /\ buf' = <<>> /\ sent' = 0
        /\ pc' = "track" /\ UNCHANGED <<toTcp, rx, toUart, made, sr, fifo>>
        BY <1>6 DEF SendFails
  <2>2. Unsent' = <<>>
        BY <2>1 DEF Unsent, Rest
  <2>3. /\ gone'.peer = gone.peer /\ gone'.device = gone.device \cup ToSet(Unsent)
        /\ gone' \in [peer : SUBSET Nat, device : SUBSET Nat]
    <3>1. ToSet(Unsent) \subseteq Nat
          BY DEF BridgeInv, DeviceBytes, Device, ToSet
    <3> QED  BY <2>1, <3>1 DEF BridgeInv, BridgeTypes
  <2>4. DeviceBytes'
        BY <2>1, <2>2, <2>3, DeviceLoses DEF BridgeInv, DeviceBytes
  <2>5. PeerBytes' /\ BridgeTypes'
        BY <2>1, <2>3 DEF BridgeInv, PeerBytes, BridgeTypes
  <2>6. TaskFollows'
        BY <2>1, <2>2 DEF TaskFollows
  <2> QED  BY <2>4, <2>5, <2>6 DEF BridgeInv
<1>7. CASE Disconnect
  <2>1. /\ rx = <<>> /\ rx' = <<>> /\ pc' = "track" /\ sr' = "closed" /\ pc = "disconnect"
        /\ UNCHANGED <<toUart, made, gone, toTcp, fifo, buf, sent>>
        BY <1>7 DEF Disconnect, BridgeInv, TaskFollows
  <2> QED  BY <2>1 DEF BridgeInv, PeerBytes, DeviceBytes, BridgeTypes, TaskFollows, Unsent
<1> QED  BY <1>1, <1>2, <1>3, <1>4, <1>5, <1>6, <1>7

\* The others leave the bytes where they are.
LEMMA TaskStays ==
  ASSUME BridgeInv, \/ WaitReads \/ NotReady \/ Handle \/ RecvNothing \/ RecvFails
                    \/ Drained \/ Listen \/ Connect \/ Open \/ Listening \/ Track
  PROVE  BridgeInv'
<1> USE DEF task, socket, serial, outside, Goto
<1>1. UNCHANGED <<rx, toUart, made, gone, toTcp, fifo, buf, sent>>
      BY DEF WaitReads, NotReady, Handle, RecvNothing, RecvFails, Drained, Listen, Connect,
             Open, Listening, Track
<1>2. PeerBytes' /\ DeviceBytes' /\ Unsent' = Unsent
      BY <1>1 DEF BridgeInv, PeerBytes, DeviceBytes, Unsent
<1>3. BridgeTypes' /\ TaskFollows'
  <2> USE DEF BridgeInv, BridgeTypes, TaskFollows
  <2>1. CASE WaitReads \/ NotReady \/ RecvNothing \/ RecvFails \/ Drained
        BY <1>1, <1>2, <2>1 DEF WaitReads, NotReady, RecvNothing, RecvFails, Drained
  <2>2. CASE Handle
        BY <1>1, <1>2, <2>2 DEF Handle
  <2>3. CASE Listen \/ Connect \/ Open \/ Listening \/ Track
        BY <1>1, <1>2, <2>3 DEF Listen, Connect, Open, Listening, Track
  <2> QED  BY <2>1, <2>2, <2>3
<1> QED  BY <1>2, <1>3 DEF BridgeInv

LEMMA NextBridge == BridgeInv /\ [Next]_vars => BridgeInv'
<1> SUFFICES ASSUME BridgeInv, [Next]_vars
             PROVE  BridgeInv'
    OBVIOUS
<1>1. CASE Task
      BY <1>1, TaskMoves, TaskStays DEF Task
<1>2. CASE UNCHANGED vars
      BY <1>2 DEF vars, task, socket, serial, outside,
                  BridgeInv, PeerBytes, DeviceBytes, BridgeTypes, TaskFollows, Unsent
<1> QED  BY <1>1, <1>2, OutsideKeeps DEF Next

(***************************************************************************)
(* In both directions the bytes come out in the order in which they went   *)
(* in, and none twice: for buffers and FIFO of any size, however reads and *)
(* sends are cut and whatever the peer and the network do                  *)
(* (s2tcp_handle_server, s2tcp_handle_client).                             *)
(***************************************************************************)
THEOREM BytesInOrder == Spec => []InOrder
<1>1. BridgeInv => InOrder
      BY BridgeHolds
<1> QED  BY <1>1, InitBridge, NextBridge, PTL DEF Spec

(***************************************************************************)
(* No byte disappears but in a connection that broke, in a send that       *)
(* failed or before a full UART: what the peer sent before an orderly      *)
(* close is in the UART before the socket is given up.                     *)
(***************************************************************************)
THEOREM BytesComplete == Spec => []Complete
<1>1. BridgeInv => Complete
      BY BridgeHolds
<1> QED  BY <1>1, InitBridge, NextBridge, PTL DEF Spec
-----------------------------------------------------------------------------
(* The task comes round *)

Points == {"wait", "check", "recv", "uart", "send", "drain", "disconnect",
           "init", "closed", "listen", "track"}

\* Once it is not waiting for the network, the task finds one of its guards
\* true: there is a status for each branch, and a send has bytes to send.
CanGoOn ==
  \/ pc \in Points \ {"wait", "send", "init"}
  \/ pc = "init" /\ mode \in {"server", "client"}
  \/ pc = "send" /\ \/ sr = "closed"
                    \/ sr \in {"established", "close_wait"} /\ Len(Unsent) > 0

RoundInv ==
  /\ pc \in Points /\ mode \in {"server", "client"}
  /\ pc \in {"recv", "uart", "send"} => sr \in {"established", "close_wait", "closed"}
  /\ pc = "send" => sent < Len(buf)

\* Steps to the end of a pass of the inner loop.
PassLeft == CASE pc = "recv" -> BufferSize + 3
              [] pc = "uart" -> BufferSize + 2
              [] pc = "send" -> (Len(buf) - sent) + 1
              [] pc = "drain" -> Len(rx) + 3
              [] pc \in {"disconnect", "init", "closed", "listen"} -> 2
              [] pc = "track" -> 1
              [] OTHER -> 0

\* Nothing outside makes a pass longer, and the task makes it shorter.
Shorter == pc \notin {"wait", "check"} => PassLeft' <= PassLeft /\ (Task => PassLeft' < PassLeft)

\* What a piece taken from a buffer leaves: less.
LEMMA ForwardShortens ==
  ASSUME BridgeInv, Forward, rx # <<>>
  PROVE  Len(rx) \in Nat /\ Len(rx') \in Nat /\ Len(rx') < Len(rx)
<1> DEFINE k == Least(Len(rx), BufferSize)
<1>1. rx \in Seq(Nat) /\ k \in 1 .. Len(rx)
      BY BridgeAssumption DEF Least, BridgeInv, PeerBytes, Peer
<1>2. rx' = Rest(rx, k)
      BY DEF Forward
<1> HIDE DEF k
<1>3. Len(rx) \in Nat /\ k \in 0 .. Len(rx)
      BY <1>1
<1>4. Len(Rest(rx, k)) = Len(rx) - k
      BY <1>1, <1>3, Cut
<1> QED  BY <1>1, <1>2, <1>3, <1>4

LEMMA ReadFills ==
  ASSUME BridgeInv, ReadUart
  PROVE  /\ sent' = 0 /\ buf' \in Seq(Nat) /\ Len(buf') <= BufferSize
         /\ pc' = "send" => 0 < Len(buf')
<1> DEFINE k == Least(Len(fifo), BufferSize)
<1>1. /\ fifo \in Seq(Nat) /\ k \in 0 .. Len(fifo) /\ k <= BufferSize
      /\ fifo # <<>> => k > 0
      BY BridgeAssumption DEF Least, BridgeInv, DeviceBytes, Device
<1>2. buf' = First(fifo, k) /\ sent' = 0 /\ (pc' = "send" => fifo # <<>>)
      BY DEF ReadUart, Goto
<1> HIDE DEF k
<1> QED  BY <1>1, <1>2, Cut

LEMMA UnsentIsLeft ==
  ASSUME BridgeInv
  PROVE  Len(Unsent) = Len(buf) - sent
BY Cut DEF Unsent, BridgeInv, BridgeTypes

LEMMA SendShortens ==
  ASSUME BridgeInv, Send
  PROVE  /\ buf' = buf /\ sent' \in sent + 1 .. Len(buf)
         /\ pc' = "send" => sent' < Len(buf)
         /\ pc' \in {"send", "track"}
<1>1. PICK k \in 1 .. Len(Unsent) :
        pc' = (IF k = Len(Unsent) THEN "track" ELSE "send") /\ sent' = sent + k
      BY DEF Send, Goto
<1>2. buf' = buf
      BY DEF Send
<1> QED  BY <1>1, <1>2, UnsentIsLeft DEF BridgeInv, BridgeTypes

LEMMA NextRound ==
  ASSUME BridgeInv, RoundInv, [Next]_vars
  PROVE  RoundInv'
<1> USE DEF RoundInv, Points
<1>1. CASE UNCHANGED vars
      BY <1>1 DEF vars, task, socket, serial
<1>2. CASE PeerConnects \/ PeerSends \/ PeerCloses \/ Reset \/ DeviceSends \/ Notify \/ Outage
      BY <1>2 DEF PeerConnects, PeerSends, PeerCloses, Reset, Lose, DeviceSends, Notify, Outage,
                  task, serial, socket
<1>3. CASE WaitReads \/ WaitTimesOut \/ NotReady \/ IpChanged
      BY <1>3 DEF WaitReads, WaitTimesOut, NotReady, IpChanged, Goto
<1>4. CASE Handle
      BY <1>4 DEF Handle, BridgeInv, BridgeTypes
<1>5. CASE Recv \/ RecvNothing \/ RecvFails \/ Drain \/ Drained
      BY <1>5 DEF Recv, RecvNothing, RecvFails, Drain, Drained, Forward, Goto, socket
<1>6. CASE ReadUart
      BY <1>6, ReadFills DEF ReadUart, Goto, socket
<1>7. CASE Send
      BY <1>7, SendShortens DEF Send
<1>8. CASE SendFails \/ Disconnect \/ Listen \/ Connect \/ Open \/ Listening \/ Track
      BY <1>8 DEF SendFails, Disconnect, Listen, Connect, Open, Listening, Track, Goto
<1> QED  BY <1>1, <1>2, <1>3, <1>4, <1>5, <1>6, <1>7, <1>8 DEF Next, Task

LEMMA PassIsFinite == (BridgeInv => PassLeft \in Nat) /\ (BridgeInv' => PassLeft' \in Nat)
<1>1. BridgeInv => PassLeft \in Nat
      BY BridgeAssumption DEF PassLeft, BridgeInv, BridgeTypes, PeerBytes, Peer
<1>2. BridgeInv' => PassLeft' \in Nat
      BY BridgeAssumption DEF PassLeft, BridgeInv, BridgeTypes, PeerBytes, Peer
<1> QED  BY <1>1, <1>2

\* The task ends a pass in fewer steps than it had left.
LEMMA TaskShortens ==
  ASSUME BridgeInv, RoundInv, Task, pc \notin {"wait", "check"}
  PROVE  PassLeft' < PassLeft
<1>1. /\ BufferSize \in Nat \ {0} /\ Len(buf) \in Nat /\ sent \in 0 .. Len(buf)
      /\ Len(rx) \in Nat
      BY BridgeAssumption DEF BridgeInv, BridgeTypes, PeerBytes, Peer
<1> USE DEF PassLeft, Goto
<1>2. CASE Recv \/ RecvNothing \/ RecvFails
      BY <1>1, <1>2 DEF Recv, RecvNothing, RecvFails
<1>3. CASE ReadUart
  <2>1. pc = "uart" /\ pc' \in {"track", "send"}
        BY <1>3 DEF ReadUart
  <2>2. Len(buf') \in Nat /\ Len(buf') <= BufferSize /\ sent' = 0
        BY <1>3, ReadFills
  <2> QED  BY <1>1, <2>1, <2>2
<1>4. CASE Send
  <2>1. pc = "send"
        BY <1>4 DEF Send
  <2> QED  BY <1>1, <1>4, <2>1, SendShortens
<1>5. CASE SendFails
      BY <1>1, <1>5 DEF SendFails, RoundInv
<1>6. CASE Drain
  <2>1. rx # <<>> /\ Forward /\ pc = "drain" /\ pc' = "drain"
        BY <1>6 DEF Drain
  <2> QED  BY <2>1, ForwardShortens
<1>7. CASE Drained
      BY <1>1, <1>7 DEF Drained
<1>8. CASE Disconnect \/ Listen \/ Connect \/ Open \/ Listening \/ Track
      BY <1>8 DEF Disconnect, Listen, Connect, Open, Listening, Track
<1>9. ~(WaitReads \/ WaitTimesOut \/ NotReady \/ IpChanged \/ Handle)
      BY DEF WaitReads, WaitTimesOut, NotReady, IpChanged, Handle
<1> QED  BY <1>2, <1>3, <1>4, <1>5, <1>6, <1>7, <1>8, <1>9 DEF Task

\* Whatever happens outside meanwhile: no byte arrives on a connection that is
\* being drained, as the peer has closed it.
LEMMA OutsideShortensOrStays ==
  ASSUME BridgeInv, \/ PeerConnects \/ PeerSends \/ PeerCloses \/ Reset
                    \/ DeviceSends \/ Notify \/ Outage
  PROVE  PassLeft' <= PassLeft
<1>1. /\ BufferSize \in Nat \ {0} /\ Len(buf) \in Nat /\ sent \in 0 .. Len(buf)
      /\ Len(rx) \in Nat
      BY BridgeAssumption DEF BridgeInv, BridgeTypes, PeerBytes, Peer
<1>2. pc' = pc /\ buf' = buf /\ sent' = sent
      BY DEF PeerConnects, PeerSends, PeerCloses, Reset, DeviceSends, Notify, Outage, task, serial
<1>3. rx' = rx \/ rx' = <<>> \/ pc # "drain"
      BY DEF PeerConnects, PeerSends, PeerCloses, Reset, Lose, DeviceSends, Notify, Outage, socket,
             BridgeInv, TaskFollows
<1>4. Len(<<>>) = 0
      OBVIOUS
<1> QED  BY <1>1, <1>2, <1>3, <1>4 DEF PassLeft

(***************************************************************************)
(* In a pass of its loop the bridge never stops: at every step one of its  *)
(* guards is true, whatever the socket has become since its status was     *)
(* read; and each step brings the end of the pass nearer, however a send   *)
(* is cut and whatever the peer and the device do meanwhile.  The peer     *)
(* cannot hold it in the loop that drains a closed connection              *)
(* (s2tcp_handle_server, s2tcp_handle_client).                             *)
(***************************************************************************)
THEOREM BridgeComesRound ==
  Spec => [](pc # "wait" => CanGoOn) /\ [][Shorter]_vars
<1> DEFINE Going == pc # "wait" => CanGoOn
<1>1. Init => RoundInv
      BY BridgeAssumption DEF Init, RoundInv, Points
<1>2. BridgeInv /\ RoundInv /\ [Next]_vars => RoundInv'
      BY NextRound
<1>3. BridgeInv /\ RoundInv => Going
      BY UnsentIsLeft DEF RoundInv, CanGoOn, BridgeInv, BridgeTypes
<1>4. BridgeInv /\ RoundInv /\ [Next]_vars => [Shorter]_vars
  <2> SUFFICES ASSUME BridgeInv, RoundInv, Next, pc \notin {"wait", "check"}
               PROVE  PassLeft' <= PassLeft /\ (Task => PassLeft' < PassLeft)
      BY DEF Shorter
  <2>1. PassLeft \in Nat /\ PassLeft' \in Nat
        BY NextBridge, PassIsFinite
  <2>2. CASE Task
        BY <2>1, <2>2, TaskShortens
  <2>3. CASE ~Task
        BY <2>3, OutsideShortensOrStays DEF Next
  <2> QED  BY <2>2, <2>3
<1> QED  BY <1>1, <1>2, <1>3, <1>4, InitBridge, NextBridge, PTL DEF Spec

=============================================================================
