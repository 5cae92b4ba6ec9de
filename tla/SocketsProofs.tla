---------------------------- MODULE SocketsProofs ----------------------------
(***************************************************************************)
(* Theorems about modules SocketAddress and Sockets, for every address,    *)
(* either byte order and any number of descriptors.                        *)
(***************************************************************************)
EXTENDS Sockets, SequenceTheorems, WellFoundedInduction, TLAPS

(* Integers and bytes.                                                     *)

\* A sequence of n bytes, as a function and as a sequence.
LEMMA BytesAreSeq ==
  ASSUME NEW n \in Nat, NEW v \in Bytes(n)
  PROVE  v \in Seq(0 .. 255) /\ Len(v) = n
BY DEF Bytes

LEMMA ByteIsInt ==
  ASSUME NEW n \in Nat, NEW v \in Bytes(n), NEW i \in 1 .. n
  PROVE  v[i] \in Int
<1>1. v \in [1 .. n -> 0 .. 255]
  BY DEF Bytes
<1>2. v[i] \in 0 .. 255
  BY <1>1
<1> QED
  BY <1>2

\* Turning twice gives the same bytes.
LEMMA ReverseTwice ==
  ASSUME NEW n \in Nat, NEW v \in Bytes(n)
  PROVE  Reverse(v) \in Bytes(n) /\ Reverse(Reverse(v)) = v
<1>1. Len(v) = n
  BY BytesAreSeq
<1>2. Reverse(v) = [j \in 1 .. n |-> v[n - j + 1]]
  BY <1>1 DEF Reverse
<1>3. Reverse(v) \in Bytes(n)
  BY <1>2 DEF Bytes
<1>4. Len(Reverse(v)) = n
  BY <1>3, BytesAreSeq
<1>5. Reverse(Reverse(v)) = [j \in 1 .. n |-> Reverse(v)[n - j + 1]]
  BY <1>4 DEF Reverse
<1>6. \A j \in 1 .. n : Reverse(v)[n - j + 1] = v[j]
  BY <1>2
<1> QED
  BY <1>3, <1>5, <1>6 DEF Bytes

\* The order of the host and that of the network cancel out, on either host.
LEMMA OrdersCancel ==
  ASSUME NEW n \in Nat, NEW v \in Bytes(n)
  PROVE  /\ InHostOrder(v) \in Bytes(n) /\ SwapOrder(v) \in Bytes(n)
         /\ SwapOrder(InHostOrder(v)) = v /\ InHostOrder(SwapOrder(v)) = v
         /\ SwapOrder(SwapOrder(v)) = v
BY ReverseTwice DEF InHostOrder, SwapOrder

\* Below is a strict total order on sequences of one length.
LEMMA BelowIsStrict ==
  ASSUME NEW n \in Nat, NEW x \in Bytes(n), NEW y \in Bytes(n)
  PROVE  ~(Below(x, y) /\ Below(y, x)) /\ ~Below(x, x)
<1>1. ASSUME Below(x, y), Below(y, x) PROVE FALSE
  <2>1. PICK i \in 1 .. n : x[i] < y[i] /\ \A j \in 1 .. i - 1 : x[j] = y[j]
    BY <1>1 DEF Below, Bytes
  <2>2. PICK k \in 1 .. n : y[k] < x[k] /\ \A j \in 1 .. k - 1 : y[j] = x[j]
    BY <1>1 DEF Below, Bytes
  <2>3. x[i] \in Int /\ y[i] \in Int /\ x[k] \in Int /\ y[k] \in Int
    BY ByteIsInt
  <2>4. i < k \/ i = k \/ k < i
    OBVIOUS
  <2> QED
    BY <2>1, <2>2, <2>3, <2>4
<1>2. \A i \in 1 .. n : x[i] \in Int
  BY ByteIsInt
<1>3. ~Below(x, x)
  BY <1>2 DEF Below, Bytes
<1> QED
  BY <1>1, <1>3

LEMMA BelowIsTransitive ==
  ASSUME NEW n \in Nat, NEW x \in Bytes(n), NEW y \in Bytes(n), NEW z \in Bytes(n),
         Below(x, y), Below(y, z)
  PROVE  Below(x, z)
<1>1. PICK i \in 1 .. n : x[i] < y[i] /\ \A j \in 1 .. i - 1 : x[j] = y[j]
  BY DEF Below, Bytes
<1>2. PICK k \in 1 .. n : y[k] < z[k] /\ \A j \in 1 .. k - 1 : y[j] = z[j]
  BY DEF Below, Bytes
<1> DEFINE m == IF i < k THEN i ELSE k
<1>3. m \in 1 .. n /\ x[m] < z[m] /\ \A j \in 1 .. m - 1 : x[j] = z[j]
  <2>1. /\ x[i] \in Int /\ y[i] \in Int /\ z[i] \in Int
        /\ x[k] \in Int /\ y[k] \in Int /\ z[k] \in Int
    BY ByteIsInt
  <2>2. CASE i < k
    BY <1>1, <1>2, <2>1, <2>2
  <2>3. CASE k < i
    BY <1>1, <1>2, <2>1, <2>3
  <2>4. CASE i = k
    BY <1>1, <1>2, <2>1, <2>4
  <2> QED
    BY <2>2, <2>3, <2>4
<1> HIDE DEF m
<1> QED
  BY <1>3 DEF Below, Bytes

LEMMA BelowIsTotal ==
  ASSUME NEW n \in Nat, NEW x \in Bytes(n), NEW y \in Bytes(n)
  PROVE  x = y <=> ~Below(x, y) /\ ~Below(y, x)
<1>1. ASSUME x # y PROVE Below(x, y) \/ Below(y, x)
  <2> DEFINE D == {i \in 1 .. n : x[i] # y[i]}
  <2>1. D # {} /\ D \subseteq Nat
    BY <1>1 DEF Bytes
  <2>2. PICK i \in D : \A j \in D : ~(j < i)
    <3>1. PICK i \in D : \A j \in D : ~(<<j, i>> \in OpToRel(<, Nat))
      BY <2>1, NatLessThanWellFounded, WFMin, Zenon
    <3> QED
      BY <2>1, <3>1 DEF OpToRel
  <2>3. \A j \in 1 .. i - 1 : x[j] = y[j]
    BY <2>2
  <2>4. x[i] \in Int /\ y[i] \in Int /\ x[i] # y[i] /\ i \in 1 .. n
    <3>1. i \in 1 .. n /\ x[i] # y[i]
      BY <2>1
    <3> QED
      BY <3>1, ByteIsInt
  <2> HIDE DEF D
  <2> QED
    BY <2>3, <2>4 DEF Below, Bytes
<1> QED
  BY <1>1, BelowIsStrict

(* Addresses.                                                              *)

HostAddresses == InetAddresses \cup Inet6Addresses

LEMMA InetFields ==
  ASSUME NEW a \in InetAddresses
  PROVE  /\ a.family = "inet" /\ a.port \in Bytes(2) /\ a.addr \in Bytes(4)
         /\ sa_is_inet(a) /\ ~sa_is_inet6(a) /\ a = Inet(a.port, a.addr)
         /\ SwapOrder(s_addr(a)) = a.addr /\ s_addr(a) = InHostOrder(a.addr)
         /\ HostPort(a) = a.port
<1>1. a.family = "inet" /\ a.port \in Bytes(2) /\ a.addr \in Bytes(4)
  BY DEF InetAddresses
<1>2. a = Inet(a.port, a.addr)
  BY DEF InetAddresses, Inet
<1> QED
  BY <1>1, <1>2, OrdersCancel DEF sa_is_inet, sa_is_inet6, s_addr, HostPort

LEMMA Inet6Fields ==
  ASSUME NEW a \in Inet6Addresses
  PROVE  /\ a.family = "inet6" /\ a.port \in Bytes(2) /\ a.addr \in Bytes(16)
         /\ a.scope \in Nat
         /\ sa_is_inet6(a) /\ ~sa_is_inet(a) /\ a = Inet6(a.port, a.addr, a.scope)
         /\ HostPort(a) = a.port
<1>1. a.family = "inet6" /\ a.port \in Bytes(2) /\ a.addr \in Bytes(16) /\ a.scope \in Nat
  BY DEF Inet6Addresses
<1>2. a = Inet6(a.port, a.addr, a.scope)
  BY DEF Inet6Addresses, Inet6
<1> QED
  BY <1>1, <1>2, OrdersCancel DEF sa_is_inet, sa_is_inet6, HostPort

LEMMA FamiliesDiffer ==
  ASSUME NEW a \in HostAddresses
  PROVE  /\ a.family = "inet" <=> a \in InetAddresses
         /\ a.family = "inet6" <=> a \in Inet6Addresses
         /\ sa_is_inet(a) <=> a.family = "inet"
         /\ sa_is_inet6(a) <=> a.family = "inet6"
         /\ a.family \in {"inet", "inet6"} /\ sa_is_inet_inet6(a)
         /\ a.port \in Bytes(2) /\ HostPort(a) = a.port
BY InetFields, Inet6Fields DEF HostAddresses, sa_is_inet, sa_is_inet6, sa_is_inet_inet6

\* What the comparisons compare, whatever the order of the host's bytes.
LEMMA EqualMeans ==
  ASSUME NEW l \in HostAddresses, NEW r \in HostAddresses
  PROVE  /\ sa_equal_addr(l, r) <=> l.family = r.family /\ l.addr = r.addr
         /\ sa_equal(l, r) <=>
              l.family = r.family /\ l.addr = r.addr /\ l.port = r.port
<1>1. CASE l.family # r.family
  BY <1>1 DEF sa_equal_addr, sa_equal
<1>2. CASE l \in InetAddresses /\ r \in InetAddresses
  <2>1. sin_equal_addr(l, r) <=> l.addr = r.addr
    BY <1>2, InetFields DEF sin_equal_addr
  <2> QED
    BY <1>2, <2>1, InetFields DEF sa_equal_addr, sa_equal
<1>3. CASE l \in Inet6Addresses /\ r \in Inet6Addresses
  BY <1>3, Inet6Fields DEF sa_equal_addr, sa_equal, sin6_equal_addr
<1> QED
  BY <1>1, <1>2, <1>3, FamiliesDiffer

LEMMA LessMeans ==
  ASSUME NEW l \in HostAddresses, NEW r \in HostAddresses
  PROVE  /\ sa_less_addr(l, r) <=>
              IF l.family # r.family THEN l.family = "inet"
                                     ELSE Below(l.addr, r.addr)
         /\ sa_less(l, r) <=>
              IF l.family # r.family THEN l.family = "inet"
              ELSE IF l.addr = r.addr THEN Below(l.port, r.port)
                                      ELSE Below(l.addr, r.addr)
<1>1. CASE l.family # r.family
  BY <1>1, FamiliesDiffer DEF sa_less_addr, sa_less
<1>2. CASE l \in InetAddresses /\ r \in InetAddresses
  <2>1. sa_less_addr(l, r) <=> Below(l.addr, r.addr)
    BY <1>2, InetFields DEF sa_less_addr
  <2> QED
    BY <1>2, <2>1, InetFields, EqualMeans DEF sa_less
<1>3. CASE l \in Inet6Addresses /\ r \in Inet6Addresses
  <2>1. sa_less_addr(l, r) <=> Below(l.addr, r.addr)
    BY <1>3, Inet6Fields DEF sa_less_addr
  <2> QED
    BY <1>3, <2>1, Inet6Fields, EqualMeans DEF sa_less
<1> QED
  BY <1>1, <1>2, <1>3, FamiliesDiffer

\* The order of two addresses, and of three.
LEMMA PairIsOrdered ==
  ASSUME NEW l \in HostAddresses, NEW r \in HostAddresses
  PROVE  /\ sa_equal(l, r) <=> ~sa_less(l, r) /\ ~sa_less(r, l)
         /\ sa_equal_addr(l, r) <=> ~sa_less_addr(l, r) /\ ~sa_less_addr(r, l)
         /\ ~(sa_less(l, r) /\ sa_less(r, l))
         /\ sa_less_addr(l, r) => sa_less(l, r)
<1>1. CASE l.family # r.family
  BY <1>1, EqualMeans, LessMeans, FamiliesDiffer
<1>2. ASSUME l.family = r.family,
             NEW n \in Nat, l.addr \in Bytes(n), r.addr \in Bytes(n)
      PROVE  /\ sa_equal(l, r) <=> ~sa_less(l, r) /\ ~sa_less(r, l)
             /\ sa_equal_addr(l, r) <=> ~sa_less_addr(l, r) /\ ~sa_less_addr(r, l)
             /\ ~(sa_less(l, r) /\ sa_less(r, l))
             /\ sa_less_addr(l, r) => sa_less(l, r)
  <2>1. /\ l.addr = r.addr <=> ~Below(l.addr, r.addr) /\ ~Below(r.addr, l.addr)
        /\ ~(Below(l.addr, r.addr) /\ Below(r.addr, l.addr))
    BY <1>2, BelowIsTotal, BelowIsStrict
  <2>2. /\ l.port = r.port <=> ~Below(l.port, r.port) /\ ~Below(r.port, l.port)
        /\ ~(Below(l.port, r.port) /\ Below(r.port, l.port))
    BY BelowIsTotal, BelowIsStrict, FamiliesDiffer
  <2> QED
    BY <1>2, <2>1, <2>2, EqualMeans, LessMeans
<1> QED
  BY <1>1, <1>2, FamiliesDiffer, InetFields, Inet6Fields

LEMMA LessIsTransitive ==
  ASSUME NEW l \in HostAddresses, NEW r \in HostAddresses, NEW t \in HostAddresses,
         sa_less(l, r), sa_less(r, t)
  PROVE  sa_less(l, t)
<1>1. CASE l.family # r.family \/ r.family # t.family
  BY <1>1, LessMeans, FamiliesDiffer
<1>2. ASSUME l.family = r.family, r.family = t.family, NEW n \in Nat,
             l.addr \in Bytes(n), r.addr \in Bytes(n), t.addr \in Bytes(n)
      PROVE  sa_less(l, t)
  <2>1. CASE l.addr = r.addr /\ r.addr = t.addr
    <3>1. Below(l.port, r.port) /\ Below(r.port, t.port)
      BY <1>2, <2>1, LessMeans
    <3>2. Below(l.port, t.port)
      BY <3>1, BelowIsTransitive, FamiliesDiffer
    <3> QED
      BY <1>2, <2>1, <3>2, LessMeans
  <2>2. CASE l.addr # r.addr /\ r.addr = t.addr
    BY <1>2, <2>2, LessMeans
  <2>3. CASE l.addr = r.addr /\ r.addr # t.addr
    BY <1>2, <2>3, LessMeans
  <2>4. CASE l.addr # r.addr /\ r.addr # t.addr
    <3>1. Below(l.addr, r.addr) /\ Below(r.addr, t.addr)
      BY <1>2, <2>4, LessMeans
    <3>2. Below(l.addr, t.addr)
      BY <1>2, <3>1, BelowIsTransitive
    <3>3. l.addr # t.addr
      BY <1>2, <3>2, BelowIsStrict
    <3> QED
      BY <1>2, <3>2, <3>3, LessMeans
  <2> QED
    BY <2>1, <2>2, <2>3, <2>4
<1>3. l.family = r.family /\ r.family = t.family =>
        \E n \in Nat : l.addr \in Bytes(n) /\ r.addr \in Bytes(n) /\ t.addr \in Bytes(n)
  BY FamiliesDiffer, InetFields, Inet6Fields
<1> QED
  BY <1>1, <1>2, <1>3

(* Bytes put together and taken apart.                                     *)

\* z is x followed by y, and z is the k bytes of v from the s-th on.
IsJoin(z, x, m, y, n) ==
  /\ z \in Bytes(m + n)
  /\ \A i \in 1 .. m : z[i] = x[i]
  /\ \A i \in 1 .. n : z[m + i] = y[i]

IsCut(z, v, s, k) == z \in Bytes(k) /\ \A i \in 1 .. k : z[i] = v[s + i]

LEMMA Joined ==
  ASSUME NEW m \in Nat, NEW n \in Nat, NEW x \in Bytes(m), NEW y \in Bytes(n)
  PROVE  IsJoin(x \o y, x, m, y, n)
<1>1. x \in Seq(0 .. 255) /\ y \in Seq(0 .. 255) /\ Len(x) = m /\ Len(y) = n
  BY BytesAreSeq
<1>2. x \o y \in Seq(0 .. 255) /\ Len(x \o y) = m + n
  BY <1>1
<1>3. x \o y \in [1 .. m + n -> 0 .. 255]
  BY <1>2, LenProperties
<1>4. \A i \in 1 .. m : (x \o y)[i] = x[i]
  BY <1>1
<1>5. \A i \in 1 .. n : (x \o y)[m + i] = y[i]
  BY <1>1
<1> QED
  BY <1>3, <1>4, <1>5 DEF Bytes, IsJoin

LEMMA Cut ==
  ASSUME NEW n \in Nat, NEW v \in Bytes(n), NEW s \in Nat, NEW k \in Nat, s + k <= n,
         NEW first, NEW last, first = s + 1, last = s + k
  PROVE  IsCut(SubSeq(v, first, last), v, s, k)
<1>1. v \in Seq(0 .. 255) /\ Len(v) = n
  BY BytesAreSeq
<1>2. SubSeq(v, first, last) = [i \in 1 .. k |-> v[s + i]]
  BY <1>1
<1>3. \A i \in 1 .. k : v[s + i] \in 0 .. 255
  BY DEF Bytes
<1> QED
  BY <1>2, <1>3 DEF Bytes, IsCut

LEMMA SameBytes ==
  ASSUME NEW n \in Nat, NEW x \in Bytes(n), NEW y \in Bytes(n)
  PROVE  x = y <=> \A i \in 1 .. n : x[i] = y[i]
BY DEF Bytes

LEMMA FixedBytes ==
  /\ \A n \in Nat : Zeros(n) \in Bytes(n) /\ \A i \in 1 .. n : Zeros(n)[i] = 0
  /\ INADDR_ANY \in Bytes(4) /\ SwapOrder(INADDR_ANY) = INADDR_ANY
  /\ INADDR_BROADCAST \in Bytes(4) /\ SwapOrder(INADDR_BROADCAST) = INADDR_BROADCAST
  /\ <<255, 255>> \in Bytes(2) /\ <<169, 254>> \in Bytes(2)
  /\ <<0, 0, 255, 255>> \in Bytes(4) /\ <<1>> \in Bytes(1)
<1>1. \A n \in Nat : Zeros(n) \in Bytes(n) /\ \A i \in 1 .. n : Zeros(n)[i] = 0
  BY DEF Zeros, Bytes
<1>2. /\ INADDR_ANY \in Bytes(4) /\ INADDR_BROADCAST \in Bytes(4)
      /\ <<255, 255>> \in Bytes(2) /\ <<169, 254>> \in Bytes(2)
      /\ <<0, 0, 255, 255>> \in Bytes(4) /\ <<1>> \in Bytes(1)
  BY DEF INADDR_ANY, INADDR_BROADCAST, Bytes
<1>3. /\ \A i \in 1 .. 4 : INADDR_ANY[i] = 0 /\ INADDR_BROADCAST[i] = 255
      /\ Len(INADDR_ANY) = 4 /\ Len(INADDR_BROADCAST) = 4
  BY DEF INADDR_ANY, INADDR_BROADCAST
<1>4. Reverse(INADDR_ANY) = INADDR_ANY /\ Reverse(INADDR_BROADCAST) = INADDR_BROADCAST
  <2>1. \A i \in 1 .. 4 : /\ Reverse(INADDR_ANY)[i] = INADDR_ANY[i]
                          /\ Reverse(INADDR_BROADCAST)[i] = INADDR_BROADCAST[i]
    BY <1>3 DEF Reverse
  <2>2. Reverse(INADDR_ANY) \in Bytes(4) /\ Reverse(INADDR_BROADCAST) \in Bytes(4)
    BY <1>2, ReverseTwice
  <2> QED
    BY <2>1, <2>2, <1>2, SameBytes
<1> QED
  BY <1>1, <1>2, <1>4 DEF SwapOrder

(* An IPv4 address as an IPv6 address.                                     *)

\* The bytes of ::ffff:a.b.c.d.
LEMMA MappedBytes ==
  ASSUME NEW a \in InetAddresses
  PROVE  LET m == sin6_to_v4mapped_in(a)
         IN  /\ m \in Inet6Addresses /\ m.port = a.port
             /\ \A i \in 1 .. 10 : m.addr[i] = 0
             /\ m.addr[11] = 255 /\ m.addr[12] = 255
             /\ \A i \in 1 .. 4 : m.addr[12 + i] = a.addr[i]
<1> DEFINE m == sin6_to_v4mapped_in(a)
           half == Zeros(4) \o Zeros(4)
           most == half \o <<0, 0, 255, 255>>
<1>1. /\ Zeros(4) \in Bytes(4) /\ <<0, 0, 255, 255>> \in Bytes(4)
      /\ a.addr \in Bytes(4) /\ a.port \in Bytes(2)
      /\ \A i \in 1 .. 4 : Zeros(4)[i] = 0
  BY FixedBytes, InetFields
<1>2. /\ InHostOrder(SwapOrder(Zeros(4))) = Zeros(4)
      /\ InHostOrder(SwapOrder(<<0, 0, 255, 255>>)) = <<0, 0, 255, 255>>
      /\ InHostOrder(SwapOrder(SwapOrder(s_addr(a)))) = a.addr
  BY <1>1, OrdersCancel, InetFields
<1>3. m = Inet6(a.port, most \o a.addr, 0)
  BY <1>2 DEF sin6_to_v4mapped_in, sin6_make_addr32
<1>4. half \in Bytes(8) /\ \A i \in 1 .. 8 : half[i] = 0
  <2>1. IsJoin(half, Zeros(4), 4, Zeros(4), 4)
    BY <1>1, 4 \in Nat, Joined, ZenonT(30)
  <2> HIDE DEF half
  <2>2. half \in Bytes(8) /\ \A i \in 1 .. 4 : half[i] = 0 /\ half[4 + i] = 0
    BY <1>1, <2>1 DEF IsJoin
  <2>3. \A i \in 1 .. 8 : i \in 1 .. 4 \/ (i - 4 \in 1 .. 4 /\ i = 4 + (i - 4))
    OBVIOUS
  <2> QED
    BY <2>2, <2>3
<1> HIDE DEF half
<1>5. /\ most \in Bytes(12) /\ \A i \in 1 .. 10 : most[i] = 0
      /\ most[11] = 255 /\ most[12] = 255
  <2> DEFINE tail == <<0, 0, 255, 255>>
  <2>1. tail[1] = 0 /\ tail[2] = 0 /\ tail[3] = 255 /\ tail[4] = 255
    OBVIOUS
  <2>2. IsJoin(most, half, 8, tail, 4)
    BY <1>1, <1>4, 4 \in Nat, 8 \in Nat, Joined, ZenonT(30)
  <2> HIDE DEF tail, most
  <2>3. /\ most \in Bytes(12)
        /\ \A i \in 1 .. 8 : most[i] = half[i]
        /\ \A i \in 1 .. 4 : most[8 + i] = tail[i]
    BY <2>2 DEF IsJoin
  <2>4. /\ most[8 + 1] = 0 /\ most[8 + 2] = 0 /\ most[8 + 3] = 255 /\ most[8 + 4] = 255
    BY <2>1, <2>3
  <2>5. \A i \in 1 .. 10 : i \in 1 .. 8 \/ i = 8 + 1 \/ i = 8 + 2
    OBVIOUS
  <2> QED
    BY <1>4, <2>3, <2>4, <2>5
<1> HIDE DEF most
<1> DEFINE all == most \o a.addr
<1>6. IsJoin(all, most, 12, a.addr, 4)
  <2>1. most \in Bytes(12) /\ a.addr \in Bytes(4)
    BY <1>1, <1>5
  <2> QED
    BY <2>1, 4 \in Nat, 12 \in Nat, Joined, ZenonT(30)
<1>7. m = Inet6(a.port, all, 0)
  BY <1>3
<1> HIDE DEF all, m
<1>8. /\ all \in Bytes(16)
      /\ \A i \in 1 .. 12 : all[i] = most[i]
      /\ \A i \in 1 .. 4 : all[12 + i] = a.addr[i]
  BY <1>6 DEF IsJoin
<1>9. m \in Inet6Addresses /\ m.addr = all /\ m.port = a.port
  BY <1>1, <1>7, <1>8 DEF Inet6, Inet6Addresses
<1>10. /\ \A i \in 1 .. 10 : m.addr[i] = 0
       /\ m.addr[11] = 255 /\ m.addr[12] = 255
       /\ \A i \in 1 .. 4 : m.addr[12 + i] = a.addr[i]
  BY <1>5, <1>8, <1>9
<1> QED
  BY <1>9, <1>10 DEF m

\* What makes an IPv6 address a mapped one, and what it maps.
LEMMA MappedMeans ==
  ASSUME NEW b \in Inet6Addresses
  PROVE  /\ sin6_is_v4mapped(b) <=>
              /\ \A i \in 1 .. 10 : b.addr[i] = 0
              /\ b.addr[11] = 255 /\ b.addr[12] = 255
         /\ sin6_addr32_index(b, 3) \in Bytes(4)
         /\ \A i \in 1 .. 4 : sin6_addr32_index(b, 3)[i] = b.addr[12 + i]
<1> DEFINE head == SubSeq(b.addr, 1, 12)
           pattern == Zeros(10) \o <<255, 255>>
           tail == sin6_addr32_index(b, 3)
<1>1. b.addr \in Bytes(16)
  BY Inet6Fields
<1>2. IsCut(head, b.addr, 0, 12)
  BY <1>1, 16 \in Nat, 12 \in Nat, 0 \in Nat, 0 + 12 <= 16, 1 = 0 + 1, 12 = 0 + 12,
     Cut, ZenonT(30)
<1>3. IsCut(tail, b.addr, 12, 4)
  <2>1. tail = SubSeq(b.addr, 13, 16)
    BY DEF sin6_addr32_index
  <2> QED
    BY <1>1, <2>1, 16 \in Nat, 12 \in Nat, 4 \in Nat, 12 + 4 <= 16, 13 = 12 + 1,
       16 = 12 + 4, Cut, ZenonT(30)
<1>4. IsJoin(pattern, Zeros(10), 10, <<255, 255>>, 2)
  <2>1. Zeros(10) \in Bytes(10) /\ <<255, 255>> \in Bytes(2)
    BY FixedBytes
  <2> QED
    BY <2>1, 10 \in Nat, 2 \in Nat, Joined, ZenonT(30)
<1>5. sin6_is_v4mapped(b) <=> head = pattern
  BY DEF sin6_is_v4mapped
<1> HIDE DEF head, pattern, tail
<1>6. head \in Bytes(12) /\ \A i \in 1 .. 12 : head[i] = b.addr[i]
  BY <1>2 DEF IsCut
<1>7. /\ pattern \in Bytes(12) /\ \A i \in 1 .. 10 : pattern[i] = 0
      /\ pattern[10 + 1] = 255 /\ pattern[10 + 2] = 255
  <2> DEFINE pair == <<255, 255>>
  <2>1. pair[1] = 255 /\ pair[2] = 255
    OBVIOUS
  <2>2. \A i \in 1 .. 10 : Zeros(10)[i] = 0
    BY DEF Zeros
  <2> HIDE DEF pair
  <2> QED
    BY <1>4, <2>1, <2>2 DEF IsJoin, pair
<1>8. head = pattern <=> \A i \in 1 .. 12 : head[i] = pattern[i]
  BY <1>6, <1>7, SameBytes
<1>9. \A i \in 1 .. 12 : i \in 1 .. 10 \/ i = 10 + 1 \/ i = 10 + 2
  OBVIOUS
<1>10. head = pattern <=>
         /\ \A i \in 1 .. 10 : b.addr[i] = 0
         /\ b.addr[11] = 255 /\ b.addr[12] = 255
  BY <1>6, <1>7, <1>8, <1>9
<1>11. tail \in Bytes(4) /\ \A i \in 1 .. 4 : tail[i] = b.addr[12 + i]
  BY <1>3 DEF IsCut
<1> QED
  BY <1>5, <1>10, <1>11 DEF tail

LEMMA UnmappedIsInet ==
  ASSUME NEW b \in Inet6Addresses
  PROVE  /\ sin_from_v4mapped_in6(b) = Inet(b.port, sin6_addr32_index(b, 3))
         /\ sin_from_v4mapped_in6(b) \in InetAddresses
<1>1. b.port \in Bytes(2) /\ sin6_addr32_index(b, 3) \in Bytes(4)
  BY Inet6Fields, MappedMeans
<1>2. sin_from_v4mapped_in6(b) = Inet(b.port, sin6_addr32_index(b, 3))
  BY <1>1, OrdersCancel DEF sin_from_v4mapped_in6
<1> QED
  BY <1>1, <1>2 DEF Inet, InetAddresses

LEMMA MappedComesBack ==
  ASSUME NEW a \in InetAddresses
  PROVE  LET m == sin6_to_v4mapped_in(a)
         IN  /\ m \in Inet6Addresses /\ sa_is_v4mapped(m)
             /\ sin6_addr32_index(m, 3) = a.addr
             /\ sin_from_v4mapped_in6(m) = a /\ sa_convert(m) = a
<1> DEFINE m == sin6_to_v4mapped_in(a)
<1>1. /\ m \in Inet6Addresses /\ m.port = a.port
      /\ \A i \in 1 .. 10 : m.addr[i] = 0
      /\ m.addr[11] = 255 /\ m.addr[12] = 255
      /\ \A i \in 1 .. 4 : m.addr[12 + i] = a.addr[i]
  BY MappedBytes
<1> HIDE DEF m
<1>2. sa_is_v4mapped(m)
  BY <1>1, MappedMeans, Inet6Fields DEF sa_is_v4mapped
<1>3. sin6_addr32_index(m, 3) = a.addr
  <2>1. /\ sin6_addr32_index(m, 3) \in Bytes(4) /\ a.addr \in Bytes(4)
        /\ \A i \in 1 .. 4 : sin6_addr32_index(m, 3)[i] = m.addr[12 + i]
    BY <1>1, MappedMeans, InetFields
  <2> QED
    BY <1>1, <2>1, SameBytes
<1>4. sin_from_v4mapped_in6(m) = a
  BY <1>1, <1>3, UnmappedIsInet, InetFields
<1>5. sa_convert(m) = a
  BY <1>2, <1>4 DEF sa_convert
<1> QED
  BY <1>1, <1>2, <1>3, <1>4, <1>5 DEF m

\* What the questions ask of an IPv4 address and of a mapped one.
LEMMA InetQuestions ==
  ASSUME NEW a \in InetAddresses
  PROVE  /\ sa_is_any(a) <=> a.addr = INADDR_ANY
         /\ sa_is_broadcast(a) <=> a.addr = INADDR_BROADCAST
         /\ sa_is_loopback(a) <=> a.addr[1] = 127
         /\ sa_is_link_local(a) <=> a.addr[1] = 169 /\ a.addr[2] = 254
<1>1. /\ sa_is_inet(a) /\ ~sa_is_inet6(a) /\ a.addr \in Bytes(4)
      /\ SwapOrder(s_addr(a)) = a.addr /\ s_addr(a) = InHostOrder(a.addr)
  BY InetFields
<1>2. s_addr(a) = SwapOrder(INADDR_ANY) <=> a.addr = INADDR_ANY
  BY <1>1, FixedBytes, OrdersCancel
<1>3. s_addr(a) = SwapOrder(INADDR_BROADCAST) <=> a.addr = INADDR_BROADCAST
  BY <1>1, FixedBytes, OrdersCancel
<1>4. SubSeq(a.addr, 1, 2) = <<169, 254>> <=> a.addr[1] = 169 /\ a.addr[2] = 254
  <2> DEFINE front == SubSeq(a.addr, 1, 2)
             pair == <<169, 254>>
  <2>1. IsCut(front, a.addr, 0, 2)
    BY <1>1, 4 \in Nat, 0 \in Nat, 2 \in Nat, 0 + 2 <= 4, 1 = 0 + 1, 2 = 0 + 2,
       Cut, ZenonT(30)
  <2>2. pair \in Bytes(2) /\ pair[1] = 169 /\ pair[2] = 254
    BY FixedBytes
  <2> HIDE DEF front, pair
  <2>3. front \in Bytes(2) /\ front[1] = a.addr[1] /\ front[2] = a.addr[2]
    BY <2>1 DEF IsCut
  <2>4. front = pair <=> \A i \in 1 .. 2 : front[i] = pair[i]
    BY <2>2, <2>3, SameBytes
  <2>5. \A i \in 1 .. 2 : i = 1 \/ i = 2
    OBVIOUS
  <2>6. front = pair <=> a.addr[1] = 169 /\ a.addr[2] = 254
    BY <2>2, <2>3, <2>4, <2>5
  <2> QED
    BY <2>6 DEF front, pair
<1> QED
  BY <1>1, <1>2, <1>3, <1>4
     DEF sa_is_any, sa_is_broadcast, sa_is_loopback, sa_is_link_local, sin_is_any,
         sin_is_broadcast, sin_is_loopback, sin_is_link_local, sa_is_v4mapped,
         PlainInet6, sa_is_inet_inet6

LEMMA MappedQuestions ==
  ASSUME NEW a \in InetAddresses
  PROVE  LET m == sin6_to_v4mapped_in(a)
         IN  /\ sa_is_any(m) <=> a.addr = INADDR_ANY
             /\ sa_is_broadcast(m) <=> a.addr = INADDR_BROADCAST
             /\ sa_is_loopback(m) <=> a.addr[1] = 127
             /\ sa_is_link_local(m) <=> a.addr[1] = 169 /\ a.addr[2] = 254
<1> DEFINE m == sin6_to_v4mapped_in(a)
<1>1. /\ m \in Inet6Addresses /\ sa_is_v4mapped(m)
      /\ sin6_addr32_index(m, 3) = a.addr
  BY MappedComesBack
<1>2. \A i \in 1 .. 4 : m.addr[12 + i] = a.addr[i]
  BY MappedBytes
<1> HIDE DEF m
<1>3. ~sa_is_inet(m) /\ sa_is_inet6(m) /\ ~PlainInet6(m)
  BY <1>1, Inet6Fields DEF PlainInet6, sa_is_v4mapped
<1>4. m.addr[12 + 1] = a.addr[1] /\ m.addr[12 + 2] = a.addr[2]
  BY <1>2
<1>5. m.addr[13] = a.addr[1] /\ m.addr[14] = a.addr[2]
  BY <1>4
<1>6. /\ sa_is_any(m) <=> a.addr = INADDR_ANY
      /\ sa_is_broadcast(m) <=> a.addr = INADDR_BROADCAST
      /\ sa_is_loopback(m) <=> a.addr[1] = 127
      /\ sa_is_link_local(m) <=> a.addr[1] = 169 /\ a.addr[2] = 254
  BY <1>1, <1>3, <1>5, FixedBytes
     DEF sa_is_any, sa_is_broadcast, sa_is_loopback, sa_is_link_local,
         sa_is_inet_inet6
<1> QED
  BY <1>6 DEF m

\* Twelve equal bytes before them do not change the order of the other four.
LEMMA MappedOrder ==
  ASSUME NEW a \in InetAddresses, NEW b \in InetAddresses
  PROVE  LET m == sin6_to_v4mapped_in(a)
             n == sin6_to_v4mapped_in(b)
         IN  /\ m.addr = n.addr <=> a.addr = b.addr
             /\ Below(m.addr, n.addr) <=> Below(a.addr, b.addr)
<1> DEFINE x == sin6_to_v4mapped_in(a).addr
           y == sin6_to_v4mapped_in(b).addr
<1>1. /\ x \in Bytes(16) /\ y \in Bytes(16) /\ a.addr \in Bytes(4) /\ b.addr \in Bytes(4)
      /\ \A i \in 1 .. 10 : x[i] = 0 /\ y[i] = 0
      /\ x[11] = 255 /\ x[12] = 255 /\ y[11] = 255 /\ y[12] = 255
      /\ \A i \in 1 .. 4 : x[12 + i] = a.addr[i] /\ y[12 + i] = b.addr[i]
  BY MappedBytes, InetFields, Inet6Fields
<1> HIDE DEF x, y
<1>2. \A i \in 1 .. 12 : x[i] = y[i] /\ x[i] \in Int
  <2>1. \A i \in 1 .. 12 : i \in 1 .. 10 \/ i = 11 \/ i = 12
    OBVIOUS
  <2> QED
    BY <1>1, <2>1
<1>3. \A i \in 1 .. 16 : i \in 1 .. 12 \/ (i - 12 \in 1 .. 4 /\ i = 12 + (i - 12))
  OBVIOUS
<1>0. DOMAIN x = 1 .. 16 /\ DOMAIN a.addr = 1 .. 4
  BY <1>1 DEF Bytes
<1>4. x = y <=> a.addr = b.addr
  <2>1. x = y <=> \A i \in 1 .. 16 : x[i] = y[i]
    BY <1>1, SameBytes
  <2>2. a.addr = b.addr <=> \A i \in 1 .. 4 : a.addr[i] = b.addr[i]
    BY <1>1, SameBytes
  <2>3. ASSUME a.addr = b.addr PROVE \A i \in 1 .. 16 : x[i] = y[i]
    BY <1>1, <1>2, <1>3, <2>3
  <2>4. ASSUME x = y PROVE a.addr = b.addr
    BY <1>1, <2>2, <2>4
  <2> QED
    BY <2>1, <2>3, <2>4
<1>5. ASSUME Below(a.addr, b.addr) PROVE Below(x, y)
  <2>1. PICK i \in 1 .. 4 :
          a.addr[i] < b.addr[i] /\ \A j \in 1 .. i - 1 : a.addr[j] = b.addr[j]
    BY <1>0, <1>5 DEF Below
  <2>2. 12 + i \in 1 .. 16 /\ x[12 + i] < y[12 + i]
    BY <1>1, <2>1
  <2>3. \A j \in 1 .. (12 + i) - 1 : x[j] = y[j]
    <3>1. \A j \in 1 .. (12 + i) - 1 :
            j \in 1 .. 12 \/ (j - 12 \in 1 .. i - 1 /\ j - 12 \in 1 .. 4 /\ j = 12 + (j - 12))
      OBVIOUS
    <3> QED
      BY <1>1, <1>2, <2>1, <3>1
  <2> QED
    BY <1>0, <2>2, <2>3 DEF Below
<1>6. ASSUME Below(x, y) PROVE Below(a.addr, b.addr)
  <2>1. PICK i \in 1 .. 16 : x[i] < y[i] /\ \A j \in 1 .. i - 1 : x[j] = y[j]
    BY <1>0, <1>6 DEF Below
  <2>2. i - 12 \in 1 .. 4 /\ i = 12 + (i - 12)
    BY <1>2, <1>3, <2>1
  <2>3. PICK k \in 1 .. 4 : i = 12 + k
    BY <2>2
  <2>4. a.addr[k] < b.addr[k]
    BY <1>1, <2>1, <2>3
  <2>5. \A j \in 1 .. k - 1 : a.addr[j] = b.addr[j]
    <3>1. \A j \in 1 .. k - 1 : j \in 1 .. 4 /\ 12 + j \in 1 .. i - 1
      BY <2>3
    <3> QED
      BY <1>1, <2>1, <3>1
  <2> QED
    BY <1>0, <2>4, <2>5 DEF Below
<1> QED
  BY <1>4, <1>5, <1>6 DEF x, y

LEMMA MappedCompares ==
  ASSUME NEW a \in InetAddresses, NEW b \in InetAddresses
  PROVE  LET m == sin6_to_v4mapped_in(a)
             n == sin6_to_v4mapped_in(b)
         IN  /\ sa_less(m, n) <=> sa_less(a, b)
             /\ sa_equal(m, n) <=> sa_equal(a, b)
<1> DEFINE m == sin6_to_v4mapped_in(a)
           n == sin6_to_v4mapped_in(b)
<1>1. /\ m.addr = n.addr <=> a.addr = b.addr
      /\ Below(m.addr, n.addr) <=> Below(a.addr, b.addr)
  BY MappedOrder
<1>2. /\ m \in Inet6Addresses /\ n \in Inet6Addresses
      /\ m.port = a.port /\ n.port = b.port
  BY MappedBytes
<1> HIDE DEF m, n
<1>3. m.family = "inet6" /\ n.family = "inet6" /\ a.family = "inet" /\ b.family = "inet"
  BY <1>2, InetFields, Inet6Fields
<1>4. {m, n, a, b} \subseteq HostAddresses
  BY <1>2 DEF HostAddresses
<1>5. /\ sa_less(m, n) <=> sa_less(a, b)
      /\ sa_equal(m, n) <=> sa_equal(a, b)
  BY <1>1, <1>2, <1>3, <1>4, LessMeans, EqualMeans
<1> QED
  BY <1>5 DEF m, n

-----------------------------------------------------------------------------
(* The union.                                                               *)

UnionType ==
  [family : {"unspec", "inet", "inet6"}, port : Bytes(2), low : Bytes(4),
   mid : Bytes(8), high : Bytes(8), scope : Nat]

LEMMA HalvesJoin ==
  ASSUME NEW v \in Bytes(16)
  PROVE  /\ SubSeq(v, 1, 8) \in Bytes(8) /\ SubSeq(v, 9, 16) \in Bytes(8)
         /\ SubSeq(v, 1, 8) \o SubSeq(v, 9, 16) = v
<1> DEFINE x == SubSeq(v, 1, 8)
           y == SubSeq(v, 9, 16)
           z == x \o y
<1>1. IsCut(x, v, 0, 8)
  BY 16 \in Nat, 0 \in Nat, 8 \in Nat, 0 + 8 <= 16, 1 = 0 + 1, 8 = 0 + 8, Cut, ZenonT(30)
<1>2. IsCut(y, v, 8, 8)
  BY 16 \in Nat, 8 \in Nat, 8 + 8 <= 16, 9 = 8 + 1, 16 = 8 + 8, Cut, ZenonT(30)
<1> HIDE DEF x, y
<1>3. x \in Bytes(8) /\ y \in Bytes(8)
  BY <1>1, <1>2 DEF IsCut
<1>4. IsJoin(z, x, 8, y, 8)
  BY <1>3, 8 \in Nat, Joined, ZenonT(30)
<1> HIDE DEF z
<1>5. /\ z \in Bytes(16)
      /\ \A i \in 1 .. 8 : z[i] = v[i] /\ z[8 + i] = v[8 + i]
  BY <1>1, <1>2, <1>4 DEF IsCut, IsJoin
<1>6. \A i \in 1 .. 16 : i \in 1 .. 8 \/ (i - 8 \in 1 .. 8 /\ i = 8 + (i - 8))
  OBVIOUS
<1>7. \A i \in 1 .. 16 : z[i] = v[i]
  BY <1>5, <1>6
<1>8. z = v
  BY <1>5, <1>7, SameBytes
<1> QED
  BY <1>3, <1>8 DEF x, y, z

\* What is copied into a union is what is read from it, whatever was there.
LEMMA UnionKeeps ==
  ASSUME NEW a \in Addresses, NEW u \in UnionType
  PROVE  /\ sa_copy_to_inet_union(a, u) \in UnionType
         /\ InUnion(sa_copy_to_inet_union(a, u)) = a
<1>1. CASE a \in InetAddresses
  <2>1. Zeros(8) \in Bytes(8)
    BY FixedBytes
  <2>2. sa_copy_to_inet_union(a, u) =
          [u EXCEPT !.family = "inet", !.port = a.port, !.low = a.addr, !.mid = Zeros(8)]
    BY <1>1, InetFields DEF sa_copy_to_inet_union
  <2>3. /\ a.port \in Bytes(2) /\ a.addr \in Bytes(4)
        /\ a = Inet(a.port, a.addr)
    BY <1>1, InetFields
  <2> DEFINE w == sa_copy_to_inet_union(a, u)
  <2>4. w \in UnionType /\ w.family = "inet" /\ w.port = a.port /\ w.low = a.addr
    BY <2>1, <2>2, <2>3 DEF UnionType
  <2> HIDE DEF w
  <2>5. InUnion(w) = a
    BY <2>3, <2>4 DEF InUnion
  <2> QED
    BY <2>4, <2>5 DEF w
<1>2. CASE a \in Inet6Addresses
  <2>1. Zeros(4) \in Bytes(4)
    BY FixedBytes
  <2>2. sa_copy_to_inet_union(a, u) =
          [family |-> "inet6", port |-> a.port, low |-> Zeros(4),
           mid |-> SubSeq(a.addr, 1, 8), high |-> SubSeq(a.addr, 9, 16),
           scope |-> a.scope]
    BY <1>2, Inet6Fields DEF sa_copy_to_inet_union
  <2>3. /\ SubSeq(a.addr, 1, 8) \in Bytes(8) /\ SubSeq(a.addr, 9, 16) \in Bytes(8)
        /\ SubSeq(a.addr, 1, 8) \o SubSeq(a.addr, 9, 16) = a.addr
    BY <1>2, Inet6Fields, HalvesJoin
  <2>4. /\ a.port \in Bytes(2) /\ a.scope \in Nat
        /\ a = Inet6(a.port, a.addr, a.scope)
    BY <1>2, Inet6Fields
  <2> DEFINE w == sa_copy_to_inet_union(a, u)
  <2>5. /\ w \in UnionType /\ w.family = "inet6" /\ w.port = a.port
        /\ w.mid \o w.high = a.addr /\ w.scope = a.scope
    BY <2>1, <2>2, <2>3, <2>4 DEF UnionType
  <2> HIDE DEF w
  <2>6. InUnion(w) = a
    BY <2>4, <2>5 DEF InUnion
  <2> QED
    BY <2>5, <2>6 DEF w
<1>3. CASE a = Unspec
  <2>1. sa_copy_to_inet_union(a, u) = [u EXCEPT !.family = "unspec"]
    BY <1>3 DEF sa_copy_to_inet_union, Unspec, sa_is_inet, sa_is_inet6
  <2>2. [u EXCEPT !.family = "unspec"].family = "unspec"
    BY DEF UnionType
  <2> QED
    BY <1>3, <2>1, <2>2 DEF UnionType, InUnion
<1> QED
  BY <1>1, <1>2, <1>3 DEF Addresses

LEMMA UnionHoldsAddress ==
  ASSUME NEW u \in UnionType
  PROVE  InUnion(u) \in Addresses
<1>1. u.mid \o u.high \in Bytes(16)
  <2>1. u.mid \in Bytes(8) /\ u.high \in Bytes(8)
    BY DEF UnionType
  <2>2. IsJoin(u.mid \o u.high, u.mid, 8, u.high, 8)
    BY <2>1, 8 \in Nat, Joined, ZenonT(30)
  <2> QED
    BY <2>2 DEF IsJoin
<1>2. CASE u.family = "inet"
  BY <1>2 DEF UnionType, InUnion, Inet, InetAddresses, Addresses
<1>3. CASE u.family = "inet6"
  BY <1>1, <1>3 DEF UnionType, InUnion, Inet6, Inet6Addresses, Addresses
<1>4. CASE u.family = "unspec"
  BY <1>4 DEF UnionType, InUnion, Addresses
<1> QED
  BY <1>2, <1>3, <1>4 DEF UnionType

-----------------------------------------------------------------------------
(* The caller's addresses.                                                  *)

AddressInv ==
  /\ sa \in Addresses
  /\ su \in UnionType
  /\ UnionIsSource

LEMMA UnspecIsOther ==
  /\ Unspec \in Addresses /\ ~sa_is_inet(Unspec) /\ ~sa_is_inet6(Unspec)
  /\ \A a \in Addresses : a # Unspec <=> a \in HostAddresses
  /\ \A a \in Addresses : sa_is_inet_inet6(a) <=> a \in HostAddresses
<1>1. Unspec \in Addresses /\ ~sa_is_inet(Unspec) /\ ~sa_is_inet6(Unspec)
  BY DEF Addresses, Unspec, sa_is_inet, sa_is_inet6
<1>2. \A a \in HostAddresses : sa_is_inet_inet6(a) /\ a # Unspec
  BY <1>1, FamiliesDiffer DEF sa_is_inet_inet6
<1> QED
  BY <1>1, <1>2 DEF Addresses, HostAddresses, sa_is_inet_inet6

LEMMA ConversionsStay ==
  ASSUME NEW a \in Addresses, NEW port \in Bytes(2)
  PROVE  /\ sa_convert(a) \in Addresses
         /\ sa_copy_addr(a, port) \in Addresses
         /\ sa_is_inet_inet6(a) => sa_set_port(a, port) \in Addresses
         /\ sa_is_inet(a) => sin6_to_v4mapped_in(a) \in Addresses
         /\ sa_is_v4mapped(a) => sin_from_v4mapped_in6(a) \in Addresses
<1>1. InHostOrder(SwapOrder(port)) = port
  BY OrdersCancel
<1>2. CASE a \in InetAddresses
  BY <1>1, <1>2, InetFields, MappedBytes
     DEF sa_convert, sa_copy_addr, sa_set_port, sa_is_v4mapped, Addresses, InetAddresses,
         Inet
<1>3. CASE a \in Inet6Addresses
  BY <1>1, <1>3, Inet6Fields, UnmappedIsInet
     DEF sa_convert, sa_copy_addr, sa_set_port, sa_is_v4mapped, Addresses, Inet6Addresses,
         Inet6
<1>4. CASE a = Unspec
  BY <1>4, UnspecIsOther DEF sa_convert, sa_copy_addr, sa_is_v4mapped, sa_is_inet_inet6
<1> QED
  BY <1>2, <1>3, <1>4 DEF Addresses

LEMMA AddressInit == Init => AddressInv
<1> SUFFICES ASSUME Init PROVE AddressInv
  OBVIOUS
<1>1. EmptyUnion \in UnionType
  BY FixedBytes DEF EmptyUnion, UnionType
<1>2. InUnion(EmptyUnion) = Unspec
  BY DEF EmptyUnion, InUnion
<1> QED
  BY <1>1, <1>2, UnspecIsOther DEF Init, AddressInv, UnionIsSource

\* An action that touches only the address on the heap.
LEMMA NewAddress ==
  ASSUME AddressInv, sa' \in Addresses, UNCHANGED <<su, source>>
  PROVE  AddressInv'
BY DEF AddressInv, UnionIsSource

LEMMA AddressNext == AddressInv /\ [Next]_vars => AddressInv'
<1> SUFFICES ASSUME AddressInv, [Next]_vars PROVE AddressInv'
  OBVIOUS
<1>0. sa \in Addresses /\ su \in UnionType
  BY DEF AddressInv
<1>1. CASE UNCHANGED <<sa, su, source>>
  BY <1>1 DEF AddressInv, UnionIsSource
<1>2. ASSUME NEW new \in Addresses, SetAddress(new) PROVE AddressInv'
  BY <1>2, NewAddress DEF SetAddress
<1>3. ASSUME NEW flags, NEW family, Open(flags) \/ OpenFamily(flags, family) \/ OpenLocal(flags)
      PROVE  UNCHANGED <<sa, su, source>>
  BY <1>3 DEF Open, OpenFamily, OpenLocal, OpenSocket
<1>4. CASE Close \/ Connect \/ Listen \/ Accept \/ CloseAccepted
  BY <1>1, <1>4 DEF Close, Connect, Listen, Accept, AcceptConnection, CloseAccepted
<1>5. CASE SapAccept
  <2>1. sa' \in Addresses /\ UNCHANGED <<su, source>>
    BY <1>5, NumericAssumption DEF SapAccept, Addresses
  <2> QED
    BY <2>1, NewAddress
<1>6. ASSUME NEW family, Lookup(family) PROVE AddressInv'
  BY <1>2, <1>6, NumericAssumption DEF Lookup, Addresses
<1>7. CASE Unset
  BY <1>2, <1>7, UnspecIsOther DEF Unset
<1>8. CASE Convert \/ CopyAddr \/ SetPort \/ ToMapped \/ FromMapped
  <2>1. CASE Convert
    <3>1. Zeros(2) \in Bytes(2)
      BY FixedBytes
    <3> QED
      BY <1>0, <1>2, <2>1, <3>1, ConversionsStay DEF Convert
  <2>2. CASE CopyAddr
    <3>1. PICK port \in Ports : SetAddress(sa_copy_addr(sa, port))
      BY <2>2 DEF CopyAddr
    <3>2. sa_copy_addr(sa, port) \in Addresses
      BY <1>0, <3>1, PortsAssumption, ConversionsStay
    <3> QED
      BY <1>2, <3>1, <3>2
  <2>3. CASE SetPort
    <3>1. PICK port \in Ports : SetAddress(sa_set_port(sa, port))
      BY <2>3 DEF SetPort
    <3>2. sa_set_port(sa, port) \in Addresses
      BY <1>0, <2>3, <3>1, PortsAssumption, ConversionsStay DEF SetPort
    <3> QED
      BY <1>2, <3>1, <3>2
  <2>4. CASE ToMapped \/ FromMapped
    <3>1. Zeros(2) \in Bytes(2)
      BY FixedBytes
    <3> QED
      BY <1>0, <1>2, <2>4, <3>1, ConversionsStay DEF ToMapped, FromMapped
  <2> QED
    BY <1>8, <2>1, <2>2, <2>3, <2>4
<1>9. CASE TakeFromUnion
  BY <1>0, <1>2, <1>9, UnionHoldsAddress DEF TakeFromUnion
<1>10. CASE CopyToUnion \/ NewUnion
  <2>1. EmptyUnion \in UnionType
    BY FixedBytes DEF EmptyUnion, UnionType
  <2>2. PICK u \in UnionType :
          su' = sa_copy_to_inet_union(sa, u) /\ source' = sa /\ sa' = sa
    BY <1>0, <1>10, <2>1 DEF CopyToUnion, NewUnion
  <2>3. su' \in UnionType /\ InUnion(su') = sa
    BY <1>0, <2>2, UnionKeeps
  <2> QED
    BY <1>0, <2>2, <2>3 DEF AddressInv, UnionIsSource
<1>11. CASE UNCHANGED vars
  BY <1>1, <1>11 DEF vars
<1> QED
  BY <1>1, <1>3, <1>4, <1>5, <1>6, <1>7, <1>8, <1>9, <1>10, <1>11 DEF Next

-----------------------------------------------------------------------------
(* The caller's descriptors.                                                *)

SocketInv ==
  /\ kernel \in [Fds -> SocketType \cup {None}]
  /\ fd \in Fds \cup {None} /\ accepted \in Fds \cup {None}
  /\ NoLeak
  /\ FamilyAsAsked

\* The families that are tried are those that the flags allow.
LEMMA AttemptsAllowed ==
  ASSUME NEW flags, NEW i \in DOMAIN Attempts(flags)
  PROVE  \/ Attempts(flags)[i] = "inet6" /\ "v4only" \notin flags
         \/ Attempts(flags)[i] = "inet" /\ "v6" \notin flags /\ "v6only" \notin flags
<1> DEFINE first == IF "v4only" \in flags THEN <<>> ELSE <<"inet6">>
           second == IF flags \cap {"v6", "v6only"} # {} THEN <<>> ELSE <<"inet">>
<1>0. /\ first = <<>> \/ (first = <<"inet6">> /\ "v4only" \notin flags)
      /\ \/ second = <<>>
         \/ second = <<"inet">> /\ "v6" \notin flags /\ "v6only" \notin flags
  OBVIOUS
<1> HIDE DEF first, second
<1>1. /\ Len(first) \in {0, 1} /\ Len(second) \in {0, 1}
      /\ first \in Seq({"inet6"}) /\ second \in Seq({"inet"})
      /\ Len(first) = 1 => "v4only" \notin flags /\ first[1] = "inet6"
      /\ Len(second) = 1 =>
           "v6" \notin flags /\ "v6only" \notin flags /\ second[1] = "inet"
  <2>1. /\ Len(first) \in {0, 1} /\ first \in Seq({"inet6"})
        /\ Len(first) = 1 => "v4only" \notin flags /\ first[1] = "inet6"
    <3>1. CASE first = <<>>
      BY <3>1
    <3>2. CASE first = <<"inet6">> /\ "v4only" \notin flags
      BY <3>2
    <3> QED
      BY <1>0, <3>1, <3>2
  <2>2. /\ Len(second) \in {0, 1} /\ second \in Seq({"inet"})
        /\ Len(second) = 1 =>
             "v6" \notin flags /\ "v6only" \notin flags /\ second[1] = "inet"
    <3>1. CASE second = <<>>
      BY <3>1
    <3>2. CASE second = <<"inet">> /\ "v6" \notin flags /\ "v6only" \notin flags
      BY <3>2
    <3> QED
      BY <1>0, <3>1, <3>2
  <2> QED
    BY <2>1, <2>2
<1>2. Attempts(flags) = first \o second
  BY DEF Attempts, first, second
<1>3. /\ Len(first \o second) = Len(first) + Len(second)
      /\ i \in 1 .. Len(first) + Len(second)
      /\ (first \o second)[i] =
           IF i <= Len(first) THEN first[i] ELSE second[i - Len(first)]
  BY <1>1, <1>2
<1>4. CASE i <= Len(first)
  BY <1>1, <1>2, <1>3, <1>4
<1>5. CASE ~(i <= Len(first))
  <2>1. Len(second) = 1 /\ i - Len(first) = 1
    BY <1>1, <1>3, <1>5
  <2> QED
    BY <1>1, <1>2, <1>3, <1>5, <2>1
<1> QED
  BY <1>4, <1>5

\* Whichever option is refused, the caller has the socket or the kernel has not.
LEMMA OpenSocketInvariant ==
  ASSUME SocketInv, NothingOpen, NEW flags, NEW domain \in {"inet", "inet6", "local"},
         OpenSocket(flags, domain),
         domain = "inet6" => "v4only" \notin flags,
         domain = "inet" => "v6" \notin flags /\ "v6only" \notin flags
  PROVE  SocketInv'
<1> DEFINE socket == [domain |-> domain,
                      type |-> IF "stream" \in flags THEN "stream" ELSE "datagram",
                      options |-> flags \cap OptionFlags, use |-> "none"]
<1>1. socket \in SocketType /\ socket # None
  <2>1. socket \in SocketType
    BY DEF SocketType
  <2> QED
    BY <2>1, NoneAssumption
<1>2. CASE UNCHANGED <<kernel, fd, asked, accepted>>
  BY <1>2 DEF SocketInv, NoLeak, FamilyAsAsked
<1>3. ASSUME NEW new \in Fds, kernel[new] = None,
             kernel' = [kernel EXCEPT ![new] = socket],
             fd' = new, asked' = flags, accepted' = accepted
      PROVE  SocketInv'
  <2>1. /\ kernel' \in [Fds -> SocketType \cup {None}] /\ kernel'[new] = socket
        /\ \A d \in Fds : d # new => kernel'[d] = kernel[d]
    BY <1>1, <1>3 DEF SocketInv
  <2>2. {d \in Fds : kernel[d] # None} = {}
    BY DEF SocketInv, NoLeak, NothingOpen
  <2>3. new # None
    BY NoneAssumption
  <2> HIDE DEF socket
  <2>4. NoLeak'
    BY <1>1, <1>3, <2>1, <2>2, <2>3 DEF NoLeak, NothingOpen
  <2>5. FamilyAsAsked'
    <3>1. socket.domain = domain /\ socket.options = flags \cap OptionFlags
      BY DEF socket
    <3> QED
      BY <1>3, <2>1, <3>1 DEF FamilyAsAsked
  <2> QED
    BY <1>3, <2>1, <2>4, <2>5 DEF SocketInv, NothingOpen
<1> QED
  BY <1>2, <1>3 DEF OpenSocket

\* What is done to the caller's own socket changes neither family nor options.
LEMMA UseInvariant ==
  ASSUME SocketInv, fd # None, NEW use \in {"none", "connected", "listening"},
         kernel' = [kernel EXCEPT ![fd].use = use], UNCHANGED <<fd, asked, accepted>>
  PROVE  SocketInv'
<1>1. fd \in Fds /\ kernel[fd] # None /\ kernel[fd] \in SocketType
  BY DEF SocketInv, NoLeak
<1> DEFINE socket == [kernel[fd] EXCEPT !.use = use]
<1>2. /\ socket \in SocketType
      /\ socket.domain = kernel[fd].domain /\ socket.options = kernel[fd].options
  BY <1>1 DEF SocketType
<1>3. socket # None
  BY <1>2, NoneAssumption
<1>4. kernel' = [kernel EXCEPT ![fd] = socket]
  OBVIOUS
<1> HIDE DEF socket
<1>5. /\ kernel' \in [Fds -> SocketType \cup {None}] /\ kernel'[fd] = socket
      /\ \A d \in Fds : d # fd => kernel'[d] = kernel[d]
  BY <1>1, <1>2, <1>4 DEF SocketInv
<1>6. NoLeak'
  BY <1>1, <1>3, <1>5 DEF SocketInv, NoLeak
<1>7. FamilyAsAsked'
  BY <1>2, <1>5 DEF SocketInv, FamilyAsAsked
<1> QED
  BY <1>5, <1>6, <1>7 DEF SocketInv

LEMMA AcceptInvariant ==
  ASSUME SocketInv, AcceptConnection, UNCHANGED <<fd, asked>>
  PROVE  SocketInv'
<1>1. fd \in Fds /\ kernel[fd] # None /\ kernel[fd] \in SocketType
  BY DEF SocketInv, NoLeak, AcceptConnection
<1> DEFINE socket == [kernel[fd] EXCEPT !.options = {}, !.use = "connected"]
<1>2. socket \in SocketType /\ socket # None
  <2>1. socket \in SocketType
    BY <1>1 DEF SocketType
  <2> QED
    BY <2>1, NoneAssumption
<1>3. PICK new \in Fds : /\ kernel[new] = None /\ accepted' = new
                         /\ kernel' = [kernel EXCEPT ![new] = socket]
  BY DEF AcceptConnection
<1> HIDE DEF socket
<1>4. /\ kernel' \in [Fds -> SocketType \cup {None}] /\ kernel'[new] = socket
      /\ \A d \in Fds : d # new => kernel'[d] = kernel[d]
      /\ new # fd /\ new # None
  BY <1>1, <1>2, <1>3, NoneAssumption DEF SocketInv
<1>5. NoLeak'
  BY <1>1, <1>2, <1>3, <1>4 DEF SocketInv, NoLeak, AcceptConnection
<1>6. FamilyAsAsked'
  BY <1>1, <1>4 DEF SocketInv, FamilyAsAsked
<1> QED
  BY <1>3, <1>4, <1>5, <1>6 DEF SocketInv

LEMMA ClosingInvariant ==
  ASSUME SocketInv, Close \/ CloseAccepted
  PROVE  SocketInv'
<1>1. CASE Close
  <2>1. /\ fd \in Fds /\ fd' = None /\ accepted' = accepted
        /\ kernel' = [kernel EXCEPT ![fd] = None]
    BY <1>1 DEF Close, SocketInv
  <2>2. /\ kernel' \in [Fds -> SocketType \cup {None}] /\ kernel'[fd] = None
        /\ \A d \in Fds : d # fd => kernel'[d] = kernel[d]
    BY <2>1 DEF SocketInv
  <2>3. NoLeak' /\ FamilyAsAsked'
    BY <2>1, <2>2, NoneAssumption DEF SocketInv, NoLeak, FamilyAsAsked
  <2> QED
    BY <2>1, <2>2, <2>3 DEF SocketInv
<1>2. CASE CloseAccepted
  <2>1. /\ accepted \in Fds /\ accepted' = None /\ UNCHANGED <<fd, asked>>
        /\ kernel' = [kernel EXCEPT ![accepted] = None]
    BY <1>2 DEF CloseAccepted, SocketInv
  <2>2. /\ kernel' \in [Fds -> SocketType \cup {None}] /\ kernel'[accepted] = None
        /\ \A d \in Fds : d # accepted => kernel'[d] = kernel[d]
    BY <2>1 DEF SocketInv
  <2>3. fd # None => fd # accepted
    BY DEF SocketInv, NoLeak
  <2>4. NoLeak' /\ FamilyAsAsked'
    BY <2>1, <2>2, <2>3, NoneAssumption DEF SocketInv, NoLeak, FamilyAsAsked
  <2> QED
    BY <2>1, <2>2, <2>4 DEF SocketInv
<1> QED
  BY <1>1, <1>2

LEMMA SocketNext == SocketInv /\ [Next]_vars => SocketInv'
<1> SUFFICES ASSUME SocketInv, [Next]_vars PROVE SocketInv'
  OBVIOUS
<1>1. CASE UNCHANGED <<kernel, fd, asked, accepted>>
  BY <1>1 DEF SocketInv, NoLeak, FamilyAsAsked
<1>2. ASSUME NEW flags, Open(flags)
      PROVE  SocketInv'
  <2>1. PICK i \in DOMAIN Attempts(flags) : OpenSocket(flags, Attempts(flags)[i])
    BY <1>2 DEF Open
  <2> QED
    BY <1>2, <2>1, AttemptsAllowed, OpenSocketInvariant DEF Open
<1>3. ASSUME NEW flags, NEW family, OpenFamily(flags, family)
      PROVE  SocketInv'
  BY <1>2, <1>3 DEF OpenFamily
<1>4. ASSUME NEW flags, OpenLocal(flags)
      PROVE  SocketInv'
  BY <1>4, OpenSocketInvariant DEF OpenLocal
<1>5. CASE Close \/ CloseAccepted
  BY <1>5, ClosingInvariant
<1>6. CASE Connect \/ Listen
  BY <1>6, UseInvariant DEF Connect, Listen
<1>7. CASE Accept \/ SapAccept
  BY <1>7, AcceptInvariant DEF Accept, SapAccept
<1>8. ASSUME NEW family, Lookup(family)
      PROVE  UNCHANGED <<kernel, fd, asked, accepted>>
  BY <1>8 DEF Lookup, SetAddress
<1>9. CASE Unset \/ Convert \/ CopyAddr \/ SetPort \/ ToMapped \/ FromMapped \/ TakeFromUnion
  BY <1>1, <1>9 DEF Unset, Convert, CopyAddr, SetPort, ToMapped, FromMapped,
                    TakeFromUnion, SetAddress
<1>10. CASE CopyToUnion \/ NewUnion
  BY <1>1, <1>10 DEF CopyToUnion, NewUnion
<1>11. CASE UNCHANGED vars
  BY <1>1, <1>11 DEF vars
<1> QED
  BY <1>1, <1>2, <1>3, <1>4, <1>5, <1>6, <1>7, <1>8, <1>9, <1>10, <1>11 DEF Next

-----------------------------------------------------------------------------
(* The theorems.                                                            *)

SocketsInv == SocketInv /\ AddressInv

\* The inductive invariant holds: the caller's descriptors and its addresses never
\* depend on each other.
THEOREM Invariance == Spec => []SocketsInv
<1>1. Init => SocketInv
  BY NoneAssumption DEF Init, SocketInv, NoLeak, FamilyAsAsked
<1>2. Init => SocketsInv
  BY <1>1, AddressInit DEF SocketsInv
<1>3. SocketsInv /\ [Next]_vars => SocketsInv'
  BY SocketNext, AddressNext DEF SocketsInv
<1> QED
  BY <1>2, <1>3, PTL DEF Spec

\* fd_open() and fd_open_local() close what they do not return, and nothing that
\* the caller does loses a descriptor, with any number of descriptors.
THEOREM NothingLeaks == Spec => []NoLeak
<1>1. SocketsInv => NoLeak
  BY DEF SocketsInv, SocketInv
<1> QED
  BY <1>1, Invariance, PTL

\* A socket is of a family that its flags allow, whatever flags it was opened
\* with and whichever attempt succeeded.
THEOREM FamilyIsAllowed == Spec => []FamilyAsAsked
<1>1. SocketsInv => FamilyAsAsked
  BY DEF SocketsInv, SocketInv
<1> QED
  BY <1>1, Invariance, PTL

\* A reused union is read as the address that was copied last, whatever was in it.
THEOREM UnionReadsBack == Spec => []UnionIsSource
<1>1. SocketsInv => UnionIsSource
  BY DEF SocketsInv, AddressInv
<1> QED
  BY <1>1, Invariance, PTL

LEMMA ComparedAreHosts ==
  ASSUME AddressInv
  PROVE  Compared \subseteq HostAddresses
BY NumericAssumption, UnspecIsOther, UnionHoldsAddress
   DEF AddressInv, Compared, HostAddresses, Addresses

\* sa_less() is a strict total order that agrees with sa_equal(), for every IPv4
\* and IPv6 address, on a host of either byte order.
THEOREM LessIsTotalOrder == Spec => []OrderIsTotal
<1>1. ASSUME SocketsInv PROVE OrderIsTotal
  <2> SUFFICES ASSUME sa_is_inet_inet6(sa), NEW x \in Compared
               PROVE  /\ sa_equal(sa, x) <=> ~sa_less(sa, x) /\ ~sa_less(x, sa)
                      /\ sa_equal_addr(sa, x) <=>
                           ~sa_less_addr(sa, x) /\ ~sa_less_addr(x, sa)
                      /\ ~(sa_less(sa, x) /\ sa_less(x, sa))
                      /\ sa_less_addr(sa, x) => sa_less(sa, x)
                      /\ \A y \in Compared :
                           sa_less(sa, x) /\ sa_less(x, y) => sa_less(sa, y)
    BY DEF OrderIsTotal
  <2>1. sa \in HostAddresses /\ x \in HostAddresses /\ Compared \subseteq HostAddresses
    BY <1>1, ComparedAreHosts, UnspecIsOther DEF SocketsInv, AddressInv
  <2>2. /\ sa_equal(sa, x) <=> ~sa_less(sa, x) /\ ~sa_less(x, sa)
        /\ sa_equal_addr(sa, x) <=> ~sa_less_addr(sa, x) /\ ~sa_less_addr(x, sa)
        /\ ~(sa_less(sa, x) /\ sa_less(x, sa))
        /\ sa_less_addr(sa, x) => sa_less(sa, x)
    BY <2>1, PairIsOrdered
  <2>3. \A y \in Compared : sa_less(sa, x) /\ sa_less(x, y) => sa_less(sa, y)
    BY <2>1, LessIsTransitive
  <2> QED
    BY <2>2, <2>3
<1> QED
  BY <1>1, Invariance, PTL

\* An IPv4 address and its form as a mapped IPv6 address mean the same and are
\* ordered alike, for every address.
THEOREM MappedMeansTheSame == Spec => []MappingKeepsMeaning
<1>1. ASSUME SocketsInv PROVE MappingKeepsMeaning
  <2> DEFINE mapped == sin6_to_v4mapped_in(sa)
  <2>0. sa \in Addresses /\ Compared \subseteq HostAddresses
    BY <1>1, ComparedAreHosts DEF SocketsInv, AddressInv
  <2> SUFFICES ASSUME sa_is_inet(sa)
               PROVE  /\ sa_convert(mapped) = sa
                      /\ sa_is_any(mapped) <=> sa_is_any(sa)
                      /\ sa_is_broadcast(mapped) <=> sa_is_broadcast(sa)
                      /\ sa_is_loopback(mapped) <=> sa_is_loopback(sa)
                      /\ sa_is_link_local(mapped) <=> sa_is_link_local(sa)
                      /\ \A x \in Compared : sa_is_inet(x) =>
                           /\ sa_less(mapped, sin6_to_v4mapped_in(x)) <=> sa_less(sa, x)
                           /\ sa_equal(mapped, sin6_to_v4mapped_in(x)) <=> sa_equal(sa, x)
    BY DEF MappingKeepsMeaning
  <2>1. sa \in InetAddresses
    BY <2>0, UnspecIsOther, Inet6Fields DEF Addresses
  <2>2. sa_convert(mapped) = sa
    BY <2>1, MappedComesBack
  <2>3. /\ sa_is_any(mapped) <=> sa_is_any(sa)
        /\ sa_is_broadcast(mapped) <=> sa_is_broadcast(sa)
        /\ sa_is_loopback(mapped) <=> sa_is_loopback(sa)
        /\ sa_is_link_local(mapped) <=> sa_is_link_local(sa)
    BY <2>1, InetQuestions, MappedQuestions
  <2>4. ASSUME NEW x \in Compared, sa_is_inet(x)
        PROVE  /\ sa_less(mapped, sin6_to_v4mapped_in(x)) <=> sa_less(sa, x)
               /\ sa_equal(mapped, sin6_to_v4mapped_in(x)) <=> sa_equal(sa, x)
    <3>1. x \in InetAddresses
      BY <2>0, <2>4, FamiliesDiffer
    <3> QED
      BY <2>1, <3>1, MappedCompares
  <2> HIDE DEF mapped
  <2> QED
    BY <2>2, <2>3, <2>4
<1> QED
  BY <1>1, Invariance, PTL

\* connect() is given the host and port that the caller asked for, in the family
\* of the socket, and only a plain IPv6 address on an IPv4 socket is refused.
THEOREM ConnectsToTheHost == Spec => []ConnectReachesHost
<1>1. ASSUME SocketsInv PROVE ConnectReachesHost
  <2> DEFINE domain == kernel[fd].domain
             target == ConnectTarget(sa, domain)
  <2> SUFFICES ASSUME fd # None, domain # "local", sa_is_inet_inet6(sa)
               PROVE  IF PlainInet6(sa) /\ domain = "inet"
                        THEN target = Refused
                        ELSE /\ target.family = domain
                             /\ sa_equal(sa_convert(target), sa_convert(sa))
    BY DEF ConnectReachesHost
  <2>1. domain \in {"inet", "inet6"}
    BY <1>1 DEF SocketsInv, SocketInv, NoLeak, SocketType
  <2>2. sa \in HostAddresses
    BY <1>1, UnspecIsOther DEF SocketsInv, AddressInv
  <2> HIDE DEF domain
  <2>3. ASSUME NEW x \in HostAddresses PROVE sa_equal(x, x)
    BY EqualMeans
  <2>4. CASE sa \in InetAddresses /\ domain = "inet6"
    <3>1. target = sin6_to_v4mapped_in(sa) /\ ~PlainInet6(sa)
      BY <2>4, InetFields DEF ConnectTarget, PlainInet6
    <3>2. sa_convert(target) = sa /\ target \in Inet6Addresses
      BY <2>4, <3>1, MappedComesBack
    <3>3. sa_convert(sa) = sa
      BY <2>4, InetFields DEF sa_convert, sa_is_v4mapped
    <3> HIDE DEF target
    <3> QED
      BY <2>2, <2>3, <2>4, <3>1, <3>2, <3>3, Inet6Fields
  <2>5. CASE sa \in Inet6Addresses /\ domain = "inet" /\ sa_is_v4mapped(sa)
    <3>1. target = sin_from_v4mapped_in6(sa) /\ ~PlainInet6(sa)
      BY <2>5, Inet6Fields DEF ConnectTarget, PlainInet6, sa_is_v4mapped
    <3>2. target \in InetAddresses /\ target \in HostAddresses
      BY <2>5, <3>1, UnmappedIsInet DEF HostAddresses
    <3>3. sa_convert(sa) = target
      BY <2>5, <3>1 DEF sa_convert
    <3> HIDE DEF target
    <3>4. sa_convert(target) = target
      BY <3>2, InetFields DEF sa_convert, sa_is_v4mapped
    <3> QED
      BY <2>3, <2>5, <3>1, <3>2, <3>3, <3>4, InetFields
  <2>6. CASE sa \in Inet6Addresses /\ domain = "inet" /\ ~sa_is_v4mapped(sa)
    BY <2>6, Inet6Fields DEF ConnectTarget, PlainInet6, sa_is_v4mapped
  <2>7. CASE sa.family = domain
    <3>1. target = sa
      BY <2>2, <2>7, FamiliesDiffer DEF ConnectTarget
    <3>2. ~(PlainInet6(sa) /\ domain = "inet")
      BY <2>2, <2>7, FamiliesDiffer DEF PlainInet6
    <3>3. sa_convert(sa) \in HostAddresses
      BY <2>2, UnmappedIsInet DEF sa_convert, sa_is_v4mapped, sa_is_inet6, HostAddresses,
                                  InetAddresses
    <3> HIDE DEF target
    <3> QED
      BY <2>3, <2>7, <3>1, <3>2, <3>3
  <2> QED
    BY <2>1, <2>2, <2>4, <2>5, <2>6, <2>7, InetFields, Inet6Fields DEF HostAddresses
<1> QED
  BY <1>1, Invariance, PTL

=============================================================================
