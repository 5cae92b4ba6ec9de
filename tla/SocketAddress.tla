--------------------------- MODULE SocketAddress ---------------------------
(***************************************************************************)
(* The comparisons and conversions of socket_address.cc.                   *)
(*                                                                         *)
(* An address is what lies in memory: port and addr are sequences of bytes *)
(* in network order.  The code reads them into integers of the host before *)
(* it compares them.  An integer is the sequence of its bytes here, the    *)
(* most significant one first; LittleEndian says how a host lays it out.   *)
(* Addresses of other families make these functions throw and are left     *)
(* out.                                                                    *)
(***************************************************************************)
EXTENDS Integers, Sequences, SequencesExt

CONSTANT LittleEndian

ASSUME ByteOrderAssumption == LittleEndian \in BOOLEAN

Unspec == [family |-> "unspec"]
Inet(port, addr) == [family |-> "inet", port |-> port, addr |-> addr]
Inet6(port, addr, scope) ==
  [family |-> "inet6", port |-> port, addr |-> addr, scope |-> scope]

Bytes(n) == [1 .. n -> 0 .. 255]
InetAddresses  == [family : {"inet"}, port : Bytes(2), addr : Bytes(4)]
Inet6Addresses ==
  [family : {"inet6"}, port : Bytes(2), addr : Bytes(16), scope : Nat]
Addresses == {Unspec} \cup InetAddresses \cup Inet6Addresses

sa_is_inet(sa)       == sa.family = "inet"
sa_is_inet6(sa)      == sa.family = "inet6"
sa_is_inet_inet6(sa) == sa_is_inet(sa) \/ sa_is_inet6(sa)

Zeros(n) == [i \in 1 .. n |-> 0]

(* Integers and bytes.                                                     *)

\* The bytes of an integer as they lie in memory, and back.
InHostOrder(v) == IF LittleEndian THEN Reverse(v) ELSE v

\* htonl, ntohl, htons and ntohs.
SwapOrder(v) == IF LittleEndian THEN Reverse(v) ELSE v

\* "<" of two unsigned integers, and memcmp(...) < 0 of two byte arrays.
Below(x, y) ==
  \E i \in DOMAIN x : x[i] < y[i] /\ \A j \in 1 .. i - 1 : x[j] = y[j]

\* The integers that sin_addr.s_addr and sin_port are.
s_addr(sin) == InHostOrder(sin.addr)
HostPort(sa) == SwapOrder(InHostOrder(sa.port))

INADDR_ANY       == <<0, 0, 0, 0>>
INADDR_BROADCAST == <<255, 255, 255, 255>>

\* The index-th of the four integers of an IPv6 address, by arithmetic.
sin6_addr32_index(sin6, index) == SubSeq(sin6.addr, 4 * index + 1, 4 * index + 4)

sin6_make_addr32(v0, v1, v2, v3) ==
  InHostOrder(SwapOrder(v0)) \o InHostOrder(SwapOrder(v1)) \o
  InHostOrder(SwapOrder(v2)) \o InHostOrder(SwapOrder(v3))

(* Predicates.                                                             *)

sin6_is_v4mapped(sin6) ==
  SubSeq(sin6.addr, 1, 12) = Zeros(10) \o <<255, 255>>

sa_is_v4mapped(sa) == sa_is_inet6(sa) /\ sin6_is_v4mapped(sa)
PlainInet6(sa)     == sa_is_inet6(sa) /\ ~sin6_is_v4mapped(sa)

sin_is_any(sin)   == s_addr(sin) = SwapOrder(INADDR_ANY)
sin6_is_any(sin6) == sin6.addr = Zeros(16)

sa_is_any(sa) ==
  \/ sa_is_inet(sa) /\ sin_is_any(sa)
  \/ sa_is_v4mapped(sa) /\ sin6_addr32_index(sa, 3) = SwapOrder(INADDR_ANY)
  \/ PlainInet6(sa) /\ sin6_is_any(sa)
  \/ ~sa_is_inet_inet6(sa)

sin_is_broadcast(sin) == s_addr(sin) = SwapOrder(INADDR_BROADCAST)

sa_is_broadcast(sa) ==
  \/ sa_is_inet(sa) /\ sin_is_broadcast(sa)
  \/ sa_is_v4mapped(sa) /\ sin6_addr32_index(sa, 3) = SwapOrder(INADDR_BROADCAST)

sin_is_loopback(sin) == SwapOrder(s_addr(sin))[1] = 127
sin6_is_loopback(sin6) == sin6.addr = Zeros(15) \o <<1>>

sa_is_loopback(sa) ==
  \/ sa_is_inet(sa) /\ sin_is_loopback(sa)
  \/ sa_is_v4mapped(sa) /\ sa.addr[13] = 127
  \/ PlainInet6(sa) /\ sin6_is_loopback(sa)

sin_is_link_local(sin) == SubSeq(SwapOrder(s_addr(sin)), 1, 2) = <<169, 254>>

\* fe80::/10, and multicast (ff..) of scope 2.
sin6_is_link_local(sin6) ==
  \/ sin6.addr[1] = 254 /\ sin6.addr[2] \in 128 .. 191
  \/ sin6.addr[1] = 255 /\ sin6.addr[2] % 16 = 2

sa_is_link_local(sa) ==
  \/ sa_is_inet(sa) /\ sin_is_link_local(sa)
  \/ sa_is_v4mapped(sa) /\ sa.addr[13] = 169 /\ sa.addr[14] = 254
  \/ PlainInet6(sa) /\ sin6_is_link_local(sa)

(* Conversions; those that throw have a precondition.                      *)

sin_from_v4mapped_in6(sin6) ==
  Inet(sin6.port, InHostOrder(SwapOrder(sin6_addr32_index(sin6, 3))))

sin6_to_v4mapped_in(sin) ==
  Inet6(sin.port,
        sin6_make_addr32(Zeros(4), Zeros(4), <<0, 0, 255, 255>>,
                         SwapOrder(s_addr(sin))),
        0)

\* sa_copy_unmapped() does the same.
sa_convert(sa) ==
  IF sa_is_v4mapped(sa) THEN sin_from_v4mapped_in6(sa) ELSE sa

\* The scope of an IPv6 address is not copied.
sa_copy_addr(sa, port) ==
  CASE sa_is_inet(sa)  -> Inet(InHostOrder(SwapOrder(port)), sa.addr)
    [] sa_is_inet6(sa) -> Inet6(InHostOrder(SwapOrder(port)), sa.addr, 0)
    [] OTHER           -> Unspec

sa_set_port(sa, port) == [sa EXCEPT !.port = InHostOrder(SwapOrder(port))]

(* Comparisons.                                                            *)

sin_equal_addr(l, r)  == s_addr(l) = s_addr(r)
sin6_equal_addr(l, r) == l.addr = r.addr

sa_equal_addr(l, r) ==
  /\ l.family = r.family
  /\ sa_is_inet(l)  => sin_equal_addr(l, r)
  /\ sa_is_inet6(l) => sin6_equal_addr(l, r)

\* Scopes are not compared.
sa_equal(l, r) ==
  /\ l.family = r.family
  /\ sa_is_inet(l)  => l.port = r.port /\ sin_equal_addr(l, r)
  /\ sa_is_inet6(l) => l.port = r.port /\ sin6_equal_addr(l, r)

\* Mutant: compares s_addr without ntohl().
LessUnswapped(l, r) ==
  IF l.family # r.family
    THEN sa_is_inet(l)
    ELSE \/ sa_is_inet(l)  /\ Below(s_addr(l), s_addr(r))
         \/ sa_is_inet6(l) /\ Below(l.addr, r.addr)

\* Both are "inet" or "inet6", or these two throw.
sa_less_addr(l, r) ==
  IF l.family # r.family
    THEN sa_is_inet(l)
    ELSE \/ sa_is_inet(l)  /\ Below(SwapOrder(s_addr(l)), SwapOrder(s_addr(r)))
         \/ sa_is_inet6(l) /\ Below(l.addr, r.addr)

\* Mutant: the port counts even if the addresses differ.
LessByEither(l, r) ==
  IF l.family # r.family
    THEN sa_is_inet(l)
    ELSE sa_less_addr(l, r) \/ Below(HostPort(l), HostPort(r))

sa_less(l, r) ==
  IF l.family # r.family
    THEN sa_is_inet(l)
    ELSE IF sa_equal_addr(l, r)
           THEN Below(HostPort(l), HostPort(r))
           ELSE sa_less_addr(l, r)

(* sa_inet_union: a sockaddr_in and a sockaddr_in6 in the same memory.     *)

\* family and port lie at the same place; low is sin_addr or sin6_flowinfo,
\* mid is sin_zero or the first half of sin6_addr.
EmptyUnion ==
  [family |-> "unspec", port |-> Zeros(2), low |-> Zeros(4), mid |-> Zeros(8),
   high |-> Zeros(8), scope |-> 0]

\* Mutant: copies sizeof(sockaddr_in) bytes, always.
CopyShort(sa, u) ==
  CASE sa_is_inet(sa) ->
         [u EXCEPT !.family = "inet", !.port = sa.port, !.low = sa.addr,
                   !.mid = Zeros(8)]
    [] sa_is_inet6(sa) ->
         [u EXCEPT !.family = "inet6", !.port = sa.port, !.low = Zeros(4),
                   !.mid = SubSeq(sa.addr, 1, 8)]
    [] OTHER -> [u EXCEPT !.family = "unspec"]

\* An address of this family overwrites as much as it is long itself.
sa_copy_to_inet_union(sa, u) ==
  CASE sa_is_inet(sa) ->
         [u EXCEPT !.family = "inet", !.port = sa.port, !.low = sa.addr,
                   !.mid = Zeros(8)]
    [] sa_is_inet6(sa) ->
         [family |-> "inet6", port |-> sa.port, low |-> Zeros(4),
          mid |-> SubSeq(sa.addr, 1, 8), high |-> SubSeq(sa.addr, 9, 16),
          scope |-> sa.scope]
    [] OTHER -> [u EXCEPT !.family = "unspec"]

\* What a function that is given a pointer to the union takes it for.
InUnion(u) ==
  CASE u.family = "inet"  -> Inet(u.port, u.low)
    [] u.family = "inet6" -> Inet6(u.port, u.mid \o u.high, u.scope)
    [] OTHER              -> Unspec
=============================================================================
