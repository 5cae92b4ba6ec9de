------------------------------- MODULE Sockets -------------------------------
(***************************************************************************)
(* A caller of fd.cc and socket_address.cc: it holds the descriptor of a   *)
(* socket, that of a connection which this socket has accepted, and two    *)
(* addresses, one on the heap (a sa_unique_ptr) and one in a sa_inet_union *)
(* that it fills again and again.  Any system call fails.                  *)
(***************************************************************************)
EXTENDS SocketAddress, FiniteSets

CONSTANTS
  FlagSets,  \* the combinations of flags that the caller opens with
  Numeric,   \* the addresses that the caller looks up
  Ports,     \* the ports that it sets, as integers of the host
  Fds,       \* the numbers the kernel gives to descriptors
  None       \* no descriptor (-1), no socket

ASSUME NumericAssumption == Numeric \subseteq InetAddresses \cup Inet6Addresses
ASSUME PortsAssumption   == Ports \subseteq Bytes(2)

VARIABLES
  kernel,    \* the kernel's descriptors: the socket of each, or None
  fd,        \* the caller's descriptor, or None
  asked,     \* the flags fd was opened with (for the properties)
  accepted,  \* the descriptor of the connection, or None
  sa,        \* the address on the heap
  su,        \* the memory of the union
  source     \* what was copied to the union last (for the properties)

vars == <<kernel, fd, asked, accepted, sa, su, source>>

(* Opening.                                                                *)

\* The caller has no socket; bound: nor has it a connection.
NothingOpen == fd = None /\ accepted = None

Families == {"v4only", "v6only", "v6"}      \* fd_flag_v4 is fd_flag_v4only
Flags == {"stream", "datagram", "nonblock", "reuse_address"} \cup Families

fd_valid_flags(flags) ==
  /\ "stream" \in flags <=> "datagram" \notin flags
  /\ ~({"v4only", "v6only"} \subseteq flags)
  /\ ~({"v4only", "v6"} \subseteq flags)

\* Mutant: forgets that v6only excludes IPv4, too.
AttemptsV6(flags) ==
  (IF "v4only" \in flags THEN <<>> ELSE <<"inet6">>) \o
  (IF "v6" \in flags THEN <<>> ELSE <<"inet">>)

\* The families that fd_open() tries, in this order.
Attempts(flags) ==
  (IF "v4only" \in flags THEN <<>> ELSE <<"inet6">>) \o
  (IF flags \cap {"v6", "v6only"} # {} THEN <<>> ELSE <<"inet">>)

\* The options set after it, each by a system call.
OptionFlags == {"v6only", "nonblock", "reuse_address"}

\* A socket of the kernel.
SocketType ==
  [domain : {"inet", "inet6", "local"}, type : {"stream", "datagram"},
   options : SUBSET OptionFlags, use : {"none", "connected", "listening"}]

ASSUME NoneAssumption == None \notin Fds /\ None \notin SocketType

\* Mutant: returns -1 without closing the socket.
OpenLeaking(flags, domain) ==
  \E new \in {d \in Fds : kernel[d] = None}, refused \in SUBSET OptionFlags :
    /\ kernel' = [kernel EXCEPT ![new] =
                    [domain |-> domain, type |-> "stream",
                     options |-> flags \cap OptionFlags, use |-> "none"]]
    /\ IF flags \cap refused # {}
         THEN UNCHANGED <<fd, asked>>
         ELSE fd' = new /\ asked' = flags
    /\ UNCHANGED <<accepted, sa, su, source>>

\* A descriptor is in the kernel's table from socket() on.  When an option
\* cannot be set, fd_open() closes it and returns -1.
OpenSocket(flags, domain) ==
  \E new \in {d \in Fds : kernel[d] = None}, refused \in SUBSET OptionFlags :
    /\ UNCHANGED <<accepted, sa, su, source>>
    /\ IF flags \cap refused # {}
         THEN UNCHANGED <<kernel, fd, asked>>
         ELSE /\ kernel' = [kernel EXCEPT ![new] =
                              [domain |-> domain,
                               type |-> IF "stream" \in flags
                                          THEN "stream" ELSE "datagram",
                               options |-> flags \cap OptionFlags,
                               use |-> "none"]]
              /\ fd' = new
              /\ asked' = flags

\* An invalid combination throws.  An attempt that fails is followed by the
\* next one.
Open(flags) ==
  /\ NothingOpen
  /\ fd_valid_flags(flags)
  /\ \E i \in DOMAIN Attempts(flags) : OpenSocket(flags, Attempts(flags)[i])

OpenFamily(flags, family) ==
  Open(flags \cup {IF family = "inet" THEN "v4only" ELSE "v6"})

OpenLocal(flags) ==
  /\ NothingOpen
  /\ flags \subseteq {"stream", "nonblock", "reuse_address"}
  /\ "stream" \in flags
  /\ OpenSocket(flags, "local")

\* fd_close_and_clear()
Close ==
  /\ fd # None
  /\ kernel' = [kernel EXCEPT ![fd] = None]
  /\ fd' = None /\ asked' = {}
  /\ UNCHANGED <<accepted, sa, su, source>>

(* Connecting.                                                             *)

Refused == [family |-> "refused"]

\* Mutant: an IPv4 socket is given mapped addresses as they are.
TargetAsItIs(to, family) ==
  CASE sa_is_inet(to) /\ family = "inet6" -> sin6_to_v4mapped_in(to)
    [] sa_is_inet6(to) /\ family = "inet" ->
         IF sa_is_v4mapped(to) THEN to ELSE Refused
    [] sa_is_inet_inet6(to) /\ family = to.family -> to
    [] OTHER -> Refused

\* The address that fd_connect_with_family() gives to connect().
ConnectTarget(to, family) ==
  CASE sa_is_inet(to) /\ family = "inet6" -> sin6_to_v4mapped_in(to)
    [] sa_is_inet6(to) /\ family = "inet" ->
         IF sa_is_v4mapped(to) THEN sin_from_v4mapped_in6(to) ELSE Refused
    [] sa_is_inet_inet6(to) /\ family = to.family -> to
    [] OTHER -> Refused

\* Also when connect() answers EINPROGRESS.
Connect ==
  /\ fd # None /\ kernel[fd].domain # "local" /\ kernel[fd].use = "none"
  /\ ConnectTarget(sa, kernel[fd].domain) # Refused
  /\ kernel' = [kernel EXCEPT ![fd].use = "connected"]
  /\ UNCHANGED <<fd, asked, accepted, sa, su, source>>

(* Accepting.                                                              *)

Listen ==
  /\ fd # None /\ kernel[fd].type = "stream" /\ kernel[fd].use = "none"
  /\ kernel' = [kernel EXCEPT ![fd].use = "listening"]
  /\ UNCHANGED <<fd, asked, accepted, sa, su, source>>

\* The connection is a socket of the listener's family, in a descriptor of its own.
AcceptConnection ==
  /\ fd # None /\ kernel[fd].use = "listening" /\ accepted = None
  /\ \E new \in {d \in Fds : kernel[d] = None} :
       /\ kernel' = [kernel EXCEPT ![new] =
            [kernel[fd] EXCEPT !.options = {}, !.use = "connected"]]
       /\ accepted' = new

Accept == AcceptConnection /\ UNCHANGED <<fd, asked, sa, su, source>>

\* The address of the peer is copied by sa_copy(), which knows no local ones: on
\* a local socket it throws, and the connection is lost.  The caller listens on
\* the network.
SapAccept ==
  /\ AcceptConnection
  /\ kernel[fd].domain # "local"
  /\ \E peer \in Numeric :
       /\ peer.family = kernel[fd].domain
       /\ sa_is_v4mapped(peer) => "v6only" \notin kernel[fd].options
       /\ sa' = peer
  /\ UNCHANGED <<fd, asked, su, source>>

CloseAccepted ==
  /\ accepted # None
  /\ kernel' = [kernel EXCEPT ![accepted] = None]
  /\ accepted' = None
  /\ UNCHANGED <<fd, asked, sa, su, source>>

(* Addresses.                                                              *)

SetAddress(new) ==
  sa' = new /\ UNCHANGED <<kernel, fd, asked, accepted, su, source>>

\* sa_lookup_numeric(): another family than the one asked for gives nullptr,
\* and the caller keeps what it has.
Lookup(family) ==
  \E found \in Numeric :
    /\ family \in {"unspec", found.family}
    /\ SetAddress(found)

Unset     == SetAddress(Unspec)
Convert   == SetAddress(sa_convert(sa))
CopyAddr  == \E port \in Ports : SetAddress(sa_copy_addr(sa, port))
SetPort   == sa_is_inet_inet6(sa) /\ \E port \in Ports : SetAddress(sa_set_port(sa, port))
ToMapped  == sa_is_inet(sa) /\ SetAddress(sin6_to_v4mapped_in(sa))
FromMapped == sa_is_v4mapped(sa) /\ SetAddress(sin_from_v4mapped_in6(sa))

\* sa_copy() of what is in the union.
TakeFromUnion == SetAddress(InUnion(su))

CopyToUnion ==
  /\ su' = sa_copy_to_inet_union(sa, su)
  /\ source' = sa
  /\ UNCHANGED <<kernel, fd, asked, accepted, sa>>

\* sa_inet_union_from_sa(): a new union; throws for no family.
NewUnion ==
  /\ sa_is_inet_inet6(sa)
  /\ su' = sa_copy_to_inet_union(sa, EmptyUnion)
  /\ source' = sa
  /\ UNCHANGED <<kernel, fd, asked, accepted, sa>>

Init ==
  /\ kernel = [d \in Fds |-> None]
  /\ fd = None /\ asked = {} /\ accepted = None
  /\ sa = Unspec /\ su = EmptyUnion /\ source = Unspec

Next ==
  \/ \E flags \in FlagSets : Open(flags)
  \/ \E flags \in FlagSets, family \in {"inet", "inet6"} : OpenFamily(flags, family)
  \/ \E flags \in FlagSets : OpenLocal(flags)
  \/ Close
  \/ Connect
  \/ Listen \/ Accept \/ SapAccept \/ CloseAccepted
  \/ \E family \in {"unspec", "inet", "inet6"} : Lookup(family)
  \/ Unset \/ Convert \/ CopyAddr \/ SetPort \/ ToMapped \/ FromMapped
  \/ TakeFromUnion \/ CopyToUnion \/ NewUnion

Spec == Init /\ [][Next]_vars

-----------------------------------------------------------------------------
(* Properties.                                                             *)

\* The clean-up of fd_open() and fd_open_local(): whichever call failed, the
\* kernel has no descriptor open but those that the caller was given, and these
\* are two.
NoLeak ==
  /\ {d \in Fds : kernel[d] # None} = {fd, accepted} \ {None}
  /\ fd # None => fd # accepted

\* The fall-back from IPv6 to IPv4 respects the flags, and IPV6_V6ONLY is set
\* on IPv6 sockets alone.
FamilyAsAsked ==
  fd # None /\ kernel[fd].domain # "local" =>
    /\ "v4only" \in asked => kernel[fd].domain = "inet"
    /\ {"v6", "v6only"} \cap asked # {} => kernel[fd].domain = "inet6"
    /\ "v6only" \in kernel[fd].options => kernel[fd].domain = "inet6"

\* Every address that the code can compare with sa by "<".
Compared == {x \in {sa, InUnion(su)} \cup Numeric : sa_is_inet_inet6(x)}

\* sa_less() is a strict total order for which "neither less" is sa_equal(),
\* and sa_less_addr() is a weak order for which it is sa_equal_addr(); a
\* sorted container needs both, over two families and both byte orders.
OrderIsTotal ==
  sa_is_inet_inet6(sa) => \A x \in Compared :
    /\ sa_equal(sa, x) <=> ~sa_less(sa, x) /\ ~sa_less(x, sa)
    /\ sa_equal_addr(sa, x) <=> ~sa_less_addr(sa, x) /\ ~sa_less_addr(x, sa)
    /\ ~(sa_less(sa, x) /\ sa_less(x, sa))
    /\ sa_less_addr(sa, x) => sa_less(sa, x)
    /\ \A y \in Compared : sa_less(sa, x) /\ sa_less(x, y) => sa_less(sa, y)

\* An IPv4 address keeps its meaning as an IPv6 address ::ffff:a.b.c.d: it
\* comes back as it was, answers every question alike, and is in the same
\* order with others.
MappingKeepsMeaning ==
  sa_is_inet(sa) =>
    LET mapped == sin6_to_v4mapped_in(sa)
    IN  /\ sa_convert(mapped) = sa
        /\ sa_is_any(mapped)        <=> sa_is_any(sa)
        /\ sa_is_broadcast(mapped)  <=> sa_is_broadcast(sa)
        /\ sa_is_loopback(mapped)   <=> sa_is_loopback(sa)
        /\ sa_is_link_local(mapped) <=> sa_is_link_local(sa)
        /\ \A x \in Compared :
             sa_is_inet(x) =>
               /\ sa_less(mapped, sin6_to_v4mapped_in(x)) <=> sa_less(sa, x)
               /\ sa_equal(mapped, sin6_to_v4mapped_in(x)) <=> sa_equal(sa, x)

\* Whatever a union held before, it is read as the address that was copied to
\* it last.
UnionIsSource == InUnion(su) = source

\* fd_connect_with_family() gives connect() an address of the socket's own
\* family that is the same host and port, and refuses only an IPv6 host on an
\* IPv4 socket.
ConnectReachesHost ==
  fd # None /\ kernel[fd].domain # "local" /\ sa_is_inet_inet6(sa) =>
    LET target == ConnectTarget(sa, kernel[fd].domain)
    IN  IF PlainInet6(sa) /\ kernel[fd].domain = "inet"
          THEN target = Refused
          ELSE /\ target.family = kernel[fd].domain
               /\ sa_equal(sa_convert(target), sa_convert(sa))
=============================================================================
