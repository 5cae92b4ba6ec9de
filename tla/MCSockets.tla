----------------------------- MODULE MCSockets -----------------------------
(* Addresses of every kind that the predicates tell apart, two of which are  *)
(* each other's bytes in reverse, and two descriptors, so that one could be  *)
(* left open.                                                                *)
EXTENDS Sockets, TLC

MCFlagSets ==
  {{"stream", "nonblock"}, {"datagram", "v4only", "reuse_address"},
   {"stream", "v6only", "nonblock", "reuse_address"}, {"datagram", "v6"},
   {"stream", "datagram"}, {"stream", "v4only", "v6only"}}

V4 == {<<0, 0, 0, 0>>, <<127, 0, 0, 1>>, <<1, 0, 0, 127>>,
       <<169, 254, 0, 1>>, <<255, 255, 255, 255>>}

MCNumeric ==
  {Inet(<<0, 0>>, a) : a \in V4} \cup
  {Inet6(<<0, 0>>, Zeros(16), 0),
   Inet6(<<0, 0>>, Zeros(15) \o <<1>>, 0),
   Inet6(<<0, 0>>, <<254, 128>> \o Zeros(13) \o <<1>>, 2),
   Inet6(<<0, 0>>, Zeros(10) \o <<255, 255, 127, 0, 0, 1>>, 0)}

MCPorts == {<<1, 0>>}

Symmetry == Permutations(Fds)
=============================================================================
