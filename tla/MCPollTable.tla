---------------------------- MODULE MCPollTable ----------------------------
(* Two events on two descriptors, two PollEvents more than there are events, *)
(* so that closed ones may be kept while their events are opened again, and  *)
(* a list that two changes fill.                                              *)
EXTENDS PollTable, TLC

Symmetry == Permutations(Events) \cup Permutations(Fds)
            \cup Permutations(PollEvents)
=============================================================================
