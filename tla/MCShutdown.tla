----------------------------- MODULE MCShutdown -----------------------------
(* Two processes that write up to two messages each, so that one may be      *)
(* published before and one after the shutdown message.                      *)
EXTENDS Shutdown

MCNobody == {}
MCBoth == {Parent, Child}
=============================================================================
