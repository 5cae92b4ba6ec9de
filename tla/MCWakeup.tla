------------------------------ MODULE MCWakeup ------------------------------
(* Two processes that write four messages each: enough for three wakeups     *)
(* to be under way to one process while its peer writes the next message.    *)
EXTENDS Wakeup
=============================================================================
