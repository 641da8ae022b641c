---------------------------- MODULE MCDeflater ----------------------------
(* A message of one connection, a broadcast and a file on another, and the *)
(* reads of both.                                                          *)
EXTENDS Deflater

MCCalls == {[kind |-> "message", conn |-> "c1"], [kind |-> "read", conn |-> "c1"]}
             \cup {[kind |-> k, conn |-> "c2"] : k \in {"broadcast", "file", "read"}}
=============================================================================
