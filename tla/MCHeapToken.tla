---------------------------- MODULE MCHeapToken ----------------------------
(* Instances of HeapToken for TLC.                                         *)
EXTENDS HeapToken

CONSTANTS zero, alice, bob

Everybody == {zero, alice, bob}
Holders == {alice, bob}
=============================================================================
