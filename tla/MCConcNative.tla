---------------------------- MODULE MCConcNative ----------------------------
(* An instance of ConcNative small enough for TLC. *)
EXTENDS ConcNative, TLC

CONSTANTS main, a, b, c1

\* One channel of size 1: senders and receivers both have to wait.
OneBounded == (c1 :> 1)
=============================================================================
