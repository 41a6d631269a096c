---------------------------- MODULE MCIntraledger ----------------------------
(* Intraledger on small instances. *)
EXTENDS Intraledger, TLC

\* Requests are interchangeable.
Requests == Permutations(Sender)
==============================================================================
