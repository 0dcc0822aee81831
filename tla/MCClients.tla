------------------------------ MODULE MCClients ------------------------------
(***************************************************************************)
(* Instances of Clients for TLC.                                           *)
(***************************************************************************)
EXTENDS Clients, TLC

(* Nothing orders or names a call, a key, a body or a client.              *)
Interchangeable ==
  Permutations(Calls) \cup Permutations(Keys) \cup Permutations(Bodies) \cup Permutations(Clients)
=============================================================================
