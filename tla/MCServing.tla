---- MODULE MCServing ----
(* Serving for TLC: keys are interchangeable, and so are clients.           *)
EXTENDS Serving, TLC

Symmetric == Permutations(Keys) \cup Permutations(Clients)
====
