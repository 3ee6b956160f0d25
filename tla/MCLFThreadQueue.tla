-------------------------- MODULE MCLFThreadQueue --------------------------
(* Model-checking instances of LFThreadQueue. *)
EXTENDS LFThreadQueue, TLC

\* Threads are interchangeable, and so are the nodes but for the sentinel.
QueueSymmetry == Permutations(Threads) \cup Permutations(Nodes \ {Sentinel})
=============================================================================
