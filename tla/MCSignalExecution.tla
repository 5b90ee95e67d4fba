-------------------------- MODULE MCSignalExecution --------------------------
(* SignalExecution with one handler in each of two replicas, one handler,  *)
(* or two handlers in one replica.                                         *)
EXTENDS SignalExecution, TLC

CONSTANTS r1, r2, h1, h2, open, close

MCHome == (h1 :> r1) @@ (h2 :> r2)
MCHomeOne == h1 :> r1
MCHomeShared == (h1 :> r1) @@ (h2 :> r1)

MCTwice == open :> 2
MCTwiceThenClose == (open :> 2) @@ (close :> 1)
MCOpenAndClose == (open :> 1) @@ (close :> 1)

\* The replicas, each with its handler, are interchangeable.
MCSymmetry ==
  {f \in Permutations({r1, r2, h1, h2}) : f[h1] \in {h1, h2} /\ f[h2] \in {h1, h2}
                                          /\ (f[h1] = h1 <=> f[r1] = r1)}
=============================================================================
