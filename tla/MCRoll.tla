------------------------------- MODULE MCRoll -------------------------------
(* Small instances of Roll for TLC.                                        *)
EXTENDS Roll, TLC

\* Application threads are interchangeable, and so are batches not reserved.
Symmetric == Permutations(Threads) \cup Permutations(Batches)

=============================================================================
