---------------------------- MODULE MCPlayground ----------------------------
(* Instances of Playground for TLC.                                        *)
EXTENDS Playground

\* A stream of two different deltas.
TwoDeltas == <<"a", "b">>

\* Conversations are told apart by nothing but their names.
Symmetry == Permutations(Ids)
=============================================================================
