---------------------------- MODULE MC_MvpLink ----------------------------
(* Instances of MvpLink for TLC.                                           *)
EXTENDS MvpLink, TLC

CONSTANTS bridge, probe, c1, c2, c3

TwoClients == {bridge, probe}
OneClient  == {bridge}
TwoConns   == {c1, c2}
ThreeConns == {c1, c2, c3}

Symmetry == Permutations(TwoClients) \cup Permutations(ThreeConns)
=============================================================================
