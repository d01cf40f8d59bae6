---------------------------- MODULE MCDiscovery ----------------------------
(* Instances of Discovery for TLC. *)
EXTENDS Discovery, TLC

DiscoverySymmetry ==
    Permutations(Software) \cup Permutations(Versions)
        \cup Permutations(Scans) \cup Permutations(Rows)

=============================================================================
