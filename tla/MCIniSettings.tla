---------------------------- MODULE MCIniSettings ----------------------------
(* Instances of IniSettings for TLC. *)
EXTENDS IniSettings, TLC

Call(k, v) == [kind |-> "set", key |-> k, value |-> v]

\* A bundle goes through the keys in a fixed order.
TwoKeys == {"url", "api_key"}
TwoKeyBundles ==
    {<<Call("url", p[1]), Call("api_key", p[2])>> : p \in Values \X Values}

OneProcess == [c \in Callers |-> CHOOSE p \in Procs : TRUE]

CallerSymmetry == Permutations(Callers) \cup Permutations(Names)

=============================================================================
