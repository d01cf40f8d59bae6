----------------------------- MODULE MCAccounts -----------------------------
(* An instance of Accounts for TLC. *)
EXTENDS Accounts, TLC

AccountSymmetry == Permutations(Tasks) \cup Permutations(Secrets)

=============================================================================
