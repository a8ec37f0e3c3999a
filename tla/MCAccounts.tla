----------------------------- MODULE MCAccounts -----------------------------
(* Instances of Accounts for TLC. *)
EXTENDS Accounts, TLC

\* Names, addresses, passwords and requests of one kind are interchangeable.
Interchangeable ==
  Permutations(Name) \cup Permutations(Email) \cup Permutations(Registrant)
    \cup Permutations(Updater) \cup Permutations(Password)
=============================================================================
