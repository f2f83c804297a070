----------------------------- MODULE MCAccounts -----------------------------
(* The instance of Accounts that shows a reset token used twice.  Addresses,  *)
(* tokens, passwords and calls are interchangeable but for their names.       *)
EXTENDS Accounts, TLC

Symmetry == Permutations(Email) \union Permutations(Token)
            \union Permutations(Call) \union Permutations(Password)
=============================================================================
