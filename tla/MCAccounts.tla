----------------------------- MODULE MCAccounts -----------------------------
(* An instance of Accounts for TLC: single invitations and imports of two    *)
(* rows, with rows that fail on their own and a row that ends the import.    *)
EXTENDS Accounts, TLC

CONSTANTS a, b

MCEmails == {a, b}
MCImports == {<<a>>, <<a, b>>, <<Missing, b>>, <<a, Invalid, b>>}

Symmetry == Permutations(Sessions)
=============================================================================
