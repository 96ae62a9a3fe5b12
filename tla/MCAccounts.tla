----------------------------- MODULE MCAccounts -----------------------------
EXTENDS Accounts
AccSymmetry == Permutations(AccReqs) \cup Permutations(Admins)
=============================================================================
