-------------------------- MODULE MCBankConnection --------------------------
EXTENDS BankConnection, TLC
CONSTANTS a1, a2, a3, c1, c2, d1
Alike == Permutations(Authorizations) \union Permutations(Callbacks)
=============================================================================
