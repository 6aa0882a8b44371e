--------------------------- MODULE MCRegistration ---------------------------
EXTENDS IrcServer, TLC
Symmetry == Permutations(Addrs) \cup Permutations(Nicks)
=============================================================================
