-------------------------- MODULE MCSignedCookies --------------------------
\* Two pages, two requests at a time, a session that outlives an admission.
EXTENDS SignedCookies, TLC

Symmetry == Permutations(Request) \cup Permutations(Pin) \cup Permutations(Password) \cup Permutations(Secret) \cup Permutations(Page)
=============================================================================
