---------------------------- MODULE MCRateLimiter ----------------------------
\* ClientLimits on a small instance; clients and pages are interchangeable.
EXTENDS ClientLimits, TLC

MCKeys == Parties

Interchangeable == Permutations(Clients) \cup Permutations(Slugs)
=============================================================================
