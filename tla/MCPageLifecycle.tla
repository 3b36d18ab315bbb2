--------------------------- MODULE MCPageLifecycle ---------------------------
\* PageLifecycle on a small instance.  Liveness is checked, so nothing is taken
\* for interchangeable.
EXTENDS PageLifecycle
=============================================================================
