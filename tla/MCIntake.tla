------------------------------ MODULE MCIntake ------------------------------
\* Intake on a small instance: requests and submission ids are interchangeable,
\* row ids are not.
EXTENDS Intake, TLC

Interchangeable == Permutations(Requests) \cup Permutations(Submissions)
=============================================================================
