--------------------------- MODULE MCUploadBody ---------------------------
\* Limits of one to three units around the global limit of two, an allowance
\* of four for framing and fields, one unit that encryption may add.
EXTENDS UploadBody
=============================================================================
