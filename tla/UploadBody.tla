----------------------------- MODULE UploadBody -----------------------------
(***************************************************************************)
(* One upload request of internal/http/server.go, from the first byte of   *)
(* its body to the size that is recorded: handleUpload, nextUploadParts    *)
(* and countingLimitReader, under the ceiling of http.MaxBytesReader.  The *)
(* client sends parts of any size in any order and may go away; the store  *)
(* reads the file in pieces of any size.                                   *)
(*                                                                         *)
(* Sizes are counted in units.  The framing of a part is one unit, read    *)
(* before its content, and so is the boundary that ends a file.            *)
(***************************************************************************)
EXTENDS Integers, FiniteSets

CONSTANTS GlobalLimit,     \* MAX_FILE_SIZE
          PageLimits,      \* limits of their own that pages may have
          NoLimit,         \* a page without one
          Allowance,       \* uploadOverheadAllowance
          CipherOverhead,  \* e2e.CiphertextOverheadAllowance
          MaxFields,       \* maxFields of nextUploadParts
          MaxFieldBytes,   \* maxFieldBytes of readSmallMultipartField
          Ext,             \* file extensions
          FieldName,       \* names of form fields
          Sizes            \* sizes of the parts a client sends

ASSUME SizesAreNumbers ==
    /\ GlobalLimit \in Nat /\ PageLimits \subseteq Nat /\ NoLimit \notin Nat
    /\ Allowance \in Nat /\ CipherOverhead \in Nat /\ MaxFieldBytes \in Nat
    /\ Sizes \subseteq Nat

VARIABLES page,       \* the page as publicPage read it
          globalExt,  \* ALLOWED_EXTENSIONS
          at,         \* where the handler is, or what it answered
          taken,      \* units of the body read from the connection
          fields,     \* the form fields kept, name to value
          file,       \* the file that the client sends
          reader,     \* the countingLimitReader
          stored      \* units that reached the object store

bodyVars == <<page, globalExt, at, taken, fields, file, reader, stored>>
request == <<page, globalExt>>

PageSettings == [limit : PageLimits \cup {NoLimit}, ext : SUBSET Ext, e2e : BOOLEAN]
Value == {"valid", "invalid"}
File == [named : BOOLEAN, ext : Ext, size : Sizes]
NoFile == [named |-> FALSE, ext |-> CHOOSE e \in Ext : TRUE, size |-> 0]

Refusals == {"too_many_fields", "missing_file", "missing_filename", "invalid_submission_id",
             "invalid_envelope", "extension_not_allowed", "file_too_large",
             "request_too_large", "internal_error"}
Stages == {"parts", "file", "record"}

BodyInit ==
    /\ page \in PageSettings /\ globalExt \in SUBSET Ext
    /\ at = "parts" /\ taken = 0 /\ stored = 0
    /\ fields = [n \in {} |-> "valid"]
    /\ file = NoFile
    /\ reader = [remaining |-> 0, count |-> 0]

-----------------------------------------------------------------------------
\* effectiveMaxFileSize.  A page may be older than the global limit.
EffectiveLimit ==
    IF page.limit # NoLimit /\ page.limit < GlobalLimit THEN page.limit ELSE GlobalLimit

Overhead == IF page.e2e THEN CipherOverhead ELSE 0

FileLimit == EffectiveLimit + Overhead

\* Mutant: the ceiling forgets what encryption adds to a file.
BodyLimitMutated == EffectiveLimit + Allowance

BodyLimit == EffectiveLimit + Allowance + Overhead

\* http.MaxBytesReader lets n more units through.
Passes(n) == taken + n <= BodyLimit

Take(n) == Passes(n) /\ taken' = taken + n

\* effectiveAllowedExt and extensionContains
Permits(ext) ==
    /\ page.ext # {} => ext \in page.ext
    /\ globalExt # {} => ext \in globalExt

Has(name) == name \in DOMAIN fields /\ fields[name] = "valid"

\* The checks of handleUpload between the fields and the file, in their order.
Verdict(f) ==
    CASE ~f.named -> "missing_filename"
      [] "submission_id" \in DOMAIN fields /\ ~Has("submission_id") -> "invalid_submission_id"
      [] page.e2e /\ ~Has("e2e_envelope") -> "invalid_envelope"
      [] ~page.e2e /\ ~Permits(f.ext) -> "extension_not_allowed"
      [] OTHER -> "file"

Reply(a) == at' = a /\ UNCHANGED <<request, fields, file, reader, stored>>

-----------------------------------------------------------------------------
(* nextUploadParts: part after part until the one named "file".            *)

\* A part with a file name under another field, or without a field, is drained.
SkipPart(size) ==
    /\ at = "parts"
    /\ Take(1 + size)
    /\ UNCHANGED <<request, at, fields, file, reader, stored>>

ReadField(name, value, size) ==
    /\ at = "parts"
    /\ Cardinality(DOMAIN fields) < MaxFields
    /\ size <= MaxFieldBytes
    /\ Take(1 + size)
    /\ fields' = [n \in DOMAIN fields \cup {name} |-> IF n = name THEN value ELSE fields[n]]
    /\ UNCHANGED <<request, at, file, reader, stored>>

TooManyFields ==
    /\ at = "parts"
    /\ Cardinality(DOMAIN fields) >= MaxFields
    /\ Take(1)
    /\ Reply("too_many_fields")

\* The error of a field that is too large reads as that of a missing file.
FieldTooLarge ==
    /\ at = "parts"
    /\ Cardinality(DOMAIN fields) < MaxFields
    /\ Take(1 + MaxFieldBytes + 1)
    /\ Reply("missing_file")

\* The body ends or breaks off without a file.
BodyEnds == at = "parts" /\ UNCHANGED taken /\ Reply("missing_file")

CeilingInParts(size) ==
    /\ at = "parts" /\ ~Passes(1 + size)
    /\ taken' = BodyLimit
    /\ Reply("request_too_large")

BeginFile(f) ==
    /\ at = "parts"
    /\ Take(1)
    /\ file' = f
    /\ at' = Verdict(f)
    /\ reader' = [remaining |-> FileLimit, count |-> 0]
    /\ UNCHANGED <<request, fields, stored>>

-----------------------------------------------------------------------------
(* The store reads the file through countingLimitReader.                   *)
Rest == file.size - stored

AfterRead(n) == [remaining |-> reader.remaining - n, count |-> reader.count + n]

ReadFile(n) ==
    /\ at = "file"
    /\ n <= reader.remaining /\ n <= Rest
    /\ Take(n)
    /\ reader' = AfterRead(n)
    /\ stored' = stored + n
    /\ UNCHANGED <<request, at, fields, file>>

\* The last data and the end come from one Read.
ReadLast(n) ==
    /\ at = "file"
    /\ n <= reader.remaining /\ n = Rest
    /\ Take(n + 1)
    /\ reader' = AfterRead(n)
    /\ stored' = stored + n
    /\ at' = "record"
    /\ UNCHANGED <<request, fields, file>>

\* Mutant: the reader ends the file where the limit is.
FileEndsMutated ==
    /\ at = "file" /\ (Rest = 0 \/ reader.remaining = 0)
    /\ Take(1) /\ Reply("record")

\* The end alone, read by the probe when the limit is used up.
FileEnds ==
    /\ at = "file" /\ Rest = 0
    /\ Take(1) /\ Reply("record")

\* Mutant: without a probe, a reader whose limit is used up returns nothing.
FileTooLargeMutated == at = "file" /\ reader.remaining = 0 /\ UNCHANGED bodyVars

\* The probe reads one more unit.
FileTooLarge ==
    /\ at = "file" /\ reader.remaining = 0 /\ Rest > 0
    /\ Take(1) /\ Reply("file_too_large")

CeilingInFile ==
    /\ at = "file" /\ ~Passes(1)
    /\ UNCHANGED taken /\ Reply("request_too_large")

Record == at = "record" /\ UNCHANGED taken /\ Reply("created")

\* The client goes away during the file, or the store or the database fails.
Fail == at \in {"file", "record"} /\ UNCHANGED taken /\ Reply("internal_error")

-----------------------------------------------------------------------------
NextPart ==
    \/ \E size \in Sizes : SkipPart(size) \/ CeilingInParts(size)
    \/ \E name \in FieldName, value \in Value, size \in Sizes : ReadField(name, value, size)
    \/ TooManyFields \/ FieldTooLarge \/ BodyEnds
    \/ \E f \in File : BeginFile(f)

ReadOn ==
    \/ \E n \in 1..reader.remaining : ReadFile(n) \/ ReadLast(n)
    \/ FileEnds \/ FileTooLarge \/ CeilingInFile
    \/ Record

BodyNext == NextPart \/ ReadOn \/ Fail

BodySpec == BodyInit /\ [][BodyNext]_bodyVars

\* The client goes on sending, and what arrives is read.
FairBodySpec == BodySpec /\ WF_bodyVars(NextPart) /\ WF_bodyVars(ReadOn)

-----------------------------------------------------------------------------
BodyTypeOK ==
    /\ page \in PageSettings /\ globalExt \in SUBSET Ext
    /\ at \in Stages \cup Refusals \cup {"created"}
    /\ taken \in 0..BodyLimit
    /\ DOMAIN fields \subseteq FieldName /\ \A n \in DOMAIN fields : fields[n] \in Value
    /\ file \in File \cup {NoFile}
    /\ reader.remaining \in 0..FileLimit /\ reader.count \in 0..FileLimit
    /\ stored \in 0..file.size

\* An upload is recorded only when the whole file reached the store, with the
\* size it has, and neither the page's limit nor the global one is exceeded by
\* more than encryption may add (countingLimitReader under effectiveMaxFileSize);
\* without encryption its extension is on the page's list and on the global one,
\* lists without a common member included (effectiveAllowedExt: a page narrows
\* the global list and never widens it).
RecordedWholeAndWithinLimits ==
    at = "created" =>
        /\ reader.count = file.size /\ stored = file.size
        /\ file.size <= GlobalLimit + Overhead
        /\ page.limit # NoLimit => file.size <= page.limit + Overhead
        /\ ~page.e2e => \A list \in {page.ext, globalExt} : list = {} \/ file.ext \in list

\* No upload is refused for its size unless the file exceeds the page's limit or
\* what the client sent around it uses up the allowance (the ceiling of the body
\* leaves room for a file of the very limit).
RefusedForSizeRightly ==
    /\ at = "file_too_large" => file.size > FileLimit
    /\ at = "request_too_large" => taken - stored >= Allowance

\* Whatever parts the client keeps sending, the request comes to an answer: what
\* is drained counts against the ceiling (the comment in handleUpload).
EveryUploadIsAnswered == <>(at \notin Stages)
=============================================================================
