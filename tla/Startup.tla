------------------------------- MODULE Startup -------------------------------
(***************************************************************************)
(* Opening a database that an earlier version left behind: store.migrate   *)
(* gives every upload an envelope, every envelope a receipt token and      *)
(* every upload its acceptance event, statement by statement and with no   *)
(* transaction around them; http.New then replaces plain uploader          *)
(* addresses by digests, in one transaction.  The process may die between  *)
(* any two statements, and every start runs all of it again.  Between      *)
(* starts the server makes pages and takes uploads and deletes.            *)
(*                                                                         *)
(* Every start reads its configuration anew, so that what one process was  *)
(* told to keep out may be there from another: the address mode, the       *)
(* anonymous ingress and the E2E intake are part of the model, the rest of *)
(* the configuration is not.                                               *)
(*                                                                         *)
(* Left out: the schema statements and added columns (each takes no effect *)
(* the second time) and the backfill of receipt_status, whose column has a *)
(* default.                                                                *)
(***************************************************************************)
EXTENDS Naturals, Sequences, FiniteSets

CONSTANTS
    MaxRow,       \* bound: upload row ids
    MaxEnvelope,  \* bound: envelope row ids
    MaxKey,       \* bound: uploads ever made
    MaxToken,     \* bound: receipt tokens ever drawn
    MaxCrashes,   \* bound: how often the process dies
    Legacy,       \* how many uploads an earlier version left
    Configs,      \* the configurations a start may find
    NoRow

ASSUME BoundAssumption ==
    /\ MaxRow \in Nat /\ MaxEnvelope \in Nat /\ MaxKey \in Nat
    /\ MaxToken \in Nat /\ MaxCrashes \in Nat
ASSUME LegacyAssumption ==
    /\ Legacy \in Nat
    /\ Legacy <= MaxRow /\ Legacy <= MaxEnvelope
    /\ Legacy <= MaxKey /\ Legacy <= MaxToken

\* ip: IP_STORAGE_MODE; anonymous: ANONYMOUS_INGRESS; enabled and required:
\* E2E_INTAKE_ENABLED and E2E_INTAKE_REQUIRED.
Config == [ip : {"plain", "hmac"}, anonymous : BOOLEAN,
           enabled : BOOLEAN, required : BOOLEAN]

ASSUME ConfigAssumption == Configs \subseteq Config

VARIABLES
    at,         \* where the start of the process stands
    cfg,        \* the configuration this process was started with
    todo,       \* the envelopes without a token that it has read
    uploads,    \* the uploads table: row id -> row
    envelopes,  \* the submission_envelopes table
    accepted,   \* row id -> the envelope links of its upload.accepted events
    made,       \* the uploads made so far
    issued,     \* the tokens drawn so far
    pages,      \* the kinds of pages there are
    crashes,    \* history: how often the process has died
    lax         \* history: what some process so far did not keep out

data == <<uploads, envelopes, accepted, made, issued, pages>>
vars == <<at, cfg, todo, data, crashes, lax>>

RowIds == 1..MaxRow
EnvIds == 1..MaxEnvelope

\* Uploader addresses: a digest of a digest would be "garbled".
Addresses == {"none", "plain", "digest", "garbled"}

\* A page takes plaintext, or it has an E2E identity and takes ciphertext.
Kinds == {"plaintext", "e2e"}

\* key names the upload for good, its row id does not; env is 0 for NULL; kind
\* is what encryption_mode says, and that of the page.
Row == [key : 1..MaxKey, env : EnvIds \cup {0}, ip : Addresses, kind : Kinds]

\* legacy: the n of public id legacy-n, 0 for an id an uploader chose.
Envelope == [legacy : RowIds \cup {0}, token : 0..MaxToken, ip : Addresses]

ASSUME NoRowAssumption == NoRow \notin Row \cup Envelope

Starting == {"down", "insert", "link", "read", "tokens", "events", "addresses"}

LiveRows == {u \in RowIds : uploads[u] # NoRow}
LiveEnvelopes == {v \in EnvIds : envelopes[v] # NoRow}

\* The id after the largest one in use.
IsNext(i, live) == (\A j \in live : j < i) /\ (i = 1 \/ i - 1 \in live)

\* A database of an earlier version: without envelopes, with envelopes that
\* have no token yet, or with both; with acceptance events or without.  Or a
\* new one.
Init ==
    /\ at = "down"
    /\ cfg \in Configs
    /\ todo = {}
    /\ \E linked, receipts, events \in BOOLEAN, rows \in {1..Legacy, {}} :
          /\ receipts => linked
          /\ events => linked
          /\ uploads = [u \in RowIds |->
                IF u \in rows
                THEN [key |-> u, env |-> IF linked THEN u ELSE 0, ip |-> "plain",
                      kind |-> "plaintext"]
                ELSE NoRow]
          /\ envelopes = [v \in EnvIds |->
                IF linked /\ v \in rows
                THEN [legacy |-> 0, token |-> IF receipts THEN v ELSE 0,
                      ip |-> "plain"]
                ELSE NoRow]
          /\ accepted = [u \in RowIds |->
                IF events /\ u \in rows
                THEN <<IF linked THEN u ELSE 0>> ELSE <<>>]
          /\ issued = IF receipts THEN Legacy ELSE 0
          /\ pages = IF rows = {} THEN {} ELSE {"plaintext"}
          /\ lax = [plaintext |-> rows # {}, address |-> rows # {}]
    /\ made = Legacy
    /\ crashes = 0

-----------------------------------------------------------------------------
\* LoadFromLookup refuses the others, and the process ends before it opens the
\* database.
Loads(c) == c.required => c.enabled

Start ==
    /\ at = "down"
    /\ cfg' \in {c \in Configs : Loads(c)}
    /\ at' = "insert"
    /\ lax' = [plaintext |-> lax.plaintext \/ ~cfg'.required,
               address |-> lax.address \/ (cfg'.ip = "plain" /\ ~cfg'.anonymous)]
    /\ UNCHANGED <<todo, data, crashes>>

\* INSERT INTO submission_envelopes ... WHERE submission_envelope_id IS NULL
\* AND NOT EXISTS (... legacy-<id>).
Unlinked == {u \in LiveRows : uploads[u].env = 0}

\* Mutant: without the NOT EXISTS.
LacksEnvelopeAlways(rows) == rows

LacksEnvelope(rows) ==
    {u \in rows : ~\E v \in LiveEnvelopes : envelopes[v].legacy = u}

\* The ids after the largest one, to the rows in any order.
InsertEnvelopes ==
    LET rows == LacksEnvelope(Unlinked) IN
    /\ at = "insert"
    /\ \E first \in 1..(MaxEnvelope + 1) :
       /\ IsNext(first, LiveEnvelopes)
       /\ \E slot \in [rows -> first..(first + Cardinality(rows) - 1)] :
          /\ \A u \in rows : slot[u] \in EnvIds
          /\ \A u, w \in rows : slot[u] = slot[w] => u = w
          /\ envelopes' = [v \in EnvIds |->
                IF \E u \in rows : slot[u] = v
                THEN LET u == CHOOSE u \in rows : slot[u] = v IN
                     [legacy |-> u, token |-> 0, ip |-> uploads[u].ip]
                ELSE envelopes[v]]
    /\ at' = "link"
    /\ UNCHANGED <<cfg, todo, uploads, accepted, made, issued, pages, crashes, lax>>

\* Mutant: without the WHERE submission_envelope_id IS NULL, so that a row
\* without a legacy envelope loses its own.
LinkUploadsAll ==
    LET found(u) == {v \in LiveEnvelopes : envelopes[v].legacy = u} IN
    /\ at = "link"
    /\ uploads' = [u \in RowIds |->
          IF u \in LiveRows
          THEN [uploads[u] EXCEPT !.env =
                   IF found(u) = {} THEN 0 ELSE CHOOSE v \in found(u) : TRUE]
          ELSE NoRow]
    /\ at' = "read"
    /\ UNCHANGED <<cfg, todo, envelopes, accepted, made, issued, pages, crashes, lax>>

\* UPDATE uploads SET submission_envelope_id = (SELECT ... legacy-<id>): of
\* several matches SQLite takes any.
LinkUploads ==
    /\ at = "link"
    /\ \E link \in [Unlinked -> LiveEnvelopes] :
          /\ \A u \in Unlinked : envelopes[link[u]].legacy = u
          /\ uploads' = [u \in RowIds |->
                IF u \in Unlinked THEN [uploads[u] EXCEPT !.env = link[u]]
                                  ELSE uploads[u]]
    /\ at' = "read"
    /\ UNCHANGED <<cfg, todo, envelopes, accepted, made, issued, pages, crashes, lax>>

\* Mutant: every envelope is given a token on every start.
NeedsTokenAlways(v) == TRUE

NeedsToken(v) == envelopes[v].token = 0

ReadTokenless ==
    /\ at = "read"
    /\ todo' = {v \in LiveEnvelopes : NeedsToken(v)}
    /\ at' = "tokens"
    /\ UNCHANGED <<cfg, data, crashes, lax>>

\* One UPDATE per envelope.
AssignToken ==
    /\ at = "tokens"
    /\ issued < MaxToken
    /\ \E v \in todo :
          /\ \A w \in todo : v <= w
          /\ envelopes' = [envelopes EXCEPT ![v].token = issued + 1]
          /\ todo' = todo \ {v}
    /\ issued' = issued + 1
    /\ UNCHANGED <<at, cfg, uploads, accepted, made, pages, crashes, lax>>

TokensDone ==
    /\ at = "tokens"
    /\ todo = {}
    /\ at' = "events"
    /\ UNCHANGED <<cfg, todo, data, crashes, lax>>

\* Mutant: without the NOT EXISTS, so that every start adds an event.
BackfillEventsAlways ==
    /\ at = "events"
    /\ accepted' = [u \in RowIds |->
          IF u \in LiveRows THEN Append(accepted[u], uploads[u].env)
                            ELSE accepted[u]]
    /\ at' = IF cfg.ip = "hmac" THEN "addresses" ELSE "serving"
    /\ UNCHANGED <<cfg, todo, uploads, envelopes, made, issued, pages, crashes, lax>>

\* INSERT INTO custody_events ... WHERE NOT EXISTS an upload.accepted event.
BackfillEvents ==
    /\ at = "events"
    /\ accepted' = [u \in RowIds |->
          IF u \in LiveRows /\ accepted[u] = <<>>
          THEN <<uploads[u].env>> ELSE accepted[u]]
    /\ at' = IF cfg.ip = "hmac" THEN "addresses" ELSE "serving"
    /\ UNCHANGED <<cfg, todo, uploads, envelopes, made, issued, pages, crashes, lax>>

\* Mutant: a digest is not recognised.
RewriteStoredAgain(ip) == IF ip = "plain" THEN "digest" ELSE "garbled"

RewriteStored(ip) == IF ip = "plain" THEN "digest" ELSE ip

\* RewriteUploaderIPs: both tables in one transaction.
RewriteAddresses ==
    /\ at = "addresses"
    /\ uploads' = [u \in RowIds |->
          IF u \in LiveRows
          THEN [uploads[u] EXCEPT !.ip = RewriteStored(@)] ELSE NoRow]
    /\ envelopes' = [v \in EnvIds |->
          IF v \in LiveEnvelopes
          THEN [envelopes[v] EXCEPT !.ip = RewriteStored(@)] ELSE NoRow]
    /\ at' = "serving"
    /\ UNCHANGED <<cfg, todo, accepted, made, issued, pages, crashes, lax>>

-----------------------------------------------------------------------------
\* Serving: CreatePage, CreateUpload (a submission of its own), DeleteUpload and
\* DeleteSubmission, each one transaction (see PageLifecycle and Intake).

\* Mutant: only an identity is asked whether it is allowed.
OffersKindToAll(kind) == kind = "e2e" => cfg.enabled

\* validatePageE2E
OffersKind(kind) == IF kind = "e2e" THEN cfg.enabled ELSE ~cfg.required

CreatePage(kind) ==
    /\ at = "serving"
    /\ OffersKind(kind)
    /\ pages' = pages \cup {kind}
    /\ UNCHANGED <<at, cfg, todo, uploads, envelopes, accepted, made, issued, crashes, lax>>

\* uploaderIdentifier
Stored ==
    IF cfg.anonymous THEN "none" ELSE IF cfg.ip = "hmac" THEN "digest" ELSE "plain"

\* What an upload to a page must be is what the page says.
Upload(kind, u, v) ==
    /\ at = "serving"
    /\ kind \in pages
    /\ IsNext(u, LiveRows) /\ IsNext(v, LiveEnvelopes)
    /\ made < MaxKey /\ issued < MaxToken
    /\ uploads' = [uploads EXCEPT ![u] =
                      [key |-> made + 1, env |-> v, ip |-> Stored, kind |-> kind]]
    /\ envelopes' = [envelopes EXCEPT ![v] =
                        [legacy |-> 0, token |-> issued + 1, ip |-> Stored]]
    /\ accepted' = [accepted EXCEPT ![u] = <<v>>]
    /\ made' = made + 1
    /\ issued' = issued + 1
    /\ UNCHANGED <<at, cfg, todo, pages, crashes, lax>>

DeleteRows(rows) ==
    /\ uploads' = [u \in RowIds |-> IF u \in rows THEN NoRow ELSE uploads[u]]
    /\ accepted' = [u \in RowIds |-> IF u \in rows THEN <<>> ELSE accepted[u]]

DeleteUpload(u) ==
    /\ at = "serving"
    /\ u \in LiveRows
    /\ DeleteRows({u})
    /\ UNCHANGED <<at, cfg, todo, envelopes, made, issued, pages, crashes, lax>>

DeleteSubmission(v) ==
    /\ at = "serving"
    /\ v \in LiveEnvelopes
    /\ DeleteRows({u \in LiveRows : uploads[u].env = v})
    /\ envelopes' = [envelopes EXCEPT ![v] = NoRow]
    /\ UNCHANGED <<at, cfg, todo, made, issued, pages, crashes, lax>>

-----------------------------------------------------------------------------
\* The process dies, or a statement fails and startup gives up.
Crash ==
    /\ at # "down"
    /\ crashes < MaxCrashes
    /\ crashes' = crashes + 1
    /\ at' = "down"
    /\ todo' = {}
    /\ UNCHANGED <<cfg, data, lax>>

StartupStep ==
    \/ Start \/ InsertEnvelopes \/ LinkUploads \/ ReadTokenless \/ AssignToken
    \/ TokensDone \/ BackfillEvents \/ RewriteAddresses

Next ==
    \/ StartupStep
    \/ \E kind \in Kinds : CreatePage(kind)
    \/ \E kind \in Kinds, u \in RowIds, v \in EnvIds : Upload(kind, u, v)
    \/ \E u \in RowIds : DeleteUpload(u)
    \/ \E v \in EnvIds : DeleteSubmission(v)
    \/ Crash

Spec == Init /\ [][Next]_vars

-----------------------------------------------------------------------------
TypeOK ==
    /\ at \in Starting \cup {"serving"}
    /\ cfg \in Configs
    /\ todo \subseteq EnvIds
    /\ uploads \in [RowIds -> Row \cup {NoRow}]
    /\ envelopes \in [EnvIds -> Envelope \cup {NoRow}]
    /\ accepted \in [RowIds -> Seq(EnvIds \cup {0})]
    /\ made \in 0..MaxKey /\ issued \in 0..MaxToken /\ crashes \in 0..MaxCrashes
    /\ pages \subseteq Kinds
    /\ lax \in [plaintext : BOOLEAN, address : BOOLEAN]

-----------------------------------------------------------------------------
\* Once the server serves, every upload of whichever version belongs to a
\* submission with a receipt token and has exactly one acceptance event, which
\* names that submission, wherever earlier starts were cut.
ServesCompleteRecords ==
    at = "serving" =>
        \A u \in LiveRows :
            LET v == uploads[u].env IN
            /\ v \in LiveEnvelopes
            /\ envelopes[v].token # 0
            /\ accepted[u] = <<v>>

\* A receipt URL handed out once leads to its submission, and to no other, for
\* as long as that exists: no start gives an envelope another token, and none
\* gives a token a second time.
ReceiptsSurviveRestarts ==
    [][\A v \in LiveEnvelopes :
          envelopes[v].token # 0 /\ envelopes'[v] # NoRow
          => \A w \in LiveEnvelopes' :
                envelopes'[w].token = envelopes[v].token <=> w = v]_vars

\* Files that arrived in one submission stay in it, and an upload of a version
\* without submissions gets one of its own ("one immutable submission ID",
\* README.md:123).
SubmissionIsImmutable ==
    [][\A u \in LiveRows :
          LET new == uploads'[u] IN
          new # NoRow /\ new.key = uploads[u].key =>
              IF uploads[u].env # 0 THEN new.env = uploads[u].env
              ELSE new.env # 0 =>
                       \A w \in RowIds \ {u} :
                           uploads'[w] # NoRow => uploads'[w].env # new.env]_vars

\* While the server runs with IP_STORAGE_MODE=hmac-sha256 no plain address is
\* stored, in either table, and none is a digest of a digest, whichever modes
\* it ran with before ("startup rewrites existing plaintext uploader IPs",
\* README.md:149).
AddressesAreDigests ==
    at = "serving" /\ cfg.ip = "hmac" =>
        /\ \A u \in LiveRows : uploads[u].ip \in {"digest", "none"}
        /\ \A v \in LiveEnvelopes : envelopes[v].ip \in {"digest", "none"}

\* What every process so far was told to keep out is not in the database: no
\* plaintext page or file under E2E_INTAKE_REQUIRED, no plain address under
\* hashing or an anonymous ingress ("no uploader IP at all", README.md:130).
\* One process that was not told so is enough for both.
WhatAllKeptOutIsOut ==
    /\ ~lax.plaintext =>
          /\ pages \subseteq {"e2e"}
          /\ \A u \in LiveRows : uploads[u].kind = "e2e"
    /\ ~lax.address =>
          /\ \A u \in LiveRows : uploads[u].ip # "plain"
          /\ \A v \in LiveEnvelopes : envelopes[v].ip # "plain"

-----------------------------------------------------------------------------
\* Does not hold: "Set E2E_INTAKE_REQUIRED=true to reject plaintext pages and
\* plaintext uploads entirely" (README.md:270).  handleUpload asks the page and
\* not the configuration, so a plaintext page of an earlier process goes on
\* taking plaintext.
RequiredRejectsPlaintext ==
    [][cfg.required =>
          \A u \in RowIds :
              uploads[u] = NoRow /\ uploads'[u] # NoRow
              => uploads'[u].kind = "e2e"]_vars
=============================================================================
