# A TLA+ model of Sprag

Sprag is a drop-off server: an admin creates an intake page under an unguessable
URL, strangers upload files to it without an account, and the admin reads them,
reports back through a receipt URL, seals the page and exports a custody
manifest. One Go process serves HTTP, keeps its metadata in SQLite and its file
bodies in S3 or a local directory. These modules model the parts of it where
requests, failures and restarts meet, check them with TLC on small instances,
and prove the central ones with TLAPS for every instance.

Paths below are relative to the repository; `store.go` is
`internal/store/store.go`, `server.go` is `internal/http/server.go`,
`filesystem.go` is `internal/filesystem/filesystem.go`.

    cd tla
    tlc -config MCPageLifecycle.cfg MCPageLifecycle
    tlapm PageLifecycleProofs.tla

## 1. The system

### Components

| Component | State | Operations | Correct when |
| --- | --- | --- | --- |
| Page lifecycle (`server.go` 280–440, `store.go` 405–576) | `pages`, `custody_events` | create, patch, seal, delete, public admission, export | seals are permanent, a deleted URL never resolves again, the log tells the truth about the seal |
| Upload, file and submission handling (`server.go` 412–760, 1127–1260, 1539–1605; `store.go` 590–820) | `uploads`, `submission_envelopes`, `custody_events`, objects | upload, download, delete of a file, a submission, a page with files, zip, manifest | rows, events and objects agree although no transaction covers both database and store |
| Reports and receipts (`server.go` 783–1050, `store.go` 822–1022) | `reports`, receipt status and token, objects | attach/replace, remove, download by token, set status | a token leads to its own submission's reports, an offered report can be fetched |
| Rate limiter (`server.go` 1960–1997) | bucket map, time of last sweep | `Allow` | a fixed window per client; memory is given back |
| Local object store (`filesystem.go`) | directories, temporary files, objects | `Upload`, `Download`, `Delete` | an object is there whole or not at all |
| Startup and migration (`store.go` 290–404, 1331–1431, 1096–1155) | all tables, of any earlier version | backfills, address rewriting | can be cut anywhere and run again |
| SQLite connection (`store.go` 266–291 and its transactions) | snapshots, the write lock | deferred transactions, busy timeout, rollback | transactions take effect one after the other; none is turned away but on account of another |
| S3 store (`internal/s3`) | a bucket | three SDK calls | the same contract as the local store |
| Sessions, CSRF, PIN cookies (`server.go` 1093–1126, 1870–1958) | none on the server: signed cookies | login, logout, PIN, checks | a cookie admits to what it was given for, as long as it says |
| Client identification (`server.go` 1999–2130) | none | `clientIP`, `Stored`, rate keys | the trusted hop's entry is taken, every client has a limit of its own |
| Upload policy (`server.go` 1127–1260, 1360–1420, 2132–2412) | reader and counters of a request | size limits, parts and fields, file types, E2E envelope | what is recorded is whole and within the limits, what fits is not refused for its size |
| Configuration (`internal/config`) | none; read at every start | parsing, checks | data of one configuration is safe under the next |
| Identifiers, routing, process start | none | random names, wiring | |
| Frontend (`frontend/src`) | browser state, IndexedDB keys | upload queue, dashboard, E2E encryption | |

### How they interact

Every HTTP request runs in a goroutine of its own. A handler is a sequence of
SQL statements or transactions and calls of the object store, with nothing held
between two of them: no lock, no transaction, only the values it has read. So
handlers of different requests interleave at every statement. A handler can be
cut after any step: its client leaves and the request context is cancelled, a
statement or a store call fails, or the process dies (on SIGTERM it gives
requests 15 seconds). What a handler passed on to the database or the store
stays. The three rate limiters are the only state in memory that requests share;
who is logged in or admitted by a PIN is known to the browser alone, in cookies
the server signs.

Two facts of the schema make this harder than it looks. Ids are `INTEGER PRIMARY
KEY` without `AUTOINCREMENT`, so the id of a deleted last row is given out again
while a handler may still hold it. And the schema relies on foreign keys:
deleting a page cascades over its uploads, envelopes, reports and events,
deleting an upload or envelope sets the events' references to NULL. That they
are enforced on every connection of the pool is an **assumption** of the models,
as it is of the repository. `migrate` sets the pragma on the one connection it
runs on and the connection string does not set it (store.go:278); the rest is
left to the driver, which is outside `src/` and is said to enable it
(concurrency_test.go:60). The test there takes one connection at a time and
gives it back before it takes the next, so it need not see a second one.

### What is hard

- a patch writes back a whole row it read earlier, a delete removes by id what
  it checked before;
- a page is checked for being open before the body streams, and the upload is
  recorded after;
- rows and objects are changed one after the other, in an order that differs
  between operations, and either half may fail;
- an upload under way brings back a submission that was just deleted;
- attaching and removing a report each write a row, an object and a status;
- a manifest reads uploads and events separately, an archive checks its objects
  and then streams them;
- a migration without a transaction, cut between two statements;
- directories that one call removes and another is about to use;
- calls that reach the limiter in another order than they read the clock;
- a transaction that has read and then wants to write while another one commits;
- the limits of a body whose parts, sizes and pieces the client chooses;
- cookies that outlive the PIN, the page, the password or the secret they were
  signed for;
- a header whose left part the client writes and whose right part is trusted;
- data of a process that was configured otherwise.

`PROJECT.json` lists these with their lines and the properties that cover them.

## 2. The modules

| Module | Models | A step is |
| --- | --- | --- |
| `PageRegister` | abstract: a slug is unborn, open, sealed, retired; guests are let in while it is open | one promise |
| `PageLifecycle` | create, patch, seal, delete, admission, export and their events | one statement |
| `FileLedger` | abstract: a file is absent, held, listed, given up; a submission is opened by its first file and removed as a whole | one promise |
| `Intake` | the files of one page, in tables and object store | one statement, transaction or store call |
| `ReportChannel` | reports, receipt status and token of one submission id | the same |
| `SerialStore` | abstract: operations on one submission's rows happen one after the other and hand back the keys to delete | one operation |
| `SqliteWal` | the same operations as transactions on SQLite | one SQL statement |
| `UploadBody` | one upload request, from its first byte to its record | one part, or one read |
| `SignedCookies` | sessions and PIN admission, browser and server | a request sent, a handler's read, an answer received |
| `FixedWindow` | abstract: a window per key, nothing else | one call |
| `RateLimiter` | the bucket map and its sweep | one call of `Allow` |
| `ClientLimits` | whom a request is counted for: proxies, header, spellings, pages | one request |
| `BlobStore` | abstract: an object is absent, held, deleted | one effect |
| `FileBlobStore` | the local store | one system call |
| `Startup` | the migration and address rewriting, crashes, later starts under other configurations | one statement |

`MC*.tla` add symmetry sets and sets of values for the `MC*.cfg` of the same
system. `<Module>Proofs` holds the theorems about `<Module>`; those about
`ClientLimits` are in `RateLimiterProofs`, those about `UploadBody` and
`SignedCookies`, which guard an upload, in `UploadGuardProofs`.

**How they fit.** `PageLifecycle` abstracts uploads to their admission and
event; `Intake` abstracts the page to open, sealed or gone and has everything
below it; `ReportChannel` takes one submission of it further. The operations all
three share (delete of a submission, recording an upload) are the same
transaction seen from each. So is the delete of a page, whose handler takes the
objects of the files and then those of the reports: `Intake` has the first half
and `ReportChannel` the second, each with `DeletePage` after it. `Intake` and
`ReportChannel` use an object store
that behaves as `BlobStore` says, and `FileBlobStore` is shown to implement
`BlobStore`. `Intake` and `ReportChannel` take a transaction for one step;
`SqliteWal` shows that the transactions on one submission behave so
(`ImplementsSerialStore`) and which of them may be refused instead. `UploadBody`
is the inside of what `Intake` calls `UploadAdmit` and `UploadStore`, for one
request. `SignedCookies` and `ClientLimits` are what stands before a handler
begins. `Startup` establishes, for databases of earlier versions, what `Intake`
takes as its initial states: every upload with an envelope, a token and one
acceptance event.

**Handlers as data.** The request modules have a variable `req`, a record per
request: the operation, the step it stands at, and what it has read and still
holds (`seen`, `list`, `key`, ...). An action per step has the guard `At(r,
step)` and moves `req[r].at`; branches and early returns are the choice of the
next step (`refused` for a 4xx answer, `failed` for an error, `ok`). `Abort(r)`
is the cut of a request. Each request is served once; repeating a call is
another request.

**Abstracted.** Names, hashes, wording and layout; settings of a page other than
`is_active`; in the request modules also validation, sizes and authorization,
which turn requests away before they begin and have modules of their own. Slugs,
tokens and object keys are random in the code and fresh in the models; the retry
on a collision disappears with that. Definitions named `...` after another
definition and marked `Mutant:` are deliberately wrong variants of it: putting
them in its place makes the property given in `PROJECT.json` fail.

### The page lifecycle

`pages` maps ids to rows or `NoPage`; a row has `slug`, `key` (the E2E
identity), `active` and `sealed`. `IsNextId` is SQLite's choice of an id.
`UpdateRead` and `UpdateWrite` are the two halves of `UpdatePage`: the merge of
the patch into the row read and the `UPDATE` of all columns but `sealed_at`.
`DeleteRead` is the handler's look at the page, `DeleteRecheck` and `DeleteRow`
the two statements of `DeletePage`. `SealRead`, `SealWrite`, `SealReread` are
the handler's read, the `UPDATE` and the read that decides whether the
`page.sealed` event is this request's to record. Events are kept per page id and
vanish with the page. `used` is history: the slugs ever published.

### Intake

`uploads`, `envelopes`, `events`, `objects`. An object is named by the upload
request that wrote it, and so is the receipt token that request drew.
`UploadAdmit` / `UploadStore` / `UploadCommit` are the admission, the stream
into the store, the transaction of `CreateUpload` (envelope made if missing,
row, `upload.accepted` event); `UploadCommitFails` and `UploadCleanup` the error
path. A delete of a file takes the object, records, takes the row; a delete of a
submission takes the rows in a transaction and then the objects; a delete of a
page with `files=1` lists, takes the objects, and lets `DeletePage` check the
seal again. Two neighbouring reads that nothing depends on separately are one
step: the two of a download and the first two of an archive.

`FileLedger` is the same without rows, envelopes, events and handlers: for each
file where it is (`place`), under which submission it was sent and with which
receipt its uploader was answered. `PlaceOf` reads the place off the tables, the
store and the step of the upload's handler; `OpenedBy` reads the receipt of a
submission off its envelope. The ledger has no order of deleting an object and
its row, so it allows what cuts and races leave: a listed file without an object
(`hollow`), an object without a row (`orphan`). What it forbids is a file listed
twice or back again, an object back after its delete, a file on a page that is
gone, a submission removed in part, and two receipts for one submission.

### Reports

One submission id that may be deleted and begun again under a new envelope with
a new token, on a `page` that may be sealed or deleted. `AttachPut` and `AttachReread` are the transaction of `PutReport`
and the read after its commit, `AttachReplace` deletes the replaced object,
`AttachCleanup` the handler's own after a failure, `FlipStatus` is the separate
statement for the status. `DeletePageRead`, `DeletePageList`, `DeleteObject`,
`DeletePageRecheck` and `DeletePageDrop` are a delete of the page, with
`files=1` or without: the handler's look at the page, the listing of the report
keys, the delete of the object, and the two statements of `DeletePage`, between
any of which a `Seal` may come. `alone` is history: no two requests have overlapped
and none has failed.

### Transactions on SQLite

`db` holds the committed rows of one submission, `version` counts the commits
that changed them, `writer` is who holds the write lock, and `tx[t]` is a
transaction: its operation, its next statement, its snapshot (`snap`, `view`)
and the keys it has read. SQLite is modelled from its documented behaviour in
WAL mode and from how `Open` configures it (`dsn`: WAL, a busy timeout of 5 s,
no `_txlock`, so that transactions begin deferred); it is the external part of
the map. A first statement that writes (`CreateUpload`, `setStatus`) waits for
the lock, up to the busy timeout. One that writes after a read
(`DeleteSubmission`, `PutReport`, `DeleteReport`) does not wait: it fails at
once when another transaction holds the lock or has committed since the read.
`Rollback` is the deferred `tx.Rollback()` after any error. The repository's
test of contention (`concurrency_test.go`) runs `CreateUpload` alone, the kind
that waits.

### One upload request

`page` and `globalExt` are what was read and configured, `taken` counts the body
against its ceiling, `fields` are the fields kept, `file` and `reader` the file
part and its `countingLimitReader`, `stored` what has reached the store. Before
the file, `NextPart` reads a field or drains a part that is skipped; `ReadOn` is
one `Read` of the file with any buffer, with or without data beside its end;
`Fail` is a client or store that gives up. Sizes are in units, and the framing
of a part is one unit: enough for the body's ceiling to be met anywhere. The
contents of ids, envelopes and names are valid or not.

### Cookies

The server keeps nothing: `jar` is the browser's, with one session cookie and
one PIN cookie (whose name is the same for all pages). `req` are requests under
way, in any number of slots, whose answers arrive in any order or not at all. A
cookie carries its subject, its end and the secret it was signed with; `made`,
`word` and `had` are history: when it was made, the word it was given for, and
the one its subject had then. The handler's look at the page and its comparison
of the PIN are two steps (`PinRead`, `PinCompare`), since bcrypt takes a while.
`PatchWrite` changes or removes a PIN; `Restart` brings another secret or
password. Logging out only drops the browser's copy, and a changed PIN revokes
no cookie; both are what the code does. A login with a wrong password changes
nothing and is left out.

### Rate limiter and its keys

`Allow` is one step, since the mutex is held throughout; the reading of the
clock comes before the mutex, so a call may bring a time up to `MaxLag` behind.
`unswept` is history: the buckets of a limiter without sweep. `ClientLimits`
puts before it what `clientIP` does: a request passes a number of proxies, each
of which appends the peer it saw to the one `X-Forwarded-For` line, after
whatever the client sent; the server takes the entry its `TRUSTED_PROXY_HOPS`
point to, brings it into one spelling and joins it with the page's slug.
`callers` is history: for whom each call was made. A restart, which empties the
buckets, is not modelled.

### Local store

A key belongs to one upload. Its directory is that of the UUID in the key, and
all of them lie beneath one shared directory. A file holds some of its bytes,
all, or all on disk; a loss of power takes what was not synced. The file system
is assumed: rename and unlink are atomic and not undone by a loss of power (the
code syncs the file, not its directory).

### Startup

The database of an earlier version is one without envelopes, with envelopes but
no tokens, or complete, each with or without acceptance events where that is
possible. A start loads a configuration (`Loads` is the rule that refuses one),
runs the backfills statement by statement and in `hmac` mode the rewriting of
addresses, one transaction. Between starts the server makes pages and takes
uploads and deletes. `cfg` is the configuration of this process: address mode,
anonymous ingress, E2E enabled and required. `lax` is history: what some process
so far was not told to keep out.

## 3. What is checked

All runs are exhaustive. Sizes are distinct states, after symmetry.

| Run | Instance | States | Shows |
| --- | --- | --- | --- |
| `page_lifecycle` | 3 requests of any kind, each may be cut; 1 id, 3 slugs, 2 identities; with fairness | 692,000 | `SealMarksTruthful`, `IdentityFixedUntilADelete`, `ImplementsRegister`, `SealEventuallyRecorded` |
| `intake` | 4 requests of any kind, each may be cut; 2 submission ids | 174,000 | `AcceptedExactlyOnce`, `ReceiptCoversUpload`, `DeletionEventsTruthful`, `CleanupSparesRecorded`, `MissingObjectWasDeleted`, `FinishedArchiveIsComplete`, `ManifestLogCoversFiles`, `ImplementsLedger` |
| `intake_liveness` | 4 uploads and deletes, none cut | 35,000 | `NoObjectStranded` |
| `report_channel` | 4 requests, 2 at a time, each may be cut; 2 tokens; the page may be sealed or deleted | 1,269,000 | `TokenGetsItsOwnReports`, `OfferedReportExists`, `DeletionEventsTruthful`, `StatusFollowsReport`, `OnlyTheReportIsKept` |
| `sqlite_wal` | 3 transactions of any kind, each may fail at any statement | 114,000 | `NobodyFailsAlone`, `ObjectsAccountedFor`, `ImplementsSerialStore`, `EveryTransactionEnds` |
| `upload_body` | global limit 2, page limits 1 and 3, parts of 0 to 4 units, 2 extensions, E2E or not | 301,000 | `RecordedWholeAndWithinLimits`, `RefusedForSizeRightly`, `EveryUploadIsAnswered` |
| `signed_cookies` | 2 requests at a time, 2 pages, 2 PINs, 2 secrets; PIN cookies end after 1 tick, sessions after 2 | 1,141,000 | `LetInOnItsOwnPin`, `ActsOnALogin` |
| `rate_limiter` | 2 clients, up to 2 hops, 1 sent entry, 2 spellings; limit 2, window 3, 5 calls in 8 ticks, readings in order | 197,000 | `TwoWindowsWorthPerClient`, `MapForgets`, `ImplementsFixedWindow`, `ClientsAreLimitedApart` |
| `file_store` | 5 calls, 2 may be cut, crashes with and without loss of power | 189,000 | `FailedUploadPublishesNothing`, `UploadsFailOnlyOnTheirOwn`, `NothingLeftBehind`, `ImplementsBlobStore` |
| `startup` | 2 uploads of an earlier version, 3 row ids, 4 envelopes, 2 crashes, 9 configurations, one of which no start accepts | 870,000 | `ServesCompleteRecords`, `AddressesAreDigests`, `WhatAllKeptOutIsOut`, `ReceiptsSurviveRestarts`, `SubmissionIsImmutable` |

`SealIsPermanent` and `RetiredSlugStaysRetired` (of `PageLifecycle`) follow from
`ImplementsRegister`, `SweepingChangesNoAnswer` (of `RateLimiter`) goes with
`ImplementsFixedWindow`, `AtMostTwoWindowsWorth` (of `RateLimiter`, per key) with
`TwoWindowsWorthPerClient`, and the type invariants are proved; so are `SealIsOwed`
(of `PageLifecycle`) and `StrandedIsOwed` (of `Intake`), the safety halves of
`SealEventuallyRecorded` and `NoObjectStranded`. None of these has a place in a
run.

**Why these bounds are enough to be interesting.** The races of the page need
three parties: a request that has read, one that deletes, one that creates or
seals under the same id. In `Intake` and `ReportChannel` four requests allow an
upload (or attach), a delete of it, a second one taking over its row id or
submission id, and a fourth that still holds what it read of the first. In
`ReportChannel` two of them are served at a time, which is what each of its races
takes: an attach between the steps of another, a seal or a remove between those
of a delete of the page; the requests before and after them set the stage. Two
transactions are enough to lose a snapshot or wait for the lock; the third
commits in between. The sizes of a body are those below, at and above each
limit, with and without the overhead of encryption, and a page limit on either
side of the global one. Cookies need a second page to be mistaken for, a second
secret to be outlived, and a request still under way when either changes; there
is one password in the run, and what `ActsOnALogin` says of passwords is left to
the theorem `AdminActions`, for any number of them. The limiter needs a call more than two windows' worth and time for three windows,
and its keys a proxy more than the header was expected to pass. The store needs
two uploads beside two deletes of one object. Startup needs a legacy upload
whose neighbour is already converted, a second crash during recovery from the
first, and a configuration after another.

**Fairness.** `FairSpec` has weak fairness for each request's own steps
(`HandlerStep(r)` of `PageLifecycle` and `Intake`): goroutines run independently
and no handler waits for another one's progress (waiting for a SQLite lock is
bounded by the busy timeout, and is then a failure). Arrivals and cuts have no
fairness. `SealEventuallyRecorded` excepts seals that are cut and
`intake_liveness` has no cut requests: a handler that is cut after its first
half leaves that half, and the code has nothing that completes it later. In
`SqliteWal` each transaction keeps taking its steps, among them the retry of a
statement that waits; failing and timing out are not assumed to happen, so that
`EveryTransactionEnds` shows that nobody needs the timeout to be released. Each
transaction runs once there: that arrivals without end could keep one waiting is
outside the run. In
`UploadBody` the client keeps sending and what arrives is read: the server sets
no `ReadTimeout` (main.go:204–215), so a client that stops and holds its
connection is answered by nobody.

**Deadlock** is checked in `signed_cookies`, where requests come without end.
The other instances serve a bounded number of requests and stop.

### Where the code does less than its documents say

Two runs end in a counterexample on purpose; each checks one sentence of the
documentation.

| Run | The sentence | What happens |
| --- | --- | --- |
| `sealed_delete` | "Sealing a page ... prevents reopening or page deletion" (README.md:142) | a delete that has passed both checks removes a page sealed in between: the `DELETE` names only the id |
| `required_e2e` | "Set `E2E_INTAKE_REQUIRED=true` to reject plaintext pages and plaintext uploads entirely" (README.md:270) | `handleUpload` asks the page, not the configuration: a plaintext page of an earlier process goes on taking plaintext (server.go:1186) |

The same models contain weaker disagreements that are not kept as runs, most of
which restrict the properties above:

- a patch that read the page before a seal sets `is_active` on the sealed page
  (intake stays closed: `IsOpen` looks at both);
- an upload let in before a seal is recorded after it, and an export that read
  the page before it lacks its `post_seal` mark;
- a delete with `files=1` takes the objects of uploads and reports and is then
  refused because a seal came in between ("sealed pages cannot be deleted",
  server.go:427), fails or is cut: the files and reports stay listed and offered
  without their objects (hence the exceptions in `MissingObjectWasDeleted` and
  `OfferedReportExists`);
- an upload recorded between the listing and the delete of a page leaves its
  object in the store (hence the exception in `NoObjectStranded`);
- a download is recorded by upload id after its stream, when the upload may be
  gone and another have its id ("the hashes and logs document what Sprag
  observed", README.md:128);
- `PutReport` can fail after its commit, and the handler then deletes the object
  the committed row refers to (server.go:910; hence the exception in
  `OfferedReportExists`);
- an attach and a remove that overlap can leave a status that contradicts the
  report, or an object nobody will delete (hence `alone`);
- a transaction that reads before it writes fails at once under contention; the
  busy timeout (store.go:274, "so concurrent uploads don't fail under lock
  contention", README.md:290) helps uploads and status changes only, and them
  for 5 s: after that contention alone ends an upload (`Timeout`; hence
  `NobodyFailsAlone` says on whose account, and not that nobody fails);
- with late readings a sweep closes windows early (hence `MaxLag = 0`);
- a crash leaves temporary files for good (hence `~crashed` in
  `NothingLeftBehind`);
- two windows' worth of calls pass within one minute around a window's end
  (hence *two* in `TwoWindowsWorthPerClient`);
- a `MAX_FILE_SIZE` within a MiB of 2^63 is accepted and makes the ceiling of
  the body wrap (the model takes limits for natural numbers, server.go:1145).

## 4. What is proved

Every theorem holds for all values of the module's constants that meet its named
`ASSUME`s: numbers are natural numbers, the values that stand for "none" are no
values, requests that may be cut are requests. Bounds (`MaxPageId`, `MaxTokens`,
`MaxTime`, ...) are constants too, so they are arbitrary.

| Module | Theorems |
| --- | --- |
| `PageLifecycleProofs` | `TypeCorrect`, `MarksAreTruthful`, `SealedForGood`, `RetiredForGood`, `IdentityIsFixed`, `SealsAreAccountedFor`, `Refinement` (of `PageRegister`) |
| `IntakeProofs` | `TypeCorrect`, `EveryRowAcceptedOnce`, `ReceiptKeepsCovering`, `DeletionEventsStayTrue`, `OnlyDeletesLoseObjects`, `ManifestsAgree`, `CleanupIsSafe`, `ArchivesAreComplete`, `FilesFollowTheLedger` (refinement of `FileLedger`); with `Abortable = {}`: `NothingIsForgotten` |
| `ReportChannelProofs` | `TypeCorrect`, `TokensLeadToTheirOwn`, `OfferedReportsExist`, `DeletionsAreTruthful`, `StatusesFollow`, `NoReportIsForgotten` |
| `SqliteWalProofs` | `TypeCorrect`, `TurnedAwayByAnother`, `EveryObjectAccountedFor`, `Serializable` (refinement of `SerialStore`) |
| `UploadGuardProofs` | `BodyTypeCorrect`, `RecordedWhole`, `SizeRefusalsAreRight`; `CookieTypeCorrect`, `PinAdmissions`, `AdminActions` |
| `RateLimiterProofs` | `TypeCorrect`; with `MaxLag = 0`: `SweepingIsInvisible`, `MapsForget`, `WindowPerKey` (refinement of `FixedWindow`), `WindowsPerClient`, `TwoWindowsWorth`, `TwoWindowsPerClient` |
| `FileBlobStoreProofs` | `TypeCorrect`, `FailuresPublishNothing`, `UploadsDoNotInterfere`, `NothingIsLeft`, `Refinement` (of `BlobStore`) |
| `StartupProofs` | `TypeCorrect`, `RecordsAreComplete`, `DigestsOnly`, `KeptOut`, `ReceiptsAreKept`, `SubmissionsAreKept` |

No `TypeOK` is inductive or strong enough as it stands. What is added in each:

**Page lifecycle.** The row that a patch writes back is the one its handler
read: `PageInHand` says that a handler that still runs holds a page. Then

- `SlugsIdentify`: two live rows have different slugs, and every live slug has
  been used;
- `SealsHold`: a handler that has read a page as sealed, and whose id still
  holds a page of that slug, has a sealed page there;
- `EventsHaveAuthors`: an event was recorded by a request that has begun;
- `SealMarksTruthful` itself.

Without `SealsHold` a handler could record the seal it read on a page that is
open; with it the mark is true, because a patch never clears `sealed_at` and an
id that is used again has another slug. All of it rests on one lemma about
steps, `RowStep`: after any step a row is gone, or the same page with its seal
kept, or a new page under a slug never used before. `SealedForGood` and
`RetiredForGood` read that lemma off; the refinement proof turns it into a case
per operation (`CreateRefines`, `SealRefines`, `DeleteRefines`, `AdmitRefines`),
all other steps being stutters of the register.

`IdentityIsFixed` needs one thing more. A patch writes back every column, the E2E
identity among them, as it read it some steps ago. `PatchesKnowTheIdentity` says
that while no page has been deleted the identity in the hands of every waiting
patch is still the one the row has, whatever other patches and seals wrote in
between; a delete would give the row id, and the patch, to another page.

`SealsAreAccountedFor` rests on `SealsAreKnown`: while no page has been deleted, a
seal handler is at work on the page it read. Only such a handler turns a page
sealed (`SealedBySeal`), and it had read it open, so that it is one of those that
will record the event.

**Intake.** The keys that handlers hold are those of uploads that are recorded
and answered, and such an upload does nothing any more (`DoneStays`). Hence

- `KeysAreDone`: a row's key is a finished upload, and no other row has it;
- `EventsAreLinked`: an event that names a row names one that is there, so that
  an id used again starts without events of its predecessor, which
  `ON DELETE SET NULL` has unlinked in the same transaction;
- `HandlerInOrder`, `HandlerAndObjects`, `HandlerAndRows`: what each handler
  holds at each step. The objects a delete has visited are gone, the rows of a
  deleted submission are out of the table before its first object is touched, a
  manifest in its last step shows as accepted what it lists and the page still
  has.

What all handlers do to the tables is one of four things (`TableEffects`:
record, take rows, drop everything, note an event), and what they do to objects
one of three; the invariant is proved once for the handler that acts
(`ActingHandler`) and once for those that stand by (`BystanderKept`). For the
refinement three facts are added: `ObjectsAreStored` (an object is of an upload
that got as far as the store), `EnvelopesApart` (a submission has one envelope)
and `GoneIsEmpty`. `ReceiptCoversUpload` is what makes the delete of an envelope
and the rows linked to it the removal of the submission its uploaders meant;
each handler step is then one lemma (`CommitInLedger`, `DeleteSubmissionInLedger`,
...).

`ArchivesAreComplete` rests on `Sends`: between its check and its event an
archive or download has sent what it listed and has not yet to do, and one whose
next object is missing never comes to its event.

`NothingIsForgotten` says who owes the removal of an object without a row.
`RowsAreKnown` adds that an upload knows the row it was given and a delete of a
file the one row it read. So when a row goes and its object stays
(`RowGoesWithSubmission`), and no row id was given out twice, it went with its
submission, and the handler that took it still has its object in hand. Requests
that are cut have no part in it: `Abortable = {}` is the configuration of
`intake_liveness`.

**Reports.** A request attaches at most once, and its key is its own; so an
object that was replaced, removed or deleted is never the report again.
`ReportIsCurrent`, `Stored` and `Gone` say where in a request's life its object
is the report, in the store, or about to be deleted; `ObjectsDeleted`,
`EventsAreAnswers` and `DownloadsMatch` tie the events and the answers to it.
`PageDeletesInOrder` says how far a delete of the page is, and that what it holds
is the object of an attach that has come to its `PutReport` and stores no other:
the one report it can leave without object is the one `OfferedReportExists`
excepts. `GoneIsEmpty` says that a deleted page has no submission.
`StatusesFollow` and `NoReportIsForgotten` speak of requests that had the
submission to themselves; `AloneInv` says what such a handler leaves to be done
at each step (`Leaves`: the report is already changed and the status not yet, or
one object is still in hand), and that nothing is left when nobody is at work,
except by a delete of the page without its files (`LeftBehind`).

**SQLite.** `Coherent` says that the committed rows make sense, and `Sound(t)`
for every transaction that it is invisible until it commits, that it holds the
lock exactly at the statements that need it, and that its snapshot is either the
committed state or too old to write over. The last is what makes a commit an
operation of `SerialStore`. `CommitsCount`, that tables which have changed were
changed by a commit, gives `TurnedAwayByAnother` the transaction that is to
blame where nobody holds the lock (`InTheWay`).

**Upload body.** `Counted`: what the reader still allows and what has reached
the store add up to the limit. `Decided`: what was found of the extension and of
the end of the file still holds when the row is written.

**Cookies.** `Earned(c)`: a cookie was made for a word that its subject had, and
ends when it should. `Sound(h)`: what a handler has concluded follows from such
a cookie, or from such a comparison.

**Rate limiter.** `InTime`: a bucket of the map is that of a limiter without
sweep, or both are closed, and no bucket is older than the last sweep allows.
`Attributed`: every call was counted under the key of the client it was made
for, by the lemma `ClientsAreRecognised` about the header. `LastWindows` counts
for `TwoWindowsWorth`: the last window of a key let in what its bucket counts,
the window's length before it at most one window's worth, and nothing came
after. The windows are those of the limiter without sweep, since a swept bucket
takes with it the memory of when its window was; that both let in the same calls
is `SweepingIsInvisible`. `TwoWindowsPerClient` counts the calls made *for* a
client, under whatever key; with `Attributed` they are those counted under its
own.

**Local store.** `InOrder`, `Placed` and `Swept` say which files and directories
are there at each step of a call; `Swept` is what keeps a directory from being
forgotten.

**Startup.** `Progress`: what the earlier statements of a start achieved stays
so although they ran outside a transaction. `LinksAgree`, `NothingGarbled` and
`CfgCounted` say that links lead to the upload's own envelope, no digest was
hashed again, and this process is among those `lax` speaks of. `ReceiptsAreKept`
has two halves: a step leaves the token of an envelope alone (`TokensStay`), and
no two envelopes share one (`TokensApart`), since tokens are given one at a time,
each the next one, to envelopes without (`GivingOnce`).

**Only model-checked:** the four liveness properties, `SealEventuallyRecorded`,
`NoObjectStranded`, `EveryTransactionEnds` and `EveryUploadIsAnswered`, since this
prover does not reach fairness and `ENABLED`. The safety half of the first two,
that there is a handler to do what must happen eventually, is proved
(`SealsAreAccountedFor`, `NothingIsForgotten`). Every other property of a run is also
proved. Nothing is proved about recursive definitions; there are none.

## 5. What is not modelled

- **S3.** Three SDK calls; their contract is `BlobStore`, their failures are
  failed requests.
- **SQLite's inside.** Checkpoints, the file format, and durability: a committed
  transaction stays.
- **Identifiers.** Random names, fresh in the models.
- **Configuration.** Parsing and wording of refusals. What values mean is in the
  modules they act on.
- **Process start and shutdown.** The health check and password commands. The
  15 seconds of shutdown are the cut of a request.
- **A restart of the limiter**, which forgets all windows: by design state in
  memory.
- **Routing, static files, presentation, deployment.** No state, or other
  programs.
- **The frontend.** The server modules let requests arrive in any order and
  number, which covers every client. The state of dashboard, upload page and key
  store is the browser's own; E2E formats and encryption are outside.

## 6. Plan

Done, in this order: page lifecycle with its register; intake; reports; rate
limiter; local store; startup; transactions on SQLite; upload requests; cookies;
client identification; configurations; and the proofs of section 4.

Next:

1. The safety halves of the other two liveness properties: a transaction that
   waits has another in front of it that does not (`EveryTransactionEnds`), a
   request that is not answered has a step to take (`EveryUploadIsAnswered`).
2. What remains of the limiter's theorems when readings are late (`MaxLag > 0`).
3. `Dashboard` and `UploadClient`: answers out of order, retries; composed with
   `Intake`.
4. `E2EKeyStore`: records of the admin's browser.
