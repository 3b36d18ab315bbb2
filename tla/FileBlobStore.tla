---------------------------- MODULE FileBlobStore ----------------------------
(***************************************************************************)
(* The local object store.  An upload makes its directories, writes a      *)
(* temporary file beside the place of the object, syncs it and renames it; *)
(* a delete unlinks the object and then its directory.  A step is one      *)
(* system call.  The objects of a page lie in directories of their own     *)
(* (the UUID in the key) beneath one shared directory (prefix and slug).   *)
(*                                                                         *)
(* The file system itself is assumed: a rename or unlink is atomic and     *)
(* survives a loss of power, bytes survive it only once they are synced.   *)
(***************************************************************************)
CONSTANTS
    Requests,   \* calls of the store; an upload's key is named by its call
    Abortable   \* the uploads whose context, source or disk may fail

ASSUME AbortAssumption == Abortable \subseteq Requests

VARIABLES
    shared,   \* the directory of the page exists
    dirs,     \* the directories of single objects that exist
    temp,     \* key -> the temporary file of its upload
    object,   \* key -> the file under the key itself
    req,      \* the state of each call
    crashed   \* history: the process has died before

vars == <<shared, dirs, temp, object, req, crashed>>

\* What a file holds: some of the bytes, all of them, all of them on disk.
Contents == {"absent", "partial", "whole", "synced"}

Ops == {"idle", "upload", "delete", "download"}
Steps == {"idle", "mkdirShared", "mkdir", "create", "copy", "sync", "rename",
          "undo", "remove", "rmdir", "open", "ok", "notFound", "failed", "dead"}
Ended == {"ok", "notFound", "failed", "dead"}

\* key: the upload whose object the call is about.
Handler == [op : Ops, at : Steps, key : Requests]

Init ==
    /\ shared = FALSE
    /\ dirs = {}
    /\ temp = [k \in Requests |-> "absent"]
    /\ object = [k \in Requests |-> "absent"]
    /\ req = [r \in Requests |-> [op |-> "idle", at |-> "idle", key |-> r]]
    /\ crashed = FALSE

-----------------------------------------------------------------------------
Begin(r, op, step, k) ==
    /\ req[r].at = "idle"
    /\ req' = [req EXCEPT ![r] = [op |-> op, at |-> step, key |-> k]]
    /\ UNCHANGED <<shared, dirs, temp, object, crashed>>

At(r, step) == req[r].at = step

Goto(r, step) == req' = [req EXCEPT ![r].at = step]

-----------------------------------------------------------------------------
\* Upload.

UploadBegin(r) == Begin(r, "upload", "mkdirShared", r)

\* MkdirAll makes the missing directories from the top; a directory that is
\* there already is no error, a parent that has gone again is one.
UploadMkdirShared(r) ==
    /\ At(r, "mkdirShared")
    /\ shared' = TRUE
    /\ Goto(r, "mkdir")
    /\ UNCHANGED <<dirs, temp, object, crashed>>

UploadMkdir(r) ==
    /\ At(r, "mkdir")
    /\ dirs' = IF shared THEN dirs \cup {r} ELSE dirs
    /\ Goto(r, IF shared THEN "create" ELSE "failed")
    /\ UNCHANGED <<shared, temp, object, crashed>>

UploadCreate(r) ==
    /\ At(r, "create")
    /\ temp' = IF r \in dirs THEN [temp EXCEPT ![r] = "partial"] ELSE temp
    /\ Goto(r, IF r \in dirs THEN "copy" ELSE "failed")
    /\ UNCHANGED <<shared, dirs, object, crashed>>

\* Mutant: the file is renamed without having been synced.
UploadCopyThenRename(r) ==
    /\ At(r, "copy")
    /\ temp' = [temp EXCEPT ![r] = "whole"]
    /\ Goto(r, "rename")
    /\ UNCHANGED <<shared, dirs, object, crashed>>

UploadCopy(r) ==
    /\ At(r, "copy")
    /\ temp' = [temp EXCEPT ![r] = "whole"]
    /\ Goto(r, "sync")
    /\ UNCHANGED <<shared, dirs, object, crashed>>

UploadSync(r) ==
    /\ At(r, "sync")
    /\ temp' = [temp EXCEPT ![r] = "synced"]
    /\ Goto(r, "rename")
    /\ UNCHANGED <<shared, dirs, object, crashed>>

\* Mutant: the context is looked at after the rename.
UploadRenameThenCheck(r) ==
    /\ At(r, "rename")
    /\ object' = [object EXCEPT ![r] = temp[r]]
    /\ temp' = [temp EXCEPT ![r] = "absent"]
    /\ Goto(r, "ok") \/ (r \in Abortable /\ Goto(r, "failed"))
    /\ UNCHANGED <<shared, dirs, crashed>>

UploadRename(r) ==
    /\ At(r, "rename")
    /\ object' = [object EXCEPT ![r] = temp[r]]
    /\ temp' = [temp EXCEPT ![r] = "absent"]
    /\ Goto(r, "ok")
    /\ UNCHANGED <<shared, dirs, crashed>>

\* The body is too large or breaks off, the context ends, a call fails.
UploadCut(r) ==
    /\ r \in Abortable
    /\ \/ req[r].at \in {"mkdirShared", "mkdir", "create"} /\ Goto(r, "failed")
       \/ req[r].at \in {"copy", "sync", "rename"} /\ Goto(r, "undo")
    /\ UNCHANGED <<shared, dirs, temp, object, crashed>>

\* Mutant: the temporary file is forgotten.
UploadUndoNothing(r) ==
    /\ At(r, "undo")
    /\ Goto(r, "failed")
    /\ UNCHANGED <<shared, dirs, temp, object, crashed>>

UploadUndo(r) ==
    /\ At(r, "undo")
    /\ temp' = [temp EXCEPT ![r] = "absent"]
    /\ Goto(r, "failed")
    /\ UNCHANGED <<shared, dirs, object, crashed>>

-----------------------------------------------------------------------------
\* Delete, of an object whose upload had succeeded, by any number of calls.

DeleteBegin(r, k) ==
    /\ req[k].op = "upload" /\ At(k, "ok")
    /\ Begin(r, "delete", "remove", k)

DeleteRemove(r) ==
    LET k == req[r].key IN
    /\ At(r, "remove")
    /\ object' = [object EXCEPT ![k] = "absent"]
    /\ Goto(r, IF object[k] = "absent" THEN "ok" ELSE "rmdir")
    /\ UNCHANGED <<shared, dirs, temp, crashed>>

IsEmpty(k) == temp[k] = "absent" /\ object[k] = "absent"

\* Mutant: the shared directory goes with its last object's.
DeleteRmdirAll(r) ==
    LET k == req[r].key IN
    /\ At(r, "rmdir")
    /\ dirs' = IF IsEmpty(k) THEN dirs \ {k} ELSE dirs
    /\ shared' = (shared /\ dirs' # {})
    /\ Goto(r, "ok")
    /\ UNCHANGED <<temp, object, crashed>>

\* rmdir takes only an empty directory; its error is ignored.
DeleteRmdir(r) ==
    LET k == req[r].key IN
    /\ At(r, "rmdir")
    /\ dirs' = IF IsEmpty(k) THEN dirs \ {k} ELSE dirs
    /\ Goto(r, "ok")
    /\ UNCHANGED <<shared, temp, object, crashed>>

-----------------------------------------------------------------------------
\* Download: an open file can be read to its end although it is unlinked.

DownloadBegin(r, k) ==
    /\ req[k].op = "upload" /\ At(k, "ok")
    /\ Begin(r, "download", "open", k)

DownloadOpen(r) ==
    /\ At(r, "open")
    /\ Goto(r, IF object[req[r].key] = "absent" THEN "notFound" ELSE "ok")
    /\ UNCHANGED <<shared, dirs, temp, object, crashed>>

-----------------------------------------------------------------------------
\* The process dies, and perhaps the machine with it, which takes the bytes
\* that were not synced.  Nothing looks for temporary files at startup.
Crash(power) ==
    LET left(c) == IF power /\ c = "whole" THEN "partial" ELSE c IN
    /\ \E r \in Requests : req[r].at \notin {"idle"} \cup Ended
    /\ temp' = [k \in Requests |-> left(temp[k])]
    /\ object' = [k \in Requests |-> left(object[k])]
    /\ req' = [r \in Requests |->
                  IF req[r].at \in {"idle"} \cup Ended THEN req[r]
                  ELSE [req[r] EXCEPT !.at = "dead"]]
    /\ crashed' = TRUE
    /\ UNCHANGED <<shared, dirs>>

Next ==
    \/ \E r \in Requests :
          \/ UploadBegin(r) \/ UploadMkdirShared(r) \/ UploadMkdir(r)
          \/ UploadCreate(r) \/ UploadCopy(r) \/ UploadSync(r)
          \/ UploadRename(r) \/ UploadCut(r) \/ UploadUndo(r)
          \/ DeleteRemove(r) \/ DeleteRmdir(r) \/ DownloadOpen(r)
          \/ \E k \in Requests : DeleteBegin(r, k) \/ DownloadBegin(r, k)
    \/ \E power \in BOOLEAN : Crash(power)

Spec == Init /\ [][Next]_vars

-----------------------------------------------------------------------------
TypeOK ==
    /\ shared \in BOOLEAN
    /\ dirs \subseteq Requests
    /\ temp \in [Requests -> Contents]
    /\ object \in [Requests -> Contents]
    /\ req \in [Requests -> Handler]
    /\ crashed \in BOOLEAN

-----------------------------------------------------------------------------
\* "failed local uploads never publish their temporary file" (README.md:153):
\* where an upload answered with an error there is no object.
FailedUploadPublishesNothing ==
    \A k \in Requests :
        req[k].op = "upload" /\ At(k, "failed") => object[k] = "absent"

\* "Keep shared slug and prefix directories in place to avoid racing a
\* concurrent upload" (filesystem.go:155): an upload fails only because its own
\* context, source or disk did, never because of deletes around it.
UploadsFailOnlyOnTheirOwn ==
    \A r \in Requests \ Abortable :
        req[r].op = "upload" => ~At(r, "failed")

\* As long as the process has never died nothing is left behind once all calls
\* have ended: no temporary file, and no directory but those of objects and of
\* uploads that failed.
NothingLeftBehind ==
    ~crashed /\ (\A r \in Requests : req[r].at \in {"idle"} \cup Ended)
    => /\ \A k \in Requests : temp[k] = "absent"
       /\ \A k \in dirs : object[k] # "absent" \/ At(k, "failed")

\* The life of an object as the handlers see it.  One that is there but not
\* complete would be none of the three.
LifeOf(k) ==
    CASE object[k] = "synced" -> "held"
      [] object[k] \in {"partial", "whole"} -> "broken"
      [] object[k] = "absent" /\ req[k].op = "upload" /\ At(k, "ok") -> "deleted"
      [] OTHER -> "absent"

Store == INSTANCE BlobStore WITH
    Keys <- Requests,
    Readers <- Requests,
    life <- [k \in Requests |-> LifeOf(k)],
    given <- {r \in Requests : req[r].op = "download" /\ At(r, "ok")}

\* Whatever races and wherever the process or the machine dies, an object
\* appears whole or not at all, stays until it is deleted and does not come
\* back ("atomically renamed only after the complete stream is synced",
\* README.md:290).
ImplementsBlobStore == Store!Spec
=============================================================================
