------------------------- MODULE FileBlobStoreProofs -------------------------
(***************************************************************************)
(* Theorems about FileBlobStore, for any number of calls, cut anywhere, by *)
(* processes and machines that die anywhere.                               *)
(***************************************************************************)
EXTENDS FileBlobStore, TLAPS

UploadSteps == {"mkdirShared", "mkdir", "create", "copy", "sync", "rename", "undo"}

\* A call is at a step of its own kind, and one that deletes or reads is about an
\* object whose upload has succeeded.
InOrder(r) ==
    /\ req[r].at = "idle" <=> req[r].op = "idle"
    /\ req[r].at \in UploadSteps => req[r].op = "upload"
    /\ req[r].op = "upload" => req[r].at \in UploadSteps \cup {"ok", "failed", "dead"}
    /\ req[r].op \in {"delete", "download"} =>
           req[req[r].key].op = "upload" /\ req[req[r].key].at = "ok"
    /\ req[r].at \in {"remove", "rmdir"} => req[r].op = "delete"
    /\ req[r].at = "dead" => crashed

\* The files and directories of an upload are those of the step it is at.
Placed(k) ==
    /\ temp[k] # "absent" =>
           req[k].op = "upload" /\ req[k].at \in {"copy", "sync", "rename", "undo", "dead"}
    /\ req[k].at = "sync" => temp[k] = "whole"
    /\ req[k].at = "rename" => temp[k] = "synced"
    /\ object[k] # "absent" =>
           object[k] = "synced" /\ req[k].op = "upload" /\ req[k].at = "ok"
    /\ req[k].at \in {"mkdir", "create", "copy", "sync", "rename"} => shared
    /\ req[k].at \in {"create", "copy", "sync", "rename"} => k \in dirs
    /\ k \in dirs => req[k].op = "upload" /\ req[k].at \notin {"mkdirShared", "mkdir"}
    /\ req[k].op = "upload" /\ k \notin Abortable => req[k].at \notin {"undo", "failed"}

\* The directory of an object that is gone is there for a delete to remove.
Swept(k) ==
    k \in dirs /\ object[k] = "absent" /\ req[k].at = "ok" /\ ~crashed
    => \E r \in Requests : req[r].at = "rmdir" /\ req[r].key = k

IInv ==
    /\ TypeOK
    /\ \A r \in Requests : InOrder(r)
    /\ \A k \in Requests : Placed(k)
    /\ \A k \in Requests : Swept(k)

LEMMA InitHolds == Init => IInv
<1> SUFFICES ASSUME Init PROVE IInv
  OBVIOUS
<1>1. \A r \in Requests : req[r] = [op |-> "idle", at |-> "idle", key |-> r]
  BY DEF Init
<1>2. TypeOK
  BY DEF Init, TypeOK, Contents, Handler, Ops, Steps
<1>3. \A r \in Requests : InOrder(r)
  <2>1. ASSUME NEW r \in Requests PROVE InOrder(r)
    <3>1. req[r] = [op |-> "idle", at |-> "idle", key |-> r]
      BY <1>1
    <3>2. req[r].op = "idle" /\ req[r].at = "idle"
      BY <3>1
    <3> QED BY <3>2 DEF InOrder, UploadSteps
  <2> QED BY <2>1
<1>4. \A k \in Requests : Placed(k) /\ Swept(k)
  BY <1>1 DEF Init, Placed, Swept
<1> QED BY <1>2, <1>3, <1>4 DEF IInv

\* What a step that moves one upload on, and touches no file but its own, must
\* show.
LEMMA UploadMoves ==
    ASSUME IInv, NEW r \in Requests, NEW step \in UploadSteps \cup {"ok", "failed"},
           req[r].at \in UploadSteps, Goto(r, step), crashed' = crashed,
           shared' \in BOOLEAN, shared => shared',
           dirs' \in SUBSET Requests, dirs \subseteq dirs', dirs' \subseteq dirs \cup {r},
           NEW t \in Contents, temp' = [temp EXCEPT ![r] = t],
           NEW c \in Contents, object' = [object EXCEPT ![r] = c],
           Placed(r)', step = "ok" => c # "absent"
    PROVE  IInv'
<1>1. req[r] \in Handler /\ req[r].op = "upload"
  BY DEF IInv, TypeOK, InOrder
<1>2. req'[r] \in Handler /\ req'[r].at = step /\ req'[r].op = req[r].op /\ req'[r].key = req[r].key
      /\ req' \in [Requests -> Handler]
      /\ \A q \in Requests \ {r} : req'[q] = req[q]
  BY <1>1 DEF Goto, IInv, TypeOK, Handler, Steps, UploadSteps
<1>3. TypeOK'
  BY <1>2 DEF IInv, TypeOK
<1>4. \A q \in Requests : InOrder(q)'
  <2>1. \A q \in Requests : req[q].key \in Requests /\ (req[q].op \in {"delete", "download"} => req[q].key # r)
    BY DEF IInv, TypeOK, InOrder, Handler, UploadSteps
  <2>2. ASSUME NEW q \in Requests PROVE InOrder(q)'
    BY <1>1, <1>2, <2>1 DEF IInv, InOrder, UploadSteps
  <2> QED BY <2>2
<1>5. \A k \in Requests : Placed(k)'
  <2>1. ASSUME NEW k \in Requests \ {r} PROVE Placed(k)'
    BY <1>2, <2>1 DEF IInv, TypeOK, Placed
  <2> QED BY <2>1
<1>6. \A k \in Requests : Swept(k)'
  <2>1. ASSUME NEW k \in Requests \ {r} PROVE Swept(k)'
    <3>1. \A q \in Requests : req[q].at = "rmdir" => q # r
      BY DEF UploadSteps
    <3> QED BY <1>2, <2>1, <3>1 DEF IInv, TypeOK, Swept
  <2>2. Swept(r)'
    BY <1>2 DEF IInv, TypeOK, Swept
  <2> QED BY <2>1, <2>2
<1> QED BY <1>3, <1>4, <1>5, <1>6 DEF IInv

LEMMA UploadKeeps ==
    ASSUME IInv, NEW r \in Requests,
           \/ UploadMkdirShared(r) \/ UploadMkdir(r) \/ UploadCreate(r)
           \/ UploadCopy(r) \/ UploadSync(r) \/ UploadRename(r)
           \/ UploadCut(r) \/ UploadUndo(r)
    PROVE  IInv'
<1>1. TypeOK /\ InOrder(r) /\ Placed(r)
  BY DEF IInv
<1>2. /\ req[r] \in Handler /\ temp[r] \in Contents /\ object[r] \in Contents
      /\ temp = [temp EXCEPT ![r] = temp[r]] /\ object = [object EXCEPT ![r] = object[r]]
      /\ shared \in BOOLEAN /\ dirs \subseteq Requests
  BY <1>1 DEF TypeOK
<1>3. \A step : Goto(r, step) => req'[r].at = step /\ req'[r].op = req[r].op
  BY <1>1 DEF Goto, TypeOK, Handler
<1>4. CASE UploadMkdirShared(r)
  <2>1. Placed(r)'
    BY <1>1, <1>2, <1>3, <1>4 DEF UploadMkdirShared, At, InOrder, Placed, UploadSteps
  <2> QED BY <1>2, <1>4, <2>1, UploadMoves DEF UploadMkdirShared, At, UploadSteps
<1>5. CASE UploadMkdir(r)
  <2>1. shared
    BY <1>1, <1>5 DEF UploadMkdir, At, Placed
  <2>2. Placed(r)'
    BY <1>1, <1>2, <1>3, <1>5, <2>1 DEF UploadMkdir, At, InOrder, Placed, UploadSteps
  <2> QED BY <1>2, <1>5, <2>1, <2>2, UploadMoves DEF UploadMkdir, At, UploadSteps
<1>6. CASE UploadCreate(r)
  <2>1. r \in dirs
    BY <1>1, <1>6 DEF UploadCreate, At, Placed
  <2>2. Placed(r)'
    BY <1>1, <1>2, <1>3, <1>6, <2>1 DEF UploadCreate, At, InOrder, Placed, UploadSteps, TypeOK
  <2>3. /\ Goto(r, "copy") /\ temp' = [temp EXCEPT ![r] = "partial"]
        /\ object' = [object EXCEPT ![r] = object[r]]
        /\ UNCHANGED <<shared, dirs, crashed>> /\ req[r].at \in UploadSteps
    BY <1>2, <1>6, <2>1 DEF UploadCreate, At, UploadSteps
  <2>4. "partial" \in Contents /\ "copy" \in UploadSteps \cup {"ok", "failed"} /\ "copy" # "ok"
    BY DEF Contents, UploadSteps
  <2> QED BY <1>2, <2>1, <2>2, <2>3, <2>4, UploadMoves
<1>7. CASE UploadCopy(r)
  <2>1. Placed(r)'
    BY <1>1, <1>2, <1>3, <1>7 DEF UploadCopy, At, InOrder, Placed, UploadSteps, TypeOK
  <2>3. /\ Goto(r, "sync") /\ temp' = [temp EXCEPT ![r] = "whole"]
        /\ object' = [object EXCEPT ![r] = object[r]]
        /\ UNCHANGED <<shared, dirs, crashed>> /\ req[r].at \in UploadSteps
    BY <1>2, <1>7 DEF UploadCopy, At, UploadSteps
  <2>4. "whole" \in Contents /\ "sync" \in UploadSteps \cup {"ok", "failed"} /\ "sync" # "ok"
    BY DEF Contents, UploadSteps
  <2> QED BY <1>2, <2>1, <2>3, <2>4, UploadMoves
<1>8. CASE UploadSync(r)
  <2>1. Placed(r)'
    BY <1>1, <1>2, <1>3, <1>8 DEF UploadSync, At, InOrder, Placed, UploadSteps, TypeOK
  <2>3. /\ Goto(r, "rename") /\ temp' = [temp EXCEPT ![r] = "synced"]
        /\ object' = [object EXCEPT ![r] = object[r]]
        /\ UNCHANGED <<shared, dirs, crashed>> /\ req[r].at \in UploadSteps
    BY <1>2, <1>8 DEF UploadSync, At, UploadSteps
  <2>4. "synced" \in Contents /\ "rename" \in UploadSteps \cup {"ok", "failed"} /\ "rename" # "ok"
    BY DEF Contents, UploadSteps
  <2> QED BY <1>2, <2>1, <2>3, <2>4, UploadMoves
<1>9. CASE UploadRename(r)
  <2>1. temp[r] = "synced"
    BY <1>1, <1>9 DEF UploadRename, At, Placed
  <2>2. Placed(r)'
    BY <1>1, <1>2, <1>3, <1>9, <2>1 DEF UploadRename, At, InOrder, Placed, UploadSteps, TypeOK
  <2> QED BY <1>2, <1>9, <2>1, <2>2, UploadMoves DEF UploadRename, At, UploadSteps, Contents
<1>10. CASE UploadCut(r)
  <2>1. PICK step \in {"failed", "undo"} :
            /\ Goto(r, step) /\ r \in Abortable
            /\ step = "failed" => req[r].at \in {"mkdirShared", "mkdir", "create"}
            /\ step = "undo" => req[r].at \in {"copy", "sync", "rename"}
    BY <1>10 DEF UploadCut
  <2>2. Placed(r)'
    BY <1>1, <1>2, <1>3, <1>10, <2>1 DEF UploadCut, InOrder, Placed, UploadSteps
  <2>3. UNCHANGED <<shared, dirs, temp, object, crashed>>
    BY <1>10 DEF UploadCut
  <2> QED BY <1>2, <2>1, <2>2, <2>3, UploadMoves DEF UploadSteps
<1>11. CASE UploadUndo(r)
  <2>1. Placed(r)'
    BY <1>1, <1>2, <1>3, <1>11 DEF UploadUndo, At, InOrder, Placed, UploadSteps, TypeOK
  <2>3. /\ Goto(r, "failed") /\ temp' = [temp EXCEPT ![r] = "absent"]
        /\ object' = [object EXCEPT ![r] = object[r]]
        /\ UNCHANGED <<shared, dirs, crashed>> /\ req[r].at \in UploadSteps
    BY <1>2, <1>11 DEF UploadUndo, At, UploadSteps
  <2>4. "absent" \in Contents /\ "failed" \in UploadSteps \cup {"ok", "failed"} /\ "failed" # "ok"
    BY DEF Contents, UploadSteps
  <2> QED BY <1>2, <2>1, <2>3, <2>4, UploadMoves
<1> QED BY <1>4, <1>5, <1>6, <1>7, <1>8, <1>9, <1>10, <1>11

LEMMA BeginKeeps ==
    ASSUME IInv, NEW r \in Requests, NEW k \in Requests,
           UploadBegin(r) \/ DeleteBegin(r, k) \/ DownloadBegin(r, k)
    PROVE  IInv'
<1>1. PICK op \in {"upload", "delete", "download"}, step \in {"mkdirShared", "remove", "open"},
           key \in Requests :
          /\ req[r].at = "idle"
          /\ req' = [req EXCEPT ![r] = [op |-> op, at |-> step, key |-> key]]
          /\ UNCHANGED <<shared, dirs, temp, object, crashed>>
          /\ op = "upload" <=> step = "mkdirShared"
          /\ step = "remove" => op = "delete"
          /\ op # "upload" => req[key].op = "upload" /\ req[key].at = "ok"
  BY DEF UploadBegin, DeleteBegin, DownloadBegin, Begin, At
<1>2. TypeOK'
  BY <1>1 DEF IInv, TypeOK, Handler, Ops, Steps
<1>3. req'[r] = [op |-> op, at |-> step, key |-> key] /\ \A q \in Requests \ {r} : req'[q] = req[q]
  BY <1>1 DEF IInv, TypeOK
<1>4. req[r].op = "idle" /\ \A q \in Requests : req[q].key \in Requests
  BY <1>1 DEF IInv, TypeOK, InOrder, Handler
<1>5. ASSUME NEW q \in Requests PROVE InOrder(q)'
  <2>1. CASE q = r
    <3>1. req'[r].op = op /\ req'[r].at = step /\ req'[r].key = key
      BY <1>3
    <3>2. op # "upload" => req'[key] = req[key]
      BY <1>1, <1>3
    <3>3. step = "remove" => op = "delete"
      BY <1>1
    <3> QED BY <1>1, <2>1, <3>1, <3>2, <3>3 DEF InOrder, UploadSteps
  <2>2. CASE q # r
    <3>1. req[q].op \in {"delete", "download"} => req[q].key # r
      BY <1>1 DEF IInv, InOrder
    <3> QED BY <1>1, <1>3, <1>4, <2>2, <3>1 DEF IInv, InOrder
  <2> QED BY <2>1, <2>2
<1>6. ASSUME NEW q \in Requests PROVE Placed(q)'
  BY <1>1, <1>3, <1>4 DEF IInv, Placed
<1>7. ASSUME NEW q \in Requests PROVE Swept(q)'
  BY <1>1, <1>3, <1>4 DEF IInv, Swept
<1> QED BY <1>2, <1>5, <1>6, <1>7 DEF IInv

LEMMA DeleteKeeps ==
    ASSUME IInv, NEW r \in Requests,
           DeleteRemove(r) \/ DeleteRmdir(r) \/ DownloadOpen(r)
    PROVE  IInv'
<1> DEFINE k == req[r].key
<1>1. PICK step \in {"ok", "rmdir", "notFound"} :
          /\ Goto(r, step) /\ req[r].at \in {"remove", "rmdir", "open"}
          /\ step = "rmdir" => req[r].at = "remove"
          /\ UNCHANGED <<shared, temp, crashed>>
          /\ dirs' = IF req[r].at = "rmdir" /\ IsEmpty(k) THEN dirs \ {k} ELSE dirs
          /\ object' = IF req[r].at = "remove" THEN [object EXCEPT ![k] = "absent"] ELSE object
          /\ req[r].at = "remove" /\ object[k] # "absent" => step = "rmdir"
  BY DEF DeleteRemove, DeleteRmdir, DownloadOpen, At
<1>2. req[r] \in Handler /\ k \in Requests /\ req[r].op \in {"delete", "download"}
  BY <1>1 DEF IInv, TypeOK, InOrder, Handler, UploadSteps, Ops
<1>3. /\ req[k].op = "upload" /\ req[k].at = "ok" /\ k # r
      /\ req[r].at = "rmdir" => req[r].op = "delete"
  BY <1>1, <1>2 DEF IInv, InOrder
<1>4. /\ req'[r].at = step /\ req'[r].op = req[r].op /\ req'[r].key = k
      /\ \A q \in Requests \ {r} : req'[q] = req[q]
      /\ req' \in [Requests -> Handler]
  BY <1>1, <1>2 DEF Goto, IInv, TypeOK, Handler, Steps
<1>5. TypeOK'
  BY <1>1, <1>2, <1>4 DEF IInv, TypeOK, Contents
<1>6. ASSUME NEW q \in Requests PROVE InOrder(q)'
  <2>1. CASE q = r
    <3>1. req'[req'[r].key] = req[k]
      BY <1>2, <1>3, <1>4
    <3>2. req'[r].at = "rmdir" => req[r].op = "delete"
      BY <1>1, <1>4, <2>1 DEF IInv, InOrder
    <3>3. req'[r].at \in {"ok", "rmdir", "notFound"}
      BY <1>4
    <3> QED BY <1>2, <1>3, <1>4, <2>1, <3>1, <3>2, <3>3 DEF InOrder, UploadSteps
  <2>2. CASE q # r
    <3>1. req[q].op \in {"delete", "download"} => req[q].key \in Requests /\ req[q].key # r
      BY <1>2 DEF IInv, TypeOK, Handler, InOrder
    <3> QED BY <1>1, <1>4, <2>2, <3>1 DEF IInv, InOrder
  <2> QED BY <2>1, <2>2
<1>7. ASSUME NEW q \in Requests PROVE Placed(q)'
  BY <1>1, <1>2, <1>3, <1>4 DEF IInv, TypeOK, Placed
<1>8. ASSUME NEW q \in Requests PROVE Swept(q)'
  BY <1>1, <1>2, <1>3, <1>4 DEF IInv, TypeOK, Placed, Swept, IsEmpty
<1> QED BY <1>5, <1>6, <1>7, <1>8 DEF IInv

LEMMA CrashKeeps ==
    ASSUME IInv, NEW power \in BOOLEAN, Crash(power)
    PROVE  IInv'
<1> DEFINE left(c) == IF power /\ c = "whole" THEN "partial" ELSE c
<1>1. /\ \A k \in Requests : temp'[k] = left(temp[k]) /\ object'[k] = left(object[k])
      /\ temp' \in [Requests -> Contents] /\ object' \in [Requests -> Contents]
      /\ crashed' = TRUE /\ UNCHANGED <<shared, dirs>>
  BY DEF Crash, IInv, TypeOK, Contents
<1>2. /\ req' \in [Requests -> Handler]
      /\ \A r \in Requests :
            /\ req'[r].op = req[r].op /\ req'[r].key = req[r].key
            /\ req'[r].at = IF req[r].at \in {"idle"} \cup Ended THEN req[r].at ELSE "dead"
  BY DEF Crash, IInv, TypeOK, Handler, Steps
<1>3. TypeOK'
  BY <1>1, <1>2 DEF IInv, TypeOK
<1>4. ASSUME NEW q \in Requests PROVE InOrder(q)'
  <2>1. InOrder(q) /\ (req[q].op \in {"delete", "download"} => req[q].key \in Requests)
    BY DEF IInv, TypeOK, Handler
  <2>2. \/ req'[q].at = req[q].at /\ req[q].at \in {"idle"} \cup Ended
        \/ req'[q].at = "dead" /\ req[q].at # "idle"
    BY <1>2
  <2>3. /\ req'[q].at = "idle" <=> req'[q].op = "idle"
        /\ req'[q].at \in UploadSteps => req'[q].op = "upload"
        /\ req'[q].op = "upload" => req'[q].at \in UploadSteps \cup {"ok", "failed", "dead"}
        /\ req'[q].at \in {"remove", "rmdir"} => req'[q].op = "delete"
    BY <1>2, <2>1, <2>2 DEF InOrder, UploadSteps, Ended
  <2>4. req'[q].op \in {"delete", "download"} =>
            req'[req'[q].key].op = "upload" /\ req'[req'[q].key].at = "ok"
    BY <1>2, <2>1 DEF InOrder, Ended
  <2> QED BY <1>1, <2>3, <2>4 DEF InOrder
<1>5. ASSUME NEW q \in Requests PROVE Placed(q)'
  BY <1>1, <1>2 DEF IInv, Placed, Ended
<1>6. ASSUME NEW q \in Requests PROVE Swept(q)'
  BY <1>1 DEF Swept
<1> QED BY <1>3, <1>4, <1>5, <1>6 DEF IInv

LEMMA StepKeeps == IInv /\ [Next]_vars => IInv'
<1>1. IInv /\ UNCHANGED vars => IInv'
  BY DEF IInv, vars, TypeOK, InOrder, Placed, Swept
<1> QED BY <1>1, UploadKeeps, BeginKeeps, DeleteKeeps, CrashKeeps DEF Next

LEMMA InvariantHolds == Spec => []IInv
BY InitHolds, StepKeeps, PTL DEF Spec
(***************************************************************************)
(* The theorems.                                                           *)
(***************************************************************************)

\* Every reachable state is well typed.
THEOREM TypeCorrect == Spec => []TypeOK
<1>1. IInv => TypeOK
  BY DEF IInv
<1> QED BY <1>1, InvariantHolds, PTL

\* Where an upload answered with an error there is no object.
THEOREM FailuresPublishNothing == Spec => []FailedUploadPublishesNothing
<1>1. IInv => FailedUploadPublishesNothing
  BY DEF IInv, Placed, FailedUploadPublishesNothing, At
<1> QED BY <1>1, InvariantHolds, PTL

\* Whatever deletes run beside it, an upload that nothing cuts does not fail.
THEOREM UploadsDoNotInterfere == Spec => []UploadsFailOnlyOnTheirOwn
<1>1. IInv => UploadsFailOnlyOnTheirOwn
  BY DEF IInv, Placed, UploadsFailOnlyOnTheirOwn, At
<1> QED BY <1>1, InvariantHolds, PTL

\* Without a crash, ended calls leave no temporary file and no spare directory.
THEOREM NothingIsLeft == Spec => []NothingLeftBehind
<1>1. ASSUME IInv, ~crashed, \A r \in Requests : req[r].at \in {"idle"} \cup Ended
      PROVE  /\ \A k \in Requests : temp[k] = "absent"
             /\ \A k \in dirs : object[k] # "absent" \/ At(k, "failed")
  <2>1. ASSUME NEW k \in Requests PROVE temp[k] = "absent"
    BY <1>1 DEF IInv, Placed, InOrder, Ended
  <2>2. ASSUME NEW k \in dirs, object[k] = "absent" PROVE At(k, "failed")
    <3>1. k \in Requests /\ req[k].op = "upload"
      BY <1>1, <2>2 DEF IInv, TypeOK, Placed
    <3>2. req[k].at \in {"ok", "failed"}
      BY <1>1, <3>1 DEF IInv, InOrder, Ended, UploadSteps
    <3>3. req[k].at # "ok"
      BY <1>1, <2>2, <3>1 DEF IInv, Swept, Ended
    <3> QED BY <3>2, <3>3 DEF At
  <2> QED BY <2>1, <2>2
<1>2. IInv => NothingLeftBehind
  BY <1>1 DEF NothingLeftBehind
<1> QED BY <1>2, InvariantHolds, PTL
(***************************************************************************)
(* The refinement of BlobStore.                                            *)
(***************************************************************************)

Given == {r \in Requests : req[r].op = "download" /\ At(r, "ok")}

Lives == [k \in Requests |-> LifeOf(k)]

\* Nothing changes for the handlers while no object does, and no call succeeds
\* but a delete's.
LEMMA Stutters ==
    ASSUME IInv, object' = object,
           \A r \in Requests :
               \/ req'[r] = req[r]
               \/ req[r].at # "ok" /\ (req'[r].at # "ok" \/ req'[r].op = "delete")
    PROVE  Lives' = Lives /\ Given' = Given
<1>1. ASSUME NEW k \in Requests PROVE LifeOf(k)' = LifeOf(k)
  BY DEF LifeOf, At
<1>2. ASSUME NEW r \in Requests
      PROVE  req'[r].op = "download" /\ req'[r].at = "ok" <=>
                 req[r].op = "download" /\ req[r].at = "ok"
  <2>1. CASE req'[r] = req[r]
    BY <2>1
  <2>2. CASE req'[r] # req[r]
    <3>1. req[r].at # "ok" /\ (req'[r].at # "ok" \/ req'[r].op = "delete")
      BY <2>2
    <3> QED BY <3>1
  <2> QED BY <2>1, <2>2
<1> QED BY <1>1, <1>2 DEF Lives, Given, At

\* What a step of one call changes of the others.
LEMMA OneMoves ==
    ASSUME IInv, NEW r \in Requests, NEW step \in Steps, Goto(r, step)
    PROVE  /\ req'[r].at = step /\ req'[r].op = req[r].op /\ req'[r].key = req[r].key
           /\ \A q \in Requests \ {r} : req'[q] = req[q]
BY DEF Goto, IInv, TypeOK, Handler

LEMMA RenamePuts ==
    ASSUME IInv, NEW r \in Requests, UploadRename(r)
    PROVE  Store!Put(r)
<1>1. req[r].op = "upload" /\ req[r].at = "rename" /\ temp[r] = "synced" /\ object[r] = "absent"
  BY DEF UploadRename, At, IInv, InOrder, Placed, UploadSteps
<1>2. /\ req'[r].at = "ok" /\ req'[r].op = "upload"
      /\ \A q \in Requests \ {r} : req'[q] = req[q]
  BY <1>1, OneMoves DEF UploadRename, Steps
<1>3. object'[r] = "synced" /\ \A q \in Requests \ {r} : object'[q] = object[q]
  BY <1>1 DEF UploadRename, IInv, TypeOK
<1>4. LifeOf(r) = "absent" /\ LifeOf(r)' = "held"
      /\ \A q \in Requests \ {r} : LifeOf(q)' = LifeOf(q)
  BY <1>1, <1>2, <1>3 DEF LifeOf, At
<1>5. Lives' = [Lives EXCEPT ![r] = "held"] /\ Lives[r] = "absent"
  BY <1>4 DEF Lives
<1>6. Given' = Given
  BY <1>1, <1>2 DEF Given, At
<1> QED BY <1>5, <1>6 DEF Store!Put, Lives, Given

LEMMA RemoveDeletes ==
    ASSUME IInv, NEW r \in Requests, DeleteRemove(r)
    PROVE  \/ \E k \in Requests : Store!Delete(k)
           \/ Lives' = Lives /\ Given' = Given
<1>0. PICK k \in Requests : k = req[r].key
  BY DEF IInv, TypeOK, Handler
<1>1. /\ req[r].at = "remove" /\ req[r].op = "delete" /\ k \in Requests
      /\ req[k].op = "upload" /\ req[k].at = "ok" /\ k # r
  BY <1>0 DEF DeleteRemove, At, IInv, TypeOK, Handler, InOrder
<1>2. /\ req'[r].op = "delete" /\ \A q \in Requests \ {r} : req'[q] = req[q]
  BY <1>1, OneMoves DEF DeleteRemove, Steps
<1>3. object'[k] = "absent" /\ \A q \in Requests \ {k} : object'[q] = object[q]
  BY <1>0, <1>1 DEF DeleteRemove, IInv, TypeOK
<1>4. Given' = Given
  BY <1>1, <1>2 DEF Given, At
<1>5. \A q \in Requests \ {k} : LifeOf(q)' = LifeOf(q)
  BY <1>1, <1>2, <1>3 DEF LifeOf, At
<1>6. LifeOf(k)' = "deleted"
  BY <1>1, <1>2, <1>3 DEF LifeOf, At
<1>7. CASE object[k] = "absent"
  <2>1. LifeOf(k) = "deleted"
    BY <1>1, <1>7 DEF LifeOf, At
  <2> QED BY <1>4, <1>5, <1>6, <2>1 DEF Lives
<1>8. CASE object[k] # "absent"
  <2>1. LifeOf(k) = "held"
    BY <1>1, <1>8 DEF LifeOf, IInv, Placed
  <2>2. Lives' = [Lives EXCEPT ![k] = "deleted"] /\ Lives[k] = "held"
    BY <1>1, <1>5, <1>6, <2>1 DEF Lives
  <2> QED BY <1>1, <1>4, <2>2 DEF Store!Delete, Lives, Given
<1> QED BY <1>7, <1>8

LEMMA OpenGives ==
    ASSUME IInv, NEW r \in Requests, DownloadOpen(r)
    PROVE  \/ \E k \in Requests : Store!Give(r, k)
           \/ Lives' = Lives /\ Given' = Given
<1> DEFINE k == req[r].key
<1>1. req[r].at = "open" /\ req[r].op \in {"delete", "download"} /\ k \in Requests
  BY DEF DownloadOpen, At, IInv, TypeOK, Handler, InOrder, UploadSteps, Ops
<1>2. /\ req'[r].at = IF object[k] = "absent" THEN "notFound" ELSE "ok"
      /\ req'[r].op = req[r].op /\ object' = object
      /\ \A q \in Requests \ {r} : req'[q] = req[q]
  BY OneMoves DEF DownloadOpen, Steps
<1>3. \A q \in Requests : LifeOf(q)' = LifeOf(q)
  BY <1>1, <1>2 DEF LifeOf, At
<1>4. Lives' = Lives
  BY <1>3 DEF Lives
<1>5. CASE object[k] = "absent" \/ req[r].op = "delete"
  BY <1>1, <1>2, <1>4, <1>5 DEF Given, At
<1>6. CASE object[k] # "absent" /\ req[r].op = "download"
  <2>1. LifeOf(k) = "held"
    BY <1>1, <1>6 DEF LifeOf, IInv, Placed
  <2>2. Given' = Given \cup {r}
    BY <1>1, <1>2, <1>6 DEF Given, At
  <2>3. Lives[k] = "held"
    BY <1>1, <2>1 DEF Lives
  <2> QED BY <1>1, <1>4, <2>2, <2>3 DEF Store!Give, Lives, Given
<1> QED BY <1>1, <1>5, <1>6

\* An object appears whole or not at all, stays until it is deleted and does not
\* come back, whatever races and wherever process or machine die.
THEOREM Refinement == Spec => ImplementsBlobStore
<1>1. Init => Store!Init
  <2> SUFFICES ASSUME Init PROVE Store!Init
    OBVIOUS
  <2>1. \A r \in Requests : /\ req[r] = [op |-> "idle", at |-> "idle", key |-> r]
                            /\ object[r] = "absent"
    BY DEF Init
  <2>2. ASSUME NEW r \in Requests PROVE req[r].op = "idle" /\ object[r] = "absent"
    <3>1. req[r] = [op |-> "idle", at |-> "idle", key |-> r] /\ object[r] = "absent"
      BY <2>1
    <3> QED BY <3>1
  <2>3. \A k \in Requests : LifeOf(k) = "absent"
    BY <2>2 DEF LifeOf
  <2> QED BY <2>2, <2>3 DEF Store!Init
<1>2. ASSUME IInv, [Next]_vars PROVE [Store!Next]_(Store!blobVars)
  <2>1. Lives' = Lives /\ Given' = Given => UNCHANGED Store!blobVars
    BY DEF Lives, Given, Store!blobVars
  <2>2. CASE \E r \in Requests : UploadRename(r)
    BY <1>2, <2>2, RenamePuts DEF Store!Next
  <2>3. CASE \E r \in Requests : DeleteRemove(r)
    BY <1>2, <2>1, <2>3, RemoveDeletes DEF Store!Next
  <2>4. CASE \E r \in Requests : DownloadOpen(r)
    BY <1>2, <2>1, <2>4, OpenGives DEF Store!Next
  <2>5. ASSUME NEW r \in Requests, NEW step \in Steps, Goto(r, step), object' = object,
               req[r].at # "ok", step = "ok" => req[r].op = "delete"
        PROVE  Lives' = Lives /\ Given' = Given
    <3>1. \A q \in Requests :
              \/ req'[q] = req[q]
              \/ req[q].at # "ok" /\ (req'[q].at # "ok" \/ req'[q].op = "delete")
      BY <1>2, <2>5, OneMoves
    <3> QED BY <1>2, <2>5, <3>1, Stutters
  <2>6. ASSUME NEW r \in Requests,
               \/ UploadMkdirShared(r) \/ UploadMkdir(r) \/ UploadCreate(r) \/ UploadCopy(r)
               \/ UploadSync(r) \/ UploadCut(r) \/ UploadUndo(r) \/ DeleteRmdir(r)
        PROVE  Lives' = Lives /\ Given' = Given
    <3>1. PICK step \in Steps : /\ Goto(r, step) /\ object' = object /\ req[r].at # "ok"
                                /\ step = "ok" => req[r].at = "rmdir"
      BY <2>6 DEF UploadMkdirShared, UploadMkdir, UploadCreate, UploadCopy, UploadSync,
         UploadCut, UploadUndo, DeleteRmdir, At, Steps
    <3>2. req[r].at = "rmdir" => req[r].op = "delete"
      BY <1>2 DEF IInv, InOrder
    <3> QED BY <2>5, <3>1, <3>2
  <2>7. ASSUME NEW r \in Requests, NEW k \in Requests,
               UploadBegin(r) \/ DeleteBegin(r, k) \/ DownloadBegin(r, k)
        PROVE  Lives' = Lives /\ Given' = Given
    <3>1. PICK h : /\ req[r].at = "idle" /\ h.at # "ok" /\ object' = object
                   /\ req' = [req EXCEPT ![r] = h]
      BY <2>7 DEF UploadBegin, DeleteBegin, DownloadBegin, Begin
    <3>2. req'[r] = h /\ \A q \in Requests \ {r} : req'[q] = req[q]
      BY <1>2, <3>1 DEF IInv, TypeOK
    <3>3. \A q \in Requests :
              \/ req'[q] = req[q]
              \/ req[q].at # "ok" /\ (req'[q].at # "ok" \/ req'[q].op = "delete")
      BY <3>1, <3>2
    <3> QED BY <1>2, <3>1, <3>3, Stutters
  <2>8. ASSUME NEW power \in BOOLEAN, Crash(power)
        PROVE  Lives' = Lives /\ Given' = Given
    <3>1. object' = object
      <4>1. \A k \in Requests : object[k] # "whole"
        BY <1>2 DEF IInv, Placed
      <4> QED BY <1>2, <2>8, <4>1 DEF Crash, IInv, TypeOK
    <3>2. ASSUME NEW r \in Requests
          PROVE  \/ req'[r] = req[r]
                 \/ req[r].at # "ok" /\ req'[r].at # "ok"
      <4>1. CASE req[r].at \in {"idle"} \cup Ended
        BY <2>8, <4>1 DEF Crash
      <4>2. CASE req[r].at \notin {"idle"} \cup Ended
        <5>1. req'[r] = [req[r] EXCEPT !.at = "dead"]
          BY <2>8, <4>2 DEF Crash
        <5>2. req[r] \in Handler
          BY <1>2 DEF IInv, TypeOK
        <5> QED BY <4>2, <5>1, <5>2 DEF Handler, Ended
      <4> QED BY <4>1, <4>2
    <3> QED BY <1>2, <3>1, <3>2, Stutters
  <2>9. CASE UNCHANGED vars
    BY <2>9 DEF vars, LifeOf, At, Store!blobVars
  <2> QED BY <1>2, <2>1, <2>2, <2>3, <2>4, <2>6, <2>7, <2>8, <2>9 DEF Next
<1> QED BY <1>1, <1>2, InvariantHolds, PTL DEF Spec, ImplementsBlobStore, Store!Spec
=============================================================================
