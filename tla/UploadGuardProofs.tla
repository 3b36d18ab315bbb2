-------------------------- MODULE UploadGuardProofs --------------------------
(***************************************************************************)
(* Proofs about what stands between a client and a recorded upload: the    *)
(* cookie that lets its request in (SignedCookies), for any pages, PINs,   *)
(* passwords, secrets, lifetimes and any number of requests at a time, and *)
(* the reading of its body (UploadBody), for all limits, allowances,       *)
(* sizes, fields and extensions.                                           *)
(***************************************************************************)
EXTENDS SignedCookies, UploadBody, TLAPS

-----------------------------------------------------------------------------
(* The cookies.                                                            *)

\* A cookie says what happened, wherever it is.
Earned(c) ==
    c # None =>
        /\ c.had = c.word
        /\ c.subject = Admin => c.had \in Password /\ c.expires = c.made + SessionTTL
        /\ c.subject \in Page => c.had \in Pin /\ c.expires = c.made + PinTTL

\* What a handler has found out so far.
Sound(h) ==
    /\ h.step \in {"sent", "read", "let_in"} => Earned(h.cookie)
    /\ h.step = "answered" => Earned(h.sets)
    /\ h.step \in {"sent", "let_in"} /\ h.op \in {"upload", "patch"} => h.subject \in Page
    /\ h.step = "sent" /\ h.op = "patch" => h.word \in Pin \cup {NoPin}
    /\ h.step = "read" => h.subject \in Page /\ h.had = h.saw /\ h.saw \in Pin
    /\ h.step = "let_in" /\ h.op = "upload" /\ h.saw # NoPin =>
           h.cookie # None /\ h.cookie.subject = h.subject
           /\ h.cookie.key = config.secret /\ h.at < h.cookie.expires
    /\ h.step = "let_in" /\ h.op = "patch" =>
           h.word \in Pin \cup {NoPin} /\ h.cookie # None /\ h.cookie.subject = Admin
           /\ h.cookie.key = config.secret /\ h.at < h.cookie.expires

CookieInv ==
    /\ TypeOK
    /\ \A n \in {"session", "pin"} : Earned(jar[n])
    /\ \A r \in Request : Sound(req[r])

LEMMA CookieInitHolds == Init => CookieInv
BY TimesAreNumbers DEF Init, CookieInv, TypeOK, Earned, Sound, Idle, Time

LEMMA HandlerAt ==
    ASSUME TypeOK, NEW r \in Request, req[r].step \in {"sent", "read", "let_in"}
    PROVE  req[r] \in Handler
<1>1. req[r] \in Handler \cup Answer \cup {Idle}
  BY DEF TypeOK
<1>2. \A a \in Answer : a.step = "answered"
  BY DEF Answer
<1>3. Idle.step = "idle"
  BY DEF Idle
<1> QED
  BY <1>1, <1>2, <1>3

\* A request that changes, and nothing else, keeps the invariant when it is sound.
LEMMA BecomesKeeps ==
    ASSUME CookieInv, NEW r \in Request, NEW h \in Handler \cup Answer \cup {Idle},
           Becomes(r, h), Sound(h)
    PROVE  CookieInv'
<1>1. TypeOK'
  BY DEF CookieInv, TypeOK, Becomes
<1>2. \A q \in Request : req'[q] = IF q = r THEN h ELSE req[q]
  BY DEF CookieInv, TypeOK, Becomes
<1>3. \A q \in Request : Sound(req[q])'
  BY <1>2 DEF CookieInv, Becomes, Sound, Earned
<1> QED
  BY <1>1, <1>3 DEF CookieInv, Becomes, Earned

LEMMA IdleKeeps ==
    ASSUME CookieInv, NEW r \in Request, Becomes(r, Idle)
    PROVE  CookieInv'
<1>1. Sound(Idle)
  BY DEF Sound, Idle
<1> QED
  BY <1>1, BecomesKeeps

LEMMA SendKeeps ==
    ASSUME CookieInv, NEW r \in Request, NEW op \in {"logout", "upload", "patch"},
           NEW subject \in Subject, NEW word \in Word \cup {NoPin}, NEW n \in {"session", "pin"},
           op \in {"upload", "patch"} => subject \in Page,
           op = "patch" => word \in Pin \cup {NoPin},
           Send(r, op, subject, word, jar[n])
    PROVE  CookieInv'
<1> DEFINE h == [op |-> op, subject |-> subject, word |-> word, cookie |-> jar[n],
                 saw |-> NoPin, had |-> NoPin, at |-> 0, step |-> "sent"]
<1>1. h \in Handler
  BY TimesAreNumbers DEF CookieInv, TypeOK, Handler, Ops, Time
<1>2. Sound(h)
  BY DEF CookieInv, Sound
<1>3. Becomes(r, h)
  BY DEF Send
<1> QED
  BY <1>1, <1>2, <1>3, BecomesKeeps

LEMMA SignedIsCookie ==
    ASSUME TypeOK, NEW subject \in Subject, NEW ttl \in Nat, NEW word \in Word
    PROVE  Signed(subject, ttl, word, word) \in Cookie
<1>1. now + ttl \in Nat /\ now \in Time /\ config.secret \in Secret
  BY TimesAreNumbers DEF TypeOK, Time
<1> QED
  BY <1>1 DEF Signed, Cookie

LEMMA CookieStepHolds == CookieInv /\ [Next]_vars => CookieInv'
<1> SUFFICES ASSUME CookieInv, [Next]_vars PROVE CookieInv'
  OBVIOUS
<1> USE DEF Word, Subject
<1>1. ASSUME NEW r \in Request, NEW w \in Password, Login(r, w) PROVE CookieInv'
  <2> DEFINE c == Signed(Admin, SessionTTL, w, w)
  <2>1. c \in Cookie
    BY SignedIsCookie, TimesAreNumbers DEF CookieInv
  <2>2. Earned(c)
    BY SubjectsAreDistinct DEF Earned, Signed
  <2>3. Sets("login", c) \in Answer /\ Sound(Sets("login", c))
    BY <2>1, <2>2 DEF Sets, Answer, Ops, Sound
  <2>4. Becomes(r, Sets("login", c))
    BY <1>1 DEF Login
  <2> QED
    BY <2>3, <2>4, BecomesKeeps
<1>2. ASSUME NEW r \in Request, Send(r, "logout", Admin, NoPin, jar.session) PROVE CookieInv'
  <2>1. jar.session = jar["session"]
    OBVIOUS
  <2> QED
    BY <1>2, <2>1, SendKeeps
<1>3. ASSUME NEW r \in Request, Logout(r) PROVE CookieInv'
  <2>1. Sets("logout", None) \in Answer /\ Sound(Sets("logout", None))
    BY DEF Sets, Answer, Ops, Sound, Earned
  <2> QED
    BY <1>3, <2>1, BecomesKeeps, IdleKeeps DEF Logout
<1>4. ASSUME NEW r \in Request, NEW p \in Page, NEW w \in Pin, PinRead(r, p, w) PROVE CookieInv'
  <2> DEFINE h == [op |-> "pin", subject |-> p, word |-> w, cookie |-> None,
                   saw |-> pin[p], had |-> pin[p], at |-> 0, step |-> "read"]
  <2>1. pin[p] \in Pin
    BY <1>4 DEF PinRead, CookieInv, TypeOK
  <2>2. h \in Handler /\ Sound(h)
    BY <2>1, TimesAreNumbers DEF Handler, Ops, Time, Sound, Earned
  <2>3. Becomes(r, h)
    BY <1>4 DEF PinRead
  <2> QED
    BY <2>2, <2>3, BecomesKeeps
<1>5. ASSUME NEW r \in Request, PinCompare(r) PROVE CookieInv'
  <2>1. req[r].subject \in Page /\ req[r].had = req[r].saw /\ req[r].saw \in Pin
    BY <1>5 DEF PinCompare, At, CookieInv, Sound
  <2>2. CASE req[r].word = req[r].saw
    <3> DEFINE p == req[r].subject
               w == req[r].word
               c == Signed(p, PinTTL, w, w)
    <3>1. p \in Page /\ w \in Pin /\ req[r].had = w
      BY <2>1, <2>2
    <3>2. c \in Cookie
      BY <3>1, SignedIsCookie, TimesAreNumbers DEF CookieInv
    <3>3. Earned(c)
      BY <3>1, SubjectsAreDistinct DEF Earned, Signed
    <3>4. Sets("pin", c) \in Answer /\ Sound(Sets("pin", c))
      BY <3>2, <3>3 DEF Sets, Answer, Ops, Sound
    <3>5. Becomes(r, Sets("pin", c))
      BY <1>5, <2>2, <3>1 DEF PinCompare
    <3> QED
      BY <3>4, <3>5, BecomesKeeps
  <2>3. CASE req[r].word # req[r].saw
    BY <1>5, <2>3, IdleKeeps DEF PinCompare
  <2> QED
    BY <2>2, <2>3
<1>6. ASSUME NEW r \in Request, NEW p \in Page, Send(r, "upload", p, NoPin, jar.pin) PROVE CookieInv'
  <2>1. jar.pin = jar["pin"]
    OBVIOUS
  <2> QED
    BY <1>6, <2>1, SendKeeps
<1>7. ASSUME NEW r \in Request, UploadEnter(r) PROVE CookieInv'
  <2> DEFINE p == req[r].subject
             h == [req[r] EXCEPT !.saw = pin[p], !.at = now, !.step = "let_in"]
  <2>1. req[r] \in Handler /\ p \in Page /\ Earned(req[r].cookie) /\ req[r].op = "upload"
    BY <1>7, HandlerAt DEF UploadEnter, At, CookieInv, Sound
  <2>2. pin[p] \in Pin \cup {NoPin} /\ now \in Time
    BY <2>1 DEF CookieInv, TypeOK
  <2>3. /\ h \in Handler /\ h.cookie = req[r].cookie /\ h.at = now /\ h.saw = pin[p]
        /\ h.subject = p /\ h.step = "let_in" /\ h.op = "upload"
    BY <2>1, <2>2 DEF Handler
  <2>4. CASE pin[p] # NoPin /\ ~ValidFor(req[r].cookie, p)
    BY <1>7, <2>4, IdleKeeps DEF UploadEnter
  <2>5. CASE pin[p] = NoPin \/ ValidFor(req[r].cookie, p)
    <3>1. Sound(h)
      BY <2>1, <2>3, <2>5 DEF Sound, ValidFor
    <3>2. Becomes(r, h)
      BY <1>7, <2>5 DEF UploadEnter
    <3> QED
      BY <2>3, <3>1, <3>2, BecomesKeeps
  <2> QED
    BY <2>4, <2>5
<1>8. ASSUME NEW r \in Request, UploadEnds(r) PROVE CookieInv'
  BY <1>8, IdleKeeps DEF UploadEnds
<1>9. ASSUME NEW r \in Request, NEW p \in Page, NEW w \in Pin \cup {NoPin},
             Send(r, "patch", p, w, jar.session)
      PROVE  CookieInv'
  <2>1. jar.session = jar["session"]
    OBVIOUS
  <2> QED
    BY <1>9, <2>1, SendKeeps
<1>10. ASSUME NEW r \in Request, PatchEnter(r) PROVE CookieInv'
  <2> DEFINE h == [req[r] EXCEPT !.at = now, !.step = "let_in"]
  <2>1. /\ req[r] \in Handler /\ req[r].subject \in Page /\ Earned(req[r].cookie)
        /\ req[r].op = "patch" /\ req[r].word \in Pin \cup {NoPin}
    BY <1>10, HandlerAt DEF PatchEnter, At, CookieInv, Sound
  <2>2. now \in Time
    BY DEF CookieInv, TypeOK
  <2>3. /\ h \in Handler /\ h.cookie = req[r].cookie /\ h.at = now /\ h.word = req[r].word
        /\ h.subject = req[r].subject /\ h.step = "let_in" /\ h.op = "patch"
    BY <2>1, <2>2 DEF Handler
  <2>4. CASE ~ValidFor(req[r].cookie, Admin)
    BY <1>10, <2>4, IdleKeeps DEF PatchEnter
  <2>5. CASE ValidFor(req[r].cookie, Admin)
    <3>1. Sound(h)
      BY <2>1, <2>3, <2>5 DEF Sound, ValidFor
    <3>2. Becomes(r, h)
      BY <1>10, <2>5 DEF PatchEnter
    <3> QED
      BY <2>3, <3>1, <3>2, BecomesKeeps
  <2> QED
    BY <2>4, <2>5
<1>11. ASSUME NEW r \in Request, PatchWrite(r) PROVE CookieInv'
  <2>1. req[r].word \in Pin \cup {NoPin}
    BY <1>11 DEF PatchWrite, At, CookieInv, Sound
  <2>2. Sound(Idle)
    BY DEF Sound, Idle
  <2>3. UNCHANGED <<now, config, jar>> /\ req' = [req EXCEPT ![r] = Idle]
    BY <1>11 DEF PatchWrite
  <2>4. TypeOK'
    BY <1>11, <2>1, <2>3 DEF PatchWrite, CookieInv, TypeOK
  <2>5. \A q \in Request : req'[q] = IF q = r THEN Idle ELSE req[q]
    BY <2>3 DEF CookieInv, TypeOK
  <2>6. \A q \in Request : Sound(req[q])'
    BY <2>2, <2>3, <2>5 DEF CookieInv, Sound, Earned
  <2> QED
    BY <2>3, <2>4, <2>6 DEF CookieInv, Earned
<1>12. ASSUME NEW r \in Request, Receive(r) PROVE CookieInv'
  <2> DEFINE n == CookieName(req[r].op)
  <2>1. n \in {"session", "pin"}
    BY DEF CookieName
  <2>2. req[r] \in Answer
    <3>1. \A h \in Handler : h.step # "answered"
      BY DEF Handler
    <3>2. Idle.step # "answered"
      BY DEF Idle
    <3> QED
      BY <1>12, <3>1, <3>2 DEF Receive, CookieInv, TypeOK
  <2>3. req[r].sets \in Cookie \cup {None} /\ Earned(req[r].sets)
    BY <1>12, <2>2 DEF Receive, CookieInv, Sound, Answer
  <2>4. UNCHANGED <<now, config, pin>> /\ req' = [req EXCEPT ![r] = Idle]
        /\ jar' = [jar EXCEPT ![n] = req[r].sets]
    BY <1>12 DEF Receive
  <2>5. TypeOK'
    BY <2>1, <2>3, <2>4 DEF CookieInv, TypeOK
  <2>6. Sound(Idle)
    BY DEF Sound, Idle
  <2>7. \A q \in Request : req'[q] = IF q = r THEN Idle ELSE req[q]
    BY <2>4 DEF CookieInv, TypeOK
  <2>8. \A q \in Request : Sound(req[q])'
    BY <2>4, <2>6, <2>7 DEF CookieInv, Sound, Earned
  <2>9. \A m \in {"session", "pin"} : jar'[m] = IF m = n THEN req[r].sets ELSE jar[m]
    BY <2>4 DEF CookieInv, TypeOK
  <2>10. \A m \in {"session", "pin"} : Earned(jar[m])'
    BY <2>3, <2>9 DEF CookieInv, Earned
  <2> QED
    BY <2>5, <2>8, <2>10 DEF CookieInv
<1>13. ASSUME NEW r \in Request, Lose(r) PROVE CookieInv'
  BY <1>13, IdleKeeps DEF Lose
<1>14. ASSUME NEW s \in Secret, NEW w \in Password, Restart(s, w) PROVE CookieInv'
  <2>1. UNCHANGED <<now, pin, jar>> /\ req' = [r \in Request |-> Idle]
        /\ config' = [secret |-> s, password |-> w]
    BY <1>14 DEF Restart
  <2>2. TypeOK'
    BY <2>1 DEF CookieInv, TypeOK
  <2>3. \A r \in Request : Sound(req[r])'
    BY <2>1 DEF Sound, Idle
  <2> QED
    BY <2>1, <2>2, <2>3 DEF CookieInv, Earned
<1>15. CASE Tick
  <2>1. now' \in Time
    BY <1>15, TimesAreNumbers DEF Tick, CookieInv, TypeOK, Time
  <2> QED
    BY <1>15, <2>1 DEF Tick, CookieInv, TypeOK, Earned, Sound
<1>16. CASE UNCHANGED vars
  BY <1>16 DEF vars, CookieInv, TypeOK, Earned, Sound
<1> QED
  BY <1>1, <1>2, <1>3, <1>4, <1>5, <1>6, <1>7, <1>8, <1>9, <1>10, <1>11, <1>12, <1>13,
     <1>14, <1>15, <1>16 DEF Next

LEMMA CookieInvariantHolds == Spec => []CookieInv
BY CookieInitHolds, CookieStepHolds, PTL DEF Spec

\* Every reachable state of the cookies is well typed.
THEOREM CookieTypeCorrect == Spec => []TypeOK
<1>1. CookieInv => TypeOK
  BY DEF CookieInv
<1> QED
  BY <1>1, CookieInvariantHolds, PTL

\* Nobody is let into a page with a PIN on anything but a PIN of that page.
THEOREM PinAdmissions == Spec => []LetInOnItsOwnPin
<1>1. CookieInv => LetInOnItsOwnPin
  <2> SUFFICES ASSUME CookieInv, NEW r \in Request, At(r, "upload", "let_in"), req[r].saw # NoPin
               PROVE  /\ req[r].cookie.subject = req[r].subject
                      /\ req[r].cookie.had = req[r].cookie.word /\ req[r].cookie.had \in Pin
                      /\ req[r].cookie.key = config.secret
                      /\ req[r].at < req[r].cookie.made + PinTTL
    BY DEF LetInOnItsOwnPin
  <2> QED
    BY DEF At, CookieInv, Sound, Earned
<1> QED
  BY <1>1, CookieInvariantHolds, PTL

\* No request of an administrator takes effect but after a login under the secret in force.
THEOREM AdminActions == Spec => []ActsOnALogin
<1>1. CookieInv => ActsOnALogin
  <2> SUFFICES ASSUME CookieInv, NEW r \in Request, At(r, "patch", "let_in")
               PROVE  /\ req[r].cookie.subject = Admin
                      /\ req[r].cookie.had = req[r].cookie.word /\ req[r].cookie.had \in Password
                      /\ req[r].cookie.key = config.secret
                      /\ req[r].at < req[r].cookie.made + SessionTTL
    BY DEF ActsOnALogin
  <2> QED
    BY DEF At, CookieInv, Sound, Earned
<1> QED
  BY <1>1, CookieInvariantHolds, PTL

-----------------------------------------------------------------------------
(* The body of an upload.                                                  *)

LEMMA LimitsAreNumbers ==
    ASSUME page \in PageSettings
    PROVE  /\ EffectiveLimit \in Nat /\ Overhead \in Nat
           /\ FileLimit \in Nat /\ BodyLimit \in Nat
           /\ BodyLimit = FileLimit + Allowance
           /\ EffectiveLimit <= GlobalLimit
           /\ page.limit # NoLimit => EffectiveLimit <= page.limit
<1>1. page.limit \in PageLimits \cup {NoLimit} /\ page.e2e \in BOOLEAN
  BY DEF PageSettings
<1>2. page.limit # NoLimit => page.limit \in Nat
  BY <1>1, SizesAreNumbers
<1>3. Overhead \in Nat
  BY SizesAreNumbers DEF Overhead
<1>4. EffectiveLimit \in Nat /\ EffectiveLimit <= GlobalLimit
      /\ (page.limit # NoLimit => EffectiveLimit <= page.limit)
  BY <1>2, SizesAreNumbers DEF EffectiveLimit
<1> QED
  BY <1>3, <1>4, SizesAreNumbers DEF FileLimit, BodyLimit

\* The reader's two counters and the store agree while a file is read and after.
Counted ==
    /\ reader.count = stored
    /\ at \in {"file", "record", "created", "file_too_large"} =>
          reader.remaining + stored = FileLimit
    /\ stored <= FileLimit

\* What was decided about the file when its part began, or ended, still holds.
Decided ==
    /\ at \in {"file", "record", "created"} /\ ~page.e2e => Permits(file.ext)
    /\ at \in {"record", "created"} => stored = file.size
    /\ at = "parts" => stored = 0 /\ reader.count = 0

BodyInv == BodyTypeOK /\ Counted /\ Decided /\ RefusedForSizeRightly

\* The numbers of a well-typed state.
LEMMA Numbers ==
    ASSUME BodyTypeOK
    PROVE  /\ page \in PageSettings /\ FileLimit \in Nat /\ BodyLimit \in Nat
           /\ BodyLimit = FileLimit + Allowance
           /\ file.size \in Nat /\ stored \in Nat /\ stored <= file.size
           /\ taken \in Nat /\ taken <= BodyLimit
           /\ reader.remaining \in Nat /\ reader.count \in Nat
<1>1. page \in PageSettings
  BY DEF BodyTypeOK
<1>2. FileLimit \in Nat /\ BodyLimit \in Nat /\ BodyLimit = FileLimit + Allowance
  BY <1>1, LimitsAreNumbers
<1>3. file.size \in Nat
  <2>1. NoFile.size \in Nat
    BY DEF NoFile
  <2>2. \A f \in File : f.size \in Nat
    BY SizesAreNumbers DEF File
  <2> QED
    BY <2>1, <2>2 DEF BodyTypeOK
<1> QED
  BY <1>1, <1>2, <1>3 DEF BodyTypeOK

LEMMA BodyInitHolds == BodyInit => BodyInv
<1> SUFFICES ASSUME BodyInit PROVE BodyInv
  OBVIOUS
<1>1. page \in PageSettings
  BY DEF BodyInit
<1>2. FileLimit \in Nat /\ BodyLimit \in Nat
  BY <1>1, LimitsAreNumbers
<1>3. BodyTypeOK
  BY <1>2 DEF BodyInit, BodyTypeOK, Stages, NoFile
<1> QED
  BY <1>2, <1>3 DEF BodyInit, BodyInv, Counted, Decided, RefusedForSizeRightly

\* The settings of the request never change, and its limits with them.
LEMMA SameLimits ==
    ASSUME UNCHANGED request
    PROVE  /\ EffectiveLimit' = EffectiveLimit /\ Overhead' = Overhead
           /\ FileLimit' = FileLimit /\ BodyLimit' = BodyLimit
           /\ \A e : Permits(e)' = Permits(e)
BY DEF request, EffectiveLimit, Overhead, FileLimit, BodyLimit, Permits

\* An answer keeps what the invariant says, once it is right to give.
LEMMA AnswerKeeps ==
    ASSUME BodyInv, NEW a, Reply(a),
           a \in (Refusals \cup {"record", "created"}), taken' \in 0..BodyLimit,
           a = "file_too_large" => stored < file.size /\ at = "file" /\ reader.remaining = 0,
           a = "request_too_large" => taken' - stored >= Allowance,
           a = "record" => at = "file" /\ stored = file.size,
           a = "created" => at = "record"
    PROVE  BodyInv'
<1>1. UNCHANGED request /\ at' = a /\ UNCHANGED <<fields, file, reader, stored>>
  BY DEF Reply
<1>2. BodyTypeOK'
  <2>1. page' = page /\ globalExt' = globalExt /\ BodyLimit' = BodyLimit /\ FileLimit' = FileLimit
    BY <1>1, SameLimits DEF request
  <2> QED
    BY <1>1, <2>1 DEF BodyInv, BodyTypeOK, Stages
<1>3. Counted'
  BY <1>1, SameLimits DEF BodyInv, Counted, Refusals
<1>4. Decided'
  <2>1. page' = page
    BY <1>1 DEF request
  <2>2. at' \in {"file", "record", "created"} => at \in {"file", "record"}
    BY <1>1 DEF Refusals
  <2> QED
    BY <1>1, <2>1, <2>2, SameLimits DEF BodyInv, Decided, Refusals
<1>5. RefusedForSizeRightly'
  <2>1. page \in PageSettings /\ stored \in Nat /\ file.size \in Nat
    BY Numbers DEF BodyInv
  <2>2. FileLimit \in Nat
    BY Numbers DEF BodyInv
  <2>3. a = "file_too_large" => file.size > FileLimit
    BY <2>1, <2>2 DEF BodyInv, Counted, BodyTypeOK
  <2> QED
    BY <1>1, <2>3, SameLimits DEF RefusedForSizeRightly
<1> QED
  BY <1>2, <1>3, <1>4, <1>5 DEF BodyInv

\* Reading n units of the file keeps the counters together.
LEMMA ReadKeeps ==
    ASSUME BodyInv, NEW n \in Nat, at = "file", n <= reader.remaining, n <= Rest,
           UNCHANGED <<request, fields, file>>,
           taken' \in 0..BodyLimit,
           reader' = AfterRead(n), stored' = stored + n,
           at' \in {"file", "record"}, at' = "record" => n = Rest
    PROVE  BodyInv'
<1>1. page \in PageSettings /\ stored \in Nat /\ file.size \in Nat
      /\ reader.remaining \in Nat /\ reader.count \in Nat
  BY Numbers DEF BodyInv
<1>2. FileLimit \in Nat /\ FileLimit' = FileLimit /\ BodyLimit' = BodyLimit
  BY <1>1, LimitsAreNumbers, SameLimits
<1>3. reader'.remaining = reader.remaining - n /\ reader'.count = reader.count + n
  BY DEF AfterRead
<1>4. Counted'
  BY <1>1, <1>2, <1>3 DEF BodyInv, Counted
<1>5. stored' \in 0..file.size /\ reader'.remaining \in 0..FileLimit /\ reader'.count \in 0..FileLimit
  BY <1>1, <1>2, <1>3, <1>4 DEF BodyInv, Counted, Rest, BodyTypeOK
<1>6. BodyTypeOK'
  BY <1>2, <1>5 DEF BodyInv, BodyTypeOK, Stages, request
<1>7. Decided'
  BY <1>1, SameLimits DEF BodyInv, Decided, Rest, request
<1> QED
  BY <1>4, <1>6, <1>7 DEF BodyInv, RefusedForSizeRightly

LEMMA BodyStepHolds == BodyInv /\ [BodyNext]_bodyVars => BodyInv'
<1> SUFFICES ASSUME BodyInv, [BodyNext]_bodyVars PROVE BodyInv'
  OBVIOUS
<1>0. page \in PageSettings /\ taken \in Nat /\ taken <= BodyLimit /\ stored \in Nat /\ file.size \in Nat
      /\ reader.remaining \in Nat /\ stored <= FileLimit /\ stored <= file.size
      /\ FileLimit \in Nat /\ BodyLimit \in Nat /\ BodyLimit = FileLimit + Allowance
      /\ Allowance \in Nat /\ MaxFieldBytes \in Nat /\ Sizes \subseteq Nat
  BY Numbers, SizesAreNumbers DEF BodyInv, Counted
<1>t. ASSUME NEW n \in Nat, Take(n) PROVE taken' \in 0..BodyLimit
  BY <1>0, <1>t DEF Take, Passes
<1>1. ASSUME NEW size \in Sizes, SkipPart(size) PROVE BodyInv'
  <2>1. taken' \in 0..BodyLimit
    BY <1>0, <1>1, <1>t DEF SkipPart
  <2>2. UNCHANGED <<page, globalExt, fields, file, reader, stored>> /\ at' = "parts" /\ at = "parts"
    BY <1>1 DEF SkipPart, request
  <2>3. BodyLimit' = BodyLimit /\ FileLimit' = FileLimit
    BY <2>2, SameLimits DEF request
  <2> QED
    BY <2>1, <2>2, <2>3 DEF BodyInv, BodyTypeOK, Counted, Decided, RefusedForSizeRightly
<1>2. ASSUME NEW size \in Sizes, CeilingInParts(size) PROVE BodyInv'
  BY <1>0, <1>2, AnswerKeeps DEF CeilingInParts, Refusals, BodyInv, Decided
<1>3. ASSUME NEW name \in FieldName, NEW value \in Value, NEW size \in Sizes,
             ReadField(name, value, size)
      PROVE  BodyInv'
  <2>1. taken' \in 0..BodyLimit
    BY <1>0, <1>3, <1>t DEF ReadField
  <2>2. UNCHANGED <<page, globalExt, file, reader, stored>> /\ at' = "parts" /\ at = "parts"
    BY <1>3 DEF ReadField, request
  <2>3. BodyLimit' = BodyLimit /\ FileLimit' = FileLimit
    BY <2>2, SameLimits DEF request
  <2>4. DOMAIN fields' \subseteq FieldName /\ \A n \in DOMAIN fields' : fields'[n] \in Value
    BY <1>3 DEF ReadField, BodyInv, BodyTypeOK
  <2> QED
    BY <2>1, <2>2, <2>3, <2>4 DEF BodyInv, BodyTypeOK, Counted, Decided, RefusedForSizeRightly
<1>4. CASE TooManyFields
  BY <1>4, <1>t, AnswerKeeps DEF TooManyFields, Refusals
<1>5. CASE FieldTooLarge
  BY <1>0, <1>5, <1>t, AnswerKeeps DEF FieldTooLarge, Refusals
<1>6. CASE BodyEnds
  BY <1>0, <1>6, AnswerKeeps DEF BodyEnds, Refusals
<1>7. ASSUME NEW f \in File, BeginFile(f) PROVE BodyInv'
  <2>1. /\ taken' \in 0..BodyLimit /\ file' = f /\ at' = Verdict(f) /\ stored' = stored /\ stored = 0
        /\ reader' = [remaining |-> FileLimit, count |-> 0]
        /\ UNCHANGED <<page, globalExt, fields>>
    BY <1>7, <1>t DEF BeginFile, request, BodyInv, Decided
  <2>2. BodyLimit' = BodyLimit /\ FileLimit' = FileLimit /\ \A e : Permits(e)' = Permits(e)
    BY <2>1, SameLimits DEF request
  <2>3. at' \in (Refusals \cup {"file"}) \ {"file_too_large", "request_too_large"}
        /\ (at' = "file" /\ ~page.e2e => Permits(f.ext))
    BY <2>1 DEF Verdict, Refusals
  <2>4. f.size \in Nat
    BY <1>0 DEF File
  <2>5. BodyTypeOK'
    BY <1>0, <2>1, <2>2, <2>3, <2>4 DEF BodyInv, BodyTypeOK, Stages
  <2>6. Counted' /\ RefusedForSizeRightly'
    <3>1. reader'.remaining = FileLimit' /\ reader'.count = 0 /\ stored' = 0
      BY <2>1, <2>2
    <3>2. Counted'
      BY <1>0, <2>2, <3>1 DEF Counted
    <3> QED
      BY <2>3, <3>2 DEF RefusedForSizeRightly, Refusals
  <2>7. Decided'
    BY <2>1, <2>2, <2>3 DEF Decided, Refusals
  <2> QED
    BY <2>5, <2>6, <2>7 DEF BodyInv
<1>8. ASSUME NEW n \in 1..reader.remaining, ReadFile(n) PROVE BodyInv'
  <2>1. n \in Nat /\ taken' \in 0..BodyLimit
    BY <1>0, <1>8, <1>t DEF ReadFile
  <2> QED
    BY <1>8, <2>1, ReadKeeps DEF ReadFile
<1>9. ASSUME NEW n \in 1..reader.remaining, ReadLast(n) PROVE BodyInv'
  <2>1. n \in Nat /\ n + 1 \in Nat /\ Rest \in Int
    BY <1>0 DEF Rest
  <2>2. taken' \in 0..BodyLimit
    BY <1>9, <2>1, <1>t DEF ReadLast
  <2> QED
    BY <1>9, <2>1, <2>2, ReadKeeps DEF ReadLast
<1>10. CASE FileEnds
  <2>1. stored = file.size
    BY <1>0, <1>10 DEF FileEnds, Rest
  <2> QED
    BY <1>10, <1>t, <2>1, AnswerKeeps DEF FileEnds
<1>11. CASE FileTooLarge
  <2>1. stored < file.size
    BY <1>0, <1>11 DEF FileTooLarge, Rest
  <2> QED
    BY <1>11, <1>t, <2>1, AnswerKeeps DEF FileTooLarge, Refusals
<1>12. CASE CeilingInFile
  <2>1. taken' \in 0..BodyLimit /\ taken' - stored >= Allowance
    BY <1>0, <1>12 DEF CeilingInFile, Passes
  <2> QED
    BY <1>12, <2>1, AnswerKeeps DEF CeilingInFile, Refusals
<1>13. CASE Record
  BY <1>0, <1>13, AnswerKeeps DEF Record
<1>14. CASE Fail
  BY <1>0, <1>14, AnswerKeeps DEF Fail, Refusals
<1>15. CASE UNCHANGED bodyVars
  BY <1>15, SameLimits DEF bodyVars, request, BodyInv, BodyTypeOK, Counted, Decided, RefusedForSizeRightly
<1> QED
  BY <1>1, <1>2, <1>3, <1>4, <1>5, <1>6, <1>7, <1>8, <1>9, <1>10, <1>11, <1>12, <1>13, <1>14, <1>15
  DEF BodyNext, NextPart, ReadOn

LEMMA BodyInvariantHolds == BodySpec => []BodyInv
BY BodyInitHolds, BodyStepHolds, PTL DEF BodySpec

\* Every reachable state of an upload is well typed, the body never read past
\* its ceiling.
THEOREM BodyTypeCorrect == BodySpec => []BodyTypeOK
<1>1. BodyInv => BodyTypeOK
  BY DEF BodyInv
<1> QED
  BY <1>1, BodyInvariantHolds, PTL

\* A recorded upload is whole, has its true size and is within both limits and,
\* on a page without encryption, on both lists.
THEOREM RecordedWhole == BodySpec => []RecordedWholeAndWithinLimits
<1>1. BodyInv => RecordedWholeAndWithinLimits
  <2> SUFFICES ASSUME BodyInv, at = "created" PROVE RecordedWholeAndWithinLimits
    BY DEF RecordedWholeAndWithinLimits
  <2>1. stored = file.size /\ reader.count = stored /\ stored <= FileLimit
        /\ page \in PageSettings /\ file.size \in Nat
    BY Numbers DEF BodyInv, Counted, Decided
  <2>2. page.limit # NoLimit => page.limit \in Nat
    BY <2>1, SizesAreNumbers DEF PageSettings
  <2>3. ~page.e2e => \A list \in {page.ext, globalExt} : list = {} \/ file.ext \in list
    BY DEF BodyInv, Decided, Permits
  <2>4. /\ file.size <= GlobalLimit + Overhead
        /\ page.limit # NoLimit => file.size <= page.limit + Overhead
    BY <2>1, <2>2, LimitsAreNumbers, SizesAreNumbers DEF FileLimit
  <2> QED
    BY <2>1, <2>3, <2>4 DEF RecordedWholeAndWithinLimits
<1> QED
  BY <1>1, BodyInvariantHolds, PTL

\* An upload is refused for its size only when the file exceeds the limit or
\* what surrounds it uses up the allowance.
THEOREM SizeRefusalsAreRight == BodySpec => []RefusedForSizeRightly
<1>1. BodyInv => RefusedForSizeRightly
  BY DEF BodyInv
<1> QED
  BY <1>1, BodyInvariantHolds, PTL
=============================================================================
