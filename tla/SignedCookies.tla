--------------------------- MODULE SignedCookies ---------------------------
(***************************************************************************)
(* The signed cookies of internal/http/server.go: the session an           *)
(* administrator gets for the password and the two hours' admission an     *)
(* uploader gets for a page's PIN.  Nothing is kept on the server: what    *)
(* counts is the signature, the subject and the time in the cookie.        *)
(*                                                                         *)
(* One browser sends any requests, several at a time, and stores what the  *)
(* answers set in whatever order they arrive.  Meanwhile PINs are changed  *)
(* and the process is started again with another secret or password.       *)
(* Rate limits are in RateLimiter.                                         *)
(***************************************************************************)
EXTENDS Integers

CONSTANTS Page,        \* slugs
          Admin,       \* AdminUsername, the subject of a session
          Pin,         \* the PINs that pages may have
          Password,    \* the passwords that the administrator may have
          NoPin,       \* a page without a PIN
          Secret,      \* values of SESSION_SECRET
          Request,     \* requests under way at a time
          None,        \* no cookie
          SessionTTL,  \* seven days
          PinTTL,      \* two hours
          MaxTime      \* bound of the clock

ASSUME SubjectsAreDistinct == Admin \notin Page
ASSUME NoPinIsNoWord == NoPin \notin Pin
ASSUME TimesAreNumbers == SessionTTL \in Nat /\ PinTTL \in Nat /\ MaxTime \in Nat

VARIABLES now,     \* the clock
          config,  \* SESSION_SECRET and the password of this process
          pin,     \* pages.pin_hash
          jar,     \* the browser's cookies, by name
          req      \* the requests

vars == <<now, config, pin, jar, req>>

Time == 0..MaxTime
Subject == Page \cup {Admin}
Word == Pin \cup Password

\* Payload and signature; then, as history, when it was made, the word it was given
\* for and the one that its subject had when the handler looked.
Cookie == [subject : Subject, expires : Nat, key : Secret,
           made : Time, word : Word, had : Word \cup {NoPin}]

Ops == {"login", "logout", "pin", "upload", "patch"}

\* A handler knows the cookie it checks; an answer sets a cookie, or clears it.
Handler == [op : Ops, subject : Subject, word : Word \cup {NoPin}, cookie : Cookie \cup {None},
            saw : Pin \cup {NoPin}, had : Pin \cup {NoPin}, at : Time, step : {"sent", "read", "let_in"}]
Answer == [op : Ops, sets : Cookie \cup {None}, step : {"answered"}]
Idle == [step |-> "idle"]

Init ==
    /\ now = 0
    /\ config \in [secret : Secret, password : Password]
    /\ pin \in [Page -> Pin \cup {NoPin}]
    /\ jar = [session |-> None, pin |-> None]
    /\ req = [r \in Request |-> Idle]

-----------------------------------------------------------------------------
\* Mutant: the cookie is good for whatever it was signed for.
ValidForAnySubject(c, subject) == c # None /\ c.key = config.secret /\ now < c.expires

\* Mutant: the signature is not looked at.
ValidForAnyKey(c, subject) == c # None /\ c.subject = subject /\ now < c.expires

\* validSignedCookie
ValidFor(c, subject) ==
    /\ c # None
    /\ c.key = config.secret
    /\ c.subject = subject
    /\ now < c.expires

\* setSignedCookie
Signed(subject, ttl, word, had) ==
    [subject |-> subject, expires |-> now + ttl, key |-> config.secret,
     made |-> now, word |-> word, had |-> had]

CookieName(op) == IF op \in {"pin", "upload"} THEN "pin" ELSE "session"

At(r, op, step) == req[r].step = step /\ req[r].op = op
Becomes(r, h) == req' = [req EXCEPT ![r] = h] /\ UNCHANGED <<now, config, pin, jar>>
Sets(op, c) == [op |-> op, sets |-> c, step |-> "answered"]

-----------------------------------------------------------------------------
\* The browser attaches the cookie it has when it sends.  A login and an unlocking
\* are checked against none, and begin where the server has them.
Send(r, op, subject, word, cookie) ==
    /\ req[r] = Idle
    /\ Becomes(r, [op |-> op, subject |-> subject, word |-> word, cookie |-> cookie,
                   saw |-> NoPin, had |-> NoPin, at |-> 0, step |-> "sent"])

\* handleLogin: the password is fixed for the life of the process.
Login(r, password) ==
    /\ req[r] = Idle
    /\ password = config.password
    /\ Becomes(r, Sets("login", Signed(Admin, SessionTTL, password, config.password)))

\* handleLogout behind requireAdmin; the cookie stays good, the browser drops it.
Logout(r) ==
    /\ At(r, "logout", "sent")
    /\ Becomes(r, IF ValidFor(req[r].cookie, Admin) THEN Sets("logout", None) ELSE Idle)

\* handlePIN reads the page; a page without a PIN is answered without a cookie.
PinRead(r, page, word) ==
    /\ req[r] = Idle /\ pin[page] # NoPin
    /\ Becomes(r, [op |-> "pin", subject |-> page, word |-> word, cookie |-> None,
                   saw |-> pin[page], had |-> pin[page], at |-> 0, step |-> "read"])

\* handlePIN compares, which takes bcrypt its time, and signs.
PinCompare(r) ==
    /\ At(r, "pin", "read")
    /\ LET h == req[r] IN
       Becomes(r, IF h.word = h.saw
                  THEN Sets("pin", Signed(h.subject, PinTTL, h.word, h.had)) ELSE Idle)

\* handleUpload lets the request in.  The check of the cookie reads nothing but
\* the request and the clock, and goes with the reading of the page.
UploadEnter(r) ==
    /\ At(r, "upload", "sent")
    /\ LET h == req[r] IN
       Becomes(r, IF pin[h.subject] # NoPin /\ ~ValidFor(h.cookie, h.subject) THEN Idle
                  ELSE [h EXCEPT !.saw = pin[h.subject], !.at = now, !.step = "let_in"])

UploadEnds(r) == At(r, "upload", "let_in") /\ Becomes(r, Idle)

\* handleUpdatePage behind requireAdmin
PatchEnter(r) ==
    /\ At(r, "patch", "sent")
    /\ Becomes(r, IF ValidFor(req[r].cookie, Admin)
                  THEN [req[r] EXCEPT !.at = now, !.step = "let_in"] ELSE Idle)

PatchWrite(r) ==
    /\ At(r, "patch", "let_in")
    /\ pin' = [pin EXCEPT ![req[r].subject] = req[r].word]
    /\ req' = [req EXCEPT ![r] = Idle]
    /\ UNCHANGED <<now, config, jar>>

-----------------------------------------------------------------------------
\* The answer arrives, and what it sets takes the place of what is there.
Receive(r) ==
    /\ req[r].step = "answered"
    /\ jar' = [jar EXCEPT ![CookieName(req[r].op)] = req[r].sets]
    /\ req' = [req EXCEPT ![r] = Idle]
    /\ UNCHANGED <<now, config, pin>>

\* The connection breaks; the handler may be at any step.
Lose(r) == req[r] # Idle /\ Becomes(r, Idle)

\* The process ends, and starts with the SESSION_SECRET and the password it is given.
Restart(secret, password) ==
    /\ config' = [secret |-> secret, password |-> password]
    /\ req' = [r \in Request |-> Idle]
    /\ UNCHANGED <<now, pin, jar>>

Tick ==
    /\ now < MaxTime
    /\ now' = now + 1
    /\ UNCHANGED <<config, pin, jar, req>>

Next ==
    \/ \E r \in Request :
        \/ \E w \in Password : Login(r, w)
        \/ Send(r, "logout", Admin, NoPin, jar.session) \/ Logout(r)
        \/ \E p \in Page, w \in Pin : PinRead(r, p, w)
        \/ PinCompare(r)
        \/ \E p \in Page : Send(r, "upload", p, NoPin, jar.pin)
        \/ UploadEnter(r) \/ UploadEnds(r)
        \/ \E p \in Page, w \in Pin \cup {NoPin} : Send(r, "patch", p, w, jar.session)
        \/ PatchEnter(r) \/ PatchWrite(r)
        \/ Receive(r) \/ Lose(r)
    \/ \E secret \in Secret, password \in Password : Restart(secret, password)
    \/ Tick

Spec == Init /\ [][Next]_vars

-----------------------------------------------------------------------------
TypeOK ==
    /\ now \in Time
    /\ config \in [secret : Secret, password : Password]
    /\ pin \in [Page -> Pin \cup {NoPin}]
    /\ jar \in [{"session", "pin"} -> Cookie \cup {None}]
    /\ req \in [Request -> Handler \cup Answer \cup {Idle}]

\* Who is let into a page that has a PIN has shown, less than two hours before, the
\* PIN that this very page had when the handler looked: not that of another page,
\* nothing while the page had none, and nothing while the secret was another.  That
\* the PIN was changed since does not matter (handlePIN, handleUpload).
LetInOnItsOwnPin ==
    \A r \in Request : At(r, "upload", "let_in") /\ req[r].saw # NoPin =>
        LET c == req[r].cookie IN
        /\ c.subject = req[r].subject
        /\ c.had = c.word /\ c.had \in Pin
        /\ c.key = config.secret
        /\ req[r].at < c.made + PinTTL

\* An administrator's request takes effect only for a login with the password of
\* the process that saw it, less than seven days before and under the secret in
\* force: a new secret ends every session, a new password none (README.md on
\* SESSION_SECRET).
ActsOnALogin ==
    \A r \in Request : At(r, "patch", "let_in") =>
        LET c == req[r].cookie IN
        /\ c.subject = Admin
        /\ c.had = c.word /\ c.had \in Password
        /\ c.key = config.secret
        /\ req[r].at < c.made + SessionTTL
=============================================================================
