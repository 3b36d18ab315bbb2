---------------------------- MODULE ClientLimits ----------------------------
(***************************************************************************)
(* The rate limiter together with what it counts requests under: clientIP, *)
(* the identifiers and the rate keys of internal/http/server.go.           *)
(*                                                                         *)
(* TRUSTED_PROXY_HOPS proxies stand in front of the server. Each appends   *)
(* the peer it saw to X-Forwarded-For; what stands before that is whatever *)
(* the client sent, in one line with it. One address has several spellings *)
(* (with a port, as an IPv4-mapped IPv6 address). A digest of the address, *)
(* which IP_STORAGE_MODE may ask for, tells apart what the address does    *)
(* and is left out.                                                        *)
(***************************************************************************)
EXTENDS RateLimiter

CONSTANTS
    Clients,    \* the addresses of clients
    Proxy,      \* the address of a proxy
    Blank,      \* an empty entry of the header
    Anyone,     \* the identifier of everybody behind an anonymous ingress
    Slugs,      \* the pages
    Spellings,  \* the ways an address may be written
    MaxHops,    \* bound: proxies
    MaxSent     \* bound: entries a client sends

ASSUME AddressAssumption ==
    /\ Proxy \notin Clients
    /\ Blank \notin [addr : Clients \cup {Proxy}, spelled : Spellings]
ASSUME HopsAssumption == MaxHops \in Nat /\ MaxSent \in Nat

VARIABLES
    ingress,  \* TRUSTED_PROXY_HOPS and ANONYMOUS_INGRESS of this process
    callers   \* history: for whom each call of log was made

limitVars == <<vars, ingress, callers>>

Address == Clients \cup {Proxy}

\* An entry of the header.
Entry == [addr : Address, spelled : Spellings] \cup {Blank}

\* A page, and whom its limit is for.  A limiter without pages (the login's) is
\* one with a single page.
Parties == Slugs \X (Address \cup {Anyone})

ASSUME KeysAssumption == Keys = Parties

LimitsInit ==
    /\ Init
    /\ ingress \in [hops : 0..MaxHops, anonymous : BOOLEAN]
    /\ callers = <<>>

-----------------------------------------------------------------------------
\* What reaches the server of a request by c: through so many proxies, with so
\* many entries sent along, c's address written in a certain way.
Request == [via : 0..MaxHops, sent : UNION {[1..n -> Entry] : n \in 0..MaxSent},
            spelled : Spellings]

\* The proxies: the first one appends the client, every other one a proxy.
Forwarded(c, q) ==
    IF q.via = 0 THEN q.sent
    ELSE q.sent \o [i \in 1..q.via |->
                       [addr |-> IF i = 1 THEN c ELSE Proxy, spelled |-> q.spelled]]

RemoteAddr(c, q) ==
    [addr |-> IF q.via = 0 THEN c ELSE Proxy, spelled |-> q.spelled]

\* Mutant: the entry that is furthest left.
ClientIPLeftmost(header, remote) ==
    IF ingress.hops > 0 /\ header # <<>> /\ header[1] # Blank THEN header[1] ELSE remote

\* clientIP: the entry that the outermost trusted proxy appended, or the first
\* one of a shorter header.
ClientIP(header, remote) ==
    LET idx == IF Len(header) >= ingress.hops THEN Len(header) - ingress.hops ELSE 0 IN
    IF ingress.hops > 0 /\ header # <<>> /\ header[idx + 1] # Blank
    THEN header[idx + 1] ELSE remote

\* canonicalIPIdentifierInput: without the port, unmapped, in lower case.
Canonical(entry) == entry.addr

\* uploadRateKey, pinRateKey, loginRateKey
RateKey(s, entry) ==
    <<s, IF ingress.anonymous THEN Anyone ELSE Canonical(entry)>>

Party(s, c) == <<s, IF ingress.anonymous THEN Anyone ELSE c>>

\* Whoever comes through fewer proxies (from inside the network, say) sends no
\* header of its own.
Arrive(c, s, q, lag) ==
    /\ q.via = ingress.hops \/ (q.via < ingress.hops /\ q.sent = <<>>)
    /\ lag <= clock
    /\ Allow(RateKey(s, ClientIP(Forwarded(c, q), RemoteAddr(c, q))), clock - lag)
    /\ callers' = Append(callers, Party(s, c))
    /\ UNCHANGED ingress

LimitsNext ==
    \/ Tick /\ UNCHANGED <<ingress, callers>>
    \/ \E c \in Clients, s \in Slugs, q \in Request, lag \in 0..MaxLag :
          Arrive(c, s, q, lag)

LimitsSpec == LimitsInit /\ [][LimitsNext]_limitVars

-----------------------------------------------------------------------------
\* Whatever a client sends along, however its address is written and whoever
\* else calls, it has on every page a window of its own that lets Limit calls in
\* and closes by itself; behind an anonymous ingress there is one for all.
\* (README.md:150, "keyed on the real client IP"; the comment at clientIP.)
WindowPerClient == INSTANCE FixedWindow WITH
    Keys <- Parties,
    Closed <- NoBucket,
    now <- clock,
    windows <- Swept(buckets, clock),
    log <- [i \in DOMAIN log |-> [log[i] EXCEPT !.key = callers[i]]]

ClientsAreLimitedApart == WindowPerClient!Spec

\* The calls made for a party that were let in with a reading from t on, for a
\* window, under whatever key the limiter counted them.
LetInFor(p, t) ==
    {i \in 1..Len(log) :
        callers[i] = p /\ log[i].ok /\ log[i].now \in t..(t + Window - 1)}

\* A client (behind an anonymous ingress, all of them together) gets no more than
\* two windows' worth of calls to a page in any stretch of a window's length,
\* whatever it writes into its header: it cannot spread its calls over keys.  (Allow with the key clientIP leads to.)
TwoWindowsWorthPerClient ==
    \A p \in Parties, t \in 0..MaxTime : Cardinality(LetInFor(p, t)) <= 2 * Limit
=============================================================================
