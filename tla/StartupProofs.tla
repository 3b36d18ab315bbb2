---------------------------- MODULE StartupProofs ----------------------------
(***************************************************************************)
(* Theorems about Startup, for any number of uploads, starts and crashes,  *)
(* and any configurations.                                                 *)
(***************************************************************************)
EXTENDS Startup, FiniteSetTheorems, TLAPS

USE BoundAssumption, LegacyAssumption, ConfigAssumption, NoRowAssumption

Linked == {"read", "tokens", "events", "addresses", "serving"}
Tokened == {"events", "addresses", "serving"}

\* What a start has done by the statement it stands at.
Progress ==
    /\ at = "tokens" =>
          /\ todo \subseteq LiveEnvelopes
          /\ \A v \in LiveEnvelopes : envelopes[v].token = 0 <=> v \in todo
    /\ at \in Linked => \A u \in LiveRows : uploads[u].env # 0
    /\ at \in Tokened => \A v \in LiveEnvelopes : envelopes[v].token # 0
    /\ at \in {"addresses", "serving"} => \A u \in LiveRows : accepted[u] # <<>>

\* Links lead to envelopes, one that a start made is its own upload's, and an
\* acceptance event names the link.
LinksAgree ==
    \A u \in LiveRows :
        LET v == uploads[u].env IN
        /\ v # 0 => v \in LiveEnvelopes /\ envelopes[v].legacy \in {0, u}
        /\ accepted[u] # <<>> => v # 0 /\ accepted[u] = <<v>>

NothingGarbled ==
    /\ \A u \in LiveRows : uploads[u].ip # "garbled"
    /\ \A v \in LiveEnvelopes : envelopes[v].ip # "garbled"

\* The process itself is one of those that lax speaks of.
CfgCounted ==
    at # "down" =>
        /\ ~lax.plaintext => cfg.required
        /\ ~lax.address => cfg.ip # "plain" \/ cfg.anonymous

IInv ==
    /\ TypeOK
    /\ Progress
    /\ LinksAgree
    /\ NothingGarbled
    /\ CfgCounted
    /\ AddressesAreDigests
    /\ WhatAllKeptOutIsOut

(***************************************************************************)
(* Facts about ids.                                                        *)
(***************************************************************************)

\* An id handed out next is not in use.
LEMMA NextIsFree ==
    ASSUME NEW live, NEW i \in Nat, live \subseteq Nat, IsNext(i, live),
           NEW j \in Nat, j >= i
    PROVE  j \notin live
BY DEF IsNext

\* The envelopes that a start adds take no id that is in use.
LEMMA InsertAdds ==
    ASSUME TypeOK, InsertEnvelopes
    PROVE  /\ \A v \in LiveEnvelopes : envelopes'[v] = envelopes[v]
           /\ \A v \in EnvIds : envelopes'[v] # envelopes[v] =>
                 /\ v \notin LiveEnvelopes
                 /\ envelopes'[v] \in Envelope
                 /\ envelopes'[v].legacy \in Unlinked
                 /\ envelopes'[v].token = 0
                 /\ envelopes'[v].ip = uploads[envelopes'[v].legacy].ip
           /\ envelopes' \in [EnvIds -> Envelope \cup {NoRow}]
<1> DEFINE rows == LacksEnvelope(Unlinked)
<1>1. PICK first \in 1..(MaxEnvelope + 1) :
          /\ IsNext(first, LiveEnvelopes)
          /\ \E slot \in [rows -> first..(first + Cardinality(rows) - 1)] :
             /\ \A u \in rows : slot[u] \in EnvIds
             /\ \A u, w \in rows : slot[u] = slot[w] => u = w
             /\ envelopes' = [v \in EnvIds |->
                   IF \E u \in rows : slot[u] = v
                   THEN LET u == CHOOSE u \in rows : slot[u] = v IN
                        [legacy |-> u, token |-> 0, ip |-> uploads[u].ip]
                   ELSE envelopes[v]]
  BY DEF InsertEnvelopes
<1>2. PICK slot \in [rows -> first..(first + Cardinality(rows) - 1)] :
          /\ \A u \in rows : slot[u] \in EnvIds
          /\ envelopes' = [v \in EnvIds |->
                IF \E u \in rows : slot[u] = v
                THEN LET u == CHOOSE u \in rows : slot[u] = v IN
                     [legacy |-> u, token |-> 0, ip |-> uploads[u].ip]
                ELSE envelopes[v]]
  BY <1>1
<1>3. rows \subseteq Unlinked /\ Unlinked \subseteq LiveRows
  BY DEF LacksEnvelope, Unlinked
<1>4. Cardinality(rows) \in Nat
  <2>1. IsFiniteSet(RowIds)
    BY FS_Interval DEF RowIds
  <2> QED BY <2>1, <1>3, FS_Subset, FS_CardinalityType DEF LiveRows
<1>5. ASSUME NEW u \in rows PROVE slot[u] \in EnvIds /\ slot[u] \notin LiveEnvelopes
  <2>1. slot[u] \in Nat /\ slot[u] >= first
    BY <1>2, <1>4, <1>1
  <2> QED BY <2>1, <1>1, <1>2, NextIsFree DEF LiveEnvelopes, EnvIds
<1>6. ASSUME NEW v \in EnvIds
      PROVE  \/ envelopes'[v] = envelopes[v]
             \/ \E u \in rows :
                   /\ slot[u] = v
                   /\ envelopes'[v] = [legacy |-> u, token |-> 0, ip |-> uploads[u].ip]
  <2>1. CASE \E u \in rows : slot[u] = v
    <3> DEFINE w == CHOOSE u \in rows : slot[u] = v
    <3>1. w \in rows /\ slot[w] = v
      BY <2>1
    <3>2. envelopes'[v] = [legacy |-> w, token |-> 0, ip |-> uploads[w].ip]
      BY <2>1, <1>2
    <3> QED BY <3>1, <3>2
  <2>2. CASE ~\E u \in rows : slot[u] = v
    BY <2>2, <1>2
  <2> QED BY <2>1, <2>2
<1>7. ASSUME NEW u \in rows
      PROVE  [legacy |-> u, token |-> 0, ip |-> uploads[u].ip] \in Envelope
  <2>1. u \in RowIds /\ uploads[u] \in Row
    BY <1>3 DEF LiveRows, TypeOK
  <2> QED BY <2>1 DEF Row, Envelope
<1>8. \A v \in LiveEnvelopes : envelopes'[v] = envelopes[v]
  BY <1>5, <1>6 DEF LiveEnvelopes
<1>9. ASSUME NEW v \in EnvIds, envelopes'[v] # envelopes[v]
      PROVE  /\ v \notin LiveEnvelopes
             /\ envelopes'[v] \in Envelope
             /\ envelopes'[v].legacy \in Unlinked
             /\ envelopes'[v].token = 0
             /\ envelopes'[v].ip = uploads[envelopes'[v].legacy].ip
  <2>1. PICK u \in rows :
            envelopes'[v] = [legacy |-> u, token |-> 0, ip |-> uploads[u].ip]
    BY <1>6, <1>9
  <2> QED BY <2>1, <1>3, <1>7, <1>8, <1>9
<1>10. envelopes' \in [EnvIds -> Envelope \cup {NoRow}]
  <2>1. envelopes' = [v \in EnvIds |-> envelopes'[v]]
    BY <1>2
  <2>2. \A v \in EnvIds : envelopes'[v] \in Envelope \cup {NoRow}
    BY <1>9 DEF TypeOK
  <2> QED BY <2>1, <2>2
<1> QED BY <1>8, <1>9, <1>10
(***************************************************************************)
(* The invariant.                                                          *)
(***************************************************************************)

LEMMA InitHolds == Init => IInv
<1> SUFFICES ASSUME Init PROVE IInv
  OBVIOUS
<1>1. PICK linked \in BOOLEAN, receipts \in BOOLEAN, events \in BOOLEAN,
           rows \in {1..Legacy, {}} :
          /\ receipts => linked
          /\ events => linked
          /\ uploads = [u \in RowIds |->
                IF u \in rows
                THEN [key |-> u, env |-> IF linked THEN u ELSE 0, ip |-> "plain",
                      kind |-> "plaintext"]
                ELSE NoRow]
          /\ envelopes = [v \in EnvIds |->
                IF linked /\ v \in rows
                THEN [legacy |-> 0, token |-> IF receipts THEN v ELSE 0,
                      ip |-> "plain"]
                ELSE NoRow]
          /\ accepted = [u \in RowIds |->
                IF events /\ u \in rows
                THEN <<IF linked THEN u ELSE 0>> ELSE <<>>]
          /\ issued = IF receipts THEN Legacy ELSE 0
          /\ pages = IF rows = {} THEN {} ELSE {"plaintext"}
          /\ lax = [plaintext |-> rows # {}, address |-> rows # {}]
  BY DEF Init
<1>2. rows \subseteq 1..Legacy
  BY <1>1
<1>3. at = "down" /\ cfg \in Configs /\ todo = {} /\ made = Legacy /\ crashes = 0
  BY DEF Init
<1>4. \A u \in rows : u \in RowIds /\ u \in EnvIds /\ u \in 1..MaxKey /\ u \in 1..MaxToken
  BY <1>2 DEF RowIds, EnvIds
<1>5. /\ \A u \in rows : uploads[u] \in Row
      /\ \A u \in RowIds \ rows : uploads[u] = NoRow
  BY <1>1, <1>4 DEF Row, Addresses, Kinds
<1>6. /\ linked => \A v \in rows : envelopes[v] \in Envelope
      /\ \A v \in EnvIds : ~linked \/ v \notin rows => envelopes[v] = NoRow
  BY <1>1, <1>4 DEF Envelope, Addresses
<1>7. accepted \in [RowIds -> Seq(EnvIds \cup {0})]
  <2>1. ASSUME NEW u \in RowIds PROVE accepted[u] \in Seq(EnvIds \cup {0})
    <3> DEFINE link == IF linked THEN u ELSE 0
    <3>1. u \in rows => link \in EnvIds \cup {0}
      BY <1>4
    <3>2. accepted[u] = IF events /\ u \in rows THEN <<link>> ELSE <<>>
      BY <1>1
    <3>3. ASSUME NEW e \in EnvIds \cup {0} PROVE <<e>> \in Seq(EnvIds \cup {0})
      OBVIOUS
    <3>4. <<>> \in Seq(EnvIds \cup {0})
      OBVIOUS
    <3> HIDE DEF link
    <3>5. CASE events /\ u \in rows
      BY <3>1, <3>2, <3>3, <3>5
    <3>6. CASE ~(events /\ u \in rows)
      BY <3>2, <3>4, <3>6
    <3> QED BY <3>5, <3>6
  <2>2. accepted = [u \in RowIds |-> accepted[u]]
    BY <1>1
  <2> QED BY <2>1, <2>2
<1>8. TypeOK
  <2>1. issued \in 0..MaxToken /\ pages \subseteq Kinds
        /\ lax \in [plaintext : BOOLEAN, address : BOOLEAN]
    BY <1>1 DEF Kinds
  <2>2. uploads \in [RowIds -> Row \cup {NoRow}]
    <3>1. uploads = [u \in RowIds |-> uploads[u]]
      BY <1>1
    <3> QED BY <3>1, <1>5
  <2>3. envelopes \in [EnvIds -> Envelope \cup {NoRow}]
    <3>1. envelopes = [v \in EnvIds |-> envelopes[v]]
      BY <1>1
    <3> QED BY <3>1, <1>6
  <2> QED BY <2>1, <2>2, <2>3, <1>3, <1>7 DEF TypeOK, Starting
<1>9. \A u \in RowIds : u \in rows <=> u \in LiveRows
  BY <1>4, <1>5 DEF LiveRows
<1>10. \A u \in LiveRows : uploads[u].env = (IF linked THEN u ELSE 0)
                            /\ uploads[u].ip = "plain" /\ uploads[u].kind = "plaintext"
  BY <1>1, <1>9 DEF LiveRows
<1>11. \A v \in EnvIds : v \in LiveEnvelopes <=> linked /\ v \in rows
  BY <1>4, <1>6 DEF LiveEnvelopes
<1>12. \A v \in LiveEnvelopes : envelopes[v].legacy = 0 /\ envelopes[v].ip = "plain"
  BY <1>1, <1>11 DEF LiveEnvelopes
<1>13. LinksAgree
  <2>1. ASSUME NEW u \in LiveRows, uploads[u].env # 0
        PROVE  uploads[u].env \in LiveEnvelopes /\ envelopes[uploads[u].env].legacy \in {0, u}
    BY <2>1, <1>4, <1>9, <1>10, <1>11, <1>12 DEF LiveRows
  <2>2. ASSUME NEW u \in LiveRows, accepted[u] # <<>>
        PROVE  uploads[u].env # 0 /\ accepted[u] = <<uploads[u].env>>
    <3>1. u \in RowIds /\ u \in rows /\ u \in 1..MaxKey
      BY <1>9, <1>4 DEF LiveRows
    <3>2. events /\ linked /\ accepted[u] = <<u>>
      BY <1>1, <2>2, <3>1
    <3> QED BY <3>1, <3>2, <1>10
  <2> QED BY <2>1, <2>2 DEF LinksAgree
<1>14. NothingGarbled
  BY <1>10, <1>12 DEF NothingGarbled
<1>15. WhatAllKeptOutIsOut
  <2>1. rows = {} => LiveRows = {} /\ LiveEnvelopes = {} /\ pages = {}
    BY <1>1, <1>9, <1>11 DEF LiveRows, LiveEnvelopes
  <2> QED BY <2>1, <1>1 DEF WhatAllKeptOutIsOut
<1> QED BY <1>3, <1>8, <1>13, <1>14, <1>15
        DEF IInv, Progress, CfgCounted, AddressesAreDigests, Linked, Tokened

\* Steps that leave tables and history alone.
LEMMA StartKeeps == IInv /\ Start => IInv'
<1> SUFFICES ASSUME IInv, Start PROVE IInv'
  OBVIOUS
<1>1. cfg' \in Config /\ lax \in [plaintext : BOOLEAN, address : BOOLEAN]
  BY DEF IInv, TypeOK, Start
<1>2. lax' \in [plaintext : BOOLEAN, address : BOOLEAN]
      /\ (lax'.plaintext <=> lax.plaintext \/ ~cfg'.required)
      /\ (lax'.address <=> lax.address \/ (cfg'.ip = "plain" /\ ~cfg'.anonymous))
  BY <1>1 DEF Start, Config
<1>3. TypeOK'
  BY <1>2 DEF IInv, TypeOK, Start, data, Starting
<1>4. WhatAllKeptOutIsOut'
  BY <1>2 DEF IInv, WhatAllKeptOutIsOut, Start, data, LiveRows, LiveEnvelopes
<1>5. CfgCounted'
  BY <1>2 DEF CfgCounted
<1> QED
  BY <1>3, <1>4, <1>5 DEF IInv, Start, data, Progress, LinksAgree, NothingGarbled,
     AddressesAreDigests, LiveRows, LiveEnvelopes, Linked, Tokened

LEMMA ReadKeeps == IInv /\ ReadTokenless => IInv'
BY DEF IInv, ReadTokenless, NeedsToken, data, TypeOK, Starting, Progress, LinksAgree,
   NothingGarbled, CfgCounted, AddressesAreDigests, WhatAllKeptOutIsOut, LiveRows,
   LiveEnvelopes, Linked, Tokened

LEMMA TokensDoneKeeps == IInv /\ TokensDone => IInv'
BY DEF IInv, TokensDone, data, TypeOK, Starting, Progress, LinksAgree,
   NothingGarbled, CfgCounted, AddressesAreDigests, WhatAllKeptOutIsOut, LiveRows,
   LiveEnvelopes, Linked, Tokened

LEMMA CrashKeeps == IInv /\ Crash => IInv'
BY DEF IInv, Crash, data, TypeOK, Starting, Progress, LinksAgree,
   NothingGarbled, CfgCounted, AddressesAreDigests, WhatAllKeptOutIsOut, LiveRows,
   LiveEnvelopes, Linked, Tokened

LEMMA CreatePageKeeps ==
    ASSUME IInv, NEW kind \in Kinds, CreatePage(kind)
    PROVE  IInv'
<1>1. WhatAllKeptOutIsOut'
  <2>1. ~lax.plaintext => kind = "e2e"
    BY DEF IInv, CfgCounted, CreatePage, OffersKind, Kinds
  <2> QED BY <2>1 DEF IInv, WhatAllKeptOutIsOut, CreatePage, LiveRows, LiveEnvelopes
<1> QED
  BY <1>1 DEF IInv, CreatePage, TypeOK, Starting, Progress, LinksAgree,
     NothingGarbled, CfgCounted, AddressesAreDigests, LiveRows, LiveEnvelopes,
     Linked, Tokened
LEMMA InsertKeeps == IInv /\ InsertEnvelopes => IInv'
<1> SUFFICES ASSUME IInv, InsertEnvelopes PROVE IInv'
  OBVIOUS
<1>1. TypeOK /\ LinksAgree /\ NothingGarbled /\ CfgCounted /\ WhatAllKeptOutIsOut
  BY DEF IInv
<1>2. /\ at = "insert" /\ at' = "link"
      /\ UNCHANGED <<cfg, todo, uploads, accepted, made, issued, pages, crashes, lax>>
  BY DEF InsertEnvelopes
<1>3. /\ \A v \in LiveEnvelopes : envelopes'[v] = envelopes[v]
      /\ \A v \in EnvIds : envelopes'[v] # envelopes[v] =>
            /\ v \notin LiveEnvelopes
            /\ envelopes'[v].legacy \in Unlinked
            /\ envelopes'[v].ip = uploads[envelopes'[v].legacy].ip
      /\ envelopes' \in [EnvIds -> Envelope \cup {NoRow}]
  BY <1>1, InsertAdds
<1>4. TypeOK'
  BY <1>1, <1>2, <1>3 DEF TypeOK, Starting
<1>5. LiveEnvelopes \subseteq LiveEnvelopes' /\ LiveRows' = LiveRows
  BY <1>2, <1>3 DEF LiveEnvelopes, LiveRows
<1>6. LinksAgree'
  BY <1>1, <1>2, <1>3, <1>5 DEF LinksAgree
<1>7. \A v \in LiveEnvelopes' : \/ v \in LiveEnvelopes /\ envelopes'[v] = envelopes[v]
                               \/ \E u \in LiveRows : envelopes'[v].ip = uploads[u].ip
  BY <1>3 DEF LiveEnvelopes, Unlinked
<1>8. NothingGarbled'
  BY <1>1, <1>2, <1>5, <1>7 DEF NothingGarbled
<1>9. WhatAllKeptOutIsOut'
  BY <1>1, <1>2, <1>5, <1>7 DEF WhatAllKeptOutIsOut
<1> QED BY <1>1, <1>2, <1>4, <1>6, <1>8, <1>9
        DEF IInv, Progress, CfgCounted, AddressesAreDigests, Linked, Tokened

\* The rows that a start links, and to what.
LEMMA LinkLinks ==
    ASSUME TypeOK, LinkUploads
    PROVE  /\ uploads' \in [RowIds -> Row \cup {NoRow}]
           /\ LiveRows' = LiveRows
           /\ \A u \in LiveRows :
                 /\ uploads'[u].ip = uploads[u].ip
                 /\ uploads'[u].kind = uploads[u].kind
                 /\ uploads'[u].key = uploads[u].key
                 /\ uploads[u].env # 0 => uploads'[u] = uploads[u]
                 /\ uploads[u].env = 0 =>
                       /\ uploads'[u].env \in LiveEnvelopes
                       /\ envelopes[uploads'[u].env].legacy = u
<1>1. PICK link \in [Unlinked -> LiveEnvelopes] :
          /\ \A u \in Unlinked : envelopes[link[u]].legacy = u
          /\ uploads' = [u \in RowIds |->
                IF u \in Unlinked THEN [uploads[u] EXCEPT !.env = link[u]]
                                  ELSE uploads[u]]
  BY DEF LinkUploads
<1>2. ASSUME NEW u \in Unlinked
      PROVE  /\ u \in LiveRows /\ u \in RowIds /\ uploads[u] \in Row
             /\ link[u] \in EnvIds /\ uploads'[u] = [uploads[u] EXCEPT !.env = link[u]]
  BY <1>1 DEF Unlinked, LiveRows, LiveEnvelopes, TypeOK
<1>3. ASSUME NEW u \in Unlinked
      PROVE  /\ uploads'[u] \in Row
             /\ uploads'[u].env = link[u] /\ uploads'[u].ip = uploads[u].ip
             /\ uploads'[u].kind = uploads[u].kind /\ uploads'[u].key = uploads[u].key
  BY <1>2 DEF Row
<1>4. \A u \in RowIds \ Unlinked : uploads'[u] = uploads[u]
  BY <1>1
<1>5. uploads' \in [RowIds -> Row \cup {NoRow}]
  <2>1. uploads' = [u \in RowIds |-> uploads'[u]]
    BY <1>1
  <2> QED BY <2>1, <1>3, <1>4 DEF TypeOK
<1>6. LiveRows' = LiveRows
  <2>1. \A u \in RowIds : uploads'[u] # NoRow <=> uploads[u] # NoRow
    <3>1. \A u \in Unlinked : uploads[u] # NoRow /\ uploads'[u] # NoRow
      BY <1>2, <1>3
    <3> QED BY <3>1, <1>4
  <2> QED BY <2>1 DEF LiveRows
<1> QED BY <1>1, <1>3, <1>4, <1>5, <1>6 DEF Unlinked, LiveRows

LEMMA LinkKeeps == IInv /\ LinkUploads => IInv'
<1> SUFFICES ASSUME IInv, LinkUploads PROVE IInv'
  OBVIOUS
<1>1. TypeOK /\ LinksAgree /\ NothingGarbled /\ CfgCounted /\ WhatAllKeptOutIsOut
  BY DEF IInv
<1>2. /\ at = "link" /\ at' = "read"
      /\ UNCHANGED <<cfg, todo, envelopes, accepted, made, issued, pages, crashes, lax>>
  BY DEF LinkUploads
<1>3. /\ uploads' \in [RowIds -> Row \cup {NoRow}]
      /\ LiveRows' = LiveRows
      /\ \A u \in LiveRows :
            /\ uploads'[u].ip = uploads[u].ip
            /\ uploads'[u].kind = uploads[u].kind
            /\ uploads[u].env # 0 => uploads'[u] = uploads[u]
            /\ uploads[u].env = 0 =>
                  /\ uploads'[u].env \in LiveEnvelopes
                  /\ envelopes[uploads'[u].env].legacy = u
  BY <1>1, LinkLinks
<1>4. TypeOK'
  BY <1>1, <1>2, <1>3 DEF TypeOK, Starting
<1>5. LiveEnvelopes' = LiveEnvelopes /\ \A v \in LiveEnvelopes : v # 0
  BY <1>2 DEF LiveEnvelopes, EnvIds
<1>6. \A u \in LiveRows : uploads'[u].env # 0
  BY <1>3, <1>5
<1>7. LinksAgree'
  BY <1>1, <1>2, <1>3, <1>5, <1>6 DEF LinksAgree
<1>8. NothingGarbled' /\ WhatAllKeptOutIsOut'
  BY <1>1, <1>2, <1>3, <1>5 DEF NothingGarbled, WhatAllKeptOutIsOut
<1> QED BY <1>1, <1>2, <1>3, <1>4, <1>6, <1>7, <1>8
        DEF IInv, Progress, CfgCounted, AddressesAreDigests, Linked, Tokened

LEMMA AssignKeeps == IInv /\ AssignToken => IInv'
<1> SUFFICES ASSUME IInv, AssignToken PROVE IInv'
  OBVIOUS
<1>1. /\ at = "tokens" /\ issued < MaxToken /\ issued' = issued + 1
      /\ UNCHANGED <<at, cfg, uploads, accepted, made, pages, crashes, lax>>
  BY DEF AssignToken
<1>2. PICK v \in todo :
          /\ envelopes' = [envelopes EXCEPT ![v].token = issued + 1]
          /\ todo' = todo \ {v}
  BY DEF AssignToken
<1>3. v \in LiveEnvelopes /\ v \in EnvIds /\ envelopes[v] \in Envelope
  BY <1>1, <1>2 DEF IInv, Progress, TypeOK, LiveEnvelopes
<1>4. issued + 1 \in 0..MaxToken /\ issued + 1 # 0
  BY <1>1 DEF IInv, TypeOK
<1>5. /\ envelopes'[v] \in Envelope /\ envelopes'[v].token = issued + 1
      /\ envelopes'[v].ip = envelopes[v].ip /\ envelopes'[v].legacy = envelopes[v].legacy
      /\ \A w \in EnvIds \ {v} : envelopes'[w] = envelopes[w]
      /\ envelopes' \in [EnvIds -> Envelope \cup {NoRow}]
  BY <1>2, <1>3, <1>4 DEF IInv, TypeOK, Envelope
<1>6. LiveEnvelopes' = LiveEnvelopes /\ LiveRows' = LiveRows
  BY <1>1, <1>3, <1>5 DEF LiveEnvelopes, LiveRows
<1>7. TypeOK'
  BY <1>1, <1>2, <1>4, <1>5 DEF IInv, TypeOK
<1>8. Progress'
  BY <1>1, <1>2, <1>4, <1>5, <1>6 DEF IInv, Progress, LiveEnvelopes, Linked, Tokened
<1>9. \A w \in LiveEnvelopes : /\ envelopes'[w].ip = envelopes[w].ip
                              /\ envelopes'[w].legacy = envelopes[w].legacy
  BY <1>5 DEF LiveEnvelopes
<1> QED BY <1>1, <1>6, <1>7, <1>8, <1>9
        DEF IInv, LinksAgree, NothingGarbled, CfgCounted, AddressesAreDigests, WhatAllKeptOutIsOut

LEMMA BackfillKeeps == IInv /\ BackfillEvents => IInv'
<1> SUFFICES ASSUME IInv, BackfillEvents PROVE IInv'
  OBVIOUS
<1>1. /\ at = "events"
      /\ at' = IF cfg.ip = "hmac" THEN "addresses" ELSE "serving"
      /\ UNCHANGED <<cfg, todo, uploads, envelopes, made, issued, pages, crashes, lax>>
      /\ accepted' = [u \in RowIds |->
            IF u \in LiveRows /\ accepted[u] = <<>>
            THEN <<uploads[u].env>> ELSE accepted[u]]
  BY DEF BackfillEvents
<1>2. ASSUME NEW u \in LiveRows
      PROVE  /\ u \in RowIds /\ uploads[u].env \in EnvIds /\ uploads[u].env # 0
             /\ accepted'[u] = <<uploads[u].env>>
  BY <1>1 DEF IInv, LinksAgree, Progress, LiveRows, LiveEnvelopes, EnvIds, Linked
<1>3. accepted' \in [RowIds -> Seq(EnvIds \cup {0})]
  <2>1. ASSUME NEW e \in EnvIds \cup {0} PROVE <<e>> \in Seq(EnvIds \cup {0})
    OBVIOUS
  <2> QED BY <1>1, <1>2, <2>1 DEF IInv, TypeOK
<1>4. TypeOK'
  BY <1>1, <1>3 DEF IInv, TypeOK, Starting
<1>5. LiveEnvelopes' = LiveEnvelopes /\ LiveRows' = LiveRows
  BY <1>1 DEF LiveEnvelopes, LiveRows
<1>6. LinksAgree' /\ Progress'
  BY <1>1, <1>2, <1>5 DEF IInv, LinksAgree, Progress, Linked, Tokened
<1> QED BY <1>1, <1>4, <1>5, <1>6
        DEF IInv, NothingGarbled, CfgCounted, AddressesAreDigests, WhatAllKeptOutIsOut

LEMMA RewriteKeeps == IInv /\ RewriteAddresses => IInv'
<1> SUFFICES ASSUME IInv, RewriteAddresses PROVE IInv'
  OBVIOUS
<1>1. /\ at = "addresses" /\ at' = "serving"
      /\ UNCHANGED <<cfg, todo, accepted, made, issued, pages, crashes, lax>>
  BY DEF RewriteAddresses
<1>2. ASSUME NEW u \in LiveRows
      PROVE  /\ uploads'[u] \in Row /\ uploads'[u].ip \in {"digest", "none"}
             /\ uploads'[u].ip = RewriteStored(uploads[u].ip)
             /\ uploads'[u].env = uploads[u].env /\ uploads'[u].kind = uploads[u].kind
  <2>1. u \in RowIds /\ uploads[u] \in Row /\ uploads[u].ip \in {"none", "plain", "digest"}
    BY DEF IInv, TypeOK, LiveRows, NothingGarbled, Row, Addresses
  <2>2. uploads'[u] = [uploads[u] EXCEPT !.ip = RewriteStored(@)]
    BY <2>1 DEF RewriteAddresses
  <2> QED BY <2>1, <2>2 DEF Row, Addresses, RewriteStored
<1>3. ASSUME NEW v \in LiveEnvelopes
      PROVE  /\ envelopes'[v] \in Envelope /\ envelopes'[v].ip \in {"digest", "none"}
             /\ envelopes'[v].token = envelopes[v].token
             /\ envelopes'[v].legacy = envelopes[v].legacy
  <2>1. v \in EnvIds /\ envelopes[v] \in Envelope
        /\ envelopes[v].ip \in {"none", "plain", "digest"}
    BY DEF IInv, TypeOK, LiveEnvelopes, NothingGarbled, Envelope, Addresses
  <2>2. envelopes'[v] = [envelopes[v] EXCEPT !.ip = RewriteStored(@)]
    BY <2>1 DEF RewriteAddresses
  <2> QED BY <2>1, <2>2 DEF Envelope, Addresses, RewriteStored
<1>4. /\ \A u \in RowIds \ LiveRows : uploads'[u] = NoRow
      /\ \A v \in EnvIds \ LiveEnvelopes : envelopes'[v] = NoRow
      /\ uploads' = [u \in RowIds |-> uploads'[u]]
      /\ envelopes' = [v \in EnvIds |-> envelopes'[v]]
  BY DEF RewriteAddresses
<1>5. /\ uploads' \in [RowIds -> Row \cup {NoRow}] /\ LiveRows' = LiveRows
      /\ envelopes' \in [EnvIds -> Envelope \cup {NoRow}] /\ LiveEnvelopes' = LiveEnvelopes
  BY <1>2, <1>3, <1>4 DEF LiveRows, LiveEnvelopes
<1>6. TypeOK'
  BY <1>1, <1>5 DEF IInv, TypeOK, Starting
<1>7. LinksAgree' /\ Progress'
  BY <1>1, <1>2, <1>3, <1>5 DEF IInv, LinksAgree, Progress, Linked, Tokened
<1>8. NothingGarbled' /\ AddressesAreDigests' /\ WhatAllKeptOutIsOut'
  BY <1>1, <1>2, <1>3, <1>5 DEF IInv, NothingGarbled, AddressesAreDigests, WhatAllKeptOutIsOut
<1> QED BY <1>1, <1>6, <1>7, <1>8 DEF IInv, CfgCounted
LEMMA UploadKeeps ==
    ASSUME IInv, NEW kind \in Kinds, NEW u \in RowIds, NEW v \in EnvIds,
           Upload(kind, u, v)
    PROVE  IInv'
<1> DEFINE row == [key |-> made + 1, env |-> v, ip |-> Stored, kind |-> kind]
           env == [legacy |-> 0, token |-> issued + 1, ip |-> Stored]
<1>1. /\ at = "serving" /\ kind \in pages /\ made < MaxKey /\ issued < MaxToken
      /\ made' = made + 1 /\ issued' = issued + 1
      /\ accepted' = [accepted EXCEPT ![u] = <<v>>]
      /\ UNCHANGED <<at, cfg, todo, pages, crashes, lax>>
  BY DEF Upload
<1>2. made \in 0..MaxKey /\ issued \in 0..MaxToken
      /\ made + 1 \in 1..MaxKey /\ issued + 1 \in 1..MaxToken
  BY <1>1 DEF IInv, TypeOK
<1>3. Stored \in {"none", "plain", "digest"}
      /\ (cfg.ip = "hmac" => Stored # "plain") /\ (~lax.address => Stored # "plain")
  BY <1>1 DEF Stored, IInv, CfgCounted, TypeOK, Config
<1>4. row \in Row /\ env \in Envelope
  BY <1>2, <1>3 DEF Row, Envelope, Addresses
<1>5. /\ uploads' = [uploads EXCEPT ![u] = row]
      /\ envelopes' = [envelopes EXCEPT ![v] = env]
  BY DEF Upload
<1>6. u \notin LiveRows /\ v \notin LiveEnvelopes
  <2>1. LiveRows \subseteq Nat /\ LiveEnvelopes \subseteq Nat /\ u \in Nat /\ v \in Nat
    BY DEF LiveRows, LiveEnvelopes, RowIds, EnvIds
  <2>2. IsNext(u, LiveRows) /\ IsNext(v, LiveEnvelopes)
    BY DEF Upload
  <2> QED BY <2>1, <2>2 DEF IsNext
<1>7. /\ uploads'[u] = row /\ \A w \in RowIds \ {u} : uploads'[w] = uploads[w]
      /\ envelopes'[v] = env /\ \A w \in EnvIds \ {v} : envelopes'[w] = envelopes[w]
      /\ accepted'[u] = <<v>> /\ \A w \in RowIds \ {u} : accepted'[w] = accepted[w]
  BY <1>1, <1>5 DEF IInv, TypeOK
<1>8. LiveRows' = LiveRows \cup {u} /\ LiveEnvelopes' = LiveEnvelopes \cup {v}
  <2> HIDE DEF row, env
  <2> QED BY <1>4, <1>7 DEF LiveRows, LiveEnvelopes
<1>9. TypeOK'
  <2> HIDE DEF row, env
  <2>1. <<v>> \in Seq(EnvIds \cup {0})
    OBVIOUS
  <2> QED BY <1>1, <1>2, <1>4, <1>5, <2>1 DEF IInv, TypeOK
<1>10. row.env = v /\ row.ip = Stored /\ row.kind = kind /\ v # 0
       /\ env.legacy = 0 /\ env.token # 0 /\ env.ip = Stored
  BY <1>2 DEF EnvIds
<1> HIDE DEF row, env
<1>11. LinksAgree'
  <2>1. \A w \in LiveRows : w # u /\ uploads'[w] = uploads[w] /\ accepted'[w] = accepted[w]
    BY <1>6, <1>7 DEF LiveRows
  <2>2. \A w \in LiveEnvelopes : w # v /\ envelopes'[w] = envelopes[w]
    BY <1>6, <1>7 DEF LiveEnvelopes
  <2>3. ASSUME NEW w \in LiveRows
        PROVE  LET e == uploads'[w].env IN
               /\ e # 0 => e \in LiveEnvelopes' /\ envelopes'[e].legacy \in {0, w}
               /\ accepted'[w] # <<>> => e # 0 /\ accepted'[w] = <<e>>
    BY <2>1, <2>2, <1>8 DEF IInv, LinksAgree
  <2>4. LET e == uploads'[u].env IN
        /\ e # 0 => e \in LiveEnvelopes' /\ envelopes'[e].legacy \in {0, u}
        /\ accepted'[u] # <<>> => e # 0 /\ accepted'[u] = <<e>>
    BY <1>7, <1>8, <1>10
  <2> QED BY <2>3, <2>4, <1>8 DEF LinksAgree
<1>12. Progress'
  <2>1. <<v>> # <<>>
    OBVIOUS
  <2> QED BY <1>1, <1>6, <1>7, <1>8, <1>10, <2>1
          DEF IInv, Progress, Linked, Tokened, LiveRows, LiveEnvelopes
<1>13. NothingGarbled' /\ AddressesAreDigests'
  BY <1>1, <1>3, <1>6, <1>7, <1>8, <1>10
     DEF IInv, NothingGarbled, AddressesAreDigests, LiveRows, LiveEnvelopes
<1>14. WhatAllKeptOutIsOut'
  <2>1. ~lax.plaintext => kind = "e2e"
    BY <1>1 DEF IInv, WhatAllKeptOutIsOut
  <2> QED BY <1>1, <1>3, <1>6, <1>7, <1>8, <1>10, <2>1
          DEF IInv, WhatAllKeptOutIsOut, LiveRows, LiveEnvelopes
<1> QED BY <1>1, <1>9, <1>11, <1>12, <1>13, <1>14 DEF IInv, CfgCounted

\* Deleting rows, their events with them, and envelopes that no remaining row
\* is linked to.
LEMMA RemovalKeeps ==
    ASSUME IInv, at = "serving", UNCHANGED <<at, cfg, todo, made, issued, pages, crashes, lax>>,
           NEW rows \in SUBSET RowIds, DeleteRows(rows),
           NEW envs \in SUBSET EnvIds,
           envelopes' = [w \in EnvIds |-> IF w \in envs THEN NoRow ELSE envelopes[w]],
           \A u \in LiveRows : uploads[u].env \in envs => u \in rows
    PROVE  IInv'
<1>1. /\ \A u \in rows : uploads'[u] = NoRow
      /\ \A u \in RowIds \ rows : uploads'[u] = uploads[u] /\ accepted'[u] = accepted[u]
      /\ uploads' = [u \in RowIds |-> uploads'[u]]
  BY DEF DeleteRows
<1>2. LiveRows' = LiveRows \ rows /\ LiveEnvelopes' = LiveEnvelopes \ envs
  BY <1>1 DEF LiveRows, LiveEnvelopes
<1>3. TypeOK'
  <2>1. uploads' \in [RowIds -> Row \cup {NoRow}]
    BY <1>1 DEF IInv, TypeOK
  <2>2. envelopes' \in [EnvIds -> Envelope \cup {NoRow}]
    BY DEF IInv, TypeOK
  <2>3. accepted' \in [RowIds -> Seq(EnvIds \cup {0})]
    <3>1. <<>> \in Seq(EnvIds \cup {0})
      OBVIOUS
    <3> QED BY <3>1 DEF DeleteRows, IInv, TypeOK
  <2> QED BY <2>1, <2>2, <2>3 DEF IInv, TypeOK
<1>4. /\ \A u \in LiveRows' : u \in LiveRows /\ uploads'[u] = uploads[u] /\ accepted'[u] = accepted[u]
      /\ \A w \in LiveEnvelopes' : w \in LiveEnvelopes /\ envelopes'[w] = envelopes[w]
  BY <1>1, <1>2 DEF LiveRows, LiveEnvelopes
<1>5. \A u \in LiveRows' : uploads[u].env \notin envs
  BY <1>2
<1>6. LinksAgree'
  BY <1>2, <1>4, <1>5 DEF IInv, LinksAgree
<1>7. Progress' /\ NothingGarbled' /\ AddressesAreDigests' /\ WhatAllKeptOutIsOut' /\ CfgCounted'
  BY <1>2, <1>4 DEF IInv, Progress, NothingGarbled, AddressesAreDigests,
     WhatAllKeptOutIsOut, CfgCounted, Linked, Tokened
<1> QED BY <1>3, <1>6, <1>7 DEF IInv

LEMMA DeleteUploadKeeps ==
    ASSUME IInv, NEW u \in RowIds, DeleteUpload(u)
    PROVE  IInv'
<1>1. envelopes' = [w \in EnvIds |-> IF w \in {} THEN NoRow ELSE envelopes[w]]
  BY DEF DeleteUpload, IInv, TypeOK
<1>2. {u} \in SUBSET RowIds /\ {} \in SUBSET EnvIds
      /\ \A w \in LiveRows : uploads[w].env \in {} => w \in {u}
  OBVIOUS
<1>3. /\ at = "serving" /\ DeleteRows({u})
      /\ UNCHANGED <<at, cfg, todo, made, issued, pages, crashes, lax>>
  BY DEF DeleteUpload
<1> QED BY <1>1, <1>2, <1>3, RemovalKeeps

LEMMA DeleteSubmissionKeeps ==
    ASSUME IInv, NEW v \in EnvIds, DeleteSubmission(v)
    PROVE  IInv'
<1> DEFINE rows == {u \in LiveRows : uploads[u].env = v}
<1>1. envelopes' = [w \in EnvIds |-> IF w \in {v} THEN NoRow ELSE envelopes[w]]
  BY DEF DeleteSubmission, IInv, TypeOK
<1>2. rows \in SUBSET RowIds /\ \A u \in LiveRows : uploads[u].env \in {v} => u \in rows
  BY DEF LiveRows
<1>3. /\ at = "serving" /\ DeleteRows(rows)
      /\ UNCHANGED <<at, cfg, todo, made, issued, pages, crashes, lax>>
  BY DEF DeleteSubmission
<1> HIDE DEF rows
<1> QED BY <1>1, <1>2, <1>3, RemovalKeeps

LEMMA StutterKeeps == IInv /\ UNCHANGED vars => IInv'
BY DEF IInv, vars, data, TypeOK, Progress, LinksAgree, NothingGarbled, CfgCounted,
   AddressesAreDigests, WhatAllKeptOutIsOut, LiveRows, LiveEnvelopes

LEMMA StepKeeps == IInv /\ [Next]_vars => IInv'
BY StartKeeps, InsertKeeps, LinkKeeps, ReadKeeps, AssignKeeps, TokensDoneKeeps,
   BackfillKeeps, RewriteKeeps, CreatePageKeeps, UploadKeeps, DeleteUploadKeeps,
   DeleteSubmissionKeeps, CrashKeeps, StutterKeeps DEF Next, StartupStep

LEMMA InvariantHolds == Spec => []IInv
<1> QED BY InitHolds, StepKeeps, PTL DEF Spec

(***************************************************************************)
(* The theorems.                                                           *)
(***************************************************************************)

\* Every reachable state is well typed.
THEOREM TypeCorrect == Spec => []TypeOK
<1>1. IInv => TypeOK
  BY DEF IInv
<1> QED BY <1>1, InvariantHolds, PTL

\* Wherever earlier starts were cut, a server that serves has complete records.
THEOREM RecordsAreComplete == Spec => []ServesCompleteRecords
<1>1. IInv => ServesCompleteRecords
  BY DEF IInv, Progress, LinksAgree, ServesCompleteRecords, Linked, Tokened
<1> QED BY <1>1, InvariantHolds, PTL

\* Under hmac-sha256 every stored address is a digest, once, or empty.
THEOREM DigestsOnly == Spec => []AddressesAreDigests
<1>1. IInv => AddressesAreDigests
  BY DEF IInv
<1> QED BY <1>1, InvariantHolds, PTL

\* What every process so far was told to keep out is not in the database.
THEOREM KeptOut == Spec => []WhatAllKeptOutIsOut
<1>1. IInv => WhatAllKeptOutIsOut
  BY DEF IInv
<1> QED BY <1>1, InvariantHolds, PTL

\* What has a token keeps it.
TokensStay == \A v \in LiveEnvelopes :
            envelopes[v].token # 0 /\ envelopes'[v] # NoRow
            => envelopes'[v].token = envelopes[v].token

LEMMA TokensKept == ASSUME IInv, Next PROVE TokensStay
<1> USE DEF TokensStay
<1>1. CASE InsertEnvelopes
  BY <1>1, InsertAdds DEF IInv
<1>2. CASE AssignToken
  <2>1. PICK v \in todo : envelopes' = [envelopes EXCEPT ![v].token = issued + 1]
    BY <1>2 DEF AssignToken
  <2>2. envelopes[v].token = 0
    BY <1>2 DEF AssignToken, IInv, Progress
  <2> QED BY <2>1, <2>2 DEF IInv, TypeOK, LiveEnvelopes
<1>3. CASE RewriteAddresses
  <2>1. ASSUME NEW v \in LiveEnvelopes PROVE envelopes'[v].token = envelopes[v].token
    <3>1. v \in EnvIds /\ envelopes[v] \in Envelope
      BY DEF IInv, TypeOK, LiveEnvelopes
    <3>2. envelopes'[v] = [envelopes[v] EXCEPT !.ip = RewriteStored(@)]
      BY <1>3, <3>1 DEF RewriteAddresses
    <3> QED BY <3>1, <3>2 DEF Envelope
  <2> QED BY <2>1
<1>4. ASSUME NEW kind \in Kinds, NEW u \in RowIds, NEW v \in EnvIds, Upload(kind, u, v)
      PROVE  TokensStay
  <2>1. v \notin LiveEnvelopes
    BY <1>4 DEF Upload, IsNext, LiveEnvelopes, EnvIds
  <2>2. envelopes' = [envelopes EXCEPT ![v] =
                         [legacy |-> 0, token |-> issued + 1, ip |-> Stored]]
    BY <1>4 DEF Upload
  <2> QED BY <2>1, <2>2 DEF IInv, TypeOK, LiveEnvelopes
<1>5. ASSUME NEW v \in EnvIds, DeleteSubmission(v) PROVE TokensStay
  BY <1>5 DEF DeleteSubmission, IInv, TypeOK, LiveEnvelopes
<1>6. CASE UNCHANGED envelopes
  BY <1>6
<1> QED BY <1>1, <1>2, <1>3, <1>4, <1>5, <1>6
        DEF Next, StartupStep, Start, LinkUploads, ReadTokenless, TokensDone,
            BackfillEvents, CreatePage, DeleteUpload, Crash, data

\* Tokens are given once.
TokensApart ==
    \A v, w \in LiveEnvelopes :
        /\ envelopes[v].token <= issued
        /\ envelopes[v].token # 0 /\ envelopes[w].token = envelopes[v].token => w = v

\* A step that adds at most one token, the next one, to an envelope without.
LEMMA GivingOnce ==
    ASSUME TypeOK, TypeOK', TokensApart, issued' \in {issued, issued + 1},
           NEW fresh \in EnvIds,
           \A v \in LiveEnvelopes' :
               \/ envelopes'[v].token = 0
               \/ v \in LiveEnvelopes /\ envelopes'[v].token = envelopes[v].token
               \/ v = fresh /\ envelopes'[v].token = issued + 1 /\ issued' = issued + 1
    PROVE  TokensApart'
<1>1. issued \in Nat /\ \A v \in LiveEnvelopes : envelopes[v].token \in Nat
  BY DEF TypeOK, LiveEnvelopes, Envelope
<1> QED BY <1>1 DEF TokensApart

LEMMA TokensStayApart == IInv /\ TokensApart /\ [Next]_vars => TokensApart'
<1> SUFFICES ASSUME IInv, TokensApart, [Next]_vars PROVE TokensApart'
  OBVIOUS
<1>1. TypeOK /\ TypeOK' /\ issued \in Nat
  BY StepKeeps DEF IInv, TypeOK
<1>2. ASSUME NEW v \in LiveEnvelopes' PROVE v \in EnvIds
  BY DEF LiveEnvelopes
<1>3. CASE InsertEnvelopes
  <2>1. \A v \in LiveEnvelopes' :
            envelopes'[v].token = 0
            \/ (v \in LiveEnvelopes /\ envelopes'[v].token = envelopes[v].token)
    BY <1>1, <1>3, InsertAdds DEF LiveEnvelopes
  <2>2. issued' = issued
    BY <1>3 DEF InsertEnvelopes
  <2> QED BY <1>1, <2>1, <2>2 DEF TokensApart
<1>4. CASE AssignToken
  <2>1. PICK v \in todo : envelopes' = [envelopes EXCEPT ![v].token = issued + 1]
    BY <1>4 DEF AssignToken
  <2>2. v \in LiveEnvelopes /\ issued' = issued + 1
    BY <1>4 DEF AssignToken, IInv, Progress
  <2>3. \A w \in LiveEnvelopes' :
            \/ w \in LiveEnvelopes /\ envelopes'[w].token = envelopes[w].token
            \/ w = v /\ envelopes'[w].token = issued + 1
    BY <1>1, <2>1, <2>2 DEF TypeOK, LiveEnvelopes, Envelope
  <2>4. v \in EnvIds
    BY <2>2 DEF LiveEnvelopes
  <2> QED BY <1>1, <2>2, <2>3, <2>4, GivingOnce
<1>5. CASE RewriteAddresses
  <2>1. ASSUME NEW v \in LiveEnvelopes'
        PROVE  v \in LiveEnvelopes /\ envelopes'[v].token = envelopes[v].token
    <3>1. v \in EnvIds /\ v \in LiveEnvelopes /\ envelopes[v] \in Envelope
      BY <1>1, <1>5, <2>1 DEF RewriteAddresses, TypeOK, LiveEnvelopes
    <3>2. envelopes'[v] = [envelopes[v] EXCEPT !.ip = RewriteStored(@)]
      BY <1>5, <3>1 DEF RewriteAddresses
    <3> QED BY <3>1, <3>2 DEF Envelope
  <2>2. issued' = issued
    BY <1>5 DEF RewriteAddresses
  <2> QED BY <2>1, <2>2 DEF TokensApart
<1>6. ASSUME NEW kind \in Kinds, NEW u \in RowIds, NEW v \in EnvIds, Upload(kind, u, v)
      PROVE  TokensApart'
  <2>1. /\ envelopes' = [envelopes EXCEPT ![v] =
                            [legacy |-> 0, token |-> issued + 1, ip |-> Stored]]
        /\ issued' = issued + 1
    BY <1>6 DEF Upload
  <2>2. \A w \in LiveEnvelopes' :
            \/ w \in LiveEnvelopes /\ envelopes'[w].token = envelopes[w].token
            \/ w = v /\ envelopes'[w].token = issued + 1
    BY <1>1, <2>1 DEF TypeOK, LiveEnvelopes
  <2> QED BY <1>1, <2>1, <2>2, GivingOnce
<1>7. ASSUME NEW v \in EnvIds, DeleteSubmission(v) PROVE TokensApart'
  BY <1>1, <1>7 DEF DeleteSubmission, TypeOK, LiveEnvelopes, TokensApart
<1>8. CASE UNCHANGED <<envelopes, issued>>
  BY <1>8 DEF TokensApart, LiveEnvelopes
<1> QED BY <1>3, <1>4, <1>5, <1>6, <1>7, <1>8
        DEF Next, StartupStep, Start, LinkUploads, ReadTokenless, TokensDone,
            BackfillEvents, CreatePage, DeleteUpload, Crash, data, vars

\* No start gives an envelope another token or a token to two of them, and nothing
\* else does: a receipt leads to its own submission for as long as that exists.
THEOREM ReceiptsAreKept == Spec => ReceiptsSurviveRestarts
<1> DEFINE Leads == \A v \in LiveEnvelopes :
                       envelopes[v].token # 0 /\ envelopes'[v] # NoRow
                       => \A w \in LiveEnvelopes' :
                             envelopes'[w].token = envelopes[v].token <=> w = v
<1>1. Init => TokensApart
  <2> SUFFICES ASSUME Init PROVE TokensApart
    OBVIOUS
  <2>1. /\ issued \in Nat
        /\ \A v \in LiveEnvelopes :
              envelopes[v].token = 0 \/ (envelopes[v].token = v /\ v <= issued)
    BY DEF Init, LiveEnvelopes, EnvIds
  <2> QED BY <2>1 DEF TokensApart
<1>2. IInv /\ TokensApart /\ [Next]_vars => [Leads]_vars
  <2> SUFFICES ASSUME IInv, TokensApart, Next PROVE Leads
    BY DEF vars
  <2>1. TokensStay /\ TokensApart'
    BY TokensKept, TokensStayApart
  <2>2. \A v \in LiveEnvelopes : envelopes'[v] # NoRow => v \in LiveEnvelopes'
    BY DEF LiveEnvelopes
  <2> QED BY <2>1, <2>2 DEF TokensStay, TokensApart
<1>3. IInv /\ TokensApart /\ [Next]_vars => TokensApart'
  BY TokensStayApart
<1> HIDE DEF Leads
<1>4. Spec => [][Leads]_vars
  BY <1>1, <1>2, <1>3, InvariantHolds, PTL DEF Spec
<1> QED BY <1>4 DEF Leads, ReceiptsSurviveRestarts

\* Files that arrived together stay together, and a start gives each upload of a
\* version without submissions one of its own.
THEOREM SubmissionsAreKept == Spec => SubmissionIsImmutable
<1> DEFINE Kept == \A u \in LiveRows :
              LET new == uploads'[u] IN
              new # NoRow /\ new.key = uploads[u].key =>
                  IF uploads[u].env # 0 THEN new.env = uploads[u].env
                  ELSE new.env # 0 =>
                           \A w \in RowIds \ {u} :
                               uploads'[w] # NoRow => uploads'[w].env # new.env
<1>1. ASSUME IInv, Next PROVE Kept
  <2>1. CASE LinkUploads
    <3>1. /\ LiveRows' = LiveRows
          /\ \A u \in LiveRows :
                /\ uploads[u].env # 0 => uploads'[u] = uploads[u]
                /\ uploads[u].env = 0 =>
                      /\ uploads'[u].env \in LiveEnvelopes
                      /\ envelopes[uploads'[u].env].legacy = u
      BY <1>1, <2>1, LinkLinks DEF IInv
    <3>2. ASSUME NEW u \in LiveRows, uploads[u].env = 0,
                 NEW w \in RowIds \ {u}, uploads'[w] # NoRow,
                 uploads'[w].env = uploads'[u].env
          PROVE  FALSE
      <4>1. w \in LiveRows
        BY <3>1, <3>2 DEF LiveRows
      <4>2. envelopes[uploads'[u].env].legacy = u /\ u # 0
        BY <3>1, <3>2 DEF LiveRows, RowIds
      <4>3. CASE uploads[w].env = 0
        BY <3>1, <3>2, <4>1, <4>2, <4>3
      <4>4. CASE uploads[w].env # 0
        BY <1>1, <3>1, <3>2, <4>1, <4>2, <4>4 DEF IInv, LinksAgree
      <4> QED BY <4>3, <4>4
    <3> QED BY <3>1, <3>2
  <2>2. CASE RewriteAddresses
    <3>1. ASSUME NEW u \in LiveRows PROVE uploads'[u].env = uploads[u].env
      <4>1. u \in RowIds /\ uploads[u] \in Row
        BY <1>1 DEF IInv, TypeOK, LiveRows
      <4>2. uploads'[u] = [uploads[u] EXCEPT !.ip = RewriteStored(@)]
        BY <2>2, <4>1 DEF RewriteAddresses
      <4> QED BY <4>1, <4>2 DEF Row
    <3>2. at \in Linked
      BY <2>2 DEF RewriteAddresses, Linked
    <3> QED BY <1>1, <3>1, <3>2 DEF IInv, Progress
  <2>3. ASSUME NEW kind \in Kinds, NEW i \in RowIds, NEW v \in EnvIds, Upload(kind, i, v)
        PROVE  Kept
    <3>1. i \notin LiveRows /\ at \in Linked
      BY <2>3 DEF Upload, IsNext, LiveRows, RowIds, Linked
    <3>2. uploads' = [uploads EXCEPT ![i] =
                        [key |-> made + 1, env |-> v, ip |-> Stored, kind |-> kind]]
      BY <2>3 DEF Upload
    <3>3. \A u \in LiveRows : uploads'[u] = uploads[u] /\ uploads[u].env # 0
      BY <1>1, <3>1, <3>2 DEF IInv, TypeOK, Progress, LiveRows
    <3> QED BY <3>3
  <2>4. ASSUME NEW rows \in SUBSET RowIds, DeleteRows(rows), at = "serving" PROVE Kept
    BY <1>1, <2>4 DEF DeleteRows, IInv, Progress, Linked, LiveRows
  <2>5. CASE UNCHANGED uploads /\ ~LinkUploads
    BY <2>5
  <2>6. CASE \E v \in EnvIds : DeleteSubmission(v)
    BY <2>6, <2>4 DEF DeleteSubmission, LiveRows
  <2>7. CASE \E u \in RowIds : DeleteUpload(u)
    BY <2>7, <2>4 DEF DeleteUpload
  <2> QED BY <1>1, <2>1, <2>2, <2>3, <2>5, <2>6, <2>7
          DEF Next, StartupStep, Start, InsertEnvelopes, ReadTokenless, AssignToken,
              TokensDone, BackfillEvents, CreatePage, Crash, data
<1>2. IInv /\ [Next]_vars => [Kept]_vars
  BY <1>1 DEF vars
<1> QED BY <1>2, InvariantHolds, PTL DEF Spec, SubmissionIsImmutable
=============================================================================
