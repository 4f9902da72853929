-------------------------- MODULE SessionFileProofs --------------------------
(***************************************************************************)
(* Proofs about SessionFile, for every set of clients, profiles, accounts  *)
(* and tokens.                                                             *)
(***************************************************************************)
EXTENDS SessionFile, TLAPS

(* A client that is not there knows nothing; one that is has a profile.    *)
OffOrPlaced(c) ==
  IF cl[c].pc = "off" THEN cl[c] = Off ELSE cl[c].profile \in Profiles

(* Every token in a set of entries was issued to the profile it is under.  *)
Proper(entries) ==
  \A p \in Profiles : entries[p].token # "none" => owner[entries[p].token] = p

(* So was every token a client holds, or is about to store.                *)
ProperClient(c) ==
  /\ cl[c].token # "none" => owner[cl[c].token] = cl[c].profile
  /\ cl[c].fresh # "none" => owner[cl[c].fresh] = cl[c].profile
  /\ Proper(cl[c].copy)

TokenInv == Proper(file.entries) /\ \A c \in Clients : OffOrPlaced(c) /\ ProperClient(c)

(* The file is readable and up to date.                                    *)
UpToDate ==
  file.state = "whole" /\ \A p \in Profiles : file.entries[p].token = latest[p]

(* Updates that have not overlapped: there is at most one, and between its *)
(* reading and its writing the client's copy stands for the file.          *)
CalmInv ==
  ~rough =>
    /\ \A c, d \in Clients : Between(c) /\ Between(d) => c = d
    /\ (\A c \in Clients : ~Between(c)) => UpToDate
    /\ \A c \in Clients : cl[c].pc = "loaded" => UpToDate /\ cl[c].copy = file.entries
    /\ \A c \in Clients : cl[c].pc = "cut" =>
         file.state = "empty" /\ \A p \in Profiles : cl[c].copy[p].token = latest[p]

IndInv == TypeOK /\ TokenInv /\ CalmInv

-----------------------------------------------------------------------------
(* Types of the values the actions are built from.                         *)
LEMMA BlankTypes == Blank \in Entries /\ Nothing \in [Profiles -> Entries] /\ Off \in ClientType
  BY DEF Blank, Nothing, Off, Entries, ClientType, Pcs, Tasks

LEMMA OffFields ==
  /\ Off.pc = "off" /\ Off.profile = "none" /\ Off.token = "none" /\ Off.fresh = "none"
  /\ Off.task = "none" /\ Off.copy = Nothing
  /\ Proper(Nothing)
  BY DEF Off, Proper, Nothing, Blank

LEMMA ContentsType ==
  ASSUME TypeOK, NEW s
  PROVE  Contents(s) \in [Profiles -> Entries]
  BY BlankTypes DEF Contents, TypeOK

LEMMA PreferredType ==
  ASSUME NEW e \in Entries
  PROVE  Preferred(e) \in Accounts \cup {"none"}
  BY DEF Preferred, Entries

LEMMA ClientFields ==
  ASSUME TypeOK, NEW c \in Clients
  PROVE  /\ cl[c] \in ClientType
         /\ cl[c].pc \in Pcs /\ cl[c].task \in Tasks
         /\ cl[c].profile \in Profiles \cup {"none"}
         /\ cl[c].key \in Accounts \cup {"none"} /\ cl[c].account \in Accounts \cup {"none"}
         /\ cl[c].target \in Accounts \cup {"none"}
         /\ cl[c].token \in Tokens \cup {"none"} /\ cl[c].fresh \in Tokens \cup {"none"}
         /\ cl[c].snap \in Entries /\ cl[c].copy \in [Profiles -> Entries]
  BY DEF TypeOK, ClientType

LEMMA MergedType ==
  ASSUME TypeOK, NEW c \in Clients, cl[c].profile \in Profiles
  PROVE  Merged(c) \in Entries
  <1>1. cl[c].copy[cl[c].profile] \in Entries
    BY ClientFields
  <1>2. QED
    BY <1>1, ClientFields DEF Merged, Entries

LEMMA UpdatedType ==
  ASSUME TypeOK, NEW c \in Clients, cl[c].profile \in Profiles
  PROVE  Updated(c) \in [Profiles -> Entries]
  BY MergedType, ClientFields DEF Updated

(* What an update does to the tokens: only those of a login or an import   *)
(* change, and only under the client's profile.                            *)
LEMMA UpdatedTokens ==
  ASSUME TypeOK, NEW c \in Clients, cl[c].profile \in Profiles, NEW p \in Profiles
  PROVE  Updated(c)[p].token =
           IF p = cl[c].profile /\ cl[c].task \in {"login", "import"}
           THEN cl[c].fresh ELSE cl[c].copy[p].token
  <1>1. cl[c].copy[cl[c].profile] \in Entries
    BY ClientFields
  <1>2. Merged(c).token = IF cl[c].task \in {"login", "import"}
                          THEN cl[c].fresh ELSE cl[c].copy[cl[c].profile].token
    BY <1>1 DEF Merged, Entries
  <1>3. QED
    BY <1>2, ClientFields DEF Updated

-----------------------------------------------------------------------------
(* A client record changes to a record of the type.                        *)
LEMMA StepType ==
  ASSUME TypeOK, NEW c \in Clients, NEW r \in ClientType, cl' = [cl EXCEPT ![c] = r],
         sdk' = sdk,
         file' \in [state : {"whole", "empty", "tailed"}, entries : [Profiles -> Entries]],
         opens' \in 0..MaxOpens, updates' \in 0..MaxUpdates,
         owner' \in [Tokens -> Profiles \cup {"none"}], rough' \in BOOLEAN,
         latest' \in [Profiles -> Tokens \cup {"none"}],
         chosen' \in [Profiles -> Accounts \cup {"none"}]
  PROVE  TypeOK'
  BY DEF TypeOK

LEMMA InitType == Init => TypeOK
  <1>. SUFFICES ASSUME Init PROVE TypeOK
    OBVIOUS
  <1>1. cl \in [Clients -> ClientType] /\ sdk \in [Clients -> Sdks]
    BY BlankTypes DEF Init
  <1>2. file \in [state : {"whole", "empty", "tailed"}, entries : [Profiles -> Entries]]
    BY BlankTypes DEF Init
  <1>3. opens \in 0..MaxOpens /\ updates \in 0..MaxUpdates
    BY BoundsAssumption DEF Init
  <1>4. /\ owner \in [Tokens -> Profiles \cup {"none"}] /\ rough \in BOOLEAN
        /\ latest \in [Profiles -> Tokens \cup {"none"}]
        /\ chosen \in [Profiles -> Accounts \cup {"none"}]
    BY DEF Init
  <1>5. QED
    BY <1>1, <1>2, <1>3, <1>4 DEF TypeOK

-----------------------------------------------------------------------------
(* Tokens keep the profile they were issued to.                            *)
OwnersStay == \A t \in Tokens : owner[t] # "none" => owner'[t] = owner[t]

LEMMA ProperStays ==
  ASSUME TypeOK, OwnersStay, NEW e \in [Profiles -> Entries], Proper(e), NEW p \in Profiles,
         e[p].token # "none"
  PROVE  owner'[e[p].token] = p
  <1>1. e[p].token \in Tokens
    BY DEF Entries
  <1>2. owner[e[p].token] = p /\ p # "none"
    BY NoneAssumption DEF Proper
  <1>3. QED
    BY <1>1, <1>2 DEF OwnersStay

(* A client that does not move stays as proper as it was.                  *)
LEMMA OtherClient ==
  ASSUME TypeOK, TokenInv, OwnersStay, NEW d \in Clients, cl'[d] = cl[d]
  PROVE  OffOrPlaced(d)' /\ ProperClient(d)'
  <1>1. OffOrPlaced(d) /\ ProperClient(d)
    BY DEF TokenInv
  <1>2. OffOrPlaced(d)'
    BY <1>1 DEF OffOrPlaced
  <1>3. ASSUME NEW t \in Tokens, owner[t] = cl[d].profile, cl[d].pc # "off"
        PROVE  owner'[t] = cl[d].profile
    BY <1>1, <1>3, NoneAssumption DEF OffOrPlaced, OwnersStay
  <1>4. cl[d].pc = "off" => cl[d].token = "none" /\ cl[d].fresh = "none"
    BY <1>1 DEF OffOrPlaced, Off
  <1>5. cl[d].token # "none" => owner'[cl[d].token] = cl[d].profile
    BY <1>1, <1>3, <1>4, ClientFields DEF ProperClient
  <1>6. cl[d].fresh # "none" => owner'[cl[d].fresh] = cl[d].profile
    BY <1>1, <1>3, <1>4, ClientFields DEF ProperClient
  <1>7. \A p \in Profiles : cl[d].copy[p].token # "none" => owner'[cl[d].copy[p].token] = p
    BY <1>1, ClientFields, ProperStays DEF ProperClient
  <1>8. ProperClient(d)'
    BY <1>5, <1>6, <1>7 DEF ProperClient, Proper
  <1>9. QED
    BY <1>2, <1>8

(* A step of c that leaves the file alone keeps the tokens proper if it    *)
(* leaves c so.                                                            *)
LEMMA TokenStep ==
  ASSUME TypeOK, TokenInv, OwnersStay, NEW c \in Clients, NEW r, cl' = [cl EXCEPT ![c] = r],
         UNCHANGED file, OffOrPlaced(c)', ProperClient(c)'
  PROVE  TokenInv'
  <1>1. \A d \in Clients : OffOrPlaced(d)' /\ ProperClient(d)'
    <2>1. ASSUME NEW d \in Clients, d # c PROVE OffOrPlaced(d)' /\ ProperClient(d)'
      <3>1. cl'[d] = cl[d]
        BY <2>1 DEF TypeOK
      <3>2. QED
        BY <3>1, OtherClient
    <2>2. QED
      BY <2>1
  <1>2. file.entries \in [Profiles -> Entries] /\ Proper(file.entries)
    BY DEF TypeOK, TokenInv
  <1>3. Proper(file.entries)'
    BY <1>2, ProperStays DEF Proper
  <1>4. QED
    BY <1>1, <1>3 DEF TokenInv

(* So does one that is no part of the reading and writing keep the calm.   *)
LEMMA CalmFrame ==
  ASSUME TypeOK, CalmInv, NEW c \in Clients, NEW r, cl' = [cl EXCEPT ![c] = r],
         ~Between(c), r.pc \notin {"loaded", "cut"}, UNCHANGED <<file, latest, rough>>
  PROVE  CalmInv'
  <1>1. cl'[c].pc \notin {"loaded", "cut"} /\ \A d \in Clients : d # c => cl'[d] = cl[d]
    BY DEF TypeOK
  <1>2. \A d \in Clients : cl'[d].pc \in {"loaded", "cut"} => d # c /\ cl'[d] = cl[d]
    BY <1>1
  <1>3. \A d \in Clients : Between(d)' <=> Between(d)
    BY <1>1 DEF Between
  <1>4. UpToDate' <=> UpToDate
    BY DEF UpToDate
  <1>5. QED
    BY <1>1, <1>2, <1>3, <1>4 DEF CalmInv

LEMMA InitInd == Init => IndInv
  <1>. SUFFICES ASSUME Init PROVE IndInv
    OBVIOUS
  <1>1. TypeOK
    BY InitType
  <1>2. \A c \in Clients : cl[c] = Off /\ file.entries = Nothing
    BY DEF Init
  <1>3. \A c \in Clients : OffOrPlaced(c) /\ ProperClient(c)
    <2>1. ASSUME NEW c \in Clients PROVE OffOrPlaced(c) /\ ProperClient(c)
      <3>1. cl[c] = Off
        BY <1>2
      <3>2. QED
        BY <3>1, OffFields DEF OffOrPlaced, ProperClient
    <2>2. QED
      BY <2>1
  <1>4. TokenInv
    <2>1. Proper(file.entries)
      BY OffFields DEF Init
    <2>2. QED
      BY <1>3, <2>1 DEF TokenInv
  <1>5. CalmInv
    <2>1. UpToDate
      BY DEF Init, UpToDate, Nothing, Blank
    <2>2. \A c \in Clients : cl[c].pc = "off"
      <3>1. ASSUME NEW c \in Clients PROVE cl[c].pc = "off"
        <4>1. cl[c] = Off
          BY <1>2
        <4>2. QED
          BY <4>1, OffFields
      <3>2. QED
        BY <3>1
    <2>3. QED
      BY <2>1, <2>2 DEF CalmInv, Between
  <1>6. QED
    BY <1>1, <1>4, <1>5 DEF IndInv

(* What a step of c that is no part of the reading and writing has to keep. *)
LEMMA LocalStep ==
  ASSUME IndInv, NEW c \in Clients, NEW r \in ClientType, cl' = [cl EXCEPT ![c] = r],
         ~Between(c), r.pc \notin {"loaded", "cut"},
         UNCHANGED <<sdk, file, rough, latest, chosen>>,
         opens' \in 0..MaxOpens, updates' \in 0..MaxUpdates,
         owner' \in [Tokens -> Profiles \cup {"none"}], OwnersStay,
         IF r.pc = "off" THEN r = Off ELSE r.profile \in Profiles,
         r.token # "none" => owner'[r.token] = r.profile,
         r.fresh # "none" => owner'[r.fresh] = r.profile,
         \A p \in Profiles : r.copy[p].token # "none" => owner'[r.copy[p].token] = p
  PROVE  IndInv'
  <1>1. TypeOK /\ TokenInv /\ CalmInv
    BY DEF IndInv
  <1>2. TypeOK'
    BY <1>1, StepType DEF TypeOK
  <1>3. cl'[c] = r
    BY <1>1 DEF TypeOK
  <1>4. OffOrPlaced(c)' /\ ProperClient(c)'
    BY <1>3 DEF OffOrPlaced, ProperClient, Proper
  <1>5. TokenInv'
    BY <1>1, <1>4, TokenStep
  <1>6. CalmInv'
    BY <1>1, CalmFrame
  <1>7. QED
    BY <1>2, <1>5, <1>6 DEF IndInv

(* What is known of a client that is there.                                *)
LEMMA ClientTokens ==
  ASSUME IndInv, NEW c \in Clients
  PROVE  /\ cl[c].pc # "off" => cl[c].profile \in Profiles
         /\ cl[c].token # "none" => owner[cl[c].token] = cl[c].profile
         /\ cl[c].fresh # "none" => owner[cl[c].fresh] = cl[c].profile
         /\ \A p \in Profiles : cl[c].copy[p].token # "none" => owner[cl[c].copy[p].token] = p
  BY DEF IndInv, TokenInv, OffOrPlaced, ProperClient, Proper

(* The same when a token without an owner is issued to the client.         *)
LEMMA IssueToken ==
  ASSUME IndInv, NEW c \in Clients, cl[c].pc = "ready", NEW t \in Tokens, owner[t] = "none",
         owner' = [owner EXCEPT ![t] = cl[c].profile]
  PROVE  /\ owner' \in [Tokens -> Profiles \cup {"none"}]
         /\ OwnersStay
         /\ owner'[t] = cl[c].profile
         /\ cl[c].token # "none" => owner'[cl[c].token] = cl[c].profile
         /\ \A p \in Profiles : cl[c].copy[p].token # "none" => owner'[cl[c].copy[p].token] = p
  <1>1. cl[c].profile \in Profiles /\ TypeOK
    BY ClientTokens DEF IndInv
  <1>2. owner' \in [Tokens -> Profiles \cup {"none"}] /\ OwnersStay /\ owner'[t] = cl[c].profile
    BY <1>1 DEF TypeOK, OwnersStay
  <1>3. cl[c].token # "none" => owner'[cl[c].token] = cl[c].profile
    BY <1>1, <1>2, ClientTokens, ClientFields, NoneAssumption DEF OwnersStay
  <1>4. ASSUME NEW p \in Profiles, cl[c].copy[p].token # "none"
        PROVE  owner'[cl[c].copy[p].token] = p
    BY <1>1, <1>2, <1>4, ClientTokens, ClientFields, ProperStays DEF Proper
  <1>5. QED
    BY <1>2, <1>3, <1>4

-----------------------------------------------------------------------------
(* The steps.                                                              *)
LEMMA OpenInd ==
  ASSUME IndInv, NEW c \in Clients, NEW p \in Profiles, NEW k \in Accounts, Open(c, p, k)
  PROVE  IndInv'
  <1>. DEFINE e == Contents(sdk[c])[p]
              r == [Off EXCEPT !.pc = "ready", !.profile = p, !.key = k, !.token = e.token,
                      !.snap = IF Python(sdk[c]) THEN e ELSE Blank,
                      !.account = IF Python(sdk[c]) THEN "none" ELSE Preferred(e)]
  <1>1. TypeOK /\ TokenInv /\ CalmInv
    BY DEF IndInv
  <1>2. e \in Entries
    BY <1>1, ContentsType
  <1>3. r \in ClientType
    <2>. DEFINE stored == IF Python(sdk[c]) THEN e ELSE Blank
                a == IF Python(sdk[c]) THEN "none" ELSE Preferred(e)
    <2>1. /\ stored \in Entries /\ a \in Accounts \cup {"none"}
          /\ e.token \in Tokens \cup {"none"}
      BY <1>2, BlankTypes, PreferredType DEF Entries
    <2>2. r = [Off EXCEPT !.pc = "ready", !.profile = p, !.key = k, !.token = e.token,
                          !.snap = stored, !.account = a]
      OBVIOUS
    <2>. HIDE DEF r, e, stored, a
    <2>3. QED
      BY <2>1, <2>2, BlankTypes DEF ClientType, Pcs, Tasks
  <1>4. cl' = [cl EXCEPT ![c] = r] /\ UNCHANGED <<sdk, file, updates, owner, rough, latest, chosen>>
    BY DEF Open
  <1>5. opens' \in 0..MaxOpens
    BY <1>1, BoundsAssumption DEF Open, TypeOK
  <1>6. TypeOK'
    BY <1>1, <1>3, <1>4, <1>5, StepType DEF TypeOK
  <1>7. e.token # "none" => owner[e.token] = p
    BY <1>1 DEF Contents, TokenInv, Proper, Nothing, Blank
  <1>8. cl'[c] = r
    BY <1>1, <1>4 DEF TypeOK
  <1>9. OffOrPlaced(c)' /\ ProperClient(c)'
    <2>1. r.pc = "ready" /\ r.profile = p /\ r.token = e.token /\ r.fresh = "none" /\ r.copy = Nothing
      BY DEF Off
    <2>2. owner' = owner /\ Proper(Nothing)
      BY <1>4, OffFields
    <2>3. Proper(Nothing)'
      BY <2>2 DEF Proper, Nothing
    <2>. HIDE DEF r, e
    <2>4. cl'[c].pc = "ready" /\ cl'[c].profile = p /\ cl'[c].fresh = "none"
          /\ cl'[c].copy = Nothing /\ cl'[c].token = e.token
      BY <1>8, <2>1
    <2>5. QED
      BY <1>7, <2>2, <2>3, <2>4 DEF OffOrPlaced, ProperClient
  <1>10. TokenInv'
    BY <1>1, <1>4, <1>9, TokenStep DEF OwnersStay
  <1>11. CalmInv'
    BY <1>1, <1>4, CalmFrame DEF Open, Between, Off
  <1>12. QED
    BY <1>6, <1>10, <1>11 DEF IndInv

LEMMA LogInInd ==
  ASSUME IndInv, NEW c \in Clients, NEW t \in Tokens, LogIn(c, t)
  PROVE  IndInv'
  <1>. DEFINE kept == IF sdk[c] \in {"go", "node"} THEN t ELSE cl[c].token
              r == [cl[c] EXCEPT !.pc = "load", !.task = "login", !.fresh = t, !.token = kept]
  <1>1. /\ cl[c].pc = "ready" /\ owner[t] = "none" /\ cl' = [cl EXCEPT ![c] = r]
        /\ owner' = [owner EXCEPT ![t] = cl[c].profile]
        /\ UNCHANGED <<sdk, file, opens, rough, latest, chosen>>
    BY DEF LogIn
  <1>2. TypeOK /\ cl[c] \in ClientType
    BY ClientFields DEF IndInv
  <1>3. /\ r \in ClientType
        /\ r.pc = "load" /\ r.profile = cl[c].profile /\ r.fresh = t /\ r.copy = cl[c].copy
        /\ r.token \in {t, cl[c].token}
    <2>1. kept \in {t, cl[c].token} /\ kept \in Tokens \cup {"none"}
      BY <1>2 DEF ClientType
    <2>. HIDE DEF kept
    <2>3. QED
      BY <1>2, <2>1 DEF ClientType, Pcs, Tasks
  <1>4. updates' \in 0..MaxUpdates /\ opens' \in 0..MaxOpens
    BY <1>2, BoundsAssumption DEF LogIn, TypeOK
  <1>. HIDE DEF r
  <1>5. /\ owner' \in [Tokens -> Profiles \cup {"none"}] /\ OwnersStay
        /\ cl[c].profile \in Profiles /\ owner'[t] = cl[c].profile
        /\ cl[c].token # "none" => owner'[cl[c].token] = cl[c].profile
        /\ \A p \in Profiles : cl[c].copy[p].token # "none" => owner'[cl[c].copy[p].token] = p
    BY <1>1, ClientTokens, IssueToken
  <1>6. /\ r.pc \notin {"loaded", "cut"} /\ IF r.pc = "off" THEN r = Off ELSE r.profile \in Profiles
        /\ r.token # "none" => owner'[r.token] = r.profile
        /\ r.fresh # "none" => owner'[r.fresh] = r.profile
        /\ \A p \in Profiles : r.copy[p].token # "none" => owner'[r.copy[p].token] = p
    BY <1>3, <1>5
  <1>7. ~Between(c)
    BY <1>1 DEF Between
  <1>8. QED
    BY <1>1, <1>3, <1>4, <1>5, <1>6, <1>7, LocalStep

LEMMA ImportInd ==
  ASSUME IndInv, NEW c \in Clients, NEW t \in Tokens, Import(c, t)
  PROVE  IndInv'
  <1>. DEFINE r == [cl[c] EXCEPT !.pc = "load", !.task = "import", !.fresh = t]
  <1>1. /\ cl[c].pc = "ready" /\ owner[t] = "none" /\ cl' = [cl EXCEPT ![c] = r]
        /\ owner' = [owner EXCEPT ![t] = cl[c].profile]
        /\ UNCHANGED <<sdk, file, opens, rough, latest, chosen>>
    BY DEF Import
  <1>2. TypeOK /\ cl[c] \in ClientType
    BY ClientFields DEF IndInv
  <1>3. /\ r \in ClientType
        /\ r.pc = "load" /\ r.profile = cl[c].profile /\ r.fresh = t /\ r.copy = cl[c].copy
        /\ r.token = cl[c].token
    BY <1>2 DEF ClientType, Pcs, Tasks
  <1>4. updates' \in 0..MaxUpdates /\ opens' \in 0..MaxOpens
    BY <1>2, BoundsAssumption DEF Import, TypeOK
  <1>. HIDE DEF r
  <1>5. /\ owner' \in [Tokens -> Profiles \cup {"none"}] /\ OwnersStay
        /\ cl[c].profile \in Profiles /\ owner'[t] = cl[c].profile
        /\ cl[c].token # "none" => owner'[cl[c].token] = cl[c].profile
        /\ \A p \in Profiles : cl[c].copy[p].token # "none" => owner'[cl[c].copy[p].token] = p
    BY <1>1, ClientTokens, IssueToken
  <1>6. /\ r.pc \notin {"loaded", "cut"} /\ IF r.pc = "off" THEN r = Off ELSE r.profile \in Profiles
        /\ r.token # "none" => owner'[r.token] = r.profile
        /\ r.fresh # "none" => owner'[r.fresh] = r.profile
        /\ \A p \in Profiles : r.copy[p].token # "none" => owner'[r.copy[p].token] = p
    BY <1>3, <1>5
  <1>7. ~Between(c)
    BY <1>1 DEF Between
  <1>8. QED
    BY <1>1, <1>3, <1>4, <1>5, <1>6, <1>7, LocalStep

(* A step of c outside reading and writing that moves no token.            *)
LEMMA PlainStep ==
  ASSUME IndInv, NEW c \in Clients, NEW r \in ClientType, cl' = [cl EXCEPT ![c] = r],
         ~Between(c), cl[c].pc # "off", r.pc \notin {"off", "loaded", "cut"},
         r.profile = cl[c].profile, r.token = cl[c].token, r.copy = cl[c].copy,
         r.fresh \in {"none", cl[c].fresh},
         UNCHANGED <<sdk, file, opens, owner, rough, latest, chosen>>,
         updates' \in 0..MaxUpdates
  PROVE  IndInv'
  <1>1. opens' \in 0..MaxOpens /\ owner' \in [Tokens -> Profiles \cup {"none"}]
    BY DEF IndInv, TypeOK
  <1>2. OwnersStay
    BY DEF OwnersStay
  <1>3. /\ IF r.pc = "off" THEN r = Off ELSE r.profile \in Profiles
        /\ r.token # "none" => owner'[r.token] = r.profile
        /\ r.fresh # "none" => owner'[r.fresh] = r.profile
        /\ \A p \in Profiles : r.copy[p].token # "none" => owner'[r.copy[p].token] = p
    BY ClientTokens
  <1>4. QED
    BY <1>1, <1>2, <1>3, LocalStep

LEMMA ResolveInd ==
  ASSUME IndInv, NEW c \in Clients, Resolve(c)
  PROVE  IndInv'
  <1>. DEFINE a == IF Python(sdk[c]) /\ Preferred(cl[c].snap) # "none"
                   THEN Preferred(cl[c].snap) ELSE cl[c].key
              kept == IF Python(sdk[c]) THEN cl[c].account ELSE a
              r == IF sdk[c] = "node" THEN [cl[c] EXCEPT !.account = a]
                   ELSE [cl[c] EXCEPT !.pc = "load", !.task = "resolve", !.target = a,
                                      !.account = kept]
  <1>1. /\ cl[c].pc = "ready" /\ cl' = [cl EXCEPT ![c] = r]
        /\ UNCHANGED <<sdk, file, opens, owner, rough, latest, chosen>>
    BY DEF Resolve
  <1>2. TypeOK /\ cl[c] \in ClientType
    BY ClientFields DEF IndInv
  <1>3. /\ r \in ClientType
        /\ r.pc \in {"ready", "load"} /\ r.profile = cl[c].profile /\ r.fresh = cl[c].fresh
        /\ r.copy = cl[c].copy /\ r.token = cl[c].token
    <2>1. a \in Accounts \cup {"none"} /\ kept \in Accounts \cup {"none"}
      BY <1>2, ClientFields, PreferredType
    <2>. HIDE DEF kept, a
    <2>2. QED
      BY <1>1, <1>2, <2>1 DEF ClientType, Pcs, Tasks
  <1>4. updates' \in 0..MaxUpdates
    BY <1>2, BoundsAssumption DEF Resolve, TypeOK
  <1>. HIDE DEF r
  <1>5. ~Between(c)
    BY <1>1 DEF Between
  <1>6. QED
    BY <1>1, <1>3, <1>4, <1>5, PlainStep

LEMMA SwitchInd ==
  ASSUME IndInv, NEW c \in Clients, NEW a \in Accounts, Switch(c, a)
  PROVE  IndInv'
  <1>. DEFINE kept == IF Python(sdk[c]) THEN cl[c].account ELSE a
              r == [cl[c] EXCEPT !.pc = "load", !.task = "switch", !.target = a, !.account = kept]
  <1>1. /\ cl[c].pc = "ready" /\ cl' = [cl EXCEPT ![c] = r]
        /\ UNCHANGED <<sdk, file, opens, owner, rough, latest, chosen>>
    BY DEF Switch
  <1>2. TypeOK /\ cl[c] \in ClientType
    BY ClientFields DEF IndInv
  <1>3. /\ r \in ClientType
        /\ r.pc = "load" /\ r.profile = cl[c].profile /\ r.fresh = cl[c].fresh
        /\ r.copy = cl[c].copy /\ r.token = cl[c].token
    <2>1. kept \in Accounts \cup {"none"}
      BY <1>2, ClientFields
    <2>. HIDE DEF kept
    <2>2. QED
      BY <1>2, <2>1 DEF ClientType, Pcs, Tasks
  <1>4. updates' \in 0..MaxUpdates
    BY <1>2, BoundsAssumption DEF Switch, TypeOK
  <1>. HIDE DEF r
  <1>5. ~Between(c)
    BY <1>1 DEF Between
  <1>6. QED
    BY <1>1, <1>3, <1>4, <1>5, PlainStep

(* The file is read: with nobody else updating it, the copy is its text.   *)
LEMMA LoadInd ==
  ASSUME IndInv, NEW c \in Clients, Load(c)
  PROVE  IndInv'
  <1>. DEFINE found == Contents(sdk[c])
              proceeds == Reads(sdk[c]) /\
                (cl[c].task = "import" => found[cl[c].profile].token = "none")
              r == IF proceeds THEN [cl[c] EXCEPT !.pc = "loaded", !.copy = found]
                   ELSE [cl[c] EXCEPT !.pc = "ready", !.task = "none", !.fresh = "none",
                                      !.target = "none"]
  <1>1. /\ cl[c].pc = "load" /\ cl' = [cl EXCEPT ![c] = r]
        /\ rough' = (rough \/ (proceeds /\ \E d \in Clients : Between(d)))
        /\ UNCHANGED <<sdk, file, opens, updates, owner, latest, chosen>>
    BY DEF Load
  <1>2. TypeOK /\ TokenInv /\ CalmInv /\ cl[c] \in ClientType
    BY ClientFields DEF IndInv
  <1>3. found \in [Profiles -> Entries]
    BY <1>2, ContentsType
  <1>4. ~Between(c) /\ updates' \in 0..MaxUpdates
    BY <1>1, <1>2 DEF Between, TypeOK
  <1>5. CASE ~proceeds
    <2>1. rough' = rough
      BY <1>1, <1>2, <1>5 DEF TypeOK
    <2>. HIDE DEF proceeds, found
    <2>2. /\ r \in ClientType
          /\ r.pc = "ready" /\ r.profile = cl[c].profile /\ r.fresh = "none"
          /\ r.copy = cl[c].copy /\ r.token = cl[c].token
      BY <1>2, <1>5 DEF ClientType, Pcs, Tasks
    <2>. HIDE DEF r
    <2>3. QED
      BY <1>1, <1>4, <2>1, <2>2, PlainStep
  <1>6. CASE proceeds
    <2>1. Proper(found)
      BY <1>2, OffFields DEF Contents, TokenInv
    <2>2. ~rough' => UpToDate /\ (found = file.entries) /\ \A d \in Clients : ~Between(d)
      BY <1>1, <1>2, <1>6 DEF CalmInv, Contents, Readable, UpToDate
    <2>. HIDE DEF proceeds, found
    <2>3. /\ r \in ClientType
          /\ r.pc = "loaded" /\ r.profile = cl[c].profile /\ r.fresh = cl[c].fresh
          /\ r.copy = found /\ r.token = cl[c].token
      BY <1>2, <1>3, <1>6 DEF ClientType, Pcs, Tasks
    <2>. HIDE DEF r
    <2>4. cl'[c] = r /\ \A d \in Clients : d # c => cl'[d] = cl[d]
      BY <1>1, <1>2 DEF TypeOK
    <2>5. TypeOK'
      BY <1>1, <1>2, <2>3, StepType DEF TypeOK
    <2>6. OffOrPlaced(c)' /\ ProperClient(c)'
      BY <1>1, <2>1, <2>3, <2>4, ClientTokens DEF OffOrPlaced, ProperClient, Proper
    <2>7. TokenInv'
      BY <1>1, <1>2, <2>6, TokenStep DEF OwnersStay
    <2>8. CalmInv'
      <3>1. ~rough' => \A d \in Clients : d # c => ~Between(d)'
        BY <2>2, <2>4 DEF Between
      <3>2. Between(c)' /\ cl'[c].pc = "loaded" /\ cl'[c].copy = found
        BY <2>3, <2>4 DEF Between
      <3>3. UpToDate => UpToDate'
        BY <1>1 DEF UpToDate
      <3>4. ~rough' => \A d \in Clients : cl'[d].pc \in {"loaded", "cut"} => d = c
        BY <3>1 DEF Between
      <3>5. QED
        BY <1>1, <2>2, <3>1, <3>2, <3>3, <3>4 DEF CalmInv
    <2>9. QED
      BY <2>5, <2>7, <2>8 DEF IndInv
  <1>7. QED
    BY <1>5, <1>6

(* A step of c that leaves proper tokens in the file keeps them proper.    *)
LEMMA TokenWrite ==
  ASSUME TypeOK, TokenInv, NEW c \in Clients, NEW r, cl' = [cl EXCEPT ![c] = r],
         UNCHANGED owner, Proper(file.entries)', OffOrPlaced(c)', ProperClient(c)'
  PROVE  TokenInv'
  <1>1. ASSUME NEW d \in Clients, d # c PROVE OffOrPlaced(d)' /\ ProperClient(d)'
    <2>1. cl'[d] = cl[d]
      BY <1>1 DEF TypeOK
    <2>2. QED
      BY <2>1, OtherClient DEF OwnersStay
  <1>2. QED
    BY <1>1 DEF TokenInv

LEMMA TruncateInd ==
  ASSUME IndInv, NEW c \in Clients, Truncate(c)
  PROVE  IndInv'
  <1>. DEFINE r == [cl[c] EXCEPT !.pc = "cut"]
  <1>1. /\ cl[c].pc = "loaded" /\ cl' = [cl EXCEPT ![c] = r]
        /\ file' = [state |-> "empty", entries |-> Nothing]
        /\ UNCHANGED <<sdk, opens, updates, owner, rough, latest, chosen>>
    BY DEF Truncate
  <1>2. TypeOK /\ TokenInv /\ CalmInv /\ cl[c] \in ClientType
    BY ClientFields DEF IndInv
  <1>3. /\ r \in ClientType
        /\ r.pc = "cut" /\ r.profile = cl[c].profile /\ r.fresh = cl[c].fresh
        /\ r.copy = cl[c].copy /\ r.token = cl[c].token
    BY <1>2 DEF ClientType, Pcs, Tasks
  <1>. HIDE DEF r
  <1>4. cl'[c] = r /\ \A d \in Clients : d # c => cl'[d] = cl[d]
    BY <1>1, <1>2 DEF TypeOK
  <1>5. TypeOK'
    BY <1>1, <1>2, <1>3, BlankTypes, StepType DEF TypeOK
  <1>6. TokenInv'
    <2>1. OffOrPlaced(c)' /\ ProperClient(c)'
      BY <1>1, <1>3, <1>4, ClientTokens DEF OffOrPlaced, ProperClient, Proper
    <2>2. Proper(file.entries)'
      BY <1>1, OffFields DEF Proper
    <2>3. QED
      BY <1>1, <1>2, <2>1, <2>2, TokenWrite
  <1>7. CalmInv'
    <2>1. ~rough => /\ \A d \in Clients : cl'[d].pc \in {"loaded", "cut"} => d = c
                    /\ UpToDate /\ cl[c].copy = file.entries
      BY <1>1, <1>2, <1>4 DEF CalmInv, Between
    <2>2. cl'[c].pc = "cut" /\ cl'[c].copy = cl[c].copy
      BY <1>3, <1>4
    <2>3. QED
      BY <1>1, <2>1, <2>2 DEF CalmInv, Between, UpToDate
  <1>8. QED
    BY <1>5, <1>6, <1>7 DEF IndInv

(* The file is written: the copy stood for it, and the update changes no   *)
(* token but the one of a login.                                           *)
LEMMA WriteInd ==
  ASSUME IndInv, NEW c \in Clients, Write(c)
  PROVE  IndInv'
  <1>. DEFINE pc == IF cl[c].task = "login" /\ Python(sdk[c]) THEN "reload" ELSE "ready"
              token == IF cl[c].task = "login" THEN cl[c].fresh ELSE cl[c].token
              account == IF cl[c].task \in {"resolve", "switch"}
                         THEN cl[c].target ELSE cl[c].account
              r == [cl[c] EXCEPT !.pc = pc, !.task = "none", !.fresh = "none",
                      !.target = "none", !.copy = Nothing, !.token = token,
                      !.account = account]
  <1>1. /\ cl[c].pc = "cut" /\ cl' = [cl EXCEPT ![c] = r]
        /\ latest' = IF cl[c].task \in {"login", "import"}
                     THEN [latest EXCEPT ![cl[c].profile] = cl[c].fresh] ELSE latest
        /\ chosen' = IF cl[c].task = "switch"
                     THEN [chosen EXCEPT ![cl[c].profile] = cl[c].target] ELSE chosen
        /\ UNCHANGED <<sdk, opens, updates, owner, rough>>
    BY DEF Write
  <1>2. /\ file'.state \in {"whole", "tailed"} /\ file'.entries = Updated(c)
        /\ file' = [state |-> file'.state, entries |-> file'.entries]
        /\ file.state = "empty" => file'.state = "whole"
    BY DEF Write
  <1>3. TypeOK /\ TokenInv /\ CalmInv /\ cl[c] \in ClientType /\ cl[c].profile \in Profiles
    BY <1>1, ClientFields, ClientTokens DEF IndInv
  <1>4. /\ r \in ClientType
        /\ r.pc \in {"ready", "reload"} /\ r.profile = cl[c].profile /\ r.fresh = "none"
        /\ r.copy = Nothing /\ r.token \in {cl[c].fresh, cl[c].token}
    <2>1. /\ pc \in {"ready", "reload"} /\ token \in {cl[c].fresh, cl[c].token}
          /\ token \in Tokens \cup {"none"} /\ account \in Accounts \cup {"none"}
      BY <1>3, ClientFields
    <2>. DEFINE kept == [cl[c] EXCEPT !.task = "none", !.fresh = "none", !.target = "none"]
    <2>. HIDE DEF pc, token, account
    <2>2. kept \in ClientType /\ kept.profile = cl[c].profile /\ kept.fresh = "none"
      BY <1>3 DEF ClientType, Tasks
    <2>3. r = [kept EXCEPT !.pc = pc, !.copy = Nothing, !.token = token, !.account = account]
      BY <1>3 DEF ClientType
    <2>. HIDE DEF kept, r
    <2>4. QED
      BY <2>1, <2>2, <2>3, BlankTypes DEF ClientType, Pcs
  <1>. HIDE DEF r
  <1>5. cl'[c] = r /\ \A d \in Clients : d # c => cl'[d] = cl[d]
    BY <1>1, <1>3 DEF TypeOK
  <1>6. TypeOK'
    <2>1. file' \in [state : {"whole", "empty", "tailed"}, entries : [Profiles -> Entries]]
      BY <1>2, <1>3, UpdatedType
    <2>2. /\ latest' \in [Profiles -> Tokens \cup {"none"}]
          /\ chosen' \in [Profiles -> Accounts \cup {"none"}]
      BY <1>1, <1>3, ClientFields DEF TypeOK
    <2>3. QED
      BY <1>1, <1>3, <1>4, <2>1, <2>2, StepType DEF TypeOK
  <1>7. TokenInv'
    <2>1. OffOrPlaced(c)' /\ ProperClient(c)'
      <3>1. Proper(Nothing)'
        BY OffFields DEF Proper, Nothing, Blank
      <3>2. QED
        BY <1>1, <1>3, <1>4, <1>5, <3>1, ClientTokens DEF OffOrPlaced, ProperClient
    <2>2. Proper(file.entries)'
      BY <1>1, <1>2, <1>3, UpdatedTokens, ClientTokens DEF Proper
    <2>3. QED
      BY <1>1, <1>3, <2>1, <2>2, TokenWrite
  <1>8. CalmInv'
    <2>1. ~Between(c)' /\ \A d \in Clients : d # c => (Between(d)' <=> Between(d))
      BY <1>4, <1>5 DEF Between
    <2>2. ~rough => /\ \A d \in Clients : ~Between(d)'
                    /\ file.state = "empty" /\ \A p \in Profiles : cl[c].copy[p].token = latest[p]
      BY <1>1, <1>3, <2>1 DEF CalmInv, Between
    <2>3. ~rough => UpToDate'
      <3>1. ASSUME ~rough, NEW p \in Profiles PROVE file'.entries[p].token = latest'[p]
        BY <1>1, <1>2, <1>3, <2>2, <3>1, UpdatedTokens DEF TypeOK
      <3>2. QED
        BY <1>2, <2>2, <3>1 DEF UpToDate
    <2>4. QED
      BY <1>1, <2>2, <2>3 DEF CalmInv, Between
  <1>9. QED
    BY <1>6, <1>7, <1>8 DEF IndInv

LEMMA ReloadInd ==
  ASSUME IndInv, NEW c \in Clients, Reload(c)
  PROVE  IndInv'
  <1>. DEFINE e == Contents(sdk[c])[cl[c].profile]
  <1>1. /\ cl[c].pc = "reload"
        /\ UNCHANGED <<sdk, file, opens, updates, owner, rough, latest, chosen>>
    BY DEF Reload
  <1>2. TypeOK /\ cl[c] \in ClientType /\ e \in Entries
    BY <1>1, ClientFields, ClientTokens, ContentsType DEF IndInv
  <1>3. ~Between(c) /\ updates' \in 0..MaxUpdates
    BY <1>1, <1>2 DEF Between, TypeOK
  <1>4. PICK r \in ClientType :
          /\ cl' = [cl EXCEPT ![c] = r]
          /\ r.pc \in {"ready", "load"} /\ r.profile = cl[c].profile /\ r.fresh = cl[c].fresh
          /\ r.copy = cl[c].copy /\ r.token = cl[c].token
    <2>1. \/ cl' = [cl EXCEPT ![c] = [cl[c] EXCEPT !.pc = "ready"]]
          \/ cl' = [cl EXCEPT ![c] = [cl[c] EXCEPT !.pc = "ready", !.snap = e]]
          \/ \E a \in Accounts : cl' = [cl EXCEPT ![c] =
               [cl[c] EXCEPT !.pc = "load", !.snap = e, !.task = "select", !.target = a]]
      BY DEF Reload
    <2>. HIDE DEF e
    <2>2. CASE cl' = [cl EXCEPT ![c] = [cl[c] EXCEPT !.pc = "ready"]]
      <3>. DEFINE r == [cl[c] EXCEPT !.pc = "ready"]
      <3>1. /\ r \in ClientType /\ r.pc = "ready" /\ r.profile = cl[c].profile
            /\ r.fresh = cl[c].fresh /\ r.copy = cl[c].copy /\ r.token = cl[c].token
        BY <1>2 DEF ClientType, Pcs
      <3>2. cl' = [cl EXCEPT ![c] = r]
        BY <2>2
      <3>. HIDE DEF r
      <3>3. QED
        BY <3>1, <3>2
    <2>3. CASE cl' = [cl EXCEPT ![c] = [cl[c] EXCEPT !.pc = "ready", !.snap = e]]
      <3>. DEFINE r == [cl[c] EXCEPT !.pc = "ready", !.snap = e]
      <3>1. /\ r \in ClientType /\ r.pc = "ready" /\ r.profile = cl[c].profile
            /\ r.fresh = cl[c].fresh /\ r.copy = cl[c].copy /\ r.token = cl[c].token
        BY <1>2 DEF ClientType, Pcs
      <3>2. cl' = [cl EXCEPT ![c] = r]
        BY <2>3
      <3>. HIDE DEF r
      <3>3. QED
        BY <3>1, <3>2
    <2>4. ASSUME NEW a \in Accounts, cl' = [cl EXCEPT ![c] =
                   [cl[c] EXCEPT !.pc = "load", !.snap = e, !.task = "select", !.target = a]]
          PROVE  \E r \in ClientType :
                   /\ cl' = [cl EXCEPT ![c] = r]
                   /\ r.pc \in {"ready", "load"} /\ r.profile = cl[c].profile
                   /\ r.fresh = cl[c].fresh /\ r.copy = cl[c].copy /\ r.token = cl[c].token
      <3>. DEFINE r == [cl[c] EXCEPT !.pc = "load", !.snap = e, !.task = "select", !.target = a]
      <3>1. /\ r \in ClientType /\ r.pc = "load" /\ r.profile = cl[c].profile
            /\ r.fresh = cl[c].fresh /\ r.copy = cl[c].copy /\ r.token = cl[c].token
        BY <1>2 DEF ClientType, Pcs, Tasks
      <3>2. cl' = [cl EXCEPT ![c] = r]
        BY <2>4
      <3>. HIDE DEF r
      <3>3. QED
        BY <3>1, <3>2
    <2>5. QED
      BY <2>1, <2>2, <2>3, <2>4
  <1>5. QED
    BY <1>1, <1>3, <1>4, PlainStep

LEMMA ExitInd ==
  ASSUME IndInv, NEW c \in Clients, Exit(c)
  PROVE  IndInv'
  <1>1. /\ cl' = [cl EXCEPT ![c] = Off] /\ rough' = (rough \/ cl[c].pc = "cut")
        /\ UNCHANGED <<sdk, file, opens, updates, owner, latest, chosen>>
    BY DEF Exit
  <1>2. TypeOK /\ TokenInv /\ CalmInv
    BY DEF IndInv
  <1>3. cl'[c] = Off /\ \A d \in Clients : d # c => cl'[d] = cl[d]
    BY <1>1, <1>2 DEF TypeOK
  <1>4. TypeOK'
    BY <1>1, <1>2, BlankTypes, StepType DEF TypeOK
  <1>5. TokenInv'
    <2>1. OffOrPlaced(c)' /\ ProperClient(c)'
      <3>1. Proper(Nothing)'
        BY OffFields DEF Proper, Nothing, Blank
      <3>2. QED
        BY <1>3, <3>1, OffFields DEF OffOrPlaced, ProperClient
    <2>2. QED
      BY <1>1, <1>2, <2>1, TokenStep DEF OwnersStay
  <1>6. CalmInv'
    <2>1. ~Between(c)' /\ \A d \in Clients : d # c => (Between(d)' <=> Between(d))
      BY <1>3, OffFields DEF Between
    <2>2. \A d \in Clients : cl'[d].pc \in {"loaded", "cut"} => d # c /\ cl'[d] = cl[d]
      BY <1>3, OffFields
    <2>3. UpToDate' <=> UpToDate
      BY <1>1 DEF UpToDate
    <2>4. ~rough' => ~rough /\ cl[c].pc # "cut"
      BY <1>1
    <2>5. ~rough' /\ (\A d \in Clients : ~Between(d)') => UpToDate
      BY <1>2, <2>1, <2>4 DEF CalmInv, Between
    <2>6. QED
      BY <1>1, <1>2, <2>1, <2>2, <2>3, <2>4, <2>5 DEF CalmInv
  <1>7. QED
    BY <1>4, <1>5, <1>6 DEF IndInv

LEMMA StutterInd ==
  ASSUME IndInv, UNCHANGED vars
  PROVE  IndInv'
  BY DEF IndInv, vars, TypeOK, TokenInv, CalmInv, OffOrPlaced, ProperClient, Proper, Between,
         UpToDate

LEMMA NextInd == IndInv /\ [Next]_vars => IndInv'
  <1>. SUFFICES ASSUME IndInv, [Next]_vars PROVE IndInv'
    OBVIOUS
  <1>1. ASSUME NEW c \in Clients, NEW p \in Profiles, NEW k \in Accounts, Open(c, p, k)
        PROVE  IndInv'
    BY <1>1, OpenInd
  <1>2. ASSUME NEW c \in Clients, NEW t \in Tokens, LogIn(c, t) \/ Import(c, t) PROVE IndInv'
    BY <1>2, LogInInd, ImportInd
  <1>3. ASSUME NEW c \in Clients, Resolve(c) PROVE IndInv'
    BY <1>3, ResolveInd
  <1>4. ASSUME NEW c \in Clients, NEW a \in Accounts, Switch(c, a) PROVE IndInv'
    BY <1>4, SwitchInd
  <1>5. ASSUME NEW c \in Clients, Load(c) PROVE IndInv'
    BY <1>5, LoadInd
  <1>6. ASSUME NEW c \in Clients, Truncate(c) PROVE IndInv'
    BY <1>6, TruncateInd
  <1>7. ASSUME NEW c \in Clients, Write(c) PROVE IndInv'
    BY <1>7, WriteInd
  <1>8. ASSUME NEW c \in Clients, Reload(c) PROVE IndInv'
    BY <1>8, ReloadInd
  <1>9. ASSUME NEW c \in Clients, Exit(c) PROVE IndInv'
    BY <1>9, ExitInd
  <1>10. CASE Silent \/ UNCHANGED vars
    BY <1>10, StutterInd DEF Silent
  <1>11. QED
    BY <1>1, <1>2, <1>3, <1>4, <1>5, <1>6, <1>7, <1>8, <1>9, <1>10 DEF Next

LEMMA Inductive == Spec => []IndInv
  BY InitInd, NextInd, PTL DEF Spec

-----------------------------------------------------------------------------
(* Every reachable state of the file and its clients is well typed, and    *)
(* the bounds on what is constructed and updated hold.                     *)
THEOREM TypeCorrect == Spec => []TypeOK
  <1>1. IndInv => TypeOK
    BY DEF IndInv
  <1>2. QED
    BY Inductive, <1>1, PTL

(* However many clients of whatever SDKs overwrite one another's updates,  *)
(* and wherever they die: a token stored under a profile, or used by a     *)
(* client of it, was issued to a login of that profile.                    *)
THEOREM TokensStayApart == Spec => []TokensBelong
  <1>1. IndInv => TokensBelong
    BY DEF IndInv, TokenInv, Proper, ProperClient, TokensBelong
  <1>2. QED
    BY Inductive, <1>1, PTL

(* Updates that do not overlap, by any number of clients of any SDKs, keep *)
(* the token of the last login of every profile.                           *)
THEOREM LoginsAreKept == Spec => []LoginsSurvive
  <1>1. IndInv => LoginsSurvive
    BY DEF IndInv, CalmInv, UpToDate, LoginsSurvive
  <1>2. QED
    BY Inductive, <1>1, PTL

(* A step of a state in which the file is damaged and only Python and Node *)
(* are there leaves the file, and leaves nobody in the middle of an update. *)
LEMMA DamageStep == IndInv /\ [Next]_vars => [Damaged => Damaged' /\ UNCHANGED file]_vars
  <1>. SUFFICES ASSUME IndInv, Next, Damaged PROVE Damaged' /\ UNCHANGED file
    OBVIOUS
  <1>1. TypeOK /\ \A c \in Clients : ~Reads(sdk[c]) /\ ~Between(c)
    BY DEF IndInv, Damaged, Reads, Readable, TypeOK
  <1>2. UNCHANGED <<sdk, file>>
    BY <1>1 DEF Next, Open, LogIn, Import, Resolve, Switch, Load, Truncate, Write, Reload, Exit,
                Silent, vars, Between
  <1>3. ASSUME NEW c \in Clients, NEW r, cl' = [cl EXCEPT ![c] = r], r.pc \notin {"loaded", "cut"}
        PROVE  \A d \in Clients : ~Between(d)'
    BY <1>1, <1>3 DEF TypeOK, Between
  <1>4. \A d \in Clients : ~Between(d)'
    <2>1. ASSUME NEW c \in Clients, NEW p \in Profiles, NEW k \in Accounts, Open(c, p, k)
          PROVE  FALSE
      BY <1>1, <2>1 DEF Open
    <2>2. ASSUME NEW c \in Clients, NEW t \in Tokens, LogIn(c, t) \/ Import(c, t)
          PROVE  \A d \in Clients : ~Between(d)'
      <3>1. CASE LogIn(c, t)
        <4>. DEFINE kept == IF sdk[c] \in {"go", "node"} THEN t ELSE cl[c].token
                    r == [cl[c] EXCEPT !.pc = "load", !.task = "login", !.fresh = t,
                                       !.token = kept]
        <4>1. cl' = [cl EXCEPT ![c] = r]
          BY <3>1 DEF LogIn
        <4>. HIDE DEF kept
        <4>2. r.pc = "load"
          BY <1>1 DEF TypeOK, ClientType
        <4>. HIDE DEF r
        <4>3. QED
          BY <1>3, <4>1, <4>2
      <3>2. CASE Import(c, t)
        BY <1>1, <3>2 DEF Import, TypeOK, ClientType, Between
      <3>3. QED
        BY <2>2, <3>1, <3>2
    <2>3. ASSUME NEW c \in Clients, Resolve(c) PROVE \A d \in Clients : ~Between(d)'
      BY <1>1, <2>3 DEF Resolve, TypeOK, ClientType, Between
    <2>4. ASSUME NEW c \in Clients, NEW a \in Accounts, Switch(c, a)
          PROVE  \A d \in Clients : ~Between(d)'
      BY <1>1, <2>4 DEF Switch, TypeOK, ClientType, Between
    <2>5. ASSUME NEW c \in Clients, Load(c) PROVE \A d \in Clients : ~Between(d)'
      BY <1>1, <2>5 DEF Load, TypeOK, ClientType, Between
    <2>6. ASSUME NEW c \in Clients, Truncate(c) \/ Write(c) PROVE FALSE
      BY <1>1, <2>6 DEF Truncate, Write, Between
    <2>7. ASSUME NEW c \in Clients, Reload(c) PROVE \A d \in Clients : ~Between(d)'
      <3>1. cl' = [cl EXCEPT ![c].pc = "ready"]
        BY <1>1, <2>7 DEF Reload
      <3>2. QED
        BY <1>1, <3>1 DEF TypeOK, ClientType, Between
    <2>8. ASSUME NEW c \in Clients, Exit(c) PROVE \A d \in Clients : ~Between(d)'
      BY <1>1, <1>3, <2>8, OffFields DEF Exit
    <2>9. CASE Silent
      BY <1>1, <2>9 DEF Silent, vars, Between
    <2>10. QED
      BY <2>1, <2>2, <2>3, <2>4, <2>5, <2>6, <2>7, <2>8, <2>9 DEF Next
  <1>5. QED
    BY <1>1, <1>2, <1>4 DEF Damaged, Between

(* No step of Python or Node clients changes a file that cannot be parsed. *)
THEOREM DamageIsKept == Spec => DamageStays
  <1>1. IndInv /\ [Next]_vars => [Damaged => Damaged' /\ UNCHANGED file]_vars
    BY DamageStep
  <1>2. QED
    BY Inductive, <1>1, PTL DEF Spec, DamageStays

=============================================================================
