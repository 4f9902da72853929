---------------------------- MODULE SessionFile ----------------------------
(***************************************************************************)
(* The session file ~/.homecloud/session: console tokens and the active    *)
(* account of every profile, shared by all programs and SDKs of a user.    *)
(* Each update reads the whole file, changes the entry of one profile,     *)
(* truncates the file and writes it again.  Nothing is locked, so updates  *)
(* of different clients interleave, and a program may die in the middle.   *)
(*                                                                         *)
(* A client is one SDK object in one program; a program that restarts      *)
(* opens a new one.  An access key is named by the account it belongs to.  *)
(***************************************************************************)
EXTENDS Naturals

CONSTANTS
  Clients,
  Profiles,
  Accounts,
  Tokens,       \* the console tokens that can be issued
  MaxOpens,     \* how many clients are constructed in all
  MaxUpdates    \* how many operations that write the file are called

ASSUME BoundsAssumption == MaxOpens \in Nat /\ MaxUpdates \in Nat
ASSUME NoneAssumption == "none" \notin Profiles \cup Accounts \cup Tokens

VARIABLES
  sdk,          \* sdk[c]: the SDK client c belongs to
  cl,           \* cl[c]: what client c knows, and where it is in an update
  file,         \* the file: its state, and the entries one can read from it
  opens,
  updates,
  owner,        \* owner[t]: the profile token t was issued to, or "none"
  rough,        \* history: updates have overlapped, or one has died half-way
  latest,       \* history: latest[p]: the token of the last login saved for p
  chosen        \* history: chosen[p]: the account of the last switch saved

vars == <<sdk, cl, file, opens, updates, owner, rough, latest, chosen>>

Sdks == {"python", "aio", "node", "go", "java"}
Python(s) == s \in {"python", "aio"}

Entries == [token : Tokens \cup {"none"}, active : Accounts \cup {"none"},
            last : Accounts \cup {"none"}]

Blank == [token |-> "none", active |-> "none", last |-> "none"]
Nothing == [p \in Profiles |-> Blank]

(* A client that does not exist.                                           *)
Off == [pc |-> "off", profile |-> "none", key |-> "none", token |-> "none",
        account |-> "none", snap |-> Blank, task |-> "none", fresh |-> "none",
        target |-> "none", copy |-> Nothing]

(* Mutated form: the wrong field.                                          *)
PreferredToken(e) == e.token

(* The account a stored entry stands for.                                  *)
Preferred(e) == IF e.active # "none" THEN e.active ELSE e.last

-----------------------------------------------------------------------------
(***************************************************************************)
(* Reading.  The file is "whole"; or "empty", cut by a writer that has not *)
(* written yet or never will; or "tailed", a text followed by the end of a *)
(* longer one, when two writers wrote after both had cut.  The Java parser *)
(* ignores what follows a text.  Python and Node raise on a file they      *)
(* cannot parse, Go and Java go on as if there were none.                  *)
(***************************************************************************)
Readable(s) == file.state = "whole" \/ (file.state = "tailed" /\ s = "java")

(* Mutated form: every SDK goes on.                                        *)
ReadsAnything(s) == TRUE

Reads(s) == Readable(s) \/ s \in {"go", "java"}

Contents(s) == IF Readable(s) THEN file.entries ELSE Nothing

-----------------------------------------------------------------------------
(* What an update makes of the entry it read.                              *)

(* Mutated form: the entry is made anew.                                   *)
MergedBare(c) ==
  IF cl[c].task \in {"login", "import"}
  THEN [Blank EXCEPT !.token = cl[c].fresh]
  ELSE [Blank EXCEPT !.active = cl[c].target, !.last = cl[c].target]

(* A login of Node also stores the account it holds, or that it has none.  *)
Merged(c) ==
  LET old == cl[c].copy[cl[c].profile]
  IN  IF cl[c].task = "login" /\ sdk[c] = "node"
      THEN [old EXCEPT !.token = cl[c].fresh, !.active = cl[c].account]
      ELSE IF cl[c].task \in {"login", "import"}
      THEN [old EXCEPT !.token = cl[c].fresh]
      ELSE [old EXCEPT !.active = cl[c].target, !.last = cl[c].target]

(* Mutated form: whatever the profile, the default one is updated.         *)
UpdatedDefault(c) ==
  [cl[c].copy EXCEPT ![CHOOSE p \in Profiles : TRUE] = Merged(c)]

Updated(c) == [cl[c].copy EXCEPT ![cl[c].profile] = Merged(c)]

(* c is between reading and having written.                                *)
Between(c) == cl[c].pc \in {"loaded", "cut"}

-----------------------------------------------------------------------------
Init ==
  /\ sdk \in [Clients -> Sdks]
  /\ cl = [c \in Clients |-> Off]
  /\ file = [state |-> "whole", entries |-> Nothing]
  /\ opens = 0 /\ updates = 0
  /\ owner = [t \in Tokens |-> "none"]
  /\ rough = FALSE
  /\ latest = [p \in Profiles |-> "none"]
  /\ chosen = [p \in Profiles |-> "none"]

(* The constructor, with a profile and the key of some account.  Python    *)
(* keeps the entry for later, the others settle on an account now.         *)
Open(c, p, k) ==
  /\ cl[c].pc = "off"
  /\ opens < MaxOpens
  /\ Reads(sdk[c])
  /\ LET e == Contents(sdk[c])[p]
     IN  cl' = [cl EXCEPT ![c] =
           [Off EXCEPT !.pc = "ready", !.profile = p, !.key = k, !.token = e.token,
                       !.snap = IF Python(sdk[c]) THEN e ELSE Blank,
                       !.account = IF Python(sdk[c]) THEN "none" ELSE Preferred(e)]]
  /\ opens' = opens + 1
  /\ UNCHANGED <<sdk, file, updates, owner, rough, latest, chosen>>

(* A login was answered with token t.  Go and Node keep it before they     *)
(* save it; Python and Java (which returns a new client) after.            *)
LogIn(c, t) ==
  /\ cl[c].pc = "ready"
  /\ owner[t] = "none"
  /\ updates < MaxUpdates
  /\ cl' = [cl EXCEPT ![c] =
       [@ EXCEPT !.pc = "load", !.task = "login", !.fresh = t,
                 !.token = IF sdk[c] \in {"go", "node"} THEN t ELSE cl[c].token]]
  /\ owner' = [owner EXCEPT ![t] = cl[c].profile]
  /\ updates' = updates + 1
  /\ UNCHANGED <<sdk, file, opens, rough, latest, chosen>>

(* Import of credentials with a token in them.                             *)
Import(c, t) ==
  /\ Python(sdk[c])
  /\ cl[c].pc = "ready"
  /\ owner[t] = "none"
  /\ updates < MaxUpdates
  /\ cl' = [cl EXCEPT ![c] = [@ EXCEPT !.pc = "load", !.task = "import", !.fresh = t]]
  /\ owner' = [owner EXCEPT ![t] = cl[c].profile]
  /\ updates' = updates + 1
  /\ UNCHANGED <<sdk, file, opens, rough, latest, chosen>>

(* The account is needed for the first time: Python takes that of the      *)
(* entry it was constructed with; failing that, whoami names the account   *)
(* of the key.  It is then stored; Node only keeps it.                     *)
Resolve(c) ==
  /\ cl[c].pc = "ready"
  /\ cl[c].account = "none"
  /\ updates < MaxUpdates
  /\ LET stored == Preferred(cl[c].snap)
         a == IF Python(sdk[c]) /\ stored # "none" THEN stored ELSE cl[c].key
     IN  cl' = [cl EXCEPT ![c] =
           IF sdk[c] = "node" THEN [@ EXCEPT !.account = a]
           ELSE [@ EXCEPT !.pc = "load", !.task = "resolve", !.target = a,
                          !.account = IF Python(sdk[c]) THEN cl[c].account ELSE a]]
  /\ updates' = updates + 1
  /\ UNCHANGED <<sdk, file, opens, owner, rough, latest, chosen>>

(* accounts.switch; that of Node changes nothing on this side.             *)
Switch(c, a) ==
  /\ sdk[c] # "node"
  /\ cl[c].pc = "ready"
  /\ updates < MaxUpdates
  /\ cl' = [cl EXCEPT ![c] =
       [@ EXCEPT !.pc = "load", !.task = "switch", !.target = a,
                 !.account = IF Python(sdk[c]) THEN cl[c].account ELSE a]]
  /\ updates' = updates + 1
  /\ UNCHANGED <<sdk, file, opens, owner, rough, latest, chosen>>

(* Reading for an update; an import leaves a stored token alone.           *)
Load(c) ==
  /\ cl[c].pc = "load"
  /\ LET found == Contents(sdk[c])
         proceeds == Reads(sdk[c]) /\
           (cl[c].task = "import" => found[cl[c].profile].token = "none")
     IN  /\ cl' = [cl EXCEPT ![c] =
              IF proceeds THEN [@ EXCEPT !.pc = "loaded", !.copy = found]
              ELSE [@ EXCEPT !.pc = "ready", !.task = "none", !.fresh = "none",
                             !.target = "none"]]
         /\ rough' = (rough \/ (proceeds /\ \E d \in Clients : Between(d)))
  /\ UNCHANGED <<sdk, file, opens, updates, owner, latest, chosen>>

(* The file is opened for writing.                                         *)
Truncate(c) ==
  /\ cl[c].pc = "loaded"
  /\ cl' = [cl EXCEPT ![c].pc = "cut"]
  /\ file' = [state |-> "empty", entries |-> Nothing]
  /\ UNCHANGED <<sdk, opens, updates, owner, rough, latest, chosen>>

(* The text is written from the start of the file.  Where somebody else    *)
(* wrote since the cut, the end of a longer text stays behind.             *)
Write(c) ==
  /\ cl[c].pc = "cut"
  /\ \E s \in {"whole", "tailed"} :
       /\ s = "tailed" => file.state # "empty"
       /\ file' = [state |-> s, entries |-> Updated(c)]
  /\ cl' = [cl EXCEPT ![c] =
       [@ EXCEPT !.pc = IF cl[c].task = "login" /\ Python(sdk[c]) THEN "reload" ELSE "ready",
                 !.task = "none", !.fresh = "none", !.target = "none", !.copy = Nothing,
                 !.token = IF cl[c].task = "login" THEN cl[c].fresh ELSE cl[c].token,
                 !.account = IF cl[c].task \in {"resolve", "switch"}
                             THEN cl[c].target ELSE cl[c].account]]
  /\ latest' = IF cl[c].task \in {"login", "import"}
               THEN [latest EXCEPT ![cl[c].profile] = cl[c].fresh] ELSE latest
  /\ chosen' = IF cl[c].task = "switch"
               THEN [chosen EXCEPT ![cl[c].profile] = cl[c].target] ELSE chosen
  /\ UNCHANGED <<sdk, opens, updates, owner, rough>>

(* After a login Python reads its entry again and, when no account is      *)
(* active and the user has but one, stores that one.                       *)
Reload(c) ==
  /\ cl[c].pc = "reload"
  /\ LET e == Contents(sdk[c])[cl[c].profile]
     IN  IF ~Reads(sdk[c])
         THEN cl' = [cl EXCEPT ![c].pc = "ready"]
         ELSE \/ cl' = [cl EXCEPT ![c] = [@ EXCEPT !.pc = "ready", !.snap = e]]
              \/ /\ e.active = "none"
                 /\ \E a \in Accounts :
                      cl' = [cl EXCEPT ![c] =
                        [@ EXCEPT !.pc = "load", !.snap = e, !.task = "select", !.target = a]]
  /\ UNCHANGED <<sdk, file, opens, updates, owner, rough, latest, chosen>>

(* The program ends, or dies wherever it is.                               *)
Exit(c) ==
  /\ cl[c].pc # "off"
  /\ cl' = [cl EXCEPT ![c] = Off]
  /\ rough' = (rough \/ cl[c].pc = "cut")
  /\ UNCHANGED <<sdk, file, opens, updates, owner, latest, chosen>>

(* No program runs; none may start when the file cannot be read.           *)
Silent ==
  /\ \A c \in Clients : cl[c].pc = "off"
  /\ UNCHANGED vars

Next ==
  \/ \E c \in Clients :
        \/ \E p \in Profiles, k \in Accounts : Open(c, p, k)
        \/ \E t \in Tokens : LogIn(c, t) \/ Import(c, t)
        \/ Resolve(c)
        \/ \E a \in Accounts : Switch(c, a)
        \/ Load(c)
        \/ Truncate(c)
        \/ Write(c)
        \/ Reload(c)
        \/ Exit(c)
  \/ Silent

Spec == Init /\ [][Next]_vars

-----------------------------------------------------------------------------
Pcs == {"off", "ready", "load", "loaded", "cut", "reload"}
Tasks == {"none", "login", "import", "resolve", "switch", "select"}

ClientType ==
  [pc : Pcs, profile : Profiles \cup {"none"}, key : Accounts \cup {"none"},
   token : Tokens \cup {"none"}, account : Accounts \cup {"none"}, snap : Entries, task : Tasks,
   fresh : Tokens \cup {"none"}, target : Accounts \cup {"none"}, copy : [Profiles -> Entries]]

TypeOK ==
  /\ sdk \in [Clients -> Sdks]
  /\ cl \in [Clients -> ClientType]
  /\ file \in [state : {"whole", "empty", "tailed"}, entries : [Profiles -> Entries]]
  /\ opens \in 0..MaxOpens /\ updates \in 0..MaxUpdates
  /\ owner \in [Tokens -> Profiles \cup {"none"}]
  /\ rough \in BOOLEAN
  /\ latest \in [Profiles -> Tokens \cup {"none"}]
  /\ chosen \in [Profiles -> Accounts \cup {"none"}]

(* The token stored for a profile, and the one a client of the profile     *)
(* works with, was issued to a login of that profile, whatever clients     *)
(* overwrite one another (session.py set_access_token, go/client.go        *)
(* persistAccessToken, HomeCloud.java persistAccessToken, client.js        *)
(* _persistAccessToken).                                                   *)
TokensBelong ==
  /\ \A p \in Profiles :
       file.entries[p].token # "none" => owner[file.entries[p].token] = p
  /\ \A c \in Clients :
       cl[c].token # "none" => owner[cl[c].token] = cl[c].profile

(* As long as no two updates overlap and none dies half-way, the file is   *)
(* readable whenever nobody is writing and holds for every profile the     *)
(* token of its last login: no update by another SDK, for another profile  *)
(* or of an account loses it.                                              *)
LoginsSurvive ==
  ~rough /\ (\A c \in Clients : ~Between(c)) =>
    /\ file.state = "whole"
    /\ \A p \in Profiles : file.entries[p].token = latest[p]

(* Nobody is in the middle of an update, and what the file holds cannot be *)
(* parsed by the clients there are.                                        *)
Damaged ==
  /\ file.state # "whole"
  /\ \A c \in Clients : sdk[c] \in {"python", "aio", "node"} /\ ~Between(c)

(* A file that cannot be parsed is never overwritten by Python or Node: in *)
(* their hands it stays as it is, no update of theirs gets past reading it *)
(* (session.py load_session, credentials.js loadSession raise).            *)
DamageStays == [][Damaged => Damaged' /\ UNCHANGED file]_vars

(* README.md: account_id() is "Access Key whoami".  A client works for the *)
(* account of its key.                                                     *)
AccountOfKey ==
  \A c \in Clients :
    cl[c].pc = "ready" /\ cl[c].account # "none" /\ (\A p \in Profiles : chosen[p] = "none")
      => cl[c].account = cl[c].key

(* AccountsAPI.switch: "Switch default account".  With updates that do not *)
(* overlap, the account last switched to stays the stored one.             *)
SwitchSticks ==
  ~rough /\ (\A c \in Clients : ~Between(c)) =>
    \A p \in Profiles : chosen[p] # "none" => file.entries[p].active = chosen[p]

=============================================================================
