---------------------------- MODULE ConsoleLogin ----------------------------
(***************************************************************************)
(* Who a Python client is for the console: login with a password, login in *)
(* the browser, the MFA challenges a login or a later request may meet,    *)
(* and which account and which credential a request goes out with          *)
(* (context.py, async_context.py, mfa.py and console_request of the two    *)
(* transports).                                                            *)
(*                                                                         *)
(* A token is the number of the login that brought it, a one-time code its *)
(* number in the order the user made them; 0 is none.  A request stands    *)
(* for all its attempts (RequestRetry).  SessionFile has the session file  *)
(* with several clients; here it is this client's alone.                   *)
(***************************************************************************)
EXTENDS Integers

CONSTANTS
  MaxOps,       \* how many operations the program calls
  MaxCodes,     \* how many one-time codes the user makes
  Expiry,       \* expires_in of a browser login, in units of its interval
  MaxSleep      \* the longest sleep between two polls

ASSUME BoundsAssumption ==
  /\ MaxOps \in Nat /\ MaxCodes \in Nat \ {0}
  /\ Expiry \in Nat \ {0} /\ MaxSleep \in Nat \ {0}

VARIABLES
  sdk,          \* "sync": CoreContext, "async": AsyncCoreContext
  key,          \* the client has an access key
  asks,         \* interactive_mfa
  default,      \* profile.default_account_id
  resolver,     \* transport._mfa_resolver: is there one, and its _mfa_code
  token,        \* transport.access_token
  stored,       \* the profile's entry in the session file
  entry,        \* active_account_id of self._session
  account,      \* self._account_id
  op,           \* the operation under way
  site,         \* the browser login at the service
  ops, codes, issued,
  answered      \* history: <<operation, challenge, code>>: the codes sent to answer a
                \* challenge, or unasked, in the "body" of a login

fixed == <<sdk, key, asks, default>>
vars == <<fixed, resolver, token, stored, entry, account, op, site, ops, codes, issued, answered>>

(* "console": domains, mail, tasks, diagrams; "session": functions, usage, *)
(* billing, monitoring, which look for a credential first; "compute":      *)
(* containers; "invoke": function URLs.                                    *)
Facades == {"console", "session", "compute", "invoke"}
KeyAccount == 1
UserAccounts == {1, 2}

Running == op.at \notin {"done", "failed"}
At(place) == op.at = place

(* Mutated form: the time left may become negative.                        *)
ElapsedBelow(left, t) == left - t

(* Mutated form: the deadline is set anew in the loop.                     *)
ElapsedRenewed(left, t) == Expiry

(* What is left until the deadline after time t.                           *)
Elapsed(left, t) == IF t < left THEN left - t ELSE 0

-----------------------------------------------------------------------------
Init ==
  /\ sdk \in {"sync", "async"} /\ key \in BOOLEAN
  /\ asks \in IF sdk = "sync" THEN BOOLEAN ELSE {FALSE}
  /\ codes \in IF sdk = "sync" THEN {0, 1} ELSE {0}
  /\ resolver = [on |-> asks \/ codes = 1, code |-> codes]
  /\ token \in {0, 1} /\ issued = token
  /\ stored \in [token : {token}, account : {0} \cup UserAccounts]
  /\ entry = stored.account
  /\ default \in {0, 2} /\ account \in {0, default}
  /\ op = [kind |-> "none", at |-> "done", facade |-> "console", code |-> 0, left |-> 0,
           asked |-> "none"]
  /\ site = "none" /\ ops = 0 /\ answered = {}

Begin(kind, at, facade) ==
  /\ ~Running /\ ops < MaxOps
  /\ ops' = ops + 1
  /\ op' = [kind |-> kind, at |-> at, facade |-> facade, code |-> 0, left |-> 0, asked |-> "none"]

Stay == UNCHANGED <<fixed, ops>>

Fail == op' = [op EXCEPT !.at = "failed"]
Go(place) == op' = [op EXCEPT !.at = place]

(* login(account, username, password, mfa_code): the sync client makes a   *)
(* new resolver when it is given a code or may ask for one.  A code that   *)
(* is given goes in the body of the request as well.                       *)
BeginLogin(given) ==
  /\ Begin("login", "login", "console")
  /\ given => codes < MaxCodes
  /\ codes' = IF given THEN codes + 1 ELSE codes
  /\ resolver' = IF sdk = "sync" /\ (given \/ asks)
                 THEN [on |-> TRUE, code |-> IF given THEN codes + 1 ELSE 0]
                 ELSE resolver
  /\ answered' = IF given THEN answered \cup {<<ops', "body", codes'>>} ELSE answered
  /\ UNCHANGED <<fixed, token, stored, entry, account, site, issued>>

(* login_browser, from the start or with the mfa_token of a challenge.     *)
BeginBrowser ==
  /\ Begin("browser", "start", "console")
  /\ UNCHANGED <<fixed, resolver, token, stored, entry, account, site, codes, issued, answered>>

BeginCall(facade, allowed) ==
  /\ Begin("call", IF allowed THEN "account" ELSE "failed", facade)
  /\ UNCHANGED <<fixed, resolver, token, stored, entry, account, site, codes, issued, answered>>

(* A method of client.domains, mail, tasks or diagrams.                    *)
CallConsole == BeginCall("console", TRUE)

(* One of client.functions, usage, billing or monitoring: with a session   *)
(* or a key, and functions.invoke only with a key.                         *)
CallSession ==
  \/ BeginCall("session", key \/ token # 0)
  \/ BeginCall("invoke", key)

(* A method of client.containers.                                          *)
CallCompute == BeginCall("compute", TRUE)

(* switch_account is called.                                               *)
BeginSwitch ==
  /\ Begin("switch", "switch", "console")
  /\ UNCHANGED <<fixed, resolver, token, stored, entry, account, site, codes, issued, answered>>

-----------------------------------------------------------------------------
(* _apply_access_token: to the file, to the transport, and back from the   *)
(* file into the context.                                                  *)
ApplyToken ==
  /\ issued' = issued + 1
  /\ token' = issued + 1
  /\ stored' = [stored EXCEPT !.token = issued + 1]
  /\ entry' = stored.account
  /\ Go("select")

Same == UNCHANGED <<token, stored, entry, issued>>

(* MFA_REQUIRED: the transport's resolver takes over, if it has one.       *)
Challenge(place) ==
  /\ op' = IF resolver.on THEN [op EXCEPT !.at = "challenge", !.asked = place]
           ELSE [op EXCEPT !.at = "failed"]
  /\ Same

(* POST auth/login: a token, a challenge, a refusal or no answer.          *)
LoginAnswered ==
  /\ At("login")
  /\ ApplyToken \/ Challenge("login") \/ (Fail /\ Same)
  /\ Stay /\ UNCHANGED <<resolver, account, site, codes, answered>>

(* Mutated form: the code stays for the next challenge.                    *)
SpentNever(r) == r

Spent(r) == [r EXCEPT !.code = 0]

(* obtain_code takes the code it was given, once; else it asks, and the    *)
(* user types a code, or nothing, or chooses the browser.                  *)
ObtainCode ==
  /\ At("challenge")
  /\ \/ /\ resolver.code # 0
        /\ op' = [op EXCEPT !.at = "answer", !.code = resolver.code]
        /\ answered' = answered \cup {<<ops, op.asked, resolver.code>>}
        /\ resolver' = Spent(resolver)
        /\ UNCHANGED codes
     \/ /\ resolver.code = 0 /\ asks /\ codes < MaxCodes
        /\ codes' = codes + 1
        /\ op' = [op EXCEPT !.at = "answer", !.code = codes + 1]
        /\ answered' = answered \cup {<<ops, op.asked, codes + 1>>}
        /\ UNCHANGED resolver
     \/ resolver.code = 0 /\ Fail /\ UNCHANGED <<resolver, codes, answered>>
  /\ Stay /\ Same /\ UNCHANGED <<account, site>>

(* _auto_select_account stores the only account there is; self._session    *)
(* keeps what it read before.                                              *)
Selected ==
  /\ stored' \in {stored} \cup {[stored EXCEPT !.account = a] : a \in UserAccounts}
  /\ Go("done")
  /\ UNCHANGED <<token, entry, issued>>

(* switch_account stores the account it found, and keeps it.               *)
Switched ==
  /\ \E a \in UserAccounts : account' = a /\ stored' = [stored EXCEPT !.account = a]
  /\ Go("done")
  /\ UNCHANGED <<token, entry, issued>>

(* The browser login is under way, with its deadline.                      *)
Started ==
  /\ op' = [op EXCEPT !.at = "poll", !.left = Expiry] /\ site' = "pending"
  /\ Same

(* resolve sends the code: a login challenge with its mfa_token to         *)
(* auth/login, a step-up with the original request; no second challenge.   *)
(* (A challenge to a login or to the start of a browser login that has no  *)
(* mfa_token is repeated as if it needed a credential: it may fail even    *)
(* before it is sent.  One to the start that has an mfa_token brings an    *)
(* answer without a session, and fails.)                                   *)
AnswerSent ==
  /\ At("answer")
  /\ \/ op.asked = "login" /\ ApplyToken /\ UNCHANGED <<account, site>>
     \/ op.asked = "select" /\ Selected /\ UNCHANGED <<account, site>>
     \/ op.asked = "switch" /\ Switched /\ UNCHANGED site
     \/ op.asked = "start" /\ (key \/ token # 0) /\ Started /\ UNCHANGED account
     \/ op.asked = "call" /\ Go("done") /\ Same /\ UNCHANGED <<account, site>>
     \/ Fail /\ Same /\ UNCHANGED <<account, site>>
  /\ Stay /\ UNCHANGED <<resolver, codes, answered>>

(* After a login: list_accounts, unless the account is known.  A client    *)
(* with a key signs the request and meets no challenge.                    *)
SelectAccount ==
  /\ At("select")
  /\ IF entry # 0 \/ default # 0 THEN Go("done") /\ Same
     ELSE Selected \/ (~key /\ Challenge("select")) \/ (Fail /\ Same)
  /\ Stay /\ UNCHANGED <<resolver, account, site, codes, answered>>

-----------------------------------------------------------------------------
(* POST auth/cli/session: a session to poll, a challenge, or a failure.    *)
StartBrowser ==
  /\ At("start")
  /\ \/ Started
     \/ Challenge("start") /\ UNCHANGED site
     \/ Fail /\ Same /\ UNCHANGED site
  /\ Stay /\ UNCHANGED <<resolver, account, codes, answered>>

(* One poll, which may take its time; a failed one ends the login.         *)
Poll ==
  /\ At("poll") /\ op.left > 0
  /\ \/ /\ site = "pending"
        /\ \E t \in 0..MaxSleep :
             op' = [op EXCEPT !.at = "sleep", !.left = Elapsed(op.left, t)]
        /\ Same
     \/ site = "approved" /\ ApplyToken
     \/ Fail /\ Same
  /\ Stay /\ UNCHANGED <<resolver, account, site, codes, answered>>

(* time.sleep(interval), at least 1; then the deadline is looked at.       *)
Sleep ==
  /\ At("sleep")
  /\ \E t \in 1..MaxSleep :
       op' = [op EXCEPT !.at = "poll", !.left = Elapsed(op.left, t)]
  /\ Stay /\ Same /\ UNCHANGED <<resolver, account, site, codes, answered>>

TimeOut ==
  /\ At("poll") /\ op.left = 0
  /\ Fail
  /\ Stay /\ Same /\ UNCHANGED <<resolver, account, site, codes, answered>>

(* The user confirms in the browser, or the service gives up.              *)
Browser ==
  /\ site = "pending"
  /\ site' \in {"approved", "expired"}
  /\ Stay /\ Same /\ UNCHANGED <<resolver, account, op, codes, answered>>

-----------------------------------------------------------------------------
Known == IF account # 0 THEN account ELSE IF entry # 0 THEN entry ELSE default

(* account_id(): what this client has resolved before, what it read from   *)
(* the session file, the profile's, or the key's own; and it is stored.    *)
ResolveAccount ==
  /\ At("account")
  /\ \/ /\ Known # 0 \/ key
        /\ account' = IF Known # 0 THEN Known ELSE KeyAccount
        /\ stored' = IF account = 0 THEN [stored EXCEPT !.account = account'] ELSE stored
        /\ Go("call")
     \/ Known = 0 /\ Fail /\ UNCHANGED <<account, stored>>
  /\ Stay /\ UNCHANGED <<resolver, token, entry, site, codes, issued, answered>>

(* Which requests carry the token: with a key only those to compute, and   *)
(* function URLs are never asked with one.                                 *)
Bearer(facade) == facade = "compute" \/ ~key

(* The request: without a credential it is not made; a challenge is        *)
(* answered only for the console's own requests with a token.              *)
CallAnswered ==
  /\ At("call")
  /\ \/ ~(Bearer(op.facade) /\ token = 0) /\ Go("done") /\ Same
     \/ Bearer(op.facade) /\ token # 0 /\ op.facade # "compute" /\ Challenge("call")
     \/ Fail /\ Same
  /\ Stay /\ UNCHANGED <<resolver, account, site, codes, answered>>

(* switch_account: list_accounts, then the chosen one is stored and kept.  *)
SwitchAccount ==
  /\ At("switch")
  /\ \/ (key \/ token # 0) /\ Switched
     \/ ~key /\ token # 0 /\ Challenge("switch") /\ UNCHANGED account
     \/ Fail /\ Same /\ UNCHANGED account
  /\ Stay /\ UNCHANGED <<resolver, site, codes, answered>>

(* A task is cancelled, or the user interrupts, at a request or a sleep.   *)
Cancel ==
  /\ Running
  /\ Fail
  /\ Stay /\ Same /\ UNCHANGED <<resolver, account, site, codes, answered>>

Step ==
  \/ LoginAnswered \/ ObtainCode \/ AnswerSent \/ SelectAccount
  \/ StartBrowser \/ Poll \/ Sleep \/ TimeOut
  \/ ResolveAccount \/ CallAnswered \/ SwitchAccount

Finished == ~Running /\ ops = MaxOps /\ UNCHANGED vars

Next ==
  \/ \E given \in BOOLEAN : BeginLogin(given)
  \/ BeginBrowser \/ BeginSwitch
  \/ CallConsole \/ CallSession \/ CallCompute
  \/ Step
  \/ Browser \/ Cancel \/ Finished

(* Every request comes to an end, as RequestRetry!EveryCallReturns has it  *)
(* of Python's calls that are not downloads, and so does every sleep.  The *)
(* user need not confirm anything.                                         *)
Spec == Init /\ [][Next]_vars /\ WF_vars(Step)

-----------------------------------------------------------------------------
TypeOK ==
  /\ resolver \in [on : BOOLEAN, code : 0..MaxCodes]
  /\ token \in 0..issued /\ stored.token \in 0..issued
  /\ stored.account \in {0} \cup UserAccounts /\ account \in {0} \cup UserAccounts
  /\ op.left \in 0..Expiry
  /\ op.facade \in Facades
  /\ op.at = "answer" => op.code \in 1..codes

(* A one-time code answers one challenge, whatever logins, step-ups and    *)
(* failures come after it, and whoever gave it: the constructor, login()   *)
(* or the prompt (mfa.py, MfaResolver.obtain_code: "one-shot").  Only a    *)
(* code given to login() is sent once more: in the body of that one login, *)
(* accepted there or not, before the resolver has it for a challenge.      *)
CodeOnce ==
  \A x, y \in answered :
    x[3] = y[3] /\ (x[2] = "body" <=> y[2] = "body") => x = y

(* A login nobody is asked about comes to an end, also when nobody ever    *)
(* confirms in the browser and the service keeps answering "pending"       *)
(* (context.py and async_context.py, login_browser).                       *)
LoginEnds == (Running /\ ~asks) ~> ~Running

=============================================================================
