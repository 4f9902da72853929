-------------------------- MODULE ConsoleLoginProofs --------------------------
(***************************************************************************)
(* Proofs about ConsoleLogin, for every number of operations, codes, polls *)
(* and every expiry.                                                       *)
(***************************************************************************)
EXTENDS ConsoleLogin, TLAPS

Kinds == {"none", "login", "browser", "call", "switch"}

Places ==
  {"login", "challenge", "answer", "select", "start", "poll", "sleep", "account", "call",
   "switch", "done", "failed"}

Operation ==
  [kind : Kinds, at : Places, facade : Facades, code : Nat, left : 0..Expiry,
   asked : {"none", "login", "select", "switch", "start", "call"}]

MaybeAccount == {0} \cup UserAccounts

Entries == [token : Nat, account : MaybeAccount]

FixedInv ==
  /\ sdk \in {"sync", "async"} /\ key \in BOOLEAN /\ asks \in BOOLEAN
  /\ default \in MaybeAccount

(* The tokens a client has are tokens that were issued.                    *)
IdentityInv ==
  /\ issued \in Nat /\ token \in 0..issued
  /\ stored \in Entries /\ stored.token <= issued
  /\ entry \in MaybeAccount /\ account \in MaybeAccount

OpInv == op \in Operation /\ (op.at = "answer" => op.code \in 1..codes)

(* Whatever code the resolver still has, no challenge was answered with    *)
(* it: every code it gets is new, and it forgets the code when it hands it *)
(* out.  A code in the body of a login is new as well.                     *)
CodeInv ==
  /\ codes \in 0..MaxCodes
  /\ resolver \in [on : BOOLEAN, code : Nat] /\ resolver.code <= codes
  /\ \A x \in answered : x[3] \in 1..codes /\ (x[2] # "body" => x[3] # resolver.code)
  /\ CodeOnce

IndInv == FixedInv /\ IdentityInv /\ OpInv /\ CodeInv

-----------------------------------------------------------------------------
LEMMA Bounds ==
  /\ MaxCodes \in Nat /\ MaxCodes >= 1 /\ Expiry \in Nat /\ Expiry >= 1
  /\ 0 \in 0..Expiry /\ Expiry \in 0..Expiry
  BY BoundsAssumption

LEMMA InitInd == Init => IndInv
  <1> SUFFICES ASSUME Init PROVE IndInv
    OBVIOUS
  <1>1. FixedInv
    BY DEF Init, FixedInv, MaybeAccount, UserAccounts
  <1>2. IdentityInv
    <2>1. token \in {0, 1} /\ issued = token
      BY DEF Init
    <2>2. stored \in [token : {token}, account : MaybeAccount]
      BY DEF Init, MaybeAccount
    <2>3. stored.token = token /\ stored \in Entries
      BY <2>1, <2>2 DEF Entries
    <2>4. entry \in MaybeAccount
      BY <2>2 DEF Init
    <2>5. account \in MaybeAccount
      BY DEF Init, MaybeAccount, UserAccounts
    <2>6. QED
      BY <2>1, <2>3, <2>4, <2>5 DEF IdentityInv
  <1>3. OpInv
    BY Bounds DEF Init, OpInv, Operation, Kinds, Places, Facades
  <1>4. CodeInv
    BY Bounds DEF Init, CodeInv, CodeOnce
  <1>5. QED
    BY <1>1, <1>2, <1>3, <1>4 DEF IndInv

(* What a step that moves to a place makes of the operation.               *)
LEMMA GoType ==
  ASSUME NEW place \in Places \ {"answer"}, op \in Operation, Go(place)
  PROVE  op' \in Operation /\ op'.at # "answer"
  BY DEF Go, Operation, Places

LEMMA FailType ==
  ASSUME op \in Operation, Fail
  PROVE  op' \in Operation /\ op'.at # "answer"
  BY DEF Fail, Operation, Places

LEMMA BeginType ==
  ASSUME NEW kind \in Kinds, NEW at \in Places \ {"answer"}, NEW facade \in Facades,
         Begin(kind, at, facade)
  PROVE  op' \in Operation /\ op'.at # "answer"
  BY Bounds DEF Begin, Operation

LEMMA ChallengeType ==
  ASSUME NEW place \in {"login", "select", "switch", "start", "call"}, op \in Operation,
         Challenge(place)
  PROVE  op' \in Operation /\ op'.at # "answer"
  BY DEF Challenge, Operation, Places

LEMMA StartedType ==
  ASSUME op \in Operation, Started
  PROVE  op' \in Operation /\ op'.at # "answer"
  BY Bounds DEF Started, Operation, Places

(* A token that is applied is a new one.                                   *)
LEMMA ApplyKeeps ==
  ASSUME IdentityInv, op \in Operation, ApplyToken, UNCHANGED account
  PROVE  IdentityInv' /\ op' \in Operation /\ op'.at # "answer"
  <1>1. op' \in Operation /\ op'.at # "answer"
    BY GoType DEF ApplyToken, Places
  <1>2. issued' = issued + 1 /\ token' = issued + 1 /\ issued' \in Nat
    BY DEF ApplyToken, IdentityInv
  <1>3. stored' = [stored EXCEPT !.token = issued + 1] /\ entry' = stored.account
    BY DEF ApplyToken
  <1>4. stored' \in Entries /\ stored'.token = issued + 1 /\ entry' \in MaybeAccount
    BY <1>2, <1>3 DEF IdentityInv, Entries
  <1>5. QED
    BY <1>1, <1>2, <1>4 DEF IdentityInv

LEMMA SelectedKeeps ==
  ASSUME IdentityInv, op \in Operation, Selected, UNCHANGED account
  PROVE  IdentityInv' /\ op' \in Operation /\ op'.at # "answer"
  <1>1. op' \in Operation /\ op'.at # "answer"
    BY GoType DEF Selected, Places
  <1>2. stored' \in Entries /\ stored'.token = stored.token
    BY DEF Selected, IdentityInv, Entries, MaybeAccount
  <1>3. QED
    BY <1>1, <1>2 DEF Selected, IdentityInv

LEMMA SwitchedKeeps ==
  ASSUME IdentityInv, op \in Operation, Switched
  PROVE  IdentityInv' /\ op' \in Operation /\ op'.at # "answer"
  <1>1. op' \in Operation /\ op'.at # "answer"
    BY GoType DEF Switched, Places
  <1>2. PICK a \in UserAccounts : account' = a /\ stored' = [stored EXCEPT !.account = a]
    BY DEF Switched
  <1>3. stored' \in Entries /\ stored'.token = stored.token /\ account' \in MaybeAccount
    BY <1>2 DEF IdentityInv, Entries, MaybeAccount
  <1>4. QED
    BY <1>1, <1>3 DEF Switched, IdentityInv

LEMMA SameKeeps ==
  ASSUME IdentityInv, Same, UNCHANGED account
  PROVE  IdentityInv'
  BY DEF IdentityInv, Same

(* A step that leaves the codes alone.                                     *)
LEMMA CodesAlone ==
  ASSUME IndInv, IdentityInv', op' \in Operation, op'.at # "answer",
         UNCHANGED <<fixed, resolver, codes, answered>>
  PROVE  IndInv'
  <1>1. FixedInv'
    BY DEF IndInv, FixedInv, fixed
  <1>2. CodeInv'
    BY DEF IndInv, CodeInv, CodeOnce
  <1>3. QED
    BY <1>1, <1>2 DEF IndInv, OpInv

(* Time does not take what is left below zero.                             *)
LEMMA ElapsedType ==
  ASSUME NEW left \in 0..Expiry, NEW t \in 0..MaxSleep
  PROVE  Elapsed(left, t) \in 0..Expiry
  BY BoundsAssumption DEF Elapsed

-----------------------------------------------------------------------------
(* The two actions that deal in codes.                                     *)
LEMMA BeginLoginKeeps ==
  ASSUME IndInv, NEW given \in BOOLEAN, BeginLogin(given)
  PROVE  IndInv'
  <1>1. op' \in Operation /\ op'.at # "answer"
    BY BeginType DEF BeginLogin, Kinds, Places, Facades
  <1>2. FixedInv' /\ IdentityInv'
    BY DEF BeginLogin, IndInv, FixedInv, IdentityInv, fixed
  <1>3. codes' = (IF given THEN codes + 1 ELSE codes) /\ codes' \in 0..MaxCodes
    BY Bounds DEF BeginLogin, IndInv, CodeInv
  <1>4. answered' = IF given THEN answered \cup {<<ops', "body", codes'>>} ELSE answered
    BY DEF BeginLogin
  <1>5. \A x \in answered : x[3] \in 1..codes
    BY DEF IndInv, CodeInv
  <1>6. given => codes' = codes + 1 /\ codes' \in 1..codes' /\ codes' \in Nat
    BY <1>3, Bounds DEF IndInv, CodeInv
  <1>7. \A x \in answered' : x[3] \in 1..codes'
    BY <1>3, <1>4, <1>5, <1>6, Bounds DEF IndInv, CodeInv
  <1>8. CodeOnce'
    <2>1. CASE given
      <3>1. \A x \in answered : x[3] # codes'
        BY <1>5, <1>6, <2>1, Bounds DEF IndInv, CodeInv
      <3>2. QED
        BY <1>4, <2>1, <3>1 DEF IndInv, CodeInv, CodeOnce
    <2>2. CASE ~given
      BY <1>4, <2>2 DEF IndInv, CodeInv, CodeOnce
    <2>3. QED
      BY <2>1, <2>2
  <1>9. \A x \in answered' : x[2] # "body" => x \in answered
    BY <1>4
  <1>10. /\ resolver' \in [on : BOOLEAN, code : Nat] /\ resolver'.code <= codes'
         /\ \A x \in answered' : x[2] # "body" => x[3] # resolver'.code
    <2>1. CASE sdk = "sync" /\ given
      <3>1. resolver' = [on |-> TRUE, code |-> codes + 1] /\ codes' = codes + 1
        BY <2>1 DEF BeginLogin
      <3>2. \A x \in answered : x[3] # codes + 1
        BY <1>5, Bounds DEF IndInv, CodeInv
      <3>3. codes + 1 \in Nat
        BY Bounds DEF IndInv, CodeInv
      <3>4. QED
        BY <1>9, <3>1, <3>2, <3>3
    <2>2. CASE sdk = "sync" /\ ~given /\ asks
      <3>1. resolver' = [on |-> TRUE, code |-> 0]
        BY <2>2 DEF BeginLogin
      <3>2. QED
        BY <1>3, <1>5, <1>9, <3>1, Bounds
    <2>3. CASE ~(sdk = "sync" /\ (given \/ asks))
      <3>1. resolver' = resolver
        BY <2>3 DEF BeginLogin
      <3>2. QED
        BY <1>3, <1>9, <3>1, Bounds DEF IndInv, CodeInv
    <2>4. QED
      BY <2>1, <2>2, <2>3
  <1>11. QED
    BY <1>1, <1>2, <1>3, <1>7, <1>8, <1>10 DEF IndInv, OpInv, CodeInv

LEMMA ObtainCodeKeeps ==
  ASSUME IndInv, ObtainCode
  PROVE  IndInv'
  <1>1. FixedInv' /\ IdentityInv'
    BY SameKeeps DEF ObtainCode, IndInv, FixedInv, fixed, Stay
  <1>2. CASE resolver.code # 0 /\ op' = [op EXCEPT !.at = "answer", !.code = resolver.code]
             /\ answered' = answered \cup {<<ops, op.asked, resolver.code>>}
             /\ resolver' = Spent(resolver) /\ UNCHANGED codes
    <2>1. resolver.code \in 1..codes /\ resolver.code \in Nat
      BY <1>2 DEF IndInv, CodeInv
    <2>2. op' \in Operation /\ op'.code \in 1..codes'
      BY <1>2, <2>1 DEF IndInv, OpInv, Operation, Places
    <2>3. resolver' \in [on : BOOLEAN, code : Nat] /\ resolver'.code = 0
      BY <1>2 DEF Spent, IndInv, CodeInv
    <2>4. \A x \in answered' : x[3] \in 1..codes'
      BY <1>2, <2>1 DEF IndInv, CodeInv
    <2>5. op.asked # "body"
      BY DEF IndInv, OpInv, Operation
    <2>6. CodeInv'
      <3>1. CodeOnce'
        BY <1>2, <2>5 DEF IndInv, CodeInv, CodeOnce
      <3>2. \A x \in answered' : x[3] # resolver'.code
        BY <2>1, <2>3, <2>4
      <3>3. QED
        BY <1>2, <2>3, <2>4, <3>1, <3>2 DEF IndInv, CodeInv
    <2>7. QED
      BY <1>1, <2>2, <2>6 DEF IndInv, OpInv
  <1>3. CASE resolver.code = 0 /\ codes < MaxCodes /\ codes' = codes + 1
             /\ op' = [op EXCEPT !.at = "answer", !.code = codes + 1]
             /\ answered' = answered \cup {<<ops, op.asked, codes + 1>>}
             /\ UNCHANGED resolver
    <2>1. codes' \in 0..MaxCodes /\ codes + 1 \in 1..codes' /\ codes + 1 \in Nat
      BY <1>3, Bounds DEF IndInv, CodeInv
    <2>2. op' \in Operation /\ op'.code \in 1..codes'
      BY <1>3, <2>1 DEF IndInv, OpInv, Operation, Places
    <2>3. \A x \in answered : x[3] \in 1..codes' /\ x[3] # codes + 1
      BY <1>3, Bounds DEF IndInv, CodeInv
    <2>4. \A x \in answered' : x[3] \in 1..codes' /\ (x[2] # "body" => x[3] # resolver'.code)
      BY <1>3, <2>1, <2>3 DEF IndInv, CodeInv
    <2>5. CodeOnce'
      BY <1>3, <2>3 DEF IndInv, CodeInv, CodeOnce
    <2>6. resolver' \in [on : BOOLEAN, code : Nat] /\ resolver'.code <= codes'
      BY <1>3, <2>1 DEF IndInv, CodeInv
    <2>7. CodeInv'
      BY <2>1, <2>4, <2>5, <2>6 DEF CodeInv
    <2>8. QED
      BY <1>1, <2>2, <2>7 DEF IndInv, OpInv
  <1>4. CASE Fail /\ UNCHANGED <<resolver, codes, answered>>
    <2>1. op' \in Operation /\ op'.at # "answer"
      BY <1>4, FailType DEF IndInv, OpInv
    <2>2. QED
      BY <1>1, <1>4, <2>1, CodesAlone DEF ObtainCode, Stay
  <1>5. QED
    BY <1>2, <1>3, <1>4 DEF ObtainCode

-----------------------------------------------------------------------------
(* The other actions, which leave resolver, codes and answered alone.      *)
LEMMA BeginningsKeep ==
  ASSUME IndInv, BeginBrowser \/ BeginSwitch \/ CallConsole \/ CallSession \/ CallCompute
  PROVE  IndInv'
  <1>1. op' \in Operation /\ op'.at # "answer"
    BY BeginType DEF BeginBrowser, BeginSwitch, CallConsole, CallSession, CallCompute,
                     BeginCall, Kinds, Places, Facades
  <1>2. UNCHANGED <<fixed, resolver, codes, answered>> /\ IdentityInv'
    BY DEF BeginBrowser, BeginSwitch, CallConsole, CallSession, CallCompute, BeginCall,
           IndInv, IdentityInv
  <1>3. QED
    BY <1>1, <1>2, CodesAlone

LEMMA LoginsKeep ==
  ASSUME IndInv, LoginAnswered \/ SelectAccount \/ AnswerSent
  PROVE  IndInv'
  <1>1. IdentityInv /\ op \in Operation
    BY DEF IndInv, OpInv
  <1>2. UNCHANGED <<fixed, resolver, codes, answered>>
    BY DEF LoginAnswered, SelectAccount, AnswerSent, Stay
  <1>3. CASE LoginAnswered
    <2>1. UNCHANGED account
      BY <1>3 DEF LoginAnswered
    <2>2. CASE ApplyToken
      BY <1>1, <1>2, <2>1, <2>2, ApplyKeeps, CodesAlone
    <2>3. CASE Challenge("login")
      BY <1>1, <1>2, <2>1, <2>3, ChallengeType, SameKeeps, CodesAlone DEF Challenge
    <2>4. CASE Fail /\ Same
      BY <1>1, <1>2, <2>1, <2>4, FailType, SameKeeps, CodesAlone
    <2>5. QED
      BY <1>3, <2>2, <2>3, <2>4 DEF LoginAnswered
  <1>4. CASE SelectAccount
    <2>1. UNCHANGED account
      BY <1>4 DEF SelectAccount
    <2>2. CASE Go("done") /\ Same
      BY <1>1, <1>2, <2>1, <2>2, GoType, SameKeeps, CodesAlone DEF Places
    <2>3. CASE Selected
      BY <1>1, <1>2, <2>1, <2>3, SelectedKeeps, CodesAlone
    <2>4. CASE Challenge("select")
      BY <1>1, <1>2, <2>1, <2>4, ChallengeType, SameKeeps, CodesAlone DEF Challenge
    <2>5. CASE Fail /\ Same
      BY <1>1, <1>2, <2>1, <2>5, FailType, SameKeeps, CodesAlone
    <2>6. QED
      BY <1>4, <2>2, <2>3, <2>4, <2>5 DEF SelectAccount
  <1>5. CASE AnswerSent
    <2>1. CASE ApplyToken /\ UNCHANGED account
      BY <1>1, <1>2, <2>1, ApplyKeeps, CodesAlone
    <2>2. CASE Selected /\ UNCHANGED account
      BY <1>1, <1>2, <2>2, SelectedKeeps, CodesAlone
    <2>3. CASE Switched
      BY <1>1, <1>2, <2>3, SwitchedKeeps, CodesAlone
    <2>4. CASE Started /\ UNCHANGED account
      BY <1>1, <1>2, <2>4, StartedType, SameKeeps, CodesAlone DEF Started
    <2>5. CASE Go("done") /\ Same /\ UNCHANGED account
      BY <1>1, <1>2, <2>5, GoType, SameKeeps, CodesAlone DEF Places
    <2>6. CASE Fail /\ Same /\ UNCHANGED account
      BY <1>1, <1>2, <2>6, FailType, SameKeeps, CodesAlone
    <2>7. QED
      BY <1>5, <2>1, <2>2, <2>3, <2>4, <2>5, <2>6 DEF AnswerSent
  <1>6. QED
    BY <1>3, <1>4, <1>5

LEMMA PollingKeeps ==
  ASSUME IndInv, StartBrowser \/ Poll \/ Sleep \/ TimeOut
  PROVE  IndInv'
  <1>1. IdentityInv /\ op \in Operation /\ op.left \in 0..Expiry
    BY DEF IndInv, OpInv, Operation
  <1>2. UNCHANGED <<fixed, resolver, codes, answered, account>>
    BY DEF StartBrowser, Poll, Sleep, TimeOut, Stay
  <1>3. ASSUME NEW place \in {"poll", "sleep"}, NEW left \in 0..Expiry,
               op' = [op EXCEPT !.at = place, !.left = left], Same
        PROVE  IndInv'
    <2>1. op' \in Operation /\ op'.at # "answer"
      BY <1>1, <1>3 DEF Operation, Places
    <2>2. QED
      BY <1>1, <1>2, <1>3, <2>1, SameKeeps, CodesAlone
  <1>4. ASSUME Fail, Same PROVE IndInv'
    BY <1>1, <1>2, <1>4, FailType, SameKeeps, CodesAlone
  <1>5. CASE StartBrowser
    <2>1. CASE Started
      BY <1>1, <1>2, <2>1, StartedType, SameKeeps, CodesAlone DEF Started
    <2>2. CASE Challenge("start")
      BY <1>1, <1>2, <2>2, ChallengeType, SameKeeps, CodesAlone DEF Challenge
    <2>3. QED
      BY <1>4, <1>5, <2>1, <2>2 DEF StartBrowser
  <1>6. CASE Poll
    <2>1. ASSUME NEW t \in 0..MaxSleep,
                 op' = [op EXCEPT !.at = "sleep", !.left = Elapsed(op.left, t)], Same
          PROVE  IndInv'
      BY <1>1, <1>3, <2>1, ElapsedType
    <2>2. CASE ApplyToken
      BY <1>1, <1>2, <2>2, ApplyKeeps, CodesAlone
    <2>3. QED
      BY <1>4, <1>6, <2>1, <2>2 DEF Poll
  <1>7. CASE Sleep
    <2>1. PICK t \in 1..MaxSleep : op' = [op EXCEPT !.at = "poll", !.left = Elapsed(op.left, t)]
      BY <1>7 DEF Sleep
    <2>2. t \in 0..MaxSleep
      BY BoundsAssumption
    <2>3. Same
      BY <1>7 DEF Sleep
    <2>4. QED
      BY <1>1, <1>3, <2>1, <2>2, <2>3, ElapsedType
  <1>8. CASE TimeOut
    BY <1>4, <1>8 DEF TimeOut
  <1>9. QED
    BY <1>5, <1>6, <1>7, <1>8

LEMMA CallsKeep ==
  ASSUME IndInv, ResolveAccount \/ CallAnswered \/ SwitchAccount
  PROVE  IndInv'
  <1>1. IdentityInv /\ op \in Operation /\ default \in MaybeAccount
    BY DEF IndInv, OpInv, FixedInv
  <1>2. UNCHANGED <<fixed, resolver, codes, answered>>
    BY DEF ResolveAccount, CallAnswered, SwitchAccount, Stay
  <1>3. CASE ResolveAccount
    <2>1. UNCHANGED <<token, entry, issued>>
      BY <1>3 DEF ResolveAccount
    <2>2. CASE Known = 0 /\ Fail /\ UNCHANGED <<account, stored>>
      BY <1>1, <1>2, <2>1, <2>2, FailType, SameKeeps, CodesAlone DEF Same
    <2>3. CASE /\ account' = IF Known # 0 THEN Known ELSE KeyAccount
               /\ stored' = IF account = 0 THEN [stored EXCEPT !.account = account'] ELSE stored
               /\ Go("call")
      <3>1. account' \in MaybeAccount
        BY <1>1, <2>3 DEF Known, KeyAccount, IdentityInv, MaybeAccount, UserAccounts
      <3>2. stored' \in Entries /\ stored'.token = stored.token
        BY <1>1, <2>3, <3>1 DEF IdentityInv, Entries
      <3>3. IdentityInv'
        BY <1>1, <2>1, <3>1, <3>2 DEF IdentityInv
      <3>4. op' \in Operation /\ op'.at # "answer"
        BY <1>1, <2>3, GoType DEF Places
      <3>5. QED
        BY <1>2, <3>3, <3>4, CodesAlone
    <2>4. QED
      BY <1>3, <2>2, <2>3 DEF ResolveAccount
  <1>4. CASE CallAnswered
    <2>1. UNCHANGED account
      BY <1>4 DEF CallAnswered
    <2>2. CASE Go("done") /\ Same
      BY <1>1, <1>2, <2>1, <2>2, GoType, SameKeeps, CodesAlone DEF Places
    <2>3. CASE Challenge("call")
      BY <1>1, <1>2, <2>1, <2>3, ChallengeType, SameKeeps, CodesAlone DEF Challenge
    <2>4. CASE Fail /\ Same
      BY <1>1, <1>2, <2>1, <2>4, FailType, SameKeeps, CodesAlone
    <2>5. QED
      BY <1>4, <2>2, <2>3, <2>4 DEF CallAnswered
  <1>5. CASE SwitchAccount
    <2>1. CASE Switched
      BY <1>1, <1>2, <2>1, SwitchedKeeps, CodesAlone
    <2>2. CASE Challenge("switch") /\ UNCHANGED account
      BY <1>1, <1>2, <2>2, ChallengeType, SameKeeps, CodesAlone DEF Challenge
    <2>3. CASE Fail /\ Same /\ UNCHANGED account
      BY <1>1, <1>2, <2>3, FailType, SameKeeps, CodesAlone
    <2>4. QED
      BY <1>5, <2>1, <2>2, <2>3 DEF SwitchAccount
  <1>6. QED
    BY <1>3, <1>4, <1>5

(* The browser and the user's interrupt.                                   *)
LEMMA OutsideKeeps ==
  ASSUME IndInv, Browser \/ Cancel
  PROVE  IndInv'
  <1>1. CASE Browser
    BY <1>1 DEF Browser, Stay, Same, fixed, IndInv, FixedInv, IdentityInv, OpInv, CodeInv,
                CodeOnce
  <1>2. CASE Cancel
    BY <1>2, FailType, SameKeeps, CodesAlone DEF Cancel, Stay, IndInv, OpInv
  <1>3. QED
    BY <1>1, <1>2

LEMMA StepInd == IndInv /\ [Next]_vars => IndInv'
  <1> SUFFICES ASSUME IndInv, [Next]_vars PROVE IndInv'
    OBVIOUS
  <1>1. ASSUME NEW given \in BOOLEAN, BeginLogin(given) PROVE IndInv'
    BY <1>1, BeginLoginKeeps
  <1>2. CASE BeginBrowser \/ BeginSwitch \/ CallConsole \/ CallSession \/ CallCompute
    BY <1>2, BeginningsKeep
  <1>3. CASE Step
    BY <1>3, ObtainCodeKeeps, LoginsKeep, PollingKeeps, CallsKeep DEF Step
  <1>4. CASE Browser \/ Cancel
    BY <1>4, OutsideKeeps
  <1>5. CASE UNCHANGED vars
    BY <1>5 DEF vars, fixed, IndInv, FixedInv, IdentityInv, OpInv, CodeInv, CodeOnce
  <1>6. QED
    BY <1>1, <1>2, <1>3, <1>4, <1>5 DEF Next, Finished

LEMMA Invariance == Spec => []IndInv
  BY InitInd, StepInd, PTL DEF Spec

-----------------------------------------------------------------------------
(* Tokens are ones that were issued, the time left to a browser login is   *)
(* within its expiry, and what is sent as an answer is a code.             *)
THEOREM TypeCorrect == Spec => []TypeOK
  <1>1. IndInv => TypeOK
    BY Bounds DEF IndInv, IdentityInv, OpInv, CodeInv, TypeOK, Operation, Entries, MaybeAccount
  <1>2. QED
    BY <1>1, Invariance, PTL

(* No one-time code answers two challenges, and none goes in the bodies of *)
(* two logins, in any sequence of logins, browser logins, step-ups,        *)
(* failures and interrupts.                                                *)
THEOREM CodesAreUsedOnce == Spec => []CodeOnce
  <1>1. IndInv => CodeOnce
    BY DEF IndInv, CodeInv
  <1>2. QED
    BY <1>1, Invariance, PTL

=============================================================================
