-------------------------- MODULE RequestRetryProofs --------------------------
(***************************************************************************)
(* Proofs about RequestRetry, for every set of calls and every MaxRetries. *)
(***************************************************************************)
EXTENDS RequestRetry, TLAPS

(* Calls whose request is sent at most once.                               *)
SingleAttempt(c) == OnceOnly(sdk, op[c]) /\ ~Keyed(sdk, op[c])

(* A call that has not begun has left no trace.                            *)
IdleClean(c) ==
  phase[c] = "idle" =>
    /\ op[c] = "none" /\ attempt[c] = 0 /\ reply[c] = "none"
    /\ wire[c] = {} /\ effects[c] = {}

(* Only attempts the loop has reached are on the wire or took effect, and  *)
(* none is both.                                                           *)
SentSoFar(c) ==
  /\ \A n \in wire[c] \cup effects[c] : n <= attempt[c]
  /\ wire[c] \cap effects[c] = {}

(* The loop sleeps only when another attempt is left and allowed.          *)
BackoffAllowed(c) == phase[c] = "backoff" => attempt[c] < MaxRetries /\ ~SingleAttempt(c)

SingleStaysFirst(c) == SingleAttempt(c) => attempt[c] = 0

KeyedOnce(c) == Keyed(sdk, op[c]) => \A m, n \in effects[c] : m = n

SuccessHadEffect(c) == reply[c] = "success" => effects[c] # {}

RefusedClean(c) ==
  SingleAttempt(c) /\ reply[c] \in Refused => effects[c] = {} /\ wire[c] = {}

CallInv(c) ==
  /\ IdleClean(c)
  /\ SentSoFar(c)
  /\ BackoffAllowed(c)
  /\ SingleStaysFirst(c)
  /\ KeyedOnce(c)
  /\ SuccessHadEffect(c)
  /\ RefusedClean(c)

IndInv == TypeOK /\ \A c \in Calls : CallInv(c)

-----------------------------------------------------------------------------
(* The record of a call that does not move keeps its invariant.            *)
LEMMA FrameCall ==
  ASSUME NEW d \in Calls, CallInv(d), UNCHANGED sdk,
         UNCHANGED <<op[d], phase[d], attempt[d], reply[d], wire[d], effects[d]>>
  PROVE  CallInv(d)'
  BY DEF CallInv, IdleClean, SentSoFar, BackoffAllowed, SingleStaysFirst, KeyedOnce,
         SuccessHadEffect, RefusedClean, SingleAttempt, OnceOnly, Keyed, ConsoleOps

(* What an SDK never retries, no decision of its loop sends back to sleep. *)
LEMMA SingleNeverRetried ==
  ASSUME NEW c \in Calls, SingleAttempt(c), Handle(c)
  PROVE  Return(c)
  BY DEF SingleAttempt, OnceOnly, Keyed, ConsoleOps, Handle, PyHandle, AioHandle, GoHandle,
         JavaHandle, NodeHandle, Decide, GoRetries, JavaRetries, NodeRetries,
         GoAllowsRetry, JavaAllowsRetry, NodeHasLoop, Mode

(* A handler either returns the call or puts it to sleep with an attempt   *)
(* left.                                                                   *)
LEMMA HandleCases ==
  ASSUME NEW c \in Calls, Handle(c)
  PROVE  /\ phase[c] = "answered"
         /\ Return(c) \/ (BackOff(c) /\ attempt[c] < MaxRetries /\ ~SingleAttempt(c))
  <1>1. phase[c] = "answered" /\ (Return(c) \/ (BackOff(c) /\ attempt[c] < MaxRetries))
    BY DEF Handle, PyHandle, AioHandle, GoHandle, JavaHandle, NodeHandle, Decide
  <1>2. CASE SingleAttempt(c)
    BY <1>1, <1>2, SingleNeverRetried
  <1>3. QED
    BY <1>1, <1>2

LEMMA InitInd == Init => IndInv
  BY MaxRetriesAssumption
  DEF Init, IndInv, TypeOK, CallInv, IdleClean, SentSoFar, BackoffAllowed, SingleStaysFirst,
      KeyedOnce, SuccessHadEffect, RefusedClean, SingleAttempt, OnceOnly, Keyed, ConsoleOps,
      Attempts, Refused

LEMMA BeginInd ==
  ASSUME IndInv, NEW c \in Calls, Begin(c)
  PROVE  IndInv'
  <1>1. TypeOK'
    BY MaxRetriesAssumption DEF IndInv, TypeOK, Begin, Attempts
  <1>2. CallInv(c)'
    BY MaxRetriesAssumption DEF IndInv, TypeOK, Begin, Attempts, CallInv, IdleClean, SentSoFar,
       BackoffAllowed, SingleStaysFirst, KeyedOnce, SuccessHadEffect, RefusedClean,
       SingleAttempt, OnceOnly, Keyed, ConsoleOps, Refused
  <1>3. ASSUME NEW d \in Calls, d # c PROVE CallInv(d)'
    BY <1>3, FrameCall DEF IndInv, TypeOK, Begin
  <1>4. QED
    BY <1>1, <1>2, <1>3 DEF IndInv

LEMMA ServeInd ==
  ASSUME IndInv, NEW c \in Calls, NEW n \in Attempts, NEW o \in ServerOutcomes, Serve(c, n, o)
  PROVE  IndInv'
  <1>1. TypeOK'
    BY DEF IndInv, TypeOK, Serve, Outcomes
  <1>2. CallInv(c)'
    <2>. USE DEF IndInv, TypeOK, Serve, CallInv, Deduplicated
    <2>1. n \in wire[c] /\ wire'[c] = wire[c] \ {n}
      OBVIOUS
    <2>2. op'[c] = op[c] /\ sdk' = sdk /\ attempt'[c] = attempt[c]
      OBVIOUS
    <2>3. SingleAttempt(c)' <=> SingleAttempt(c)
      BY <2>2 DEF SingleAttempt, OnceOnly, Keyed, ConsoleOps
    <2>4. Keyed(sdk, op[c])' <=> Keyed(sdk, op[c])
      BY <2>2 DEF Keyed
    <2>5. effects'[c] = effects[c] \/ (o \notin Refused /\ effects'[c] = effects[c] \cup {n})
      OBVIOUS
    <2>6. IdleClean(c)'
      BY <2>1 DEF IdleClean
    <2>7. SentSoFar(c)'
      BY <2>1, <2>2, <2>5 DEF SentSoFar
    <2>8. BackoffAllowed(c)'
      BY <2>2, <2>3 DEF BackoffAllowed
    <2>9. SingleStaysFirst(c)'
      BY <2>2, <2>3 DEF SingleStaysFirst
    <2>10. KeyedOnce(c)'
      BY <2>4 DEF KeyedOnce
    <2>11. SuccessHadEffect(c)'
      <3>1. CASE reply'[c] = reply[c]
        BY <3>1, <2>5 DEF SuccessHadEffect
      <3>2. CASE reply'[c] = o
        BY <3>2 DEF SuccessHadEffect, Executed
      <3>3. QED
        BY <3>1, <3>2
    <2>12. RefusedClean(c)'
      <3>1. SUFFICES ASSUME SingleAttempt(c), reply'[c] \in Refused
                     PROVE  effects'[c] = {} /\ wire'[c] = {}
        BY <2>3 DEF RefusedClean
      <3>2. reply[c] \notin Refused
        BY <3>1, <2>1 DEF RefusedClean
      <3>3. o \in Refused
        BY <3>1, <3>2
      <3>4. \A m \in wire[c] \cup effects[c] : m = n
        BY <3>1, <2>1, MaxRetriesAssumption DEF SentSoFar, SingleStaysFirst, Attempts
      <3>5. QED
        BY <3>3, <3>4, <2>1, <2>5 DEF SentSoFar
    <2>13. QED
      BY <2>6, <2>7, <2>8, <2>9, <2>10, <2>11, <2>12
  <1>3. ASSUME NEW d \in Calls, d # c PROVE CallInv(d)'
    BY <1>3, FrameCall DEF IndInv, TypeOK, Serve
  <1>4. QED
    BY <1>1, <1>2, <1>3 DEF IndInv

LEMMA TimeOutInd ==
  ASSUME IndInv, NEW c \in Calls, TimeOut(c)
  PROVE  IndInv'
  <1>1. TypeOK'
    BY DEF IndInv, TypeOK, TimeOut, Outcomes
  <1>2. CallInv(c)'
    BY DEF IndInv, TypeOK, TimeOut, CallInv, IdleClean, SentSoFar, BackoffAllowed,
       SingleStaysFirst, KeyedOnce, SuccessHadEffect, RefusedClean, SingleAttempt, OnceOnly,
       Keyed, ConsoleOps, Refused
  <1>3. ASSUME NEW d \in Calls, d # c PROVE CallInv(d)'
    BY <1>3, FrameCall DEF IndInv, TypeOK, TimeOut
  <1>4. QED
    BY <1>1, <1>2, <1>3 DEF IndInv

LEMMA StrandInd ==
  ASSUME IndInv, NEW c \in Calls, NEW o \in ServerOutcomes, Strand(c, o)
  PROVE  IndInv'
  <1>1. TypeOK'
    BY DEF IndInv, TypeOK, Strand, Outcomes
  <1>2. CallInv(c)'
    BY DEF IndInv, TypeOK, Strand, CallInv, IdleClean, SentSoFar, BackoffAllowed,
       SingleStaysFirst, KeyedOnce, SuccessHadEffect, RefusedClean, SingleAttempt, OnceOnly,
       Keyed, ConsoleOps, Refused, ServerOutcomes
  <1>3. ASSUME NEW d \in Calls, d # c PROVE CallInv(d)'
    BY <1>3, FrameCall DEF IndInv, TypeOK, Strand
  <1>4. QED
    BY <1>1, <1>2, <1>3 DEF IndInv

LEMMA HandleInd ==
  ASSUME IndInv, NEW c \in Calls, Handle(c)
  PROVE  IndInv'
  <1>1. CASE Return(c)
    <2>1. TypeOK'
      BY <1>1 DEF IndInv, TypeOK, Return
    <2>2. ASSUME NEW d \in Calls PROVE CallInv(d)'
      BY <1>1, <2>2 DEF IndInv, TypeOK, Return, CallInv, IdleClean, SentSoFar, BackoffAllowed,
         SingleStaysFirst, KeyedOnce, SuccessHadEffect, RefusedClean, SingleAttempt, OnceOnly,
         Keyed, ConsoleOps
    <2>3. QED
      BY <2>1, <2>2 DEF IndInv
  <1>2. CASE BackOff(c) /\ attempt[c] < MaxRetries /\ ~SingleAttempt(c)
    <2>1. TypeOK'
      BY <1>2 DEF IndInv, TypeOK, BackOff
    <2>2. ASSUME NEW d \in Calls PROVE CallInv(d)'
      BY <1>2, <2>2 DEF IndInv, TypeOK, BackOff, CallInv, IdleClean, SentSoFar, BackoffAllowed,
         SingleStaysFirst, KeyedOnce, SuccessHadEffect, RefusedClean, SingleAttempt, OnceOnly,
         Keyed, ConsoleOps
    <2>3. QED
      BY <2>1, <2>2 DEF IndInv
  <1>3. QED
    BY <1>1, <1>2, HandleCases

LEMMA ResumeInd ==
  ASSUME IndInv, NEW c \in Calls, Resume(c)
  PROVE  IndInv'
  <1>1. attempt[c] \in Nat /\ attempt[c] < MaxRetries /\ ~SingleAttempt(c)
    BY MaxRetriesAssumption DEF IndInv, TypeOK, Resume, CallInv, BackoffAllowed, Attempts
  <1>2. TypeOK'
    BY <1>1, MaxRetriesAssumption DEF IndInv, TypeOK, Resume, Attempts
  <1>3. CallInv(c)'
    BY <1>1, MaxRetriesAssumption DEF IndInv, TypeOK, Resume, Attempts, CallInv, IdleClean,
       SentSoFar, BackoffAllowed, SingleStaysFirst, KeyedOnce, SuccessHadEffect, RefusedClean,
       SingleAttempt, OnceOnly, Keyed, ConsoleOps
  <1>4. ASSUME NEW d \in Calls, d # c PROVE CallInv(d)'
    BY <1>4, FrameCall DEF IndInv, TypeOK, Resume
  <1>5. QED
    BY <1>2, <1>3, <1>4 DEF IndInv

LEMMA CancelInd ==
  ASSUME IndInv, NEW c \in Calls, Cancel(c)
  PROVE  IndInv'
  <1>1. TypeOK'
    BY DEF IndInv, TypeOK, Cancel, Outcomes
  <1>2. CallInv(c)'
    BY DEF IndInv, TypeOK, Cancel, CallInv, IdleClean, SentSoFar, BackoffAllowed,
       SingleStaysFirst, KeyedOnce, SuccessHadEffect, RefusedClean, SingleAttempt, OnceOnly,
       Keyed, ConsoleOps, Refused
  <1>3. ASSUME NEW d \in Calls, d # c PROVE CallInv(d)'
    BY <1>3, FrameCall DEF IndInv, TypeOK, Cancel
  <1>4. QED
    BY <1>1, <1>2, <1>3 DEF IndInv

LEMMA NextInd == IndInv /\ [Next]_vars => IndInv'
  <1>. SUFFICES ASSUME IndInv, [Next]_vars PROVE IndInv'
    OBVIOUS
  <1>1. CASE UNCHANGED vars
    <2>1. TypeOK'
      BY <1>1 DEF IndInv, TypeOK, vars, client
    <2>2. ASSUME NEW d \in Calls PROVE CallInv(d)'
      BY <1>1, <2>2, FrameCall DEF IndInv, vars, client
    <2>3. QED
      BY <2>1, <2>2 DEF IndInv
  <1>2. ASSUME NEW c \in Calls, Begin(c) PROVE IndInv'
    BY <1>2, BeginInd
  <1>3. ASSUME NEW c \in Calls, TimeOut(c) PROVE IndInv'
    BY <1>3, TimeOutInd
  <1>4. ASSUME NEW c \in Calls, Handle(c) PROVE IndInv'
    BY <1>4, HandleInd
  <1>5. ASSUME NEW c \in Calls, Resume(c) PROVE IndInv'
    BY <1>5, ResumeInd
  <1>6. ASSUME NEW c \in Calls, Cancel(c) PROVE IndInv'
    BY <1>6, CancelInd
  <1>7. ASSUME NEW c \in Calls, NEW n \in Attempts, NEW o \in ServerOutcomes, Serve(c, n, o)
        PROVE  IndInv'
    BY <1>7, ServeInd
  <1>8. ASSUME NEW c \in Calls, NEW o \in ServerOutcomes, Strand(c, o) PROVE IndInv'
    BY <1>8, StrandInd
  <1>9. QED
    BY <1>1, <1>2, <1>3, <1>4, <1>5, <1>6, <1>7, <1>8 DEF Next, Finished

(* The inductive invariant holds of every behaviour.                       *)
THEOREM Invariance == Spec => []IndInv
  BY InitInd, NextInd, PTL DEF Spec

-----------------------------------------------------------------------------
(* Every variable keeps its type: the loop variable of each SDK's request  *)
(* loop never exceeds MaxRetries, whatever MaxRetries is.                  *)
THEOREM TypeCorrect == Spec => []TypeOK
  <1>1. IndInv => TypeOK
    BY DEF IndInv
  <1>2. QED
    BY <1>1, Invariance, PTL

(* What a Go, Java or Node program is promised to happen once happens at   *)
(* most once, for any number of calls and retries.                         *)
THEOREM NoDuplicates == Spec => []NoDuplicateEffect
  <1>1. ASSUME IndInv, NEW c \in Calls, OnceOnly(sdk, op[c]), NEW m \in effects[c],
               NEW n \in effects[c]
        PROVE  m = n
    <2>1. CASE Keyed(sdk, op[c])
      BY <1>1, <2>1 DEF IndInv, CallInv, KeyedOnce
    <2>2. CASE ~Keyed(sdk, op[c])
      <3>1. attempt[c] = 0 /\ m \in Nat /\ n \in Nat /\ m <= attempt[c] /\ n <= attempt[c]
        BY <1>1, <2>2, MaxRetriesAssumption
        DEF IndInv, TypeOK, CallInv, SentSoFar, SingleStaysFirst, SingleAttempt, Attempts
      <3>2. QED
        BY <3>1
    <2>3. QED
      BY <2>1, <2>2
  <1>2. IndInv => NoDuplicateEffect
    BY <1>1 DEF NoDuplicateEffect
  <1>3. QED
    BY <1>2, Invariance, PTL

(* No request loop reports a success that did not happen.                  *)
THEOREM SuccessesAreReal == Spec => []SuccessIsReal
  <1>1. IndInv => SuccessIsReal
    BY DEF IndInv, CallInv, SuccessHadEffect, SuccessIsReal
  <1>2. QED
    BY <1>1, Invariance, PTL

(* The refusal of a once-only call is final.                               *)
THEOREM RefusalsAreFinal == Spec => []RefusalIsFinal
  <1>1. IndInv => RefusalIsFinal
    BY DEF IndInv, CallInv, RefusedClean, SingleAttempt, RefusalIsFinal
  <1>2. QED
    BY <1>1, Invariance, PTL

(* A gateway error of a call documented to survive them is not handed out  *)
(* while attempts and time are left.                                       *)
LEMMA GatewayRetried ==
  ASSUME TypeOK, NEW c \in Calls, Handle(c), Return(c), reply[c] = "gateway",
         Survives(sdk, op[c])
  PROVE  attempt[c] = MaxRetries \/ expired[c]
  <1>1. attempt[c] <= MaxRetries /\ attempt[c] \in Nat
    BY MaxRetriesAssumption DEF TypeOK, Attempts
  <1>2. ASSUME Decide(c, TRUE) PROVE attempt[c] = MaxRetries
    BY <1>1, <1>2, MaxRetriesAssumption DEF Decide, BackOff, Return, TypeOK
  <1>3. CASE PyHandle(c)
    BY <1>2, <1>3 DEF PyHandle, PyRetries
  <1>4. CASE AioHandle(c)
    BY <1>2, <1>4 DEF AioHandle, AioRetries
  <1>5. CASE GoHandle(c) /\ ~expired[c]
    BY <1>2, <1>5 DEF GoHandle, GoRetries, GoAllowsRetry, Mode, Survives
  <1>6. CASE JavaHandle(c)
    BY <1>2, <1>6 DEF JavaHandle, JavaRetries, JavaAllowsRetry, Mode, Survives
  <1>7. CASE NodeHandle(c)
    BY <1>2, <1>7 DEF NodeHandle, NodeRetries, NodeHasLoop, ConsoleOps, Survives
  <1>8. QED
    BY <1>3, <1>4, <1>5, <1>6, <1>7 DEF Handle

LEMMA MaskedStep ==
  ASSUME IndInv, TransientFaultsMasked, [Next]_vars
  PROVE  TransientFaultsMasked'
  <1>1. SUFFICES ASSUME NEW c \in Calls, phase'[c] = "returned", reply'[c] = "gateway",
                        Survives(sdk, op[c])'
                 PROVE  attempt'[c] = MaxRetries \/ expired'[c]
    BY DEF TransientFaultsMasked
  <1>2. TypeOK
    BY DEF IndInv
  <1>3. CASE UNCHANGED <<sdk, op[c], phase[c], attempt[c], reply[c], expired[c]>>
    BY <1>1, <1>3 DEF TransientFaultsMasked, Survives, ConsoleOps
  <1>4. CASE Handle(c)
    <2>1. Return(c)
      BY <1>1, <1>2, <1>4, HandleCases DEF BackOff, TypeOK
    <2>2. reply[c] = "gateway" /\ Survives(sdk, op[c]) /\ attempt'[c] = attempt[c]
          /\ expired'[c] = expired[c]
      BY <1>1, <2>1 DEF Return, Survives, ConsoleOps
    <2>3. QED
      BY <1>2, <1>4, <2>1, <2>2, GatewayRetried
  <1>5. CASE Cancel(c)
    BY <1>2, <1>5 DEF Cancel, TypeOK
  <1>6. CASE \/ Begin(c) \/ TimeOut(c) \/ Resume(c)
             \/ \E o \in ServerOutcomes : Strand(c, o)
    BY <1>1, <1>2, <1>6 DEF Begin, TimeOut, Resume, Strand, TypeOK
  <1>7. ASSUME NEW n \in Attempts, NEW o \in ServerOutcomes, Serve(c, n, o)
        PROVE  UNCHANGED <<sdk, op[c], phase[c], attempt[c], reply[c], expired[c]>>
    BY <1>1, <1>2, <1>7 DEF Serve, TypeOK
  <1>8. ASSUME NEW d \in Calls, d # c,
               \/ Begin(d) \/ TimeOut(d) \/ Handle(d) \/ Resume(d) \/ Cancel(d)
               \/ \E n \in Attempts, o \in ServerOutcomes : Serve(d, n, o)
               \/ \E o \in ServerOutcomes : Strand(d, o)
        PROVE  UNCHANGED <<sdk, op[c], phase[c], attempt[c], reply[c], expired[c]>>
    BY <1>2, <1>8, HandleCases DEF Begin, TimeOut, Resume, Cancel, Serve, Strand, Return,
       BackOff, TypeOK
  <1>9. CASE UNCHANGED vars
    BY <1>9, <1>3 DEF vars, client
  <1>10. QED
    BY <1>3, <1>4, <1>5, <1>6, <1>7, <1>8, <1>9 DEF Next, Finished

(* No 502, 503 or 504 reaches the caller of a call documented to survive   *)
(* them before its last attempt or its deadline, whatever MaxRetries is.   *)
THEOREM FaultsAreMasked == Spec => []TransientFaultsMasked
  <1>1. Init => TransientFaultsMasked
    BY DEF Init, TransientFaultsMasked
  <1>2. IndInv /\ TransientFaultsMasked /\ [Next]_vars => TransientFaultsMasked'
    BY MaskedStep
  <1>3. QED
    BY <1>1, <1>2, Invariance, PTL DEF Spec

-----------------------------------------------------------------------------
(* Refinement.  Each step of a request loop is a step of RemoteCall on the *)
(* same call, or changes nothing the caller sees.                          *)
AbstractState == [c \in Calls |-> CallState(c)]
AbstractOnce == [c \in Calls |-> OnceOnly(sdk, op[c])]

(* A call whose fields stay is in the same abstract state.                 *)
LEMMA SameView ==
  ASSUME NEW d \in Calls, UNCHANGED <<sdk, op[d], phase[d], reply[d]>>
  PROVE  CallState(d)' = CallState(d) /\ OnceOnly(sdk, op[d])' = OnceOnly(sdk, op[d])
  BY DEF CallState, OnceOnly, Keyed, ConsoleOps

LEMMA AbstractInit == Init => Abstract!Init
  <1>. SUFFICES ASSUME Init PROVE Abstract!Init
    OBVIOUS
  <1>1. ASSUME NEW c \in Calls PROVE CallState(c) = "idle" /\ OnceOnly(sdk, op[c]) = FALSE
    BY DEF Init, CallState, OnceOnly, ConsoleOps
  <1>2. QED
    BY <1>1 DEF Init, Abstract!Init

LEMMA BeginStep ==
  ASSUME IndInv, NEW c \in Calls, Begin(c)
  PROVE  Abstract!Next
  <1>1. ASSUME NEW d \in Calls, d # c
        PROVE  CallState(d)' = CallState(d) /\ OnceOnly(sdk, op[d])' = OnceOnly(sdk, op[d])
    BY <1>1, SameView DEF IndInv, TypeOK, Begin
  <1>2. CallState(c) = "idle" /\ CallState(c)' = "pending"
    BY DEF IndInv, TypeOK, Begin, CallState
  <1>3. OnceOnly(sdk, op[c])' \in BOOLEAN
    BY DEF OnceOnly
  <1>4. AbstractState' = [AbstractState EXCEPT ![c] = "pending"]
    BY <1>1, <1>2 DEF AbstractState
  <1>5. AbstractOnce' = [AbstractOnce EXCEPT ![c] = OnceOnly(sdk, op[c])']
    BY <1>1, <1>3 DEF AbstractOnce
  <1>6. Abstract!Start(c)
    BY <1>2, <1>3, <1>4, <1>5 DEF Abstract!Start, AbstractState, AbstractOnce, Begin
  <1>7. QED
    BY <1>6 DEF Abstract!Next


(* A step of call c that leaves its kind and the effects alone and moves   *)
(* it to one of the final states, or nowhere, is allowed by RemoteCall.    *)
LEMMA ClientStep ==
  ASSUME IndInv, NEW c \in Calls, UNCHANGED <<sdk, op, effects>>,
         \A d \in Calls \ {c} : UNCHANGED <<phase[d], reply[d]>>,
         phase[c] \notin {"idle", "returned"}, phase'[c] # "idle",
         reply'[c] = "success" => effects[c] # {},
         SingleAttempt(c) /\ reply'[c] \in Refused => effects[c] = {}
  PROVE  [Abstract!Next]_(Abstract!vars)
  <1>1. AbstractOnce' = AbstractOnce
    BY DEF AbstractOnce, OnceOnly, ConsoleOps
  <1>2. ASSUME NEW d \in Calls, d # c PROVE CallState(d)' = CallState(d)
    BY <1>2, SameView
  <1>3. CallState(c) = "pending"
    BY DEF CallState
  <1>4. AbstractState' = [AbstractState EXCEPT ![c] = CallState(c)']
    BY <1>2 DEF AbstractState
  <1>5. CASE phase'[c] # "returned"
    <2>1. CallState(c)' = "pending"
      BY <1>5 DEF CallState
    <2>2. AbstractState' = AbstractState
      BY <2>1, <1>3, <1>4 DEF AbstractState
    <2>3. QED
      BY <1>1, <2>2 DEF Abstract!vars, AbstractState, AbstractOnce
  <1>6. CASE phase'[c] = "returned" /\ reply'[c] = "success"
    <2>1. CallState(c)' = "succeeded"
      BY <1>6 DEF CallState
    <2>2. Abstract!Succeed(c)
      BY <1>1, <1>3, <1>4, <1>6, <2>1 DEF Abstract!Succeed, AbstractState, AbstractOnce
    <2>3. QED
      BY <2>2 DEF Abstract!Next
  <1>7. CASE /\ phase'[c] = "returned" /\ reply'[c] \in Refused /\ SingleAttempt(c)
    <2>1. CallState(c)' = "refused" /\ OnceOnly(sdk, op[c])
      BY <1>7 DEF CallState, Refused, SingleAttempt, OnceOnly, Keyed, ConsoleOps
    <2>2. Abstract!Refuse(c)
      BY <1>1, <1>3, <1>4, <1>7, <2>1 DEF Abstract!Refuse, AbstractState, AbstractOnce
    <2>3. QED
      BY <2>2 DEF Abstract!Next
  <1>8. CASE /\ phase'[c] = "returned" /\ reply'[c] # "success"
             /\ ~(reply'[c] \in Refused /\ SingleAttempt(c))
    <2>1. CallState(c)' = "failed"
      BY <1>8 DEF CallState, SingleAttempt, OnceOnly, Keyed, ConsoleOps
    <2>2. Abstract!Fail(c)
      BY <1>1, <1>3, <1>4, <2>1 DEF Abstract!Fail, AbstractState, AbstractOnce
    <2>3. QED
      BY <2>2 DEF Abstract!Next
  <1>9. QED
    BY <1>5, <1>6, <1>7, <1>8

LEMMA TimeOutStep ==
  ASSUME IndInv, NEW c \in Calls, TimeOut(c)
  PROVE  [Abstract!Next]_(Abstract!vars)
  <1>1. phase'[c] = "answered" /\ reply'[c] = "timeout"
    BY DEF IndInv, TypeOK, TimeOut
  <1>2. QED
    BY <1>1, ClientStep DEF IndInv, TypeOK, TimeOut, Refused

LEMMA StrandStep ==
  ASSUME IndInv, NEW c \in Calls, NEW o \in ServerOutcomes, Strand(c, o)
  PROVE  [Abstract!Next]_(Abstract!vars)
  <1>1. phase'[c] = "answered" /\ reply'[c] = o /\ o \notin Refused /\ o # "success"
    BY DEF IndInv, TypeOK, Strand, Refused
  <1>2. QED
    BY <1>1, ClientStep DEF IndInv, TypeOK, Strand, Refused

LEMMA HandleStep ==
  ASSUME IndInv, NEW c \in Calls, Handle(c)
  PROVE  [Abstract!Next]_(Abstract!vars)
  <1>1. phase'[c] \in {"returned", "backoff"}
    BY HandleCases DEF IndInv, TypeOK, Return, BackOff
  <1>2. UNCHANGED <<sdk, op, reply, effects>> /\ \A d \in Calls \ {c} : phase'[d] = phase[d]
    BY HandleCases DEF IndInv, TypeOK, Return, BackOff
  <1>3. reply[c] = "success" => effects[c] # {}
    BY DEF IndInv, CallInv, SuccessHadEffect
  <1>4. SingleAttempt(c) /\ reply[c] \in Refused => effects[c] = {}
    BY DEF IndInv, CallInv, RefusedClean
  <1>5. QED
    BY <1>1, <1>2, <1>3, <1>4, HandleCases, ClientStep

LEMMA ResumeStep ==
  ASSUME IndInv, NEW c \in Calls, Resume(c)
  PROVE  [Abstract!Next]_(Abstract!vars)
  <1>1. phase'[c] = "waiting" /\ reply'[c] = reply[c]
    BY DEF IndInv, TypeOK, Resume
  <1>2. reply[c] = "success" => effects[c] # {}
    BY DEF IndInv, CallInv, SuccessHadEffect
  <1>3. SingleAttempt(c) /\ reply[c] \in Refused => effects[c] = {}
    BY DEF IndInv, CallInv, RefusedClean
  <1>4. QED
    BY <1>1, <1>2, <1>3, ClientStep DEF IndInv, TypeOK, Resume

LEMMA CancelStep ==
  ASSUME IndInv, NEW c \in Calls, Cancel(c)
  PROVE  [Abstract!Next]_(Abstract!vars)
  <1>1. phase'[c] = "returned" /\ reply'[c] \in {reply[c], "timeout"}
    BY DEF IndInv, TypeOK, Cancel
  <1>2. reply[c] = "success" => effects[c] # {}
    BY DEF IndInv, CallInv, SuccessHadEffect
  <1>3. SingleAttempt(c) /\ reply[c] \in Refused => effects[c] = {}
    BY DEF IndInv, CallInv, RefusedClean
  <1>4. QED
    BY <1>1, <1>2, <1>3, ClientStep DEF IndInv, TypeOK, Cancel, Refused


(* The server's turn is an effect of RemoteCall, or nothing.               *)
LEMMA ServeStep ==
  ASSUME IndInv, NEW c \in Calls, NEW n \in Attempts, NEW o \in ServerOutcomes, Serve(c, n, o)
  PROVE  [Abstract!Next]_(Abstract!vars)
  <1>1. n \in wire[c] /\ n \notin effects[c] /\ n <= attempt[c]
    BY DEF Serve, IndInv, CallInv, SentSoFar
  <1>2. phase[c] # "idle" /\ ~(SingleAttempt(c) /\ reply[c] \in Refused)
    BY <1>1 DEF IndInv, CallInv, IdleClean, RefusedClean
  <1>3. SingleAttempt(c) => effects[c] = {}
    <2>1. ASSUME SingleAttempt(c), NEW m \in effects[c] PROVE FALSE
      BY <1>1, <2>1, MaxRetriesAssumption
      DEF IndInv, TypeOK, CallInv, SentSoFar, SingleStaysFirst, Attempts
    <2>2. QED
      BY <2>1
  <1>4. ASSUME NEW d \in Calls PROVE CallState(d)' = CallState(d)
    <2>1. CASE UNCHANGED <<phase[d], reply[d]>>
      BY <2>1, SameView DEF Serve
    <2>2. CASE ~UNCHANGED <<phase[d], reply[d]>>
      <3>1. phase[d] = "waiting" /\ phase'[d] = "answered"
        BY <2>2 DEF Serve, IndInv, TypeOK
      <3>2. QED
        BY <3>1 DEF CallState
    <2>3. QED
      BY <2>1, <2>2
  <1>5. AbstractState' = AbstractState
    BY <1>4 DEF AbstractState
  <1>6. AbstractOnce' = AbstractOnce
    BY DEF AbstractOnce, OnceOnly, ConsoleOps, Serve
  <1>7. CASE effects' = effects
    BY <1>5, <1>6, <1>7 DEF Abstract!vars, AbstractState, AbstractOnce
  <1>8. CASE /\ effects' = [effects EXCEPT ![c] = @ \cup {n}]
             /\ ~(Keyed(sdk, op[c]) /\ effects[c] # {})
    <2>1. CallState(c) \notin {"idle", "refused"}
      BY <1>2 DEF CallState, SingleAttempt
    <2>2. OnceOnly(sdk, op[c]) => effects[c] = {}
      BY <1>3, <1>8 DEF SingleAttempt
    <2>3. Abstract!Effect(c)
      BY <1>1, <1>5, <1>6, <1>8, <2>1, <2>2 DEF Abstract!Effect, AbstractState, AbstractOnce
    <2>4. QED
      BY <2>3 DEF Abstract!Next
  <1>9. QED
    BY <1>7, <1>8 DEF Serve, Deduplicated

LEMMA NextStep == IndInv /\ [Next]_vars => [Abstract!Next]_(Abstract!vars)
  <1>. SUFFICES ASSUME IndInv, [Next]_vars PROVE [Abstract!Next]_(Abstract!vars)
    OBVIOUS
  <1>1. CASE UNCHANGED vars
    <2>1. ASSUME NEW d \in Calls
          PROVE  CallState(d)' = CallState(d) /\ OnceOnly(sdk, op[d])' = OnceOnly(sdk, op[d])
      BY <1>1, <2>1, SameView DEF vars, client
    <2>2. QED
      BY <1>1, <2>1 DEF Abstract!vars, vars
  <1>2. CASE \E c \in Calls : Begin(c)
    BY <1>2, BeginStep
  <1>3. CASE \E c \in Calls : TimeOut(c)
    BY <1>3, TimeOutStep
  <1>4. CASE \E c \in Calls : Handle(c)
    BY <1>4, HandleStep
  <1>5. CASE \E c \in Calls : Resume(c)
    BY <1>5, ResumeStep
  <1>6. CASE \E c \in Calls : Cancel(c)
    BY <1>6, CancelStep
  <1>7. CASE \E c \in Calls, n \in Attempts, o \in ServerOutcomes : Serve(c, n, o)
    BY <1>7, ServeStep
  <1>8. CASE \E c \in Calls, o \in ServerOutcomes : Strand(c, o)
    BY <1>8, StrandStep
  <1>9. QED
    BY <1>1, <1>2, <1>3, <1>4, <1>5, <1>6, <1>7, <1>8 DEF Next, Finished

(* The request loops of all five transports implement RemoteCall: what a   *)
(* caller can observe of them is a call that promises what RemoteCall      *)
(* promises, for every set of calls and every MaxRetries.                  *)
THEOREM Refinement == Spec => ImplementsRemoteCall
  BY InitInd, NextInd, AbstractInit, NextStep, PTL DEF Spec, ImplementsRemoteCall, Abstract!Spec

=============================================================================
