---------------------------- MODULE RequestRetry ----------------------------
(***************************************************************************)
(* The request loops of the SDKs: Transport._request and its asyncio twin  *)
(* (Python), Client.do (Go), Transport.doRequest (Java), dataPlaneRequest  *)
(* and consoleRequest (Node), against a server that may execute a request  *)
(* and fail to say so.                                                     *)
(*                                                                         *)
(* A call issues up to MaxRetries + 1 attempts, one after the other.  An   *)
(* attempt the client gives up on stays on the wire and may be executed    *)
(* later.  What the client does with the outcome of an attempt differs     *)
(* between the SDKs and is one action per SDK.                             *)
(***************************************************************************)
EXTENDS Naturals

CONSTANTS
  Calls,        \* the calls made by the program that uses the SDK
  MaxRetries    \* MAX_RETRIES / maxRetries / Env.MAX_RETRIES (2 in the code)

ASSUME MaxRetriesAssumption == MaxRetries \in Nat

VARIABLES
  sdk,        \* which SDK the program uses
  op,         \* op[c]: the kind of request call c makes
  phase,      \* phase[c]: where call c is in the request loop
  attempt,    \* attempt[c]: the loop variable
  reply,      \* reply[c]: outcome of the last attempt the client has seen
  expired,    \* expired[c]: the deadline of the call, or its cancellation, hit
  wire,       \* wire[c]: attempts sent that the server has not dealt with
  effects     \* effects[c]: attempts that took effect on the server

client == <<op, phase, attempt, reply, expired>>
vars == <<sdk, client, wire, effects>>

Attempts == 0..MaxRetries

Sdks == {"python", "aio", "node", "go", "java"}

(***************************************************************************)
(* Kinds of request, by what the policies tell apart:                      *)
(*   read      data-plane GET                                              *)
(*   download  GET of an object body                                       *)
(*   ackread   GET of messages with delete=true: the read consumes them    *)
(*   delete    DELETE or PUT of a data-plane resource                      *)
(*   send      POST to a queue: messages, batch, purge                     *)
(*   upload    POST of an object, or of a server-side copy                 *)
(*   create    POST of a management resource (bucket, queue, repository)   *)
(*   post      any other console POST: login, enable a function URL, ...   *)
(***************************************************************************)
Ops == {"read", "download", "ackread", "delete", "send", "upload", "create", "post"}

ConsoleOps == {"create", "post"}

(***************************************************************************)
(* What an attempt ends with, as the client sees it:                       *)
(*   success      2xx with its whole body                                  *)
(*   rejected     4xx other than 429                                       *)
(*   ratelimited  429                                                      *)
(*   fault        5xx other than the next three                            *)
(*   gateway      502, 503, 504                                            *)
(*   lost         the connection failed before the response headers        *)
(*   torn         2xx headers, then the connection broke in the body       *)
(*   timeout      the client's own timer, or a cancellation                *)
(***************************************************************************)
ServerOutcomes ==
  {"success", "rejected", "ratelimited", "fault", "gateway", "lost", "torn"}
Outcomes == ServerOutcomes \cup {"timeout"}

NetworkErrors == {"lost", "torn", "timeout"}

(* The server has certainly executed / has certainly not executed.         *)
Executed == {"success", "torn"}
Refused == {"rejected", "ratelimited"}

-----------------------------------------------------------------------------
(* Policies.                                                               *)

(* The retry mode of a Go or Java request: by method, unless the call site *)
(* passes one.  A create passes an idempotency key.                        *)
Mode(o) ==
  CASE o \in {"read", "download", "ackread", "delete"} -> "idempotent"
    [] o = "upload" -> "upload"
    [] o = "create" -> "ifIdempotency"
    [] OTHER -> "never"

(* A management create carries one Idempotency-Key for all its attempts in *)
(* Go and Java; Python and Node send none.                                 *)
Keyed(s, o) == s \in {"go", "java"} /\ o = "create"

(* Mutated form: the mode of the request is not looked at.                 *)
GoAllowsRetryAlways(o) == TRUE

GoAllowsRetry(o) ==
  \/ Mode(o) \in {"upload", "idempotent"}
  \/ Mode(o) = "ifIdempotency" /\ Keyed("go", o)

JavaAllowsRetry(o) ==
  \/ Mode(o) \in {"upload", "idempotent"}
  \/ Mode(o) = "ifIdempotency" /\ Keyed("java", o)

(* Node's loop exists only in dataPlaneRequest: the console requests and   *)
(* dataPlaneRequestBytes (download) call fetch once.                       *)
NodeHasLoop(o) == o \notin ConsoleOps \cup {"download"}

(***************************************************************************)
(* Whether outcome r of an attempt calls for another one, attempts left or *)
(* not.  Both Python transports retry every network error and RETRY_STATUS *)
(* whatever the method.  In Go x says that the context has ended; a body   *)
(* that breaks off is a read error, which Go returns at once.  In Node a   *)
(* rejected fetch propagates: only a status can be retried.                *)
(***************************************************************************)
(* Mutated form: RETRY_STATUS is empty.                                    *)
PyRetriesNoStatus(r) == r \in NetworkErrors

PyRetries(r) == r \in NetworkErrors \cup {"ratelimited", "gateway"}

AioRetries(r) == r \in NetworkErrors \cup {"ratelimited", "gateway"}

GoRetries(o, r, x) ==
  /\ GoAllowsRetry(o)
  /\ r \in {"lost", "timeout", "gateway"}
  /\ ~x

JavaRetries(o, r) == JavaAllowsRetry(o) /\ r \in NetworkErrors \cup {"gateway"}

NodeRetries(o, r) == NodeHasLoop(o) /\ r = "gateway"

(***************************************************************************)
(* The timers of the SDK cover the whole of the attempt.  Node's one signal *)
(* bounds headers and body (once the account is known: the whoami lookup   *)
(* before a first call has no signal).  Go's deadline and Python's read    *)
(* timeout do not cover a download, which is streamed; Python's starts     *)
(* again with every read, so for the other calls it bounds the attempt     *)
(* only if an answer that has begun is finite.  Java's timer ends with the *)
(* headers: a body that stalls is waited for without limit.                *)
(***************************************************************************)
HasTimeout(s, o) ==
  \/ s = "node"
  \/ s \in {"python", "aio", "go"} /\ o # "download"

(* The key is made before the loop: all attempts of a keyed call share it. *)
Deduplicated(c) == Keyed(sdk, op[c])

-----------------------------------------------------------------------------
Init ==
  /\ sdk \in Sdks
  /\ op = [c \in Calls |-> "none"]
  /\ phase = [c \in Calls |-> "idle"]
  /\ attempt = [c \in Calls |-> 0]
  /\ reply = [c \in Calls |-> "none"]
  /\ expired = [c \in Calls |-> FALSE]
  /\ wire = [c \in Calls |-> {}]
  /\ effects = [c \in Calls |-> {}]

(* The call signs and sends its first attempt.                             *)
Begin(c) ==
  /\ phase[c] = "idle"
  /\ \E o \in Ops : op' = [op EXCEPT ![c] = o]
  /\ phase' = [phase EXCEPT ![c] = "waiting"]
  /\ wire' = [wire EXCEPT ![c] = {0}]
  /\ UNCHANGED <<sdk, attempt, reply, expired, effects>>

(***************************************************************************)
(* The server deals with attempt n of call c, which the client may have    *)
(* abandoned.  A keyed request that already took effect is answered again  *)
(* without a second effect.                                                *)
(***************************************************************************)
Serve(c, n, o) ==
  /\ n \in wire[c]
  /\ wire' = [wire EXCEPT ![c] = @ \ {n}]
  /\ \/ /\ o \notin Refused
        /\ effects' = IF Deduplicated(c) /\ effects[c] # {}
                      THEN effects
                      ELSE [effects EXCEPT ![c] = @ \cup {n}]
     \/ /\ o \notin Executed
        /\ UNCHANGED effects
  /\ IF phase[c] = "waiting" /\ attempt[c] = n
     THEN /\ reply' = [reply EXCEPT ![c] = o]
          /\ phase' = [phase EXCEPT ![c] = "answered"]
     ELSE UNCHANGED <<reply, phase>>
  /\ UNCHANGED <<sdk, op, attempt, expired>>

(***************************************************************************)
(* The client is told that the attempt failed while it is still on its way:*)
(* a gateway gives up on its upstream, or the connection breaks behind the *)
(* request.  The server may execute it later.                              *)
(***************************************************************************)
Strand(c, o) ==
  /\ phase[c] = "waiting"
  /\ o \in {"gateway", "lost"}
  /\ reply' = [reply EXCEPT ![c] = o]
  /\ phase' = [phase EXCEPT ![c] = "answered"]
  /\ UNCHANGED <<sdk, op, attempt, expired, wire, effects>>

(***************************************************************************)
(* The client stops waiting.  In Python and Java the timer belongs to the  *)
(* attempt.  Go's call has a context, whose end ends the call, and a       *)
(* shorter header timer for each attempt; Node's one AbortSignal covers    *)
(* the whole call.                                                         *)
(***************************************************************************)
TimeOut(c) ==
  /\ phase[c] = "waiting"
  /\ reply' = [reply EXCEPT ![c] = "timeout"]
  /\ phase' = [phase EXCEPT ![c] = "answered"]
  /\ \E x \in BOOLEAN :
        /\ x => sdk \in {"go", "node"}
        /\ sdk = "node" => x
        /\ expired' = [expired EXCEPT ![c] = x]
  /\ UNCHANGED <<sdk, op, attempt, wire, effects>>

(* Mutated form: the loop falls through with an empty result.              *)
ReturnSwallowed(c) ==
  /\ phase' = [phase EXCEPT ![c] = "returned"]
  /\ reply' = [reply EXCEPT ![c] = "success"]
  /\ UNCHANGED <<sdk, op, attempt, expired, wire, effects>>

(* The result, or the error the outcome maps to, goes to the caller.       *)
Return(c) ==
  /\ phase' = [phase EXCEPT ![c] = "returned"]
  /\ UNCHANGED <<sdk, op, attempt, reply, expired, wire, effects>>

BackOff(c) ==
  /\ phase' = [phase EXCEPT ![c] = "backoff"]
  /\ UNCHANGED <<sdk, op, attempt, reply, expired, wire, effects>>

(* Mutated form: the loop is not bounded.                                  *)
DecideUnbounded(c, again) ==
  /\ phase[c] = "answered"
  /\ IF again THEN BackOff(c) ELSE Return(c)

Decide(c, again) ==
  /\ phase[c] = "answered"
  /\ IF again /\ attempt[c] < MaxRetries THEN BackOff(c) ELSE Return(c)

PyHandle(c) == sdk = "python" /\ Decide(c, PyRetries(reply[c]))

AioHandle(c) == sdk = "aio" /\ Decide(c, AioRetries(reply[c]))

GoHandle(c) == sdk = "go" /\ Decide(c, GoRetries(op[c], reply[c], expired[c]))

JavaHandle(c) == sdk = "java" /\ Decide(c, JavaRetries(op[c], reply[c]))

NodeHandle(c) == sdk = "node" /\ Decide(c, NodeRetries(op[c], reply[c]))

(* Mutated form: the loop variable does not move.                          *)
ResumeSameAttempt(c) ==
  /\ phase[c] = "backoff"
  /\ wire' = [wire EXCEPT ![c] = @ \cup {attempt[c]}]
  /\ phase' = [phase EXCEPT ![c] = "waiting"]
  /\ UNCHANGED <<sdk, op, attempt, reply, expired, effects>>

(* The sleep ends: the loop sends its next attempt.                        *)
Resume(c) ==
  /\ phase[c] = "backoff"
  /\ attempt' = [attempt EXCEPT ![c] = @ + 1]
  /\ wire' = [wire EXCEPT ![c] = @ \cup {attempt[c] + 1}]
  /\ phase' = [phase EXCEPT ![c] = "waiting"]
  /\ UNCHANGED <<sdk, op, reply, expired, effects>>

(***************************************************************************)
(* The caller gives up.  During the sleep the context ends (Go), the       *)
(* AbortSignal fires and the next fetch rejects at once (Node), the thread *)
(* is interrupted (Java) or the task is cancelled (asyncio); the last two  *)
(* also cut the wait for an answer.  No further attempt is sent; Go        *)
(* returns the last error.                                                 *)
(***************************************************************************)
Cancel(c) ==
  /\ \/ phase[c] = "backoff" /\ sdk # "python"
     \/ phase[c] = "waiting" /\ sdk \in {"aio", "java"}
  /\ phase' = [phase EXCEPT ![c] = "returned"]
  /\ reply' = IF sdk = "go" THEN reply ELSE [reply EXCEPT ![c] = "timeout"]
  /\ expired' = [expired EXCEPT ![c] = TRUE]
  /\ UNCHANGED <<sdk, op, attempt, wire, effects>>

Handle(c) == PyHandle(c) \/ AioHandle(c) \/ GoHandle(c) \/ JavaHandle(c) \/ NodeHandle(c)

(* All calls have returned and the wire is empty: nothing is left to do.   *)
Finished ==
  /\ \A c \in Calls : phase[c] = "returned" /\ wire[c] = {}
  /\ UNCHANGED vars

Next ==
  \/ \E c \in Calls :
        \/ Begin(c)
        \/ TimeOut(c)
        \/ Handle(c)
        \/ Resume(c)
        \/ Cancel(c)
        \/ \E n \in Attempts, o \in ServerOutcomes : Serve(c, n, o)
        \/ \E o \in ServerOutcomes : Strand(c, o)
  \/ Finished

(***************************************************************************)
(* The client runs: the timers it has fire, its sleeps end and it looks at *)
(* what it got.  The one thing assumed of server and network is that an    *)
(* answer to a Python call, once begun, does not dribble on for ever; they *)
(* may answer late, wrongly or not at all.                                 *)
(***************************************************************************)
Fairness ==
  \A c \in Calls :
    /\ WF_vars(HasTimeout(sdk, op[c]) /\ TimeOut(c))
    /\ WF_vars(Handle(c))
    /\ WF_vars(Resume(c))

Spec == Init /\ [][Next]_vars /\ Fairness

-----------------------------------------------------------------------------
TypeOK ==
  /\ sdk \in Sdks
  /\ op \in [Calls -> Ops \cup {"none"}]
  /\ phase \in [Calls -> {"idle", "waiting", "answered", "backoff", "returned"}]
  /\ attempt \in [Calls -> Attempts]
  /\ reply \in [Calls -> Outcomes \cup {"none"}]
  /\ expired \in [Calls -> BOOLEAN]
  /\ wire \in [Calls -> SUBSET Attempts]
  /\ effects \in [Calls -> SUBSET Attempts]

(***************************************************************************)
(* The calls documented not to be repeated: MQ.Send and purge in Go and    *)
(* Java (go/README.md, java/README.md, js/PARITY.md), the creates these    *)
(* two SDKs send an Idempotency-Key with, console posts that pass          *)
(* retryNever, and every console call of Node.                             *)
(***************************************************************************)
OnceOnly(s, o) ==
  \/ s \in {"go", "java"} /\ o \in {"send", "create", "post"}
  \/ s = "node" /\ o \in ConsoleOps

(* The calls documented to survive 502/503/504: GET, PUT, DELETE and SO    *)
(* upload everywhere except where Node has no loop; in Python everything.  *)
Survives(s, o) ==
  \/ s \in {"python", "aio"}
  \/ s \in {"go", "java"} /\ o \in {"read", "download", "ackread", "delete", "upload"}
  \/ s = "node" /\ o \in {"read", "ackread", "delete", "send", "upload"}

(* A once-only call takes effect at most once, however its attempts were   *)
(* answered: no duplicated message, no second bucket (go/transport.go do,  *)
(* allowsRetry; Transport.java doRequest).                                 *)
NoDuplicateEffect ==
  \A c \in Calls :
    OnceOnly(sdk, op[c]) => \A m, n \in effects[c] : m = n

(* A call that reports success did take effect: no exit of a request loop  *)
(* turns a failed attempt into a result.                                   *)
SuccessIsReal ==
  \A c \in Calls :
    phase[c] = "returned" /\ reply[c] = "success" => effects[c] # {}

(* A once-only call without a key that was refused has not taken effect    *)
(* and never will: the caller may safely send it again.  (A repeated call  *)
(* may be refused because its own earlier attempt went through.)           *)
RefusalIsFinal ==
  \A c \in Calls :
    /\ phase[c] = "returned"
    /\ reply[c] \in Refused
    /\ OnceOnly(sdk, op[c])
    /\ ~Keyed(sdk, op[c])
    => effects[c] = {} /\ wire[c] = {}

(* A documented-retryable call hands a 502/503/504 to its caller only      *)
(* after all MaxRetries + 1 attempts, or when its own deadline has passed. *)
TransientFaultsMasked ==
  \A c \in Calls :
    /\ phase[c] = "returned"
    /\ reply[c] = "gateway"
    /\ Survives(sdk, op[c])
    => attempt[c] = MaxRetries \/ expired[c]

(* Every call whose attempts have a timer for their whole length returns,  *)
(* even from a server that never answers: no path through a request loop   *)
(* is endless (calls that a stalled body can hold, Java's and the          *)
(* downloads, are not among them; see HasTimeout).                         *)
EveryCallReturns ==
  \A c \in Calls :
    (phase[c] # "idle" /\ HasTimeout(sdk, op[c])) ~> (phase[c] = "returned")

-----------------------------------------------------------------------------
(* The refinement: what the caller sees of the loop is a RemoteCall.       *)
CallState(c) ==
  IF phase[c] = "idle" THEN "idle"
  ELSE IF phase[c] # "returned" THEN "pending"
  ELSE IF reply[c] = "success" THEN "succeeded"
  ELSE IF reply[c] \in Refused /\ OnceOnly(sdk, op[c]) /\ ~Keyed(sdk, op[c]) THEN "refused"
  ELSE "failed"

Abstract == INSTANCE RemoteCall WITH
  Tags <- Attempts,
  state <- [c \in Calls |-> CallState(c)],
  once <- [c \in Calls |-> OnceOnly(sdk, op[c])]

(* The request loop implements RemoteCall.                                 *)
ImplementsRemoteCall == Abstract!Spec

=============================================================================
