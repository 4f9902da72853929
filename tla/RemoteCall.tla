----------------------------- MODULE RemoteCall -----------------------------
(***************************************************************************)
(* What one call of the SDK promises its caller, whatever happens on the   *)
(* wire.  Between the start of a call and its end the request may take     *)
(* effect on the server; it may even take effect after the call has        *)
(* returned, because an attempt the client gave up on can still be on its  *)
(* way.  The promises are:                                                 *)
(*   - a call returns successfully only if it took effect;                 *)
(*   - a once-only call takes effect at most once;                         *)
(*   - a once-only call that was refused never takes effect.               *)
(* RequestRetry is the detailed specification that implements this one.    *)
(***************************************************************************)

CONSTANTS
  Calls,     \* the calls the clients make
  Tags       \* names of the effects a call may have on the server

VARIABLES
  state,     \* state[c]: where the caller sees call c
  once,      \* once[c]: the SDK promises at most one effect for call c
  effects    \* effects[c]: the effects call c has had so far

vars == <<state, once, effects>>

States == {"idle", "pending", "succeeded", "failed", "refused"}

Init ==
  /\ state = [c \in Calls |-> "idle"]
  /\ once = [c \in Calls |-> FALSE]
  /\ effects = [c \in Calls |-> {}]

Start(c) ==
  /\ state[c] = "idle"
  /\ state' = [state EXCEPT ![c] = "pending"]
  /\ \E b \in BOOLEAN : once' = [once EXCEPT ![c] = b]
  /\ UNCHANGED effects

Effect(c) ==
  /\ state[c] \notin {"idle", "refused"}
  /\ once[c] => effects[c] = {}
  /\ \E t \in Tags \ effects[c] : effects' = [effects EXCEPT ![c] = @ \cup {t}]
  /\ UNCHANGED <<state, once>>

Succeed(c) ==
  /\ state[c] = "pending"
  /\ effects[c] # {}
  /\ state' = [state EXCEPT ![c] = "succeeded"]
  /\ UNCHANGED <<once, effects>>

Fail(c) ==
  /\ state[c] = "pending"
  /\ state' = [state EXCEPT ![c] = "failed"]
  /\ UNCHANGED <<once, effects>>

Refuse(c) ==
  /\ state[c] = "pending"
  /\ once[c]
  /\ effects[c] = {}
  /\ state' = [state EXCEPT ![c] = "refused"]
  /\ UNCHANGED <<once, effects>>

Next == \E c \in Calls : Start(c) \/ Effect(c) \/ Succeed(c) \/ Fail(c) \/ Refuse(c)

Spec == Init /\ [][Next]_vars

=============================================================================
