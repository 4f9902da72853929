---------------------------- MODULE SecretsProofs ----------------------------
(***************************************************************************)
(* Proofs about Secrets, for every set of programs and keys, every number  *)
(* of attempts, operations and late requests, and values of any length.    *)
(* Three parts: whose values a secret gets (IndInv, CreateOwns); that the  *)
(* codecs give back the values that survive them (CodecReadBack,           *)
(* WrittenReadBack, DocumentReadBack), by induction over the length of a   *)
(* text; and what an edit may leave behind (DocInv, ReadBack).             *)
(***************************************************************************)
EXTENDS Secrets, FiniteSetTheorems, SequenceTheorems, TLAPS

(* The shape of the records, whatever texts the values are.                *)
IsSecret(s) == s = [made |-> s.made, values |-> s.values]

IsOp(o) ==
  o = [st |-> o.st, kind |-> o.kind, n |-> o.n, left |-> o.left, values |-> o.values,
       bad |-> o.bad, merge |-> o.merge, keys |-> o.keys, fmt |-> o.fmt, text |-> o.text,
       base |-> o.base]

OpInv(o) ==
  /\ IsOp(o)
  /\ o.left \in 0..MaxRetries /\ o.n \in 0..calls
  /\ DOMAIN o.values = Fields
  /\ o.st # "idle" => o.n # 0
  /\ o.st \in {"get", "edit"} => o.kind = "edit"

WireInv(r) ==
  /\ r.act \in {"post", "put"} /\ r.n \in 1..calls
  /\ DOMAIN r.values = Fields

TypeInv ==
  /\ calls \in Nat
  /\ IsSecret(secret) /\ secret.made \in (0..calls) \cup {Earlier}
  /\ DOMAIN secret.values = Fields
  /\ secret.made = 0 => secret.values = NoValues
  /\ op = [p \in Programs |-> op[p]]
  /\ \A p \in Programs : OpInv(op[p])
  /\ \A r \in wire : WireInv(r)

(* Whoever is to store values for a create knows that its own POST made    *)
(* the secret: with its first answer it was made, and it stays as made.    *)
OwnInv ==
  /\ \A n \in writers : n = secret.made /\ n # 0
  /\ \A p \in Programs : op[p].st = "put" /\ op[p].kind = "create" => secret.made = op[p].n
  /\ \A r \in wire : r.act = "put" /\ r.kind = "create" => secret.made = r.n

IndInv == TypeInv /\ OwnInv

-----------------------------------------------------------------------------
LEMMA Bounds ==
  /\ MaxRetries \in Nat /\ MaxOps \in Nat /\ 0 \in 0..MaxRetries /\ MaxRetries \in 0..MaxRetries
  /\ Earlier \in Nat /\ Earlier # 0
  BY BoundsAssumption DEF Earlier

LEMMA NoOpFields ==
  /\ IsOp(NoOp) /\ NoOp.left = 0 /\ NoOp.n = 0 /\ NoOp.st = "idle" /\ NoOp.kind = "none"
  /\ DOMAIN NoOp.values = Fields
  <1>1. DOMAIN NoValues = Fields
    BY DEF NoValues
  <1>2. QED
    BY <1>1 DEF NoOp, IsOp

LEMMA InitInd == Init => IndInv
  <1> SUFFICES ASSUME Init PROVE IndInv
    OBVIOUS
  <1>1. op = [p \in Programs |-> NoOp] /\ wire = {} /\ writers = {} /\ calls = 0
    BY DEF Init
  <1>2. op = [p \in Programs |-> op[p]] /\ \A p \in Programs : op[p] = NoOp
    BY <1>1
  <1>3. \A p \in Programs : OpInv(op[p])
    BY <1>1, <1>2, NoOpFields, Bounds DEF OpInv
  <1>4. /\ IsSecret(secret) /\ secret.made \in {0, Earlier}
        /\ DOMAIN secret.values = Fields /\ (secret.made = 0 => secret.values = NoValues)
    <2>1. CASE secret = NoSecret
      BY <2>1 DEF NoSecret, NoValues, IsSecret
    <2>2. CASE secret \in [made : {Earlier}, values : Maps]
      <3>1. secret.made = Earlier /\ secret.values \in Maps /\ IsSecret(secret)
        BY <2>2 DEF IsSecret
      <3>2. DOMAIN secret.values = Fields
        BY <3>1, MapsAssumption
      <3>3. QED
        BY <3>1, <3>2, Bounds
    <2>3. QED
      BY <2>1, <2>2 DEF Init
  <1>5. TypeInv
    BY <1>1, <1>2, <1>3, <1>4 DEF TypeInv
  <1>6. OwnInv
    BY <1>1, <1>2, NoOpFields DEF OwnInv
  <1>7. QED
    BY <1>5, <1>6 DEF IndInv

-----------------------------------------------------------------------------
(* What the service does with a request: it makes the secret at most once, *)
(* and a request that stores values for a create names the maker.          *)
LEMMA PerformKeeps ==
  ASSUME IndInv, NEW r, r.act \in {"post", "put"}, r.n \in 1..calls,
         DOMAIN r.values = Fields,
         r.act = "put" /\ r.kind = "create" => secret.made = r.n,
         Perform(r)
  PROVE  /\ IsSecret(secret') /\ secret'.made \in (0..calls) \cup {Earlier}
         /\ DOMAIN secret'.values = Fields
         /\ secret'.made = 0 => secret'.values = NoValues
         /\ secret.made # 0 => secret'.made = secret.made
         /\ \A n \in writers' : n = secret'.made /\ n # 0
         /\ r.act = "post" /\ Accepted(r) => secret'.made = r.n
  <1>1. /\ IsSecret(secret) /\ secret.made \in (0..calls) \cup {Earlier}
        /\ DOMAIN secret.values = Fields /\ (secret.made = 0 => secret.values = NoValues)
        /\ \A n \in writers : n = secret.made /\ n # 0
    BY DEF IndInv, TypeInv, OwnInv
  <1>2. calls \in Nat
    BY DEF IndInv, TypeInv
  <1>3. CASE Conflict(r) \/ Missing(r)
    <2>1. secret' = secret /\ writers' = writers /\ ~Accepted(r)
      BY <1>3 DEF Perform, Accepted
    <2>2. QED
      BY <1>1, <2>1
  <1>4. CASE ~Conflict(r) /\ ~Missing(r) /\ r.act = "post"
    <2>1. secret' = [secret EXCEPT !.made = r.n] /\ writers' = writers
      BY <1>4 DEF Perform
    <2>2. secret.made = 0
      BY <1>4 DEF Conflict
    <2>3. IsSecret(secret') /\ secret'.made = r.n /\ secret'.values = secret.values
      BY <1>1, <2>1 DEF IsSecret
    <2>4. QED
      BY <1>1, <1>2, <2>1, <2>2, <2>3
  <1>5. CASE ~Conflict(r) /\ ~Missing(r) /\ r.act = "put"
    <2> DEFINE new == IF r.merge THEN Overlaid(secret.values, r.values) ELSE r.values
    <2>1. secret' = [secret EXCEPT !.values = new]
      BY <1>5 DEF Perform
    <2>2. writers' = IF r.kind = "create" THEN writers \cup {r.n} ELSE writers
      BY <1>5 DEF Perform
    <2>3. DOMAIN new = Fields
      BY DEF Overlaid
    <2> HIDE DEF new
    <2>4. IsSecret(secret') /\ secret'.made = secret.made /\ secret'.values = new
      BY <1>1, <2>1 DEF IsSecret
    <2>5. secret.made # 0
      BY <1>5 DEF Missing
    <2>6. QED
      BY <1>1, <1>2, <1>5, <2>2, <2>3, <2>4, <2>5
  <1>6. QED
    BY <1>3, <1>4, <1>5

(* The secret, the requests on their way and the writers after a step, and *)
(* the operation of one program: what there is to show.                    *)
LEMMA OneProgram ==
  ASSUME IndInv, NEW p \in Programs, NEW o, op' = [op EXCEPT ![p] = o],
         calls' \in Nat, calls <= calls',
         IsSecret(secret'), secret'.made \in (0..calls') \cup {Earlier},
         DOMAIN secret'.values = Fields, secret'.made = 0 => secret'.values = NoValues,
         secret.made # 0 => secret'.made = secret.made,
         \A n \in writers' : n = secret'.made /\ n # 0,
         IsOp(o), o.left \in 0..MaxRetries, o.n \in 1..calls', DOMAIN o.values = Fields,
         o.st \in {"get", "edit"} => o.kind = "edit",
         o.st = "put" /\ o.kind = "create" => secret'.made = o.n,
         \A r \in wire' \ wire :
           /\ r.act \in {"post", "put"} /\ r.n \in 1..calls /\ DOMAIN r.values = Fields
           /\ r.act = "put" /\ r.kind = "create" => secret.made = r.n
  PROVE  IndInv'
  <1>1. calls \in Nat /\ op = [q \in Programs |-> op[q]]
    BY DEF IndInv, TypeInv
  <1>2. op'[p] = o /\ (\A q \in Programs \ {p} : op'[q] = op[q])
        /\ op' = [q \in Programs |-> op'[q]]
    BY <1>1
  <1>3. \A q \in Programs : OpInv(op[q])
    BY DEF IndInv, TypeInv
  <1>4. \A q \in Programs : OpInv(op[q])'
    <2>1. OpInv(op[p])'
      BY <1>2 DEF OpInv
    <2>2. \A q \in Programs \ {p} : OpInv(op[q])'
      BY <1>1, <1>2, <1>3 DEF OpInv
    <2>3. QED
      BY <2>1, <2>2
  <1>5. \A r \in wire' : WireInv(r)'
    BY <1>1 DEF IndInv, TypeInv, WireInv
  <1>6. TypeInv'
    BY <1>2, <1>4, <1>5 DEF TypeInv
  <1>7. \A q \in Programs : op'[q].st = "put" /\ op'[q].kind = "create" => secret'.made = op'[q].n
    <2>1. ASSUME NEW q \in Programs, q # p, op[q].st = "put", op[q].kind = "create"
          PROVE  secret'.made = op[q].n
      <3>1. secret.made = op[q].n /\ op[q].n # 0
        BY <1>3, <2>1 DEF IndInv, OwnInv, OpInv
      <3>2. QED
        BY <3>1
    <2>2. QED
      BY <1>2, <2>1
  <1>8. \A r \in wire' : r.act = "put" /\ r.kind = "create" => secret'.made = r.n
    <2>1. ASSUME NEW r \in wire', r.act = "put", r.kind = "create"
          PROVE  secret.made = r.n /\ r.n # 0
      <3>1. CASE r \in wire
        BY <2>1, <3>1, <1>1 DEF IndInv, OwnInv, TypeInv, WireInv
      <3>2. CASE r \notin wire
        BY <2>1, <3>2, <1>1
      <3>3. QED
        BY <3>1, <3>2
    <2>2. QED
      BY <2>1
  <1>9. OwnInv'
    BY <1>7, <1>8 DEF OwnInv
  <1>10. QED
    BY <1>6, <1>9 DEF IndInv

(* A step that leaves the secret and the requests alone.                   *)
LEMMA OneProgramOnly ==
  ASSUME IndInv, NEW p \in Programs, NEW o, op' = [op EXCEPT ![p] = o],
         calls' \in Nat, calls <= calls', UNCHANGED <<secret, wire, writers>>,
         IsOp(o), o.left \in 0..MaxRetries, o.n \in 1..calls', DOMAIN o.values = Fields,
         o.st \in {"get", "edit"} => o.kind = "edit",
         o.st = "put" => o.kind # "create" \/ secret.made = o.n
  PROVE  IndInv'
  <1>1. /\ IsSecret(secret') /\ secret'.made \in (0..calls') \cup {Earlier}
        /\ DOMAIN secret'.values = Fields /\ (secret'.made = 0 => secret'.values = NoValues)
    BY DEF IndInv, TypeInv
  <1>2. \A n \in writers' : n = secret'.made /\ n # 0
    BY DEF IndInv, OwnInv
  <1>3. QED
    BY <1>1, <1>2, OneProgram
-----------------------------------------------------------------------------
LEMMA OpFields ==
  ASSUME IndInv, NEW p \in Programs
  PROVE  /\ IsOp(op[p]) /\ op[p].left \in 0..MaxRetries /\ op[p].n \in 0..calls
         /\ DOMAIN op[p].values = Fields /\ calls \in Nat
         /\ op[p].st # "idle" => op[p].n \in 1..calls
         /\ op[p].st \in {"get", "edit"} => op[p].kind = "edit"
         /\ op[p].st = "put" /\ op[p].kind = "create" => secret.made = op[p].n
  <1>1. OpInv(op[p]) /\ calls \in Nat
    BY DEF IndInv, TypeInv
  <1>2. op[p].st = "put" /\ op[p].kind = "create" => secret.made = op[p].n
    BY DEF IndInv, OwnInv
  <1>3. QED
    BY <1>1, <1>2 DEF OpInv

(* An operation that goes on to another state.                             *)
LEMMA StateFields ==
  ASSUME IndInv, NEW p \in Programs, NEW st
  PROVE  /\ IsOp([op[p] EXCEPT !.st = st])
         /\ [op[p] EXCEPT !.st = st].left = op[p].left
         /\ [op[p] EXCEPT !.st = st].n = op[p].n
         /\ [op[p] EXCEPT !.st = st].values = op[p].values
         /\ [op[p] EXCEPT !.st = st].kind = op[p].kind
         /\ [op[p] EXCEPT !.st = st].st = st
  <1>1. IsOp(op[p])
    BY OpFields
  <1>2. PICK o : o = [op[p] EXCEPT !.st = st]
    OBVIOUS
  <1>3. /\ IsOp(o) /\ o.left = op[p].left /\ o.n = op[p].n
        /\ o.values = op[p].values /\ o.kind = op[p].kind /\ o.st = st
    BY <1>1, <1>2 DEF IsOp
  <1>4. QED
    BY <1>2, <1>3

LEMMA MapFields == \A map \in Maps : DOMAIN map = Fields
  BY MapsAssumption

LEMMA BeginKeeps ==
  ASSUME IndInv, NEW p \in Programs, NEW o, IsOp(o), DOMAIN o.values = Fields,
         o.st \in {"get", "edit"} => o.kind = "edit",
         o.st = "put" => o.kind # "create", Begin(p, o)
  PROVE  IndInv'
  <1>1. calls \in Nat
    BY DEF IndInv, TypeInv
  <1>2. PICK new : new = [o EXCEPT !.n = calls + 1, !.left = MaxRetries]
    OBVIOUS
  <1>3. calls' = calls + 1 /\ op' = [op EXCEPT ![p] = new] /\ UNCHANGED <<secret, wire, writers>>
    BY <1>2 DEF Begin
  <1>4. IsOp(o)
    OBVIOUS
  <1>5. /\ IsOp(new) /\ new.left = MaxRetries /\ new.n = calls + 1 /\ new.values = o.values
        /\ new.st = o.st /\ new.kind = o.kind
    BY <1>2, <1>4 DEF IsOp
  <1>6. /\ new.left \in 0..MaxRetries /\ new.n \in 1..calls'
        /\ calls' \in Nat /\ calls <= calls'
    BY <1>1, <1>3, <1>5, Bounds
  <1>7. QED
    BY <1>3, <1>5, <1>6, OneProgramOnly

LEMMA CallsKeep ==
  ASSUME IndInv, NEW p \in Programs,
         \/ \E values \in Maps, bad \in BOOLEAN : BeginCreate(p, values, bad)
         \/ \E values \in Maps, merge \in BOOLEAN : BeginPut(p, values, merge)
         \/ \E keys \in SUBSET Fields \ {{}}, fmt \in {"env", "yaml"}, merge \in BOOLEAN :
              BeginEdit(p, keys, fmt, merge)
  PROVE  IndInv'
  <1>1. ASSUME NEW values \in Maps, NEW bad \in BOOLEAN, BeginCreate(p, values, bad)
        PROVE  IndInv'
    <2>1. PICK o : o = [NoOp EXCEPT !.st = "post", !.kind = "create", !.values = values, !.bad = bad]
      OBVIOUS
    <2>2. IsOp(o) /\ o.values = values /\ o.st = "post"
      BY <2>1, NoOpFields DEF IsOp
    <2>3. Begin(p, o)
      BY <1>1, <2>1 DEF BeginCreate
    <2>4. QED
      BY <2>2, <2>3, MapFields, BeginKeeps
  <1>2. ASSUME NEW values \in Maps, NEW merge \in BOOLEAN, BeginPut(p, values, merge)
        PROVE  IndInv'
    <2>1. PICK o : o = [NoOp EXCEPT !.st = "put", !.kind = "put", !.values = values, !.merge = merge]
      OBVIOUS
    <2>2. IsOp(o) /\ o.values = values /\ o.st = "put" /\ o.kind = "put"
      BY <2>1, NoOpFields DEF IsOp
    <2>3. Begin(p, o)
      BY <1>2, <2>1 DEF BeginPut
    <2>4. QED
      BY <2>2, <2>3, MapFields, BeginKeeps
  <1>3. ASSUME NEW keys \in SUBSET Fields \ {{}}, NEW fmt \in {"env", "yaml"},
               NEW merge \in BOOLEAN, BeginEdit(p, keys, fmt, merge)
        PROVE  IndInv'
    <2>1. PICK o : o = [NoOp EXCEPT !.st = "get", !.kind = "edit", !.keys = keys, !.fmt = fmt,
                                    !.merge = merge]
      OBVIOUS
    <2>2. IsOp(o) /\ o.values = NoOp.values /\ o.st = "get" /\ o.kind = "edit"
      BY <2>1, NoOpFields DEF IsOp
    <2>3. Begin(p, o)
      BY <1>3, <2>1 DEF BeginEdit
    <2>4. QED
      BY <2>2, <2>3, NoOpFields, BeginKeeps
  <1>4. QED
    BY <1>1, <1>2, <1>3

-----------------------------------------------------------------------------
(* A request of a program is one PerformKeeps is about.                    *)
LEMMA RequestFields ==
  ASSUME IndInv, NEW p \in Programs, At(p, "post") \/ At(p, "put")
  PROVE  /\ Request(p).act \in {"post", "put"} /\ Request(p).n \in 1..calls
         /\ DOMAIN Request(p).values = Fields
         /\ Request(p).act = "put" /\ Request(p).kind = "create" => secret.made = Request(p).n
         /\ Request(p).act = op[p].st /\ Request(p).n = op[p].n
  BY OpFields DEF Request, At

LEMMA RepeatedFields ==
  ASSUME IndInv, NEW p \in Programs
  PROVE  /\ IsOp(Repeated(op[p])) /\ Repeated(op[p]).left \in 0..MaxRetries
         /\ Repeated(op[p]).n = op[p].n /\ Repeated(op[p]).values = op[p].values
         /\ Repeated(op[p]).kind = op[p].kind /\ Repeated(op[p]).st \in {op[p].st, "failed"}
  <1>1. CASE op[p].left > 0
    <2>1. Repeated(op[p]) = [op[p] EXCEPT !.left = op[p].left - 1]
      BY <1>1 DEF Repeated
    <2>2. op[p].left - 1 \in 0..MaxRetries
      BY <1>1, OpFields, Bounds
    <2>3. QED
      BY <2>1, <2>2, OpFields DEF IsOp
  <1>2. CASE ~(op[p].left > 0)
    <2>1. Repeated(op[p]) = [op[p] EXCEPT !.st = "failed"]
      BY <1>2 DEF Repeated
    <2>2. QED
      BY <2>1, OpFields DEF IsOp
  <1>3. QED
    BY <1>1, <1>2

LEMMA AfterPostFields ==
  ASSUME IndInv, NEW p \in Programs
  PROVE  /\ IsOp(AfterPost(op[p])) /\ AfterPost(op[p]).left \in 0..MaxRetries
         /\ AfterPost(op[p]).n = op[p].n /\ AfterPost(op[p]).values = op[p].values
         /\ AfterPost(op[p]).kind = op[p].kind
         /\ AfterPost(op[p]).st \in {"failed", "done", "put"}
  <1>1. CASE op[p].bad
    <2>1. AfterPost(op[p]) = [op[p] EXCEPT !.st = "failed"]
      BY <1>1 DEF AfterPost
    <2>2. QED
      BY <2>1, OpFields DEF IsOp
  <1>2. CASE ~op[p].bad /\ op[p].values = NoValues
    <2>1. AfterPost(op[p]) = [op[p] EXCEPT !.st = "done"]
      BY <1>2 DEF AfterPost
    <2>2. QED
      BY <2>1, OpFields DEF IsOp
  <1>3. CASE ~op[p].bad /\ op[p].values # NoValues
    <2>1. AfterPost(op[p]) = [op[p] EXCEPT !.st = "put", !.left = MaxRetries]
      BY <1>3 DEF AfterPost
    <2>2. QED
      BY <2>1, OpFields, Bounds DEF IsOp
  <1>4. QED
    BY <1>1, <1>2, <1>3

LEMMA AnsweredKeeps ==
  ASSUME IndInv, NEW p \in Programs, Answered(p)
  PROVE  IndInv'
  <1> DEFINE r == Request(p)
             o == IF ~Accepted(r) THEN [op[p] EXCEPT !.st = "failed"]
                  ELSE IF At(p, "post") THEN AfterPost(op[p])
                  ELSE [op[p] EXCEPT !.st = "done"]
  <1>1. /\ At(p, "post") \/ At(p, "put")
        /\ Perform(r) /\ wire' = wire /\ calls' = calls
    BY DEF Answered
  <1>2. op' = [op EXCEPT ![p] = o]
    BY DEF Answered
  <1>3. /\ r.act \in {"post", "put"} /\ r.n \in 1..calls /\ DOMAIN r.values = Fields
        /\ r.act = "put" /\ r.kind = "create" => secret.made = r.n
        /\ r.act = op[p].st /\ r.n = op[p].n
    BY <1>1, RequestFields
  <1> HIDE DEF r
  <1>4. /\ IsSecret(secret') /\ secret'.made \in (0..calls) \cup {Earlier}
        /\ DOMAIN secret'.values = Fields
        /\ secret'.made = 0 => secret'.values = NoValues
        /\ secret.made # 0 => secret'.made = secret.made
        /\ \A n \in writers' : n = secret'.made /\ n # 0
        /\ r.act = "post" /\ Accepted(r) => secret'.made = r.n
    BY <1>1, <1>3, PerformKeeps
  <1>5. /\ IsOp(o) /\ o.left \in 0..MaxRetries /\ o.n = op[p].n /\ o.values = op[p].values
        /\ o.kind = op[p].kind /\ o.st \notin {"get", "edit"}
        /\ o.st = "put" => Accepted(r) /\ At(p, "post")
    <2>1. CASE ~Accepted(r)
      <3>1. o = [op[p] EXCEPT !.st = "failed"]
        BY <2>1
      <3> HIDE DEF o
      <3>2. QED
        BY <3>1, StateFields, OpFields
    <2>2. CASE Accepted(r) /\ At(p, "post")
      <3>1. o = AfterPost(op[p])
        BY <2>2
      <3> HIDE DEF o
      <3>2. QED
        BY <2>2, <3>1, AfterPostFields
    <2>3. CASE Accepted(r) /\ ~At(p, "post")
      <3>1. o = [op[p] EXCEPT !.st = "done"]
        BY <2>3
      <3> HIDE DEF o
      <3>2. QED
        BY <3>1, StateFields, OpFields
    <2>4. QED
      BY <2>1, <2>2, <2>3
  <1> HIDE DEF o
  <1>6. /\ o.n \in 1..calls' /\ DOMAIN o.values = Fields
        /\ calls' \in Nat /\ calls <= calls' /\ wire' \ wire = {}
    BY <1>1, <1>3, <1>5, OpFields
  <1>7. o.st = "put" /\ o.kind = "create" => secret'.made = o.n
    BY <1>3, <1>4, <1>5 DEF At
  <1>8. secret'.made \in (0..calls') \cup {Earlier}
    BY <1>1, <1>4
  <1>9. QED
    BY <1>2, <1>4, <1>5, <1>6, <1>7, <1>8, OneProgram

LEMMA UnansweredKeeps ==
  ASSUME IndInv, NEW p \in Programs, Unanswered(p)
  PROVE  IndInv'
  <1> DEFINE r == Request(p)
             o == Repeated(op[p])
  <1>1. (At(p, "post") \/ At(p, "put")) /\ calls' = calls /\ op' = [op EXCEPT ![p] = o]
    BY DEF Unanswered
  <1>2. /\ r.act \in {"post", "put"} /\ r.n \in 1..calls /\ DOMAIN r.values = Fields
        /\ r.act = "put" /\ r.kind = "create" => secret.made = r.n
        /\ r.act = op[p].st /\ r.n = op[p].n
    BY <1>1, RequestFields
  <1>3. /\ IsOp(o) /\ o.left \in 0..MaxRetries /\ o.n = op[p].n /\ o.values = op[p].values
        /\ o.kind = op[p].kind /\ o.st \in {op[p].st, "failed"}
    BY RepeatedFields
  <1>4. \/ Perform(r) /\ wire' = wire
        \/ UNCHANGED <<secret, writers>> /\ wire' \in {wire, wire \cup {r}}
    BY DEF Unanswered
  <1> HIDE DEF r, o
  <1>5. /\ o.n \in 1..calls' /\ DOMAIN o.values = Fields
        /\ calls' \in Nat /\ calls <= calls' /\ o.n # 0
        /\ o.st \notin {"get", "edit"}
        /\ o.st = "put" /\ o.kind = "create" => secret.made = o.n
    BY <1>1, <1>2, <1>3, OpFields DEF At
  <1>6. CASE Perform(r) /\ wire' = wire
    <2>1. /\ IsSecret(secret') /\ secret'.made \in (0..calls) \cup {Earlier}
          /\ DOMAIN secret'.values = Fields
          /\ secret'.made = 0 => secret'.values = NoValues
          /\ secret.made # 0 => secret'.made = secret.made
          /\ \A n \in writers' : n = secret'.made /\ n # 0
      BY <1>2, <1>6, PerformKeeps
    <2>2. secret'.made \in (0..calls') \cup {Earlier} /\ wire' \ wire = {}
      BY <1>1, <1>6, <2>1
    <2>3. o.st = "put" /\ o.kind = "create" => secret'.made = o.n
      BY <1>5, <2>1
    <2>4. QED
      BY <1>1, <1>3, <1>5, <2>1, <2>2, <2>3, OneProgram
  <1>7. CASE UNCHANGED <<secret, writers>> /\ wire' \in {wire, wire \cup {r}}
    <2>1. /\ IsSecret(secret') /\ secret'.made \in (0..calls) \cup {Earlier}
          /\ DOMAIN secret'.values = Fields
          /\ secret'.made = 0 => secret'.values = NoValues
          /\ \A n \in writers' : n = secret'.made /\ n # 0
      BY <1>7 DEF IndInv, TypeInv, OwnInv
    <2>2. secret'.made \in (0..calls') \cup {Earlier} /\ secret' = secret
      BY <1>1, <1>7, <2>1
    <2>3. \A x \in wire' \ wire : x = r
      BY <1>7
    <2>4. \A x \in wire' \ wire :
            /\ x.act \in {"post", "put"} /\ x.n \in 1..calls /\ DOMAIN x.values = Fields
            /\ x.act = "put" /\ x.kind = "create" => secret.made = x.n
      BY <1>2, <2>3
    <2>5. QED
      BY <1>1, <1>3, <1>5, <2>1, <2>2, <2>4, OneProgram
  <1>8. QED
    BY <1>4, <1>6, <1>7

LEMMA LateKeeps ==
  ASSUME IndInv, NEW r \in wire, Late(r)
  PROVE  IndInv'
  <1>1. op' = op /\ calls' = calls /\ wire' = wire \ {r} /\ Perform(r)
    BY DEF Late
  <1>2. /\ r.act \in {"post", "put"} /\ r.n \in 1..calls /\ DOMAIN r.values = Fields
        /\ r.act = "put" /\ r.kind = "create" => secret.made = r.n
    BY DEF IndInv, TypeInv, WireInv, OwnInv
  <1>3. /\ IsSecret(secret') /\ secret'.made \in (0..calls) \cup {Earlier}
        /\ DOMAIN secret'.values = Fields
        /\ secret'.made = 0 => secret'.values = NoValues
        /\ secret.made # 0 => secret'.made = secret.made
        /\ \A n \in writers' : n = secret'.made /\ n # 0
    BY <1>1, <1>2, PerformKeeps
  <1>4. TypeInv'
    BY <1>1, <1>3 DEF IndInv, TypeInv, OpInv, WireInv
  <1>5. ASSUME NEW q \in Programs, op[q].st = "put", op[q].kind = "create"
        PROVE  secret'.made = op[q].n
    BY <1>3, <1>5, OpFields
  <1>6. ASSUME NEW s \in wire, s.act = "put", s.kind = "create"
        PROVE  secret'.made = s.n
    <2>1. secret.made = s.n /\ s.n \in 1..calls /\ calls \in Nat
      BY <1>6 DEF IndInv, OwnInv, TypeInv, WireInv
    <2>2. QED
      BY <1>3, <2>1
  <1>7. OwnInv'
    BY <1>1, <1>3, <1>5, <1>6 DEF OwnInv
  <1>8. QED
    BY <1>4, <1>7 DEF IndInv

LEMMA FailureKeeps ==
  ASSUME IndInv, NEW p \in Programs, op[p].st # "idle",
         op' = [op EXCEPT ![p] = [op[p] EXCEPT !.st = "failed"]],
         UNCHANGED <<calls, secret, wire, writers>>
  PROVE  IndInv'
  <1>1. PICK o : o = [op[p] EXCEPT !.st = "failed"]
    OBVIOUS
  <1>2. /\ IsOp(o) /\ o.left = op[p].left /\ o.n = op[p].n
        /\ o.values = op[p].values /\ o.st = "failed"
    BY <1>1, StateFields
  <1>3. op' = [op EXCEPT ![p] = o]
    BY <1>1
  <1>4. o.n \in 1..calls' /\ calls' \in Nat /\ calls <= calls' /\ DOMAIN o.values = Fields
        /\ o.left \in 0..MaxRetries
    BY <1>2, OpFields
  <1>5. QED
    BY <1>2, <1>3, <1>4, OneProgramOnly

(* Reading, and turning what was read into values to store.                *)
LEMMA ReadingKeeps ==
  ASSUME IndInv, NEW p \in Programs, Get(p) \/ GetFails(p) \/ PutBack(p)
  PROVE  IndInv'
  <1>1. op[p].st # "idle" /\ op[p].n \in 1..calls /\ calls \in Nat
    BY OpFields DEF Get, GetFails, PutBack, At
  <1>2. CASE Get(p)
    <2> DEFINE read == [f \in Fields |-> IF f \in op[p].keys THEN secret.values[f] ELSE None]
    <2>1. PICK o : o = [op[p] EXCEPT !.st = "edit", !.base = secret.values,
                                     !.text = Serialized(op[p].fmt, read)]
      OBVIOUS
    <2>2. op' = [op EXCEPT ![p] = o] /\ calls' = calls /\ UNCHANGED <<secret, wire, writers>>
      BY <1>2, <2>1 DEF Get
    <2>3. IsOp(op[p])
      BY OpFields
    <2>4. /\ IsOp(o) /\ o.left = op[p].left /\ o.n = op[p].n /\ o.values = op[p].values
          /\ o.st = "edit" /\ o.kind = op[p].kind
      BY <2>1, <2>3 DEF IsOp
    <2>5. /\ o.kind = "edit" /\ o.left \in 0..MaxRetries /\ o.n \in 1..calls'
          /\ calls' \in Nat /\ calls <= calls' /\ DOMAIN o.values = Fields
      BY <1>1, <1>2, <2>2, <2>4, OpFields DEF Get, At
    <2>6. QED
      BY <2>2, <2>4, <2>5, OneProgramOnly
  <1>3. CASE GetFails(p)
    BY <1>1, <1>3, FailureKeeps DEF GetFails
  <1>4. CASE PutBack(p) /\ (Broken(op[p].fmt, op[p].text) \/ Given(op[p].text) = {})
    BY <1>1, <1>4, FailureKeeps DEF PutBack
  <1>5. CASE PutBack(p) /\ ~(Broken(op[p].fmt, op[p].text) \/ Given(op[p].text) = {})
    <2>1. PICK o : o = [op[p] EXCEPT !.st = "put", !.values = Parsed(op[p].fmt, op[p].text),
                                     !.left = MaxRetries]
      OBVIOUS
    <2>2. op' = [op EXCEPT ![p] = o] /\ calls' = calls /\ UNCHANGED <<secret, wire, writers>>
      BY <1>5, <2>1 DEF PutBack
    <2>3. DOMAIN Parsed(op[p].fmt, op[p].text) = Fields
      BY DEF Parsed
    <2>4. IsOp(op[p])
      BY OpFields
    <2>5. /\ IsOp(o) /\ o.left = MaxRetries /\ o.n = op[p].n /\ o.kind = op[p].kind
          /\ o.values = Parsed(op[p].fmt, op[p].text) /\ o.st = "put"
      BY <2>1, <2>4 DEF IsOp
    <2>6. op[p].kind = "edit"
      BY <1>5, OpFields DEF PutBack, At
    <2>7. /\ o.left \in 0..MaxRetries /\ o.n \in 1..calls'
          /\ calls' \in Nat /\ calls <= calls' /\ DOMAIN o.values = Fields
      BY <1>1, <2>2, <2>3, <2>5, Bounds
    <2>8. QED
      BY <2>2, <2>5, <2>6, <2>7, OneProgramOnly
  <1>6. QED
    BY <1>2, <1>3, <1>4, <1>5

-----------------------------------------------------------------------------
LEMMA StepInd == IndInv /\ [Next]_vars => IndInv'
  <1> SUFFICES ASSUME IndInv, [Next]_vars PROVE IndInv'
    OBVIOUS
  <1>1. ASSUME NEW p \in Programs,
               \/ \E values \in Maps, bad \in BOOLEAN : BeginCreate(p, values, bad)
               \/ \E values \in Maps, merge \in BOOLEAN : BeginPut(p, values, merge)
               \/ \E keys \in SUBSET Fields \ {{}}, fmt \in {"env", "yaml"}, merge \in BOOLEAN :
                    BeginEdit(p, keys, fmt, merge)
        PROVE  IndInv'
    BY <1>1, CallsKeep
  <1>2. ASSUME NEW p \in Programs, Answered(p) PROVE IndInv'
    BY <1>2, AnsweredKeeps
  <1>3. ASSUME NEW p \in Programs, Unanswered(p) PROVE IndInv'
    BY <1>3, UnansweredKeeps
  <1>4. ASSUME NEW p \in Programs, Get(p) \/ GetFails(p) \/ PutBack(p) PROVE IndInv'
    BY <1>4, ReadingKeeps
  <1>5. ASSUME NEW r \in wire, Late(r) PROVE IndInv'
    BY <1>5, LateKeeps
  <1>6. CASE UNCHANGED vars
    <2>1. /\ secret' = secret /\ op' = op /\ wire' = wire /\ calls' = calls
          /\ writers' = writers
      BY <1>6 DEF vars
    <2>2. TypeInv'
      BY <2>1 DEF IndInv, TypeInv, OpInv, WireInv
    <2>3. OwnInv'
      BY <2>1 DEF IndInv, OwnInv
    <2>4. QED
      BY <2>2, <2>3 DEF IndInv
  <1>7. QED
    BY <1>1, <1>2, <1>3, <1>4, <1>5, <1>6 DEF Next, Finished

LEMMA Invariance == Spec => []IndInv
  BY InitInd, StepInd, PTL DEF Spec

-----------------------------------------------------------------------------
(***************************************************************************)
(* The codecs.  Induction over a text is induction over its length: a set  *)
(* of numbers that misses one misses a least one.                          *)
(***************************************************************************)
LEMMA LeastNumber ==
  ASSUME NEW S \in SUBSET Nat, S # {}
  PROVE  \E m \in S : \A n \in S : m <= n
  <1> DEFINE R == {ss \in Nat \X Nat : ss[1] < ss[2]}
  <1>1. IsWellFoundedOn(R, Nat)
    BY NatLessThanWellFounded DEF OpToRel
  <1> HIDE DEF R
  <1>2. PICK m \in S : \A n \in S : ~(<<n, m>> \in R)
    BY <1>1, WFMin
  <1>3. \A n \in S : ~(n < m)
    BY <1>2 DEF R
  <1>4. QED
    BY <1>3

(* A set of numbers that has 0, and with each number the next, has them    *)
(* all.                                                                    *)
LEMMA ByNumbers ==
  ASSUME NEW S, 0 \in S, \A n \in Nat : n \in S => n + 1 \in S
  PROVE  \A n \in Nat : n \in S
  <1> DEFINE U == {n \in Nat : n \notin S}
  <1>1. SUFFICES ASSUME U # {} PROVE FALSE
    OBVIOUS
  <1>2. PICK m \in U : \A n \in U : m <= n
    BY <1>1, LeastNumber
  <1>3. m - 1 \in Nat /\ (m - 1) + 1 = m
    BY <1>2
  <1>4. m - 1 \notin U
    BY <1>2, <1>3
  <1>5. QED
    BY <1>2, <1>3, <1>4

(* The recursive function of FlattenSeq, on the first n elements.          *)
Joins(s, n, f) == f = [i \in 1..n |-> IF i = 1 THEN s[i] ELSE f[i-1] \o s[i]]

LEMMA JoinsValues ==
  ASSUME NEW s, NEW n \in Nat, NEW f, Joins(s, n, f), NEW i \in 1..n
  PROVE  f[i] = IF i = 1 THEN s[i] ELSE f[i-1] \o s[i]
  <1>1. PICK g : g = [j \in 1..n |-> IF j = 1 THEN s[j] ELSE f[j-1] \o s[j]]
    OBVIOUS
  <1>2. f = g
    BY <1>1 DEF Joins
  <1>3. g[i] = IF i = 1 THEN s[i] ELSE f[i-1] \o s[i]
    BY <1>1
  <1>4. QED
    BY <1>2, <1>3

LEMMA JoinsExist ==
  ASSUME NEW s, NEW n \in Nat
  PROVE  \E f : Joins(s, n, f)
  <1> DEFINE S == {m \in Nat : \E f : Joins(s, m, f)}
  <1>1. 0 \in S
    <2>1. Joins(s, 0, [i \in 1..0 |-> <<>>])
      BY DEF Joins
    <2>2. QED
      BY <2>1
  <1>2. ASSUME NEW m \in Nat, m \in S PROVE m + 1 \in S
    <2>1. PICK g : Joins(s, m, g)
      BY <1>2
    <2>2. PICK f : f = [i \in 1..(m + 1) |-> IF i = 1 THEN s[i] ELSE g[i-1] \o s[i]]
      OBVIOUS
    <2>3. \A i \in 1..m : f[i] = g[i]
      <3>1. ASSUME NEW i \in 1..m PROVE f[i] = g[i]
        <4>1. g[i] = IF i = 1 THEN s[i] ELSE g[i-1] \o s[i]
          BY <2>1, JoinsValues
        <4>2. i \in 1..(m + 1)
          OBVIOUS
        <4>3. QED
          BY <2>2, <4>1, <4>2
      <3>2. QED
        BY <3>1
    <2>4. ASSUME NEW i \in 1..(m + 1), i # 1 PROVE g[i-1] = f[i-1]
      <3>1. i - 1 \in 1..m
        BY <2>4
      <3>2. QED
        BY <2>3, <3>1
    <2>5. [i \in 1..(m + 1) |-> IF i = 1 THEN s[i] ELSE g[i-1] \o s[i]]
            = [i \in 1..(m + 1) |-> IF i = 1 THEN s[i] ELSE f[i-1] \o s[i]]
      BY <2>4
    <2>6. Joins(s, m + 1, f)
      BY <2>2, <2>5 DEF Joins
    <2>7. QED
      BY <2>6
  <1> HIDE DEF S
  <1>3. n \in S
    BY <1>1, <1>2, ByNumbers
  <1>4. QED
    BY <1>3 DEF S

LEMMA JoinsAgree ==
  ASSUME NEW s, NEW t, NEW n \in Nat, NEW m \in Nat, n <= m, \A i \in 1..n : s[i] = t[i],
         NEW f, Joins(s, n, f), NEW g, Joins(t, m, g)
  PROVE  \A i \in 1..n : f[i] = g[i]
  <1> DEFINE S == {i \in Nat : i \in 1..n => f[i] = g[i]}
  <1>1. 0 \in S
    OBVIOUS
  <1>2. ASSUME NEW i \in Nat, i \in S PROVE i + 1 \in S
    <2>1. SUFFICES ASSUME i + 1 \in 1..n PROVE f[i + 1] = g[i + 1]
      OBVIOUS
    <2>2. /\ f[i + 1] = IF i + 1 = 1 THEN s[i + 1] ELSE f[(i + 1) - 1] \o s[i + 1]
          /\ g[i + 1] = IF i + 1 = 1 THEN t[i + 1] ELSE g[(i + 1) - 1] \o t[i + 1]
      <3>1. i + 1 \in 1..n /\ i + 1 \in 1..m
        BY <2>1
      <3>2. QED
        BY <3>1, JoinsValues
    <2>3. (i + 1) - 1 = i /\ (i + 1 # 1 => f[i] = g[i]) /\ s[i + 1] = t[i + 1]
      BY <1>2, <2>1
    <2>4. QED
      BY <2>2, <2>3
  <1> HIDE DEF S
  <1>3. \A i \in Nat : i \in S
    BY <1>1, <1>2, ByNumbers
  <1>4. QED
    BY <1>3 DEF S

LEMMA FlattenIs ==
  ASSUME NEW s, Len(s) \in Nat, Len(s) # 0
  PROVE  \E f : Joins(s, Len(s), f) /\ FlattenSeq(s) = f[Len(s)]
  <1> DEFINE F == CHOOSE f : Joins(s, Len(s), f)
  <1>1. Joins(s, Len(s), F)
    BY JoinsExist
  <1>2. FlattenSeq(s) = F[Len(s)]
    BY DEF FlattenSeq, Joins
  <1>3. QED
    BY <1>1, <1>2

LEMMA FlattenNothing == FlattenSeq(<<>>) = <<>>
  BY DEF FlattenSeq

LEMMA FlattenType ==
  ASSUME NEW X, NEW s \in Seq(Seq(X))
  PROVE  FlattenSeq(s) \in Seq(X)
  <1>1. Len(s) \in Nat
    OBVIOUS
  <1>2. CASE Len(s) = 0
    <2>1. s = <<>>
      BY <1>2, EmptySeq
    <2>2. <<>> \in Seq(X)
      BY EmptySeq
    <2>3. QED
      BY <2>1, <2>2, FlattenNothing
  <1>3. CASE Len(s) # 0
    <2>1. PICK f : Joins(s, Len(s), f) /\ FlattenSeq(s) = f[Len(s)]
      BY <1>1, <1>3, FlattenIs
    <2> DEFINE S == {i \in Nat : i \in 1..Len(s) => f[i] \in Seq(X)}
    <2>2. 0 \in S
      OBVIOUS
    <2>3. ASSUME NEW i \in Nat, i \in S PROVE i + 1 \in S
      <3>1. SUFFICES ASSUME i + 1 \in 1..Len(s) PROVE f[i + 1] \in Seq(X)
        OBVIOUS
      <3>2. f[i + 1] = IF i + 1 = 1 THEN s[i + 1] ELSE f[(i + 1) - 1] \o s[i + 1]
        BY <1>1, <2>1, <3>1, JoinsValues
      <3>3. (i + 1) - 1 = i /\ (i + 1 # 1 => f[i] \in Seq(X))
        BY <2>3, <3>1
      <3>4. s[i + 1] \in Seq(X)
        BY <3>1, ElementOfSeq
      <3>5. i + 1 # 1 => f[i] \o s[i + 1] \in Seq(X)
        BY <3>3, <3>4, ConcatProperties
      <3>6. QED
        BY <3>2, <3>3, <3>4, <3>5
    <2> HIDE DEF S
    <2>4. Len(s) \in S
      BY <1>1, <2>2, <2>3, ByNumbers
    <2>5. Len(s) \in 1..Len(s)
      BY <1>1, <1>3
    <2>6. QED
      BY <2>1, <2>4, <2>5 DEF S
  <1>4. QED
    BY <1>2, <1>3

LEMMA FlattenAppend ==
  ASSUME NEW X, NEW s \in Seq(Seq(X)), NEW x \in Seq(X)
  PROVE  FlattenSeq(Append(s, x)) = FlattenSeq(s) \o x
  <1>1. PICK t : t = Append(s, x)
    OBVIOUS
  <1>2. PICK n : n = Len(s)
    OBVIOUS
  <1>3. n \in Nat /\ Len(t) = n + 1 /\ t[n + 1] = x /\ \A i \in 1..n : s[i] = t[i]
    BY <1>1, <1>2, AppendProperties
  <1>4. PICK f : Joins(t, n + 1, f) /\ FlattenSeq(t) = f[n + 1]
    <2>1. Len(t) \in Nat /\ Len(t) # 0
      BY <1>3
    <2>2. QED
      BY <1>3, <2>1, FlattenIs
  <1>5. n + 1 \in Nat /\ n + 1 \in 1..(n + 1) /\ (n + 1) - 1 = n /\ n <= n + 1
    BY <1>3
  <1>6. f[n + 1] = IF n + 1 = 1 THEN t[n + 1] ELSE f[(n + 1) - 1] \o t[n + 1]
    BY <1>4, <1>5, JoinsValues
  <1>7. CASE n = 0
    <2>1. s = <<>>
      BY <1>2, <1>7, EmptySeq
    <2>2. FlattenSeq(s) = <<>>
      BY <2>1, FlattenNothing
    <2>3. f[n + 1] = x
      BY <1>3, <1>6, <1>7
    <2>4. QED
      BY <1>1, <1>4, <2>2, <2>3, ConcatEmptySeq
  <1>8. CASE n # 0
    <2>1. PICK g : Joins(s, n, g) /\ FlattenSeq(s) = g[n]
      BY <1>2, <1>3, <1>8, FlattenIs
    <2>2. f[n] = g[n]
      <3>1. n \in 1..n
        BY <1>3, <1>8
      <3>2. \A i \in 1..n : g[i] = f[i]
        <4>1. PICK m : m = n + 1
          OBVIOUS
        <4>2. Joins(s, n, g) /\ Joins(t, m, f)
          BY <1>4, <2>1, <4>1
        <4>3. \A i \in 1..n : s[i] = t[i]
          BY <1>3
        <4>4. n \in Nat /\ m \in Nat /\ n <= m
          BY <1>3, <1>5, <4>1
        <4>5. QED
          BY <4>2, <4>3, <4>4, JoinsAgree
      <3>3. QED
        BY <3>1, <3>2
    <2>3. f[n + 1] = f[n] \o x
      BY <1>3, <1>5, <1>6, <1>8
    <2>4. QED
      BY <1>1, <1>4, <2>1, <2>2, <2>3
  <1>9. QED
    BY <1>7, <1>8

-----------------------------------------------------------------------------
(* The characters that a codec brings back, and those that leave a line    *)
(* whole.                                                                  *)
Safe(fmt) == Chars \ Spoilt(fmt)
Inside == Chars \ Breaks

LEMMA SafeChars ==
  ASSUME NEW fmt
  PROVE  Safe(fmt) \subseteq Chars /\ Inside \subseteq Chars /\ Nul \notin Safe(fmt) /\ Ff \notin Safe(fmt)
  BY DEF Safe, Inside, Spoilt

LEMMA EscapeIs ==
  ASSUME NEW fmt, NEW c \in Chars
  PROVE  /\ Escape(fmt, c) \in Seq(Chars)
         /\ c \in Safe(fmt) =>
              /\ Escape(fmt, c) \in Seq(Inside)
              /\ \/ Escape(fmt, c) = <<c>> /\ c \notin {Bs, Nul}
                 \/ \E x \in Chars : Escape(fmt, c) = <<Bs, x>> /\ Pair(fmt, x) = <<c>>
  <1>1. \A x, y \in Chars : <<x>> \in Seq(Chars) /\ <<x, y>> \in Seq(Chars)
    OBVIOUS
  <1>2. \A x, y \in Inside : <<x>> \in Seq(Inside) /\ <<x, y>> \in Seq(Inside)
    OBVIOUS
  <1>3. {Bs, Dq, "n", "r", "t", "u"} \subseteq Inside /\ Inside \subseteq Chars
    BY DEF Inside, Chars, Breaks, Bs, Dq, Lf, Cr, Ff
  <1>4. CASE c \in {Bs, Dq}
    <2>1. Escape(fmt, c) = <<Bs, c>>
      BY <1>4 DEF Escape, Bs, Dq, Lf, Cr, Tab, Nb, Ff, Nul, Uni
    <2>2. Pair(fmt, c) = <<c>>
      BY <1>4 DEF Pair, Bs, Dq
    <2>3. QED
      BY <1>1, <1>2, <1>3, <1>4, <2>1, <2>2
  <1>5. CASE c = Lf
    <2>1. Escape(fmt, c) = <<Bs, "n">>
      BY <1>5 DEF Escape, Bs, Dq, Lf, Cr, Tab, Nb, Ff, Nul, Uni
    <2>2. Pair(fmt, "n") = <<c>>
      BY <1>5 DEF Pair, Bs, Dq
    <2>3. QED
      BY <1>1, <1>2, <1>3, <2>1, <2>2
  <1>6. CASE c = Cr
    <2>1. Escape(fmt, c) = <<Bs, "r">>
      BY <1>6 DEF Escape, Bs, Dq, Lf, Cr, Tab, Nb, Ff, Nul, Uni
    <2>2. c \in Safe(fmt) => fmt = "env"
      BY <1>6 DEF Safe, Spoilt
    <2>3. fmt = "env" => Pair(fmt, "r") = <<c>>
      BY <1>6 DEF Pair, Bs, Dq
    <2>4. QED
      BY <1>1, <1>2, <1>3, <2>1, <2>2, <2>3
  <1>7. CASE c = Tab
    <2>1. Escape(fmt, c) = <<Bs, "t">>
      BY <1>7 DEF Escape, Bs, Dq, Lf, Cr, Tab, Nb, Ff, Nul, Uni
    <2>2. c \in Safe(fmt) => fmt = "env"
      BY <1>7 DEF Safe, Spoilt
    <2>3. fmt = "env" => Pair(fmt, "t") = <<c>>
      BY <1>7 DEF Pair, Bs, Dq
    <2>4. QED
      BY <1>1, <1>2, <1>3, <2>1, <2>2, <2>3
  <1>8. CASE fmt = "yaml" /\ c \in {Nb, Ff, Nul, Uni}
    <2>1. Escape(fmt, c) = <<Bs, "u">>
      BY <1>8 DEF Escape, Bs, Dq, Lf, Cr, Tab, Nb, Ff, Nul, Uni
    <2>2. c \notin Safe(fmt)
      BY <1>8 DEF Safe, Spoilt
    <2>3. QED
      BY <1>1, <1>3, <2>1, <2>2
  <1>9. CASE c \notin {Bs, Dq, Lf, Cr, Tab} /\ ~(fmt = "yaml" /\ c \in {Nb, Ff, Nul, Uni})
    <2>1. Escape(fmt, c) = <<c>>
      BY <1>9 DEF Escape
    <2>2. c \in Safe(fmt) => c \in Inside /\ c # Nul
      BY <1>9, SafeChars DEF Inside, Breaks
    <2>3. QED
      BY <1>1, <1>2, <1>9, <2>1, <2>2
  <1>10. QED
    BY <1>4, <1>5, <1>6, <1>7, <1>8, <1>9

LEMMA EscapedPieces ==
  ASSUME NEW fmt, NEW A, NEW X, \A c \in A : Escape(fmt, c) \in Seq(X), NEW v \in Seq(A)
  PROVE  /\ [i \in DOMAIN v |-> Escape(fmt, v[i])] \in Seq(Seq(X))
         /\ Escaped(fmt, v) = FlattenSeq([i \in DOMAIN v |-> Escape(fmt, v[i])])
         /\ Escaped(fmt, v) \in Seq(X)
  <1>1. DOMAIN v = 1..Len(v) /\ Len(v) \in Nat
    OBVIOUS
  <1>2. PICK s : s = [i \in 1..Len(v) |-> Escape(fmt, v[i])]
    OBVIOUS
  <1>3. \A i \in 1..Len(v) : s[i] \in Seq(X)
    <2>1. \A i \in 1..Len(v) : v[i] \in A
      BY ElementOfSeq
    <2>2. QED
      BY <1>2, <2>1
  <1>4. s \in [1..Len(v) -> Seq(X)]
    BY <1>2, <1>3
  <1>5. s \in Seq(Seq(X))
    <2>1. Seq(Seq(X)) = UNION {[1..n -> Seq(X)] : n \in Nat}
      BY SeqDef
    <2>2. QED
      BY <1>1, <1>4, <2>1
  <1>6. Escaped(fmt, v) = FlattenSeq(s)
    BY <1>1, <1>2 DEF Escaped
  <1>7. QED
    BY <1>1, <1>2, <1>5, <1>6, FlattenType

(* Nothing that can be brought back breaks the line when it is escaped.    *)
LEMMA EscapedSafely ==
  ASSUME NEW fmt, NEW v \in Seq(Safe(fmt))
  PROVE  /\ [i \in DOMAIN v |-> Escape(fmt, v[i])] \in Seq(Seq(Inside))
         /\ Escaped(fmt, v) = FlattenSeq([i \in DOMAIN v |-> Escape(fmt, v[i])])
         /\ Escaped(fmt, v) \in Seq(Inside) /\ Escaped(fmt, v) \in Seq(Chars)
  <1>1. \A c \in Safe(fmt) : Escape(fmt, c) \in Seq(Inside)
    BY EscapeIs, SafeChars
  <1>2. /\ [i \in DOMAIN v |-> Escape(fmt, v[i])] \in Seq(Seq(Inside))
        /\ Escaped(fmt, v) = FlattenSeq([i \in DOMAIN v |-> Escape(fmt, v[i])])
        /\ Escaped(fmt, v) \in Seq(Inside)
    BY <1>1, EscapedPieces
  <1>3. QED
    BY <1>2, SafeChars, SeqMonotonic

LEMMA EscapedAppend ==
  ASSUME NEW fmt, NEW v \in Seq(Safe(fmt)), NEW c \in Safe(fmt)
  PROVE  Escaped(fmt, Append(v, c)) = Escaped(fmt, v) \o Escape(fmt, c)
  <1>1. PICK w : w = Append(v, c)
    OBVIOUS
  <1>2. /\ w \in Seq(Safe(fmt)) /\ DOMAIN w = 1..(Len(v) + 1) /\ Len(v) \in Nat /\ DOMAIN v = 1..Len(v)
        /\ w[Len(v) + 1] = c /\ (\A i \in 1..Len(v) : w[i] = v[i])
    BY <1>1, AppendProperties, LenProperties
  <1>3. PICK s : s = [i \in DOMAIN v |-> Escape(fmt, v[i])]
    OBVIOUS
  <1>4. PICK t : t = [i \in DOMAIN w |-> Escape(fmt, w[i])]
    OBVIOUS
  <1>5. s \in Seq(Seq(Inside)) /\ t \in Seq(Seq(Inside))
    BY <1>2, <1>3, <1>4, EscapedSafely
  <1>6. Len(s) = Len(v) /\ Len(t) = Len(v) + 1
    <2>1. DOMAIN s = 1..Len(v) /\ DOMAIN t = 1..(Len(v) + 1)
      BY <1>2, <1>3, <1>4
    <2>2. QED
      BY <1>2, <1>5, <2>1, LenProperties
  <1>7. t = Append(s, Escape(fmt, c))
    <2>1. PICK u : u = Append(s, Escape(fmt, c))
      OBVIOUS
    <2>2. /\ u \in Seq(Seq(Inside)) /\ Len(u) = Len(v) + 1 /\ u[Len(v) + 1] = Escape(fmt, c)
          /\ \A i \in 1..Len(v) : u[i] = s[i]
      BY <1>5, <1>6, <2>1, AppendProperties, EscapeIs, SafeChars
    <2>3. \A i \in 1..Len(t) : t[i] = u[i]
      <3>1. \A i \in 1..Len(v) : t[i] = u[i]
        BY <1>2, <1>3, <1>4, <2>2
      <3>2. t[Len(v) + 1] = u[Len(v) + 1]
        BY <1>2, <1>4, <2>2
      <3>3. QED
        BY <1>2, <1>6, <3>1, <3>2
    <2>4. t = u
      BY <1>5, <1>6, <2>2, <2>3, SeqEqual
    <2>5. QED
      BY <2>1, <2>4
  <1>8. FlattenSeq(t) = FlattenSeq(s) \o Escape(fmt, c)
    BY <1>5, <1>7, FlattenAppend, EscapeIs, SafeChars
  <1>9. QED
    BY <1>1, <1>2, <1>3, <1>4, <1>8, EscapedSafely

-----------------------------------------------------------------------------
(* The row of backslashes that ends at place i, and the places where a     *)
(* backslash begins a pair, be it the last one.                            *)
Row(t, i) == {j \in 1..i : \A k \in j..i : t[k] = Bs}
Starts(t) == {i \in 1..Len(t) : t[i] = Bs /\ Cardinality(Row(t, i)) % 2 = 1}

LEMMA PairsAreStarts ==
  ASSUME NEW t, Len(t) \in Nat
  PROVE  Pairs(t) = Starts(t) \ {Len(t)}
  BY DEF Pairs, Starts, Row, Odd

LEMMA RowGrows ==
  ASSUME NEW t, NEW i \in Nat \ {0}, t[i] = Bs
  PROVE  /\ Cardinality(Row(t, i - 1)) \in Nat
         /\ Cardinality(Row(t, i)) = Cardinality(Row(t, i - 1)) + 1
  <1>1. i - 1 \in Nat /\ i - 1 \in Int
    OBVIOUS
  <1>2. IsFiniteSet(Row(t, i - 1))
    <2>1. IsFiniteSet(1..(i - 1))
      BY <1>1, FS_Interval
    <2>2. Row(t, i - 1) \in SUBSET (1..(i - 1))
      BY DEF Row
    <2>3. QED
      BY <2>1, <2>2, FS_Subset
  <1>3. i \notin Row(t, i - 1)
    BY DEF Row
  <1>4. Row(t, i) = Row(t, i - 1) \cup {i}
    <2>1. ASSUME NEW j \in Row(t, i), j # i PROVE j \in Row(t, i - 1)
      BY <2>1 DEF Row
    <2>2. ASSUME NEW j \in Row(t, i - 1) PROVE j \in Row(t, i)
      <3>1. j \in 1..(i - 1) /\ (\A k \in j..(i - 1) : t[k] = Bs)
        BY <2>2 DEF Row
      <3>2. \A k \in j..i : t[k] = Bs
        <4>1. ASSUME NEW k \in j..i PROVE t[k] = Bs
          <5>1. k = i \/ k \in j..(i - 1)
            BY <3>1
          <5>2. QED
            BY <3>1, <5>1
        <4>2. QED
          BY <4>1
      <3>3. j \in 1..i
        BY <3>1
      <3>4. QED
        BY <3>2, <3>3 DEF Row
    <2>3. i \in Row(t, i)
      <3>1. \A k \in i..i : k = i
        OBVIOUS
      <3>2. QED
        BY <3>1 DEF Row
    <2>4. QED
      BY <2>1, <2>2, <2>3
  <1>5. QED
    BY <1>2, <1>3, <1>4, FS_AddElement, FS_CardinalityType

(* A backslash begins a pair unless the one before it does.                *)
LEMMA StartsAlternate ==
  ASSUME NEW t, Len(t) \in Nat, NEW i \in 1..Len(t)
  PROVE  i \in Starts(t) <=> t[i] = Bs /\ i - 1 \notin Starts(t)
  <1>1. SUFFICES ASSUME t[i] = Bs PROVE i \in Starts(t) <=> i - 1 \notin Starts(t)
    BY DEF Starts
  <1>2. PICK c : c = Cardinality(Row(t, i - 1))
    OBVIOUS
  <1>3. c \in Nat /\ Cardinality(Row(t, i)) = c + 1
    <2>1. i \in Nat \ {0}
      OBVIOUS
    <2>2. QED
      BY <1>1, <1>2, <2>1, RowGrows
  <1>4. i \in Starts(t) <=> c % 2 # 1
    <2>1. (c + 1) % 2 = 1 <=> c % 2 # 1
      BY <1>3
    <2>2. QED
      BY <1>1, <1>3, <2>1 DEF Starts
  <1>5. i - 1 \in Starts(t) <=> c % 2 = 1
    <2>1. CASE i - 1 \in 1..Len(t) /\ t[i - 1] = Bs
      BY <1>2, <2>1 DEF Starts
    <2>2. CASE ~(i - 1 \in 1..Len(t) /\ t[i - 1] = Bs)
      <3>1. Row(t, i - 1) = {}
        <4>1. SUFFICES ASSUME NEW j \in 1..(i - 1), \A k \in j..(i - 1) : t[k] = Bs PROVE FALSE
          BY DEF Row
        <4>2. i - 1 \in j..(i - 1) /\ i - 1 \in 1..Len(t)
          BY <4>1
        <4>3. QED
          BY <2>2, <4>1, <4>2
      <3>2. c = 0
        BY <1>2, <3>1, FS_EmptySet
      <3>3. i - 1 \notin Starts(t)
        BY <2>2 DEF Starts
      <3>4. QED
        BY <3>2, <3>3
    <2>3. QED
      BY <2>1, <2>2
  <1>6. QED
    BY <1>4, <1>5

(* Whether a place begins a pair depends on what is before it only.        *)
LEMMA StartsOfPrefix ==
  ASSUME NEW t, Len(t) \in Nat, NEW u, Len(u) \in Nat, Len(t) <= Len(u),
         \A i \in 1..Len(t) : t[i] = u[i], NEW i \in 1..Len(t)
  PROVE  i \in Starts(t) <=> i \in Starts(u)
  <1>1. Row(t, i) = Row(u, i)
    <2>1. ASSUME NEW j \in 1..i PROVE (\A k \in j..i : t[k] = Bs) <=> (\A k \in j..i : u[k] = Bs)
      <3>1. \A k \in j..i : k \in 1..Len(t)
        OBVIOUS
      <3>2. QED
        BY <3>1
    <2>2. QED
      BY <2>1 DEF Row
  <1>2. t[i] = u[i] /\ i \in 1..Len(u)
    OBVIOUS
  <1>3. QED
    BY <1>1, <1>2 DEF Starts

-----------------------------------------------------------------------------
Piece(fmt, t, i) ==
  IF i - 1 \in Pairs(t) THEN <<>>
  ELSE IF i \in Pairs(t) THEN Pair(fmt, t[i + 1]) ELSE <<Single(t[i])>>

LEMMA PairType ==
  ASSUME NEW fmt, NEW c \in Chars
  PROVE  Pair(fmt, c) \in Seq(Chars) /\ <<Single(c)>> \in Seq(Chars)
  <1>1. \A x, y \in Chars : <<x>> \in Seq(Chars) /\ <<x, y>> \in Seq(Chars)
    OBVIOUS
  <1>2. Bs \in Chars /\ Lf \in Chars /\ Cr \in Chars /\ Tab \in Chars
    BY DEF Chars
  <1>3. Single(c) \in Chars
    BY <1>2 DEF Single
  <1>4. Pair(fmt, c) \in {<<Lf>>, <<c>>, <<Cr>>, <<Tab>>, <<Bs, Single(c)>>}
    BY DEF Pair
  <1>5. QED
    BY <1>1, <1>2, <1>3, <1>4

LEMMA UnescapedPieces ==
  ASSUME NEW fmt, NEW t \in Seq(Chars)
  PROVE  /\ [i \in 1..Len(t) |-> Piece(fmt, t, i)] \in Seq(Seq(Chars))
         /\ Unescaped(fmt, t) = FlattenSeq([i \in 1..Len(t) |-> Piece(fmt, t, i)])
         /\ Unescaped(fmt, t) \in Seq(Chars)
  <1>1. DOMAIN t = 1..Len(t) /\ Len(t) \in Nat
    OBVIOUS
  <1>2. PICK s : s = [i \in 1..Len(t) |-> Piece(fmt, t, i)]
    OBVIOUS
  <1>3. ASSUME NEW i \in 1..Len(t) PROVE Piece(fmt, t, i) \in Seq(Chars)
    <2>1. t[i] \in Chars /\ <<>> \in Seq(Chars)
      BY ElementOfSeq, EmptySeq
    <2>2. i \in Pairs(t) => t[i + 1] \in Chars
      <3>1. i \in Pairs(t) => i + 1 \in 1..Len(t)
        BY DEF Pairs
      <3>2. QED
        BY <3>1, ElementOfSeq
    <2>3. QED
      BY <2>1, <2>2, PairType DEF Piece
  <1>4. s \in [1..Len(t) -> Seq(Chars)]
    BY <1>2, <1>3
  <1>5. s \in Seq(Seq(Chars))
    BY <1>1, <1>4, SeqDef
  <1>6. Unescaped(fmt, t) = FlattenSeq(s)
    BY <1>1, <1>2 DEF Unescaped, Piece
  <1>7. QED
    BY <1>1, <1>2, <1>5, <1>6, FlattenType

(* What follows a text without an open pair changes nothing before it.     *)
LEMMA PiecesOfPrefix ==
  ASSUME NEW fmt, NEW t \in Seq(Chars), NEW u \in Seq(Chars), Len(t) < Len(u),
         \A i \in 1..Len(t) : t[i] = u[i], Len(t) \notin Starts(t), NEW i \in 1..Len(t)
  PROVE  /\ Piece(fmt, u, i) = Piece(fmt, t, i)
         /\ i \in Pairs(u) <=> i \in Pairs(t)
  <1>1. Len(t) \in Nat /\ Len(u) \in Nat /\ Len(t) <= Len(u)
    OBVIOUS
  <1>2. \A j \in 1..Len(t) : j \in Pairs(u) <=> j \in Pairs(t)
    <2>1. ASSUME NEW j \in 1..Len(t) PROVE j \in Pairs(u) <=> j \in Pairs(t)
      <3>1. j \in Starts(t) <=> j \in Starts(u)
        BY <1>1, StartsOfPrefix
      <3>2. j # Len(u)
        BY <1>1
      <3>3. QED
        BY <1>1, <3>1, <3>2, PairsAreStarts
    <2>2. QED
      BY <2>1
  <1>3. i - 1 \in Pairs(u) <=> i - 1 \in Pairs(t)
    <2>1. 0 \notin Pairs(u) /\ 0 \notin Pairs(t)
      BY DEF Pairs
    <2>2. i - 1 = 0 \/ i - 1 \in 1..Len(t)
      BY <1>1
    <2>3. QED
      BY <1>2, <2>1, <2>2
  <1>4. i \in Pairs(t) => t[i + 1] = u[i + 1]
    <2>1. i \in Pairs(t) => i + 1 \in 1..Len(t)
      BY <1>1 DEF Pairs
    <2>2. QED
      BY <2>1
  <1>5. t[i] = u[i]
    OBVIOUS
  <1>6. Piece(fmt, u, i) = Piece(fmt, t, i)
    BY <1>2, <1>3, <1>4, <1>5 DEF Piece
  <1>7. QED
    BY <1>2, <1>6

LEMMA IsAppend ==
  ASSUME NEW X, NEW s \in Seq(X), NEW r \in Seq(X), Len(r) = Len(s) + 1,
         \A i \in 1..Len(s) : r[i] = s[i]
  PROVE  r = Append(s, r[Len(s) + 1])
  <1>1. PICK n : n = Len(s)
    OBVIOUS
  <1>2. n \in Nat /\ n + 1 \in 1..Len(r)
    BY <1>1
  <1>3. r[n + 1] \in X
    BY <1>2, ElementOfSeq
  <1>4. PICK q : q = Append(s, r[n + 1])
    OBVIOUS
  <1>5. /\ q \in Seq(X) /\ Len(q) = n + 1 /\ q[n + 1] = r[n + 1]
        /\ \A i \in 1..n : q[i] = s[i]
    BY <1>1, <1>3, <1>4, AppendProperties
  <1>6. ASSUME NEW i \in 1..Len(r) PROVE r[i] = q[i]
    <2>1. i \in 1..n \/ i = n + 1
      BY <1>1, <1>2
    <2>2. QED
      BY <1>1, <1>5, <2>1
  <1>7. r = q
    BY <1>1, <1>5, <1>6, SeqEqual
  <1>8. QED
    BY <1>1, <1>4, <1>7

(* A text is continued by one character, or by two: what is read of it.    *)
LEMMA Continued ==
  ASSUME NEW fmt, NEW t \in Seq(Chars), NEW u \in Seq(Chars), Len(t) \notin Starts(t),
         Len(u) = Len(t) + 1 \/ Len(u) = Len(t) + 2,
         \A i \in 1..Len(t) : t[i] = u[i]
  PROVE  /\ Len(t) \notin Starts(u) /\ Len(t) \notin Pairs(u)
         /\ Len(u) = Len(t) + 1 => Unescaped(fmt, u) = Unescaped(fmt, t) \o Piece(fmt, u, Len(t) + 1)
         /\ Len(u) = Len(t) + 2 =>
              Unescaped(fmt, u) = (Unescaped(fmt, t) \o Piece(fmt, u, Len(t) + 1)) \o Piece(fmt, u, Len(t) + 2)
  <1>1. PICK n : n = Len(t)
    OBVIOUS
  <1>2. n \in Nat /\ Len(u) \in Nat /\ Len(t) < Len(u) /\ Len(t) <= Len(u)
    BY <1>1
  <1>3. n \notin Starts(u)
    <2>1. CASE n = 0
      BY <2>1 DEF Starts
    <2>2. CASE n # 0
      <3>1. n \in 1..Len(t)
        BY <1>1, <1>2, <2>2
      <3>2. QED
        BY <1>1, <1>2, <3>1, StartsOfPrefix
    <2>3. QED
      BY <2>1, <2>2
  <1>4. n \notin Pairs(u)
    BY <1>2, <1>3, PairsAreStarts
  <1>5. PICK s : s = [i \in 1..Len(t) |-> Piece(fmt, t, i)]
    OBVIOUS
  <1>6. PICK r : r = [i \in 1..Len(u) |-> Piece(fmt, u, i)]
    OBVIOUS
  <1>7. /\ s \in Seq(Seq(Chars)) /\ r \in Seq(Seq(Chars))
        /\ Unescaped(fmt, t) = FlattenSeq(s) /\ Unescaped(fmt, u) = FlattenSeq(r)
    BY <1>5, <1>6, UnescapedPieces
  <1>8. Len(s) = n /\ Len(r) = Len(u)
    <2>1. DOMAIN s = 1..Len(t) /\ DOMAIN r = 1..Len(u)
      BY <1>5, <1>6
    <2>2. QED
      BY <1>1, <1>2, <1>7, <2>1, LenProperties
  <1>9. \A i \in 1..n : r[i] = s[i]
    <2>1. ASSUME NEW i \in 1..n PROVE r[i] = s[i]
      <3>1. i \in 1..Len(t) /\ i \in 1..Len(u)
        BY <1>1, <1>2
      <3>2. Piece(fmt, u, i) = Piece(fmt, t, i)
        BY <1>2, <3>1, PiecesOfPrefix
      <3>3. QED
        BY <1>5, <1>6, <3>1, <3>2
    <2>2. QED
      BY <2>1
  <1>10. n + 1 \in 1..Len(u) /\ r[n + 1] = Piece(fmt, u, n + 1) /\ r[n + 1] \in Seq(Chars)
    <2>1. n + 1 \in 1..Len(u)
      BY <1>1, <1>2
    <2>2. QED
      BY <1>6, <1>7, <1>8, <2>1, ElementOfSeq
  <1>11. CASE Len(u) = n + 1
    <2>1. r = Append(s, r[n + 1])
      BY <1>7, <1>8, <1>9, <1>11, IsAppend
    <2>2. FlattenSeq(r) = FlattenSeq(s) \o r[n + 1]
      BY <1>7, <1>10, <2>1, FlattenAppend
    <2>3. Len(u) # n + 2
      BY <1>2, <1>11
    <2>4. QED
      BY <1>1, <1>3, <1>4, <1>7, <1>10, <2>2, <2>3
  <1>12. CASE Len(u) = n + 2
    <2>1. n + 2 \in 1..Len(u) /\ (n + 1) + 1 = n + 2 /\ Len(u) # n + 1
      BY <1>2, <1>12
    <2>2. r[n + 2] = Piece(fmt, u, n + 2) /\ r[n + 2] \in Seq(Chars)
      BY <1>6, <1>7, <1>8, <2>1, ElementOfSeq
    <2>3. PICK q : q = Append(s, r[n + 1])
      OBVIOUS
    <2>4. /\ q \in Seq(Seq(Chars)) /\ Len(q) = n + 1 /\ q[n + 1] = r[n + 1]
          /\ \A i \in 1..n : q[i] = s[i]
      BY <1>7, <1>8, <1>10, <2>3, AppendProperties
    <2>5. \A i \in 1..Len(q) : r[i] = q[i]
      <3>1. ASSUME NEW i \in 1..Len(q) PROVE r[i] = q[i]
        <4>1. i \in 1..n \/ i = n + 1
          BY <1>2, <2>4
        <4>2. QED
          BY <1>9, <2>4, <4>1
      <3>2. QED
        BY <3>1
    <2>6. Len(r) = Len(q) + 1 /\ Len(q) + 1 = n + 2
      BY <1>8, <1>12, <2>1, <2>4
    <2>7. r = Append(q, r[n + 2])
      BY <1>7, <2>4, <2>5, <2>6, IsAppend
    <2>8. FlattenSeq(r) = FlattenSeq(q) \o r[n + 2]
      <3>1. PICK y : y = r[n + 2]
        OBVIOUS
      <3>2. y \in Seq(Chars) /\ r = Append(q, y)
        BY <2>2, <2>7, <3>1
      <3>3. FlattenSeq(Append(q, y)) = FlattenSeq(q) \o y
        BY <2>4, <3>2, FlattenAppend
      <3>4. QED
        BY <3>1, <3>2, <3>3
    <2>9. FlattenSeq(q) = FlattenSeq(s) \o r[n + 1]
      BY <1>7, <1>10, <2>3, FlattenAppend
    <2>10. QED
      BY <1>1, <1>3, <1>4, <1>7, <1>10, <2>1, <2>2, <2>8, <2>9
  <1>13. QED
    BY <1>1, <1>11, <1>12

(* One more character, written plainly or as a pair, is read back.         *)
LEMMA CharReadBack ==
  ASSUME NEW fmt, NEW t \in Seq(Chars), Len(t) \notin Starts(t), NEW c \in Safe(fmt),
         NEW u, u = t \o Escape(fmt, c)
  PROVE  Len(u) \notin Starts(u) /\ Unescaped(fmt, u) = Unescaped(fmt, t) \o <<c>>
  <1>1. PICK n : n = Len(t)
    OBVIOUS
  <1>2. n \in Nat /\ Escape(fmt, c) \in Seq(Chars) /\ c \in Chars
    BY <1>1, EscapeIs, SafeChars
  <1>3. u \in Seq(Chars) /\ (\A i \in 1..n : t[i] = u[i])
    BY <1>1, <1>2, ConcatProperties
  <1>4. CASE Escape(fmt, c) = <<c>> /\ c \notin {Bs, Nul}
    <2>1. Len(<<c>>) = 1 /\ <<c>>[1] = c
      OBVIOUS
    <2>2. Len(u) = n + 1 /\ u[n + 1] = c
      BY <1>1, <1>2, <1>4, <2>1, ConcatProperties
    <2>3. n \notin Starts(u) /\ n \notin Pairs(u) /\ Unescaped(fmt, u) = Unescaped(fmt, t) \o Piece(fmt, u, n + 1)
      BY <1>1, <1>3, <2>2, Continued
    <2>4. n + 1 \notin Starts(u) /\ n + 1 \notin Pairs(u)
      BY <1>4, <2>2 DEF Starts, Pairs
    <2>5. Piece(fmt, u, n + 1) = <<c>>
      <3>1. (n + 1) - 1 = n /\ Single(c) = c
        BY <1>2, <1>4 DEF Single
      <3>2. QED
        BY <2>2, <2>3, <2>4, <3>1 DEF Piece
    <2>6. QED
      BY <2>2, <2>3, <2>4, <2>5
  <1>5. ASSUME NEW x \in Chars, Escape(fmt, c) = <<Bs, x>>, Pair(fmt, x) = <<c>>
        PROVE  Len(u) \notin Starts(u) /\ Unescaped(fmt, u) = Unescaped(fmt, t) \o <<c>>
    <2>1. Len(<<Bs, x>>) = 2 /\ <<Bs, x>>[1] = Bs /\ <<Bs, x>>[2] = x
      OBVIOUS
    <2>2. Len(u) = n + 2 /\ u[n + 1] = Bs /\ u[n + 2] = x
      BY <1>1, <1>2, <1>5, <2>1, ConcatProperties
    <2>3. /\ n \notin Starts(u) /\ n \notin Pairs(u)
          /\ Unescaped(fmt, u) = (Unescaped(fmt, t) \o Piece(fmt, u, n + 1)) \o Piece(fmt, u, n + 2)
      BY <1>1, <1>3, <2>2, Continued
    <2>4. Len(u) \in Nat /\ n + 1 \in 1..Len(u) /\ n + 2 \in 1..Len(u)
          /\ (n + 1) - 1 = n /\ (n + 2) - 1 = n + 1 /\ (n + 1) + 1 = n + 2 /\ n + 1 # n + 2
      BY <1>2, <2>2
    <2>5. n + 1 \in Starts(u)
      BY <2>2, <2>3, <2>4, StartsAlternate
    <2>6. n + 2 \notin Starts(u)
      BY <2>4, <2>5, StartsAlternate
    <2>7. n + 1 \in Pairs(u)
      BY <2>2, <2>4, <2>5, PairsAreStarts
    <2>8. Piece(fmt, u, n + 1) = <<c>>
      <3>1. u[(n + 1) + 1] = x /\ (n + 1) - 1 \notin Pairs(u)
        BY <2>2, <2>3, <2>4
      <3>2. QED
        BY <1>5, <2>7, <3>1 DEF Piece
    <2>9. Piece(fmt, u, n + 2) = <<>>
      BY <2>4, <2>7 DEF Piece
    <2>10. Unescaped(fmt, t) \o <<c>> \in Seq(Chars)
      <3>1. <<c>> \in Seq(Chars)
        BY <1>2
      <3>2. QED
        BY <3>1, UnescapedPieces, ConcatProperties
    <2>11. QED
      BY <2>2, <2>3, <2>6, <2>8, <2>9, <2>10, ConcatEmptySeq
  <1>6. QED
    BY <1>2, <1>4, <1>5, EscapeIs

(* The reader's unescaping undoes what the writer's escaping did to a      *)
(* value, as long as it has no character its codec loses between quotes:   *)
(* for env a form feed and its like, or a NUL, for YAML also tabs, returns *)
(* and accents (secret_formats.py).                                        *)
THEOREM CodecReadBack ==
  ASSUME NEW fmt, NEW v \in Seq(Safe(fmt))
  PROVE  Unescaped(fmt, Escaped(fmt, v)) = v
  <1> DEFINE Good(w) == Len(Escaped(fmt, w)) \notin Starts(Escaped(fmt, w)) /\ Unescaped(fmt, Escaped(fmt, w)) = w
             S == {n \in Nat : \A w \in Seq(Safe(fmt)) : Len(w) = n => Good(w)}
  <1>1. 0 \in S
    <2>1. SUFFICES ASSUME NEW w \in Seq(Safe(fmt)), Len(w) = 0 PROVE Good(w)
      OBVIOUS
    <2>2. w = <<>>
      BY <2>1, EmptySeq
    <2>3. Escaped(fmt, w) = <<>>
      <3>1. [i \in DOMAIN w |-> Escape(fmt, w[i])] = <<>>
        BY <2>2
      <3>2. Escaped(fmt, w) = FlattenSeq([i \in DOMAIN w |-> Escape(fmt, w[i])])
        BY EscapedSafely
      <3>3. QED
        BY <3>1, <3>2, FlattenNothing
    <2>4. Unescaped(fmt, <<>>) = <<>>
      <3>1. <<>> \in Seq(Chars) /\ Len(<<>>) = 0
        BY EmptySeq
      <3>2. [i \in 1..Len(<<>>) |-> Piece(fmt, <<>>, i)] = <<>>
        BY <3>1
      <3>3. Unescaped(fmt, <<>>) = FlattenSeq([i \in 1..Len(<<>>) |-> Piece(fmt, <<>>, i)])
        BY <3>1, UnescapedPieces
      <3>4. QED
        BY <3>2, <3>3, FlattenNothing
    <2>5. Len(<<>>) \notin Starts(<<>>)
      BY DEF Starts
    <2>6. QED
      BY <2>2, <2>3, <2>4, <2>5
  <1>2. ASSUME NEW n \in Nat, n \in S PROVE n + 1 \in S
    <2>1. SUFFICES ASSUME NEW w \in Seq(Safe(fmt)), Len(w) = n + 1 PROVE Good(w)
      OBVIOUS
    <2>2. w # <<>>
      BY <2>1
    <2>3. PICK x \in Seq(Safe(fmt)), c \in Safe(fmt) : w = Append(x, c)
      BY <2>2, SequenceEmptyOrAppend
    <2>4. Len(x) = n
      BY <2>1, <2>3, AppendProperties
    <2>5. Good(x)
      BY <1>2, <2>4
    <2>6. Escaped(fmt, w) = Escaped(fmt, x) \o Escape(fmt, c)
      BY <2>3, EscapedAppend
    <2>7. Escaped(fmt, x) \in Seq(Chars)
      BY EscapedSafely
    <2>8. Len(Escaped(fmt, w)) \notin Starts(Escaped(fmt, w)) /\ Unescaped(fmt, Escaped(fmt, w)) = x \o <<c>>
      <3>1. PICK t, u : t = Escaped(fmt, x) /\ u = Escaped(fmt, w)
        OBVIOUS
      <3>2. /\ t \in Seq(Chars) /\ Len(t) \notin Starts(t) /\ u = t \o Escape(fmt, c)
            /\ Unescaped(fmt, t) = x
        BY <2>5, <2>6, <2>7, <3>1
      <3>3. Len(u) \notin Starts(u) /\ Unescaped(fmt, u) = Unescaped(fmt, t) \o <<c>>
        BY <3>2, CharReadBack, ZenonT(60)
      <3>4. QED
        BY <3>1, <3>2, <3>3
    <2>9. w = x \o <<c>>
      BY <2>3, AppendIsConcat
    <2>10. QED
      BY <2>8, <2>9
  <1>3. Len(v) \in Nat
    OBVIOUS
  <1> HIDE DEF S
  <1>4. Len(v) \in S
    BY <1>1, <1>2, <1>3, ByNumbers
  <1>5. QED
    BY <1>4 DEF S

(* Values as the documents have them, and what is read back of a document. *)
ValueMaps == [Fields -> Seq(Chars) \cup {None}]

LEMMA NoneIsNoText == None \notin Seq(Chars)
  <1>1. SUFFICES ASSUME None \in Seq(Chars) PROVE FALSE
    OBVIOUS
  <1>2. Len(None) = 1 /\ None[1] = "none"
    BY DEF None
  <1>3. None[1] \in Chars
    BY <1>1, <1>2, ElementOfSeq
  <1>4. QED
    BY <1>2, <1>3 DEF Chars, Bs, Dq, Sq, Hash, Colon, Tilde, Sp, Nb, Lf, Cr, Tab, Ff, Nul, Uni

LEMMA LeastPlace ==
  ASSUME NEW S \in SUBSET Nat, S # {}
  PROVE  Min(S) \in S /\ \A n \in S : Min(S) <= n
  <1>1. \E m \in S : \A n \in S : m <= n
    BY LeastNumber
  <1>2. QED
    BY <1>1 DEF Min

LEMMA LastPlace ==
  ASSUME NEW n \in Nat, NEW S \in SUBSET (1..n), S # {}
  PROVE  Max(S) \in S /\ \A m \in S : m <= Max(S)
  <1> DEFINE U == {n - m : m \in S}
  <1>1. U \in SUBSET Nat /\ U # {}
    <2>1. \A m \in S : m \in 1..n /\ n - m \in Nat
      OBVIOUS
    <2>2. QED
      BY <2>1
  <1>2. PICK d \in U : \A e \in U : d <= e
    BY <1>1, LeastNumber
  <1>3. PICK k \in S : d = n - k
    BY <1>2
  <1>4. \A m \in S : m <= k
    <2>1. ASSUME NEW m \in S PROVE m <= k
      <3>1. n - m \in U
        OBVIOUS
      <3>2. n - k <= n - m
        BY <1>2, <1>3, <3>1
      <3>3. m \in 1..n /\ k \in 1..n
        OBVIOUS
      <3>4. QED
        BY <3>2, <3>3
    <2>2. QED
      BY <2>1
  <1>5. \A m \in S : k >= m
    BY <1>4
  <1>6. \E x \in S : \A y \in S : x >= y
    BY <1>5
  <1>7. Max(S) \in S /\ \A m \in S : Max(S) >= m
    BY <1>6 DEF Max
  <1>8. QED
    BY <1>7

(* A part of a text is a text.                                             *)
LEMMA PartType ==
  ASSUME NEW X, NEW t \in Seq(X), NEW m \in Nat \ {0}, NEW n \in Int, n <= Len(t)
  PROVE  SubSeq(t, m, n) \in Seq(X)
  <1>1. \A i \in m..n : i \in 1..Len(t)
    OBVIOUS
  <1>2. \A i \in m..n : t[i] \in X
    BY <1>1, ElementOfSeq
  <1>3. m \in Int
    OBVIOUS
  <1>4. QED
    BY <1>2, <1>3, SubSeqProperties

LEMMA LineType ==
  ASSUME NEW t \in Seq(Chars)
  PROVE  Line(t) \in Seq(Chars)
  <1>1. ASSUME NEW u \in Seq(Chars) PROVE FirstLine(u) \in Seq(Chars)
    <2>1. CASE Cuts(u) = {}
      BY <2>1 DEF FirstLine
    <2>2. CASE Cuts(u) # {}
      <3>1. DOMAIN u = 1..Len(u) /\ Len(u) \in Nat /\ Cuts(u) \in SUBSET Nat /\ Cuts(u) \subseteq 1..Len(u)
        BY LenProperties DEF Cuts
      <3>2. Min(Cuts(u)) \in Cuts(u)
        BY <2>2, <3>1, LeastPlace
      <3>3. PICK n : n = Min(Cuts(u)) - 1
        OBVIOUS
      <3>4. n \in Int /\ n <= Len(u)
        BY <3>1, <3>2, <3>3
      <3>5. SubSeq(u, 1, n) \in Seq(Chars)
        BY <3>4, PartType
      <3>6. QED
        BY <2>2, <3>3, <3>5 DEF FirstLine
    <2>3. QED
      BY <2>1, <2>2
  <1>2. ASSUME NEW u \in Seq(Chars) PROVE Stripped(u) \in Seq(Chars)
    <2> DEFINE kept == {i \in DOMAIN u : u[i] \notin White}
    <2>1. CASE kept = {}
      BY <2>1, EmptySeq DEF Stripped
    <2>2. CASE kept # {}
      <3>1. DOMAIN u = 1..Len(u) /\ Len(u) \in Nat
        BY LenProperties
      <3>2. kept \in SUBSET (1..Len(u)) /\ kept \in SUBSET Nat
        BY <3>1
      <3>3. Stripped(u) = SubSeq(u, Min(kept), Max(kept))
        BY <2>2 DEF Stripped
      <3> HIDE DEF kept
      <3>4. Min(kept) \in kept /\ Max(kept) \in kept
        BY <2>2, <3>1, <3>2, LeastPlace, LastPlace
      <3>5. PICK m, n : m = Min(kept) /\ n = Max(kept)
        OBVIOUS
      <3>6. m \in Nat \ {0} /\ n \in Int /\ n <= Len(u)
        <4>1. m \in 1..Len(u) /\ n \in 1..Len(u)
          BY <3>2, <3>4, <3>5
        <4>2. QED
          BY <3>1, <4>1
      <3>7. SubSeq(u, m, n) \in Seq(Chars)
        BY <3>6, PartType
      <3>8. QED
        BY <3>3, <3>5, <3>7
    <2>3. QED
      BY <2>1, <2>2
  <1>3. QED
    BY <1>1, <1>2 DEF Line

(* A text without breaks, with no white space at its ends, is its line.    *)
LEMMA LineIs ==
  ASSUME NEW t \in Seq(Inside), t = <<>> \/ (t[1] \notin White /\ t[Len(t)] \notin White)
  PROVE  Cuts(t) = {} /\ Line(t) = t
  <1>1. DOMAIN t = 1..Len(t) /\ Len(t) \in Nat
    BY LenProperties
  <1>2. \A i \in DOMAIN t : t[i] \notin Breaks
    BY <1>1, ElementOfSeq DEF Inside
  <1>3. Cuts(t) = {}
    BY <1>2 DEF Cuts
  <1>4. FirstLine(t) = t
    BY <1>3 DEF FirstLine
  <1>5. Stripped(t) = t
    <2> DEFINE kept == {i \in DOMAIN t : t[i] \notin White}
    <2>1. CASE t = <<>>
      <3>1. kept = {}
        BY <2>1
      <3>2. QED
        BY <2>1, <3>1 DEF Stripped
    <2>2. CASE t # <<>>
      <3>1. Len(t) # 0
        BY <2>2, EmptySeq
      <3>2. 1 \in kept /\ Len(t) \in kept /\ kept \in SUBSET (1..Len(t)) /\ kept \in SUBSET Nat
        BY <1>1, <2>2, <3>1
      <3>3. Stripped(t) = SubSeq(t, Min(kept), Max(kept))
        BY <3>2 DEF Stripped
      <3> HIDE DEF kept
      <3>4. Min(kept) \in kept /\ Min(kept) <= 1 /\ Max(kept) \in kept /\ Len(t) <= Max(kept)
        BY <1>1, <3>2, LeastPlace, LastPlace
      <3>5. Min(kept) = 1 /\ Max(kept) = Len(t)
        <4>1. Min(kept) \in 1..Len(t) /\ Max(kept) \in 1..Len(t)
          BY <3>2, <3>4
        <4>2. QED
          BY <1>1, <3>4, <4>1
      <3>6. SubSeq(t, 1, Len(t)) = t
        BY SubSeqFull
      <3>7. QED
        BY <3>3, <3>5, <3>6
    <2>3. QED
      BY <2>1, <2>2
  <1>6. QED
    BY <1>3, <1>4, <1>5 DEF Line

LEMMA QuoteReadBack ==
  ASSUME NEW fmt, NEW v \in Seq(Safe(fmt)), NEW t, t = Quote(fmt, v)
  PROVE  /\ Cuts(t) = {} /\ Line(t) = t /\ t # <<>> /\ t[1] = Dq
         /\ ParsedLine(fmt, t) = v
  <1>1. PICK e, n, a : e = Escaped(fmt, v) /\ n = Len(e) /\ a = <<Dq>> \o e
    OBVIOUS
  <1>2. Dq \in Inside /\ Dq \notin White
    BY DEF Inside, Chars, Breaks, White, Dq, Sp, Nb, Lf, Cr, Tab, Ff
  <1>3. <<Dq>> \in Seq(Inside) /\ Len(<<Dq>>) = 1 /\ <<Dq>>[1] = Dq
    BY <1>2
  <1>4. e \in Seq(Inside) /\ n \in Nat
    <2>1. e \in Seq(Inside)
      BY <1>1, EscapedSafely
    <2>2. QED
      BY <1>1, <2>1, LenProperties
  <1>5. /\ a \in Seq(Inside) /\ Len(a) = n + 1 /\ a[1] = Dq
        /\ \A i \in 1..n : a[i + 1] = e[i]
    <2>1. /\ a \in Seq(Inside) /\ Len(a) = 1 + n
          /\ \A i \in 1..(1 + n) : a[i] = IF i <= 1 THEN <<Dq>>[i] ELSE e[i - 1]
      BY <1>1, <1>3, <1>4, ConcatProperties
    <2>2. 1 \in 1..(1 + n) /\ \A i \in 1..n : i + 1 \in 1..(1 + n) /\ ~(i + 1 <= 1) /\ (i + 1) - 1 = i
      BY <1>4
    <2>3. a[1] = Dq
      BY <1>3, <2>1, <2>2
    <2>4. \A i \in 1..n : a[i + 1] = e[i]
      BY <2>1, <2>2
    <2>5. QED
      BY <1>4, <2>1, <2>3, <2>4
  <1>6. t = Append(a, Dq)
    <2>1. t = a \o <<Dq>>
      BY <1>1 DEF Quote
    <2>2. QED
      BY <1>2, <1>5, <2>1, AppendIsConcat
  <1>7. /\ t \in Seq(Inside) /\ Len(t) = n + 2 /\ t[n + 2] = Dq
        /\ \A i \in 1..(n + 1) : t[i] = a[i]
    <2>1. /\ t \in Seq(Inside) /\ Len(t) = Len(a) + 1 /\ t[Len(a) + 1] = Dq
          /\ \A i \in 1..Len(a) : t[i] = a[i]
      BY <1>2, <1>5, <1>6, AppendProperties
    <2>2. (n + 1) + 1 = n + 2
      BY <1>4
    <2>3. QED
      BY <1>5, <2>1, <2>2
  <1>8. t[1] = Dq /\ t # <<>> /\ (n + 2) - 1 = n + 1
    BY <1>4, <1>5, <1>7
  <1>9. SubSeq(t, 2, n + 1) = e
    <2>1. \A i \in 2..(n + 1) : t[i] \in Inside
      <3>1. \A i \in 2..(n + 1) : i \in 1..Len(t)
        BY <1>4, <1>7
      <3>2. QED
        BY <1>7, <3>1, ElementOfSeq
    <2>2. PICK m, u : m = n + 1 /\ u = SubSeq(t, 2, m)
      OBVIOUS
    <2>3. /\ u \in Seq(Inside) /\ Len(u) = IF 2 <= m THEN m - 2 + 1 ELSE 0
          /\ \A i \in 1..(m - 2 + 1) : u[i] = t[2 + i - 1]
      <3>1. m \in Int /\ 2 \in Int
        BY <1>4, <2>2
      <3>2. QED
        BY <2>1, <2>2, <3>1, SubSeqProperties
    <2>4. Len(u) = n /\ m - 2 + 1 = n
      BY <1>4, <2>2, <2>3
    <2>5. ASSUME NEW i \in 1..n PROVE u[i] = e[i]
      <3>1. 2 + i - 1 = i + 1 /\ i + 1 \in 1..(n + 1)
        BY <1>4
      <3>2. QED
        BY <1>5, <1>7, <2>3, <2>4, <3>1
    <2>6. u = e
      BY <1>1, <1>4, <2>3, <2>4, <2>5, SeqEqual
    <2>7. QED
      BY <2>2, <2>6
  <1>10. Cuts(t) = {} /\ Line(t) = t
    BY <1>2, <1>7, <1>8, LineIs
  <1>11. ParsedLine(fmt, t) = Unescaped(fmt, e)
    BY <1>7, <1>8, <1>9, <1>10 DEF ParsedLine, Quoted
  <1>12. QED
    BY <1>1, <1>8, <1>10, <1>11, CodecReadBack

(* A value that stands for itself is on one line, with nothing to strip.   *)
LEMMA PlainReadBack ==
  ASSUME NEW fmt, NEW v \in Seq(Chars), ~NeedsQuotes(fmt, v), Survives(fmt, v)
  PROVE  Cuts(v) = {} /\ Line(v) = v /\ ParsedLine(fmt, v) = v
  <1>1. DOMAIN v = 1..Len(v) /\ Len(v) \in Nat /\ v # <<>> /\ Len(v) # 0
    <2>1. v # <<>>
      BY DEF NeedsQuotes, EnvNeedsQuotes, YamlNeedsQuotes
    <2>2. QED
      BY <2>1, EmptySeq, LenProperties
  <1>2. 1 \in DOMAIN v /\ Len(v) \in DOMAIN v
    BY <1>1
  <1>3. CASE fmt = "env"
    <2>1. ~Occur(White \cup {Hash, Dq, Sq}, v)
      BY <1>3 DEF NeedsQuotes, EnvNeedsQuotes
    <2>2. \A i \in DOMAIN v : v[i] \notin White /\ v[i] \notin {Dq, Sq}
      BY <2>1 DEF Occur
    <2>3. \A i \in DOMAIN v : v[i] \in Chars /\ v[i] \notin Breaks
      BY <1>1, <2>2, ElementOfSeq DEF White, Breaks
    <2>4. QED
      <3>1. v[1] \notin White /\ v[Len(v)] \notin White
        BY <1>2, <2>2
      <3>2. ~Quoted(v)
        BY <1>2, <2>2 DEF Quoted
      <3>3. \A i \in 1..Len(v) : v[i] \in Inside
        BY <1>1, <2>3 DEF Inside
      <3>4. v \in [1..Len(v) -> Inside]
        BY <1>1, <3>3
      <3>5. v \in Seq(Inside)
        BY <1>1, <3>4, SeqDef
      <3>6. Cuts(v) = {} /\ Line(v) = v
        BY <3>1, <3>5, LineIs
      <3>7. QED
        BY <3>2, <3>6 DEF ParsedLine
  <1>4. CASE fmt # "env"
    <2>1. /\ ~Occur({Hash, Colon, Lf, Cr, Tab}, v) /\ v[1] \notin White /\ v[Len(v)] \notin White
          /\ ~Occur({Ff}, v) /\ ~Quoted(v)
      BY <1>4 DEF NeedsQuotes, YamlNeedsQuotes, Survives
    <2>2. \A i \in DOMAIN v : v[i] \notin Breaks
      BY <2>1 DEF Occur, Breaks
    <2>3. \A i \in 1..Len(v) : v[i] \in Inside
      BY <1>1, <2>2, ElementOfSeq DEF Inside
    <2>4. v \in [1..Len(v) -> Inside]
      BY <1>1, <2>3
    <2>5. v \in Seq(Inside)
      BY <1>1, <2>4, SeqDef
    <2>6. Cuts(v) = {} /\ Line(v) = v
      BY <2>1, <2>5, LineIs
    <2>7. QED
      BY <2>1, <2>6 DEF ParsedLine
  <1>5. QED
    BY <1>3, <1>4

(* A value on its line: it is one line and, if it survives, read back as   *)
(* it was.                                                                 *)
LEMMA WrittenReadBack ==
  ASSUME NEW v \in Seq(Chars), NEW fmt, NEW t, t = Written(fmt, v)
  PROVE  /\ t \in Seq(Chars)
         /\ Survives(fmt, v) =>
              /\ Cuts(t) = {} /\ ParsedLine(fmt, t) = v
              /\ fmt = "yaml" => Line(t) \notin {<<>>, <<Tilde>>}
  <1>1. CASE NeedsQuotes(fmt, v)
    <2>1. t = Quote(fmt, v)
      BY <1>1 DEF Written
    <2>2. t \in Seq(Chars)
      <3>1. \A c \in Chars : Escape(fmt, c) \in Seq(Chars)
        BY EscapeIs
      <3>2. Escaped(fmt, v) \in Seq(Chars)
        BY <3>1, EscapedPieces
      <3>3. <<Dq>> \in Seq(Chars)
        <4>1. Dq \in Chars
          BY DEF Chars
        <4>2. QED
          BY <4>1
      <3>4. QED
        BY <2>1, <3>2, <3>3, ConcatProperties DEF Quote
    <2>3. ASSUME Survives(fmt, v)
          PROVE  /\ Cuts(t) = {} /\ ParsedLine(fmt, t) = v
                 /\ Line(t) \notin {<<>>, <<Tilde>>}
      <3>1. DOMAIN v = 1..Len(v) /\ Len(v) \in Nat
        BY LenProperties
      <3>2. \A i \in DOMAIN v : v[i] \notin Spoilt(fmt)
        BY <1>1, <2>3 DEF Survives, Occur
      <3>3. \A i \in 1..Len(v) : v[i] \in Safe(fmt)
        BY <3>1, <3>2, ElementOfSeq DEF Safe
      <3>4. v \in [1..Len(v) -> Safe(fmt)]
        BY <3>1, <3>3
      <3>5. v \in Seq(Safe(fmt))
        BY <3>1, <3>4, SeqDef
      <3>6. Cuts(t) = {} /\ Line(t) = t /\ t # <<>> /\ t[1] = Dq /\ ParsedLine(fmt, t) = v
        BY <2>1, <3>5, QuoteReadBack
      <3>7. t # <<Tilde>>
        <4>1. <<Tilde>>[1] = Tilde /\ Tilde # Dq
          BY DEF Tilde, Dq
        <4>2. QED
          BY <3>6, <4>1
      <3>8. QED
        BY <3>6, <3>7
    <2>4. QED
      BY <2>2, <2>3
  <1>2. CASE ~NeedsQuotes(fmt, v)
    <2>1. t = v
      BY <1>2 DEF Written
    <2>2. fmt = "yaml" => v \notin {<<>>, <<Tilde>>}
      BY <1>2 DEF NeedsQuotes, YamlNeedsQuotes
    <2>3. QED
      BY <1>2, <2>1, <2>2, PlainReadBack
  <1>3. QED
    BY <1>1, <1>2

LEMMA DocumentReadBack ==
  ASSUME NEW map \in ValueMaps, NEW fmt, NEW text, text = Serialized(fmt, map)
  PROVE  /\ text \in ValueMaps
         /\ (\A f \in Given(map) : Survives(fmt, map[f])) =>
              ~Broken(fmt, text) /\ Parsed(fmt, text) = map
  <1>1. \A f \in Fields : map[f] \in Seq(Chars) \/ map[f] = None
    BY DEF ValueMaps
  <1>2. text = [f \in Fields |-> IF map[f] = None THEN None ELSE Written(fmt, map[f])]
    BY DEF Serialized
  <1>3. ASSUME NEW f \in Fields, map[f] # None
        PROVE  /\ text[f] \in Seq(Chars) /\ text[f] # None
               /\ Survives(fmt, map[f]) =>
                    /\ Cuts(text[f]) = {} /\ ParsedLine(fmt, text[f]) = map[f]
                    /\ fmt = "yaml" => Line(text[f]) \notin {<<>>, <<Tilde>>}
    <2>1. PICK v, t : v = map[f] /\ t = Written(fmt, v)
      OBVIOUS
    <2>2. v \in Seq(Chars) /\ t = text[f]
      BY <1>1, <1>2, <1>3, <2>1
    <2>3. /\ t \in Seq(Chars)
          /\ Survives(fmt, v) =>
               /\ Cuts(t) = {} /\ ParsedLine(fmt, t) = v
               /\ fmt = "yaml" => Line(t) \notin {<<>>, <<Tilde>>}
      BY <2>1, <2>2, WrittenReadBack
    <2>4. QED
      BY <2>1, <2>2, <2>3, NoneIsNoText
  <1>4. \A f \in Fields : map[f] = None => text[f] = None
    BY <1>2
  <1>5. text \in ValueMaps
    <2>1. \A f \in Fields : text[f] \in Seq(Chars) \cup {None}
      BY <1>3, <1>4
    <2>2. QED
      BY <1>2, <2>1 DEF ValueMaps
  <1>6. ASSUME \A f \in Given(map) : Survives(fmt, map[f])
        PROVE  ~Broken(fmt, text) /\ Parsed(fmt, text) = map
    <2>1. \A f \in Fields : map[f] # None => Survives(fmt, map[f])
      BY <1>6 DEF Given
    <2>2. ~Broken(fmt, text)
      BY <1>3, <1>4, <2>1 DEF Broken, Given
    <2>3. \A f \in Fields : (IF text[f] = None THEN None ELSE ParsedLine(fmt, text[f])) = map[f]
      BY <1>3, <1>4, <2>1
    <2>4. map = [f \in Fields |-> map[f]]
      BY DEF ValueMaps
    <2>5. QED
      BY <2>2, <2>3, <2>4 DEF Parsed
  <1>7. QED
    BY <1>5, <1>6

LEMMA UndoubledType ==
  ASSUME NEW t \in Seq(Chars)
  PROVE  Undoubled(t) \in Seq(Chars)
  <1>1. DOMAIN t = 1..Len(t) /\ Len(t) \in Nat
    BY LenProperties
  <1>2. PICK s : s = [i \in 1..Len(t) |-> IF t[i] = Sq /\ ~Odd(Sq, t, i) THEN <<>> ELSE <<t[i]>>]
    OBVIOUS
  <1>3. ASSUME NEW i \in 1..Len(t) PROVE s[i] \in Seq(Chars)
    <2>1. t[i] \in Chars
      BY ElementOfSeq
    <2>2. <<>> \in Seq(Chars) /\ <<t[i]>> \in Seq(Chars)
      BY <2>1, EmptySeq
    <2>3. s[i] \in {<<>>, <<t[i]>>}
      BY <1>2
    <2>4. QED
      BY <2>2, <2>3
  <1>4. s \in [1..Len(t) -> Seq(Chars)]
    BY <1>2, <1>3
  <1>5. s \in Seq(Seq(Chars))
    BY <1>1, <1>4, SeqDef
  <1>6. Undoubled(t) = FlattenSeq(s)
    BY <1>1, <1>2 DEF Undoubled
  <1>7. QED
    BY <1>5, <1>6, FlattenType

LEMMA ParsedType ==
  ASSUME NEW fmt, NEW text \in ValueMaps
  PROVE  Parsed(fmt, text) \in ValueMaps
  <1>1. ASSUME NEW t \in Seq(Chars) PROVE ParsedLine(fmt, t) \in Seq(Chars)
    <2>1. PICK line : line = Line(t)
      OBVIOUS
    <2>2. line \in Seq(Chars)
      BY <2>1, LineType
    <2>3. CASE ~Quoted(line)
      BY <2>1, <2>2, <2>3 DEF ParsedLine
    <2>4. CASE Quoted(line)
      <3>1. PICK n, u : n = Len(line) - 1 /\ u = SubSeq(line, 2, n)
        OBVIOUS
      <3>2. n \in Int /\ n <= Len(line)
        BY <2>2, <3>1
      <3>3. u \in Seq(Chars)
        BY <2>2, <3>1, <3>2, PartType
      <3>4. ParsedLine(fmt, t) \in {Unescaped(fmt, u), Undoubled(u), u}
        BY <2>1, <2>4, <3>1 DEF ParsedLine
      <3>5. QED
        BY <3>3, <3>4, UnescapedPieces, UndoubledType
    <2>5. QED
      BY <2>3, <2>4
  <1>2. \A f \in Fields : text[f] = None \/ text[f] \in Seq(Chars)
    BY DEF ValueMaps
  <1>3. QED
    BY <1>1, <1>2 DEF Parsed, ValueMaps

-----------------------------------------------------------------------------
(***************************************************************************)
(* Editing.  A document that was read says what the secret had then; while *)
(* nobody else changes the secret it still has that, before the values are *)
(* put back and after.                                                     *)
(***************************************************************************)
Read(o) == [f \in Fields |-> IF f \in o.keys THEN o.base[f] ELSE None]

(* The document can be read back; and it says all there is to say.         *)
Clean(o) == \A f \in o.keys \cap Given(o.base) : Survives(o.fmt, o.base[f])
Whole(o) == o.keys = Fields \/ o.merge

Settled(o) == o.kind = "edit" /\ o.st \in {"edit", "put", "done"} /\ Clean(o) /\ Whole(o)

OpValues(o) ==
  o.values \in ValueMaps /\ o.base \in ValueMaps /\ o.text \in ValueMaps /\ o.keys \subseteq Fields

EditOp(o) ==
  o.kind = "edit" =>
    /\ o.st \in {"get", "edit", "put", "done", "failed"}
    /\ o.st = "edit" => o.text = Serialized(o.fmt, Read(o))
    /\ o.st \in {"put", "done"} /\ Clean(o) => o.values = Read(o)

OwnRequest(o, r) ==
  o.kind = "edit" =>
    /\ o.st \in {"put", "done", "failed"} /\ r.act = "put"
    /\ r.values = o.values /\ r.merge = o.merge

ValuesInv ==
  /\ secret.values \in ValueMaps
  /\ \A p \in Programs : OpValues(op[p])
  /\ \A r \in wire : r.values \in ValueMaps

NumbersInv == \A p, q \in Programs : p # q /\ op[p].n # 0 => op[p].n # op[q].n

EditInv(p) ==
  /\ EditOp(op[p])
  /\ Settled(op[p]) /\ p \notin touched => secret.values = op[p].base
  /\ \A r \in wire : r.n = op[p].n => OwnRequest(op[p], r)

DocInv == ValuesInv /\ NumbersInv /\ \A p \in Programs : EditInv(p)

LEMMA NoValuesFit == NoValues \in ValueMaps
  BY DEF NoValues, ValueMaps

LEMMA InitDoc == Init => DocInv
  <1> SUFFICES ASSUME Init PROVE DocInv
    OBVIOUS
  <1>1. wire = {} /\ \A p \in Programs : op[p] = NoOp
    BY DEF Init
  <1>2. /\ NoOp.values = NoValues /\ NoOp.base = NoValues /\ NoOp.text = NoValues
        /\ NoOp.keys = Fields /\ NoOp.n = 0 /\ NoOp.kind = "none"
    BY DEF NoOp
  <1>3. secret.values \in ValueMaps
    <2>1. CASE secret = NoSecret
      BY <2>1, NoValuesFit DEF NoSecret
    <2>2. CASE secret \in [made : {Earlier}, values : Maps]
      BY <2>2, MapsAssumption DEF ValueMaps
    <2>3. QED
      BY <2>1, <2>2 DEF Init
  <1>4. ValuesInv
    BY <1>1, <1>2, <1>3, NoValuesFit DEF ValuesInv, OpValues
  <1>5. NumbersInv
    BY <1>1, <1>2 DEF NumbersInv
  <1>6. \A p \in Programs : EditInv(p)
    BY <1>1, <1>2 DEF EditInv, EditOp, Settled
  <1>7. QED
    BY <1>4, <1>5, <1>6 DEF DocInv

(* What a read and put back map does to the one it was read from.          *)
LEMMA ReadOfBase ==
  ASSUME NEW o, OpValues(o)
  PROVE  /\ Read(o) \in ValueMaps /\ Overlaid(o.base, Read(o)) = o.base
         /\ o.keys = Fields => Read(o) = o.base
         /\ Clean(o) => \A f \in Given(Read(o)) : Survives(o.fmt, Read(o)[f])
  <1>1. o.base = [f \in Fields |-> o.base[f]]
    BY DEF OpValues, ValueMaps
  <1>2. PICK map : map = Read(o)
    OBVIOUS
  <1>3. map = [f \in Fields |-> IF f \in o.keys THEN o.base[f] ELSE None]
    BY <1>2 DEF Read
  <1>4. \A f \in Fields : o.base[f] \in Seq(Chars) \cup {None}
    BY DEF OpValues, ValueMaps
  <1>5. map \in ValueMaps
    BY <1>3, <1>4 DEF ValueMaps
  <1>6. \A f \in Fields : (IF map[f] = None THEN o.base[f] ELSE map[f]) = o.base[f]
    BY <1>3
  <1>7. Overlaid(o.base, map) = o.base
    BY <1>1, <1>6 DEF Overlaid
  <1>8. o.keys = Fields => map = o.base
    BY <1>1, <1>3
  <1>9. Clean(o) => \A f \in Given(map) : Survives(o.fmt, map[f])
    BY <1>3 DEF Clean, Given
  <1>10. QED
    BY <1>2, <1>5, <1>7, <1>8, <1>9

(* A request is executed: an edit it is not part of is touched, and one it *)
(* is part of finds the secret as it was.                                  *)
LEMMA PerformReads ==
  ASSUME IndInv, DocInv, NEW r, r.act \in {"post", "put"}, r.values \in ValueMaps, Perform(r)
  PROVE  /\ secret'.values \in ValueMaps /\ touched \subseteq touched'
         /\ \A q \in Programs :
              /\ Settled(op[q]) /\ q \notin touched'
              /\ r.n = op[q].n => OwnRequest(op[q], r)
              => secret'.values = op[q].base
  <1>1. secret.values \in ValueMaps /\ IsSecret(secret)
    BY DEF DocInv, ValuesInv, IndInv, TypeInv
  <1>2. \A q \in Programs : Settled(op[q]) /\ q \notin touched => secret.values = op[q].base
    BY DEF DocInv, EditInv
  <1>3. CASE Conflict(r) \/ Missing(r)
    BY <1>1, <1>2, <1>3 DEF Perform
  <1>4. CASE ~Conflict(r) /\ ~Missing(r)
    <2> DEFINE new == IF r.merge THEN Overlaid(secret.values, r.values) ELSE r.values
    <2>1. touched' = touched \cup {p \in Programs : op[p].n # r.n}
      BY <1>4 DEF Perform
    <2>2. secret'.values = IF r.act = "post" THEN secret.values ELSE new
      <3>1. CASE r.act = "post"
        <4>1. secret' = [secret EXCEPT !.made = r.n]
          BY <1>4, <3>1 DEF Perform
        <4>2. QED
          BY <1>1, <3>1, <4>1 DEF IsSecret
      <3>2. CASE r.act # "post"
        <4>1. secret' = [secret EXCEPT !.values = new]
          BY <1>4, <3>2 DEF Perform
        <4> HIDE DEF new
        <4>2. QED
          BY <1>1, <3>2, <4>1 DEF IsSecret
      <3>3. QED
        BY <3>1, <3>2
    <2>3. new \in ValueMaps
      <3>1. Overlaid(secret.values, r.values) \in ValueMaps
        BY <1>1 DEF Overlaid, ValueMaps
      <3>2. QED
        BY <3>1
    <2>4. ASSUME NEW q \in Programs, Settled(op[q]), q \notin touched',
                 r.n = op[q].n => OwnRequest(op[q], r)
          PROVE  secret'.values = op[q].base
      <3>1. r.n = op[q].n /\ q \notin touched /\ secret.values = op[q].base
        BY <1>2, <2>1, <2>4
      <3>2. /\ r.act = "put" /\ r.values = op[q].values /\ r.merge = op[q].merge
            /\ op[q].st \in {"put", "done"} /\ Clean(op[q]) /\ Whole(op[q])
            /\ op[q].kind = "edit"
        BY <2>4, <3>1 DEF OwnRequest, Settled
      <3>3. op[q].values = Read(op[q]) /\ OpValues(op[q])
        BY <3>2 DEF DocInv, EditInv, EditOp, ValuesInv
      <3>4. /\ Overlaid(op[q].base, Read(op[q])) = op[q].base
            /\ op[q].keys = Fields => Read(op[q]) = op[q].base
        BY <3>3, ReadOfBase
      <3>5. CASE r.merge
        BY <2>2, <3>1, <3>2, <3>3, <3>4, <3>5
      <3>6. CASE ~r.merge
        <4>1. op[q].keys = Fields
          BY <3>2, <3>6 DEF Whole
        <4>2. QED
          BY <2>2, <3>2, <3>3, <3>4, <3>6, <4>1
      <3>7. QED
        BY <3>5, <3>6
    <2> HIDE DEF new
    <2>5. QED
      BY <1>1, <2>1, <2>2, <2>3, <2>4
  <1>5. QED
    BY <1>3, <1>4

(* A step of one program: what there is to show about it.                  *)
LEMMA OneEdit ==
  ASSUME IndInv, DocInv, NEW p \in Programs, NEW o, op' = [op EXCEPT ![p] = o],
         secret'.values \in ValueMaps, OpValues(o), EditOp(o),
         \A q \in Programs \ {p} : op[q].n # o.n,
         \A r \in wire' \ wire : r.values \in ValueMaps /\ r.n = o.n,
         \A r \in wire' : r.n = o.n => OwnRequest(o, r),
         Settled(o) /\ p \notin touched' => secret'.values = o.base,
         \A q \in Programs \ {p} : Settled(op[q]) /\ q \notin touched' => secret'.values = op[q].base
  PROVE  DocInv'
  <1>1. op = [q \in Programs |-> op[q]]
    BY DEF IndInv, TypeInv
  <1>2. op'[p] = o /\ \A q \in Programs \ {p} : op'[q] = op[q]
    BY <1>1
  <1>3. /\ \A q \in Programs : OpValues(op[q]) /\ EditInv(q)
        /\ \A r \in wire : r.values \in ValueMaps
        /\ NumbersInv
    BY DEF DocInv, ValuesInv
  <1>4. \A q \in Programs : OpValues(op'[q])
    BY <1>2, <1>3
  <1>5. ValuesInv'
    BY <1>3, <1>4 DEF ValuesInv
  <1>6. NumbersInv'
    <2>1. ASSUME NEW x \in Programs, NEW y \in Programs, x # y, op'[x].n # 0
          PROVE  op'[x].n # op'[y].n
      <3>1. CASE x = p
        BY <1>2, <2>1, <3>1
      <3>2. CASE y = p
        BY <1>2, <2>1, <3>2
      <3>3. CASE x # p /\ y # p
        BY <1>2, <1>3, <2>1, <3>3 DEF NumbersInv
      <3>4. QED
        BY <3>1, <3>2, <3>3
    <2>2. QED
      BY <2>1 DEF NumbersInv
  <1>7. EditInv(p)'
    BY <1>2 DEF EditInv
  <1>8. ASSUME NEW q \in Programs \ {p} PROVE EditInv(q)'
    <2>1. EditInv(q) /\ op'[q] = op[q] /\ op[q].n # o.n
      BY <1>2, <1>3
    <2>2. EditOp(op'[q])
      BY <2>1 DEF EditInv
    <2>3. Settled(op'[q]) /\ q \notin touched' => secret'.values = op'[q].base
      BY <2>1
    <2>4. \A r \in wire' : r.n = op'[q].n => OwnRequest(op'[q], r)
      BY <2>1 DEF EditInv
    <2>5. QED
      BY <2>2, <2>3, <2>4 DEF EditInv
  <1>9. QED
    BY <1>5, <1>6, <1>7, <1>8 DEF DocInv

(* A new call edits nothing yet.                                           *)
LEMMA BeginDoc ==
  ASSUME IndInv, DocInv, NEW p \in Programs, NEW o, IsOp(o), OpValues(o),
         o.kind = "edit" => o.st = "get", Begin(p, o)
  PROVE  DocInv'
  <1>1. calls \in Nat /\ secret.values \in ValueMaps
    BY DEF IndInv, TypeInv, DocInv, ValuesInv
  <1>2. PICK n : n = calls + 1
    OBVIOUS
  <1>3. PICK new : new = [o EXCEPT !.n = n, !.left = MaxRetries]
    OBVIOUS
  <1>4. op' = [op EXCEPT ![p] = new] /\ UNCHANGED <<secret, wire, touched>>
    BY <1>2, <1>3 DEF Begin
  <1>5. /\ new.n = n /\ new.st = o.st /\ new.kind = o.kind /\ new.values = o.values
        /\ new.base = o.base /\ new.text = o.text /\ new.keys = o.keys
    BY <1>3 DEF IsOp
  <1>6. OpValues(new) /\ EditOp(new) /\ ~Settled(new)
    BY <1>5 DEF OpValues, EditOp, Settled
  <1>7. \A q \in Programs \ {p} : op[q].n # new.n
    BY <1>1, <1>2, <1>5, OpFields
  <1>8. \A r \in wire' : r.n # new.n
    BY <1>1, <1>2, <1>4, <1>5 DEF IndInv, TypeInv, WireInv
  <1>9. \A q \in Programs \ {p} : Settled(op[q]) /\ q \notin touched' => secret'.values = op[q].base
    BY <1>4 DEF DocInv, EditInv
  <1>10. secret'.values \in ValueMaps /\ wire' \ wire = {}
    BY <1>1, <1>4
  <1>11. QED
    BY <1>4, <1>6, <1>7, <1>8, <1>9, <1>10, OneEdit

LEMMA NoOpValues ==
  /\ IsOp(NoOp) /\ NoOp.values \in ValueMaps /\ NoOp.base \in ValueMaps /\ NoOp.text \in ValueMaps
  /\ NoOp.keys = Fields
  BY NoOpFields, NoValuesFit DEF NoOp

LEMMA CallsDoc ==
  ASSUME IndInv, DocInv, NEW p \in Programs,
         \/ \E values \in Maps, bad \in BOOLEAN : BeginCreate(p, values, bad)
         \/ \E values \in Maps, merge \in BOOLEAN : BeginPut(p, values, merge)
         \/ \E keys \in SUBSET Fields \ {{}}, fmt \in {"env", "yaml"}, merge \in BOOLEAN :
              BeginEdit(p, keys, fmt, merge)
  PROVE  DocInv'
  <1>1. Maps \subseteq ValueMaps
    BY MapsAssumption DEF ValueMaps
  <1>2. ASSUME NEW values \in Maps, NEW bad \in BOOLEAN, BeginCreate(p, values, bad)
        PROVE  DocInv'
    <2>1. PICK o : o = [NoOp EXCEPT !.st = "post", !.kind = "create", !.values = values, !.bad = bad]
      OBVIOUS
    <2>2. /\ IsOp(o) /\ o.values = values /\ o.kind = "create"
          /\ o.base = NoOp.base /\ o.text = NoOp.text /\ o.keys = NoOp.keys
      BY <2>1, NoOpValues DEF IsOp
    <2>3. Begin(p, o) /\ OpValues(o)
      BY <1>1, <1>2, <2>1, <2>2, NoOpValues DEF BeginCreate, OpValues
    <2>4. QED
      BY <2>2, <2>3, BeginDoc
  <1>3. ASSUME NEW values \in Maps, NEW merge \in BOOLEAN, BeginPut(p, values, merge)
        PROVE  DocInv'
    <2>1. PICK o : o = [NoOp EXCEPT !.st = "put", !.kind = "put", !.values = values, !.merge = merge]
      OBVIOUS
    <2>2. /\ IsOp(o) /\ o.values = values /\ o.kind = "put"
          /\ o.base = NoOp.base /\ o.text = NoOp.text /\ o.keys = NoOp.keys
      BY <2>1, NoOpValues DEF IsOp
    <2>3. Begin(p, o) /\ OpValues(o)
      BY <1>1, <1>3, <2>1, <2>2, NoOpValues DEF BeginPut, OpValues
    <2>4. QED
      BY <2>2, <2>3, BeginDoc
  <1>4. ASSUME NEW keys \in SUBSET Fields \ {{}}, NEW fmt \in {"env", "yaml"},
               NEW merge \in BOOLEAN, BeginEdit(p, keys, fmt, merge)
        PROVE  DocInv'
    <2>1. PICK o : o = [NoOp EXCEPT !.st = "get", !.kind = "edit", !.keys = keys, !.fmt = fmt,
                                    !.merge = merge]
      OBVIOUS
    <2>2. /\ IsOp(o) /\ o.values = NoOp.values /\ o.kind = "edit" /\ o.st = "get"
          /\ o.base = NoOp.base /\ o.text = NoOp.text /\ o.keys = keys
      BY <2>1, NoOpValues DEF IsOp
    <2>3. Begin(p, o) /\ OpValues(o)
      BY <1>4, <2>1, <2>2, NoOpValues DEF BeginEdit, OpValues
    <2>4. QED
      BY <2>2, <2>3, BeginDoc
  <1>5. QED
    BY <1>2, <1>3, <1>4

-----------------------------------------------------------------------------
SameEdit(o, x) ==
  /\ o.kind = x.kind /\ o.n = x.n /\ o.keys = x.keys /\ o.fmt = x.fmt /\ o.merge = x.merge
  /\ o.values = x.values /\ o.base = x.base /\ o.text = x.text

(* An edit that sends on, ends, or fails.                                  *)
LEMMA EditMoves ==
  ASSUME NEW x, OpValues(x), EditOp(x), NEW o, SameEdit(o, x),
         x.kind = "edit" => o.st = "failed" \/ (x.st = "put" /\ o.st \in {"put", "done"})
  PROVE  /\ OpValues(o) /\ EditOp(o)
         /\ Settled(o) => Settled(x) /\ x.st = "put"
         /\ \A r : OwnRequest(x, r) => OwnRequest(o, r)
  <1>1. Read(o) = Read(x) /\ (Clean(o) <=> Clean(x)) /\ (Whole(o) <=> Whole(x))
    BY DEF SameEdit, Read, Clean, Whole
  <1>2. OpValues(o)
    BY DEF SameEdit, OpValues
  <1>3. EditOp(o)
    BY <1>1 DEF SameEdit, EditOp
  <1>4. Settled(o) => Settled(x) /\ x.st = "put"
    BY <1>1 DEF SameEdit, Settled
  <1>5. \A r : OwnRequest(x, r) => OwnRequest(o, r)
    BY DEF SameEdit, OwnRequest
  <1>6. QED
    BY <1>2, <1>3, <1>4, <1>5

LEMMA StateEdit ==
  ASSUME NEW x, IsOp(x), NEW st
  PROVE  SameEdit([x EXCEPT !.st = st], x) /\ [x EXCEPT !.st = st].st = st
  <1>1. PICK o : o = [x EXCEPT !.st = st]
    OBVIOUS
  <1>2. SameEdit(o, x) /\ o.st = st
    BY <1>1 DEF IsOp, SameEdit
  <1>3. QED
    BY <1>1, <1>2

LEMMA RepeatedEdit ==
  ASSUME NEW x, IsOp(x)
  PROVE  SameEdit(Repeated(x), x) /\ Repeated(x).st \in {x.st, "failed"}
  <1>1. PICK left, a, b : /\ left = x.left - 1 /\ a = [x EXCEPT !.left = left]
                          /\ b = [x EXCEPT !.st = "failed"]
    OBVIOUS
  <1>2. \A c \in {a, b} : SameEdit(c, x) /\ c.st \in {x.st, "failed"}
    BY <1>1 DEF IsOp, SameEdit
  <1>3. Repeated(x) \in {a, b}
    BY <1>1 DEF Repeated
  <1>4. QED
    BY <1>2, <1>3

LEMMA AfterPostEdit ==
  ASSUME NEW x, IsOp(x)
  PROVE  SameEdit(AfterPost(x), x)
  <1>1. PICK a, b, c : /\ a = [x EXCEPT !.st = "failed"] /\ b = [x EXCEPT !.st = "done"]
                       /\ c = [x EXCEPT !.st = "put", !.left = MaxRetries]
    OBVIOUS
  <1>2. \A o \in {a, b, c} : SameEdit(o, x)
    BY <1>1 DEF IsOp, SameEdit
  <1>3. AfterPost(x) \in {a, b, c}
    BY <1>1 DEF AfterPost
  <1>4. QED
    BY <1>2, <1>3

(* A request is sent: executed, lost, or on its way.                       *)
LEMMA SendDoc ==
  ASSUME IndInv, DocInv, NEW p \in Programs, At(p, "post") \/ At(p, "put"),
         NEW o, op' = [op EXCEPT ![p] = o], SameEdit(o, op[p]),
         At(p, "put") => o.st \in {"put", "done", "failed"},
         NEW r, r = Request(p),
         \/ Perform(r) /\ wire' = wire
         \/ UNCHANGED <<secret, touched>> /\ wire' \in {wire, wire \cup {r}}
  PROVE  DocInv'
  <1>1. /\ OpValues(op[p]) /\ EditInv(p) /\ EditOp(op[p]) /\ NumbersInv /\ secret.values \in ValueMaps
        /\ \A q \in Programs : Settled(op[q]) /\ q \notin touched => secret.values = op[q].base
    BY DEF DocInv, ValuesInv, EditInv
  <1>2. /\ r.act = op[p].st /\ r.act \in {"post", "put"} /\ r.n = op[p].n /\ r.n # 0
        /\ r.values = op[p].values /\ r.merge = op[p].merge /\ r.values \in ValueMaps
    BY <1>1, OpFields DEF Request, At, OpValues
  <1>3. op[p].kind = "edit" => op[p].st = "put"
    BY <1>1, <1>2 DEF EditOp
  <1>4. OwnRequest(op[p], r)
    BY <1>2, <1>3 DEF OwnRequest
  <1>5. op[p].kind = "edit" => o.st = "failed" \/ (op[p].st = "put" /\ o.st \in {"put", "done"})
    BY <1>3 DEF At
  <1>6. /\ OpValues(o) /\ EditOp(o)
        /\ Settled(o) => Settled(op[p]) /\ op[p].st = "put"
        /\ \A s : OwnRequest(op[p], s) => OwnRequest(o, s)
    BY <1>1, <1>5, EditMoves
  <1>7. o.n = op[p].n /\ o.base = op[p].base
    BY DEF SameEdit
  <1>8. \A q \in Programs \ {p} : op[q].n # o.n
    BY <1>1, <1>2, <1>7 DEF NumbersInv
  <1>9. \A s \in wire' : s.n = o.n => OwnRequest(o, s)
    BY <1>1, <1>4, <1>6, <1>7 DEF EditInv
  <1>10. \A s \in wire' \ wire : s.values \in ValueMaps /\ s.n = o.n
    BY <1>2, <1>7
  <1>11. /\ secret'.values \in ValueMaps
         /\ \A q \in Programs : Settled(op[q]) /\ q \notin touched' => secret'.values = op[q].base
    <2>1. CASE Perform(r)
      <3>1. /\ secret'.values \in ValueMaps
            /\ \A q \in Programs :
                 /\ Settled(op[q]) /\ q \notin touched'
                 /\ r.n = op[q].n => OwnRequest(op[q], r)
                 => secret'.values = op[q].base
        BY <1>2, <2>1, PerformReads
      <3>2. \A q \in Programs : r.n = op[q].n => OwnRequest(op[q], r)
        BY <1>2, <1>4, <1>7, <1>8
      <3>3. QED
        BY <3>1, <3>2
    <2>2. CASE UNCHANGED <<secret, touched>>
      BY <1>1, <2>2
    <2>3. QED
      BY <2>1, <2>2
  <1>12. Settled(o) /\ p \notin touched' => secret'.values = o.base
    BY <1>6, <1>7, <1>11
  <1>13. QED
    BY <1>6, <1>8, <1>9, <1>10, <1>11, <1>12, OneEdit

LEMMA AnsweredDoc ==
  ASSUME IndInv, DocInv, NEW p \in Programs, Answered(p)
  PROVE  DocInv'
  <1> DEFINE o == IF ~Accepted(Request(p)) THEN [op[p] EXCEPT !.st = "failed"]
                  ELSE IF At(p, "post") THEN AfterPost(op[p])
                  ELSE [op[p] EXCEPT !.st = "done"]
  <1>1. /\ At(p, "post") \/ At(p, "put")
        /\ Perform(Request(p)) /\ wire' = wire /\ op' = [op EXCEPT ![p] = o]
    BY DEF Answered
  <1>2. IsOp(op[p])
    BY OpFields
  <1>3. SameEdit(o, op[p]) /\ (At(p, "put") => o.st \in {"done", "failed"})
    <2>1. CASE ~Accepted(Request(p))
      <3>1. o = [op[p] EXCEPT !.st = "failed"]
        BY <2>1
      <3> HIDE DEF o
      <3>2. QED
        BY <1>2, <3>1, StateEdit
    <2>2. CASE Accepted(Request(p)) /\ At(p, "post")
      <3>1. o = AfterPost(op[p]) /\ ~At(p, "put")
        BY <2>2 DEF At
      <3> HIDE DEF o
      <3>2. QED
        BY <1>2, <3>1, AfterPostEdit
    <2>3. CASE Accepted(Request(p)) /\ ~At(p, "post")
      <3>1. o = [op[p] EXCEPT !.st = "done"]
        BY <2>3
      <3> HIDE DEF o
      <3>2. QED
        BY <1>2, <3>1, StateEdit
    <2>4. QED
      BY <2>1, <2>2, <2>3
  <1> HIDE DEF o
  <1>4. QED
    BY <1>1, <1>3, SendDoc

LEMMA UnansweredDoc ==
  ASSUME IndInv, DocInv, NEW p \in Programs, Unanswered(p)
  PROVE  DocInv'
  <1>1. PICK r, o : r = Request(p) /\ o = Repeated(op[p])
    OBVIOUS
  <1>2. /\ At(p, "post") \/ At(p, "put")
        /\ op' = [op EXCEPT ![p] = o]
        /\ \/ Perform(r) /\ wire' = wire
           \/ UNCHANGED <<secret, touched>> /\ wire' \in {wire, wire \cup {r}}
    BY <1>1 DEF Unanswered
  <1>3. SameEdit(o, op[p]) /\ o.st \in {op[p].st, "failed"}
    BY <1>1, OpFields, RepeatedEdit
  <1>4. At(p, "put") => o.st \in {"put", "done", "failed"}
    BY <1>3 DEF At
  <1>5. QED
    BY <1>1, <1>2, <1>3, <1>4, SendDoc

LEMMA LateDoc ==
  ASSUME IndInv, DocInv, NEW r \in wire, Late(r)
  PROVE  DocInv'
  <1>1. op' = op /\ wire' \subseteq wire /\ Perform(r)
    BY DEF Late
  <1>2. r.act \in {"post", "put"} /\ r.values \in ValueMaps
    BY DEF IndInv, TypeInv, WireInv, DocInv, ValuesInv
  <1>3. \A q \in Programs : r.n = op[q].n => OwnRequest(op[q], r)
    BY DEF DocInv, EditInv
  <1>4. /\ secret'.values \in ValueMaps
        /\ \A q \in Programs :
             /\ Settled(op[q]) /\ q \notin touched'
             /\ r.n = op[q].n => OwnRequest(op[q], r)
             => secret'.values = op[q].base
    BY <1>1, <1>2, PerformReads
  <1>5. ValuesInv' /\ NumbersInv'
    BY <1>1, <1>4 DEF DocInv, ValuesInv, NumbersInv
  <1>6. \A q \in Programs : EditInv(q)'
    BY <1>1, <1>3, <1>4 DEF DocInv, EditInv
  <1>7. QED
    BY <1>5, <1>6 DEF DocInv

-----------------------------------------------------------------------------
(* A step of a program that leaves the secret and the requests alone.      *)
LEMMA LocalDoc ==
  ASSUME IndInv, DocInv, NEW p \in Programs, op[p].n # 0, NEW o, op' = [op EXCEPT ![p] = o],
         UNCHANGED <<secret, wire>>, touched \ {p} \subseteq touched', o.n = op[p].n,
         OpValues(o), EditOp(o),
         \A r \in wire : r.n = o.n => OwnRequest(o, r),
         Settled(o) /\ p \notin touched' => secret.values = o.base
  PROVE  DocInv'
  <1>1. secret'.values \in ValueMaps /\ wire' \ wire = {} /\ secret' = secret /\ NumbersInv
    BY DEF DocInv, ValuesInv
  <1>2. \A q \in Programs \ {p} : op[q].n # o.n
    BY <1>1 DEF NumbersInv
  <1>3. \A q \in Programs \ {p} : Settled(op[q]) /\ q \notin touched' => secret'.values = op[q].base
    BY <1>1 DEF DocInv, EditInv
  <1>4. QED
    BY <1>1, <1>2, <1>3, OneEdit

LEMMA FailureDoc ==
  ASSUME IndInv, DocInv, NEW p \in Programs, op[p].n # 0,
         op' = [op EXCEPT ![p] = [op[p] EXCEPT !.st = "failed"]],
         UNCHANGED <<secret, wire, touched>>
  PROVE  DocInv'
  <1>1. PICK o : o = [op[p] EXCEPT !.st = "failed"]
    OBVIOUS
  <1>2. SameEdit(o, op[p]) /\ o.st = "failed"
    BY <1>1, OpFields, StateEdit
  <1>3. OpValues(op[p]) /\ EditInv(p) /\ EditOp(op[p])
    BY DEF DocInv, ValuesInv, EditInv
  <1>4. OpValues(o) /\ EditOp(o) /\ (\A r : OwnRequest(op[p], r) => OwnRequest(o, r))
    BY <1>2, <1>3, EditMoves
  <1>5. ~Settled(o) /\ o.n = op[p].n
    BY <1>2 DEF Settled, SameEdit
  <1>6. \A r \in wire : r.n = o.n => OwnRequest(o, r)
    BY <1>3, <1>4, <1>5 DEF EditInv
  <1>7. op' = [op EXCEPT ![p] = o]
    BY <1>1
  <1>8. QED
    BY <1>4, <1>5, <1>6, <1>7, LocalDoc

LEMMA ReadingDoc ==
  ASSUME IndInv, DocInv, NEW p \in Programs, Get(p) \/ GetFails(p) \/ PutBack(p)
  PROVE  DocInv'
  <1>1. op[p].n # 0 /\ op[p].st \in {"get", "edit"} /\ op[p].kind = "edit" /\ IsOp(op[p])
    BY OpFields DEF Get, GetFails, PutBack, At
  <1>2. /\ OpValues(op[p]) /\ EditInv(p) /\ EditOp(op[p]) /\ secret.values \in ValueMaps
    BY DEF DocInv, ValuesInv, EditInv
  <1>3. \A r \in wire : r.n # op[p].n
    BY <1>1, <1>2 DEF EditInv, OwnRequest
  <1>4. CASE Get(p)
    <2> DEFINE read == [f \in Fields |-> IF f \in op[p].keys THEN secret.values[f] ELSE None]
    <2>1. PICK text : text = Serialized(op[p].fmt, read)
      OBVIOUS
    <2>2. PICK o : o = [op[p] EXCEPT !.st = "edit", !.base = secret.values, !.text = text]
      OBVIOUS
    <2>3. op' = [op EXCEPT ![p] = o] /\ UNCHANGED <<secret, wire>> /\ touched' = touched \ {p}
      BY <1>4, <2>1, <2>2 DEF Get
    <2>4. /\ o.st = "edit" /\ o.base = secret.values /\ o.text = text /\ o.n = op[p].n
          /\ o.fmt = op[p].fmt /\ o.keys = op[p].keys /\ o.values = op[p].values /\ o.kind = "edit"
      BY <1>1, <2>2 DEF IsOp
    <2>5. read = Read(o)
      BY <2>4 DEF Read
    <2>6. read \in ValueMaps
      BY <1>2 DEF ValueMaps
    <2> HIDE DEF read
    <2>7. text \in ValueMaps
      BY <2>1, <2>6, DocumentReadBack
    <2>8. OpValues(o)
      BY <1>2, <2>4, <2>7 DEF OpValues
    <2>9. EditOp(o)
      BY <2>1, <2>4, <2>5 DEF EditOp
    <2>10. QED
      BY <1>1, <1>3, <2>3, <2>4, <2>8, <2>9, LocalDoc
  <1>5. CASE GetFails(p)
    BY <1>1, <1>5, FailureDoc DEF GetFails
  <1>6. CASE PutBack(p) /\ (Broken(op[p].fmt, op[p].text) \/ Given(op[p].text) = {})
    BY <1>1, <1>6, FailureDoc DEF PutBack
  <1>7. CASE PutBack(p) /\ ~(Broken(op[p].fmt, op[p].text) \/ Given(op[p].text) = {})
    <2>1. PICK values : values = Parsed(op[p].fmt, op[p].text)
      OBVIOUS
    <2>2. PICK o : o = [op[p] EXCEPT !.st = "put", !.values = values, !.left = MaxRetries]
      OBVIOUS
    <2>3. op' = [op EXCEPT ![p] = o] /\ UNCHANGED <<secret, wire, touched>>
      BY <1>7, <2>1, <2>2 DEF PutBack
    <2>4. /\ o.st = "put" /\ o.base = op[p].base /\ o.text = op[p].text /\ o.n = op[p].n
          /\ o.fmt = op[p].fmt /\ o.keys = op[p].keys /\ o.values = values /\ o.kind = "edit"
          /\ o.merge = op[p].merge
      BY <1>1, <2>2 DEF IsOp
    <2>5. op[p].st = "edit" /\ op[p].text = Serialized(op[p].fmt, Read(op[p]))
      BY <1>1, <1>2, <1>7 DEF PutBack, At, EditOp
    <2>6. /\ Read(op[p]) \in ValueMaps
          /\ Clean(op[p]) =>
               \A f \in Given(Read(op[p])) : Survives(op[p].fmt, Read(op[p])[f])
      BY <1>2, ReadOfBase
    <2>7. Clean(op[p]) => values = Read(op[p])
      BY <2>1, <2>5, <2>6, DocumentReadBack
    <2>8. /\ Read(o) = Read(op[p]) /\ (Clean(o) <=> Clean(op[p])) /\ (Whole(o) <=> Whole(op[p]))
      BY <2>4 DEF Read, Clean, Whole
    <2>9. OpValues(o)
      <3>1. values \in ValueMaps
        BY <1>2, <2>1, ParsedType DEF OpValues
      <3>2. QED
        BY <1>2, <2>4, <3>1 DEF OpValues
    <2>10. EditOp(o)
      BY <2>4, <2>7, <2>8 DEF EditOp
    <2>11. Settled(o) => Settled(op[p])
      BY <1>1, <2>5, <2>8 DEF Settled
    <2>12. Settled(o) /\ p \notin touched' => secret.values = o.base
      BY <1>2, <2>3, <2>4, <2>11 DEF EditInv
    <2>13. QED
      BY <1>1, <1>3, <2>3, <2>4, <2>9, <2>10, <2>12, LocalDoc
  <1>8. QED
    BY <1>4, <1>5, <1>6, <1>7

LEMMA StepDoc == IndInv /\ DocInv /\ [Next]_vars => DocInv'
  <1> SUFFICES ASSUME IndInv, DocInv, [Next]_vars PROVE DocInv'
    OBVIOUS
  <1>1. ASSUME NEW p \in Programs,
               \/ \E values \in Maps, bad \in BOOLEAN : BeginCreate(p, values, bad)
               \/ \E values \in Maps, merge \in BOOLEAN : BeginPut(p, values, merge)
               \/ \E keys \in SUBSET Fields \ {{}}, fmt \in {"env", "yaml"}, merge \in BOOLEAN :
                    BeginEdit(p, keys, fmt, merge)
        PROVE  DocInv'
    BY <1>1, CallsDoc
  <1>2. ASSUME NEW p \in Programs, Answered(p) PROVE DocInv'
    BY <1>2, AnsweredDoc
  <1>3. ASSUME NEW p \in Programs, Unanswered(p) PROVE DocInv'
    BY <1>3, UnansweredDoc
  <1>4. ASSUME NEW p \in Programs, Get(p) \/ GetFails(p) \/ PutBack(p) PROVE DocInv'
    BY <1>4, ReadingDoc
  <1>5. ASSUME NEW r \in wire, Late(r) PROVE DocInv'
    BY <1>5, LateDoc
  <1>6. CASE UNCHANGED vars
    <2>1. secret' = secret /\ op' = op /\ wire' = wire /\ touched' = touched
      BY <1>6 DEF vars
    <2>2. ValuesInv' /\ NumbersInv'
      BY <2>1 DEF DocInv, ValuesInv, NumbersInv
    <2>3. \A p \in Programs : EditInv(p)'
      BY <2>1 DEF DocInv, EditInv
    <2>4. QED
      BY <2>2, <2>3 DEF DocInv
  <1>7. QED
    BY <1>1, <1>2, <1>3, <1>4, <1>5, <1>6 DEF Next, Finished

LEMMA DocInvariance == Spec => [](IndInv /\ DocInv)
  <1>1. Init => IndInv /\ DocInv
    BY InitInd, InitDoc
  <1>2. (IndInv /\ DocInv) /\ [Next]_vars => (IndInv /\ DocInv)'
    BY StepInd, StepDoc
  <1>3. QED
    BY <1>1, <1>2, PTL DEF Spec

-----------------------------------------------------------------------------
(* Calls count their attempts, and the secret has a value or none for each *)
(* key.                                                                    *)
THEOREM TypeCorrect == Spec => []TypeOK
  <1>1. IndInv => TypeOK
    BY DEF IndInv, TypeInv, OpInv, WireInv, TypeOK
  <1>2. QED
    BY <1>1, Invariance, PTL

(* However the requests of the programs mix, are repeated or come late, a  *)
(* create stores its values only in the secret that it made itself.        *)
THEOREM CreatesOwnTheirSecrets == Spec => []CreateOwns
  <1>1. IndInv => CreateOwns
    BY DEF IndInv, OwnInv, CreateOwns
  <1>2. QED
    BY <1>1, Invariance, PTL

(* However long its values are, a document can be parsed and gives back    *)
(* what it was written from, if each value it shows is one the codec gives *)
(* back (Survives says which), and putting it back leaves the secret as it *)
(* was when no other call changed it meanwhile.                            *)
THEOREM DocumentsReadBack == Spec => []ReadBack
  <1>1. ASSUME IndInv, DocInv, NEW p \in Programs, Clean(op[p]), At(p, "edit")
        PROVE  /\ ~Broken(op[p].fmt, op[p].text)
               /\ \A f \in op[p].keys : Parsed(op[p].fmt, op[p].text)[f] = op[p].base[f]
    <2>1. PICK o : o = op[p]
      OBVIOUS
    <2>2. o.kind = "edit" /\ o.st = "edit"
      BY <1>1, <2>1, OpFields DEF At
    <2>3. OpValues(o) /\ o.text = Serialized(o.fmt, Read(o))
      BY <1>1, <2>1, <2>2 DEF DocInv, ValuesInv, EditInv, EditOp
    <2>4. /\ Read(o) \in ValueMaps
          /\ \A f \in Given(Read(o)) : Survives(o.fmt, Read(o)[f])
      BY <1>1, <2>1, <2>3, ReadOfBase
    <2>5. ~Broken(o.fmt, o.text) /\ Parsed(o.fmt, o.text) = Read(o)
      BY <2>3, <2>4, DocumentReadBack
    <2>6. \A f \in o.keys : Read(o)[f] = o.base[f]
      BY <2>3 DEF Read, OpValues
    <2>7. QED
      BY <2>1, <2>5, <2>6
  <1>2. ASSUME IndInv, DocInv, NEW p \in Programs, Clean(op[p]), op[p].kind = "edit",
               At(p, "done"), p \notin touched, op[p].keys = Fields \/ op[p].merge
        PROVE  secret.values = op[p].base
    BY <1>2 DEF DocInv, EditInv, Settled, Whole, At
  <1>3. IndInv /\ DocInv => ReadBack
    BY <1>1, <1>2 DEF ReadBack, Clean
  <1>4. QED
    BY <1>3, DocInvariance, PTL
=============================================================================
