-------------------------- MODULE ObjectMovesProofs --------------------------
(***************************************************************************)
(* Proofs about ObjectMoves, for every set of keys, page size, and number  *)
(* of attempts, operations, foreign changes and late requests.             *)
(***************************************************************************)
EXTENDS ObjectMoves, FiniteSetTheorems, TLAPS

(* The shape of the operation record.                                      *)
IsOp(o) ==
  o = [st |-> o.st, kind |-> o.kind, src |-> o.src, dst |-> o.dst, steps |-> o.steps,
       left |-> o.left, page |-> o.page, token |-> o.token, got |-> o.got,
       twice |-> o.twice, todo |-> o.todo, failed |-> o.failed, single |-> o.single]

(* The requests still to come, the first one under way.                    *)
Remaining(o) ==
  \/ o.kind = "move" /\ o.steps \in {<<"copy", "head", "delete">>, <<"head", "delete">>, <<"delete">>}
  \/ o.kind = "wipe" /\ o.steps \in {<<"list", "wipe">>, <<"wipe">>}
  \/ o.kind \in {"copy", "delete", "list"} /\ o.steps = <<o.kind>>

OpInv(o) ==
  /\ IsOp(o)
  /\ o.st \in {"idle", "run", "done", "failed"}
  /\ o.left \in 0..MaxRetries
  /\ o.todo \subseteq o.got /\ o.got \subseteq Keys
  /\ o.st = "run" => Remaining(o)
  /\ o.kind \in {"move", "copy", "delete"} => o.src \in Keys /\ o.dst \in Keys

Relocates(o) == o.kind = "move" /\ o.src # o.dst

(* A request on its way: what it says, and what it has to do with the      *)
(* operation under way if that has sent it.                                *)
WireInv(r) ==
  /\ r.act \in {"copy", "delete"} /\ r.src \in Keys /\ r.dst \in Keys
  /\ r.n \in 0..ops /\ r.keep \in BOOLEAN
  /\ r.n = ops /\ Running =>
       /\ r.keep <=> Relocates(op)
       /\ r.keep => r.src = op.src /\ r.dst = op.dst
       /\ r.keep /\ r.act = "delete" => Head(op.steps) = "delete"

StoreType == [Keys -> Keys \cup {0}]

TypeInv ==
  /\ store \in StoreType
  /\ wanted \subseteq Keys /\ stable \subseteq Keys
  /\ ops \in Nat /\ stale \in BOOLEAN
  /\ OpInv(op)
  /\ \A r \in wire : WireInv(r)

(* Every wanted object is somewhere.                                       *)
KeepInv == \A v \in wanted : \E k \in Keys : store[k] = v

(* Once a move has copied its object, the copy is as good as the object.   *)
Twin(src, dst) == store[src] \in wanted => store[dst] = store[src]

CopiedInv ==
  Running /\ Relocates(op) /\ Head(op.steps) # "copy" => Twin(op.src, op.dst)

IndInv == TypeInv /\ (~stale => KeepInv /\ CopiedInv)

-----------------------------------------------------------------------------
LEMMA Bounds ==
  /\ MaxRetries \in Nat /\ 0 \in 0..MaxRetries /\ MaxRetries \in 0..MaxRetries /\ 0 \notin Keys
  BY BoundsAssumption, KeysAssumption

LEMMA NoOpFields ==
  /\ IsOp(NoOp) /\ NoOp.st = "idle" /\ NoOp.kind = "none" /\ NoOp.left = 0
  /\ NoOp.got = {} /\ NoOp.todo = {}
  BY DEF NoOp, IsOp

LEMMA InitInd == Init => IndInv
  <1> SUFFICES ASSUME Init PROVE IndInv
    OBVIOUS
  <1>1. PICK S \in SUBSET Keys : store = [k \in Keys |-> IF k \in S THEN k ELSE 0]
    BY DEF Init
  <1>2. store \in StoreType
    BY <1>1 DEF StoreType
  <1>3. OpInv(op) /\ ~Running
    BY NoOpFields, Bounds DEF Init, OpInv, Running
  <1>4. TypeInv
    BY <1>2, <1>3 DEF Init, TypeInv, Held
  <1>5. KeepInv
    BY <1>1, Bounds DEF Init, KeepInv, Held
  <1>6. QED
    BY <1>3, <1>4, <1>5 DEF IndInv, CopiedInv

-----------------------------------------------------------------------------
(* What the service does with a request.                                   *)
LEMMA EffectType ==
  ASSUME TypeInv, NEW r, r.act \in {"copy", "head", "delete"}, r.src \in Keys, r.dst \in Keys,
         Perform(r)
  PROVE  store' \in StoreType /\ wanted' \subseteq wanted /\ stable' \subseteq Keys
  <1>1. store' = Effect(r) /\ wanted' = wanted \ Dropped(r) /\ stable' \subseteq stable
    BY DEF Perform
  <1>2. Effect(r) \in StoreType
    BY DEF Effect, TypeInv, StoreType
  <1>3. QED
    BY <1>1, <1>2 DEF TypeInv

LEMMA EffectKeeps ==
  ASSUME TypeInv, KeepInv, NEW r, r.act \in {"copy", "head", "delete"},
         r.src \in Keys, r.dst \in Keys, Perform(r),
         r.act = "delete" /\ r.keep => r.src # r.dst /\ Twin(r.src, r.dst)
  PROVE  KeepInv'
  <1>1. store' = Effect(r) /\ wanted' = wanted \ Dropped(r)
    BY DEF Perform
  <1>2. store \in StoreType
    BY DEF TypeInv
  <1>3. SUFFICES ASSUME NEW v \in wanted, v \notin Dropped(r) PROVE \E k \in Keys : store'[k] = v
    BY <1>1 DEF KeepInv
  <1>4. PICK k \in Keys : store[k] = v
    BY DEF KeepInv
  <1>5. CASE r.act = "copy" /\ ~Missing(r)
    <2>1. store' = [store EXCEPT ![r.dst] = store[r.src]]
      BY <1>1, <1>5 DEF Effect
    <2>2. v # store[r.dst] \/ v = store[r.src]
      BY <1>3, <1>5 DEF Dropped
    <2>3. QED
      BY <1>2, <1>4, <2>1, <2>2 DEF StoreType
  <1>6. CASE r.act = "delete"
    <2>1. store' = [store EXCEPT ![r.src] = 0]
      BY <1>1, <1>6 DEF Effect
    <2>2. CASE r.keep
      BY <1>2, <1>4, <1>6, <2>1, <2>2 DEF StoreType, Twin
    <2>3. CASE ~r.keep
      <3>1. v # store[r.src]
        BY <1>3, <1>6, <2>3 DEF Dropped
      <3>2. QED
        BY <1>2, <1>4, <2>1, <3>1 DEF StoreType
    <2>4. QED
      BY <2>2, <2>3
  <1>7. CASE ~(r.act = "copy" /\ ~Missing(r)) /\ r.act # "delete"
    <2>1. store' = store
      BY <1>1, <1>7 DEF Effect
    <2>2. QED
      BY <1>4, <2>1
  <1>8. QED
    BY <1>5, <1>6, <1>7

(* A request of the move itself leaves the copy as good as the object, and *)
(* the copy request makes it so.                                           *)
LEMMA EffectTwin ==
  ASSUME TypeInv, NEW r, r.act \in {"copy", "head", "delete"},
         r.src \in Keys, r.dst \in Keys, r.src # r.dst, Perform(r),
         Twin(r.src, r.dst) \/ (r.act = "copy" /\ ~Missing(r))
  PROVE  Twin(r.src, r.dst)'
  <1>1. store' = Effect(r) /\ wanted' \subseteq wanted
    BY DEF Perform
  <1>2. store \in StoreType /\ wanted \subseteq Keys
    BY DEF TypeInv
  <1>3. CASE r.act = "copy" /\ ~Missing(r)
    <2>1. store' = [store EXCEPT ![r.dst] = store[r.src]]
      BY <1>1, <1>3 DEF Effect
    <2>2. QED
      BY <1>2, <2>1 DEF StoreType, Twin
  <1>4. CASE r.act = "delete"
    <2>1. store' = [store EXCEPT ![r.src] = 0]
      BY <1>1, <1>4 DEF Effect
    <2>2. store'[r.src] = 0
      BY <1>2, <2>1 DEF StoreType
    <2>3. QED
      BY <1>1, <1>2, <2>2, Bounds DEF Twin
  <1>5. CASE ~(r.act = "copy" /\ ~Missing(r)) /\ r.act # "delete"
    <2>1. store' = store
      BY <1>1, <1>5 DEF Effect
    <2>2. QED
      BY <1>1, <1>5, <2>1 DEF Twin
  <1>6. QED
    BY <1>3, <1>4, <1>5

-----------------------------------------------------------------------------
(* A step of the operation under way: what there is to show about it.      *)
LEMMA OperationStep ==
  ASSUME IndInv, NEW o, OpInv(o), op' = o, ops' = ops,
         o.kind = op.kind, o.src = op.src, o.dst = op.dst,
         o.st = "run" => Running /\ (Relocates(op) /\ Head(op.steps) = "delete"
                                       => Head(o.steps) = "delete"),
         store' \in StoreType, wanted' \subseteq wanted, stable' \subseteq Keys,
         stale' = stale,
         ~stale => KeepInv',
         ~stale /\ o.st = "run" /\ Relocates(op) /\ Head(o.steps) # "copy"
           => Twin(op.src, op.dst)',
         \A r \in wire' \ wire :
           /\ r.act \in {"copy", "delete"} /\ r.src \in Keys /\ r.dst \in Keys
           /\ r.n = ops /\ r.keep \in BOOLEAN /\ (r.keep <=> Relocates(op))
           /\ r.keep => r.src = op.src /\ r.dst = op.dst
           /\ r.keep /\ r.act = "delete" => Head(o.steps) = "delete"
  PROVE  IndInv'
  <1>1. ops \in Nat /\ wanted' \subseteq Keys /\ stale' \in BOOLEAN
    BY DEF IndInv, TypeInv
  <1>2. Relocates(op)' <=> Relocates(op)
    BY DEF Relocates
  <1>3. ASSUME NEW r \in wire' PROVE WireInv(r)'
    <2>1. CASE r \in wire
      <3>1. WireInv(r)
        BY <2>1 DEF IndInv, TypeInv
      <3>2. Running' => o.st = "run"
        BY DEF Running
      <3>3. QED
        BY <1>2, <3>1, <3>2 DEF WireInv
    <2>2. CASE r \notin wire
      BY <1>1, <1>2, <1>3, <2>2 DEF WireInv
    <2>3. QED
      BY <2>1, <2>2
  <1>4. TypeInv'
    BY <1>1, <1>3 DEF TypeInv, OpInv
  <1>5. ~stale => CopiedInv'
    BY <1>2 DEF CopiedInv, Running, Twin
  <1>6. QED
    BY <1>4, <1>5 DEF IndInv

(* The same when only the operation changes, and does not advance past a   *)
(* copy.                                                                   *)
LEMMA OperationOnly ==
  ASSUME IndInv, NEW o, OpInv(o), op' = o,
         UNCHANGED <<ops, store, wanted, stable, stale, wire>>,
         o.kind = op.kind, o.src = op.src, o.dst = op.dst,
         o.st = "run" => Running /\ (Relocates(op) => o.steps = op.steps)
  PROVE  IndInv'
  <1>1. /\ store' \in StoreType /\ wanted' \subseteq wanted /\ stable' \subseteq Keys
        /\ ops' = ops /\ stale' = stale /\ wire' = wire
    BY DEF IndInv, TypeInv
  <1>2. ~stale => KeepInv'
    BY DEF IndInv, KeepInv
  <1>3. ~stale /\ o.st = "run" /\ Relocates(op) /\ Head(o.steps) # "copy" => Twin(op.src, op.dst)'
    BY DEF IndInv, CopiedInv, Twin
  <1>4. QED
    BY <1>1, <1>2, <1>3, OperationStep

LEMMA OpFields ==
  ASSUME IndInv
  PROVE  /\ IsOp(op) /\ op.st \in {"idle", "run", "done", "failed"} /\ op.left \in 0..MaxRetries
         /\ op.todo \subseteq op.got /\ op.got \subseteq Keys
         /\ op.kind \in {"move", "copy", "delete"} => op.src \in Keys /\ op.dst \in Keys
         /\ Running => Remaining(op)
         /\ OpInv(op) /\ TypeInv
  BY DEF IndInv, TypeInv, OpInv, Running

LEMMA BeginKeeps ==
  ASSUME IndInv, NEW kind \in Kinds, NEW src, NEW dst, NEW single,
         kind \in {"move", "copy", "delete"} => src \in Keys /\ dst \in Keys,
         Begin(kind, src, dst, single)
  PROVE  IndInv'
  <1>1. PICK o : o = [NoOp EXCEPT !.st = "run", !.kind = kind, !.src = src, !.dst = dst,
                                  !.steps = Steps(kind), !.left = MaxRetries, !.page = 1,
                                  !.single = single]
    OBVIOUS
  <1>2. /\ op' = o /\ ops' = ops + 1 /\ stable' = Held
        /\ UNCHANGED <<store, wire, wanted, stale>>
    BY <1>1 DEF Begin
  <1>3. /\ IsOp(o) /\ o.st = "run" /\ o.kind = kind /\ o.src = src /\ o.dst = dst
        /\ o.steps = Steps(kind) /\ o.left = MaxRetries /\ o.got = {} /\ o.todo = {}
    BY <1>1, NoOpFields DEF IsOp
  <1>4. Remaining(o)
    BY <1>3 DEF Remaining, Steps, Kinds
  <1>5. OpInv(o)
    BY <1>3, <1>4, Bounds DEF OpInv
  <1>6. ops \in Nat
    BY DEF IndInv, TypeInv
  <1>7. \A r \in wire' : WireInv(r)'
    BY <1>2, <1>6 DEF IndInv, TypeInv, WireInv
  <1>8. TypeInv'
    BY <1>2, <1>5, <1>6, <1>7 DEF IndInv, TypeInv, Held, OpInv
  <1>9. ~stale => KeepInv'
    BY <1>2 DEF IndInv, KeepInv
  <1>10. kind = "move" => Head(o.steps) = "copy"
    BY <1>3 DEF Steps
  <1>11. CopiedInv'
    BY <1>2, <1>3, <1>10 DEF CopiedInv, Relocates
  <1>12. QED
    BY <1>2, <1>8, <1>9, <1>11 DEF IndInv

-----------------------------------------------------------------------------
LEMMA AdvancedFields ==
  ASSUME IndInv, Running
  PROVE  /\ OpInv(Advanced(op))
         /\ Advanced(op).kind = op.kind /\ Advanced(op).src = op.src /\ Advanced(op).dst = op.dst
         /\ Advanced(op).st = "run" => ~(Relocates(op) /\ Head(op.steps) = "delete")
  <1>1. PICK o : o = Advanced(op)
    OBVIOUS
  <1>2. PICK st : st = IF Len(op.steps) = 1 THEN "done" ELSE "run"
    OBVIOUS
  <1>3. o = [op EXCEPT !.steps = Tail(op.steps), !.left = MaxRetries, !.st = st]
    BY <1>1, <1>2 DEF Advanced
  <1>4. IsOp(op)
    BY OpFields
  <1>5. /\ IsOp(o) /\ o.kind = op.kind /\ o.src = op.src /\ o.dst = op.dst
        /\ o.left = MaxRetries /\ o.got = op.got /\ o.todo = op.todo
        /\ o.st = st /\ o.steps = Tail(op.steps)
    BY <1>3, <1>4 DEF IsOp
  <1>6. st = "run" => Remaining(o)
    <2>1. /\ Tail(<<"copy", "head", "delete">>) = <<"head", "delete">>
          /\ Tail(<<"head", "delete">>) = <<"delete">> /\ Tail(<<"list", "wipe">>) = <<"wipe">>
      OBVIOUS
    <2>2. \A x : Len(<<x>>) = 1
      OBVIOUS
    <2>3. Remaining(op)
      BY OpFields
    <2>4. CASE op.kind = "move"
      BY <1>2, <1>5, <2>1, <2>2, <2>3, <2>4 DEF Remaining
    <2>5. CASE op.kind = "wipe"
      BY <1>2, <1>5, <2>1, <2>2, <2>3, <2>5 DEF Remaining
    <2>6. CASE op.kind \in {"copy", "delete", "list"}
      BY <1>2, <1>5, <2>2, <2>3, <2>6 DEF Remaining
    <2>7. QED
      BY <2>3, <2>4, <2>5, <2>6 DEF Remaining
  <1>7. op.kind = "move" /\ Head(op.steps) = "delete" => st = "done"
    BY <1>2, OpFields DEF Remaining
  <1>8. OpInv(o)
    BY <1>2, <1>5, <1>6, OpFields, Bounds DEF OpInv
  <1>9. QED
    BY <1>1, <1>5, <1>7, <1>8 DEF Relocates

LEMMA StateKeeps ==
  ASSUME IndInv, NEW st \in {"failed", "done"}, op' = [op EXCEPT !.st = st],
         UNCHANGED <<ops, store, wanted, stable, stale, wire>>
  PROVE  IndInv'
  <1>1. IsOp(op)
    BY OpFields
  <1>2. PICK o : o = [op EXCEPT !.st = st]
    OBVIOUS
  <1>3. /\ IsOp(o) /\ o.kind = op.kind /\ o.src = op.src /\ o.dst = op.dst /\ o.left = op.left
        /\ o.got = op.got /\ o.todo = op.todo /\ o.st = st
    BY <1>1, <1>2 DEF IsOp
  <1>4. OpInv(o)
    BY <1>3, OpFields DEF OpInv
  <1>5. QED
    BY <1>2, <1>3, <1>4, OperationOnly

LEMMA RepeatedFields ==
  ASSUME IndInv, Running
  PROVE  /\ OpInv(Repeated(op)) /\ Repeated(op).kind = op.kind
         /\ Repeated(op).src = op.src /\ Repeated(op).dst = op.dst
         /\ Repeated(op).steps = op.steps
  <1>1. IsOp(op) /\ op.left \in 0..MaxRetries /\ MaxRetries \in Nat
    BY OpFields, Bounds
  <1>2. PICK o : o = Repeated(op)
    OBVIOUS
  <1>3. CASE op.left > 0
    <2>1. o = [op EXCEPT !.left = op.left - 1] /\ op.left - 1 \in 0..MaxRetries
      BY <1>1, <1>2, <1>3 DEF Repeated
    <2>2. /\ IsOp(o) /\ o.kind = op.kind /\ o.src = op.src /\ o.dst = op.dst /\ o.steps = op.steps
          /\ o.left \in 0..MaxRetries /\ o.got = op.got /\ o.todo = op.todo /\ o.st = op.st
      BY <1>1, <2>1 DEF IsOp
    <2>3. OpInv(o)
      BY <2>2, OpFields DEF OpInv, Remaining, Running
    <2>4. QED
      BY <1>2, <2>2, <2>3
  <1>4. CASE ~(op.left > 0)
    <2>1. o = [op EXCEPT !.st = "failed"]
      BY <1>2, <1>4 DEF Repeated
    <2>2. /\ IsOp(o) /\ o.kind = op.kind /\ o.src = op.src /\ o.dst = op.dst /\ o.steps = op.steps
          /\ o.left = op.left /\ o.got = op.got /\ o.todo = op.todo /\ o.st = "failed"
      BY <1>1, <2>1 DEF IsOp
    <2>3. OpInv(o)
      BY <2>2, OpFields DEF OpInv
    <2>4. QED
      BY <1>2, <2>2, <2>3
  <1>5. QED
    BY <1>3, <1>4

(* The request under way.                                                  *)
LEMMA AskedFields ==
  ASSUME IndInv, Doing("copy") \/ Doing("head") \/ Doing("delete")
  PROVE  /\ Running /\ Asked.act \in {"copy", "head", "delete"} /\ Asked.act = Head(op.steps)
         /\ Asked.src = op.src /\ Asked.dst = op.dst /\ op.src \in Keys /\ op.dst \in Keys
         /\ Asked.n = ops /\ Asked.keep \in BOOLEAN /\ (Asked.keep <=> Relocates(op))
  <1>1. Running /\ Head(op.steps) \in {"copy", "head", "delete"} /\ Remaining(op)
    BY OpFields DEF Doing
  <1>2. op.kind \in {"move", "copy", "delete"}
    BY <1>1 DEF Remaining
  <1>3. QED
    BY <1>1, <1>2, OpFields DEF Asked, Relocates

(* It is executed: nothing wanted is lost, and a move has its twin.        *)
LEMMA AskedPerformed ==
  ASSUME IndInv, Doing("copy") \/ Doing("head") \/ Doing("delete"), Perform(Asked),
         NEW src, NEW dst, src = op.src, dst = op.dst
  PROVE  /\ store' \in StoreType /\ wanted' \subseteq wanted /\ stable' \subseteq Keys
         /\ ~stale => KeepInv'
         /\ ~stale /\ Relocates(op) /\ (Head(op.steps) # "copy" \/ ~Missing(Asked))
              => Twin(src, dst)'
  <1>1. PICK r : r = Asked
    OBVIOUS
  <1>2. /\ Running /\ r.act \in {"copy", "head", "delete"} /\ r.act = Head(op.steps)
        /\ r.src = op.src /\ r.dst = op.dst /\ r.src \in Keys /\ r.dst \in Keys
        /\ (r.keep <=> Relocates(op)) /\ Perform(r)
    BY <1>1, AskedFields
  <1>3. TypeInv
    BY DEF IndInv
  <1>4. ~stale /\ Relocates(op) /\ Head(op.steps) # "copy" => Twin(r.src, r.dst)
    BY <1>2 DEF IndInv, CopiedInv
  <1>5. Relocates(op) => r.src # r.dst
    BY <1>2 DEF Relocates
  <1>6. ~stale => KeepInv'
    <2>1. ~stale => KeepInv
      BY DEF IndInv
    <2>2. QED
      BY <1>2, <1>3, <1>4, <1>5, <2>1, EffectKeeps
  <1>7. ~stale /\ Relocates(op) /\ (Head(op.steps) # "copy" \/ ~Missing(r)) => Twin(r.src, r.dst)'
    BY <1>2, <1>3, <1>4, <1>5, EffectTwin
  <1>8. r.src = src /\ r.dst = dst
    BY <1>2
  <1>9. QED
    BY <1>1, <1>2, <1>3, <1>6, <1>7, <1>8, EffectType

LEMMA AnsweredKeeps ==
  ASSUME IndInv, Answered
  PROVE  IndInv'
  <1>1. PICK o, src, dst : o = Advanced(op) /\ src = op.src /\ dst = op.dst
    OBVIOUS
  <1>2. /\ Doing("copy") \/ Doing("head") \/ Doing("delete")
        /\ ~Missing(Asked) /\ Perform(Asked) /\ op' = o
        /\ ops' = ops /\ stale' = stale /\ wire' = wire
    BY <1>1 DEF Answered
  <1>3. /\ OpInv(o) /\ o.kind = op.kind /\ o.src = op.src /\ o.dst = op.dst /\ Running
        /\ o.st = "run" => ~(Relocates(op) /\ Head(op.steps) = "delete")
    BY <1>1, <1>2, AdvancedFields, AskedFields
  <1>4. /\ store' \in StoreType /\ wanted' \subseteq wanted /\ stable' \subseteq Keys
        /\ ~stale => KeepInv'
        /\ ~stale /\ Relocates(op) => Twin(src, dst)'
    BY <1>1, <1>2, AskedPerformed
  <1>5. ~stale /\ Relocates(op) => Twin(op.src, op.dst)'
    BY <1>1, <1>2, <1>3, <1>4 DEF Twin
  <1>6. QED
    BY <1>2, <1>3, <1>4, <1>5, OperationStep

LEMMA UnansweredKeeps ==
  ASSUME IndInv, Unanswered
  PROVE  IndInv'
  <1>1. PICK o, src, dst, r : o = Repeated(op) /\ src = op.src /\ dst = op.dst /\ r = Asked
    OBVIOUS
  <1>2. /\ Doing("copy") \/ Doing("head") \/ Doing("delete")
        /\ op' = o /\ ops' = ops /\ stale' = stale
    BY <1>1 DEF Unanswered
  <1>3. /\ Running /\ r.src = op.src /\ r.dst = op.dst /\ r.n = ops /\ r.keep \in BOOLEAN
        /\ (r.keep <=> Relocates(op)) /\ op.src \in Keys /\ op.dst \in Keys
        /\ r.act = Head(op.steps) /\ r.act \in {"copy", "head", "delete"}
    BY <1>1, <1>2, AskedFields
  <1>4. /\ OpInv(o) /\ o.kind = op.kind /\ o.src = op.src /\ o.dst = op.dst /\ o.steps = op.steps
    BY <1>1, <1>3, RepeatedFields
  <1>5. /\ \/ Perform(Asked) /\ wire' = wire
           \/ UNCHANGED <<store, wanted, stable>> /\ wire' = wire
           \/ UNCHANGED <<store, wanted, stable>> /\ r.act # "head" /\ wire' = wire \cup {r}
    BY <1>1 DEF Unanswered
  <1>6. CASE Perform(Asked) /\ wire' = wire
    <2>1. /\ store' \in StoreType /\ wanted' \subseteq wanted /\ stable' \subseteq Keys
          /\ ~stale => KeepInv'
          /\ ~stale /\ Relocates(op) /\ Head(op.steps) # "copy" => Twin(src, dst)'
      BY <1>1, <1>2, <1>6, AskedPerformed
    <2>2. ~stale /\ Relocates(op) /\ Head(op.steps) # "copy" => Twin(op.src, op.dst)'
      BY <1>1, <1>2, <1>4, <2>1 DEF Twin
    <2>3. QED
      BY <1>2, <1>3, <1>4, <1>6, <2>1, <2>2, OperationStep
  <1>7. CASE /\ UNCHANGED <<store, wanted, stable>>
             /\ wire' = wire \/ (r.act # "head" /\ wire' = wire \cup {r})
    <2>1. store' \in StoreType /\ wanted' \subseteq wanted /\ stable' \subseteq Keys
      BY <1>7 DEF IndInv, TypeInv
    <2>2. ~stale => KeepInv'
      BY <1>7 DEF IndInv, KeepInv
    <2>3. ~stale /\ Relocates(op) /\ Head(op.steps) # "copy" => Twin(op.src, op.dst)'
      BY <1>2, <1>3, <1>4, <1>7 DEF IndInv, CopiedInv, Twin
    <2>4. \A x \in wire' \ wire : x = r /\ r.act \in {"copy", "delete"}
      BY <1>3, <1>7
    <2>5. \A x \in wire' \ wire :
            /\ x.act \in {"copy", "delete"} /\ x.src \in Keys /\ x.dst \in Keys
            /\ x.n = ops /\ x.keep \in BOOLEAN /\ (x.keep <=> Relocates(op))
            /\ x.keep => x.src = op.src /\ x.dst = op.dst
            /\ x.keep /\ x.act = "delete" => Head(o.steps) = "delete"
      BY <1>3, <1>4, <2>4
    <2>6. QED
      BY <1>2, <1>3, <1>4, <2>1, <2>2, <2>3, <2>5, OperationStep
  <1>8. QED
    BY <1>5, <1>6, <1>7

(* A late request: one of the move under way leaves its twin, any other    *)
(* one that changes something is counted as stale.                         *)
LEMMA LateKeeps ==
  ASSUME IndInv, NEW r \in wire, Late(r)
  PROVE  IndInv'
  <1>1. /\ op' = op /\ ops' = ops /\ wire' = wire \ {r} /\ Perform(r)
        /\ stale' = (stale \/ (store' # store /\ (r.n # ops \/ ~Running)))
    BY DEF Late
  <1>2. WireInv(r) /\ TypeInv /\ ops \in Nat /\ stale \in BOOLEAN
    BY DEF IndInv, TypeInv
  <1>3. r.act \in {"copy", "head", "delete"} /\ r.src \in Keys /\ r.dst \in Keys
    BY <1>2 DEF WireInv
  <1>4. store' \in StoreType /\ wanted' \subseteq wanted /\ stable' \subseteq Keys
    BY <1>1, <1>2, <1>3, EffectType
  <1>5. TypeInv'
    <2>1. \A x \in wire : WireInv(x)
      BY <1>2 DEF TypeInv
    <2>2. \A x \in wire : WireInv(x)'
      BY <1>1, <2>1 DEF WireInv, Running, Relocates
    <2>3. OpInv(op)'
      BY <1>1, <1>2 DEF TypeInv, OpInv
    <2>4. QED
      BY <1>1, <1>2, <1>4, <2>2, <2>3 DEF TypeInv
  <1>6. ASSUME ~stale', r.n = ops, Running PROVE KeepInv' /\ CopiedInv'
    <2>1. ~stale /\ KeepInv /\ CopiedInv
      BY <1>1, <1>2, <1>6 DEF IndInv
    <2>2. /\ r.keep <=> Relocates(op)
          /\ r.keep => r.src = op.src /\ r.dst = op.dst
          /\ r.keep /\ r.act = "delete" => Head(op.steps) = "delete"
      BY <1>2, <1>6 DEF WireInv
    <2>3. r.keep /\ Head(op.steps) # "copy" => r.src # r.dst /\ Twin(r.src, r.dst)
      BY <1>6, <2>1, <2>2 DEF CopiedInv, Relocates
    <2>4. KeepInv'
      BY <1>1, <1>2, <1>3, <2>1, <2>2, <2>3, EffectKeeps
    <2>5. r.keep /\ Head(op.steps) # "copy" => Twin(r.src, r.dst)'
      BY <1>1, <1>2, <1>3, <2>3, EffectTwin
    <2>6. CopiedInv'
      BY <1>1, <2>2, <2>5 DEF CopiedInv, Running, Relocates, Twin
    <2>7. QED
      BY <2>4, <2>6
  <1>7. ASSUME ~stale', store' = store PROVE KeepInv' /\ CopiedInv'
    <2>1. KeepInv /\ CopiedInv
      BY <1>1, <1>2, <1>7 DEF IndInv
    <2>2. QED
      BY <1>1, <1>4, <1>7, <2>1 DEF KeepInv, CopiedInv, Running, Relocates, Twin
  <1>8. QED
    BY <1>1, <1>2, <1>5, <1>6, <1>7 DEF IndInv

-----------------------------------------------------------------------------
LEMMA ListPageKeeps ==
  ASSUME IndInv, ListPage
  PROVE  IndInv'
  <1>1. PICK reply : reply = Reply(op.page, op.token)
    OBVIOUS
  <1>2. reply.items \subseteq Keys
    BY <1>1 DEF Reply, Least, Held
  <1>3. PICK twice : twice = (op.twice \/ op.got \cap reply.items # {})
    OBVIOUS
  <1>4. PICK o : o = [op EXCEPT !.got = op.got \cup reply.items,
                                !.todo = op.todo \cup reply.items, !.twice = twice]
    OBVIOUS
  <1>5. /\ op' = NextPage(o, reply) /\ Running /\ Head(op.steps) = "list"
        /\ UNCHANGED <<ops, store, wanted, stable, stale, wire>>
    BY <1>1, <1>3, <1>4 DEF ListPage, Doing, histories
  <1>6. IsOp(op)
    BY OpFields
  <1>7. /\ IsOp(o) /\ o.kind = op.kind /\ o.src = op.src /\ o.dst = op.dst /\ o.steps = op.steps
        /\ o.left = op.left /\ o.got = op.got \cup reply.items /\ o.todo = op.todo \cup reply.items
        /\ o.st = op.st
    BY <1>4, <1>6 DEF IsOp
  <1>8. o.kind \in {"list", "wipe"} /\ ~Relocates(op)
    BY <1>5, <1>7, OpFields DEF Remaining, Relocates
  <1>9. OpInv(o)
    BY <1>2, <1>5, <1>7, <1>8, OpFields DEF OpInv, Remaining, Running
  <1>10. PICK p : p = NextPage(o, reply)
    OBVIOUS
  <1>11. /\ OpInv(p) /\ p.kind = o.kind /\ p.src = o.src /\ p.dst = o.dst
    <2>1. CASE p = Advanced(o)
      <3>1. PICK st : st = IF Len(o.steps) = 1 THEN "done" ELSE "run"
        OBVIOUS
      <3>2. p = [o EXCEPT !.steps = Tail(o.steps), !.left = MaxRetries, !.st = st]
        BY <2>1, <3>1 DEF Advanced
      <3>3. /\ IsOp(p) /\ p.kind = o.kind /\ p.src = o.src /\ p.dst = o.dst
            /\ p.steps = Tail(o.steps) /\ p.left = MaxRetries /\ p.got = o.got /\ p.todo = o.todo
            /\ p.st = st
        BY <1>7, <3>2 DEF IsOp
      <3>4. Tail(<<"list", "wipe">>) = <<"wipe">> /\ (\A x : Len(<<x>>) = 1)
        OBVIOUS
      <3>5. o.steps = <<"list", "wipe">> \/ Len(o.steps) = 1
        BY <1>5, <1>7, <1>8, <3>4, OpFields DEF Remaining
      <3>6. st = "run" => Remaining(p)
        BY <1>5, <1>7, <1>8, <3>1, <3>3, <3>4, <3>5, OpFields DEF Remaining
      <3>7. QED
        BY <1>9, <3>1, <3>3, <3>6, Bounds DEF OpInv
    <2>2. CASE \E page, token : p = [o EXCEPT !.page = page, !.token = token]
      <3>1. PICK page, token : p = [o EXCEPT !.page = page, !.token = token]
        BY <2>2
      <3>2. /\ IsOp(p) /\ p.kind = o.kind /\ p.src = o.src /\ p.dst = o.dst
            /\ p.steps = o.steps /\ p.left = o.left /\ p.got = o.got /\ p.todo = o.todo
            /\ p.st = o.st
        BY <1>7, <3>1 DEF IsOp
      <3>3. QED
        BY <1>9, <3>2 DEF OpInv, Remaining
    <2>3. QED
      BY <1>10, <2>1, <2>2 DEF NextPage
  <1>12. QED
    BY <1>5, <1>7, <1>8, <1>10, <1>11, OperationOnly

LEMMA EraseOneKeeps ==
  ASSUME IndInv, NEW k \in Keys, EraseOne(k)
  PROVE  IndInv'
  <1>1. PICK ok \in BOOLEAN, gone \in BOOLEAN :
          /\ op' = [op EXCEPT !.todo = @ \ {k}, !.failed = @ \/ ErrorKept(ok)]
          /\ IF gone THEN Perform(Erasure(k)) /\ UNCHANGED wire
             ELSE /\ UNCHANGED <<store, wanted, stable, calm>>
                  /\ wire' \in {wire} \cup
                       (IF Cardinality(wire) < MaxLate THEN {wire \cup {Erasure(k)}} ELSE {})
    BY DEF EraseOne
  <1>2. PICK failed : failed = (op.failed \/ ErrorKept(ok))
    OBVIOUS
  <1>3. PICK o : o = [op EXCEPT !.todo = op.todo \ {k}, !.failed = failed]
    OBVIOUS
  <1>4. PICK r : r = Erasure(k)
    OBVIOUS
  <1>5. /\ op' = o /\ ops' = ops /\ stale' = stale /\ Running /\ Head(op.steps) = "wipe"
        /\ \/ Perform(r) /\ wire' = wire
           \/ UNCHANGED <<store, wanted, stable>> /\ wire' \in {wire, wire \cup {r}}
    BY <1>1, <1>2, <1>3, <1>4 DEF EraseOne, Doing
  <1>6. IsOp(op) /\ TypeInv
    BY OpFields
  <1>7. /\ IsOp(o) /\ o.kind = op.kind /\ o.src = op.src /\ o.dst = op.dst /\ o.steps = op.steps
        /\ o.left = op.left /\ o.got = op.got /\ o.todo = op.todo \ {k} /\ o.st = op.st
    BY <1>3, <1>6 DEF IsOp
  <1>8. op.kind = "wipe" /\ ~Relocates(op)
    BY <1>5, OpFields DEF Remaining, Relocates
  <1>9. OpInv(o)
    BY <1>7, OpFields DEF OpInv, Remaining, Running
  <1>10. /\ r.act = "delete" /\ r.src = k /\ r.dst = k /\ r.n = ops /\ r.keep = FALSE
    BY <1>4 DEF Erasure
  <1>11. CASE Perform(r) /\ wire' = wire
    <2>1. store' \in StoreType /\ wanted' \subseteq wanted /\ stable' \subseteq Keys
      BY <1>6, <1>10, <1>11, EffectType
    <2>2. ~stale => KeepInv'
      BY <1>6, <1>10, <1>11, EffectKeeps DEF IndInv
    <2>3. QED
      BY <1>5, <1>7, <1>8, <1>9, <1>11, <2>1, <2>2, OperationStep
  <1>12. CASE UNCHANGED <<store, wanted, stable>> /\ wire' \in {wire, wire \cup {r}}
    <2>1. store' \in StoreType /\ wanted' \subseteq wanted /\ stable' \subseteq Keys
      BY <1>6, <1>12 DEF TypeInv
    <2>2. ~stale => KeepInv'
      BY <1>12 DEF IndInv, KeepInv
    <2>3. \A x \in wire' \ wire : x = r
      BY <1>12
    <2>4. QED
      BY <1>5, <1>7, <1>8, <1>9, <1>10, <2>1, <2>2, <2>3, OperationStep
  <1>13. QED
    BY <1>5, <1>11, <1>12

(* What somebody else writes or removes is no longer wanted as it was.     *)
LEMMA ForeignKeeps ==
  ASSUME IndInv, NEW k \in Keys, Foreign(k)
  PROVE  IndInv'
  <1>1. /\ store' = [store EXCEPT ![k] = IF store[k] = 0 THEN k ELSE 0]
        /\ wanted' = wanted \ {store[k], k} /\ stable' = stable \ {k}
        /\ UNCHANGED <<op, wire, ops, stale>>
    BY DEF Foreign
  <1>2. store \in StoreType /\ wanted \subseteq Keys
    BY DEF IndInv, TypeInv
  <1>3. store' \in StoreType /\ store'[k] \in {0, k}
    BY <1>1, <1>2 DEF StoreType
  <1>4. \A j \in Keys \ {k} : store'[j] = store[j]
    BY <1>1, <1>2 DEF StoreType
  <1>5. TypeInv'
    <2>1. \A x \in wire : WireInv(x)
      BY DEF IndInv, TypeInv
    <2>2. \A x \in wire : WireInv(x)'
      BY <1>1, <2>1 DEF WireInv, Running, Relocates
    <2>3. OpInv(op)'
      BY <1>1 DEF IndInv, TypeInv, OpInv
    <2>4. QED
      BY <1>1, <1>3, <2>2, <2>3 DEF IndInv, TypeInv
  <1>6. ASSUME ~stale PROVE KeepInv'
    BY <1>1, <1>2, <1>4, <1>6 DEF IndInv, KeepInv
  <1>7. ASSUME ~stale, Running, Relocates(op), Head(op.steps) # "copy" PROVE Twin(op.src, op.dst)'
    <2>1. op.src \in Keys /\ op.dst \in Keys /\ op.src # op.dst /\ Twin(op.src, op.dst)
      BY <1>7, OpFields DEF IndInv, CopiedInv, Relocates
    <2>2. CASE op.src = k
      BY <1>1, <1>2, <1>3, <2>2, Bounds DEF Twin
    <2>3. CASE op.src # k
      BY <1>1, <1>2, <1>3, <1>4, <2>1, <2>3 DEF Twin
    <2>4. QED
      BY <2>2, <2>3
  <1>8. ~stale => CopiedInv'
    BY <1>1, <1>7 DEF CopiedInv, Running, Relocates
  <1>9. QED
    BY <1>1, <1>5, <1>6, <1>8 DEF IndInv

-----------------------------------------------------------------------------
LEMMA StepInd == IndInv /\ [Next]_vars => IndInv'
  <1> SUFFICES ASSUME IndInv, [Next]_vars PROVE IndInv'
    OBVIOUS
  <1>1. ASSUME NEW src \in Keys, NEW dst \in Keys,
               Begin("move", src, dst, FALSE) \/ Begin("copy", src, dst, FALSE)
        PROVE  IndInv'
    BY <1>1, BeginKeeps DEF Kinds
  <1>2. ASSUME NEW k \in Keys, Begin("delete", k, k, FALSE) PROVE IndInv'
    BY <1>2, BeginKeeps DEF Kinds
  <1>3. CASE Begin("list", 1, 1, FALSE)
    BY <1>3, BeginKeeps DEF Kinds
  <1>4. ASSUME NEW single \in BOOLEAN, Begin("wipe", 1, 1, single) PROVE IndInv'
    BY <1>4, BeginKeeps DEF Kinds
  <1>5. CASE Answered
    BY <1>5, AnsweredKeeps
  <1>6. CASE Refused \/ ListFails
    BY <1>6, StateKeeps DEF Refused, ListFails, histories
  <1>7. CASE Unanswered
    BY <1>7, UnansweredKeeps
  <1>8. ASSUME NEW r \in wire, Late(r) PROVE IndInv'
    BY <1>8, LateKeeps
  <1>9. CASE ListPage
    BY <1>9, ListPageKeeps
  <1>10. ASSUME NEW k \in Keys, EraseOne(k) PROVE IndInv'
    BY <1>10, EraseOneKeeps
  <1>11. ASSUME NEW k \in Keys, Foreign(k) PROVE IndInv'
    BY <1>11, ForeignKeeps
  <1>12. CASE EraseEnds
    <2>1. UNCHANGED <<ops, store, wanted, stable, stale, wire>> /\ Doing("wipe")
      BY <1>12 DEF EraseEnds, histories
    <2>2. CASE op.failed
      BY <1>12, <2>1, <2>2, StateKeeps DEF EraseEnds
    <2>3. CASE ~op.failed
      <3>1. op' = Advanced(op) /\ Running /\ Head(op.steps) = "wipe"
        BY <1>12, <2>3, <2>1 DEF EraseEnds, Doing
      <3>2. ~Relocates(op)
        BY <3>1, OpFields DEF Remaining, Relocates
      <3>3. QED
        BY <2>1, <3>1, <3>2, AdvancedFields, OperationOnly
    <2>4. QED
      BY <2>2, <2>3
  <1>13. CASE UNCHANGED vars
    <2>1. UNCHANGED <<ops, store, wanted, stable, stale, wire, op>>
      BY <1>13 DEF vars, histories
    <2>2. OpInv(op)' /\ \A r \in wire : WireInv(r)'
      BY <2>1 DEF IndInv, TypeInv, WireInv, OpInv, Running, Relocates
    <2>3. QED
      BY <2>1, <2>2 DEF IndInv, TypeInv, KeepInv, CopiedInv, Running, Relocates, Twin
  <1>14. QED
    BY <1>1, <1>2, <1>3, <1>4, <1>5, <1>6, <1>7, <1>8, <1>9, <1>10, <1>11, <1>12, <1>13
       DEF Next, Finished

LEMMA Invariance == Spec => []IndInv
  BY InitInd, StepInd, PTL DEF Spec

-----------------------------------------------------------------------------
(***************************************************************************)
(* Pages.  The n least elements of a set of keys: what a page can have.    *)
(***************************************************************************)
LEMMA LeastNumber ==
  ASSUME NEW S \in SUBSET Nat, S # {}
  PROVE  \E m \in S : \A n \in S : m <= n
  <1> DEFINE R == {ss \in Nat \X Nat : ss[1] < ss[2]}
  <1>1. IsWellFoundedOn(R, Nat)
    BY NatLessThanWellFounded DEF OpToRel
  <1> HIDE DEF R
  <1>2. PICK m \in S : \A n \in S : ~(<<n, m>> \in R)
    BY <1>1, WFMin
  <1>3. \A n \in S : ~(n < m)
    BY <1>2 DEF R
  <1>4. QED
    BY <1>3

LEMMA UpToIsFinite ==
  ASSUME NEW S \in SUBSET Keys, NEW k
  PROVE  /\ IsFiniteSet({j \in S : j <= k}) /\ Cardinality({j \in S : j <= k}) \in Nat
         /\ Cardinality({j \in S : j <= k}) <= Cardinality(S)
         /\ IsFiniteSet(S) /\ Cardinality(S) \in Nat
  <1>1. IsFiniteSet(S)
    BY FS_Subset, KeysAssumption
  <1>2. {j \in S : j <= k} \in SUBSET S
    OBVIOUS
  <1>3. QED
    BY <1>1, <1>2, FS_Subset, FS_CardinalityType

LEMMA LeastIsClosed ==
  ASSUME NEW S \in SUBSET Keys, NEW n \in Nat, NEW k \in Least(n, S), NEW j \in S, j <= k
  PROVE  j \in Least(n, S)
  <1>1. k \in S /\ Cardinality({i \in S : i <= k}) <= n
    BY DEF Least
  <1>2. {i \in S : i <= j} \in SUBSET {i \in S : i <= k}
    <2>1. \A i \in S : i \in Nat
      BY KeysAssumption
    <2>2. j \in Nat /\ k \in Nat /\ j <= k
      BY <1>1, <2>1
    <2>3. \A i \in S : i <= j => i <= k
      BY <2>1, <2>2
    <2>4. QED
      BY <2>3
  <1>3. Cardinality({i \in S : i <= j}) <= Cardinality({i \in S : i <= k})
    BY <1>2, UpToIsFinite, FS_Subset
  <1>4. Cardinality({i \in S : i <= j}) <= n
    BY <1>1, <1>3, UpToIsFinite
  <1>5. QED
    BY <1>4 DEF Least

LEMMA LeastGrows ==
  ASSUME NEW S \in SUBSET Keys, NEW m \in Nat, NEW n \in Nat, m <= n
  PROVE  Least(m, S) \subseteq Least(n, S)
  BY UpToIsFinite DEF Least

LEMMA LeastOfNothing ==
  ASSUME NEW S \in SUBSET Keys
  PROVE  Least(0, S) = {}
  <1>1. SUFFICES ASSUME NEW k \in Least(0, S) PROVE FALSE
    OBVIOUS
  <1>2. k \in S /\ Cardinality({i \in S : i <= k}) = 0
    BY UpToIsFinite DEF Least
  <1>3. {i \in S : i <= k} = {}
    BY <1>2, UpToIsFinite, FS_EmptySet
  <1>4. QED
    BY <1>2, <1>3, KeysAssumption

LEMMA LeastIsAll ==
  ASSUME NEW S \in SUBSET Keys, NEW n \in Nat, Cardinality(S) <= n
  PROVE  Least(n, S) = S
  BY UpToIsFinite DEF Least

(* A page that leaves something behind has a last key.                     *)
LEMMA LastOfPage ==
  ASSUME NEW S \in SUBSET Keys, NEW n \in Nat \ {0}, Least(n, S) # S
  PROVE  \E k \in Least(n, S) : \A j \in Least(n, S) : j <= k
  <1>1. Least(n, S) \subseteq S /\ S \subseteq Nat \ {0}
    BY KeysAssumption DEF Least
  <1>2. PICK b \in S : b \notin Least(n, S)
    BY <1>1
  <1>3. PICK m \in S : \A i \in S : m <= i
    BY <1>1, <1>2, LeastNumber
  <1>4. m \in Least(n, S)
    <2>1. \A i \in S : i <= m => i = m
      <3>1. \A i \in S : i \in Nat /\ m \in Nat /\ m <= i
        BY <1>1, <1>3
      <3>2. QED
        BY <3>1
    <2>2. m <= m
      BY <1>1
    <2>3. Cardinality({i \in S : i <= m}) = 1
      <3>1. {i \in S : i <= m} = {m}
        BY <2>1, <2>2
      <3>2. QED
        BY <3>1, FS_Singleton
    <2>4. QED
      BY <2>3 DEF Least
  <1> DEFINE U == {u \in Nat : \A j \in Least(n, S) : j <= u}
  <1>5. b \in U
    <2>1. ASSUME NEW j \in Least(n, S) PROVE j <= b
      <3>1. j \in Nat /\ b \in Nat
        BY <1>1
      <3>2. ~(b <= j)
        BY <1>2, LeastIsClosed
      <3>3. QED
        BY <3>1, <3>2
    <2>2. QED
      BY <1>1, <2>1
  <1>6. PICK u \in U : \A v \in U : u <= v
    BY <1>5, LeastNumber
  <1>7. u \in Least(n, S)
    <2>1. SUFFICES ASSUME u \notin Least(n, S) PROVE FALSE
      OBVIOUS
    <2>2. m <= u /\ m # 0
      BY <1>1, <1>4, <1>6
    <2>3. u - 1 \in Nat
      BY <1>1, <2>2
    <2>4. \A j \in Least(n, S) : j <= u - 1
      <3>1. ASSUME NEW j \in Least(n, S) PROVE j <= u - 1
        <4>1. j \in Nat /\ u \in Nat /\ j <= u /\ j # u
          BY <1>1, <1>6, <2>1
        <4>2. QED
          BY <4>1
      <3>2. QED
        BY <3>1
    <2>5. QED
      BY <1>6, <2>3, <2>4
  <1>8. QED
    BY <1>6, <1>7

(* By tokens a page has what there is between its token and the next one,  *)
(* or whatever is left.                                                    *)
LEMMA TokenPage ==
  ASSUME style = "token", NEW page, NEW token \in Nat, NEW reply, reply = Reply(page, token)
  PROVE  /\ reply.pages = 0 /\ reply.next \in Nat
         /\ \A k \in reply.items : k \in Held /\ k > token
         /\ reply.next = 0 => \A k \in Held : k > token => k \in reply.items
         /\ reply.next # 0 =>
              /\ reply.next > token
              /\ \A k \in reply.items : k <= reply.next
              /\ \A k \in Held : k > token /\ k <= reply.next => k \in reply.items
  <1> DEFINE rest == {k \in Held : k > token}
             items == Least(PageSize, rest)
             last == CHOOSE k \in items : \A j \in items : j <= k
  <1>1. /\ reply.items = items /\ reply.pages = 0
        /\ reply.next = IF items = rest THEN 0 ELSE last
    BY DEF Reply
  <1>2. rest \in SUBSET Keys /\ items \subseteq rest /\ PageSize \in Nat \ {0} /\ Keys \subseteq Nat \ {0}
    BY KeysAssumption, BoundsAssumption DEF Held, Least
  <1>3. ASSUME items # rest
        PROVE  last \in items /\ \A j \in items : j <= last
    BY <1>2, <1>3, LastOfPage
  <1>4. ASSUME items # rest, NEW k \in rest, k <= last PROVE k \in items
    BY <1>2, <1>3, <1>4, LeastIsClosed
  <1>5. \A k \in items : k \in Held /\ k > token
    BY <1>2
  <1> HIDE DEF items, last
  <1>6. CASE items = rest
    BY <1>1, <1>5, <1>6
  <1>7. CASE items # rest
    <2>1. reply.next = last /\ last \in items /\ last # 0 /\ last \in Nat /\ last > token
      BY <1>1, <1>2, <1>3, <1>5, <1>7
    <2>2. QED
      BY <1>1, <1>3, <1>4, <1>5, <1>7, <2>1
  <1>8. QED
    BY <1>6, <1>7

(* Division, rounded up, covers.                                           *)
LEMMA RoundedUp ==
  ASSUME NEW c \in Nat, NEW s \in Nat \ {0}, NEW n \in Nat, n >= (c + s - 1) \div s
  PROVE  c <= n * s
  <1>1. PICK q : q = (c + s - 1) \div s
    OBVIOUS
  <1>2. q \in Nat /\ c + s - 1 = s * q + ((c + s - 1) % s) /\ (c + s - 1) % s \in 0..(s - 1)
    BY <1>1
  <1>3. c <= s * q
    BY <1>2
  <1>4. s * q <= n * s
    BY <1>1, <1>2
  <1>5. QED
    BY <1>2, <1>3, <1>4

(* By numbers the first pages together have the least keys, and all of     *)
(* them when there is no further page.                                     *)
LEMMA NumberedPage ==
  ASSUME style # "token", NEW page \in Nat \ {0}, NEW token, NEW reply, reply = Reply(page, token)
  PROVE  /\ reply.next = 0 /\ reply.pages \in Nat
         /\ reply.items \cap Least((page - 1) * PageSize, Held) = {}
         /\ Least((page - 1) * PageSize, Held) \cup reply.items = Least(page * PageSize, Held)
         /\ page >= reply.pages => Least(page * PageSize, Held) = Held
  <1>1. /\ reply.items = Least(page * PageSize, Held) \ Least((page - 1) * PageSize, Held)
        /\ reply.pages = (Cardinality(Held) + PageSize - 1) \div PageSize
        /\ reply.next = 0
    BY DEF Reply
  <1>2. Held \in SUBSET Keys /\ PageSize \in Nat \ {0} /\ Cardinality(Held) \in Nat
    BY UpToIsFinite, BoundsAssumption DEF Held
  <1>3. page * PageSize \in Nat /\ (page - 1) * PageSize \in Nat
        /\ (page - 1) * PageSize <= page * PageSize
    BY <1>2
  <1>4. Least((page - 1) * PageSize, Held) \subseteq Least(page * PageSize, Held)
    BY <1>2, <1>3, LeastGrows
  <1>5. page >= reply.pages => Cardinality(Held) <= page * PageSize
    BY <1>1, <1>2, RoundedUp
  <1>6. page >= reply.pages => Least(page * PageSize, Held) = Held
    BY <1>2, <1>3, <1>5, LeastIsAll
  <1>7. reply.pages \in Nat
    BY <1>1, <1>2
  <1>8. QED
    BY <1>1, <1>4, <1>6, <1>7

-----------------------------------------------------------------------------
(***************************************************************************)
(* Listings.  What a listing has so far: by tokens, whatever was there all *)
(* the time up to its token; by page numbers, as long as nothing changed,  *)
(* exactly the least keys.  Once it is over it has all of them.            *)
(***************************************************************************)
Listed == op.kind \in {"list", "wipe"} /\ (op.st = "done" \/ Doing("wipe"))

FieldsInv ==
  /\ op.token \in Nat /\ op.page \in Nat /\ (Running => op.page >= 1)
  /\ op.twice \in BOOLEAN /\ op.failed \in BOOLEAN

StableInv == stable \subseteq Held /\ (op.st # "idle" /\ calm => stable = Held)

TokenInv ==
  Doing("list") /\ style = "token" =>
    /\ \A k \in stable : k <= op.token => k \in op.got
    /\ \A k \in op.got : k <= op.token
    /\ ~op.twice

PagesInv ==
  Doing("list") /\ style # "token" /\ calm =>
    op.got = Least((op.page - 1) * PageSize, Held) /\ ~op.twice

ListedInv == Listed /\ (calm \/ style = "token") => stable \subseteq op.got /\ ~op.twice

ListInv == FieldsInv /\ StableInv /\ TokenInv /\ PagesInv /\ ListedInv

(* What a delete_recursive has dealt with is gone, unless somebody else    *)
(* has written it since.                                                   *)
WipeInv ==
  /\ Doing("list") => op.todo = op.got
  /\ op.kind = "wipe" /\ (op.st = "done" \/ (Doing("wipe") /\ ~op.failed)) =>
       \A k \in op.got \ op.todo : k \notin touched => store[k] = 0
  /\ op.kind = "wipe" /\ op.st = "done" => op.todo = {}

(* What a request does to the records of a listing.                        *)
LEMMA PerformRecords ==
  ASSUME StableInv, NEW r, Perform(r)
  PROVE  /\ stable' \subseteq stable /\ stable' \subseteq Held'
         /\ calm' => calm /\ store' = store /\ stable' = stable
  BY DEF Perform, StableInv, Held

LEMMA AdvancedRest ==
  ASSUME NEW o, IsOp(o)
  PROVE  LET a == Advanced(o)
         IN  /\ a.kind = o.kind /\ a.got = o.got /\ a.todo = o.todo /\ a.twice = o.twice
             /\ a.page = o.page /\ a.token = o.token /\ a.failed = o.failed
             /\ a.steps = Tail(o.steps) /\ a.st = IF Len(o.steps) = 1 THEN "done" ELSE "run"
  <1>1. PICK st : st = IF Len(o.steps) = 1 THEN "done" ELSE "run"
    OBVIOUS
  <1>2. PICK a : a = [o EXCEPT !.steps = Tail(o.steps), !.left = MaxRetries, !.st = st]
    OBVIOUS
  <1>3. a = Advanced(o)
    BY <1>1, <1>2 DEF Advanced
  <1>4. /\ a.kind = o.kind /\ a.got = o.got /\ a.todo = o.todo /\ a.twice = o.twice
        /\ a.page = o.page /\ a.token = o.token /\ a.failed = o.failed
        /\ a.steps = Tail(o.steps) /\ a.st = st
    BY <1>2 DEF IsOp
  <1>5. QED
    BY <1>1, <1>3, <1>4

LEMMA RepeatedRest ==
  ASSUME NEW o, IsOp(o)
  PROVE  LET a == Repeated(o)
         IN  /\ a.kind = o.kind /\ a.twice = o.twice /\ a.page = o.page /\ a.token = o.token
             /\ a.failed = o.failed /\ a.st \in {o.st, "failed"}
  <1>1. PICK left, a, b : /\ left = o.left - 1 /\ a = [o EXCEPT !.left = left]
                          /\ b = [o EXCEPT !.st = "failed"]
    OBVIOUS
  <1>2. \A c \in {a, b} : /\ c.kind = o.kind /\ c.twice = o.twice /\ c.page = o.page
                          /\ c.token = o.token /\ c.failed = o.failed /\ c.st \in {o.st, "failed"}
    BY <1>1 DEF IsOp
  <1>3. Repeated(o) \in {a, b}
    BY <1>1 DEF Repeated
  <1>4. QED
    BY <1>2, <1>3

(* A step of an operation that lists nothing, or of one that has failed.   *)
LEMMA NotListing ==
  ASSUME IndInv', FieldsInv', StableInv',
         op'.kind \in {"move", "copy", "delete"} \/ op'.st = "failed"
  PROVE  ListInv' /\ WipeInv'
  <1>1. ~Doing("list")' /\ ~Listed' /\ ~(op'.kind = "wipe" /\ (op'.st = "done" \/ Doing("wipe")'))
    <2>1. CASE op'.st = "failed"
      BY <2>1 DEF Doing, Running, Listed
    <2>2. CASE op'.kind \in {"move", "copy", "delete"}
      <3>1. Running' => Remaining(op')
        BY DEF IndInv, TypeInv, OpInv, Running
      <3>2. Running' => Head(op'.steps) # "list"
        BY <2>2, <3>1 DEF Remaining
      <3>3. QED
        BY <2>2, <3>2 DEF Doing, Listed
    <2>3. QED
      BY <2>1, <2>2
  <1>2. QED
    BY <1>1 DEF ListInv, TokenInv, PagesInv, ListedInv, WipeInv

(* A step that leaves what was listed alone.                               *)
LEMMA ListingKept ==
  ASSUME IndInv, ListInv, NEW o, op' = o, style' = style,
         /\ o.kind = op.kind /\ o.got = op.got /\ o.twice = op.twice
         /\ o.page = op.page /\ o.token = op.token /\ o.failed \in BOOLEAN,
         o.st = "run" => op.st = "run",
         o.st = "idle" <=> op.st = "idle",
         o.st = "run" /\ Head(o.steps) = "list" => Doing("list"),
         o.kind \in {"list", "wipe"} /\ (o.st = "done" \/ (o.st = "run" /\ Head(o.steps) = "wipe"))
           => Listed,
         stable' \subseteq stable, stable' \subseteq Held',
         calm' => calm /\ store' = store /\ stable' = stable
  PROVE  ListInv'
  <1>1. calm' => Held' = Held
    BY DEF Held
  <1>2. FieldsInv'
    BY DEF ListInv, FieldsInv, Running
  <1>3. StableInv'
    BY <1>1 DEF ListInv, StableInv
  <1>4. (Doing("list")' => Doing("list")) /\ (Listed' => Listed)
    BY DEF Doing, Running, Listed
  <1>5. TokenInv'
    BY <1>4 DEF ListInv, TokenInv
  <1>6. PagesInv'
    <2>1. SUFFICES ASSUME Doing("list")', style # "token", calm' PROVE PagesInv'
      BY DEF PagesInv
    <2>2. op.got = Least((op.page - 1) * PageSize, Held) /\ ~op.twice
      BY <1>4, <2>1 DEF ListInv, PagesInv
    <2>3. Least((o.page - 1) * PageSize, Held)' = Least((op.page - 1) * PageSize, Held)
      BY <1>1, <2>1 DEF Least
    <2>4. QED
      BY <1>1, <2>1, <2>2 DEF PagesInv, Least
  <1>7. ListedInv'
    BY <1>4 DEF ListInv, ListedInv
  <1>8. QED
    BY <1>2, <1>3, <1>5, <1>6, <1>7 DEF ListInv

LEMMA BeginLists ==
  ASSUME IndInv, IndInv', NEW kind \in Kinds, NEW src, NEW dst, NEW single,
         Begin(kind, src, dst, single)
  PROVE  ListInv' /\ WipeInv'
  <1>1. PICK o : o = [NoOp EXCEPT !.st = "run", !.kind = kind, !.src = src, !.dst = dst,
                                  !.steps = Steps(kind), !.left = MaxRetries, !.page = 1,
                                  !.single = single]
    OBVIOUS
  <1>2. /\ op' = o /\ stable' = Held /\ calm' = TRUE /\ touched' = {}
        /\ UNCHANGED <<store, style>>
    BY <1>1 DEF Begin
  <1>3. /\ o.st = "run" /\ o.kind = kind /\ o.steps = Steps(kind) /\ o.page = 1 /\ o.token = 0
        /\ o.got = {} /\ o.todo = {} /\ o.twice = FALSE /\ o.failed = FALSE
    BY <1>1 DEF NoOp
  <1>4. Head(o.steps) # "wipe"
    BY <1>3 DEF Steps, Kinds
  <1>5. Held' = Held /\ (\A k \in Held : ~(k <= 0)) /\ Held \in SUBSET Keys
    BY <1>2, KeysAssumption DEF Held
  <1>6. ~Listed' /\ op'.st = "run" /\ ~Doing("wipe")'
    <2>1. op'.st = "run" /\ Head(op'.steps) # "wipe"
      BY <1>2, <1>3, <1>4
    <2>2. ~Doing("wipe")'
      BY <2>1 DEF Doing
    <2>3. QED
      BY <2>1, <2>2 DEF Listed
  <1>7. FieldsInv' /\ StableInv'
    <2>1. op'.token \in Nat /\ op'.page \in Nat /\ op'.page >= 1
      BY <1>2, <1>3
    <2>2. op'.twice \in BOOLEAN /\ op'.failed \in BOOLEAN
      BY <1>2, <1>3
    <2>3. FieldsInv'
      BY <2>1, <2>2 DEF FieldsInv
    <2>4. StableInv'
      BY <1>2, <1>5 DEF StableInv
    <2>5. QED
      BY <2>3, <2>4
  <1>8. TokenInv'
    BY <1>2, <1>3, <1>5 DEF TokenInv
  <1>9. PagesInv'
    <2>1. (o.page - 1) * PageSize = 0
      BY <1>3, BoundsAssumption
    <2>2. Held' \in SUBSET Keys
      BY <1>5
    <2>3. Least(0, Held') = {}
      BY <1>5, <2>2, LeastOfNothing
    <2>4. QED
      BY <1>2, <1>3, <2>1, <2>3 DEF PagesInv
  <1>10. WipeInv'
    BY <1>2, <1>3, <1>6 DEF WipeInv
  <1>11. QED
    BY <1>6, <1>7, <1>8, <1>9, <1>10 DEF ListInv, ListedInv

(* copy, head_object and delete list nothing.                              *)
LEMMA RequestLists ==
  ASSUME IndInv, IndInv', ListInv, Answered \/ Refused \/ Unanswered
  PROVE  ListInv' /\ WipeInv'
  <1>1. Doing("copy") \/ Doing("head") \/ Doing("delete")
    BY DEF Answered, Refused, Unanswered
  <1>2. /\ Running /\ op.kind \in {"move", "copy", "delete"} /\ IsOp(op) /\ op.st = "run"
    BY <1>1, OpFields DEF Doing, Remaining, Running
  <1>3. PICK f : f = [op EXCEPT !.st = "failed"]
    OBVIOUS
  <1>4. /\ f.kind = op.kind /\ f.twice = op.twice /\ f.page = op.page /\ f.token = op.token
        /\ f.failed = op.failed /\ f.st = "failed"
    BY <1>2, <1>3 DEF IsOp
  <1>5. op' \in {f, Advanced(op), Repeated(op)}
    BY <1>3 DEF Answered, Refused, Unanswered
  <1>6. /\ op'.kind = op.kind /\ op'.twice = op.twice /\ op'.page = op.page
        /\ op'.token = op.token /\ op'.failed = op.failed
    BY <1>2, <1>4, <1>5, AdvancedRest, RepeatedRest
  <1>7. FieldsInv'
    BY <1>2, <1>6 DEF ListInv, FieldsInv
  <1>8. Perform(Asked) \/ UNCHANGED <<store, stable, calm>>
    BY DEF Answered, Refused, Unanswered, histories
  <1>9. StableInv'
    <2>1. StableInv
      BY DEF ListInv
    <2>2. stable' \subseteq Held' /\ (calm' => calm /\ store' = store /\ stable' = stable)
      BY <1>8, <2>1, PerformRecords DEF StableInv, Held
    <2>3. QED
      BY <1>2, <2>1, <2>2 DEF StableInv, Held
  <1>10. QED
    BY <1>2, <1>6, <1>7, <1>9, NotListing

(* A late request or another writer: what they change is noted.            *)
LEMMA OthersList ==
  ASSUME IndInv, IndInv', ListInv, WipeInv,
         (\E r \in wire : Late(r)) \/ (\E k \in Keys : Foreign(k)) \/ UNCHANGED vars
  PROVE  ListInv' /\ WipeInv'
  <1>1. op' = op /\ style' = style
    BY DEF Late, Foreign, vars
  <1>2. StableInv /\ store \in StoreType
    BY DEF ListInv, IndInv, TypeInv
  <1> DEFINE Recorded == /\ stable' \subseteq stable /\ stable' \subseteq Held'
                         /\ calm' => calm /\ store' = store /\ stable' = stable
             Noted == \A k \in Keys : k \notin touched' => k \notin touched /\ store'[k] = store[k]
  <1>3. Recorded
    <2>1. ASSUME NEW r \in wire, Late(r) PROVE Recorded
      BY <1>2, <2>1, PerformRecords DEF Late
    <2>2. ASSUME NEW k \in Keys, Foreign(k) PROVE Recorded
      BY <1>2, <2>2 DEF Foreign, StableInv, Held, StoreType
    <2>3. CASE UNCHANGED vars
      BY <1>2, <2>3 DEF vars, histories, StableInv, Held
    <2>4. QED
      BY <2>1, <2>2, <2>3
  <1>4. ListInv'
    <2>1. op.failed \in BOOLEAN
      BY DEF ListInv, FieldsInv
    <2>2. PICK o : o = op
      OBVIOUS
    <2>3. o.st = "run" /\ Head(o.steps) = "list" => Doing("list")
      BY <2>2 DEF Doing, Running
    <2>4. o.kind \in {"list", "wipe"} /\ (o.st = "done" \/ (o.st = "run" /\ Head(o.steps) = "wipe"))
            => Listed
      BY <2>2 DEF Doing, Running, Listed
    <2>5. /\ op' = o /\ o.kind = op.kind /\ o.got = op.got /\ o.twice = op.twice
          /\ o.page = op.page /\ o.token = op.token /\ o.failed \in BOOLEAN
          /\ o.st = "run" => op.st = "run"
          /\ o.st = "idle" <=> op.st = "idle"
      BY <1>1, <2>1, <2>2
    <2>6. style' = style /\ Recorded
      BY <1>1, <1>3
    <2> HIDE DEF Recorded
    <2>7. /\ stable' \subseteq stable /\ stable' \subseteq Held'
          /\ calm' => calm /\ store' = store /\ stable' = stable
      BY <2>6 DEF Recorded
    <2>8. QED
      BY <2>3, <2>4, <2>5, <2>6, <2>7, ListingKept
  <1>5. Noted
    <2>1. ASSUME NEW r \in wire, Late(r) PROVE Noted
      BY <2>1 DEF Late
    <2>2. ASSUME NEW k \in Keys, Foreign(k) PROVE Noted
      BY <1>2, <2>2 DEF Foreign, StoreType
    <2>3. CASE UNCHANGED vars
      BY <2>3 DEF vars, histories
    <2>4. QED
      BY <2>1, <2>2, <2>3
  <1>6. op.got \subseteq Keys
    BY OpFields
  <1>7. WipeInv'
    BY <1>1, <1>5, <1>6 DEF WipeInv, Doing, Running
  <1>8. QED
    BY <1>4, <1>7

(* One page: what the listing has is complete up to the next one, and a    *)
(* listing that ends is complete.                                          *)
LEMMA PageFields ==
  ASSUME NEW o, IsOp(o), NEW reply, NEW p, p = NextPage(o, reply)
  PROVE  /\ p.kind = o.kind /\ p.got = o.got /\ p.todo = o.todo /\ p.twice = o.twice
         /\ p.failed = o.failed
         /\ \/ /\ reply.next # 0 /\ p.page = 1 /\ p.token = reply.next
               /\ p.steps = o.steps /\ p.st = o.st
            \/ /\ reply.next = 0 /\ reply.pages # 0 /\ o.page < reply.pages
               /\ p.page = o.page + 1 /\ p.token = 0 /\ p.steps = o.steps /\ p.st = o.st
            \/ /\ reply.next = 0 /\ ~(reply.pages # 0 /\ o.page < reply.pages)
               /\ p = Advanced(o)
  <1>1. PICK next : next = o.page + 1
    OBVIOUS
  <1>2. CASE reply.next # 0
    <2>1. p = [o EXCEPT !.page = 1, !.token = reply.next]
      BY <1>2 DEF NextPage
    <2>2. QED
      BY <1>2, <2>1 DEF IsOp
  <1>3. CASE reply.next = 0 /\ reply.pages # 0 /\ o.page < reply.pages
    <2>1. p = [o EXCEPT !.page = next, !.token = 0]
      BY <1>1, <1>3 DEF NextPage
    <2>2. /\ p.kind = o.kind /\ p.got = o.got /\ p.todo = o.todo /\ p.twice = o.twice
          /\ p.failed = o.failed /\ p.page = next /\ p.token = 0 /\ p.steps = o.steps /\ p.st = o.st
      BY <2>1 DEF IsOp
    <2>3. QED
      BY <1>1, <1>3, <2>2
  <1>4. CASE reply.next = 0 /\ ~(reply.pages # 0 /\ o.page < reply.pages)
    <2>1. p = Advanced(o)
      BY <1>4 DEF NextPage
    <2>2. QED
      BY <1>4, <2>1, AdvancedRest
  <1>5. QED
    BY <1>2, <1>3, <1>4

LEMMA PageLists ==
  ASSUME IndInv, IndInv', ListInv, WipeInv, ListPage
  PROVE  ListInv' /\ WipeInv'
  <1>1. PICK reply, twice : /\ reply = Reply(op.page, op.token)
                            /\ twice = (op.twice \/ op.got \cap reply.items # {})
    OBVIOUS
  <1>2. PICK o : o = [op EXCEPT !.got = op.got \cup reply.items,
                                !.todo = op.todo \cup reply.items, !.twice = twice]
    OBVIOUS
  <1>3. PICK p : p = NextPage(o, reply)
    OBVIOUS
  <1>4. /\ op' = p /\ Doing("list") /\ Running /\ Head(op.steps) = "list"
        /\ UNCHANGED <<style, store, stable, calm, touched>>
    BY <1>1, <1>2, <1>3 DEF ListPage, Doing, histories
  <1>5. /\ IsOp(o) /\ o.kind = op.kind /\ o.got = op.got \cup reply.items
        /\ o.todo = op.todo \cup reply.items /\ o.twice = twice /\ o.failed = op.failed
        /\ o.page = op.page /\ o.token = op.token /\ o.steps = op.steps /\ o.st = op.st
    BY <1>2, OpFields DEF IsOp
  <1>6. /\ op.token \in Nat /\ op.page \in Nat \ {0} /\ op.failed \in BOOLEAN
        /\ op.twice \in BOOLEAN /\ twice \in BOOLEAN
    BY <1>1, <1>4 DEF ListInv, FieldsInv
  <1>7. Held' = Held
    BY <1>4 DEF Held
  <1>8. /\ p.kind = op.kind /\ p.got = op.got \cup reply.items /\ p.todo = op.todo \cup reply.items
        /\ p.twice = twice /\ p.failed = op.failed
        /\ \/ /\ reply.next # 0 /\ p.page = 1 /\ p.token = reply.next
              /\ p.steps = op.steps /\ p.st = op.st
           \/ /\ reply.next = 0 /\ reply.pages # 0 /\ op.page < reply.pages
              /\ p.page = op.page + 1 /\ p.token = 0 /\ p.steps = op.steps /\ p.st = op.st
           \/ /\ reply.next = 0 /\ ~(reply.pages # 0 /\ op.page < reply.pages)
              /\ p = Advanced(o)
    BY <1>3, <1>5, PageFields
  <1>9. p = Advanced(o) => /\ p.page = op.page /\ p.token = op.token
                           /\ ~(p.st = "run" /\ Head(p.steps) = "list")
                           /\ p.st = "done" => op.kind = "list"
                           /\ p.st \in {"done", "run"}
    <2>1. Tail(<<"list", "wipe">>) = <<"wipe">> /\ Len(<<"list", "wipe">>) = 2 /\ Len(<<"list">>) = 1
      OBVIOUS
    <2>2. \/ op.kind = "list" /\ op.steps = <<"list">>
          \/ op.kind = "wipe" /\ op.steps = <<"list", "wipe">>
      BY <1>4, OpFields DEF Remaining
    <2>3. /\ Advanced(o).page = op.page /\ Advanced(o).token = op.token
          /\ Advanced(o).steps = Tail(op.steps)
          /\ Advanced(o).st = IF Len(op.steps) = 1 THEN "done" ELSE "run"
      BY <1>5, AdvancedRest
    <2>4. Head(<<"wipe">>) = "wipe"
      OBVIOUS
    <2>5. CASE op.kind = "list" /\ op.steps = <<"list">>
      BY <2>1, <2>3, <2>5
    <2>6. CASE op.kind = "wipe" /\ op.steps = <<"list", "wipe">>
      BY <2>1, <2>3, <2>4, <2>6
    <2>7. QED
      BY <2>2, <2>5, <2>6
  <1>10. op.st = "run"
    BY <1>4 DEF Running
  <1>11. CASE style = "token"
    <2>1. /\ reply.pages = 0 /\ reply.next \in Nat
          /\ \A k \in reply.items : k \in Held /\ k > op.token
          /\ reply.next = 0 => \A k \in Held : k > op.token => k \in reply.items
          /\ reply.next # 0 =>
               /\ reply.next > op.token
               /\ \A k \in reply.items : k <= reply.next
               /\ \A k \in Held : k > op.token /\ k <= reply.next => k \in reply.items
      BY <1>1, <1>6, <1>11, TokenPage
    <2>2. /\ \A k \in stable : k <= op.token => k \in op.got
          /\ \A k \in op.got : k <= op.token
          /\ ~op.twice
      BY <1>4, <1>11 DEF ListInv, TokenInv
    <2>3. stable \subseteq Held /\ Held \subseteq Nat /\ op.got \subseteq Nat
      BY OpFields, KeysAssumption DEF ListInv, StableInv, Held
    <2>4. ~twice
      <3>1. ASSUME NEW k \in op.got, k \in reply.items PROVE FALSE
        BY <1>6, <2>1, <2>2, <2>3, <3>1
      <3>2. QED
        BY <1>1, <2>2, <3>1
    <2>5. CASE reply.next # 0
      <3>1. p.page = 1 /\ p.token = reply.next /\ p.steps = op.steps /\ p.st = op.st
        BY <1>8, <2>5
      <3>2. \A k \in stable : k <= reply.next => k \in op.got \cup reply.items
        <4>1. ASSUME NEW k \in stable, k <= reply.next PROVE k \in op.got \cup reply.items
          <5>1. k \in Held /\ k \in Nat
            BY <2>3
          <5>2. k <= op.token \/ k > op.token
            BY <1>6, <5>1
          <5>3. QED
            BY <2>1, <2>2, <2>5, <4>1, <5>1, <5>2
        <4>2. QED
          BY <4>1
      <3>3. \A k \in op.got \cup reply.items : k <= reply.next
        <4>1. ASSUME NEW k \in op.got PROVE k <= reply.next
          BY <1>6, <2>1, <2>2, <2>3, <2>5
        <4>2. QED
          BY <2>1, <2>5, <4>1
      <3>4. FieldsInv'
        BY <1>4, <1>6, <1>8, <2>1, <3>1 DEF FieldsInv
      <3>5. StableInv' /\ ~Listed'
        BY <1>4, <1>7, <1>10, <3>1 DEF ListInv, StableInv, Listed, Doing
      <3>6. TokenInv'
        BY <1>4, <1>8, <2>4, <3>1, <3>2, <3>3 DEF TokenInv
      <3>7. PagesInv'
        BY <1>4, <1>11 DEF PagesInv
      <3>8. QED
        BY <1>4, <1>8, <1>10, <3>1, <3>4, <3>5, <3>6, <3>7
           DEF ListInv, ListedInv, WipeInv, Doing
    <2>6. CASE reply.next = 0
      <3>1. p = Advanced(o)
        BY <1>8, <2>1, <2>6
      <3>2. stable \subseteq op.got \cup reply.items
        <4>1. ASSUME NEW k \in stable PROVE k \in op.got \cup reply.items
          <5>1. k \in Held /\ k \in Nat
            BY <2>3
          <5>2. k <= op.token \/ k > op.token
            BY <1>6, <5>1
          <5>3. QED
            BY <2>1, <2>2, <2>6, <5>1, <5>2
        <4>2. QED
          BY <4>1
      <3>3. FieldsInv'
        BY <1>4, <1>6, <1>8, <1>9, <3>1 DEF FieldsInv
      <3>4. StableInv' /\ ~Doing("list")'
        BY <1>4, <1>7, <1>9, <1>10, <3>1 DEF ListInv, StableInv, Doing, Running
      <3>5. ListedInv'
        BY <1>4, <1>8, <2>4, <3>2 DEF ListedInv
      <3>6. WipeInv'
        BY <1>4, <1>8, <1>9, <3>1, <3>4 DEF ListInv, WipeInv
      <3>7. QED
        BY <3>3, <3>4, <3>5, <3>6 DEF ListInv, TokenInv, PagesInv
    <2>7. QED
      BY <2>5, <2>6
  <1>12. CASE style # "token"
    <2>1. /\ reply.next = 0 /\ reply.pages \in Nat
          /\ reply.items \cap Least((op.page - 1) * PageSize, Held) = {}
          /\ Least((op.page - 1) * PageSize, Held) \cup reply.items = Least(op.page * PageSize, Held)
          /\ op.page >= reply.pages => Least(op.page * PageSize, Held) = Held
      BY <1>1, <1>6, <1>12, NumberedPage
    <2>2. calm => /\ op.got = Least((op.page - 1) * PageSize, Held) /\ ~op.twice
                  /\ stable = Held
      BY <1>4, <1>10, <1>12 DEF ListInv, PagesInv, StableInv
    <2>3. calm => ~twice /\ op.got \cup reply.items = Least(op.page * PageSize, Held)
      BY <1>1, <2>1, <2>2
    <2>4. CASE p = Advanced(o)
      <3>1. op.page >= reply.pages
        BY <1>6, <1>8, <1>9, <2>1, <2>4
      <3>2. calm => stable \subseteq op.got \cup reply.items
        BY <2>1, <2>2, <2>3, <3>1
      <3>3. FieldsInv'
        BY <1>4, <1>6, <1>8, <1>9, <2>4 DEF FieldsInv
      <3>4. StableInv' /\ ~Doing("list")'
        BY <1>4, <1>7, <1>9, <1>10, <2>4 DEF ListInv, StableInv, Doing, Running
      <3>5. ListedInv'
        BY <1>4, <1>8, <1>12, <2>3, <3>2 DEF ListedInv
      <3>6. WipeInv'
        BY <1>4, <1>8, <1>9, <2>4, <3>4 DEF ListInv, WipeInv
      <3>7. QED
        BY <3>3, <3>4, <3>5, <3>6 DEF ListInv, TokenInv, PagesInv
    <2>5. CASE p.page = op.page + 1 /\ p.token = 0 /\ p.steps = op.steps /\ p.st = op.st
      <3>1. (p.page - 1) * PageSize = op.page * PageSize
        <4>1. p.page - 1 = op.page
          BY <1>6, <2>5
        <4>2. QED
          BY <4>1
      <3>2. FieldsInv'
        BY <1>4, <1>6, <1>8, <2>5 DEF FieldsInv
      <3>3. StableInv' /\ ~Listed'
        BY <1>4, <1>7, <1>10, <2>5 DEF ListInv, StableInv, Listed, Doing
      <3>4. PagesInv'
        <4>1. calm => p.got = Least((p.page - 1) * PageSize, Held') /\ ~p.twice
          BY <1>7, <1>8, <2>3, <3>1
        <4>2. QED
          BY <1>4, <4>1 DEF PagesInv
      <3>5. TokenInv'
        BY <1>4, <1>12 DEF TokenInv
      <3>6. QED
        BY <1>4, <1>8, <1>10, <2>5, <3>2, <3>3, <3>4, <3>5
           DEF ListInv, ListedInv, WipeInv, Doing
    <2>6. QED
      BY <1>8, <2>1, <2>4, <2>5
  <1>13. QED
    BY <1>11, <1>12

(* A listed object is deleted, or the operation has failed.                *)
LEMMA EraseLists ==
  ASSUME IndInv, IndInv', ListInv, WipeInv, NEW k \in Keys, EraseOne(k)
  PROVE  ListInv' /\ WipeInv'
  <1>1. PICK ok \in BOOLEAN, gone \in BOOLEAN :
          /\ ok => gone
          /\ op' = [op EXCEPT !.todo = @ \ {k}, !.failed = @ \/ ErrorKept(ok)]
          /\ IF gone THEN Perform(Erasure(k)) /\ UNCHANGED wire
             ELSE /\ UNCHANGED <<store, wanted, stable, calm>>
                  /\ wire' \in {wire} \cup
                       (IF Cardinality(wire) < MaxLate THEN {wire \cup {Erasure(k)}} ELSE {})
    BY DEF EraseOne
  <1>2. PICK failed, o : /\ failed = (op.failed \/ ~ok)
                         /\ o = [op EXCEPT !.todo = op.todo \ {k}, !.failed = failed]
    OBVIOUS
  <1>3. /\ op' = o /\ Doing("wipe") /\ style' = style /\ touched' = touched
        /\ Perform(Erasure(k)) \/ UNCHANGED <<store, stable, calm>>
        /\ Perform(Erasure(k)) \/ failed
    BY <1>1, <1>2 DEF EraseOne, ErrorKept
  <1>4. /\ o.kind = op.kind /\ o.got = op.got /\ o.twice = op.twice /\ o.page = op.page
        /\ o.token = op.token /\ o.failed = failed /\ o.steps = op.steps /\ o.st = op.st
        /\ o.todo = op.todo \ {k}
    BY <1>2, OpFields DEF IsOp
  <1>5. op.failed \in BOOLEAN /\ failed \in BOOLEAN /\ StableInv /\ store \in StoreType
    BY <1>2 DEF ListInv, FieldsInv, IndInv, TypeInv
  <1>6. /\ stable' \subseteq stable /\ stable' \subseteq Held'
        /\ calm' => calm /\ store' = store /\ stable' = stable
    BY <1>3, <1>5, PerformRecords DEF StableInv, Held
  <1>7. ~(Head(op.steps) = "list") /\ op.st = "run" /\ op.kind = "wipe" /\ Listed
    BY <1>3, OpFields DEF Doing, Running, Remaining, Listed
  <1>8. ListInv'
    BY <1>3, <1>4, <1>5, <1>6, <1>7, ListingKept
  <1>9. ASSUME ~failed, NEW j \in op.got, j \notin op.todo \ {k}, j \notin touched
        PROVE  store'[j] = 0
    <2>1. store' = [store EXCEPT ![k] = 0]
      BY <1>3, <1>9 DEF Perform, Effect, Erasure
    <2>2. j \in op.todo \/ store[j] = 0
      BY <1>2, <1>3, <1>7, <1>9 DEF WipeInv
    <2>3. j \in Keys
      BY <1>9, OpFields
    <2>4. QED
      BY <1>5, <1>9, <2>1, <2>2, <2>3 DEF StoreType
  <1>10. WipeInv'
    BY <1>3, <1>4, <1>7, <1>9 DEF WipeInv, Doing
  <1>11. QED
    BY <1>8, <1>10

LEMMA EraseEndLists ==
  ASSUME IndInv, IndInv', ListInv, WipeInv, EraseEnds
  PROVE  ListInv' /\ WipeInv'
  <1>1. /\ Doing("wipe") /\ Running /\ Head(op.steps) = "wipe" /\ op.st = "run"
        /\ op.kind = "wipe" /\ op.steps = <<"wipe">> /\ IsOp(op) /\ Listed
    BY OpFields DEF EraseEnds, Doing, Running, Remaining, Listed
  <1>2. /\ UNCHANGED <<style, store, stable, calm, touched>>
        /\ op.todo = {} \/ op.failed
    BY DEF EraseEnds, histories
  <1>3. Held' = Held /\ StableInv /\ op.failed \in BOOLEAN
    BY <1>2 DEF Held, ListInv, FieldsInv
  <1>4. CASE op.failed
    <2>1. op' = [op EXCEPT !.st = "failed"]
      BY <1>4 DEF EraseEnds
    <2>2. /\ op'.st = "failed" /\ op'.twice = op.twice /\ op'.page = op.page
          /\ op'.token = op.token /\ op'.failed = op.failed
      BY <1>1, <2>1 DEF IsOp
    <2>3. FieldsInv'
      BY <2>2 DEF ListInv, FieldsInv, Running
    <2>4. StableInv'
      BY <1>1, <1>2, <1>3, <2>2 DEF StableInv
    <2>5. QED
      BY <2>2, <2>3, <2>4, NotListing
  <1>5. CASE ~op.failed
    <2>1. PICK o : o = Advanced(op)
      OBVIOUS
    <2>2. Len(<<"wipe">>) = 1
      OBVIOUS
    <2>3. /\ op' = o /\ o.kind = op.kind /\ o.got = op.got /\ o.todo = op.todo /\ o.twice = op.twice
          /\ o.page = op.page /\ o.token = op.token /\ o.failed = op.failed /\ o.st = "done"
      BY <1>1, <1>5, <2>1, <2>2, AdvancedRest DEF EraseEnds
    <2>4. stable' \subseteq Held'
      BY <1>2, <1>3 DEF StableInv
    <2>5. ListInv'
      BY <1>1, <1>2, <1>3, <2>3, <2>4, ListingKept
    <2>6. ~Doing("list")' /\ ~Doing("wipe")'
      BY <2>3 DEF Doing, Running
    <2>7. WipeInv'
      BY <1>1, <1>2, <1>5, <2>3, <2>6 DEF WipeInv
    <2>8. QED
      BY <2>5, <2>7
  <1>6. QED
    BY <1>3, <1>4, <1>5

LEMMA FailLists ==
  ASSUME IndInv, IndInv', ListInv, ListFails
  PROVE  ListInv' /\ WipeInv'
  <1>1. /\ op' = [op EXCEPT !.st = "failed"] /\ Running
        /\ UNCHANGED <<style, store, stable, calm>>
    BY DEF ListFails, Doing, histories
  <1>2. /\ op'.st = "failed" /\ op'.twice = op.twice /\ op'.page = op.page
        /\ op'.token = op.token /\ op'.failed = op.failed
    BY <1>1, OpFields DEF IsOp
  <1>3. FieldsInv'
    BY <1>2 DEF ListInv, FieldsInv, Running
  <1>4. StableInv'
    BY <1>1, <1>2 DEF ListInv, StableInv, Running, Held
  <1>5. QED
    BY <1>2, <1>3, <1>4, NotListing

LEMMA InitLists == Init => ListInv /\ WipeInv
  <1> SUFFICES ASSUME Init PROVE ListInv /\ WipeInv
    OBVIOUS
  <1>1. op.st = "idle" /\ op.token = 0 /\ op.page = 0 /\ op.twice = FALSE /\ op.failed = FALSE
    BY DEF Init, NoOp
  <1>2. stable = {}
    BY DEF Init
  <1>3. ~Running /\ ~Listed /\ op.st # "done" /\ (\A step : ~Doing(step))
    BY <1>1 DEF Listed, Doing, Running
  <1>4. FieldsInv
    <2>1. op.token \in Nat /\ op.page \in Nat
      BY <1>1
    <2>2. op.twice \in BOOLEAN /\ op.failed \in BOOLEAN
      BY <1>1
    <2>3. QED
      BY <1>3, <2>1, <2>2 DEF FieldsInv
  <1>5. StableInv
    BY <1>1, <1>2 DEF StableInv
  <1>6. QED
    BY <1>3, <1>4, <1>5 DEF ListInv, TokenInv, PagesInv, ListedInv, WipeInv

LEMMA StepLists == IndInv /\ IndInv' /\ ListInv /\ WipeInv /\ [Next]_vars => ListInv' /\ WipeInv'
  <1> SUFFICES ASSUME IndInv, IndInv', ListInv, WipeInv, [Next]_vars PROVE ListInv' /\ WipeInv'
    OBVIOUS
  <1>1. ASSUME NEW kind \in Kinds, NEW src, NEW dst, NEW single, Begin(kind, src, dst, single)
        PROVE  ListInv' /\ WipeInv'
    BY <1>1, BeginLists
  <1>2. CASE \/ \E src, dst \in Keys : Begin("move", src, dst, FALSE) \/ Begin("copy", src, dst, FALSE)
             \/ \E k \in Keys : Begin("delete", k, k, FALSE)
             \/ Begin("list", 1, 1, FALSE)
             \/ \E single \in BOOLEAN : Begin("wipe", 1, 1, single)
    BY <1>1, <1>2 DEF Kinds
  <1>3. CASE Answered \/ Refused \/ Unanswered
    BY <1>3, RequestLists
  <1>4. CASE (\E r \in wire : Late(r)) \/ (\E k \in Keys : Foreign(k)) \/ UNCHANGED vars
    BY <1>4, OthersList
  <1>5. CASE ListPage
    BY <1>5, PageLists
  <1>6. CASE ListFails
    BY <1>6, FailLists
  <1>7. ASSUME NEW k \in Keys, EraseOne(k) PROVE ListInv' /\ WipeInv'
    BY <1>7, EraseLists
  <1>8. CASE EraseEnds
    BY <1>8, EraseEndLists
  <1>9. QED
    BY <1>2, <1>3, <1>4, <1>5, <1>6, <1>7, <1>8 DEF Next, Finished

LEMMA ListInvariance == Spec => [](IndInv /\ ListInv /\ WipeInv)
  <1>1. Init => IndInv /\ ListInv /\ WipeInv
    BY InitInd, InitLists
  <1>2. (IndInv /\ ListInv /\ WipeInv) /\ [Next]_vars => (IndInv /\ ListInv /\ WipeInv)'
    BY StepInd, StepLists
  <1>3. QED
    BY <1>1, <1>2, PTL DEF Spec

-----------------------------------------------------------------------------
(* Keys hold objects, and an operation has only attempts it was given.     *)
THEOREM TypeCorrect == Spec => []TypeOK
  <1>1. IndInv => TypeOK
    BY DEF IndInv, TypeInv, OpInv, WireInv, StoreType, TypeOK
  <1>2. QED
    BY <1>1, Invariance, PTL

(* Wherever a move stops, and however often its requests are repeated, the *)
(* object is under the old key or the new one, as long as no abandoned     *)
(* request is executed after its own operation.                            *)
THEOREM MovesKeepObjects == Spec => []MoveKeepsObject
  <1>1. IndInv => MoveKeepsObject
    BY DEF IndInv, KeepInv, MoveKeepsObject
  <1>2. QED
    BY <1>1, Invariance, PTL

(* A listing that ends has every object that was there all the time, and   *)
(* none of them twice: by tokens always, by page numbers when nothing      *)
(* changed meanwhile.                                                      *)
THEOREM ListingsAreComplete == Spec => []ListComplete
  <1>1. ListInv => ListComplete
    BY DEF ListInv, ListedInv, Listed, ListComplete
  <1>2. QED
    BY <1>1, ListInvariance, PTL

(* A delete_recursive that returns leaves nothing behind that it has       *)
(* listed, unless another writer or a late request has written it since.   *)
THEOREM WipesClear == Spec => []WipeClears
  <1>1. ASSUME IndInv, ListInv, WipeInv, op.kind = "wipe", op.st = "done",
               NEW k \in Keys, k \notin touched, store[k] # 0
        PROVE  k \notin op.got /\ ~calm
    <2>1. k \notin op.got
      BY <1>1 DEF WipeInv
    <2>2. calm => k \in op.got
      BY <1>1 DEF ListInv, ListedInv, StableInv, Listed, Held
    <2>3. QED
      BY <2>1, <2>2
  <1>2. IndInv /\ ListInv /\ WipeInv => WipeClears
    BY <1>1 DEF WipeClears
  <1>3. QED
    BY <1>2, ListInvariance, PTL
=============================================================================
