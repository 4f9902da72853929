---------------------------- MODULE ObjectMoves ----------------------------
(***************************************************************************)
(* The operations of client.so that take several requests: move (copy,     *)
(* check, delete), list_all_objects (page after page) and delete_recursive *)
(* (list, then delete what was listed), with copy and delete on their own. *)
(* One program calls them one after the other; another one writes to the   *)
(* same bucket.  An attempt the client gave up on may be executed later,   *)
(* even after its operation has ended.                                     *)
(*                                                                         *)
(* A key is a number, its place in the order of listings.                  *)
(***************************************************************************)
EXTENDS Naturals, FiniteSets, Sequences

CONSTANTS
  Keys,         \* an interval 1..n
  PageSize,     \* page_size of list_all_objects (100 in the code)
  MaxRetries,   \* MAX_RETRIES (2 in the code)
  MaxOps,       \* how many operations the program calls
  MaxForeign,   \* how many changes the other writer makes
  MaxLate       \* how many abandoned requests are on their way at once

ASSUME KeysAssumption == Keys \subseteq Nat \ {0} /\ IsFiniteSet(Keys)

ASSUME BoundsAssumption ==
  /\ PageSize \in Nat \ {0} /\ MaxRetries \in Nat
  /\ MaxOps \in Nat /\ MaxForeign \in Nat /\ MaxLate \in Nat

VARIABLES
  style,        \* how the service pages: by "token" or by number of "pages"
  store,        \* store[k]: the object at key k, named by its first key; 0: none
  op,           \* the operation under way
  wire,         \* abandoned requests
  ops, foreign,
  wanted,       \* history: objects nobody has asked to delete or overwrite
  stale,        \* history: an abandoned request changed something after its operation
  stable,       \* history: keys there since the listing began
  calm,         \* history: nothing has changed since the listing began
  touched       \* history: keys written since then by others or by late requests

histories == <<wanted, stale, stable, calm, touched>>
vars == <<style, store, op, wire, ops, foreign, histories>>

Kinds == {"move", "copy", "delete", "list", "wipe"}

(* Mutated form: the source is deleted first.                              *)
StepsDeleteFirst(kind) ==
  CASE kind = "move" -> <<"delete", "copy", "head">>
    [] kind = "wipe" -> <<"list", "wipe">>
    [] OTHER -> <<kind>>

(* The requests an operation makes, one after the other.                   *)
Steps(kind) ==
  CASE kind = "move" -> <<"copy", "head", "delete">>
    [] kind = "wipe" -> <<"list", "wipe">>
    [] OTHER -> <<kind>>

Held == {k \in Keys : store[k] # 0}

Running == op.st = "run"
Doing(step) == Running /\ Head(op.steps) = step

-----------------------------------------------------------------------------
(* The service.  keep says that the request is part of a move: the object  *)
(* it deletes is meant to live on.  (A move onto the own key deletes it.)  *)
Asked == [act |-> Head(op.steps), src |-> op.src, dst |-> op.dst, n |-> ops,
          keep |-> op.kind = "move" /\ op.src # op.dst]

Missing(r) ==
  \/ r.act = "copy" /\ store[r.src] = 0
  \/ r.act = "head" /\ store[r.dst] = 0

Effect(r) ==
  CASE r.act = "copy" /\ ~Missing(r) -> [store EXCEPT ![r.dst] = store[r.src]]
    [] r.act = "delete" -> [store EXCEPT ![r.src] = 0]
    [] OTHER -> store

(* The objects request r is meant to put an end to.                        *)
Dropped(r) ==
  CASE r.act = "copy" /\ ~Missing(r) -> {store[r.dst]} \ {store[r.src]}
    [] r.act = "delete" /\ ~r.keep -> {store[r.src]}
    [] OTHER -> {}

Perform(r) ==
  /\ store' = Effect(r)
  /\ wanted' = wanted \ Dropped(r)
  /\ stable' = stable \cap {k \in Keys : store'[k] # 0}
  /\ calm' = (calm /\ store' = store)

Least(n, S) == {k \in S : Cardinality({j \in S : j <= k}) <= n}

(* One page: its keys, and how the answer says whether there are more.     *)
Reply(page, token) ==
  IF style = "token"
  THEN LET rest == {k \in Held : k > token}
           items == Least(PageSize, rest)
       IN  [items |-> items, pages |-> 0,
            next |-> IF items = rest THEN 0 ELSE CHOOSE k \in items : \A j \in items : j <= k]
  ELSE [items |-> Least(page * PageSize, Held) \ Least((page - 1) * PageSize, Held),
        pages |-> (Cardinality(Held) + PageSize - 1) \div PageSize, next |-> 0]

-----------------------------------------------------------------------------
NoOp == [st |-> "idle", kind |-> "none", src |-> 0, dst |-> 0, steps |-> <<>>, left |-> 0,
         page |-> 0, token |-> 0, got |-> {}, twice |-> FALSE, todo |-> {}, failed |-> FALSE,
         single |-> FALSE]

Init ==
  /\ style \in {"token", "pages"}
  /\ store \in {[k \in Keys |-> IF k \in S THEN k ELSE 0] : S \in SUBSET Keys}
  /\ op = NoOp /\ wire = {}
  /\ ops = 0 /\ foreign = 0
  /\ wanted = Held /\ stale = FALSE /\ stable = {} /\ calm = TRUE /\ touched = {}

(* A call; single says that it works with one worker.                      *)
Begin(kind, src, dst, single) ==
  /\ ~Running
  /\ ops < MaxOps
  /\ ops' = ops + 1
  /\ op' = [NoOp EXCEPT !.st = "run", !.kind = kind, !.src = src, !.dst = dst,
                        !.steps = Steps(kind), !.left = MaxRetries, !.page = 1,
                        !.single = single]
  /\ stable' = Held /\ calm' = TRUE /\ touched' = {}
  /\ UNCHANGED <<style, store, wire, foreign, wanted, stale>>

(* The step is done: the next one, or the end of the operation.            *)
Advanced(o) ==
  [o EXCEPT !.steps = Tail(@), !.left = MaxRetries,
            !.st = IF Len(o.steps) = 1 THEN "done" ELSE "run"]

(* Mutated form: one attempt more than there are.                          *)
RepeatedOnceMore(o) ==
  IF o.left + 1 > 0 THEN [o EXCEPT !.left = @ - 1] ELSE [o EXCEPT !.st = "failed"]

Repeated(o) == IF o.left > 0 THEN [o EXCEPT !.left = @ - 1] ELSE [o EXCEPT !.st = "failed"]

(* copy, head_object and delete are requested, executed and answered.      *)
Answered ==
  /\ Doing("copy") \/ Doing("head") \/ Doing("delete")
  /\ ~Missing(Asked)
  /\ Perform(Asked)
  /\ op' = Advanced(op)
  /\ UNCHANGED <<style, wire, ops, foreign, stale, touched>>

(* 404 and other refusals are raised; a DELETE may meet one because an     *)
(* earlier attempt of its own went through.                                *)
Refused ==
  /\ Doing("copy") \/ Doing("head") \/ Doing("delete")
  /\ op' = [op EXCEPT !.st = "failed"]
  /\ UNCHANGED <<style, store, wire, ops, foreign, histories>>

(* The answer is lost, the request is lost, or it is held up on its way.   *)
Unanswered ==
  /\ Doing("copy") \/ Doing("head") \/ Doing("delete")
  /\ op' = Repeated(op)
  /\ \/ Perform(Asked) /\ UNCHANGED wire
     \/ UNCHANGED <<store, wire, wanted, stable, calm>>
     \/ /\ Asked.act # "head" /\ Cardinality(wire) < MaxLate
        /\ wire' = wire \cup {Asked}
        /\ UNCHANGED <<store, wanted, stable, calm>>
  /\ UNCHANGED <<style, ops, foreign, stale, touched>>

(* An abandoned request is executed after all.                             *)
Late(r) ==
  /\ r \in wire
  /\ wire' = wire \ {r}
  /\ Perform(r)
  /\ stale' = (stale \/ (store' # store /\ (r.n # ops \/ ~Running)))
  /\ touched' = touched \cup {k \in Keys : store'[k] # store[k]}
  /\ UNCHANGED <<style, op, ops, foreign>>

(* Mutated form: only tokens are followed.                                 *)
NextPageByToken(o, reply) ==
  IF reply.next # 0 THEN [o EXCEPT !.page = 1, !.token = reply.next] ELSE Advanced(o)

(* The token wins and starts again at page 1; else the page number counts. *)
NextPage(o, reply) ==
  IF reply.next # 0 THEN [o EXCEPT !.page = 1, !.token = reply.next]
  ELSE IF reply.pages # 0 /\ o.page < reply.pages
  THEN [o EXCEPT !.page = @ + 1, !.token = 0]
  ELSE Advanced(o)

(* list_objects for one page.                                              *)
ListPage ==
  /\ Doing("list")
  /\ LET reply == Reply(op.page, op.token)
         o == [op EXCEPT !.got = @ \cup reply.items, !.todo = @ \cup reply.items,
                         !.twice = @ \/ op.got \cap reply.items # {}]
     IN  op' = NextPage(o, reply)
  /\ UNCHANGED <<style, store, wire, ops, foreign, histories>>

ListFails ==
  /\ Doing("list")
  /\ op' = [op EXCEPT !.st = "failed"]
  /\ UNCHANGED <<style, store, wire, ops, foreign, histories>>

Erasure(k) == [act |-> "delete", src |-> k, dst |-> k, n |-> ops, keep |-> FALSE]

(* Mutated form: the error of a worker is lost.                            *)
ErrorLost(ok) == FALSE

ErrorKept(ok) == ~ok

(* A worker deletes a listed object, with all its attempts.                *)
EraseOne(k) ==
  /\ Doing("wipe") /\ k \in op.todo
  /\ ~(op.failed /\ op.single)
  /\ \E ok, gone \in BOOLEAN :
       /\ ok => gone
       /\ op' = [op EXCEPT !.todo = @ \ {k}, !.failed = @ \/ ErrorKept(ok)]
       /\ IF gone THEN Perform(Erasure(k)) /\ UNCHANGED wire
          ELSE /\ UNCHANGED <<store, wanted, stable, calm>>
               /\ wire' \in {wire} \cup
                    (IF Cardinality(wire) < MaxLate THEN {wire \cup {Erasure(k)}} ELSE {})
  /\ UNCHANGED <<style, ops, foreign, stale, touched>>

EraseEnds ==
  /\ Doing("wipe")
  /\ op.todo = {} \/ (op.failed /\ op.single)
  /\ op' = IF op.failed THEN [op EXCEPT !.st = "failed"] ELSE Advanced(op)
  /\ UNCHANGED <<style, store, wire, ops, foreign, histories>>

(* The other writer creates or removes an object.                          *)
Foreign(k) ==
  /\ foreign < MaxForeign
  /\ foreign' = foreign + 1
  /\ store' = [store EXCEPT ![k] = IF @ = 0 THEN k ELSE 0]
  /\ wanted' = wanted \ {store[k], k}
  /\ stable' = stable \ {k} /\ calm' = FALSE /\ touched' = touched \cup {k}
  /\ UNCHANGED <<style, op, wire, ops, stale>>

Finished == ~Running /\ ops = MaxOps /\ UNCHANGED vars

Next ==
  \/ \E src, dst \in Keys : Begin("move", src, dst, FALSE) \/ Begin("copy", src, dst, FALSE)
  \/ \E k \in Keys : Begin("delete", k, k, FALSE)
  \/ Begin("list", 1, 1, FALSE)
  \/ \E single \in BOOLEAN : Begin("wipe", 1, 1, single)
  \/ Answered \/ Refused \/ Unanswered
  \/ \E r \in wire : Late(r)
  \/ ListPage \/ ListFails
  \/ \E k \in Keys : EraseOne(k) \/ Foreign(k)
  \/ EraseEnds
  \/ Finished

Spec == Init /\ [][Next]_vars

-----------------------------------------------------------------------------
TypeOK ==
  /\ store \in [Keys -> Keys \cup {0}]
  /\ op.st \in {"idle", "run", "done", "failed"}
  /\ op.left \in 0..MaxRetries
  /\ op.todo \subseteq op.got /\ op.got \subseteq Keys
  /\ \A r \in wire : r.act \in {"copy", "delete"}
  /\ wanted \subseteq Keys /\ stable \subseteq Keys

(* A move loses nothing: wherever it fails, and however often its requests *)
(* are repeated, the object is under the old key or the new one.  Only an  *)
(* abandoned request executed after the end of its own operation, or a     *)
(* move onto the own key, can undo that (services.py SoAPI.move).          *)
MoveKeepsObject ==
  ~stale => \A v \in wanted : \E k \in Keys : store[k] = v

(* A listing that returns has every object that was there all the time;    *)
(* by page numbers that holds only if nothing changed meanwhile, by tokens *)
(* always.  Nothing is listed twice then (SoAPI.list_all_objects).         *)
ListComplete ==
  (/\ op.kind = "list" /\ op.st = "done"
   /\ calm \/ style = "token")
  => stable \subseteq op.got /\ ~op.twice

(* A delete_recursive that returns has removed every object it listed, but *)
(* for those somebody has written again; it removes nothing that came      *)
(* after its listing.                                                      *)
WipeClears ==
  op.kind = "wipe" /\ op.st = "done" =>
    \A k \in Keys : k \notin touched => (store[k] # 0 => k \notin op.got /\ ~calm)

=============================================================================
