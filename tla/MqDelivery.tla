----------------------------- MODULE MqDelivery -----------------------------
(***************************************************************************)
(* Message queues: mq.send (one message or a batch), receive, delete,      *)
(* purge and their DLQ variants, as a program sees them through the        *)
(* request loops of RequestRetry.  An attempt the client gave up on may    *)
(* still be executed, also after the call has returned, and a call may be  *)
(* executed more than once.                                                *)
(*                                                                         *)
(* The queues themselves are the service's: a message gets the next        *)
(* sequence of its stream, is in flight once received, becomes ready again *)
(* or goes to the DLQ when nobody acknowledges it.                         *)
(***************************************************************************)
EXTENDS Naturals, Sequences, FiniteSets

CONSTANTS
  Messages,
  Beginnings,   \* what the two streams may hold when the program starts
  Batches,      \* arguments of send: sequences of [msg, id], id NoId or a number
  NoId,
  BatchMax,     \* MQ_BATCH_MAX (10 in the code)
  MaxRetries,
  MaxCalls,     \* how many calls the program makes
  MaxPending,   \* how many of them are under way at once
  MaxExpiries   \* how often a message in flight is given up by the service

ASSUME BoundsAssumption ==
  BatchMax \in Nat \ {0} /\ MaxRetries \in Nat /\ MaxCalls \in Nat /\ MaxExpiries \in Nat

VARIABLES
  sdk,          \* which SDK the program uses
  calls,        \* the calls, in the order they are made
  queue,        \* queue[q]: the messages of stream q: [seq, msg, busy]
  counter,      \* counter[q]: the last sequence given out in stream q
  expiries,     \* how often a message in flight was given up so far
  handed,       \* history: deliveries [q, seq, msg] returned to the program
  removed,      \* history: [call, q, seq, msg]: what calls have removed
  later         \* history: <<i, m>>: m was sent after purge i had returned

vars == <<sdk, calls, queue, counter, expiries, handed, removed, later>>

(* The two Python clients behave alike here, and so do Go and Java.        *)
Sdks == {"python", "node", "go"}
Queues == {"main", "dlq"}

-----------------------------------------------------------------------------
(* Batches.                                                                *)

(* The id of entry k: its own, or its position counted from 0.             *)
EntryId(items, k) == IF items[k].id = NoId THEN k - 1 ELSE items[k].id

(* A batch is sent as a whole, or refused before anything is sent.         *)
GoodBatch(items) ==
  /\ Len(items) \in 1..BatchMax
  /\ \A j, k \in 1..Len(items) : EntryId(items, j) = EntryId(items, k) => j = k

-----------------------------------------------------------------------------
(* The request loops: which outcome of which call is repeated.  Go and     *)
(* Java do not repeat a POST to a queue; Node repeats statuses only, a     *)
(* POST's too (js/PARITY.md).                                              *)

(* Mutated form: every call is repeated, as in Python.                     *)
RepeatsEverything(op, outcome) == outcome \in {"timeout", "gateway"}

Repeats(op, outcome) ==
  CASE sdk = "python" -> outcome \in {"timeout", "gateway"}
    [] sdk = "node" -> outcome = "gateway"
    [] OTHER -> op \in {"receive", "ack"} /\ outcome \in {"timeout", "gateway"}

(* Mutated form: the attempts are not counted.                             *)
AfterAttemptUncounted(c, outcome) ==
  IF outcome = "ok" THEN [c EXCEPT !.st = "ok", !.cur = FALSE, !.left = 0]
  ELSE IF Repeats(c.op, outcome) THEN [c EXCEPT !.cur = TRUE]
  ELSE [c EXCEPT !.st = "failed", !.cur = FALSE, !.left = 0]

(* What becomes of call c when its current attempt has ended.              *)
AfterAttempt(c, outcome) ==
  IF outcome = "ok" THEN [c EXCEPT !.st = "ok", !.cur = FALSE, !.left = 0]
  ELSE IF Repeats(c.op, outcome) /\ c.left > 0
  THEN [c EXCEPT !.cur = TRUE, !.left = @ - 1]
  ELSE [c EXCEPT !.st = "failed", !.cur = FALSE, !.left = 0]

(* An attempt joins those the client has given up on, and leaves them.     *)
GivenUp(c) == [c EXCEPT !.old = @ + 1]
DealtWith(c) == [c EXCEPT !.old = @ - 1]

Called(op, q, items, seq, fast) ==
  [op |-> op, q |-> q, items |-> items, seq |-> seq, fast |-> fast, st |-> "waiting",
   cur |-> TRUE, old |-> 0, left |-> MaxRetries]

Ids == 1..Len(calls)
Of(op) == {i \in Ids : calls[i].op = op}
Texts(items) == {items[k].msg : k \in 1..Len(items)}

(* The streams begin with messages of their own, numbered from 1.          *)
ASSUME BeginningsAssumption ==
  \A beginning \in Beginnings :
    /\ beginning \in [Queues -> SUBSET [seq : Nat, msg : Messages, busy : {FALSE}]]
    /\ \A q \in Queues :
         /\ IsFiniteSet(beginning[q])
         /\ \A r, s \in beginning[q] :
              r.seq \in 1..Cardinality(beginning[q]) /\ (r.seq = s.seq => r = s)

ASSUME BatchesAssumption ==
  \A items \in Batches :
    /\ items \in Seq([msg : Messages, id : Nat \cup {NoId}])
    /\ \A beginning \in Beginnings : \A q \in Queues : \A r \in beginning[q] :
         r.msg \notin Texts(items)

-----------------------------------------------------------------------------
Init ==
  /\ sdk \in Sdks
  /\ calls = <<>>
  /\ queue \in Beginnings
  /\ counter = [q \in Queues |-> Cardinality(queue[q])]
  /\ expiries = 0
  /\ handed = {} /\ removed = {} /\ later = {}

Call(c) ==
  /\ Len(calls) < MaxCalls
  /\ Cardinality({i \in Ids : calls[i].cur}) < MaxPending
  /\ calls' = Append(calls, c)
  /\ UNCHANGED <<sdk, queue, counter, expiries, handed, removed>>

Send(items) ==
  /\ \A i \in Of("send") : Texts(calls[i].items) \cap Texts(items) = {}
  /\ LET c == Called("send", "main", items, 0, FALSE)
     IN  Call(IF GoodBatch(items) THEN c ELSE [c EXCEPT !.st = "failed", !.cur = FALSE])
  /\ later' = later \cup
       {<<i, m>> : i \in {i \in Of("purge") : calls[i].st = "ok"}, m \in Texts(items)}

Receive(q, fast) == Call(Called("receive", q, <<>>, 0, fast)) /\ UNCHANGED later

(* The program acknowledges what it was handed.                            *)
Delete(d) == Call(Called("ack", d.q, <<>>, d.seq, FALSE)) /\ UNCHANGED later

Purge(q) == Call(Called("purge", q, <<>>, 0, FALSE)) /\ UNCHANGED later

(***************************************************************************)
(* The requests.                                                           *)
(***************************************************************************)
(* Mutated form: the DLQ variant posts to the path of the queue.           *)
StreamAlwaysMain(c) == "main"

(* The stream the path of the request names.                               *)
Stream(c) == c.q

(* Mutated form: every read of messages is an acknowledging one.           *)
AlwaysTakes(c) == c.op = "receive"

(* delete=true in the query of a receive.                                  *)
Takes(c) == c.op = "receive" /\ c.fast

(* The sets of messages an execution of c may touch.                       *)
Touched(c) ==
  LET stream == queue[Stream(c)]
      ready == {r \in stream : ~r.busy}
  IN  CASE c.op = "send" -> {{}}
        [] c.op = "receive" -> IF ready = {} THEN {{}} ELSE {{r} : r \in ready}
        [] c.op = "ack" -> {{r \in stream : r.seq = c.seq}}
        [] c.op = "purge" -> {stream}

(* The service executes call i, touching the messages of touched.          *)
Execute(i, touched) ==
  LET c == calls[i]
      q == Stream(c)
      stored == {[seq |-> counter[q] + k, msg |-> c.items[k].msg, busy |-> FALSE] :
                   k \in 1..Len(c.items)}
      held == IF c.op = "receive" /\ ~Takes(c)
              THEN {[r EXCEPT !.busy = TRUE] : r \in touched} ELSE {}
  IN  /\ queue' = [queue EXCEPT ![q] = (@ \ touched) \cup stored \cup held]
      /\ counter' = [counter EXCEPT ![q] = @ + Len(c.items)]
      /\ removed' = removed \cup
           (IF held # {} THEN {}
            ELSE {[call |-> i, q |-> q, seq |-> r.seq, msg |-> r.msg] : r \in touched})

(* An attempt is dealt with: the current one, or one that was given up.    *)
Serve(i, current, outcome) ==
  /\ IF current THEN calls[i].cur ELSE calls[i].old > 0
  /\ calls' = [calls EXCEPT ![i] =
       IF current THEN AfterAttempt(@, outcome) ELSE DealtWith(@)]
  /\ \/ /\ outcome # "rejected"
        /\ \E touched \in Touched(calls[i]) :
             /\ Execute(i, touched)
             /\ handed' = IF current /\ outcome = "ok" /\ calls[i].op = "receive"
                THEN handed \cup {[q |-> calls[i].q, seq |-> r.seq, msg |-> r.msg] : r \in touched}
                ELSE handed
     \/ /\ outcome # "ok"
        /\ UNCHANGED <<queue, counter, handed, removed>>
  /\ UNCHANGED <<sdk, expiries, later>>

(* The current attempt stays on its way: the client gives up on it or its  *)
(* connection breaks, or a gateway gives up on the service and answers.    *)
Strand(i, outcome) ==
  /\ calls[i].cur
  /\ calls' = [calls EXCEPT ![i] = AfterAttempt(GivenUp(@), outcome)]
  /\ UNCHANGED <<sdk, queue, counter, expiries, handed, removed, later>>

(* The service gives up on a consumer: the message is ready again, or has  *)
(* been tried often enough and gets a sequence of the DLQ.                 *)
Expire(r) ==
  /\ expiries < MaxExpiries
  /\ r \in queue["main"] /\ r.busy
  /\ expiries' = expiries + 1
  /\ \/ /\ queue' = [queue EXCEPT !["main"] = (@ \ {r}) \cup {[r EXCEPT !.busy = FALSE]}]
        /\ UNCHANGED counter
     \/ /\ queue' = [queue EXCEPT !["main"] = @ \ {r},
                                  !["dlq"] = @ \cup {[seq |-> counter["dlq"] + 1,
                                                      msg |-> r.msg, busy |-> FALSE]}]
        /\ counter' = [counter EXCEPT !["dlq"] = @ + 1]
  /\ UNCHANGED <<sdk, calls, handed, removed, later>>

Finished == Len(calls) = MaxCalls /\ UNCHANGED vars

Next ==
  \/ \E items \in Batches : Send(items)
  \/ \E q \in Queues, fast \in BOOLEAN : Receive(q, fast)
  \/ \E d \in handed : Delete(d)
  \/ \E q \in Queues : Purge(q)
  \/ \E i \in Ids, outcome \in {"timeout", "gateway"} : Strand(i, outcome)
  \/ \E i \in Ids, outcome \in {"ok", "gateway", "rejected"} : Serve(i, TRUE, outcome)
  \/ \E i \in Ids, outcome \in {"ok", "rejected"} : Serve(i, FALSE, outcome)
  \/ \E r \in queue["main"] : Expire(r)
  \/ Finished

Spec == Init /\ [][Next]_vars

-----------------------------------------------------------------------------
TypeOK ==
  /\ sdk \in Sdks
  /\ \A i \in Ids :
       /\ calls[i].st \in {"waiting", "ok", "failed"}
       /\ calls[i].cur <=> calls[i].st = "waiting"
       /\ calls[i].old + calls[i].left <= MaxRetries + 1
  /\ \A q \in Queues : \A r \in queue[q] :
       /\ r.seq \in 1..counter[q] /\ r.msg \in Messages /\ r.busy \in BOOLEAN
       /\ \A s \in queue[q] : r.seq = s.seq => r = s
  /\ expiries \in 0..MaxExpiries

Held(m) == \E q \in Queues : \E r \in queue[q] : r.msg = m

(* A message whose send succeeded is in the queue or the DLQ, or has been  *)
(* handed to the program, unless a purge or a receive with delete=True     *)
(* took it: no lost answer, late attempt or ack of something else loses it *)
(* (services.py MqAPI.receive, delete and their DLQ variants).             *)
NothingLost ==
  \A i \in Of("send") : calls[i].st = "ok" =>
    \A m \in Texts(calls[i].items) :
      \/ Held(m)
      \/ \E d \in handed : d.msg = m
      \/ \E x \in removed : /\ x.msg = m
                            /\ calls[x.call].op = "purge" \/ calls[x.call].fast

(* An ack removes a delivery the program was handed, and no other, however *)
(* late it is executed: sequences of the queue and of its DLQ are not      *)
(* taken for one another (MqAPI.delete, delete_dlq).                       *)
AckRemovesOnlyHandled ==
  \A x \in removed : calls[x.call].op = "ack" =>
    [q |-> x.q, seq |-> x.seq, msg |-> x.msg] \in handed

(* Where a purge is not repeated (Go and Java, js/PARITY.md:32), one that  *)
(* has returned without an error does not remove what is sent afterwards.  *)
PurgeSparesLater ==
  sdk = "go" =>
    \A x \in removed : <<x.call, x.msg>> \notin later

-----------------------------------------------------------------------------
(***************************************************************************)
(* Refinement of Mailbox.                                                  *)
(***************************************************************************)
Bodies(items) == [k \in 1..Len(items) |-> items[k].msg]
Sends == {Bodies(items) : items \in {items \in Batches : GoodBatch(items)}}

Copy(q, r) == [q |-> q, seq |-> r.seq, msg |-> r.msg]

Stored == UNION {{Copy(q, r) : r \in queue[q]} : q \in Queues}
Promised == UNION {Texts(calls[i].items) : i \in {i \in Ids : calls[i].op = "send" /\ calls[i].st = "ok"}}

(* What the program asks for with call c, and whether it may yet happen.   *)
Request(c) ==
  [op |-> IF c.op = "receive" /\ c.fast THEN "take" ELSE c.op, q |-> c.q,
   seq |-> IF c.op = "ack" THEN c.seq ELSE 0,
   send |-> IF c.op = "send" THEN Bodies(c.items) ELSE <<>>]
Live(c) == c.cur \/ c.old > 0
Pending == {Request(calls[i]) : i \in {i \in Ids : Live(calls[i])}}

Abstract == INSTANCE Mailbox WITH
  Streams <- Queues, DeadLetters <- {<<"main", "dlq">>},
  stored <- Stored, last <- counter, given <- handed, promised <- Promised,
  pending <- Pending

(* Through lost answers, repeated and late requests, queues keep what they *)
(* promise: a sequence names one message, and none is stored, handed out   *)
(* or removed but as a request of the program that is still under way asks *)
(* for: an ack of what was handed out removes that copy, a purge those of  *)
(* its stream, a receive with delete=True one it received, and a plain     *)
(* receive none (services.py MqAPI).                                       *)
ImplementsMailbox == Abstract!Spec
=============================================================================
