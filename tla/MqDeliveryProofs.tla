--------------------------- MODULE MqDeliveryProofs ---------------------------
(***************************************************************************)
(* Proofs about MqDelivery, for all messages, batches, beginnings of the   *)
(* queues, and every number of calls, attempts and expiries.               *)
(***************************************************************************)
EXTENDS MqDelivery, TLAPS, FiniteSetTheorems, SequenceTheorems

Ops == {"send", "receive", "ack", "purge"}

Item == [msg : Messages, id : Nat \cup {NoId}]

CallType ==
  [op : Ops, q : Queues, items : Seq(Item), seq : Nat, fast : BOOLEAN,
   st : {"waiting", "ok", "failed"}, cur : BOOLEAN, old : Nat, left : 0..MaxRetries]

Entry == [seq : Nat, msg : Messages, busy : BOOLEAN]
Delivery == [q : Queues, seq : Nat, msg : Messages]
Removal == [call : Nat, q : Queues, seq : Nat, msg : Messages]

TypeInv ==
  /\ sdk \in Sdks
  /\ calls \in Seq(CallType)
  /\ queue \in [Queues -> SUBSET Entry] /\ counter \in [Queues -> Nat]
  /\ expiries \in 0..MaxExpiries
  /\ handed \subseteq Delivery /\ removed \subseteq Removal
  /\ later \subseteq Nat \X Messages

(* Attempts: a call that waits has one that counts and one less to spare.  *)
AttemptsCounted(c) ==
  /\ c.cur <=> c.st = "waiting"
  /\ c.old + c.left <= MaxRetries + 1
  /\ c.cur => c.old + c.left <= MaxRetries

(* Where a purge is not repeated, one the client has given up on failed.   *)
PurgeOnce(c, s) == c.op = "purge" /\ s = "go" /\ c.st # "failed" => c.old = 0

SendsGoodBatch(c) == c.op = "send" /\ c.st # "failed" => GoodBatch(c.items)

CallInv(c, s) ==
  /\ AttemptsCounted(c) /\ PurgeOnce(c, s) /\ SendsGoodBatch(c)
  /\ c.op # "send" => c.items = <<>>

StreamInv ==
  \A q \in Queues : \A r \in queue[q] :
    /\ r.seq \in 1..counter[q]
    /\ \A s \in queue[q] : r.seq = s.seq => r = s

(* A sequence that was handed out names the same message for ever.         *)
NameInv ==
  \A d \in handed :
    /\ d.seq <= counter[d.q]
    /\ \A r \in queue[d.q] : r.seq = d.seq => r.msg = d.msg

AckInv ==
  \A i \in Ids : calls[i].op = "ack" =>
    \E d \in handed : d.q = calls[i].q /\ d.seq = calls[i].seq

(* Messages come from the beginning or from a send.                        *)
Original(m) == \E b \in Beginnings : \E q \in Queues : \E r \in b[q] : r.msg = m
Sent(m) == \E i \in Ids : calls[i].op = "send" /\ m \in Texts(calls[i].items)

OriginInv ==
  /\ \A q \in Queues : \A r \in queue[q] : Original(r.msg) \/ Sent(r.msg)
  /\ \A x \in removed : Original(x.msg) \/ Sent(x.msg)

RemovedInv ==
  \A x \in removed :
    /\ x.call \in Ids
    /\ calls[x.call].op \in {"ack", "purge"} \/ calls[x.call].fast

LaterInv == \A y \in later : y[1] \in Ids /\ calls[y[1]].op = "purge" /\ calls[y[1]].st = "ok"

(* The conjuncts of IndInv about the calls, and those about messages.      *)
CallsInv == \A i \in Ids : CallInv(calls[i], sdk)

MessageInv ==
  StreamInv /\ NameInv /\ AckInv /\ OriginInv /\ RemovedInv /\ LaterInv
  /\ AckRemovesOnlyHandled /\ NothingLost /\ PurgeSparesLater

IndInv == TypeInv /\ CallsInv /\ MessageInv

-----------------------------------------------------------------------------
LEMMA Bounds == MaxRetries \in Nat /\ MaxExpiries \in Nat /\ BatchMax \in Nat
  BY BoundsAssumption

LEMMA InitInd == Init => IndInv
  <1> SUFFICES ASSUME Init PROVE IndInv
    OBVIOUS
  <1>1. /\ calls = <<>> /\ Len(calls) = 0 /\ Ids = {}
        /\ handed = {} /\ removed = {} /\ later = {}
    BY DEF Init, Ids
  <1>2. /\ queue \in Beginnings
        /\ queue \in [Queues -> SUBSET [seq : Nat, msg : Messages, busy : {FALSE}]]
    BY BeginningsAssumption DEF Init
  <1>3. queue \in [Queues -> SUBSET Entry]
    <2>1. [seq : Nat, msg : Messages, busy : {FALSE}] \subseteq Entry
      <3>1. FALSE \in BOOLEAN
        OBVIOUS
      <3>2. QED
        BY <3>1 DEF Entry
    <2>2. QED
      BY <1>2, <2>1
  <1>4. counter = [q \in Queues |-> Cardinality(queue[q])]
    BY DEF Init
  <1>5. \A q \in Queues : Cardinality(queue[q]) \in Nat
    BY <1>2, BeginningsAssumption, FS_CardinalityType
  <1>6. TypeInv
    <2>1. calls \in Seq(CallType)
      BY <1>1, EmptySeq
    <2>2. counter \in [Queues -> Nat]
      BY <1>4, <1>5
    <2>3. QED
      BY <1>1, <1>3, <2>1, <2>2, Bounds DEF Init, TypeInv
  <1>7. StreamInv
    <2>1. \A q \in Queues : counter[q] = Cardinality(queue[q])
      BY <1>4
    <2>2. \A q \in Queues : \A r, s \in queue[q] :
            r.seq \in 1..Cardinality(queue[q]) /\ (r.seq = s.seq => r = s)
      BY <1>2, BeginningsAssumption
    <2>3. QED
      BY <2>1, <2>2 DEF StreamInv
  <1>8. OriginInv
    BY <1>1, <1>2 DEF OriginInv, Original
  <1>9. /\ CallsInv /\ NameInv /\ AckInv /\ RemovedInv /\ LaterInv
        /\ AckRemovesOnlyHandled /\ NothingLost /\ PurgeSparesLater
    BY <1>1 DEF CallsInv, NameInv, AckInv, RemovedInv, LaterInv, AckRemovesOnlyHandled,
                NothingLost, PurgeSparesLater, Of
  <1>10. QED
    BY <1>6, <1>7, <1>8, <1>9 DEF IndInv, MessageInv

-----------------------------------------------------------------------------
(* The calls.                                                              *)
LEMMA CallFields ==
  ASSUME TypeInv, NEW i \in Ids
  PROVE  /\ calls[i] \in CallType
         /\ calls[i].q \in Queues /\ calls[i].items \in Seq(Item) /\ calls[i].seq \in Nat
         /\ calls[i].old \in Nat /\ calls[i].left \in 0..MaxRetries
         /\ calls[i].cur \in BOOLEAN /\ calls[i].fast \in BOOLEAN /\ calls[i].op \in Ops
         /\ calls[i].st \in {"waiting", "ok", "failed"}
  <1>1. calls[i] \in CallType
    BY ElementOfSeq DEF TypeInv, Ids
  <1>2. QED
    BY <1>1 DEF CallType

(* What a call asks for does not change.                                   *)
SameRequest(c, d) ==
  c.op = d.op /\ c.q = d.q /\ c.items = d.items /\ c.seq = d.seq /\ c.fast = d.fast

(* A new call.                                                             *)
LEMMA AppendKeeps ==
  ASSUME IndInv, NEW c \in CallType, CallInv(c, sdk), c.st # "ok",
         calls' = Append(calls, c),
         UNCHANGED <<sdk, queue, counter, expiries, handed, removed>>,
         c.op = "ack" => \E d \in handed : d.q = c.q /\ d.seq = c.seq,
         later \subseteq later', later' \subseteq Nat \X Messages,
         \A y \in later' \ later :
           /\ y[1] \in Ids /\ calls[y[1]].op = "purge" /\ calls[y[1]].st = "ok"
           /\ \A x \in removed : x.msg # y[2]
  PROVE  IndInv'
  <1>1. calls \in Seq(CallType) /\ Len(calls) \in Nat
    BY DEF IndInv, TypeInv
  <1>2. /\ calls' \in Seq(CallType) /\ Len(calls') = Len(calls) + 1
        /\ \A i \in Ids : calls'[i] = calls[i]
        /\ calls'[Len(calls) + 1] = c
    BY <1>1, AppendProperties DEF Ids
  <1>3. Ids' = Ids \cup {Len(calls) + 1} /\ Ids \subseteq Ids'
    BY <1>1, <1>2 DEF Ids
  <1>4. TypeInv'
    BY <1>2 DEF IndInv, TypeInv
  <1>5. CallsInv'
    BY <1>2, <1>3 DEF IndInv, CallsInv
  <1>6. StreamInv' /\ NameInv' /\ AckRemovesOnlyHandled'
    <2>1. StreamInv' /\ NameInv'
      BY DEF IndInv, MessageInv, StreamInv, NameInv
    <2>2. \A x \in removed : calls'[x.call] = calls[x.call]
      BY <1>2 DEF IndInv, MessageInv, RemovedInv
    <2>3. QED
      BY <2>1, <2>2 DEF IndInv, MessageInv, AckRemovesOnlyHandled
  <1>7. AckInv'
    <2> SUFFICES ASSUME NEW i \in Ids', calls'[i].op = "ack"
                 PROVE  \E d \in handed : d.q = calls'[i].q /\ d.seq = calls'[i].seq
      BY DEF AckInv
    <2>1. CASE i \in Ids
      BY <1>2, <2>1 DEF IndInv, MessageInv, AckInv
    <2>2. CASE i = Len(calls) + 1
      BY <1>2, <2>2
    <2>3. QED
      BY <1>3, <2>1, <2>2
  <1>8. OriginInv'
    <2>1. \A m : Sent(m) => Sent(m)'
      BY <1>2, <1>3 DEF Sent
    <2>2. QED
      BY <2>1 DEF IndInv, MessageInv, OriginInv
  <1>9. RemovedInv' /\ LaterInv'
    BY <1>2, <1>3 DEF IndInv, MessageInv, RemovedInv, LaterInv
  <1>10. NothingLost'
    <2> SUFFICES ASSUME NEW i \in Ids', calls'[i].op = "send", calls'[i].st = "ok",
                        NEW m \in Texts(calls'[i].items)
                 PROVE  (\/ Held(m)
                         \/ \E d \in handed : d.msg = m
                         \/ \E x \in removed : /\ x.msg = m
                                               /\ calls[x.call].op = "purge" \/ calls[x.call].fast)'
      BY DEF NothingLost, Of
    <2>1. i \in Ids /\ calls'[i] = calls[i]
      BY <1>2, <1>3
    <2>2. \/ Held(m)
          \/ \E d \in handed : d.msg = m
          \/ \E x \in removed : x.msg = m /\ (calls[x.call].op = "purge" \/ calls[x.call].fast)
      BY <2>1 DEF IndInv, MessageInv, NothingLost, Of
    <2>3. \A x \in removed : calls'[x.call] = calls[x.call]
      BY <1>2 DEF IndInv, MessageInv, RemovedInv
    <2>4. QED
      BY <2>2, <2>3 DEF Held
  <1>11. PurgeSparesLater'
    <2> SUFFICES ASSUME sdk = "go", NEW x \in removed
                 PROVE  <<x.call, x.msg>> \notin later'
      BY DEF PurgeSparesLater
    <2>1. <<x.call, x.msg>> \notin later
      BY DEF IndInv, MessageInv, PurgeSparesLater
    <2>2. QED
      BY <2>1
  <1>12. QED
    BY <1>4, <1>5, <1>6, <1>7, <1>8, <1>9, <1>10, <1>11 DEF IndInv, MessageInv

LEMMA CalledType ==
  ASSUME NEW op \in Ops, NEW q \in Queues, NEW items \in Seq(Item), NEW seq \in Nat,
         NEW fast \in BOOLEAN
  PROVE  /\ Called(op, q, items, seq, fast) \in CallType
         /\ AttemptsCounted(Called(op, q, items, seq, fast))
         /\ \A s : PurgeOnce(Called(op, q, items, seq, fast), s)
  <1>1. MaxRetries \in 0..MaxRetries
    BY Bounds
  <1>2. Called(op, q, items, seq, fast) \in CallType
    BY <1>1 DEF Called, CallType
  <1>3. AttemptsCounted(Called(op, q, items, seq, fast))
    BY Bounds DEF Called, AttemptsCounted
  <1>4. \A s : PurgeOnce(Called(op, q, items, seq, fast), s)
    BY DEF Called, PurgeOnce
  <1>5. QED
    BY <1>2, <1>3, <1>4

LEMMA NewCallsKeep ==
  ASSUME IndInv,
         \/ \E q \in Queues, fast \in BOOLEAN : Receive(q, fast)
         \/ \E d \in handed : Delete(d)
         \/ \E q \in Queues : Purge(q)
  PROVE  IndInv'
  <1>1. <<>> \in Seq(Item) /\ 0 \in Nat
    BY EmptySeq
  <1>2. ASSUME NEW c, calls' = Append(calls, c), c \in CallType, AttemptsCounted(c),
               PurgeOnce(c, sdk), c.op # "send", c.items = <<>>, c.st = "waiting",
               UNCHANGED <<sdk, queue, counter, expiries, handed, removed, later>>,
               c.op = "ack" => \E d \in handed : d.q = c.q /\ d.seq = c.seq
        PROVE  IndInv'
    <2>1. CallInv(c, sdk) /\ c.st # "ok"
      BY <1>2 DEF CallInv, SendsGoodBatch
    <2>2. later' = later /\ later \subseteq Nat \X Messages
      BY <1>2 DEF IndInv, TypeInv
    <2>3. QED
      BY <1>2, <2>1, <2>2, AppendKeeps
  <1>3. ASSUME NEW q \in Queues, NEW fast \in BOOLEAN, Receive(q, fast) PROVE IndInv'
    <2> DEFINE c == Called("receive", q, <<>>, 0, fast)
    <2>1. /\ calls' = Append(calls, c)
          /\ UNCHANGED <<sdk, queue, counter, expiries, handed, removed, later>>
      BY <1>3 DEF Receive, Call
    <2>2. c \in CallType /\ AttemptsCounted(c) /\ PurgeOnce(c, sdk)
      BY <1>1, CalledType DEF Ops
    <2>3. c.op = "receive" /\ c.items = <<>> /\ c.st = "waiting"
      BY DEF Called
    <2> HIDE DEF c
    <2>4. QED
      BY <1>2, <2>1, <2>2, <2>3
  <1>4. ASSUME NEW d \in handed, Delete(d) PROVE IndInv'
    <2> DEFINE c == Called("ack", d.q, <<>>, d.seq, FALSE)
    <2>1. /\ calls' = Append(calls, c)
          /\ UNCHANGED <<sdk, queue, counter, expiries, handed, removed, later>>
      BY <1>4 DEF Delete, Call
    <2>2. d.q \in Queues /\ d.seq \in Nat
      BY DEF IndInv, TypeInv, Delivery
    <2>3. c \in CallType /\ AttemptsCounted(c) /\ PurgeOnce(c, sdk)
      BY <1>1, <2>2, CalledType DEF Ops
    <2>4. c.op = "ack" /\ c.items = <<>> /\ c.st = "waiting" /\ c.q = d.q /\ c.seq = d.seq
      BY DEF Called
    <2> HIDE DEF c
    <2>5. QED
      BY <1>2, <2>1, <2>3, <2>4
  <1>5. ASSUME NEW q \in Queues, Purge(q) PROVE IndInv'
    <2> DEFINE c == Called("purge", q, <<>>, 0, FALSE)
    <2>1. /\ calls' = Append(calls, c)
          /\ UNCHANGED <<sdk, queue, counter, expiries, handed, removed, later>>
      BY <1>5 DEF Purge, Call
    <2>2. c \in CallType /\ AttemptsCounted(c) /\ PurgeOnce(c, sdk)
      BY <1>1, CalledType DEF Ops
    <2>3. c.op = "purge" /\ c.items = <<>> /\ c.st = "waiting"
      BY DEF Called
    <2> HIDE DEF c
    <2>4. QED
      BY <1>2, <2>1, <2>2, <2>3
  <1>6. QED
    BY <1>3, <1>4, <1>5

(* What a batch names is new: no purge that has returned can have removed  *)
(* it.                                                                     *)
LEMMA SendKeeps ==
  ASSUME IndInv, NEW items \in Batches, Send(items)
  PROVE  IndInv'
  <1> DEFINE full == Called("send", "main", items, 0, FALSE)
             c == IF GoodBatch(items) THEN full ELSE [full EXCEPT !.st = "failed", !.cur = FALSE]
  <1>1. items \in Seq(Item)
    BY BatchesAssumption DEF Item
  <1>2. /\ calls' = Append(calls, c)
        /\ UNCHANGED <<sdk, queue, counter, expiries, handed, removed>>
        /\ later' = later \cup
             {<<i, m>> : i \in {i \in Of("purge") : calls[i].st = "ok"}, m \in Texts(items)}
    BY DEF Send, Call
  <1>3. full \in CallType /\ AttemptsCounted(full) /\ full.items = items
        /\ full.st = "waiting" /\ full.op = "send" /\ full.old = 0 /\ full.left = MaxRetries
    <2>1. full \in CallType /\ AttemptsCounted(full)
      BY <1>1, CalledType DEF Ops, Queues
    <2>2. QED
      BY <2>1 DEF Called
  <1> HIDE DEF full
  <1>4. /\ c \in CallType /\ c.op = "send" /\ c.st # "ok" /\ CallInv(c, sdk)
    <2>1. CASE GoodBatch(items)
      BY <1>3, <2>1 DEF CallInv, PurgeOnce, SendsGoodBatch
    <2>2. CASE ~GoodBatch(items)
      <3>1. /\ c \in CallType /\ c.st = "failed" /\ c.cur = FALSE /\ c.op = "send"
            /\ c.old = 0 /\ c.left = MaxRetries
        BY <1>3, <2>2 DEF CallType
      <3>2. AttemptsCounted(c)
        BY <3>1, Bounds DEF AttemptsCounted
      <3>3. QED
        BY <3>1, <3>2 DEF CallInv, PurgeOnce, SendsGoodBatch
    <2>3. QED
      BY <2>1, <2>2
  <1> HIDE DEF c
  <1>5. \A m \in Texts(items) : m \in Messages
    <2>1. \A k \in 1..Len(items) : items[k] \in Item
      BY <1>1, ElementOfSeq
    <2>2. \A k \in 1..Len(items) : items[k].msg \in Messages
      BY <2>1 DEF Item
    <2>3. QED
      BY <2>2 DEF Texts
  <1>6. \A m \in Texts(items) : ~Original(m) /\ ~Sent(m)
    <2>1. \A m \in Texts(items) : ~Original(m)
      BY BatchesAssumption DEF Original
    <2>2. \A i \in Of("send") : Texts(calls[i].items) \cap Texts(items) = {}
      BY DEF Send
    <2>3. QED
      BY <2>1, <2>2 DEF Sent, Of
  <1>7. later \subseteq later' /\ later' \subseteq Nat \X Messages
    <2>1. \A i \in Of("purge"), m \in Texts(items) : <<i, m>> \in Nat \X Messages
      BY <1>5 DEF Of, Ids
    <2>2. later \subseteq Nat \X Messages
      BY DEF IndInv, TypeInv
    <2>3. QED
      BY <1>2, <2>1, <2>2
  <1>8. \A y \in later' \ later :
          /\ y[1] \in Ids /\ calls[y[1]].op = "purge" /\ calls[y[1]].st = "ok"
          /\ \A x \in removed : x.msg # y[2]
    <2> SUFFICES ASSUME NEW y \in later', y \notin later
                 PROVE  /\ y[1] \in Ids /\ calls[y[1]].op = "purge" /\ calls[y[1]].st = "ok"
                        /\ \A x \in removed : x.msg # y[2]
      OBVIOUS
    <2>1. PICK i \in {i \in Of("purge") : calls[i].st = "ok"}, m \in Texts(items) : y = <<i, m>>
      BY <1>2
    <2>2. \A x \in removed : x.msg # m
      BY <1>6 DEF IndInv, MessageInv, OriginInv
    <2>3. QED
      BY <2>1, <2>2 DEF Of
  <1>9. QED
    BY <1>2, <1>4, <1>7, <1>8, AppendKeeps

-----------------------------------------------------------------------------
(* What becomes of a call whose attempt has ended.                         *)
LEMMA AttemptEnds ==
  ASSUME NEW c \in CallType, c.st = "waiting", c.old + c.left <= MaxRetries + 1,
         NEW outcome \in {"ok", "gateway", "rejected", "timeout"}
  PROVE  LET d == AfterAttempt(c, outcome)
         IN  /\ d \in CallType /\ SameRequest(c, d) /\ d.old = c.old
             /\ AttemptsCounted(d)
             /\ d.st = "ok" <=> outcome = "ok"
             /\ d.st = "waiting" => Repeats(c.op, outcome)
  <1> DEFINE d == AfterAttempt(c, outcome)
  <1>1. c.left \in 0..MaxRetries /\ c.old \in Nat /\ 0 \in 0..MaxRetries
    BY Bounds DEF CallType
  <1>2. CASE outcome = "ok"
    <2>1. d = [c EXCEPT !.st = "ok", !.cur = FALSE, !.left = 0]
      BY <1>2 DEF AfterAttempt
    <2>2. /\ d \in CallType /\ SameRequest(c, d) /\ d.old = c.old
          /\ d.st = "ok" /\ d.cur = FALSE /\ d.left = 0
      BY <1>1, <2>1 DEF CallType, SameRequest
    <2>3. AttemptsCounted(d)
      BY <1>1, <2>2, Bounds DEF AttemptsCounted
    <2>4. QED
      BY <1>2, <2>2, <2>3
  <1>3. CASE outcome # "ok" /\ Repeats(c.op, outcome) /\ c.left > 0
    <2>1. d = [c EXCEPT !.cur = TRUE, !.left = @ - 1]
      BY <1>3 DEF AfterAttempt
    <2>2. c.left - 1 \in 0..MaxRetries
      BY <1>1, <1>3, Bounds
    <2>3. /\ d \in CallType /\ SameRequest(c, d) /\ d.old = c.old
          /\ d.st = "waiting" /\ d.cur = TRUE /\ d.left = c.left - 1
      BY <2>1, <2>2 DEF CallType, SameRequest
    <2>4. AttemptsCounted(d)
      BY <1>1, <2>3, Bounds DEF AttemptsCounted
    <2>5. QED
      BY <1>3, <2>3, <2>4
  <1>4. CASE outcome # "ok" /\ ~(Repeats(c.op, outcome) /\ c.left > 0)
    <2>1. d = [c EXCEPT !.st = "failed", !.cur = FALSE, !.left = 0]
      BY <1>4 DEF AfterAttempt
    <2>2. /\ d \in CallType /\ SameRequest(c, d) /\ d.old = c.old
          /\ d.st = "failed" /\ d.cur = FALSE /\ d.left = 0
      BY <1>1, <2>1 DEF CallType, SameRequest
    <2>3. AttemptsCounted(d)
      BY <1>1, <2>2, Bounds DEF AttemptsCounted
    <2>4. QED
      BY <1>4, <2>2, <2>3
  <1>5. QED
    BY <1>2, <1>3, <1>4

(* Call i becomes c, the others stay.                                      *)
Becomes(i, c) ==
  /\ calls' \in Seq(CallType) /\ Ids' = Ids /\ calls'[i] = c
  /\ \A j \in Ids \ {i} : calls'[j] = calls[j]

LEMMA OneCall ==
  ASSUME TypeInv, NEW i \in Ids, NEW c \in CallType, calls' = [calls EXCEPT ![i] = c]
  PROVE  Becomes(i, c)
  <1>1. /\ calls' \in Seq(CallType) /\ Len(calls') = Len(calls)
        /\ \A j \in 1..Len(calls) : calls'[j] = IF j = i THEN c ELSE calls[j]
    BY ExceptSeq DEF TypeInv, Ids
  <1>2. QED
    BY <1>1 DEF Becomes, Ids

(* Deleting is not losing: what the service, having executed call i, does  *)
(* to the streams, as far as the properties can tell.                      *)
Known(m) == Original(m) \/ Sent(m)

OnlyKnownAdded ==
  \A q \in Queues : \A r \in queue'[q] :
    \/ \E s \in queue[q] : s.seq = r.seq /\ s.msg = r.msg
    \/ r.seq > counter[q] /\ Known(r.msg)

NothingVanishes ==
  \A m : Held(m) => Held(m)' \/ \E x \in removed' : x.msg = m

RemovesOwn(i) ==
  \A x \in removed' \ removed :
    /\ x.call = i /\ x.q = calls[i].q
    /\ \E s \in queue[x.q] : s.seq = x.seq /\ s.msg = x.msg
    /\ calls[i].op = "ack" => x.seq = calls[i].seq
    /\ calls[i].op \in {"ack", "purge"} \/ calls[i].fast

Streams ==
  /\ queue' \in [Queues -> SUBSET Entry] /\ counter' \in [Queues -> Nat]
  /\ \A q \in Queues : counter[q] <= counter'[q]
  /\ StreamInv'
  /\ OnlyKnownAdded /\ NothingVanishes
  /\ removed \subseteq removed' /\ removed' \subseteq Removal

Hands ==
  /\ handed \subseteq handed' /\ handed' \subseteq Delivery
  /\ \A d \in handed' \ handed : \E s \in queue[d.q] : s.seq = d.seq /\ s.msg = d.msg

(* Such a step keeps what is said about messages, if the calls stay what   *)
(* they are, a purge that has returned is not the one executed, and a send *)
(* that returns has stored its messages.                                   *)
LEMMA MessagesKept ==
  ASSUME IndInv, Streams, Hands, NEW i, RemovesOwn(i), removed' # removed => i \in Ids,
         UNCHANGED <<sdk, later>>,
         Ids' = Ids, \A j \in Ids : SameRequest(calls[j], calls'[j]),
         \A j \in Ids : calls[j].st = "ok" => calls'[j].st = "ok",
         \A j \in Ids : calls[j].op = "send" /\ calls'[j].st = "ok" /\ calls[j].st # "ok" =>
           \A m \in Texts(calls[j].items) : Held(m)',
         removed' # removed /\ sdk = "go" /\ calls[i].op = "purge" => calls[i].st # "ok"
  PROVE  MessageInv'
  <1>1. TypeInv /\ MessageInv
    BY DEF IndInv
  <1>2. \A x \in removed' : /\ x.call \in Ids
                            /\ SameRequest(calls[x.call], calls'[x.call])
                            /\ calls[x.call].op \in {"ack", "purge"} \/ calls[x.call].fast
    BY <1>1 DEF MessageInv, RemovedInv, RemovesOwn
  <1>3. StreamInv'
    BY DEF Streams
  <1>4. NameInv'
    <2> SUFFICES ASSUME NEW d \in handed'
                 PROVE  /\ d.seq <= counter'[d.q]
                        /\ \A r \in queue'[d.q] : r.seq = d.seq => r.msg = d.msg
      BY DEF NameInv
    <2>1. /\ d.q \in Queues /\ d.seq \in Nat /\ counter[d.q] \in Nat /\ counter'[d.q] \in Nat
          /\ counter[d.q] <= counter'[d.q]
      BY <1>1 DEF Hands, Delivery, Streams, TypeInv
    <2>2. /\ d.seq <= counter[d.q]
          /\ \A s \in queue[d.q] : s.seq = d.seq => s.msg = d.msg
      <3>1. CASE d \in handed
        BY <1>1, <3>1 DEF MessageInv, NameInv
      <3>2. CASE d \notin handed
        <4>1. PICK s \in queue[d.q] : s.seq = d.seq /\ s.msg = d.msg
          BY <3>2 DEF Hands
        <4>2. QED
          BY <1>1, <2>1, <4>1 DEF MessageInv, StreamInv
      <3>3. QED
        BY <3>1, <3>2
    <2>3. ASSUME NEW r \in queue'[d.q], r.seq = d.seq PROVE r.msg = d.msg
      BY <2>1, <2>2, <2>3 DEF Streams, OnlyKnownAdded
    <2>4. QED
      BY <2>1, <2>2, <2>3
  <1>5. AckInv'
    BY <1>1 DEF MessageInv, AckInv, Hands, SameRequest
  <1>6. \A m : Known(m) => Known(m)'
    BY DEF Known, Sent, SameRequest
  <1>7. OriginInv'
    <2>1. \A q \in Queues : \A s \in queue[q] : Known(s.msg)
      BY <1>1 DEF MessageInv, OriginInv, Known
    <2>2. \A q \in Queues : \A r \in queue'[q] : Known(r.msg)
      BY <2>1 DEF Streams, OnlyKnownAdded
    <2>3. \A x \in removed' : Known(x.msg)
      <3>1. \A x \in removed : Known(x.msg)
        BY <1>1 DEF MessageInv, OriginInv, Known
      <3>2. \A x \in removed' \ removed : Known(x.msg)
        <4>1. \A x \in removed' : x.q \in Queues
          BY DEF Streams, Removal
        <4>2. QED
          BY <2>1, <4>1 DEF RemovesOwn
      <3>3. QED
        BY <3>1, <3>2
    <2>4. QED
      BY <1>6, <2>2, <2>3 DEF OriginInv, Known
  <1>8. RemovedInv'
    BY <1>2 DEF RemovedInv, SameRequest
  <1>9. LaterInv'
    BY <1>1 DEF MessageInv, LaterInv, SameRequest
  <1>10. AckRemovesOnlyHandled'
    <2> SUFFICES ASSUME NEW x \in removed', calls'[x.call].op = "ack"
                 PROVE  [q |-> x.q, seq |-> x.seq, msg |-> x.msg] \in handed'
      BY DEF AckRemovesOnlyHandled
    <2>1. calls[x.call].op = "ack"
      BY <1>2 DEF SameRequest
    <2>2. CASE x \in removed
      BY <1>1, <2>1, <2>2 DEF MessageInv, AckRemovesOnlyHandled, Hands
    <2>3. CASE x \notin removed
      <3>1. /\ x.call = i /\ x.q = calls[i].q /\ i \in Ids
            /\ \E s \in queue[x.q] : s.seq = x.seq /\ s.msg = x.msg
            /\ x.seq = calls[i].seq
        BY <2>1, <2>3 DEF RemovesOwn
      <3>2. PICK d \in handed : d.q = x.q /\ d.seq = x.seq
        BY <1>1, <2>1, <3>1 DEF MessageInv, AckInv
      <3>3. d.msg = x.msg
        BY <1>1, <3>1, <3>2 DEF MessageInv, NameInv
      <3>4. d = [q |-> x.q, seq |-> x.seq, msg |-> x.msg]
        BY <1>1, <3>2, <3>3 DEF TypeInv, Delivery
      <3>5. QED
        BY <3>4 DEF Hands
    <2>4. QED
      BY <2>2, <2>3
  <1>11. NothingLost'
    <2> SUFFICES ASSUME NEW j \in Ids, calls'[j].op = "send", calls'[j].st = "ok",
                        NEW m \in Texts(calls'[j].items)
                 PROVE  \/ Held(m)'
                        \/ \E d \in handed' : d.msg = m
                        \/ \E x \in removed' :
                             x.msg = m /\ (calls'[x.call].op = "purge" \/ calls'[x.call].fast)
      BY DEF NothingLost, Of
    <2>1. calls[j].op = "send" /\ m \in Texts(calls[j].items)
      BY DEF SameRequest
    <2>2. CASE calls[j].st # "ok"
      BY <2>1, <2>2
    <2>3. CASE calls[j].st = "ok"
      <3>1. \/ Held(m)
            \/ \E d \in handed : d.msg = m
            \/ \E x \in removed : x.msg = m /\ (calls[x.call].op = "purge" \/ calls[x.call].fast)
        BY <1>1, <2>1, <2>3 DEF MessageInv, NothingLost, Of
      <3>2. CASE Held(m)
        <4>1. Held(m)' \/ \E x \in removed' : x.msg = m
          BY <3>2 DEF Streams, NothingVanishes
        <4>2. ASSUME NEW x \in removed', x.msg = m
              PROVE  \/ \E d \in handed' : d.msg = m
                     \/ calls'[x.call].op = "purge" \/ calls'[x.call].fast
          <5>1. CASE calls'[x.call].op = "ack"
            <6>1. [q |-> x.q, seq |-> x.seq, msg |-> x.msg] \in handed'
              BY <1>10, <5>1 DEF AckRemovesOnlyHandled
            <6>2. QED
              BY <4>2, <6>1
          <5>2. CASE calls'[x.call].op # "ack"
            BY <1>2, <5>2 DEF SameRequest
          <5>3. QED
            BY <5>1, <5>2
        <4>3. QED
          BY <4>1, <4>2
      <3>3. CASE \E d \in handed : d.msg = m
        BY <3>3 DEF Hands
      <3>4. CASE \E x \in removed : x.msg = m /\ (calls[x.call].op = "purge" \/ calls[x.call].fast)
        BY <1>2, <3>4 DEF Streams, SameRequest
      <3>5. QED
        BY <3>1, <3>2, <3>3, <3>4
    <2>4. QED
      BY <2>2, <2>3
  <1>12. PurgeSparesLater'
    <2> SUFFICES ASSUME sdk = "go", NEW x \in removed'
                 PROVE  <<x.call, x.msg>> \notin later
      BY DEF PurgeSparesLater
    <2>1. CASE x \in removed
      BY <1>1, <2>1 DEF MessageInv, PurgeSparesLater
    <2>2. CASE x \notin removed
      <3>1. x.call = i /\ (calls[i].op = "purge" => calls[i].st # "ok")
        BY <2>2 DEF RemovesOwn
      <3>2. QED
        BY <1>1, <3>1 DEF MessageInv, LaterInv
    <2>3. QED
      BY <2>1, <2>2
  <1>13. QED
    BY <1>3, <1>4, <1>5, <1>7, <1>8, <1>9, <1>10, <1>11, <1>12 DEF MessageInv

(* An execution of a call does to the streams what the previous lemma asks *)
(* for.                                                                    *)
LEMMA TouchedReal ==
  ASSUME NEW i \in Ids, NEW touched \in Touched(calls[i]), calls[i].op \in Ops
  PROVE  /\ touched \subseteq queue[calls[i].q]
         /\ calls[i].op = "send" => touched = {}
         /\ calls[i].op = "ack" => \A r \in touched : r.seq = calls[i].seq
  BY DEF Touched, Stream, Ops

LEMMA ExecuteStreams ==
  ASSUME IndInv, NEW i \in Ids, NEW touched \in Touched(calls[i]), Execute(i, touched)
  PROVE  /\ Streams /\ RemovesOwn(i)
         /\ calls[i].op = "send" => \A m \in Texts(calls[i].items) : Held(m)'
  <1> DEFINE c == calls[i]
             p == c.q
             base == counter[p]
             stored == {[seq |-> base + k, msg |-> c.items[k].msg, busy |-> FALSE] :
                          k \in 1..Len(c.items)}
             held == IF c.op = "receive" /\ ~Takes(c)
                     THEN {[r EXCEPT !.busy = TRUE] : r \in touched} ELSE {}
             gone == IF held # {} THEN {}
                     ELSE {[call |-> i, q |-> p, seq |-> r.seq, msg |-> r.msg] : r \in touched}
  <1>1. /\ TypeInv /\ StreamInv /\ c.op \in Ops /\ p \in Queues /\ c.items \in Seq(Item)
        /\ Len(c.items) \in Nat /\ base \in Nat /\ (c.op # "send" => c.items = <<>>)
    <2>1. TypeInv /\ StreamInv /\ CallInv(c, sdk)
      BY DEF IndInv, MessageInv, CallsInv
    <2>2. c.op \in Ops /\ p \in Queues /\ c.items \in Seq(Item)
      BY <2>1, CallFields
    <2>3. QED
      BY <2>1, <2>2, LenProperties DEF TypeInv, CallInv
  <1>2. /\ queue' = [queue EXCEPT ![p] = (@ \ touched) \cup stored \cup held]
        /\ counter' = [counter EXCEPT ![p] = @ + Len(c.items)]
        /\ removed' = removed \cup gone
    BY DEF Execute, Stream
  <1>3. /\ touched \subseteq queue[p] /\ (c.op = "send" => touched = {})
        /\ (c.op = "ack" => \A r \in touched : r.seq = c.seq)
    BY <1>1, TouchedReal
  <1>4. \A r \in queue[p] : r \in Entry /\ r.seq \in 1..base /\ r.seq \in Nat
    BY <1>1 DEF TypeInv, StreamInv
  <1>5. stored \subseteq Entry /\ \A r \in stored : r.seq > base /\ r.seq \in 1..(base + Len(c.items))
    <2>1. \A k \in 1..Len(c.items) : c.items[k] \in Item
      BY <1>1, ElementOfSeq
    <2>2. \A k \in 1..Len(c.items) : c.items[k].msg \in Messages
      BY <2>1 DEF Item
    <2>3. \A k \in 1..Len(c.items) :
            /\ base + k \in Nat /\ base + k > base /\ base + k \in 1..(base + Len(c.items))
      BY <1>1
    <2>4. FALSE \in BOOLEAN
      OBVIOUS
    <2>5. \A k \in 1..Len(c.items) :
            [seq |-> base + k, msg |-> c.items[k].msg, busy |-> FALSE] \in Entry
      BY <2>2, <2>3, <2>4 DEF Entry
    <2>6. \A r \in stored : \E k \in 1..Len(c.items) :
            r = [seq |-> base + k, msg |-> c.items[k].msg, busy |-> FALSE]
      OBVIOUS
    <2>7. ASSUME NEW r \in stored
          PROVE  r \in Entry /\ r.seq > base /\ r.seq \in 1..(base + Len(c.items))
      <3>1. PICK k \in 1..Len(c.items) :
              r = [seq |-> base + k, msg |-> c.items[k].msg, busy |-> FALSE]
        BY <2>6
      <3>2. r.seq = base + k
        BY <3>1
      <3>3. QED
        BY <2>3, <2>5, <3>1, <3>2
    <2>8. QED
      BY <2>7
  <1>6. \A r, s \in stored : r.seq = s.seq => r = s
    <2>1. ASSUME NEW r \in stored, NEW s \in stored, r.seq = s.seq PROVE r = s
      <3>1. PICK k \in 1..Len(c.items) :
              r = [seq |-> base + k, msg |-> c.items[k].msg, busy |-> FALSE]
        OBVIOUS
      <3>2. PICK j \in 1..Len(c.items) :
              s = [seq |-> base + j, msg |-> c.items[j].msg, busy |-> FALSE]
        OBVIOUS
      <3>3. base + k = base + j
        BY <2>1, <3>1, <3>2
      <3>4. k = j
        BY <1>1, <3>3
      <3>5. QED
        BY <3>1, <3>2, <3>4
    <2>2. QED
      BY <2>1
  <1>7. /\ held \subseteq Entry
        /\ \A r \in held : \E s \in touched : r.seq = s.seq /\ r.msg = s.msg /\ r = [s EXCEPT !.busy = TRUE]
    <2>1. \A s \in touched : s \in Entry
      BY <1>3, <1>4
    <2>2. \A s \in touched : /\ [s EXCEPT !.busy = TRUE] \in Entry
                            /\ [s EXCEPT !.busy = TRUE].seq = s.seq
                            /\ [s EXCEPT !.busy = TRUE].msg = s.msg
      BY <2>1 DEF Entry
    <2>3. QED
      BY <2>2
  <1>8. held # {} => c.op = "receive" /\ \A s \in touched : [s EXCEPT !.busy = TRUE] \in held
    OBVIOUS
  <1>9. held = {} /\ touched # {} => c.op \in {"ack", "purge"} \/ c.fast
    BY <1>1, <1>3 DEF Takes, Ops
  <1>10. (c.op # "send" => stored = {}) /\ (stored # {} => c.op = "send")
    <2>1. c.op # "send" => Len(c.items) = 0
      BY <1>1, EmptySeq
    <2>2. QED
      BY <2>1
  <1>11. c.op = "send" => \A r \in stored : r.msg \in Texts(c.items)
    BY DEF Texts
  <1>12. \A m \in Texts(c.items) : \E r \in stored : r.msg = m
    <2>1. ASSUME NEW m \in Texts(c.items) PROVE \E r \in stored : r.msg = m
      <3>1. PICK k \in 1..Len(c.items) : m = c.items[k].msg
        BY DEF Texts
      <3>2. [seq |-> base + k, msg |-> c.items[k].msg, busy |-> FALSE] \in stored
        OBVIOUS
      <3>3. [seq |-> base + k, msg |-> c.items[k].msg, busy |-> FALSE].msg = m
        BY <3>1
      <3>4. QED
        BY <3>2, <3>3
    <2>2. QED
      BY <2>1
  <1> HIDE DEF stored, held
  <1>13. /\ queue' \in [Queues -> SUBSET Entry] /\ counter' \in [Queues -> Nat]
         /\ queue'[p] = (queue[p] \ touched) \cup stored \cup held
         /\ counter'[p] = base + Len(c.items)
         /\ \A q \in Queues \ {p} : queue'[q] = queue[q] /\ counter'[q] = counter[q]
    BY <1>1, <1>2, <1>5, <1>7 DEF TypeInv
  <1>14. \A q \in Queues : counter[q] <= counter'[q]
    <2>1. base <= base + Len(c.items)
      BY <1>1
    <2>2. \A q \in Queues : counter[q] \in Nat
      BY <1>1 DEF TypeInv
    <2> HIDE DEF base
    <2>3. counter[p] = base
      BY DEF base
    <2>4. \A n \in Nat : n <= n
      OBVIOUS
    <2>5. QED
      BY <1>13, <2>1, <2>2, <2>3, <2>4
  <1>15. StreamInv'
    <2>1. \A q \in Queues \ {p} : \A r \in queue'[q] :
            r.seq \in 1..counter'[q] /\ \A s \in queue'[q] : r.seq = s.seq => r = s
      BY <1>1, <1>13 DEF StreamInv
    <2>2. \A r \in queue'[p] : r.seq \in 1..counter'[p]
      <3>1. \A r \in queue[p] \cup held : r.seq \in 1..base
        BY <1>3, <1>4, <1>7
      <3>2. \A n \in 1..base : n \in 1..(base + Len(c.items))
        BY <1>1
      <3>3. QED
        BY <1>5, <1>13, <3>1, <3>2
    <2>3. ASSUME NEW r \in queue'[p], NEW s \in queue'[p], r.seq = s.seq PROVE r = s
      <3>1. \A u \in queue[p] \ touched, v \in queue[p] : u.seq = v.seq => u = v
        BY <1>1 DEF StreamInv
      <3>2. \A u \in stored, v \in queue[p] : u.seq # v.seq
        BY <1>1, <1>4, <1>5
      <3>3. \A u \in queue[p] \ touched, v \in held : u.seq # v.seq
        BY <1>3, <1>7, <3>1
      <3>4. \A u \in stored, v \in held : u.seq # v.seq
        BY <1>3, <1>7, <3>2
      <3>5. \A u, v \in held : u.seq = v.seq => u = v
        <4>1. ASSUME NEW u \in held, NEW v \in held, u.seq = v.seq PROVE u = v
          <5>1. PICK a \in touched : u.seq = a.seq /\ u = [a EXCEPT !.busy = TRUE]
            BY <1>7
          <5>2. PICK b \in touched : v.seq = b.seq /\ v = [b EXCEPT !.busy = TRUE]
            BY <1>7
          <5>3. a = b
            BY <1>1, <1>3, <4>1, <5>1, <5>2 DEF StreamInv
          <5>4. QED
            BY <5>1, <5>2, <5>3
        <4>2. QED
          BY <4>1
      <3>6. QED
        BY <1>6, <1>13, <2>3, <3>1, <3>2, <3>3, <3>4, <3>5
    <2>4. QED
      BY <2>1, <2>2, <2>3 DEF StreamInv
  <1>16. OnlyKnownAdded
    <2> SUFFICES ASSUME NEW q \in Queues, NEW r \in queue'[q]
                 PROVE  \/ \E s \in queue[q] : s.seq = r.seq /\ s.msg = r.msg
                        \/ r.seq > counter[q] /\ Known(r.msg)
      BY DEF OnlyKnownAdded
    <2>1. CASE q # p \/ r \in queue[p]
      BY <1>13, <2>1
    <2>2. CASE q = p /\ r \in held
      BY <1>3, <1>7, <2>2
    <2>3. CASE q = p /\ r \in stored
      <3>1. c.op = "send" /\ r.msg \in Texts(c.items)
        BY <1>10, <1>11, <2>3
      <3>2. Known(r.msg)
        BY <3>1 DEF Known, Sent
      <3>3. QED
        BY <1>5, <2>3, <3>2
    <2>4. QED
      BY <1>13, <2>1, <2>2, <2>3
  <1>17. NothingVanishes
    <2> SUFFICES ASSUME NEW m, NEW q \in Queues, NEW s \in queue[q], s.msg = m
                 PROVE  Held(m)' \/ \E x \in removed' : x.msg = m
      BY DEF NothingVanishes, Held
    <2>1. CASE q # p \/ s \notin touched
      <3>1. s \in queue'[q]
        BY <1>13, <2>1
      <3>2. QED
        BY <3>1 DEF Held
    <2>2. CASE q = p /\ s \in touched /\ held # {}
      <3>1. [s EXCEPT !.busy = TRUE] \in queue'[p] /\ [s EXCEPT !.busy = TRUE].msg = s.msg
        BY <1>4, <1>8, <1>13, <2>2 DEF Entry
      <3>2. QED
        BY <2>2, <3>1 DEF Held
    <2>3. CASE q = p /\ s \in touched /\ held = {}
      <3>1. [call |-> i, q |-> p, seq |-> s.seq, msg |-> s.msg] \in removed'
        BY <1>2, <2>3
      <3>2. QED
        BY <3>1
    <2>4. QED
      BY <2>1, <2>2, <2>3
  <1>18. removed \subseteq removed' /\ removed' \subseteq Removal
    <2>1. i \in Nat
      BY DEF Ids
    <2>2. \A r \in touched : [call |-> i, q |-> p, seq |-> r.seq, msg |-> r.msg] \in Removal
      BY <1>1, <1>3, <1>4, <2>1 DEF Entry, Removal
    <2>3. removed \subseteq Removal
      BY <1>1 DEF TypeInv
    <2>4. QED
      BY <1>2, <2>2, <2>3
  <1>19. RemovesOwn(i)
    <2> SUFFICES ASSUME NEW x \in removed', x \notin removed
                 PROVE  /\ x.call = i /\ x.q = calls[i].q
                        /\ \E s \in queue[x.q] : s.seq = x.seq /\ s.msg = x.msg
                        /\ calls[i].op = "ack" => x.seq = calls[i].seq
                        /\ calls[i].op \in {"ack", "purge"} \/ calls[i].fast
      BY DEF RemovesOwn
    <2>1. held = {} /\ \E r \in touched : x = [call |-> i, q |-> p, seq |-> r.seq, msg |-> r.msg]
      BY <1>2
    <2>2. QED
      BY <1>3, <1>9, <2>1
  <1>20. c.op = "send" => \A m \in Texts(c.items) : Held(m)'
    BY <1>1, <1>12, <1>13 DEF Held
  <1>21. QED
    BY <1>13, <1>14, <1>15, <1>16, <1>17, <1>18, <1>19, <1>20 DEF Streams

LEMMA NoStreams ==
  ASSUME IndInv, UNCHANGED <<queue, counter, removed>>, NEW i
  PROVE  Streams /\ RemovesOwn(i)
  <1>1. /\ TypeInv /\ StreamInv
    BY DEF IndInv, MessageInv
  <1>2. \A q \in Queues : counter[q] <= counter'[q]
    BY <1>1 DEF TypeInv
  <1>3. StreamInv' /\ OnlyKnownAdded /\ NothingVanishes
    BY <1>1 DEF StreamInv, OnlyKnownAdded, NothingVanishes, Held
  <1>4. QED
    BY <1>1, <1>2, <1>3 DEF Streams, RemovesOwn, TypeInv

-----------------------------------------------------------------------------
(* A call that goes on keeps what is said about calls.                     *)
LEMMA OneCallKeeps ==
  ASSUME IndInv, NEW i \in Ids, NEW c \in CallType, calls' = [calls EXCEPT ![i] = c],
         SameRequest(calls[i], c), AttemptsCounted(c), PurgeOnce(c, sdk),
         c.st # "failed" => calls[i].st # "failed", UNCHANGED sdk
  PROVE  /\ CallsInv' /\ Becomes(i, c) /\ Ids' = Ids
         /\ \A j \in Ids : SameRequest(calls[j], calls'[j])
  <1>1. Becomes(i, c)
    BY OneCall DEF IndInv
  <1>2. CallInv(calls[i], sdk)
    BY DEF IndInv, CallsInv
  <1>3. CallInv(c, sdk)
    BY <1>2 DEF CallInv, SendsGoodBatch, SameRequest
  <1>4. QED
    BY <1>1, <1>3 DEF IndInv, CallsInv, Becomes, SameRequest

LEMMA StrandKeeps ==
  ASSUME IndInv, NEW i \in Ids, NEW outcome \in {"timeout", "gateway"}, Strand(i, outcome)
  PROVE  IndInv'
  <1> DEFINE c == calls[i]
             given == GivenUp(c)
             d == AfterAttempt(given, outcome)
  <1>1. /\ c \in CallType /\ c.old \in Nat /\ c.left \in 0..MaxRetries /\ CallInv(c, sdk)
    BY CallFields DEF IndInv, CallsInv
  <1>2. /\ c.cur /\ calls' = [calls EXCEPT ![i] = d]
        /\ UNCHANGED <<sdk, queue, counter, expiries, handed, removed, later>>
    BY DEF Strand
  <1>3. /\ given \in CallType /\ SameRequest(c, given) /\ given.st = c.st
        /\ given.old = c.old + 1 /\ given.left = c.left
    BY <1>1 DEF GivenUp, CallType, SameRequest
  <1>4. c.st = "waiting" /\ given.old + given.left <= MaxRetries + 1
    BY <1>1, <1>2, <1>3, Bounds DEF CallInv, AttemptsCounted
  <1> HIDE DEF given
  <1>5. /\ d \in CallType /\ SameRequest(given, d) /\ AttemptsCounted(d)
        /\ d.st # "ok" /\ (d.st = "waiting" => Repeats(given.op, outcome))
    BY <1>3, <1>4, AttemptEnds
  <1>6. d.st \in {"waiting", "failed"}
    BY <1>5 DEF CallType
  <1>7. PurgeOnce(d, sdk) /\ SameRequest(c, d)
    <2>1. SameRequest(c, d)
      BY <1>3, <1>5 DEF SameRequest
    <2>2. given.op = "purge" /\ sdk = "go" => ~Repeats(given.op, outcome)
      BY DEF Repeats, IndInv, TypeInv, Sdks
    <2>3. QED
      BY <1>5, <1>6, <2>1, <2>2 DEF PurgeOnce, SameRequest
  <1> HIDE DEF d
  <1>8. /\ CallsInv' /\ Becomes(i, d) /\ Ids' = Ids
        /\ \A j \in Ids : SameRequest(calls[j], calls'[j])
    BY <1>2, <1>4, <1>5, <1>7, OneCallKeeps
  <1>9. TypeInv'
    BY <1>2, <1>8 DEF IndInv, TypeInv, Becomes
  <1>10. Streams /\ RemovesOwn(i)
    BY <1>2, NoStreams
  <1>11. Hands
    BY <1>2 DEF Hands, IndInv, TypeInv
  <1>12. \A j \in Ids : calls[j].st = "ok" <=> calls'[j].st = "ok"
    BY <1>4, <1>5, <1>8 DEF Becomes
  <1>13. MessageInv'
    BY <1>2, <1>8, <1>10, <1>11, <1>12, MessagesKept
  <1>14. QED
    BY <1>8, <1>9, <1>13 DEF IndInv

(* What becomes of call i when an attempt of it has been dealt with.       *)
LEMMA ServedCall ==
  ASSUME IndInv, NEW i \in Ids, NEW current \in BOOLEAN,
         NEW outcome \in {"ok", "gateway", "rejected"}, Serve(i, current, outcome)
  PROVE  LET c == calls[i]
             d == IF current THEN AfterAttempt(c, outcome) ELSE DealtWith(c)
         IN  /\ calls' = [calls EXCEPT ![i] = d]
             /\ d \in CallType /\ SameRequest(c, d) /\ AttemptsCounted(d) /\ PurgeOnce(d, sdk)
             /\ d.st # "failed" => c.st # "failed"
             /\ c.st = "ok" => d.st = "ok"
             /\ d.st = "ok" /\ c.st # "ok" => current /\ outcome = "ok"
             /\ c.st = "failed" => d.st = "failed" /\ d.old <= c.old /\ c.old > 0
             /\ current /\ outcome = "ok" => d.st = "ok" /\ c.st = "waiting"
  <1> DEFINE c == calls[i]
             d == IF current THEN AfterAttempt(c, outcome) ELSE DealtWith(c)
  <1>1. /\ c \in CallType /\ c.old \in Nat /\ c.left \in 0..MaxRetries /\ CallInv(c, sdk)
        /\ c.st \in {"waiting", "ok", "failed"}
    BY CallFields DEF IndInv, CallsInv
  <1>2. /\ IF current THEN c.cur ELSE c.old > 0
        /\ calls' = [calls EXCEPT ![i] = d]
    BY DEF Serve
  <1>3. CASE current
    <2>1. c.st = "waiting" /\ c.old + c.left <= MaxRetries + 1
      BY <1>1, <1>2, <1>3 DEF CallInv, AttemptsCounted
    <2>2. /\ d \in CallType /\ SameRequest(c, d) /\ AttemptsCounted(d) /\ d.old = c.old
          /\ d.st = "ok" <=> outcome = "ok"
      BY <1>1, <1>3, <2>1, AttemptEnds
    <2>3. PurgeOnce(d, sdk)
      BY <1>1, <2>1, <2>2 DEF CallInv, PurgeOnce, SameRequest
    <2>4. QED
      BY <1>2, <1>3, <2>1, <2>2, <2>3
  <1>4. CASE ~current
    <2>1. c.old - 1 \in Nat /\ c.old > 0 /\ c.old - 1 <= c.old
      BY <1>1, <1>2, <1>4
    <2>2. d = [c EXCEPT !.old = @ - 1]
      BY <1>4 DEF DealtWith
    <2>3. /\ d \in CallType /\ SameRequest(c, d) /\ d.old = c.old - 1 /\ d.left = c.left
          /\ d.st = c.st /\ d.cur = c.cur
      BY <1>1, <2>1, <2>2 DEF CallType, SameRequest
    <2>4. AttemptsCounted(d)
      BY <1>1, <2>3, Bounds DEF CallInv, AttemptsCounted
    <2>5. PurgeOnce(d, sdk)
      BY <1>1, <2>1, <2>3 DEF CallInv, PurgeOnce, SameRequest
    <2>6. QED
      BY <1>2, <1>4, <2>1, <2>3, <2>4, <2>5
  <1>5. QED
    BY <1>3, <1>4

LEMMA ServeKeeps ==
  ASSUME IndInv, NEW i \in Ids, NEW current \in BOOLEAN,
         NEW outcome \in {"ok", "gateway", "rejected"}, Serve(i, current, outcome)
  PROVE  IndInv'
  <1> DEFINE c == calls[i]
             d == IF current THEN AfterAttempt(c, outcome) ELSE DealtWith(c)
  <1>1. /\ c \in CallType /\ c.old \in Nat /\ c.left \in 0..MaxRetries /\ c.q \in Queues
        /\ c.op \in Ops /\ CallInv(c, sdk) /\ TypeInv
    BY CallFields DEF IndInv, CallsInv
  <1>2. /\ IF current THEN c.cur ELSE c.old > 0
        /\ calls' = [calls EXCEPT ![i] = d]
        /\ UNCHANGED <<sdk, expiries, later>>
    BY DEF Serve
  <1>3. /\ d \in CallType /\ SameRequest(c, d) /\ AttemptsCounted(d) /\ PurgeOnce(d, sdk)
        /\ d.st # "failed" => c.st # "failed"
        /\ c.st = "ok" => d.st = "ok"
        /\ d.st = "ok" /\ c.st # "ok" => current /\ outcome = "ok"
    BY ServedCall
  <1>4. sdk = "go" /\ c.op = "purge" => c.st # "ok"
    BY <1>1, <1>2 DEF CallInv, PurgeOnce, AttemptsCounted
  <1> HIDE DEF d
  <1>5. /\ CallsInv' /\ Becomes(i, d) /\ Ids' = Ids
        /\ \A j \in Ids : SameRequest(calls[j], calls'[j])
    BY <1>2, <1>3, OneCallKeeps
  <1>6. /\ Streams /\ RemovesOwn(i) /\ Hands
        /\ current /\ outcome = "ok" /\ c.op = "send" => \A m \in Texts(c.items) : Held(m)'
    <2>1. CASE outcome # "ok" /\ UNCHANGED <<queue, counter, handed, removed>>
      <3>1. Streams /\ RemovesOwn(i)
        BY <2>1, NoStreams
      <3>2. QED
        BY <1>1, <2>1, <3>1 DEF Hands, TypeInv
    <2>2. ASSUME NEW touched \in Touched(c), Execute(i, touched),
                 handed' = IF current /\ outcome = "ok" /\ c.op = "receive"
                   THEN handed \cup {[q |-> c.q, seq |-> r.seq, msg |-> r.msg] : r \in touched}
                   ELSE handed
          PROVE  /\ Streams /\ RemovesOwn(i) /\ Hands
                 /\ c.op = "send" => \A m \in Texts(c.items) : Held(m)'
      <3>1. /\ Streams /\ RemovesOwn(i)
            /\ c.op = "send" => \A m \in Texts(c.items) : Held(m)'
        BY <2>2, ExecuteStreams
      <3>2. touched \subseteq queue[c.q]
        BY <1>1, <2>2, TouchedReal
      <3>3. \A r \in touched : [q |-> c.q, seq |-> r.seq, msg |-> r.msg] \in Delivery
        BY <1>1, <3>2 DEF TypeInv, Entry, Delivery
      <3>4. \A e \in handed' \ handed : \E r \in touched :
              e = [q |-> c.q, seq |-> r.seq, msg |-> r.msg]
        BY <2>2
      <3>5. handed \subseteq Delivery
        BY <1>1 DEF TypeInv
      <3>6. handed \subseteq handed' /\ handed' \subseteq Delivery
        BY <2>2, <3>3, <3>5
      <3>7. \A e \in handed' \ handed : \E s \in queue[e.q] : s.seq = e.seq /\ s.msg = e.msg
        <4>1. ASSUME NEW e \in handed' \ handed
              PROVE  \E s \in queue[e.q] : s.seq = e.seq /\ s.msg = e.msg
          <5>1. PICK r \in touched : e = [q |-> c.q, seq |-> r.seq, msg |-> r.msg]
            BY <3>4
          <5>2. e.q = c.q /\ e.seq = r.seq /\ e.msg = r.msg /\ r \in queue[c.q]
            BY <3>2, <5>1
          <5>3. QED
            BY <5>2
        <4>2. QED
          BY <4>1
      <3>8. QED
        BY <3>1, <3>6, <3>7 DEF Hands
    <2>3. QED
      BY <2>1, <2>2 DEF Serve
  <1>7. TypeInv'
    BY <1>1, <1>2, <1>5, <1>6 DEF TypeInv, Becomes, Streams, Hands
  <1>8. /\ \A j \in Ids : calls[j].st = "ok" => calls'[j].st = "ok"
        /\ \A j \in Ids : calls[j].op = "send" /\ calls'[j].st = "ok" /\ calls[j].st # "ok" =>
             \A m \in Texts(calls[j].items) : Held(m)'
    BY <1>3, <1>5, <1>6 DEF Becomes
  <1>9. MessageInv'
    BY <1>2, <1>4, <1>5, <1>6, <1>8, MessagesKept
  <1>10. QED
    BY <1>5, <1>7, <1>9 DEF IndInv

(* The service gives up on a consumer: the message stays where it was, or  *)
(* gets a new sequence of the DLQ.                                         *)
LEMMA ExpireKeeps ==
  ASSUME IndInv, NEW r \in queue["main"], Expire(r)
  PROVE  IndInv'
  <1>1. /\ TypeInv /\ StreamInv /\ "main" \in Queues /\ "dlq" \in Queues
        /\ UNCHANGED <<sdk, calls, handed, removed, later>>
        /\ expiries' = expiries + 1 /\ expiries < MaxExpiries
    BY DEF IndInv, MessageInv, Expire, Queues
  <1>2. /\ r \in Entry /\ r.seq \in Nat /\ r.msg \in Messages
        /\ counter["dlq"] \in Nat /\ counter["main"] \in Nat
        /\ queue["main"] \subseteq Entry /\ queue["dlq"] \subseteq Entry
    BY <1>1 DEF TypeInv, Entry
  <1>3. OriginInv /\ Known(r.msg)
    BY <1>1 DEF IndInv, MessageInv, OriginInv, Known
  <1>4. Streams
    <2>1. CASE /\ queue' = [queue EXCEPT !["main"] = (@ \ {r}) \cup {[r EXCEPT !.busy = FALSE]}]
               /\ UNCHANGED counter
      <3> DEFINE e == [r EXCEPT !.busy = FALSE]
      <3>1. e \in Entry /\ e.seq = r.seq /\ e.msg = r.msg
        BY <1>2 DEF Entry
      <3> HIDE DEF e
      <3>2. /\ queue' \in [Queues -> SUBSET Entry]
            /\ queue'["main"] = (queue["main"] \ {r}) \cup {e}
            /\ \A q \in Queues \ {"main"} : queue'[q] = queue[q]
        BY <1>1, <1>2, <2>1, <3>1 DEF TypeInv, e
      <3>3. StreamInv'
        BY <1>1, <2>1, <3>1, <3>2 DEF StreamInv
      <3>4. OnlyKnownAdded
        BY <1>1, <3>1, <3>2 DEF OnlyKnownAdded
      <3>5. NothingVanishes
        BY <1>1, <3>1, <3>2 DEF NothingVanishes, Held
      <3>6. \A q \in Queues : counter[q] <= counter'[q]
        BY <1>1, <2>1 DEF TypeInv
      <3>7. QED
        BY <1>1, <2>1, <3>2, <3>3, <3>4, <3>5, <3>6 DEF Streams, TypeInv
    <2>2. CASE /\ queue' = [queue EXCEPT !["main"] = @ \ {r},
                                !["dlq"] = @ \cup {[seq |-> counter["dlq"] + 1,
                                                    msg |-> r.msg, busy |-> FALSE]}]
               /\ counter' = [counter EXCEPT !["dlq"] = @ + 1]
      <3> DEFINE n == counter["dlq"] + 1
                 e == [seq |-> n, msg |-> r.msg, busy |-> FALSE]
      <3>1. n \in Nat /\ n > counter["dlq"] /\ n \in 1..n /\ FALSE \in BOOLEAN
        BY <1>2
      <3>2. e \in Entry /\ e.seq = n /\ e.msg = r.msg
        BY <1>2, <3>1 DEF Entry
      <3> HIDE DEF e
      <3>3. /\ queue' \in [Queues -> SUBSET Entry] /\ counter' \in [Queues -> Nat]
            /\ queue'["main"] = queue["main"] \ {r} /\ queue'["dlq"] = queue["dlq"] \cup {e}
            /\ counter'["dlq"] = n /\ counter'["main"] = counter["main"]
        <4>1. /\ queue' = [queue EXCEPT !["main"] = queue["main"] \ {r},
                                       !["dlq"] = queue["dlq"] \cup {e}]
              /\ counter' = [counter EXCEPT !["dlq"] = n]
          BY <1>1, <2>2 DEF TypeInv, e
        <4> HIDE DEF n
        <4>2. QED
          BY <1>1, <1>2, <3>1, <3>2, <4>1 DEF TypeInv
      <3> HIDE DEF n
      <3>4. \A q \in Queues : q = "main" \/ q = "dlq"
        BY DEF Queues
      <3>5. \A s \in queue["dlq"] : s.seq # n /\ s.seq \in 1..n
        BY <1>1, <1>2 DEF StreamInv, n
      <3>6. StreamInv'
        <4>1. \A s \in queue'["main"] : /\ s.seq \in 1..counter'["main"]
                                       /\ \A u \in queue'["main"] : s.seq = u.seq => s = u
          BY <1>1, <3>3 DEF StreamInv
        <4>2. \A s \in queue'["dlq"] : s.seq \in 1..counter'["dlq"]
          BY <3>1, <3>2, <3>3, <3>5
        <4>3. \A s, u \in queue'["dlq"] : s.seq = u.seq => s = u
          BY <1>1, <3>2, <3>3, <3>5 DEF StreamInv
        <4>4. QED
          BY <3>4, <4>1, <4>2, <4>3 DEF StreamInv
      <3>7. OnlyKnownAdded
        BY <1>3, <3>1, <3>2, <3>3, <3>4 DEF OnlyKnownAdded
      <3>8. NothingVanishes
        BY <1>1, <3>2, <3>3, <3>4 DEF NothingVanishes, Held
      <3>9. \A q \in Queues : counter[q] <= counter'[q]
        BY <1>2, <3>1, <3>3, <3>4
      <3>10. QED
        BY <1>1, <3>3, <3>6, <3>7, <3>8, <3>9 DEF Streams, TypeInv
    <2>3. QED
      BY <2>1, <2>2 DEF Expire
  <1>5. Hands /\ RemovesOwn(0)
    BY <1>1 DEF Hands, RemovesOwn, TypeInv
  <1>6. Ids' = Ids /\ \A j \in Ids : SameRequest(calls[j], calls'[j])
    BY <1>1 DEF Ids, SameRequest
  <1>7. MessageInv'
    BY <1>1, <1>4, <1>5, <1>6, MessagesKept
  <1>8. CallsInv'
    BY <1>1, <1>6 DEF IndInv, CallsInv
  <1>9. TypeInv'
    <2>1. expiries' \in 0..MaxExpiries
      BY <1>1, Bounds DEF TypeInv
    <2>2. QED
      BY <1>1, <1>4, <2>1 DEF TypeInv, Streams
  <1>10. QED
    BY <1>7, <1>8, <1>9 DEF IndInv

LEMMA StepInd == IndInv /\ [Next]_vars => IndInv'
  <1> SUFFICES ASSUME IndInv, [Next]_vars PROVE IndInv'
    OBVIOUS
  <1>1. ASSUME NEW items \in Batches, Send(items) PROVE IndInv'
    BY <1>1, SendKeeps
  <1>2. CASE \/ \E q \in Queues, fast \in BOOLEAN : Receive(q, fast)
             \/ \E d \in handed : Delete(d)
             \/ \E q \in Queues : Purge(q)
    BY <1>2, NewCallsKeep
  <1>3. ASSUME NEW i \in Ids, NEW outcome \in {"timeout", "gateway"}, Strand(i, outcome)
        PROVE  IndInv'
    BY <1>3, StrandKeeps
  <1>4. ASSUME NEW i \in Ids, NEW current \in BOOLEAN,
               NEW outcome \in {"ok", "gateway", "rejected"}, Serve(i, current, outcome)
        PROVE  IndInv'
    BY <1>4, ServeKeeps
  <1>5. ASSUME NEW r \in queue["main"], Expire(r) PROVE IndInv'
    BY <1>5, ExpireKeeps
  <1>6. CASE UNCHANGED vars
    <2>1. /\ sdk' = sdk /\ calls' = calls /\ queue' = queue /\ counter' = counter
          /\ expiries' = expiries /\ handed' = handed /\ removed' = removed /\ later' = later
      BY <1>6 DEF vars
    <2>2. Ids' = Ids /\ \A op : Of(op)' = Of(op)
      BY <2>1 DEF Ids, Of
    <2>3. \A m : (Held(m)' <=> Held(m)) /\ (Sent(m)' <=> Sent(m))
      BY <2>1, <2>2 DEF Held, Sent
    <2>4. TypeInv'
      BY <2>1 DEF TypeInv, IndInv
    <2>5. CallsInv'
      BY <2>1, <2>2 DEF CallsInv, IndInv
    <2>6. StreamInv' /\ NameInv' /\ AckInv' /\ RemovedInv' /\ LaterInv'
      BY <2>1, <2>2 DEF StreamInv, NameInv, AckInv, RemovedInv, LaterInv, MessageInv, IndInv
    <2>7. OriginInv'
      BY <2>1, <2>3 DEF OriginInv, MessageInv, IndInv
    <2>8. NothingLost'
      BY <2>1, <2>2, <2>3 DEF NothingLost, Of, MessageInv, IndInv
    <2>9. AckRemovesOnlyHandled' /\ PurgeSparesLater'
      BY <2>1 DEF AckRemovesOnlyHandled, PurgeSparesLater, MessageInv, IndInv
    <2>10. QED
      BY <2>4, <2>5, <2>6, <2>7, <2>8, <2>9 DEF IndInv, MessageInv
  <1>7. QED
    BY <1>1, <1>2, <1>3, <1>4, <1>5, <1>6 DEF Next, Finished

LEMMA Invariance == Spec => []IndInv
  BY InitInd, StepInd, PTL DEF Spec

-----------------------------------------------------------------------------
(***************************************************************************)
(* Refinement of Mailbox.                                                  *)
(***************************************************************************)
(* A batch that is refused is never on its way.                            *)
SendInv ==
  \A i \in Ids : calls[i].op = "send" =>
    /\ calls[i].items \in Batches
    /\ GoodBatch(calls[i].items) \/ (calls[i].st = "failed" /\ calls[i].old = 0)

Returned(i) == calls[i].op = "send" /\ calls[i].st = "ok"

LEMMA PromisedIs ==
  /\ \A m : m \in Promised <=> \E j \in Ids : Returned(j) /\ m \in Texts(calls[j].items)
  /\ \A m : m \in Promised' <=> \E j \in Ids' : Returned(j)' /\ m \in Texts(calls'[j].items)
  <1>1. \A m : m \in Promised <=> \E j \in Ids : Returned(j) /\ m \in Texts(calls[j].items)
    BY DEF Promised, Returned
  <1>2. \A m : m \in Promised' <=> \E j \in Ids' : Returned(j)' /\ m \in Texts(calls'[j].items)
    BY DEF Promised, Returned, Texts
  <1>3. QED
    BY <1>1, <1>2

LEMMA PendingIs ==
  /\ \A x : x \in Pending <=> \E j \in Ids : Live(calls[j]) /\ x = Request(calls[j])
  /\ \A x : x \in Pending' <=> \E j \in Ids' : Live(calls'[j]) /\ x = Request(calls'[j])
  <1>1. \A x : x \in Pending <=> \E j \in Ids : Live(calls[j]) /\ x = Request(calls[j])
    BY DEF Pending
  <1>2. \A x : x \in Pending' <=> \E j \in Ids' : Live(calls'[j]) /\ x = Request(calls'[j])
    BY DEF Pending, Live, Request, Bodies
  <1>3. QED
    BY <1>1, <1>2

(* The same request asks for the same.                                     *)
LEMMA SameAsked ==
  ASSUME NEW c, NEW d, SameRequest(c, d)
  PROVE  Request(d) = Request(c)
  BY DEF SameRequest, Request, Bodies

(* A new call.                                                             *)
LEMMA NewCallAbstract ==
  ASSUME IndInv, SendInv, NEW c, calls' = Append(calls, c),
         UNCHANGED <<queue, counter, handed>>,
         c.st # "ok",
         c.op = "send" => /\ c.items \in Batches
                          /\ GoodBatch(c.items) \/ (c.st = "failed" /\ c.old = 0)
  PROVE  /\ SendInv' /\ Promised' = Promised /\ Stored' = Stored
         /\ Pending' = IF Live(c) THEN Pending \cup {Request(c)} ELSE Pending
  <1>1. calls \in Seq(CallType) /\ Len(calls) \in Nat
    BY DEF IndInv, TypeInv
  <1>2. /\ Ids' = Ids \cup {Len(calls) + 1}
        /\ \A i \in Ids : calls'[i] = calls[i]
        /\ calls'[Len(calls) + 1] = c
    <2>1. \A i \in 1..Len(calls) : calls[i] \in CallType
      BY <1>1, ElementOfSeq
    <2>2. calls \in Seq(CallType \cup {c}) /\ c \in CallType \cup {c}
      BY <1>1
    <2>3. /\ Len(calls') = Len(calls) + 1
          /\ \A i \in 1..Len(calls) : calls'[i] = calls[i]
          /\ calls'[Len(calls) + 1] = c
      BY <2>2, AppendProperties
    <2>4. QED
      BY <1>1, <2>3 DEF Ids
  <1>3. SendInv'
    BY <1>2 DEF SendInv
  <1>4. Promised' = Promised
    <2>1. \A i \in Ids' : Returned(i)' <=> i \in Ids /\ Returned(i)
      BY <1>2 DEF Returned
    <2>2. \A i \in Ids : Texts(calls'[i].items) = Texts(calls[i].items)
      BY <1>2
    <2>3. \A m : m \in Promised' <=> m \in Promised
      BY <1>2, <2>1, <2>2, PromisedIs
    <2>4. QED
      BY <2>3
  <1>5. Stored' = Stored
    BY DEF Stored, Copy
  <1>6. Pending' = IF Live(c) THEN Pending \cup {Request(c)} ELSE Pending
    <2>1. ASSUME NEW x, x \in Pending'
          PROVE  x \in Pending \/ (Live(c) /\ x = Request(c))
      <3>1. PICK j \in Ids' : Live(calls'[j]) /\ x = Request(calls'[j])
        BY <2>1, PendingIs
      <3>2. CASE j \in Ids
        <4>1. calls'[j] = calls[j]
          BY <1>2, <3>2
        <4>2. Live(calls[j]) /\ x = Request(calls[j])
          BY <3>1, <4>1
        <4>3. QED
          BY <3>2, <4>2, PendingIs
      <3>3. CASE j = Len(calls) + 1
        <4>1. calls'[j] = c
          BY <1>2, <3>3
        <4>2. QED
          BY <3>1, <4>1
      <3>4. QED
        BY <1>2, <3>2, <3>3
    <2>2. ASSUME NEW x \in Pending
          PROVE  x \in Pending'
      <3>1. PICK j \in Ids : Live(calls[j]) /\ x = Request(calls[j])
        BY PendingIs
      <3>2. j \in Ids' /\ calls'[j] = calls[j]
        BY <1>2
      <3>3. Live(calls'[j]) /\ x = Request(calls'[j])
        BY <3>1, <3>2
      <3>4. QED
        BY <3>2, <3>3, PendingIs
    <2>3. ASSUME Live(c)
          PROVE  Request(c) \in Pending'
      <3>1. Len(calls) + 1 \in Ids' /\ Live(calls'[Len(calls) + 1])
            /\ Request(c) = Request(calls'[Len(calls) + 1])
        BY <1>2, <2>3
      <3>2. QED
        BY <3>1, PendingIs
    <2>4. QED
      BY <2>1, <2>2, <2>3
  <1>7. QED
    BY <1>3, <1>4, <1>5, <1>6

(* A call goes on without having returned.                                 *)
LEMMA CallGoesOn ==
  ASSUME IndInv, SendInv, NEW i \in Ids, NEW d \in CallType, calls' = [calls EXCEPT ![i] = d],
         SameRequest(calls[i], d),
         calls[i].st = "ok" => d.st = "ok",
         calls[i].st = "failed" => d.st = "failed" /\ d.old <= calls[i].old,
         Live(calls[i])
  PROVE  /\ SendInv' /\ Pending' \subseteq Pending
         /\ Promised' = IF ~Returned(i) /\ calls[i].op = "send" /\ d.st = "ok"
                        THEN Promised \cup Texts(calls[i].items)
                        ELSE Promised
  <1>1. Becomes(i, d)
    BY OneCall DEF IndInv
  <1>2. /\ Ids' = Ids /\ calls'[i] = d
        /\ \A j \in Ids : SameRequest(calls[j], calls'[j])
        /\ \A j \in Ids \ {i} : calls'[j] = calls[j]
    BY <1>1 DEF Becomes, SameRequest
  <1>3. d.old \in Nat /\ calls[i].old \in Nat
    BY CallFields DEF CallType, IndInv
  <1>4. SendInv'
    <2> SUFFICES ASSUME NEW j \in Ids, calls'[j].op = "send"
                 PROVE  /\ calls'[j].items \in Batches
                        /\ GoodBatch(calls'[j].items) \/ (calls'[j].st = "failed" /\ calls'[j].old = 0)
      BY <1>2 DEF SendInv
    <2>1. /\ calls[j].op = "send" /\ calls'[j].items = calls[j].items
          /\ calls[j].items \in Batches
          /\ GoodBatch(calls[j].items) \/ (calls[j].st = "failed" /\ calls[j].old = 0)
      BY <1>2 DEF SendInv, SameRequest
    <2>2. CASE j = i
      BY <1>2, <1>3, <2>1, <2>2
    <2>3. CASE j # i
      BY <1>2, <2>1, <2>3
    <2>4. QED
      BY <2>2, <2>3
  <1>5. Pending' \subseteq Pending
    <2>1. ASSUME NEW x \in Pending' PROVE x \in Pending
      <3>1. PICK j \in Ids : Live(calls'[j]) /\ x = Request(calls'[j])
        BY <1>2, PendingIs
      <3>2. Request(calls'[j]) = Request(calls[j])
        BY <1>2, SameAsked
      <3>3. Live(calls[j])
        BY <1>2, <3>1
      <3>4. QED
        BY <3>1, <3>2, <3>3, PendingIs
    <2>2. QED
      BY <2>1
  <1>6. \A j \in Ids : Texts(calls'[j].items) = Texts(calls[j].items)
    BY <1>2 DEF SameRequest
  <1>7. \A j \in Ids \ {i} : Returned(j)' <=> Returned(j)
    BY <1>2 DEF Returned
  <1>8. Returned(i)' <=> calls[i].op = "send" /\ d.st = "ok"
    BY <1>2 DEF Returned, SameRequest
  <1>9. /\ \A m : m \in Promised <=> \E j \in Ids : Returned(j) /\ m \in Texts(calls[j].items)
        /\ \A m : m \in Promised' <=> \E j \in Ids : Returned(j)' /\ m \in Texts(calls[j].items)
    BY <1>2, <1>6, PromisedIs
  <1>10. CASE ~Returned(i) /\ calls[i].op = "send" /\ d.st = "ok"
    <2>1. \A m : m \in Promised' <=> m \in Promised \cup Texts(calls[i].items)
      BY <1>7, <1>8, <1>9, <1>10
    <2>2. QED
      BY <1>4, <1>10, <1>5, <2>1
  <1>11. CASE ~(~Returned(i) /\ calls[i].op = "send" /\ d.st = "ok")
    <2>1. Returned(i)' <=> Returned(i)
      BY <1>8, <1>11 DEF Returned
    <2>2. \A m : m \in Promised' <=> m \in Promised
      BY <1>7, <1>9, <2>1
    <2>3. QED
      BY <1>4, <1>11, <1>5, <2>2
  <1>12. QED
    BY <1>10, <1>11

-----------------------------------------------------------------------------
(* The streams.                                                            *)
LEMMA StoredIs ==
  /\ \A x : x \in Stored <=> \E q \in Queues : \E r \in queue[q] : x = Copy(q, r)
  /\ \A x : x \in Stored' <=> \E q \in Queues : \E r \in queue'[q] : x = Copy(q, r)
  <1>1. \A x : x \in Stored <=> \E q \in Queues : \E r \in queue[q] : x = Copy(q, r)
    BY DEF Stored
  <1>2. \A x : x \in Stored' <=> \E q \in Queues : \E r \in queue'[q] : x = Copy(q, r)
    BY DEF Stored, Copy
  <1>3. QED
    BY <1>1, <1>2

LEMMA CopyIs ==
  \A q, r, p, s : /\ Copy(q, r).q = q /\ Copy(q, r).seq = r.seq /\ Copy(q, r).msg = r.msg
                  /\ Copy(q, r) = Copy(p, s) <=> q = p /\ r.seq = s.seq /\ r.msg = s.msg
  <1>1. \A q, r : Copy(q, r).q = q /\ Copy(q, r).seq = r.seq /\ Copy(q, r).msg = r.msg
    BY DEF Copy
  <1>2. \A q, r, p, s : q = p /\ r.seq = s.seq /\ r.msg = s.msg => Copy(q, r) = Copy(p, s)
    BY DEF Copy
  <1>3. ASSUME NEW q, NEW r, NEW p, NEW s, Copy(q, r) = Copy(p, s)
        PROVE  q = p /\ r.seq = s.seq /\ r.msg = s.msg
    BY <1>1, <1>3
  <1>4. QED
    BY <1>1, <1>2, <1>3

(* Messages of one stream go and others come.                              *)
LEMMA StoredAfter ==
  ASSUME IndInv, NEW p \in Queues, NEW touched \in SUBSET queue[p], NEW added,
         queue' = [queue EXCEPT ![p] = (queue[p] \ touched) \cup added]
  PROVE  Stored' = (Stored \ {Copy(p, r) : r \in touched}) \cup {Copy(p, r) : r \in added}
  <1>1. /\ queue'[p] = (queue[p] \ touched) \cup added
        /\ \A q \in Queues \ {p} : queue'[q] = queue[q]
    BY DEF IndInv, TypeInv
  <1>2. \A r, s \in queue[p] : r.seq = s.seq => r = s
    BY DEF IndInv, MessageInv, StreamInv
  <1>3. ASSUME NEW x, x \in Stored'
        PROVE  x \in (Stored \ {Copy(p, r) : r \in touched}) \cup {Copy(p, r) : r \in added}
    <2>1. PICK q \in Queues : \E r \in queue'[q] : x = Copy(q, r)
      BY <1>3, StoredIs
    <2>2. PICK r \in queue'[q] : x = Copy(q, r)
      BY <2>1
    <2>3. CASE q # p
      BY <1>1, <2>2, <2>3, StoredIs, CopyIs
    <2>4. CASE q = p /\ r \in queue[p] \ touched
      BY <1>2, <2>2, <2>4, StoredIs, CopyIs
    <2>5. CASE q = p /\ r \in added
      BY <2>2, <2>5
    <2>6. QED
      BY <1>1, <2>2, <2>3, <2>4, <2>5
  <1>4. ASSUME NEW x \in Stored, x \notin {Copy(p, r) : r \in touched}
        PROVE  x \in Stored'
    <2>1. PICK q \in Queues : \E r \in queue[q] : x = Copy(q, r)
      BY StoredIs
    <2>2. PICK r \in queue[q] : x = Copy(q, r)
      BY <2>1
    <2>3. r \in queue'[q]
      BY <1>1, <1>4, <2>2
    <2>4. QED
      BY <2>2, <2>3, StoredIs
  <1>5. \A r \in added : Copy(p, r) \in Stored'
    BY <1>1, StoredIs
  <1>6. QED
    BY <1>3, <1>4, <1>5

(* What an execution does to the copies.                                   *)
LEMMA ExecuteAbstract ==
  ASSUME IndInv, NEW i \in Ids, NEW touched \in Touched(calls[i]), Execute(i, touched)
  PROVE  LET c == calls[i]
             gone == {Copy(c.q, r) : r \in touched}
         IN  /\ touched \subseteq queue[c.q] /\ gone \subseteq Stored
             /\ c.op = "send" =>
                  /\ touched = {}
                  /\ counter' = [counter EXCEPT ![c.q] = @ + Len(c.items)]
                  /\ Stored' = Stored \cup
                       {[q |-> c.q, seq |-> counter[c.q] + k, msg |-> c.items[k].msg] :
                          k \in 1..Len(c.items)}
             /\ c.op # "send" => counter' = counter
             /\ c.op = "receive" /\ ~c.fast => Stored' = Stored
             /\ c.op \in {"ack", "purge"} \/ (c.op = "receive" /\ c.fast) => Stored' = Stored \ gone
  <1> DEFINE c == calls[i]
             p == c.q
             base == counter[p]
             gone == {Copy(p, r) : r \in touched}
             stored == {[seq |-> base + k, msg |-> c.items[k].msg, busy |-> FALSE] :
                          k \in 1..Len(c.items)}
             held == IF c.op = "receive" /\ ~Takes(c)
                     THEN {[r EXCEPT !.busy = TRUE] : r \in touched} ELSE {}
  <1>1. /\ TypeInv /\ c.op \in Ops /\ p \in Queues /\ c.items \in Seq(Item)
        /\ base \in Nat /\ (c.op # "send" => c.items = <<>>)
    <2>1. TypeInv /\ CallInv(c, sdk)
      BY DEF IndInv, CallsInv
    <2>2. c.op \in Ops /\ p \in Queues /\ c.items \in Seq(Item)
      BY <2>1, CallFields
    <2>3. QED
      BY <2>1, <2>2 DEF TypeInv, CallInv
  <1>2. /\ queue' = [queue EXCEPT ![p] = (queue[p] \ touched) \cup (stored \cup held)]
        /\ counter' = [counter EXCEPT ![p] = @ + Len(c.items)]
    BY <1>1 DEF Execute, Stream, TypeInv
  <1>3. touched \subseteq queue[p] /\ (c.op = "send" => touched = {})
    BY <1>1, TouchedReal
  <1>4. gone \subseteq Stored
    BY <1>1, <1>3, StoredIs
  <1>5. c.op # "send" => counter' = counter /\ stored = {}
    <2>1. CASE c.op # "send"
      <3>1. c.items = <<>> /\ Len(c.items) = 0
        BY <1>1, <2>1, EmptySeq
      <3>2. stored = {}
        BY <3>1
      <3>3. base + 0 = base
        BY <1>1
      <3>4. counter' = counter
        BY <1>1, <1>2, <3>1, <3>3 DEF TypeInv
      <3>5. QED
        BY <3>2, <3>4
    <2>2. QED
      BY <2>1
  <1>6. {Copy(p, r) : r \in stored} =
          {[q |-> p, seq |-> base + k, msg |-> c.items[k].msg] : k \in 1..Len(c.items)}
    <2>1. \A k \in 1..Len(c.items) :
            Copy(p, [seq |-> base + k, msg |-> c.items[k].msg, busy |-> FALSE])
              = [q |-> p, seq |-> base + k, msg |-> c.items[k].msg]
      BY DEF Copy
    <2>2. QED
      BY <2>1
  <1>7. c.op = "receive" /\ ~c.fast => {Copy(p, r) : r \in held} = gone
    <2>1. CASE c.op = "receive" /\ ~c.fast
      <3>1. held = {[r EXCEPT !.busy = TRUE] : r \in touched}
        BY <2>1 DEF Takes
      <3>2. \A r \in touched : r \in Entry
        BY <1>1, <1>3 DEF TypeInv
      <3>3. \A r \in touched : [r EXCEPT !.busy = TRUE].seq = r.seq /\ [r EXCEPT !.busy = TRUE].msg = r.msg
        BY <3>2 DEF Entry
      <3>4. \A r \in touched : Copy(p, [r EXCEPT !.busy = TRUE]) = Copy(p, r)
        BY <3>3 DEF Copy
      <3> HIDE DEF held
      <3>5. QED
        BY <3>1, <3>4
    <2>2. QED
      BY <2>1
  <1>8. c.op # "receive" \/ c.fast => held = {}
    BY DEF Takes
  <1> HIDE DEF stored, held
  <1>9. Stored' = (Stored \ gone) \cup {Copy(p, r) : r \in stored \cup held}
    BY <1>1, <1>2, <1>3, StoredAfter
  <1>10. CASE c.op = "send"
    <2>1. touched = {} /\ held = {} /\ gone = {}
      BY <1>3, <1>8, <1>10
    <2>2. Stored' = Stored \cup {Copy(p, r) : r \in stored}
      BY <1>9, <2>1
    <2>3. QED
      BY <1>2, <1>3, <1>4, <1>6, <1>10, <2>1, <2>2
  <1>11. CASE c.op = "receive" /\ ~c.fast
    <2>1. stored \cup held = held
      BY <1>5, <1>11
    <2>2. Stored' = (Stored \ gone) \cup gone
      BY <1>7, <1>9, <1>11, <2>1
    <2>3. Stored' = Stored
      BY <1>4, <2>2
    <2>4. QED
      BY <1>3, <1>4, <1>5, <1>11, <2>3
  <1>12. CASE c.op \in {"ack", "purge"} \/ (c.op = "receive" /\ c.fast)
    <2>1. stored \cup held = {}
      BY <1>5, <1>8, <1>12
    <2>2. Stored' = Stored \ gone
      BY <1>9, <2>1
    <2>3. QED
      BY <1>3, <1>4, <1>5, <1>12, <2>2
  <1>13. QED
    BY <1>1, <1>10, <1>11, <1>12, CallFields DEF Ops

-----------------------------------------------------------------------------
(* The steps.                                                              *)
(* An attempt that is dealt with is a step of the mailbox, or none.        *)
LEMMA ServeAbstract ==
  ASSUME IndInv, SendInv, NEW i \in Ids, NEW current \in BOOLEAN,
         NEW outcome \in {"ok", "gateway", "rejected"}, Serve(i, current, outcome)
  PROVE  SendInv' /\ [Abstract!Next]_(Abstract!vars)
  <1> DEFINE c == calls[i]
             d == IF current THEN AfterAttempt(c, outcome) ELSE DealtWith(c)
             returns == ~Returned(i) /\ c.op = "send" /\ d.st = "ok"
  <1>1. /\ calls' = [calls EXCEPT ![i] = d] /\ d \in CallType /\ SameRequest(c, d)
        /\ c.st = "ok" => d.st = "ok"
        /\ d.st = "ok" /\ c.st # "ok" => current /\ outcome = "ok"
        /\ c.st = "failed" => d.st = "failed" /\ d.old <= c.old /\ c.old > 0
        /\ Live(c)
    BY ServedCall DEF Serve, Live
  <1> HIDE DEF d
  <1>2. /\ SendInv' /\ Pending' \subseteq Pending
        /\ Promised' = IF returns THEN Promised \cup Texts(c.items) ELSE Promised
    BY <1>1, CallGoesOn
  <1>3. returns => outcome = "ok"
    BY <1>1 DEF Returned
  <1>4. c.op \in Ops /\ c.q \in Queues /\ c.items \in Seq(Item)
    BY CallFields DEF IndInv
  <1>5. CASE outcome # "ok" /\ UNCHANGED <<queue, counter, handed, removed>>
    <2>1. Promised' = Promised
      BY <1>2, <1>3, <1>5
    <2>2. Stored' = Stored
      BY <1>5 DEF Stored, Copy
    <2>3. Abstract!Over
      BY <1>2, <1>5, <2>1, <2>2 DEF Abstract!Over, Abstract!Ends
    <2>4. QED
      BY <1>2, <2>3 DEF Abstract!Next
  <1>6. ASSUME NEW touched \in Touched(c), Execute(i, touched),
               handed' = IF current /\ outcome = "ok" /\ c.op = "receive"
                 THEN handed \cup {[q |-> c.q, seq |-> r.seq, msg |-> r.msg] : r \in touched}
                 ELSE handed
        PROVE  [Abstract!Next]_(Abstract!vars)
    <2> DEFINE gone == {Copy(c.q, r) : r \in touched}
    <2>1. /\ touched \subseteq queue[c.q] /\ gone \subseteq Stored
          /\ c.op = "send" =>
               /\ touched = {}
               /\ counter' = [counter EXCEPT ![c.q] = @ + Len(c.items)]
               /\ Stored' = Stored \cup
                    {[q |-> c.q, seq |-> counter[c.q] + k, msg |-> c.items[k].msg] :
                       k \in 1..Len(c.items)}
          /\ c.op # "send" => counter' = counter
          /\ c.op = "receive" /\ ~c.fast => Stored' = Stored
          /\ c.op \in {"ack", "purge"} \/ (c.op = "receive" /\ c.fast) => Stored' = Stored \ gone
      BY <1>6, ExecuteAbstract
    <2>2. handed' = IF current /\ outcome = "ok" /\ c.op = "receive" THEN handed \cup gone ELSE handed
      BY <1>6 DEF Copy
    <2>3. c.op # "send" => Promised' = Promised
      BY <1>2
    <2>4. Request(c) \in Pending /\ Abstract!Ends
      BY <1>1, <1>2, PendingIs DEF Abstract!Ends
    <2>5. ASSUME Stored' = Stored, handed' = handed, c.op # "send"
           PROVE  Abstract!Next
      BY <1>2, <2>1, <2>3, <2>4, <2>5 DEF Abstract!Next, Abstract!Over
    <2>6. CASE c.op = "send"
      <3> DEFINE send == [k \in 1..Len(c.items) |-> c.items[k].msg]
      <3>1. c.items \in Batches /\ GoodBatch(c.items)
        BY <1>1, <2>6 DEF SendInv
      <3>2. send \in Sends
        BY <3>1 DEF Sends, Bodies
      <3>3. Len(send) = Len(c.items) /\ \A k \in 1..Len(c.items) : send[k] = c.items[k].msg
        <4>1. Len(c.items) \in Nat /\ DOMAIN send = 1..Len(c.items)
          BY <1>4, LenProperties
        <4>2. send \in Seq(Messages)
          <5>1. \A k \in 1..Len(c.items) : c.items[k] \in Item
            BY <1>4, ElementOfSeq
          <5>2. \A k \in 1..Len(c.items) : c.items[k].msg \in Messages
            BY <5>1 DEF Item
          <5>3. QED
            BY <4>1, <5>2
        <4>3. QED
          BY <4>1, <4>2, LenProperties
      <3> HIDE DEF send
      <3>4. counter' = [counter EXCEPT ![c.q] = @ + Len(send)]
        BY <2>1, <2>6, <3>3
      <3>5. Stored' = Stored \cup
              {[q |-> c.q, seq |-> counter[c.q] + k, msg |-> send[k]] : k \in 1..Len(send)}
        BY <2>1, <2>6, <3>3
      <3>6. Texts(c.items) = {send[k] : k \in 1..Len(send)}
        BY <3>3 DEF Texts
      <3>7. Promised' \in {Promised, Promised \cup {send[k] : k \in 1..Len(send)}}
        BY <1>2, <3>6
      <3>8. Abstract!Request("send", c.q, 0, send) \in Pending
        BY <2>6, <2>4 DEF Request, Bodies, Abstract!Request, send
      <3>9. Abstract!Store(c.q, send)
        BY <2>2, <2>6, <2>4, <3>4, <3>5, <3>7, <3>8 DEF Abstract!Store
      <3>10. QED
        BY <1>4, <3>2, <3>9 DEF Abstract!Next
    <2>7. CASE c.op = "receive"
      <3>1. touched = {} \/ \E r \in queue[c.q] : touched = {r}
        BY <1>6, <2>7 DEF Touched, Stream
      <3>2. CASE touched = {}
        <4>1. gone = {}
          BY <3>2
        <4>2. Stored' = Stored /\ handed' = handed
          BY <1>4, <2>1, <2>2, <2>7, <4>1, CallFields DEF IndInv
        <4>3. QED
          BY <2>7, <2>5, <4>2
      <3>3. CASE \E r \in queue[c.q] : touched = {r}
        <4>1. PICK x \in Stored : gone = {x}
          BY <2>1, <3>3
        <4>2. handed' \in {handed, handed \cup {x}} /\ x.q = c.q
          <5>1. handed' \in {handed, handed \cup {x}}
            BY <2>2, <4>1
          <5>2. PICK r \in touched : x = Copy(c.q, r)
            BY <4>1
          <5>3. QED
            BY <5>1, <5>2, CopyIs
        <4>3. CASE c.fast
          <5>1. Abstract!Request("take", x.q, 0, <<>>) \in Pending
            BY <2>7, <2>4, <4>2, <4>3 DEF Request, Abstract!Request
          <5>2. Abstract!Take(x)
            BY <2>1, <2>3, <2>7, <2>4, <4>1, <4>2, <4>3, <5>1 DEF Abstract!Take
          <5>3. QED
            BY <4>1, <5>2 DEF Abstract!Next
        <4>4. CASE ~c.fast
          <5>1. Stored' = Stored /\ counter' = counter /\ Promised' = Promised
            BY <2>1, <2>3, <2>7, <4>4
          <5>2. CASE handed' = handed
            BY <2>7, <2>5, <5>1, <5>2
          <5>3. CASE handed' = handed \cup {x}
            <6>1. Abstract!Request("receive", x.q, 0, <<>>) \in Pending
              BY <2>7, <2>4, <4>2, <4>4 DEF Request, Abstract!Request
            <6>2. Abstract!Hand(x)
              BY <2>4, <5>1, <5>3, <6>1 DEF Abstract!Hand
            <6>3. QED
              BY <4>1, <6>2 DEF Abstract!Next
          <5>4. QED
            BY <4>2, <5>2, <5>3
        <4>5. QED
          BY <4>3, <4>4
      <3>4. QED
        BY <3>1, <3>2, <3>3
    <2>8. CASE c.op = "ack"
      <3>1. touched = {r \in queue[c.q] : r.seq = c.seq}
        BY <1>6, <2>8 DEF Touched, Stream
      <3>2. \A r, s \in queue[c.q] : r.seq = s.seq => r = s
        BY <1>4 DEF IndInv, MessageInv, StreamInv
      <3>3. Stored' = Stored \ gone /\ counter' = counter /\ handed' = handed /\ Promised' = Promised
        BY <2>1, <2>2, <2>3, <2>8
      <3>4. CASE touched = {}
        <4>1. gone = {}
          BY <3>4
        <4>2. QED
          BY <2>8, <2>5, <3>3, <4>1
      <3>5. CASE touched # {}
        <4>1. PICK r \in queue[c.q] : r.seq = c.seq /\ touched = {r}
          BY <3>1, <3>2, <3>5
        <4>2. PICK e \in handed : e.q = c.q /\ e.seq = c.seq
          BY <2>8 DEF IndInv, MessageInv, AckInv
        <4>3. r.msg = e.msg
          BY <4>1, <4>2 DEF IndInv, MessageInv, NameInv
        <4>4. Copy(c.q, r) = e
          <5>1. e \in Delivery
            BY DEF IndInv, TypeInv
          <5>2. e = [q |-> e.q, seq |-> e.seq, msg |-> e.msg]
            BY <5>1 DEF Delivery
          <5>3. QED
            BY <4>1, <4>2, <4>3, <5>2 DEF Copy
        <4>5. gone = {e} /\ e \in Stored
          BY <2>1, <4>1, <4>4
        <4>6. Abstract!Request("ack", e.q, e.seq, <<>>) \in Pending
          BY <2>8, <2>4, <4>2 DEF Request, Abstract!Request
        <4>7. Abstract!Acknowledge(e)
          BY <2>4, <3>3, <4>2, <4>5, <4>6 DEF Abstract!Acknowledge
        <4>8. QED
          BY <4>5, <4>7 DEF Abstract!Next
      <3>6. QED
        BY <3>4, <3>5
    <2>9. CASE c.op = "purge"
      <3>1. touched = queue[c.q]
        BY <1>6, <2>9 DEF Touched, Stream
      <3>2. \A x \in Stored : x \in gone <=> x.q = c.q
        BY <1>4, <3>1, StoredIs, CopyIs
      <3>3. Stored' = {x \in Stored : x.q # c.q}
        BY <2>1, <2>9, <3>2
      <3>4. Abstract!Request("purge", c.q, 0, <<>>) \in Pending
        BY <2>9, <2>4 DEF Request, Abstract!Request
      <3>5. Abstract!Purge(c.q)
        BY <2>1, <2>2, <2>3, <2>9, <2>4, <3>3, <3>4 DEF Abstract!Purge
      <3>6. QED
        BY <1>4, <3>5 DEF Abstract!Next
    <2>10. QED
      BY <1>4, <2>6, <2>7, <2>8, <2>9 DEF Ops
  <1>7. QED
    BY <1>2, <1>5, <1>6 DEF Serve

(* The service gives up on a consumer: nothing, or a redirection.          *)
LEMMA ExpireAbstract ==
  ASSUME IndInv, NEW r \in queue["main"], Expire(r)
  PROVE  [Abstract!Next]_(Abstract!vars)
  <1> DEFINE x == Copy("main", r)
  <1>1. /\ "main" \in Queues /\ "dlq" \in Queues /\ \A q \in Queues : q = "main" \/ q = "dlq"
        /\ UNCHANGED <<calls, handed>> /\ r \in Entry /\ x \in Stored
    <2>1. "main" \in Queues /\ "dlq" \in Queues /\ \A q \in Queues : q = "main" \/ q = "dlq"
      BY DEF Queues
    <2>2. queue["main"] \subseteq Entry
      BY <2>1 DEF IndInv, TypeInv
    <2>3. QED
      BY <2>1, <2>2, StoredIs DEF Expire
  <1>2. Promised' = Promised /\ Pending' = Pending
    <2>1. calls' = calls
      BY <1>1
    <2>2. QED
      BY <2>1 DEF Promised, Ids, Texts, Pending, Live, Request, Bodies
  <1>3. CASE /\ queue' = [queue EXCEPT !["main"] = (@ \ {r}) \cup {[r EXCEPT !.busy = FALSE]}]
             /\ UNCHANGED counter
    <2>1. queue' = [queue EXCEPT !["main"] = (queue["main"] \ {r}) \cup {[r EXCEPT !.busy = FALSE]}]
      BY <1>1, <1>3 DEF IndInv, TypeInv
    <2>2. Stored' = (Stored \ {Copy("main", s) : s \in {r}})
                      \cup {Copy("main", s) : s \in {[r EXCEPT !.busy = FALSE]}}
      BY <1>1, <2>1, StoredAfter
    <2>3. Copy("main", [r EXCEPT !.busy = FALSE]) = x
      <3>1. [r EXCEPT !.busy = FALSE].seq = r.seq /\ [r EXCEPT !.busy = FALSE].msg = r.msg
        BY <1>1 DEF Entry
      <3>2. QED
        BY <3>1 DEF Copy
    <2>4. Stored' = (Stored \ {x}) \cup {x}
      BY <2>2, <2>3
    <2>5. Stored' = Stored
      BY <1>1, <2>4
    <2>6. QED
      BY <1>1, <1>2, <1>3, <2>5 DEF Abstract!vars
  <1>4. CASE /\ queue' = [queue EXCEPT !["main"] = @ \ {r},
                              !["dlq"] = @ \cup {[seq |-> counter["dlq"] + 1,
                                                  msg |-> r.msg, busy |-> FALSE]}]
             /\ counter' = [counter EXCEPT !["dlq"] = @ + 1]
    <2> DEFINE n == counter["dlq"] + 1
               e == [seq |-> n, msg |-> r.msg, busy |-> FALSE]
    <2>1. queue'["main"] = queue["main"] \ {r} /\ queue'["dlq"] = queue["dlq"] \cup {e}
      BY <1>1, <1>4 DEF IndInv, TypeInv
    <2>2. \A s \in queue["main"] : s.seq = r.seq => s = r
      BY <1>1 DEF IndInv, MessageInv, StreamInv
    <2>3. Copy("dlq", e) = [q |-> "dlq", seq |-> n, msg |-> x.msg]
      BY DEF Copy
    <2> HIDE DEF e
    <2>4. ASSUME NEW y, y \in Stored' PROVE y \in (Stored \ {x}) \cup {Copy("dlq", e)}
      <3>1. PICK q \in Queues : \E s \in queue'[q] : y = Copy(q, s)
        BY <2>4, StoredIs
      <3>2. PICK s \in queue'[q] : y = Copy(q, s)
        BY <3>1
      <3>3. CASE q = "main"
        BY <1>1, <2>1, <2>2, <3>2, <3>3, StoredIs, CopyIs
      <3>4. CASE q = "dlq" /\ s # e
        BY <1>1, <2>1, <3>2, <3>4, StoredIs, CopyIs
      <3>5. CASE q = "dlq" /\ s = e
        BY <3>2, <3>5
      <3>6. QED
        BY <1>1, <3>3, <3>4, <3>5
    <2>5. ASSUME NEW y \in Stored, y # x PROVE y \in Stored'
      <3>1. PICK q \in Queues : \E s \in queue[q] : y = Copy(q, s)
        BY StoredIs
      <3>2. PICK s \in queue[q] : y = Copy(q, s)
        BY <3>1
      <3>3. s \in queue'[q]
        BY <1>1, <2>1, <2>5, <3>2
      <3>4. QED
        BY <3>2, <3>3, StoredIs
    <2>6. Copy("dlq", e) \in Stored'
      BY <1>1, <2>1, StoredIs
    <2>7. Stored' = (Stored \ {x}) \cup {[q |-> "dlq", seq |-> counter["dlq"] + 1, msg |-> x.msg]}
      BY <2>3, <2>4, <2>5, <2>6
    <2>8. x.q = "main"
      BY CopyIs
    <2>9. Abstract!Redirect(x, "dlq")
      BY <1>1, <1>2, <1>4, <2>7, <2>8 DEF Abstract!Redirect
    <2>10. QED
      BY <1>1, <2>9 DEF Abstract!Next
  <1>5. QED
    BY <1>3, <1>4 DEF Expire

LEMMA InitAbstract == Init => SendInv /\ Abstract!Init
  <1> SUFFICES ASSUME Init PROVE SendInv /\ Abstract!Init
    OBVIOUS
  <1>1. IndInv
    BY InitInd
  <1>2. Ids = {} /\ handed = {}
    BY DEF Init, Ids
  <1>3. SendInv /\ Promised = {} /\ Pending = {}
    BY <1>2 DEF SendInv, Promised, Pending
  <1>4. \A q \in Queues : \A r \in queue[q] : Copy(q, r) \in Abstract!Copies
    <2>1. \A q \in Queues : \A r \in queue[q] : r.seq \in Nat /\ r.msg \in Messages
      BY <1>1 DEF IndInv, TypeInv, Entry
    <2>2. QED
      BY <2>1 DEF Copy, Abstract!Copies
  <1>5. Stored \subseteq Abstract!Copies
    BY <1>4, StoredIs
  <1>6. \A x \in Stored : x.seq <= counter[x.q]
    <2>1. \A q \in Queues : \A r \in queue[q] : r.seq \in 1..counter[q]
      BY <1>1 DEF IndInv, MessageInv, StreamInv
    <2>2. \A q \in Queues : \A r \in queue[q] : r.seq <= counter[q]
      BY <1>1, <2>1 DEF IndInv, TypeInv
    <2>3. QED
      BY <2>2, StoredIs, CopyIs
  <1>7. \A x, y \in Stored : x.q = y.q /\ x.seq = y.seq => x = y
    <2> SUFFICES ASSUME NEW x \in Stored, NEW y \in Stored, x.q = y.q, x.seq = y.seq PROVE x = y
      OBVIOUS
    <2>1. PICK q \in Queues : \E r \in queue[q] : x = Copy(q, r)
      BY StoredIs
    <2>2. PICK p \in Queues : \E r \in queue[p] : y = Copy(p, r)
      BY StoredIs
    <2>3. PICK r \in queue[q] : x = Copy(q, r)
      BY <2>1
    <2>4. PICK s \in queue[p] : y = Copy(p, s)
      BY <2>2
    <2>5. q = p /\ r.seq = s.seq
      BY <2>3, <2>4, CopyIs
    <2>6. r = s
      BY <1>1, <2>5 DEF IndInv, MessageInv, StreamInv
    <2>7. QED
      BY <2>3, <2>4, <2>5, <2>6
  <1>8. counter \in [Queues -> Nat]
    BY <1>1 DEF IndInv, TypeInv
  <1>9. QED
    BY <1>2, <1>3, <1>5, <1>6, <1>7, <1>8 DEF Abstract!Init

LEMMA StepAbstract == IndInv /\ SendInv /\ [Next]_vars => SendInv' /\ [Abstract!Next]_(Abstract!vars)
  <1> SUFFICES ASSUME IndInv, SendInv, [Next]_vars
               PROVE  SendInv' /\ [Abstract!Next]_(Abstract!vars)
    OBVIOUS
  <1>1. ASSUME NEW c, Call(c), c.st = "waiting", c.cur, Request(c) \in Abstract!Requests,
               c.op = "send" => c.items \in Batches /\ GoodBatch(c.items)
        PROVE  SendInv' /\ Abstract!Next
    <2>1. /\ SendInv' /\ Promised' = Promised /\ Stored' = Stored
          /\ Pending' = IF Live(c) THEN Pending \cup {Request(c)} ELSE Pending
      BY <1>1, NewCallAbstract DEF Call
    <2>2. Live(c)
      BY <1>1 DEF Live
    <2>3. Abstract!Ask(Request(c))
      BY <1>1, <2>1, <2>2 DEF Call, Abstract!Ask
    <2>4. QED
      BY <1>1, <2>1, <2>3 DEF Abstract!Next
  <1>2. ASSUME NEW items \in Batches, Send(items)
        PROVE  SendInv' /\ [Abstract!Next]_(Abstract!vars)
    <2> DEFINE full == Called("send", "main", items, 0, FALSE)
               refused == [full EXCEPT !.st = "failed", !.cur = FALSE]
    <2>1. Call(IF GoodBatch(items) THEN full ELSE refused)
      BY <1>2 DEF Send
    <2>2. /\ full.op = "send" /\ full.q = "main" /\ full.items = items
          /\ full.st = "waiting" /\ full.cur
      BY DEF Called
    <2>3. /\ refused.op = "send" /\ refused.items = items /\ refused.st = "failed"
          /\ ~refused.cur /\ refused.old = 0
      BY DEF Called
    <2> HIDE DEF full, refused
    <2>4. CASE GoodBatch(items)
      <3>1. Request(full) = Abstract!Request("send", "main", 0, Bodies(items))
        BY <2>2 DEF Request, Abstract!Request
      <3>2. Bodies(items) \in Sends /\ "main" \in Queues
        BY <2>4 DEF Sends, Queues
      <3>3. Request(full) \in Abstract!Requests
        BY <3>1, <3>2 DEF Abstract!Requests
      <3>4. QED
        BY <1>1, <2>1, <2>2, <2>4, <3>3
    <2>5. CASE ~GoodBatch(items)
      <3>1. /\ SendInv' /\ Promised' = Promised /\ Stored' = Stored
            /\ Pending' = IF Live(refused) THEN Pending \cup {Request(refused)} ELSE Pending
        BY <2>1, <2>3, <2>5, NewCallAbstract DEF Call
      <3>2. ~Live(refused)
        BY <2>3 DEF Live
      <3>3. QED
        BY <2>1, <3>1, <3>2 DEF Call, Abstract!vars
    <2>6. QED
      BY <2>4, <2>5
  <1>3. ASSUME NEW q \in Queues, NEW fast \in BOOLEAN, Receive(q, fast)
        PROVE  SendInv' /\ Abstract!Next
    <2> DEFINE c == Called("receive", q, <<>>, 0, fast)
    <2>1. /\ c.op = "receive" /\ c.q = q /\ c.fast = fast /\ c.st = "waiting" /\ c.cur
          /\ Call(c)
      BY <1>3 DEF Called, Receive
    <2> HIDE DEF c
    <2>2. Request(c) = Abstract!Request(IF fast THEN "take" ELSE "receive", q, 0, <<>>)
      BY <2>1 DEF Request, Abstract!Request
    <2>3. Request(c) \in Abstract!Requests
      BY <2>2 DEF Abstract!Requests
    <2>4. QED
      BY <1>1, <2>1, <2>3
  <1>4. ASSUME NEW e \in handed, Delete(e) PROVE SendInv' /\ Abstract!Next
    <2> DEFINE c == Called("ack", e.q, <<>>, e.seq, FALSE)
    <2>1. /\ c.op = "ack" /\ c.q = e.q /\ c.seq = e.seq /\ c.st = "waiting" /\ c.cur
          /\ Call(c)
      BY <1>4 DEF Called, Delete
    <2> HIDE DEF c
    <2>2. Request(c) = Abstract!Request("ack", e.q, e.seq, <<>>)
      BY <2>1 DEF Request, Abstract!Request
    <2>3. Request(c) \in Abstract!Requests
      BY <2>2 DEF Abstract!Requests
    <2>4. QED
      BY <1>1, <2>1, <2>3
  <1>5. ASSUME NEW q \in Queues, Purge(q) PROVE SendInv' /\ Abstract!Next
    <2> DEFINE c == Called("purge", q, <<>>, 0, FALSE)
    <2>1. c.op = "purge" /\ c.q = q /\ c.st = "waiting" /\ c.cur /\ Call(c)
      BY <1>5 DEF Called, Purge
    <2> HIDE DEF c
    <2>2. Request(c) = Abstract!Request("purge", q, 0, <<>>)
      BY <2>1 DEF Request, Abstract!Request
    <2>3. Request(c) \in Abstract!Requests
      BY <2>2 DEF Abstract!Requests
    <2>4. QED
      BY <1>1, <2>1, <2>3
  <1>6. ASSUME NEW i \in Ids, NEW outcome \in {"timeout", "gateway"}, Strand(i, outcome)
        PROVE  SendInv' /\ Abstract!Next
    <2> DEFINE c == calls[i]
               given == GivenUp(c)
               d == AfterAttempt(given, outcome)
    <2>1. /\ c \in CallType /\ c.old \in Nat /\ c.left \in 0..MaxRetries /\ CallInv(c, sdk)
      BY CallFields DEF IndInv, CallsInv
    <2>2. /\ c.cur /\ calls' = [calls EXCEPT ![i] = d]
          /\ UNCHANGED <<queue, counter, handed>>
      BY <1>6 DEF Strand
    <2>3. /\ given \in CallType /\ SameRequest(c, given) /\ given.st = c.st
          /\ given.old = c.old + 1 /\ given.left = c.left
      BY <2>1 DEF GivenUp, CallType, SameRequest
    <2>4. c.st = "waiting" /\ given.old + given.left <= MaxRetries + 1
      BY <2>1, <2>2, <2>3, Bounds DEF CallInv, AttemptsCounted
    <2> HIDE DEF given
    <2>5. d \in CallType /\ SameRequest(given, d) /\ d.st # "ok"
      BY <2>3, <2>4, AttemptEnds
    <2>6. SameRequest(c, d)
      BY <2>3, <2>5 DEF SameRequest
    <2> HIDE DEF d
    <2>7. SendInv' /\ Promised' = Promised /\ Pending' \subseteq Pending
      <3>1. Live(c)
        BY <2>2 DEF Live
      <3>2. QED
        BY <2>2, <2>4, <2>5, <2>6, <3>1, CallGoesOn
    <2>8. Stored' = Stored
      BY <2>2 DEF Stored, Copy
    <2>9. QED
      BY <2>2, <2>7, <2>8 DEF Abstract!Next, Abstract!Over, Abstract!Ends
  <1>7. ASSUME NEW i \in Ids, NEW current \in BOOLEAN,
               NEW outcome \in {"ok", "gateway", "rejected"}, Serve(i, current, outcome)
        PROVE  SendInv' /\ [Abstract!Next]_(Abstract!vars)
    BY <1>7, ServeAbstract
  <1>8. ASSUME NEW r \in queue["main"], Expire(r)
        PROVE  SendInv' /\ [Abstract!Next]_(Abstract!vars)
    <2>1. SendInv'
      BY <1>8 DEF Expire, SendInv, Ids
    <2>2. QED
      BY <1>8, <2>1, ExpireAbstract
  <1>9. CASE UNCHANGED vars
    <2>1. calls' = calls /\ queue' = queue /\ counter' = counter /\ handed' = handed
      BY <1>9 DEF vars
    <2>2. SendInv' /\ Promised' = Promised /\ Stored' = Stored /\ Pending' = Pending
      BY <2>1 DEF SendInv, Ids, Promised, Texts, Stored, Copy, Pending, Live, Request, Bodies
    <2>3. QED
      BY <2>1, <2>2 DEF Abstract!vars
  <1>10. QED
    BY <1>2, <1>3, <1>4, <1>5, <1>6, <1>7, <1>8, <1>9 DEF Next, Finished

-----------------------------------------------------------------------------
(* Calls count their attempts, and sequences name one message each.        *)
THEOREM TypeCorrect == Spec => []TypeOK
  <1>1. IndInv => TypeOK
    <2> SUFFICES ASSUME IndInv PROVE TypeOK
      OBVIOUS
    <2>1. \A i \in Ids :
            /\ calls[i].st \in {"waiting", "ok", "failed"}
            /\ calls[i].cur <=> calls[i].st = "waiting"
            /\ calls[i].old + calls[i].left <= MaxRetries + 1
      BY CallFields DEF IndInv, CallsInv, CallInv, AttemptsCounted
    <2>2. \A q \in Queues : \A r \in queue[q] : r.msg \in Messages /\ r.busy \in BOOLEAN
      BY DEF IndInv, TypeInv, Entry
    <2>3. \A q \in Queues : \A r \in queue[q] :
            /\ r.seq \in 1..counter[q]
            /\ \A s \in queue[q] : r.seq = s.seq => r = s
      BY DEF IndInv, MessageInv, StreamInv
    <2>4. sdk \in Sdks /\ expiries \in 0..MaxExpiries
      BY DEF IndInv, TypeInv
    <2>5. \A q \in Queues : \A r \in queue[q] :
            /\ r.seq \in 1..counter[q] /\ r.msg \in Messages /\ r.busy \in BOOLEAN
            /\ \A s \in queue[q] : r.seq = s.seq => r = s
      BY <2>2, <2>3
    <2>6. QED
      BY <2>1, <2>4, <2>5, Zenon DEF TypeOK
  <1>2. QED
    BY <1>1, Invariance, PTL

(* Whatever is lost on the way, repeated or executed late: a message whose *)
(* send returned is held, was handed out, or was removed on purpose.       *)
THEOREM MessagesAreKept == Spec => []NothingLost
  <1>1. IndInv => NothingLost
    BY DEF IndInv, MessageInv
  <1>2. QED
    BY <1>1, Invariance, PTL

(* No ack removes what the program was not handed.                         *)
THEOREM AcksAreExact == Spec => []AckRemovesOnlyHandled
  <1>1. IndInv => AckRemovesOnlyHandled
    BY DEF IndInv, MessageInv
  <1>2. QED
    BY <1>1, Invariance, PTL

(* In Go and Java no purge that has returned removes later messages.       *)
THEOREM PurgesEnd == Spec => []PurgeSparesLater
  <1>1. IndInv => PurgeSparesLater
    BY DEF IndInv, MessageInv
  <1>2. QED
    BY <1>1, Invariance, PTL

(* Whatever becomes of single requests, queues are the mailboxes that the  *)
(* SDK presents (services.py MqAPI): nothing is stored, handed out or      *)
(* removed but as a request still under way asks for.                      *)
THEOREM Refinement == Spec => ImplementsMailbox
  <1>1. SendInv /\ IndInv /\ [Next]_vars => SendInv' /\ IndInv' /\ [Abstract!Next]_(Abstract!vars)
    BY StepInd, StepAbstract
  <1>2. QED
    BY <1>1, InitInd, InitAbstract, PTL DEF Spec, ImplementsMailbox, Abstract!Spec

=============================================================================
