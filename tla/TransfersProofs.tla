--------------------------- MODULE TransfersProofs ---------------------------
(***************************************************************************)
(* Proofs about Transfers, for every number of threads, chunks, attempts,  *)
(* transfers and closes.                                                   *)
(***************************************************************************)
EXTENDS Transfers, FiniteSetTheorems, TLAPS

Places == {"idle", "client", "request", "body", "file", "backoff", "done", "failed"}

Transfer ==
  [pc : Places, kind : Kinds \cup {"none"}, client : Nat, attempt : 0..MaxRetries,
   pos : 0..Size, sent : 0..Size, target : 0..Size + 1]

TypeInv ==
  /\ mode \in {"sync", "aio"}
  /\ tr \in [Threads -> Transfer]
  /\ made \in Nat /\ current \in 0..made /\ open \subseteq 1..made
  /\ \A t \in Threads : tr[t].client <= made
  /\ closing \in BOOLEAN /\ cut \in BOOLEAN
  /\ starts \in Nat /\ closes \in Nat
  /\ total \in Nat /\ completed \in Nat

(* What has moved in an attempt: an upload that can be rewound has sent    *)
(* what it has read; a file holds what its attempt has received; nothing   *)
(* is written before the answer has begun.                                 *)
MovedSoFar(t) ==
  /\ tr[t].pc \notin {"idle", "failed"} => tr[t].kind \in Kinds
  /\ tr[t].pc = "body" /\ tr[t].kind = "upload" => tr[t].pos = tr[t].sent
  /\ tr[t].pc = "body" /\ tr[t].kind = "download" => tr[t].sent = 0 /\ tr[t].pos = 0
  /\ tr[t].pc = "file" =>
       /\ tr[t].kind = "download"
       /\ tr[t].target = tr[t].sent /\ tr[t].pos = tr[t].sent
  /\ tr[t].pc = "body" /\ tr[t].kind = "pipe" => tr[t].sent <= tr[t].pos

(* The loop sleeps only when an attempt is left.                           *)
AttemptLeft(t) == tr[t].pc = "backoff" => tr[t].attempt < MaxRetries

WholeWhenDone(t) == tr[t].pc = "done" /\ tr[t].kind # "pipe" => tr[t].target = Size

TransferInv(t) == MovedSoFar(t) /\ AttemptLeft(t) /\ WholeWhenDone(t)

(* The transport has at most one open client, the current one; while a     *)
(* close is suspended it has none.                                         *)
PoolInv ==
  /\ open \subseteq {current}
  /\ closing => mode = "aio" /\ open = {}
  /\ ~closing /\ ~cut => current \in open \cup {0}

IndInv == TypeInv /\ PoolInv /\ \A t \in Threads : TransferInv(t)

-----------------------------------------------------------------------------
LEMMA Bounds ==
  /\ Size \in Nat /\ Size # 0 /\ MaxRetries \in Nat
  /\ 0 \in 0..MaxRetries /\ 0 \in 0..Size /\ 0 \in 0..Size + 1 /\ Size + 1 \in 0..Size + 1
  BY BoundsAssumption

LEMMA InitInd == Init => IndInv
  <1> SUFFICES ASSUME Init PROVE IndInv
    OBVIOUS
  <1>1. Idle \in Transfer
    BY BoundsAssumption DEF Idle, Transfer, Places
  <1>2. tr = [t \in Threads |-> Idle]
    BY DEF Init
  <1>3. tr \in [Threads -> Transfer] /\ \A t \in Threads : tr[t] = Idle
    BY <1>1, <1>2
  <1>4. TypeInv
    <2>1. \A t \in Threads : tr[t].client <= made
      BY <1>3 DEF Init, Idle
    <2>2. closing \in BOOLEAN /\ cut \in BOOLEAN /\ open \subseteq 1..made
      BY DEF Init
    <2>3. QED
      BY <1>3, <2>1, <2>2 DEF Init, TypeInv
  <1>5. PoolInv
    BY DEF Init, PoolInv
  <1>6. \A t \in Threads : TransferInv(t)
    BY <1>3 DEF TransferInv, MovedSoFar, AttemptLeft, WholeWhenDone, Idle
  <1>7. QED
    BY <1>4, <1>5, <1>6 DEF IndInv

(* A step of thread t that changes the transfer of t to r, and leaves the  *)
(* clients alone: what there is to show is about r only.                   *)
LEMMA OneTransfer ==
  ASSUME IndInv, NEW t \in Threads, NEW r \in Transfer,
         tr' = [tr EXCEPT ![t] = r], r.client <= made,
         UNCHANGED <<mode, pool>>, starts' \in Nat, total' \in Nat, completed' \in Nat,
         TransferInv(t)'
  PROVE  IndInv'
  <1>1. \A u \in Threads \ {t} : tr'[u] = tr[u]
    BY DEF IndInv, TypeInv
  <1>2. tr'[t] = r
    BY DEF IndInv, TypeInv
  <1>3. TypeInv'
    BY <1>1, <1>2 DEF IndInv, TypeInv, pool
  <1>4. PoolInv'
    BY DEF IndInv, PoolInv, pool
  <1>5. \A u \in Threads \ {t} : TransferInv(u)'
    BY <1>1 DEF IndInv, TransferInv, MovedSoFar, AttemptLeft, WholeWhenDone
  <1>6. QED
    BY <1>3, <1>4, <1>5 DEF IndInv

(* The transfer of a thread, and what it may become.                       *)
LEMMA TransferFields ==
  ASSUME IndInv, NEW t \in Threads
  PROVE  /\ tr[t] \in Transfer /\ tr[t].client \in Nat /\ tr[t].client <= made
         /\ tr[t].pos \in 0..Size /\ tr[t].sent \in 0..Size /\ tr[t].target \in 0..Size + 1
         /\ tr[t].attempt \in 0..MaxRetries
         /\ TransferInv(t)
  BY DEF IndInv, TypeInv, Transfer

LEMMA Counted ==
  ASSUME IndInv
  PROVE  starts \in Nat /\ total \in Nat /\ completed \in Nat
  BY DEF IndInv, TypeInv

LEMMA StartKeeps ==
  ASSUME IndInv, NEW t \in Threads, NEW kind \in Kinds, Start(t, kind)
  PROVE  IndInv'
  <1> DEFINE r == [Idle EXCEPT !.pc = "client", !.kind = kind]
  <1>1. r \in Transfer /\ r.client = 0 /\ r.pc = "client" /\ r.kind \in Kinds
    <2>1. Idle \in Transfer
      BY Bounds DEF Idle, Transfer, Places
    <2>2. r \in Transfer
      BY <2>1 DEF Transfer, Places
    <2>3. QED
      BY <2>2 DEF Idle
  <1>2. tr' = [tr EXCEPT ![t] = r] /\ UNCHANGED <<mode, pool>>
    BY DEF Start
  <1> HIDE DEF r
  <1>3. starts' \in Nat /\ total' \in Nat /\ completed' \in Nat
    BY BoundsAssumption, Counted DEF Start
  <1>4. tr'[t] = r
    BY <1>2 DEF IndInv, TypeInv
  <1>5. TransferInv(t)'
    BY <1>1, <1>4 DEF TransferInv, MovedSoFar, AttemptLeft, WholeWhenDone
  <1>6. r.client <= made
    BY <1>1 DEF IndInv, TypeInv
  <1>7. QED
    BY <1>1, <1>2, <1>3, <1>5, <1>6, OneTransfer

(* A transfer may fail anywhere.                                           *)
LEMMA FailureKeeps ==
  ASSUME IndInv, NEW t \in Threads, NEW kept \in 0..Size + 1,
         tr' = [tr EXCEPT ![t] = [@ EXCEPT !.target = kept, !.pc = "failed"]],
         UNCHANGED <<mode, pool, starts, total, completed>>
  PROVE  IndInv'
  <1> DEFINE r == [tr[t] EXCEPT !.target = kept, !.pc = "failed"]
  <1>1. r \in Transfer /\ r.client <= made /\ r.pc = "failed"
    BY TransferFields DEF Transfer, Places
  <1>2. tr' = [tr EXCEPT ![t] = r]
    OBVIOUS
  <1> HIDE DEF r
  <1>3. tr'[t] = r
    BY <1>2 DEF IndInv, TypeInv
  <1>4. TransferInv(t)'
    BY <1>1, <1>3 DEF TransferInv, MovedSoFar, AttemptLeft, WholeWhenDone
  <1>5. QED
    BY <1>1, <1>2, <1>4, OneTransfer, Counted

LEMMA RequestKeeps ==
  ASSUME IndInv, NEW t \in Threads, Request(t)
  PROVE  IndInv'
  <1>1. tr[t] \in Transfer /\ TransferInv(t) /\ tr[t].pc = "request"
    BY TransferFields DEF Request
  <1>2. CASE tr[t].client \notin open
    <2>1. tr' = [tr EXCEPT ![t] = [@ EXCEPT !.target = tr[t].target, !.pc = "failed"]]
      BY <1>1, <1>2 DEF Request, Transfer
    <2>2. QED
      BY <2>1, FailureKeeps, TransferFields DEF Request
  <1>3. CASE tr[t].client \in open
    <2> DEFINE from == Rewound(t)
               r == [tr[t] EXCEPT !.pc = "body", !.sent = 0, !.pos = from]
    <2>1. from \in 0..Size /\ (tr[t].kind # "pipe" => from = 0)
      BY TransferFields, BoundsAssumption DEF Rewound
    <2>2. tr' = [tr EXCEPT ![t] = r] /\ UNCHANGED <<mode, pool, starts, total, completed>>
      BY <1>3 DEF Request
    <2> HIDE DEF from
    <2>3. /\ r \in Transfer /\ r.client <= made
          /\ r.pc = "body" /\ r.sent = 0 /\ r.pos = from /\ r.kind = tr[t].kind
      BY <2>1, TransferFields, Bounds DEF Transfer, Places
    <2> HIDE DEF r
    <2>4. tr'[t] = r
      BY <2>2 DEF IndInv, TypeInv
    <2>5. TransferInv(t)'
      BY <1>1, <2>1, <2>3, <2>4 DEF TransferInv, MovedSoFar, AttemptLeft, WholeWhenDone, Kinds
    <2>6. QED
      BY <2>2, <2>3, <2>5, OneTransfer, Counted
  <1>4. QED
    BY <1>2, <1>3

LEMMA OpenFileKeeps ==
  ASSUME IndInv, NEW t \in Threads, OpenFile(t)
  PROVE  IndInv'
  <1> DEFINE r == [tr[t] EXCEPT !.target = 0, !.pc = "file"]
  <1>1. TransferInv(t) /\ tr[t].pc = "body" /\ tr[t].kind = "download"
    BY TransferFields DEF OpenFile
  <1>2. tr' = [tr EXCEPT ![t] = r] /\ UNCHANGED <<mode, pool, starts, total, completed>>
    BY DEF OpenFile
  <1>3. /\ r \in Transfer /\ r.client <= made /\ r.pc = "file" /\ r.target = 0
        /\ r.sent = tr[t].sent /\ r.pos = tr[t].pos /\ r.kind = tr[t].kind
    BY TransferFields, Bounds DEF Transfer, Places
  <1> HIDE DEF r
  <1>4. tr'[t] = r
    BY <1>2 DEF IndInv, TypeInv
  <1>5. TransferInv(t)'
    BY <1>1, <1>3, <1>4 DEF TransferInv, MovedSoFar, AttemptLeft, WholeWhenDone, Kinds
  <1>6. QED
    BY <1>2, <1>3, <1>5, OneTransfer, Counted

LEMMA ChunkKeeps ==
  ASSUME IndInv, NEW t \in Threads, Chunk(t)
  PROVE  IndInv'
  <1> DEFINE goal == tr[t].target + (IF tr[t].kind = "download" THEN 1 ELSE 0)
             s == tr[t].sent + 1
             p == tr[t].pos + 1
             r == [tr[t] EXCEPT !.sent = s, !.pos = p, !.target = goal]
  <1>1. /\ TransferInv(t) /\ tr[t].kind \in Kinds
        /\ \/ tr[t].pc = "body" /\ tr[t].kind # "download" /\ tr[t].pos < Size
           \/ tr[t].pc = "file" /\ tr[t].sent < Size
    BY TransferFields DEF Chunk, TransferInv, MovedSoFar
  <1>2. tr' = [tr EXCEPT ![t] = r] /\ UNCHANGED <<mode, pool, starts, total>>
    BY DEF Chunk
  <1>3. completed' \in Nat
    BY Counted DEF Chunk, Reported
  <1>4. s \in 0..Size /\ p \in 0..Size /\ goal \in 0..Size + 1
    BY <1>1, TransferFields, Bounds DEF TransferInv, MovedSoFar, Kinds
  <1>5. /\ tr[t].pc = "file" => goal = s /\ p = s
        /\ tr[t].pc = "body" /\ tr[t].kind = "upload" => p = s
        /\ tr[t].pc = "body" => s <= p
    BY <1>1, TransferFields, Bounds DEF TransferInv, MovedSoFar, Kinds
  <1>6. /\ r \in Transfer /\ r.client <= made /\ r.pc = tr[t].pc /\ r.target = goal
        /\ r.sent = s /\ r.pos = p /\ r.kind = tr[t].kind
    BY <1>4, TransferFields DEF Transfer
  <1> HIDE DEF r, goal, s, p
  <1>7. tr'[t] = r
    BY <1>2 DEF IndInv, TypeInv
  <1>8. TransferInv(t)'
    BY <1>1, <1>5, <1>6, <1>7 DEF TransferInv, MovedSoFar, AttemptLeft, WholeWhenDone, Kinds
  <1>9. QED
    BY <1>2, <1>3, <1>6, <1>8, OneTransfer, Counted

(* An upload that is through has sent all it read: here the rewinding      *)
(* matters.                                                                *)
LEMMA SucceedKeeps ==
  ASSUME IndInv, NEW t \in Threads, Succeed(t)
  PROVE  IndInv'
  <1> DEFINE goal == IF tr[t].kind = "download" THEN tr[t].target ELSE tr[t].sent
             r == [tr[t] EXCEPT !.pc = "done",
                     !.target = IF tr[t].kind = "download" THEN tr[t].target ELSE tr[t].sent]
  <1>1. TransferInv(t) /\ Sent(t)
    BY TransferFields DEF Succeed
  <1>2. tr' = [tr EXCEPT ![t] = r] /\ UNCHANGED <<mode, pool, starts, total, completed>>
    BY DEF Succeed
  <1>3. tr[t].kind \in Kinds /\ goal \in 0..Size + 1 /\ (tr[t].kind # "pipe" => goal = Size)
    BY <1>1, TransferFields, Bounds DEF Sent, TransferInv, MovedSoFar, Kinds
  <1>4. /\ r \in Transfer /\ r.client <= made /\ r.pc = "done" /\ r.target = goal
        /\ r.kind = tr[t].kind
    BY <1>3, TransferFields DEF Transfer, Places
  <1> HIDE DEF r
  <1>5. tr'[t] = r
    BY <1>2 DEF IndInv, TypeInv
  <1>6. TransferInv(t)'
    BY <1>3, <1>4, <1>5 DEF TransferInv, MovedSoFar, AttemptLeft, WholeWhenDone
  <1>7. QED
    BY <1>2, <1>4, <1>6, OneTransfer, Counted

LEMMA BreakKeeps ==
  ASSUME IndInv, NEW t \in Threads, Break(t)
  PROVE  IndInv'
  <1>1. PICK kept \in {tr[t].target} \cup
               (IF Sent(t) /\ tr[t].pc = "body" THEN {tr[t].sent} ELSE {}) :
          tr' = [tr EXCEPT ![t] = [@ EXCEPT !.target = kept, !.pc = Again(t)]]
    BY DEF Break
  <1>2. kept \in 0..Size + 1
    BY <1>1, TransferFields, Bounds
  <1>3. UNCHANGED <<mode, pool, starts, total, completed>>
    BY DEF Break
  <1>4. CASE tr[t].attempt < MaxRetries
    <2> DEFINE r == [tr[t] EXCEPT !.target = kept, !.pc = "backoff"]
    <2>1. tr' = [tr EXCEPT ![t] = r]
      BY <1>1, <1>4 DEF Again
    <2>2. /\ r \in Transfer /\ r.client <= made /\ r.pc = "backoff"
          /\ r.kind = tr[t].kind /\ r.attempt = tr[t].attempt
      BY <1>2, TransferFields DEF Transfer, Places
    <2> HIDE DEF r
    <2>3. tr'[t] = r
      BY <2>1 DEF IndInv, TypeInv
    <2>4. tr[t].kind \in Kinds
      BY TransferFields DEF Break, TransferInv, MovedSoFar
    <2>5. TransferInv(t)'
      BY <1>4, <2>2, <2>3, <2>4 DEF TransferInv, MovedSoFar, AttemptLeft, WholeWhenDone
    <2>6. QED
      BY <1>3, <2>1, <2>2, <2>5, OneTransfer, Counted
  <1>5. CASE ~(tr[t].attempt < MaxRetries)
    <2>1. tr' = [tr EXCEPT ![t] = [@ EXCEPT !.target = kept, !.pc = "failed"]]
      BY <1>1, <1>5 DEF Again
    <2>2. QED
      BY <1>2, <1>3, <2>1, FailureKeeps
  <1>6. QED
    BY <1>4, <1>5

LEMMA RejectKeeps ==
  ASSUME IndInv, NEW t \in Threads, Reject(t)
  PROVE  IndInv'
  <1>1. tr' = [tr EXCEPT ![t] = [@ EXCEPT !.target = tr[t].target, !.pc = "failed"]]
    BY TransferFields DEF Reject, Transfer
  <1>2. QED
    BY <1>1, FailureKeeps, TransferFields DEF Reject

LEMMA ResumeKeeps ==
  ASSUME IndInv, NEW t \in Threads, Resume(t)
  PROVE  IndInv'
  <1> DEFINE r == [tr[t] EXCEPT !.pc = "request", !.attempt = tr[t].attempt + 1]
  <1>1. TransferInv(t) /\ tr[t].pc = "backoff"
    BY TransferFields DEF Resume
  <1>2. tr' = [tr EXCEPT ![t] = r] /\ UNCHANGED <<mode, pool, starts, total, completed>>
    BY DEF Resume
  <1>3. tr[t].attempt + 1 \in 0..MaxRetries
    BY <1>1, TransferFields, Bounds DEF TransferInv, AttemptLeft
  <1>4. r \in Transfer /\ r.client <= made /\ r.pc = "request" /\ r.kind = tr[t].kind
    BY <1>3, TransferFields DEF Transfer, Places
  <1> HIDE DEF r
  <1>5. tr'[t] = r
    BY <1>2 DEF IndInv, TypeInv
  <1>6. TransferInv(t)'
    BY <1>1, <1>4, <1>5 DEF TransferInv, MovedSoFar, AttemptLeft, WholeWhenDone
  <1>7. QED
    BY <1>2, <1>4, <1>6, OneTransfer, Counted

(* A client is created only when the transport has none, and then nothing  *)
(* is open.                                                                *)
LEMMA HttpKeeps ==
  ASSUME IndInv, NEW t \in Threads, Http(t)
  PROVE  IndInv'
  <1> DEFINE r == [tr[t] EXCEPT !.pc = "request", !.client = current']
  <1>1. /\ TransferInv(t) /\ tr[t].pc = "client" /\ ~closing
        /\ tr' = [tr EXCEPT ![t] = r]
        /\ UNCHANGED <<mode, closing, cut, closes, starts, total, completed>>
    BY TransferFields DEF Http
  <1>2. /\ made' \in Nat /\ made <= made' /\ current' \in 0..made' /\ current' \in Nat
        /\ open' \subseteq 1..made'
    <2>1. CASE current = 0
      <3>1. current' = made + 1 /\ made' = made + 1 /\ open' = open \cup {made + 1}
        BY <2>1 DEF Http, NeedsClient
      <3>2. QED
        BY <3>1 DEF IndInv, TypeInv
    <2>2. CASE current # 0
      BY <2>2 DEF Http, NeedsClient, IndInv, TypeInv
    <2>3. QED
      BY <2>1, <2>2
  <1>3. PoolInv'
    <2>1. CASE current = 0
      <3>1. current' = made + 1 /\ open' = open \cup {made + 1}
        BY <2>1 DEF Http, NeedsClient
      <3>2. open = {}
        BY <2>1 DEF IndInv, TypeInv, PoolInv
      <3>3. QED
        BY <1>1, <3>1, <3>2 DEF PoolInv
    <2>2. CASE current # 0
      BY <1>1, <2>2 DEF Http, NeedsClient, IndInv, PoolInv
    <2>3. QED
      BY <2>1, <2>2
  <1>4. r \in Transfer /\ r.client = current' /\ r.pc = "request" /\ r.kind = tr[t].kind
    BY <1>2, TransferFields DEF Transfer, Places
  <1> HIDE DEF r
  <1>5. tr'[t] = r /\ \A u \in Threads \ {t} : tr'[u] = tr[u]
    BY <1>1 DEF IndInv, TypeInv
  <1>6. TypeInv'
    <2>1. tr' \in [Threads -> Transfer]
      BY <1>1, <1>4 DEF IndInv, TypeInv
    <2>2. \A u \in Threads : tr'[u].client <= made'
      <3>1. \A u \in Threads : tr[u].client \in Nat /\ tr[u].client <= made
        BY TransferFields
      <3>2. r.client <= made' /\ made \in Nat
        BY <1>2, <1>4 DEF IndInv, TypeInv
      <3>3. QED
        BY <1>2, <1>5, <3>1, <3>2
    <2>3. QED
      BY <1>1, <1>2, <2>1, <2>2 DEF IndInv, TypeInv
  <1>7. \A u \in Threads : TransferInv(u)'
    <2>1. TransferInv(t)'
      BY <1>1, <1>4, <1>5 DEF TransferInv, MovedSoFar, AttemptLeft, WholeWhenDone
    <2>2. \A u \in Threads \ {t} : TransferInv(u)'
      BY <1>5 DEF IndInv, TransferInv, MovedSoFar, AttemptLeft, WholeWhenDone
    <2>3. QED
      BY <2>1, <2>2
  <1>8. QED
    BY <1>3, <1>6, <1>7 DEF IndInv

(* Closing concerns the clients only.                                      *)
LEMMA CloseKeeps ==
  ASSUME IndInv, Close \/ CloseEnds
  PROVE  IndInv'
  <1>1. UNCHANGED <<mode, tr, made, starts, total, completed>>
    BY DEF Close, CloseEnds
  <1>2. current' \in {0, current} /\ open' \subseteq open /\ closes' \in Nat
    BY DEF Close, CloseEnds, ClientAfterClose, IndInv, TypeInv
  <1>7. closing' \in BOOLEAN /\ cut' \in BOOLEAN
    BY DEF Close, CloseEnds, IndInv, TypeInv
  <1>3. TypeInv'
    BY <1>1, <1>2, <1>7 DEF IndInv, TypeInv
  <1>4. PoolInv'
    <2>1. CASE Close
      <3>1. open' = {} /\ closing' = (mode = "aio" /\ current # 0) /\ cut' = cut
        BY <2>1 DEF Close, IndInv, PoolInv
      <3>2. current' = IF mode = "sync" THEN 0 ELSE current
        BY <2>1 DEF Close, ClientAfterClose
      <3>3. QED
        BY <1>1, <3>1, <3>2 DEF PoolInv, IndInv, TypeInv
    <2>2. CASE CloseEnds
      BY <1>1, <2>2 DEF CloseEnds, IndInv, PoolInv
    <2>3. QED
      BY <2>1, <2>2
  <1>5. \A t \in Threads : TransferInv(t)'
    BY <1>1 DEF IndInv, TransferInv, MovedSoFar, AttemptLeft, WholeWhenDone
  <1>6. QED
    BY <1>3, <1>4, <1>5 DEF IndInv

LEMMA StepInd == IndInv /\ [Next]_vars => IndInv'
  <1> SUFFICES ASSUME IndInv, [Next]_vars PROVE IndInv'
    OBVIOUS
  <1>1. ASSUME NEW t \in Threads, NEW kind \in Kinds, Start(t, kind) PROVE IndInv'
    BY <1>1, StartKeeps
  <1>2. ASSUME NEW t \in Threads, Http(t) PROVE IndInv'
    BY <1>2, HttpKeeps
  <1>3. ASSUME NEW t \in Threads, Request(t) \/ OpenFile(t) \/ Chunk(t) PROVE IndInv'
    BY <1>3, RequestKeeps, OpenFileKeeps, ChunkKeeps
  <1>4. ASSUME NEW t \in Threads, Succeed(t) \/ Break(t) \/ Reject(t) \/ Resume(t)
        PROVE  IndInv'
    BY <1>4, SucceedKeeps, BreakKeeps, RejectKeeps, ResumeKeeps
  <1>5. ASSUME Close \/ CloseEnds PROVE IndInv'
    BY <1>5, CloseKeeps
  <1>6. ASSUME UNCHANGED vars PROVE IndInv'
    BY <1>6 DEF vars, pool, IndInv, TypeInv, PoolInv, TransferInv, MovedSoFar, AttemptLeft,
                WholeWhenDone
  <1>7. QED
    BY <1>1, <1>2, <1>3, <1>4, <1>5, <1>6 DEF Next, Finished

LEMMA Invariance == Spec => []IndInv
  BY InitInd, StepInd, PTL DEF Spec

-----------------------------------------------------------------------------
(***************************************************************************)
(* Progress.  The chunks that the latest attempts have moved, and the      *)
(* threads that have had a transfer: what is reported is never less than   *)
(* the first, and exactly that as long as no thread has had a second       *)
(* transfer and no transfer a second attempt.                              *)
(***************************************************************************)
Moved == {m \in Threads \X (1..Size) : m[2] <= tr[m[1]].sent}
Started == {t \in Threads : tr[t].pc # "idle"}
Untried == \A t \in Threads : tr[t].attempt = 0

(* The first attempt begins with nothing sent, and whoever is done has     *)
(* sent everything.                                                        *)
SentInv(t) ==
  /\ tr[t].pc = "idle" => tr[t].sent = 0 /\ tr[t].attempt = 0
  /\ tr[t].pc \in {"client", "request"} /\ tr[t].attempt = 0 => tr[t].sent = 0
  /\ tr[t].pc = "done" /\ tr[t].kind # "pipe" => tr[t].sent = Size

ProgressInv ==
  /\ \A t \in Threads : SentInv(t)
  /\ Cardinality(Started) <= starts
  /\ total = starts * Size
  /\ completed >= Cardinality(Moved)
  /\ starts = Cardinality(Started) /\ Untried => completed = Cardinality(Moved)

LEMMA MovedIsFinite ==
  /\ IsFiniteSet(Moved) /\ Cardinality(Moved) \in Nat
  /\ IsFiniteSet(Started) /\ Cardinality(Started) \in Nat
  /\ IsFiniteSet(Threads \X (1..Size))
  /\ Cardinality(Threads \X (1..Size)) = Cardinality(Threads) * Size
  <1>1. IsFiniteSet(1..Size) /\ Cardinality(1..Size) = Size
    BY FS_Interval, BoundsAssumption
  <1>2. /\ IsFiniteSet(Threads \X (1..Size))
        /\ Cardinality(Threads \X (1..Size)) = Cardinality(Threads) * Size
    BY <1>1, FS_Product, ThreadsAssumption
  <1>3. Moved \in SUBSET (Threads \X (1..Size)) /\ Started \in SUBSET Threads
    BY DEF Moved, Started
  <1>4. IsFiniteSet(Moved) /\ IsFiniteSet(Started)
    BY <1>2, <1>3, FS_Subset, ThreadsAssumption
  <1>5. QED
    BY <1>2, <1>4, FS_CardinalityType

LEMMA InitProgress == Init => ProgressInv
  <1> SUFFICES ASSUME Init PROVE ProgressInv
    OBVIOUS
  <1>1. \A t \in Threads :
          tr[t].pc = "idle" /\ tr[t].sent = 0 /\ tr[t].attempt = 0
    BY DEF Init, Idle
  <1>2. Moved = {} /\ Started = {}
    BY <1>1, BoundsAssumption DEF Moved, Started
  <1>3. Cardinality(Moved) = 0 /\ Cardinality(Started) = 0
    BY <1>2, FS_EmptySet
  <1>4. QED
    BY <1>1, <1>3, BoundsAssumption DEF Init, ProgressInv, SentInv

(* A step of thread t that reports nothing, and takes back what the        *)
(* attempt has moved only if it is not the first.                          *)
LEMMA QuietKeeps ==
  ASSUME IndInv, ProgressInv, NEW t \in Threads, NEW r \in Transfer,
         tr' = [tr EXCEPT ![t] = r], UNCHANGED <<starts, total, completed>>,
         tr[t].pc # "idle", r.pc # "idle", r.sent \in {0, tr[t].sent},
         r.attempt = 0 => tr[t].attempt = 0 /\ r.sent = tr[t].sent,
         SentInv(t)'
  PROVE  ProgressInv'
  <1>1. tr'[t] = r /\ \A u \in Threads \ {t} : tr'[u] = tr[u]
    BY DEF IndInv, TypeInv
  <1>2. \A u \in Threads : SentInv(u)'
    BY <1>1 DEF ProgressInv, SentInv
  <1>3. Started' = Started
    BY <1>1 DEF Started
  <1>4. Moved' \subseteq Moved
    <2>1. ASSUME NEW m \in Moved' PROVE m \in Moved
      <3>1. m \in Threads \X (1..Size) /\ m[2] <= tr'[m[1]].sent /\ m[2] >= 1
        BY <2>1, BoundsAssumption DEF Moved
      <3>2. CASE m[1] = t
        BY <1>1, <3>1, <3>2, TransferFields DEF Moved
      <3>3. CASE m[1] # t
        BY <1>1, <3>1, <3>3 DEF Moved
      <3>4. QED
        BY <3>2, <3>3
    <2>2. QED
      BY <2>1
  <1>5. Cardinality(Moved') <= Cardinality(Moved) /\ Cardinality(Moved') \in Nat
    <2>1. Moved' \in SUBSET Moved
      BY <1>4
    <2>2. QED
      BY <2>1, MovedIsFinite, FS_Subset, FS_CardinalityType
  <1>6. Untried' => Untried /\ Moved' = Moved
    BY <1>1 DEF Untried, Moved
  <1>7. QED
    BY <1>2, <1>3, <1>5, <1>6, MovedIsFinite, Counted DEF ProgressInv

(* One more transfer: of a thread that had none, or of one that had.       *)
LEMMA StartCounts ==
  ASSUME IndInv, ProgressInv, NEW t \in Threads, NEW kind \in Kinds, Start(t, kind)
  PROVE  ProgressInv'
  <1> DEFINE r == [Idle EXCEPT !.pc = "client", !.kind = kind]
  <1>1. r.pc = "client" /\ r.sent = 0 /\ r.attempt = 0
    BY DEF Idle
  <1>2. /\ tr' = [tr EXCEPT ![t] = r] /\ starts' = starts + 1 /\ total' = total + Size
        /\ completed' = completed
    BY DEF Start
  <1> HIDE DEF r
  <1>3. tr'[t] = r /\ \A u \in Threads \ {t} : tr'[u] = tr[u]
    BY <1>2 DEF IndInv, TypeInv
  <1>4. \A u \in Threads : SentInv(u)'
    BY <1>1, <1>3 DEF ProgressInv, SentInv
  <1>5. Started' = Started \cup {t}
    BY <1>1, <1>3 DEF Started
  <1>6. Cardinality(Started') = IF t \in Started THEN Cardinality(Started) ELSE Cardinality(Started) + 1
    BY <1>5, MovedIsFinite, FS_AddElement
  <1>7. Moved' = Moved \ {m \in Moved : m[1] = t}
    BY <1>1, <1>3, BoundsAssumption DEF Moved
  <1>8. Cardinality(Moved') <= Cardinality(Moved) /\ Cardinality(Moved') \in Nat
    <2>1. Moved' \in SUBSET Moved
      BY <1>7
    <2>2. QED
      BY <2>1, MovedIsFinite, FS_Subset, FS_CardinalityType
  <1>9. total' = starts' * Size
    <2>1. \A s, n \in Nat : (s + 1) * n = s * n + n
      OBVIOUS
    <2>2. QED
      BY <1>2, <2>1, Counted, BoundsAssumption DEF ProgressInv
  <1>10. t \notin Started => Moved' = Moved /\ (Untried' => Untried)
    <2>1. ASSUME t \notin Started PROVE tr[t].sent = 0 /\ tr[t].attempt = 0
      BY <2>1 DEF Started, ProgressInv, SentInv
    <2>2. t \notin Started => \A m \in Moved : m[1] # t
      BY <2>1, BoundsAssumption DEF Moved
    <2>3. QED
      BY <1>3, <1>7, <2>1, <2>2 DEF Untried
  <1>11. QED
    BY <1>2, <1>4, <1>6, <1>8, <1>9, <1>10, MovedIsFinite, Counted DEF ProgressInv

(* A chunk is reported when it is moved: here the reporting of repeated    *)
(* attempts matters.                                                       *)
LEMMA ChunkCounts ==
  ASSUME IndInv, ProgressInv, NEW t \in Threads, Chunk(t)
  PROVE  ProgressInv'
  <1>1. tr[t] \in Transfer /\ tr[t].pc \in {"body", "file"} /\ tr[t].sent < Size
    <2>1. TransferInv(t) /\ tr[t].kind \in Kinds
      BY TransferFields DEF Chunk, TransferInv, MovedSoFar
    <2>2. QED
      BY <2>1, TransferFields, BoundsAssumption DEF Chunk, TransferInv, MovedSoFar, Kinds
  <1>2. /\ tr'[t].pc = tr[t].pc /\ tr'[t].sent = tr[t].sent + 1 /\ tr'[t].attempt = tr[t].attempt
        /\ \A u \in Threads \ {t} : tr'[u] = tr[u]
    BY DEF Chunk, IndInv, TypeInv, Transfer
  <1>3. completed' = completed + 1 /\ starts' = starts /\ total' = total
    BY DEF Chunk, Reported
  <1>4. \A u \in Threads : SentInv(u)'
    BY <1>1, <1>2 DEF ProgressInv, SentInv
  <1>5. Started' = Started /\ (Untried' => Untried)
    BY <1>1, <1>2 DEF Started, Untried
  <1>6. PICK m : m = <<t, tr[t].sent + 1>>
    OBVIOUS
  <1>7. m \notin Moved /\ m \in Threads \X (1..Size)
    BY <1>1, <1>6, TransferFields, BoundsAssumption DEF Moved
  <1>8. Moved' = Moved \cup {m}
    <2>1. \A x \in Threads \X (1..Size) : x[1] # t => (x \in Moved' <=> x \in Moved \cup {m})
      BY <1>2, <1>6 DEF Moved
    <2>2. \A x \in Threads \X (1..Size) : x[1] = t => (x \in Moved' <=> x \in Moved \cup {m})
      <3>1. ASSUME NEW i \in 1..Size PROVE <<t, i>> \in Moved' <=> <<t, i>> \in Moved \cup {m}
        BY <1>1, <1>2, <1>6, TransferFields, BoundsAssumption DEF Moved
      <3>2. QED
        BY <3>1
    <2>3. Moved' \subseteq Threads \X (1..Size) /\ Moved \cup {m} \subseteq Threads \X (1..Size)
      BY <1>7 DEF Moved
    <2>4. QED
      BY <2>1, <2>2, <2>3
  <1>9. Cardinality(Moved') = Cardinality(Moved) + 1
    BY <1>7, <1>8, MovedIsFinite, FS_AddElement
  <1>10. QED
    BY <1>3, <1>4, <1>5, <1>9, MovedIsFinite, Counted DEF ProgressInv

LEMMA RequestCounts ==
  ASSUME IndInv, ProgressInv, NEW t \in Threads, Request(t)
  PROVE  ProgressInv'
  <1>1. tr[t] \in Transfer /\ tr[t].pc = "request" /\ SentInv(t)
    BY TransferFields DEF Request, ProgressInv
  <1>2. UNCHANGED <<starts, total, completed>>
    BY DEF Request
  <1>3. CASE tr[t].client \notin open
    <2> DEFINE r == [tr[t] EXCEPT !.pc = "failed"]
    <2>1. tr' = [tr EXCEPT ![t] = r]
      BY <1>3 DEF Request
    <2>2. r \in Transfer /\ r.pc = "failed" /\ r.sent = tr[t].sent /\ r.attempt = tr[t].attempt
      BY <1>1 DEF Transfer, Places
    <2> HIDE DEF r
    <2>3. SentInv(t)'
      BY <2>1, <2>2 DEF SentInv, IndInv, TypeInv
    <2>4. QED
      BY <1>1, <1>2, <2>1, <2>2, <2>3, QuietKeeps
  <1>4. CASE tr[t].client \in open
    <2> DEFINE from == Rewound(t)
               r == [tr[t] EXCEPT !.pc = "body", !.sent = 0, !.pos = from]
    <2>1. tr' = [tr EXCEPT ![t] = r]
      BY <1>4 DEF Request
    <2>2. from \in 0..Size
      BY TransferFields, BoundsAssumption DEF Rewound
    <2> HIDE DEF from
    <2>3. r \in Transfer /\ r.pc = "body" /\ r.sent = 0 /\ r.attempt = tr[t].attempt
      BY <1>1, <2>2, Bounds DEF Transfer, Places
    <2> HIDE DEF r
    <2>4. SentInv(t)'
      BY <2>1, <2>3 DEF SentInv, IndInv, TypeInv
    <2>5. r.attempt = 0 => r.sent = tr[t].sent
      BY <1>1, <2>3 DEF SentInv
    <2>6. QED
      BY <1>1, <1>2, <2>1, <2>3, <2>4, <2>5, QuietKeeps
  <1>5. QED
    BY <1>3, <1>4

(* The other steps of a thread.                                            *)
LEMMA OtherStepCounts ==
  ASSUME IndInv, ProgressInv, NEW t \in Threads,
         Http(t) \/ OpenFile(t) \/ Succeed(t) \/ Break(t) \/ Reject(t) \/ Resume(t)
  PROVE  ProgressInv'
  <1>1. /\ tr[t] \in Transfer /\ tr[t].pc # "idle" /\ SentInv(t) /\ TransferInv(t)
        /\ tr[t].sent \in 0..Size /\ tr[t].attempt \in 0..MaxRetries
    BY TransferFields DEF Http, OpenFile, Succeed, Sent, Break, Reject, Resume, ProgressInv
  <1>2. UNCHANGED <<starts, total, completed>>
    BY DEF Http, OpenFile, Succeed, Break, Reject, Resume
  <1>3. CASE Http(t)
    <2> DEFINE r == [tr[t] EXCEPT !.pc = "request", !.client = current']
    <2>1. tr' = [tr EXCEPT ![t] = r] /\ tr[t].pc = "client"
      BY <1>3 DEF Http
    <2>2. current' \in Nat
      BY <1>3 DEF Http, IndInv, TypeInv
    <2>3. r \in Transfer /\ r.pc = "request" /\ r.sent = tr[t].sent /\ r.attempt = tr[t].attempt
      BY <1>1, <2>2 DEF Transfer, Places
    <2> HIDE DEF r
    <2>4. SentInv(t)'
      BY <1>1, <2>1, <2>3 DEF SentInv, IndInv, TypeInv
    <2>5. QED
      BY <1>1, <1>2, <2>1, <2>3, <2>4, QuietKeeps
  <1>4. CASE OpenFile(t)
    <2> DEFINE r == [tr[t] EXCEPT !.target = 0, !.pc = "file"]
    <2>1. tr' = [tr EXCEPT ![t] = r]
      BY <1>4 DEF OpenFile
    <2>2. r \in Transfer /\ r.pc = "file" /\ r.sent = tr[t].sent /\ r.attempt = tr[t].attempt
      BY <1>1, Bounds DEF Transfer, Places
    <2> HIDE DEF r
    <2>3. SentInv(t)'
      BY <2>1, <2>2 DEF SentInv, IndInv, TypeInv
    <2>4. QED
      BY <1>1, <1>2, <2>1, <2>2, <2>3, QuietKeeps
  <1>5. CASE Succeed(t)
    <2> DEFINE goal == IF tr[t].kind = "download" THEN tr[t].target ELSE tr[t].sent
               r == [tr[t] EXCEPT !.pc = "done", !.target = goal]
    <2>1. tr' = [tr EXCEPT ![t] = r] /\ Sent(t) /\ goal \in 0..Size + 1
      BY <1>5, TransferFields, BoundsAssumption DEF Succeed
    <2> HIDE DEF goal
    <2>2. /\ r \in Transfer /\ r.pc = "done" /\ r.sent = tr[t].sent /\ r.attempt = tr[t].attempt
          /\ r.kind = tr[t].kind
      BY <1>1, <2>1 DEF Transfer, Places
    <2> HIDE DEF r
    <2>3. tr[t].kind # "pipe" => tr[t].sent = Size
      BY <1>1, <2>1 DEF Sent, TransferInv, MovedSoFar, Kinds
    <2>4. SentInv(t)'
      BY <2>1, <2>2, <2>3 DEF SentInv, IndInv, TypeInv
    <2>5. QED
      BY <1>1, <1>2, <2>1, <2>2, <2>4, QuietKeeps
  <1>6. CASE Break(t)
    <2>1. PICK kept \in {tr[t].target} \cup
                 (IF Sent(t) /\ tr[t].pc = "body" THEN {tr[t].sent} ELSE {}) :
            tr' = [tr EXCEPT ![t] = [@ EXCEPT !.target = kept, !.pc = Again(t)]]
      BY <1>6 DEF Break
    <2>2. PICK pc : pc = Again(t)
      OBVIOUS
    <2> DEFINE r == [tr[t] EXCEPT !.target = kept, !.pc = pc]
    <2>3. kept \in 0..Size + 1 /\ pc \in {"backoff", "failed"} /\ tr' = [tr EXCEPT ![t] = r]
      BY <2>1, <2>2, TransferFields, BoundsAssumption DEF Again
    <2>4. r \in Transfer /\ r.pc = pc /\ r.sent = tr[t].sent /\ r.attempt = tr[t].attempt
      BY <1>1, <2>3 DEF Transfer, Places
    <2> HIDE DEF r
    <2>5. SentInv(t)'
      BY <2>3, <2>4 DEF SentInv, IndInv, TypeInv
    <2>6. QED
      BY <1>1, <1>2, <2>3, <2>4, <2>5, QuietKeeps
  <1>7. CASE Reject(t)
    <2> DEFINE r == [tr[t] EXCEPT !.pc = "failed"]
    <2>1. tr' = [tr EXCEPT ![t] = r]
      BY <1>7 DEF Reject
    <2>2. r \in Transfer /\ r.pc = "failed" /\ r.sent = tr[t].sent /\ r.attempt = tr[t].attempt
      BY <1>1 DEF Transfer, Places
    <2> HIDE DEF r
    <2>3. SentInv(t)'
      BY <2>1, <2>2 DEF SentInv, IndInv, TypeInv
    <2>4. QED
      BY <1>1, <1>2, <2>1, <2>2, <2>3, QuietKeeps
  <1>8. CASE Resume(t)
    <2> DEFINE r == [tr[t] EXCEPT !.pc = "request", !.attempt = tr[t].attempt + 1]
    <2>1. tr' = [tr EXCEPT ![t] = r]
      BY <1>8 DEF Resume
    <2>2. tr[t].attempt + 1 \in 0..MaxRetries /\ tr[t].attempt + 1 # 0
      BY <1>1, <1>8, BoundsAssumption DEF Resume, TransferInv, AttemptLeft
    <2>3. r \in Transfer /\ r.pc = "request" /\ r.sent = tr[t].sent /\ r.attempt # 0
      BY <1>1, <2>2 DEF Transfer, Places
    <2> HIDE DEF r
    <2>4. SentInv(t)'
      BY <2>1, <2>3 DEF SentInv, IndInv, TypeInv
    <2>5. QED
      BY <1>1, <1>2, <2>1, <2>3, <2>4, QuietKeeps
  <1>9. QED
    BY <1>3, <1>4, <1>5, <1>6, <1>7, <1>8

LEMMA StepProgress == IndInv /\ ProgressInv /\ [Next]_vars => ProgressInv'
  <1> SUFFICES ASSUME IndInv, ProgressInv, [Next]_vars PROVE ProgressInv'
    OBVIOUS
  <1>1. ASSUME NEW t \in Threads, NEW kind \in Kinds, Start(t, kind) PROVE ProgressInv'
    BY <1>1, StartCounts
  <1>2. ASSUME NEW t \in Threads, Chunk(t) \/ Request(t) PROVE ProgressInv'
    BY <1>2, ChunkCounts, RequestCounts
  <1>3. ASSUME NEW t \in Threads,
               Http(t) \/ OpenFile(t) \/ Succeed(t) \/ Break(t) \/ Reject(t) \/ Resume(t)
        PROVE  ProgressInv'
    BY <1>3, OtherStepCounts
  <1>4. CASE Close \/ CloseEnds \/ UNCHANGED vars
    <2>1. UNCHANGED <<tr, starts, total, completed>>
      BY <1>4 DEF Close, CloseEnds, vars
    <2>2. QED
      BY <2>1 DEF ProgressInv, SentInv, Started, Moved, Untried
  <1>5. QED
    BY <1>1, <1>2, <1>3, <1>4 DEF Next, Finished

LEMMA ProgressInvariance == Spec => []ProgressInv
  BY InitProgress, StepProgress, Invariance, InitInd, PTL DEF Spec

-----------------------------------------------------------------------------
(* Counters of clients, chunks and attempts stay within their bounds.      *)
THEOREM TypeCorrect == Spec => []TypeOK
  <1>1. IndInv => TypeOK
    BY DEF IndInv, TypeInv, PoolInv, TypeOK, Transfer
  <1>2. QED
    BY <1>1, Invariance, PTL

(* Whatever broke off before, and whoever closed the transport meanwhile:  *)
(* an upload or a download that returns has moved all of its body.         *)
THEOREM TransfersAreWhole == Spec => []SuccessIsWhole
  <1>1. IndInv => SuccessIsWhole
    BY DEF IndInv, TransferInv, WholeWhenDone, SuccessIsWhole
  <1>2. QED
    BY <1>1, Invariance, PTL

(* The transport never leaves a client open that close() cannot reach, and *)
(* never hands out a closed one, unless an aclose was cancelled.           *)
THEOREM ClientsAreReachable == Spec => []OneOpenClient
  <1>1. IndInv => OneOpenClient
    BY DEF IndInv, PoolInv, OneOpenClient
  <1>2. QED
    BY <1>1, Invariance, PTL

(* When as many transfers as there are threads have been started, and all  *)
(* have succeeded, the bytes reported are at least the total; and exactly  *)
(* the total if no attempt was repeated.                                   *)
THEOREM ProgressIsCovered == Spec => []ProgressCovers
  <1>1. ASSUME ProgressInv, starts = Cardinality(Threads),
               \A t \in Threads : tr[t].pc = "done" /\ tr[t].kind # "pipe"
        PROVE  completed >= total /\ (Untried => completed = total)
    <2>1. Started = Threads
      BY <1>1 DEF Started
    <2>2. Moved = Threads \X (1..Size)
      BY <1>1, BoundsAssumption DEF Moved, ProgressInv, SentInv
    <2>3. Cardinality(Moved) = total
      BY <1>1, <2>2, MovedIsFinite DEF ProgressInv
    <2>4. QED
      BY <1>1, <2>1, <2>3 DEF ProgressInv
  <1>2. ProgressInv => ProgressCovers
    BY <1>1 DEF ProgressCovers, Untried
  <1>3. QED
    BY <1>2, ProgressInvariance, PTL
=============================================================================
