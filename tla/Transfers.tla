------------------------------ MODULE Transfers ------------------------------
(***************************************************************************)
(* so.upload and so.download of the two Python clients: threads (or        *)
(* asyncio tasks) that share one transport move bodies chunk by chunk.     *)
(* The transport creates its HTTP client when it is first needed and drops *)
(* it in close(), while other threads may be between two attempts.  An     *)
(* attempt can break off anywhere and is repeated from the beginning, if   *)
(* the body can be rewound.                                                *)
(***************************************************************************)
EXTENDS Naturals, FiniteSets

CONSTANTS
  Threads,
  Size,          \* chunks in a body
  MaxRetries,    \* MAX_RETRIES (2 in the code)
  MaxTransfers,  \* how many transfers are started
  MaxCloses      \* how often the program closes the transport

ASSUME ThreadsAssumption == IsFiniteSet(Threads)
ASSUME BoundsAssumption ==
  Size \in Nat \ {0} /\ MaxRetries \in Nat /\ MaxTransfers \in Nat /\ MaxCloses \in Nat

VARIABLES
  mode,       \* "sync" or "aio"
  tr,         \* tr[t]: the transfer of thread t
  current,    \* _http_client: the number of a client, or 0
  made,       \* clients created so far
  open,       \* those that have not been closed
  closing,    \* aclose is suspended inside the lock
  cut,        \* history: an aclose was cancelled at that point
  starts, closes,
  total,      \* TransferState.total_bytes
  completed   \* TransferState._completed_bytes

pool == <<current, made, open, closing, cut, closes>>
vars == <<mode, tr, pool, starts, total, completed>>

(* What moves: an upload from bytes or a file, which can be rewound; an    *)
(* upload from a pipe, which cannot; a download.                           *)
Kinds == {"upload", "pipe", "download"}

(* pos: chunks read from the body so far; sent: chunks this attempt has    *)
(* moved; target: chunks in the object or the file, Size + 1 if untouched. *)
Idle == [pc |-> "idle", kind |-> "none", client |-> 0, attempt |-> 0, pos |-> 0, sent |-> 0,
         target |-> Size + 1]

Busy(t) == tr[t].pc \notin {"idle", "done", "failed"}

-----------------------------------------------------------------------------
Init ==
  /\ mode \in {"sync", "aio"}
  /\ tr = [t \in Threads |-> Idle]
  /\ current = 0 /\ made = 0 /\ open = {} /\ closing = FALSE /\ cut = FALSE
  /\ starts = 0 /\ closes = 0
  /\ total = 0 /\ completed = 0

(* upload or download is called; the program has added the body to the     *)
(* total of its TransferState.                                             *)
Start(t, kind) ==
  /\ ~Busy(t)
  /\ starts < MaxTransfers
  /\ starts' = starts + 1
  /\ tr' = [tr EXCEPT ![t] = [Idle EXCEPT !.pc = "client", !.kind = kind]]
  /\ total' = total + Size
  /\ UNCHANGED <<mode, pool, completed>>

(* A client has to be created.                                             *)
NeedsClient == current = 0

(* _http, under the lock.  The call keeps this client for all attempts.    *)
Http(t) ==
  /\ tr[t].pc = "client" /\ ~closing
  /\ IF NeedsClient
     THEN current' = made + 1 /\ made' = made + 1 /\ open' = open \cup {made + 1}
     ELSE UNCHANGED <<current, made, open>>
  /\ tr' = [tr EXCEPT ![t] = [@ EXCEPT !.pc = "request", !.client = current']]
  /\ UNCHANGED <<mode, closing, cut, closes, starts, total, completed>>

(***************************************************************************)
(* An attempt.                                                             *)
(***************************************************************************)
(* Mutated form: the body is sent on from where the last attempt stopped.  *)
NotRewound(t) == tr[t].pos

(* Where the attempt reads the body from.                                  *)
Rewound(t) == IF tr[t].kind = "pipe" THEN tr[t].pos ELSE 0

(* A closed client raises at once.  Otherwise the body is read from its    *)
(* beginning where that is possible.                                       *)
Request(t) ==
  /\ tr[t].pc = "request"
  /\ tr' = [tr EXCEPT ![t] =
       IF @.client \notin open THEN [@ EXCEPT !.pc = "failed"]
       ELSE [@ EXCEPT !.pc = "body", !.sent = 0, !.pos = Rewound(t)]]
  /\ UNCHANGED <<mode, pool, starts, total, completed>>

(* The answer to a download has begun: the file is cut and filled anew.    *)
OpenFile(t) ==
  /\ tr[t].pc = "body" /\ tr[t].kind = "download" /\ tr[t].sent = 0
  /\ tr' = [tr EXCEPT ![t] = [@ EXCEPT !.target = 0, !.pc = "file"]]
  /\ UNCHANGED <<mode, pool, starts, total, completed>>

(* Mutated form: a repeated attempt does not report.                       *)
ReportedOnce(t) == IF tr[t].attempt = 0 THEN 1 ELSE 0

(* The chunks reported for one that is read or received.                   *)
Reported(t) == 1

(* A chunk is read and sent, or received and written, and reported.        *)
Chunk(t) ==
  /\ \/ tr[t].pc = "body" /\ tr[t].kind # "download" /\ tr[t].pos < Size
     \/ tr[t].pc = "file" /\ tr[t].sent < Size
  /\ tr' = [tr EXCEPT ![t] = [@ EXCEPT !.sent = tr[t].sent + 1, !.pos = tr[t].pos + 1,
                 !.target = tr[t].target + (IF tr[t].kind = "download" THEN 1 ELSE 0)]]
  /\ completed' = completed + Reported(t)
  /\ UNCHANGED <<mode, pool, starts, total>>

(* All of the body is through.  An upload is stored as it was sent.        *)
Sent(t) ==
  IF tr[t].kind = "download" THEN tr[t].pc = "file" /\ tr[t].sent = Size
  ELSE tr[t].pc = "body" /\ tr[t].pos = Size

Succeed(t) ==
  /\ Sent(t)
  /\ tr' = [tr EXCEPT ![t] = [@ EXCEPT !.pc = "done",
                 !.target = IF tr[t].kind = "download" THEN tr[t].target ELSE tr[t].sent]]
  /\ UNCHANGED <<mode, pool, starts, total, completed>>

(* Mutated form: the loop is not bounded.                                  *)
AlwaysAgain(t) == "backoff"

Again(t) == IF tr[t].attempt < MaxRetries THEN "backoff" ELSE "failed"

(* The connection breaks, or the answer is one of RETRY_STATUS: an upload  *)
(* that was sent may yet be stored.                                        *)
Break(t) ==
  /\ tr[t].pc \in {"body", "file"}
  /\ \E kept \in {tr[t].target} \cup (IF Sent(t) /\ tr[t].pc = "body" THEN {tr[t].sent} ELSE {}) :
       tr' = [tr EXCEPT ![t] = [@ EXCEPT !.target = kept, !.pc = Again(t)]]
  /\ UNCHANGED <<mode, pool, starts, total, completed>>

(* Any other status is raised to the caller.                               *)
Reject(t) ==
  /\ tr[t].pc = "body"
  /\ tr' = [tr EXCEPT ![t] = [@ EXCEPT !.pc = "failed"]]
  /\ UNCHANGED <<mode, pool, starts, total, completed>>

(* The sleep ends; the loop goes on with the client it has.                *)
Resume(t) ==
  /\ tr[t].pc = "backoff"
  /\ tr' = [tr EXCEPT ![t] = [@ EXCEPT !.pc = "request", !.attempt = tr[t].attempt + 1]]
  /\ UNCHANGED <<mode, pool, starts, total, completed>>

(***************************************************************************)
(* The transport is closed.  close() does it in one step for the others,   *)
(* who wait for the lock; aclose() awaits the closing of the connections   *)
(* and may be cancelled there.                                             *)
(***************************************************************************)
(* Mutated form: the attribute keeps the closed client.                    *)
KeptClient == current

ClientAfterClose == IF mode = "sync" THEN 0 ELSE current

Close ==
  /\ ~closing /\ closes < MaxCloses
  /\ closes' = closes + 1
  /\ open' = open \ {current}
  /\ closing' = (mode = "aio" /\ current # 0)
  /\ current' = ClientAfterClose
  /\ UNCHANGED <<mode, tr, made, cut, starts, total, completed>>

CloseEnds ==
  /\ closing
  /\ closing' = FALSE
  /\ \/ current' = 0 /\ UNCHANGED cut
     \/ cut' = TRUE /\ UNCHANGED current
  /\ UNCHANGED <<mode, tr, made, open, closes, starts, total, completed>>

Finished ==
  /\ \A t \in Threads : ~Busy(t)
  /\ starts = MaxTransfers /\ closes = MaxCloses /\ ~closing
  /\ UNCHANGED vars

Next ==
  \/ \E t \in Threads :
       \/ \E kind \in Kinds : Start(t, kind)
       \/ Http(t) \/ Request(t) \/ OpenFile(t) \/ Chunk(t)
       \/ Succeed(t) \/ Break(t) \/ Reject(t) \/ Resume(t)
  \/ Close
  \/ CloseEnds
  \/ Finished

Spec == Init /\ [][Next]_vars

-----------------------------------------------------------------------------
TypeOK ==
  /\ current \in 0..made
  /\ open \subseteq 1..made
  /\ \A t \in Threads :
       /\ tr[t].attempt \in 0..MaxRetries
       /\ tr[t].pos \in 0..Size /\ tr[t].sent \in 0..Size /\ tr[t].target \in 0..Size + 1
       /\ tr[t].client \in 0..made
  /\ closing => mode = "aio"

(* A transfer that returns has moved all of it, however many attempts      *)
(* broke off before: the object is the body, the file is the object        *)
(* (services.py SoAPI.upload, download; transport.py                       *)
(* data_plane_download_to_file).  Pipes are left to PipeUploadedWhole.     *)
SuccessIsWhole ==
  \A t \in Threads : tr[t].pc = "done" /\ tr[t].kind # "pipe" => tr[t].target = Size

(* "Upload an object from a local path or in-memory body ... ``body``      *)
(* (bytes / binary stream)" (services.py:358), retried under the same key  *)
(* (js/PARITY.md:33): also a pipe arrives whole, or the call fails.        *)
PipeUploadedWhole ==
  \A t \in Threads : tr[t].pc = "done" /\ tr[t].kind = "pipe" => tr[t].target = Size

(* Progress never ends short of the total: when every transfer that was    *)
(* started has succeeded, the bytes reported add up to the total at least. *)
(* They exceed it if attempts were repeated (progress_reader.py).          *)
ProgressCovers ==
  (/\ \A t \in Threads : tr[t].pc = "done" /\ tr[t].kind # "pipe"
   /\ starts = Cardinality(Threads))
  => /\ completed >= total
     /\ (\A t \in Threads : tr[t].attempt = 0) => completed = total

(* No client is left open behind the back of the transport, and a call     *)
(* that begins after a close gets an open one, whatever threads were doing *)
(* meanwhile; the exception is an aclose that was cancelled.               *)
OneOpenClient ==
  /\ open \subseteq {current}
  /\ ~closing /\ ~cut => current \in open \cup {0}

=============================================================================
