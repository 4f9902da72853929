# TLA+ models of the HomeCloud SDKs

HomeCloud ships one client library in five forms: synchronous and asyncio
Python (`homecloud_core`, `homecloud_sdk`), Go (`go/`), Java (`java/`) and Node
(`js/`).  They talk to the same service, follow the same rules as far as
`js/PARITY.md` and the READMEs say so, and share files in `~/.homecloud`.  This
directory holds specifications of the parts of them in which order, failure and
concurrency matter, the TLC runs that check those specifications on small
instances, and proofs, checked by TLAPS, for instances of any size.

Paths below are relative to the repository's root.  `PROJECT.json` names, for
every definition, the lines it models.

## 1. Inventory

| Component | State it keeps | Operations | What is hard | What makes it correct |
|---|---|---|---|---|
| **Request loops** (`transport.py`, `async_transport.py`, `go/transport.go`, `Transport.java`, `client.js`) | the attempt, the last error; the policy of the request | send, wait, time out, decide, back off, resume, cancel | an answer is lost after the server acted; an abandoned attempt acts late; five policies that are meant to agree | no duplicate of a once-only call, no false success, a refusal is final, transient faults are masked, every call with a timer returns |
| **Storage sync** (`services.py` `SoAPI.sync`, `async_services.py`, `so_parallel.py`, `so_paths.py`, `go/so.go`, `So.java`, `so.js`) | the two listings, the plan, the worker pool, its errors | list, plan, transfer, delete, give up | partial failure, truncated files, stale or truncated listings, prefixes matched as texts, another writer, single-object prefixes | a run that returns leaves a mirror of what it found; nothing is lost before that has arrived; nothing but the destination is written |
| **Session file** (`session.py`, `account.py`, `context.py`, `go/client.go`, `go/credentials.go`, `CredentialsStore.java`, `HomeCloud.java`, `credentials.js`, `client.js`) | tokens and active account per profile, in one file; what each client keeps of it | open, log in, import, resolve the account, switch, (load, truncate, write), exit | unlocked read-change-rewrite by programs of several SDKs; death between truncation and write; stale snapshots | tokens stay under their profile, logins are not lost, a damaged file is not overwritten, a switch lasts |
| Credentials file (`config.py`, `CredentialsStore.java`, `go/credentials.go`) | access keys per profile, the default profile | load, upsert, migrate | the same, and Go and Java start from nothing when a read fails | profiles are not lost |
| **Shared HTTP client** (`Transport._http`, `close`, `aclose`, Go `httpClient`) | one pooled client, created lazily | get, close | a close during another thread's retries, an `aclose` that is cancelled half-way, an unlocked lazy creation | a call that begins has an open client; none is left open out of reach of `close` |
| **Message queues** (`services.py` `MqAPI`, `mq_helpers.py`, `go/mq*.go`, `Mq*.java`, `mq.js`) | none; the sequences the program was handed | send, batch, receive, ack, purge, and the same on the DLQ | answers lost after messages were taken; late acks and purges; ids of batch entries | a sent message is somewhere; an ack removes only what was handed out; a purge removes nothing sent later |
| **Object operations** (`SoAPI` `upload`, `download`, `copy`, `move`, `delete`, `list_all_objects`, `delete_recursive`) | position in a body; page and continuation token; what is still to be deleted | one or several requests each | broken bodies, partial failure, two paging schemes in one loop, late requests | what is transferred is whole; a moved object is never in neither place; a listing is complete |
| **Browser login** (`context.py` 200-250, `async_context.py`) | session id, deadline, the token and its copies | start, poll, sleep, finish | a service that never decides, slow polls, failure at any request | it ends |
| **MFA** (`mfa.py`, the transports) | a resolver with a one-time code | challenge, obtain, answer | login, account selection and any later request may be challenged | a code answers one challenge, and goes in the body of one login |
| **Secrets** (`services.py` `SecretsAPI`, `secret_formats.py`) | none | create then put; put, get, as a map or a document | partial failure, repetition, another creator; two codecs with their own quoting | a create's values go only into the secret it made; a document of values that the codec gives back reads back as what was written |
| **Transfer progress** (`transfer_state.py`, `progress_reader.py`) | byte counters, status | begin, bytes, complete | a repeated attempt reads and counts again | completed reaches the total, and is the total without repetitions |
| Event streams (`console_sse_events`) | the lines of an event | read a line | end of stream, malformed events | no event lost or split |
| Signing, errors, endpoints, environment, management facades, client objects | none, or immutable | pure functions; one request each | none over time | covered by the repository's tests |

How they interact: every API call goes through a request loop; storage sync
issues many such calls from a pool of workers; the account a request is signed
for comes from the session file, and so does the console token; MFA and browser
login end in an update of the session file; the credentials file supplies the
key.  Programs do not talk to each other except through the two files and the
service.

Behaviours that are hard to test are listed in `PROJECT.json` under `hazards`,
each at its line, with the properties that would catch it going wrong.

## 2. Modules

| Module | What it is |
|---|---|
| `RemoteCall` | abstract specification: what one call promises its caller |
| `RequestRetry` | the request loops of all five SDKs, against a server that may act and not say so |
| `RequestRetryProofs` | inductive invariant of `RequestRetry`, its properties, and that it implements `RemoteCall` |
| `SoSync` | `so.sync` in all directions and all five SDKs, with another writer |
| `MCSoSync` | the scenarios TLC runs `SoSync` on |
| `SoSyncProofs` | inductive invariant of `SoSync` and its properties |
| `SessionFile` | the session file and its clients, one file operation at a time |
| `MCSessionFile` | the symmetry of the small instance |
| `SessionFileProofs` | inductive invariant of `SessionFile` and its properties |
| `Mailbox` | abstract specification: what a program may rely on when it uses a queue and its DLQ |
| `MqDelivery` | a queue and its DLQ as a program sees them through the request loops |
| `MCMqDelivery` | the batches and first messages TLC runs `MqDelivery` on |
| `MqDeliveryProofs` | inductive invariant of `MqDelivery`, its properties, and that it implements `Mailbox` |
| `Transfers` | upload and download chunk by chunk over one shared HTTP client, with progress |
| `TransfersProofs` | inductive invariant of `Transfers` and its properties |
| `ObjectMoves` | the storage operations of several requests: move, full listing, recursive deletion |
| `ObjectMovesProofs` | inductive invariants of `ObjectMoves`: moves, listings, recursive deletion |
| `ConsoleLogin` | login, browser login, MFA, account selection and the console facades |
| `ConsoleLoginProofs` | inductive invariant of `ConsoleLogin`, and that codes are used once |
| `Secrets` | `client.secrets` with its two codecs, several programs, one secret |
| `MCSecrets` | values the codecs could confuse |
| `SecretsProofs` | inductive invariants of `Secrets`: whose values a secret gets, and that the codecs give back what they wrote |

The definitions marked "Mutated form" are not part of any specification: each
is a plausible mistake in the code, and the property listed with it in
`PROJECT.json` fails when it takes the place of the definition it follows.

### 2.1 RequestRetry and RemoteCall

State per call: the kind of request (`op`), where the loop is (`phase`), the
loop variable (`attempt`), the outcome last seen (`reply`), whether the call's
deadline has passed (`expired`); and, on the other side, the attempts that are
on the wire and those that took effect.  The SDK is chosen once, in `Init`.

| Action | Code |
|---|---|
| `Begin` | the API method signs and sends (`data_plane_request` and ports) |
| `Serve` | external: the service deals with an attempt, abandoned or not, and answers, or the answer is lost or torn |
| `Strand` | external: the client is told that the attempt failed (a gateway gives up, the connection breaks) while it is still on its way to the service |
| `TimeOut` | the timer of the attempt (httpx, Java) or of the call (Go's context, Node's `AbortSignal`) |
| `PyHandle`, `AioHandle`, `GoHandle`, `JavaHandle`, `NodeHandle` | one turn of the loop's decision in each SDK: `PyRetries` and its ports state which outcome calls for another attempt, `Decide` compares the loop variable with the limit |
| `Resume` | the back-off ends and the next attempt is sent |
| `Cancel` | the caller gives up while the loop sleeps or waits |

Headers, bodies, error texts and the length of a sleep are left out.  A call
that needs several requests (move, create with values, an MFA challenge) is
several calls here and one operation in `ObjectMoves`, `Secrets` and
`ConsoleLogin`.  That the service executes a request with an `Idempotency-Key` once is
an assumption of the model (`Deduplicated`): the SDKs only send the key.
The modules below build on this one without extending it: each has the part of
it that its operations meet, "an attempt is repeated while some are left, and
one the client gave up on may be executed late", and cites it where it does.

`RemoteCall` keeps of all this what the caller may rely on: success implies an
effect; a once-only call has at most one; a once-only call that was refused has
none, now or later.  The refinement mapping is `Abstract`, at the end of
`RequestRetry`; effects are the same in both.

### 2.2 SoSync

`store` holds the content of every path in every place.  A path is a text, given
as the sequence of its pieces, of which `/` is one, and a prefix is a text too:
every SDK strips the slashes of a prefix and sends it as it is
(`services.py:882`, `go/so.go:441`, `so.js:391`, `So.java:341`), and the service
answers a request for `d` with `d/a` and with `dx/a`.  `Continues` is the
service's notion, `Below` the one of `sync_relative_local_path`.  `Listings` are
the answers a run may get: a complete one; in Node also a first page, because
`listAllObjects` looks at `data.pages` only (`so.js:85-97`) where Python says
"SO returns `pages: null`" (`services.py:643`); in Python and Go also one
without what is in a directory that cannot be read.  `missed` remembers the
sides of which a run has overlooked something.  `srcSeen` and `dstSeen` are the two listings, `todo`, `active` and
`doomed` the plan and its progress, `failed` the errors the pool has collected.
One action per step of the run: `Begin`, `Scan` for each side, `Plan`,
`StartTransfer` and `EndTransfer` per worker, `GiveUp`, `BeginDelete`,
`DeleteOne`, `End`; `ScanFails`, `LateWalkFails`, `Interrupt` and `Cancel` for what
cuts a run short; and `Foreign`, another program.  `Cancel` is the cancellation of an asyncio
run: tasks that wait for the semaphore are dropped, those at work swallow
`CancelledError` as an error of their transfer, and the run raises.  The SDKs differ in ways the properties can tell
apart, and the model keeps the differences: who walks the directory when
(`LateWalk`, `Earlier`), which sizes are compared (`SourceSize`,
`TargetSizes`), what counts as extra (`Extra`), whether the first error ends
the run (`StopsAtError`), who looks up a single object (`Looked`), who writes
downloads piecemeal (`EndTransfer`), who stops at a deletion that fails
(`DeletionsStop`) and who does not look (Go, `go/so.go:510`, in `DeleteOne`).

Contents are values with a size: `x` and `y` differ and are equally long, `z`
has another length, `part` is the beginning of any of them.  That is all that
skip-by-size can see.  Each transfer or deletion is one request that succeeds,
fails, or takes effect and is reported as failed; its retries are
`RequestRetry`'s concern.

### 2.3 SessionFile

`file` is the file; `cl[c]` is what client `c` holds (token, account, the entry
it was constructed with) and where it is in an update.  An update is the
sequence the code performs: `Load` (read the file), `Truncate` (open it for
writing), `Write` (write the text).  `Open` is the constructor; `LogIn`,
`Import`, `Resolve` and `Switch` are the operations that start an update;
`Reload` is what Python does after a login, which may start another; `Exit`
ends a program, in the middle of an update or not.  `Merged` states how each
SDK changes the entry, `Reads` and `Contents` what each makes of a file it
cannot parse.

### 2.4 MqDelivery

`calls` is the sequence of calls the program has made, each with its status,
whether an attempt is current (`cur`), how many abandoned ones are on their way
(`old`) and how many repetitions are `left`.  `queue` and `counter` are the
service's: messages with a sequence per stream, in flight or not, as
`services.py` uses them (external).  `Send`, `Receive`, `Delete` and `Purge`
are the methods of `MqAPI` with their DLQ variants (`q`), `Repeats` is the
policy of each SDK for each of them (`go/transport.go`, `Transport.java`,
`js/PARITY.md:31-32`).  `Serve` is what the service does with an attempt, current
or given up; `Strand` leaves one on its way, because the client's timer has
fired, its connection broke, or a gateway answered 502 or 504 for a service that
may still execute it.
`GoodBatch` is `build_mq_batch_entries`.  `handed`, `removed` and `later` record
what the program was given, what each call took away, and what was sent after a
purge had returned.

`Mailbox` leaves out the SDK, the attempts and their number.  It keeps the copies
that are stored (`Stored` forgets who is in flight), the last sequence of each
stream (`counter`), the copies handed to the program (`handed`), the messages
whose send has returned (`Promised`), and what the program has asked for that may
still be executed (`Pending`).  Whatever happens to a copy needs such a request:
`Acknowledge` takes the copy that a pending ack names and that was handed out,
`Take` one copy of a stream that a receive with `delete=True` is under way on,
`Purge` a stream that is being purged, `Hand` gives out a copy while a plain
receive is pending and removes nothing, `Store` stores what a pending send
carries.  Only `Redirect`, the service's own move to the DLQ, needs none, and it
knows where the DLQ is (`DeadLetters`).  A lost answer is no step of it; a
repeated or late request is the step a first one would be, or none.

### 2.5 Transfers

`tr[t]` is the transfer of a thread or task: where it is (`pc`), the HTTP client
it took before its first attempt and keeps, the position in the body, what this
attempt has moved, what the object or file holds.  `current`, `made`, `open` and
`closing` are `Transport._http_client`, the clients ever created, those still
open, and `aclose` suspended inside its lock.  `Http` is the lazy creation,
`Request`, `OpenFile`, `Chunk`, `Succeed`, `Break`, `Reject` and `Resume` one
attempt of `_request` or `data_plane_download_to_file` and what follows it,
`Close` and `CloseEnds` the closing.  `Rewound` states which bodies httpx can
rewind; `total` and `completed` are `TransferState`'s.

### 2.6 ObjectMoves

`op` is the operation under way: the requests it still has to make (`Steps`),
the attempts left for the first of them, the page and token of a listing, what
it has listed, what it still has to erase.  `store` is the bucket; a key's
object is named after the key it began under, so that the model can tell where
it went.  `Answered`, `Refused`, `Unanswered` and `Late` are the fates of a
copy, head or delete request; `ListPage` with `NextPage` is one turn of the loop
in `list_all_objects`, `Reply` the two ways in which the service pages
(external); `EraseOne` and `EraseEnds` are the workers of `delete_recursive`.

### 2.7 ConsoleLogin

The client's variables are those of the two Python contexts and transports:
the resolver and its code, the token, the profile's entry in the session file
(`stored`) and the copy of it in memory (`entry`), the resolved account.  `op.at`
is where the running operation is: `LoginAnswered`, `SelectAccount`;
`StartBrowser`, `Poll`, `Sleep`, `TimeOut`; `SwitchAccount`; `ResolveAccount` and
`CallAnswered` for a facade's method.  `Challenge`, `ObtainCode` and `AnswerSent`
take over
whenever a request is answered with `MFA_REQUIRED`: a login, the start of a
browser login (`context.py:212`, which does not pass `_skip_mfa`, unlike its
polls), the list of accounts after a login or for a switch, a facade's call.
`answered` records what each code was sent for: a challenge, or the body of the
login it was given to (`context.py:186`, in `BeginLogin`).  `Cancel` ends any of them.
Time is what is left until the browser login's deadline, in units of its
interval.  The four kinds of facade are the four ways in which methods choose
their credential.

### 2.8 Secrets

`secret` is the secret at the service with the number of the call that made it;
`op[p]` is the operation of each program: `BeginCreate` (POST, then PUT),
`BeginPut`, and `BeginEdit`, which reads a document (`Get`) and puts it back
(`PutBack`, `Answered`).  `Serialized`, `ParsedLine` and what they use are the
env and YAML codecs of `secret_formats.py`, translated character by character.
The alphabet (`Chars`) has one character for each kind that the codecs treat
alike: letters (those that follow a backslash in an escape of their own),
backslash, both quotes, `#`, what YAML quotes for, `~`, a blank, other white
space, line feed, return, tab, a form feed (with `\x0b`, `\x1c`-`\x1e`, `\x85`,
`\u2028` and `\u2029`, at which `splitlines()` cuts), NUL (the placeholder of the
env reader and the YAML one), and what is not ASCII.  `Survives` says which values
a codec gives back; the others are in section 4.

## 3. Runs

| Run | Instance | Shows |
|---|---|---|
| `request_retry` | 1 call, `MaxRetries = 2` | `NoDuplicateEffect`, `RefusalIsFinal`, `TransientFaultsMasked`, `EveryCallReturns`, and that the loops implement `RemoteCall`, where a call succeeds only after its effect |
| `so_sync` | `MCScenarios`: 6 jobs x 2 contents, one of them with neighbours of the prefixes, 2 workers, pages of 1, 2 runs, 1 foreign change | `MirrorOnSuccess`, `LossOnlyAfterMirror`, `OnlyDestinationChanges`, `ArrivalsSurvive`, `RunEnds` |
| `so_sync_single` | `MCSingleObject`: a download by an object's own key, with delete | a violation of `DownloadedFilesStay` (finding 1) |
| `session_file` | 2 clients, profiles, accounts and tokens, 2 constructions, 3 updates | `TokensBelong`, `LoginsSurvive`, `DamageStays` |
| `session_account_of_key` | the same | a violation of `AccountOfKey` (finding 2) |
| `session_switch_sticks` | the same | a violation of `SwitchSticks` (finding 3) |
| `mq_delivery` | 3 calls, 1 under way at once, `BatchMax = 2`, 1 repetition, 1 message given up by the service | `NothingLost`, `AckRemovesOnlyHandled`, `PurgeSparesLater`, and that the streams implement `Mailbox` |
| `transfers` | 2 threads, 3 transfers of 2 chunks, 1 repetition, 2 closes | `SuccessIsWhole`, `ProgressCovers`, `OneOpenClient` |
| `transfers_pipe` | 1 thread, 1 transfer, 2 repetitions | a violation of `PipeUploadedWhole` (finding 4) |
| `object_moves` | 3 keys, pages of 1, 2 operations, 1 repetition, 1 foreign change, 1 late request at a time | `MoveKeepsObject`, `ListComplete`, `WipeClears` |
| `console_login` | 3 operations, 3 codes, a deadline of 3 intervals, sleeps and polls of up to 2 | `CodeOnce`, `LoginEnds` |
| `secrets` | 2 programs, 2 operations, 2 keys, 10 maps, 1 repetition, 1 late request at a time | `CreateOwns`, `ReadBack` |

Each passing run checks its module's `TypeOK` too, and deadlock: `Finished`,
`Stopped` and `Silent` are the only states in which nothing happens.

**Bounds, and why they are enough.**

- *Request loops.*  Calls share nothing but the choice of SDK, so one call
  shows what any number does; `MaxRetries = 2` is the value in the code
  (`http_helpers.py`, `go/transport.go`, `Env.MAX_RETRIES`; Node writes `< 3`).
  The proofs lift both bounds.
- *Sync.*  Two objects let one transfer fail while the other is under way, and
  let one exist on one side only; two workers let them overlap; two runs let
  the second start from what a failed first one left; one foreign change is
  enough to invalidate a listing, and properties about undisturbed runs say so.
  Each bucket prefix has a neighbour that continues its text (`dx/a`, `ex/a`) in one
  of the two contents, and pages of one object cut a Node listing short.
  The jobs include a copy inside a bucket, a copy to the bucket's root, a copy
  of a prefix onto itself, and a bystander object with the name of a synced one
  outside of every prefix.  All jobs but one have `delete` on, since `delete`
  only adds steps.
- *Session file.*  Two clients are needed for an overlap and two profiles for
  a token to go astray; three updates let one be lost between two others.
  Constructions are bounded because a restarted program is a new client; the
  proofs lift all bounds.  Clients, accounts and tokens are symmetric: no
  definition names one or orders them, and the properties are invariants and a
  step property, for which symmetry is sound.  Profiles are not declared
  symmetric, because a mutated form chooses one.
- *Queues.*  Three calls are a send, a receive and an ack, or a purge before a
  send and a receive after it; the streams begin with a message each, of the same
  sequence, so that queue and DLQ can be confused at once.  What is sent is a
  batch of two, of which a single message would be a part.  A call that has
  returned can still have an attempt on its way while the next one is made,
  which is the overlap that matters; more calls under way at once add sizes, not
  cases.
  `BatchMax` is 10 in the code and 2 here, with a batch of 3 that is too long.
- *Transfers.*  Two chunks have a beginning, a middle and an end to break off
  at; two threads and two closes let one thread hold a client that a close has
  dropped while the other creates the next one.  The violation needs no more
  than one thread and one transfer.
- *Moves.*  Three keys and pages of one make three pages, so that one is
  neither first nor last; two operations let a request of the first arrive
  during the second; one foreign change can fall between any two pages.
- *Login.*  Three operations are a login, one that is challenged and one that
  comes after; the deadline is reached in one sleep, in several, and exactly.
- *Secrets.*  Two creates that meet, or a create and an edit; one request held
  up.  The maps hold values that the codecs could confuse
  (empty, an empty quoted text, a backslash before `n`, backslashes around a line
  feed, quotes with a return) and values that one of them or both lose (a form
  feed, a tab, a NUL, an accent), so that `Survives` decides both ways for each
  codec.  The proof speaks of all values.

**Fairness.**  `RequestRetry` assumes of the *client* that the timers it has fire,
its sleeps end, and it looks at what it got.  Which calls have a timer for the
whole of an attempt is `HasTimeout`, and `EveryCallReturns` speaks of those only:
Node's (`AbortSignal.timeout` bounds headers and body) and, except for downloads,
Go's (the client's timeout and the context) and Python's.  Python's 30 s are
counted between two reads (`transport.py:66`), so of an answer to Python that has
begun it is assumed that it does not dribble on for ever; that is all that is
assumed of server and network.  Not covered: Java, whose `HttpRequest.timeout`
ends with the headers (`Transport.java:57`, `86`), so that a body that stalls holds
the call; downloads in Python (`read=None`) and Go, which have no limit for the
body; and Node's `whoami` request before the first call, which has no signal
(`client.js:185`).  `SoSync` assumes that a run whose requests all have a timer
(`Timed`: Node's, and uploads and copies in Python and Go) takes a step when it
can; `RunEnds` speaks of these runs and does not need the other writer to stop.
`ConsoleLogin` assumes that requests come to an end, which `EveryCallReturns` shows
of Python's, and that sleeps do; nothing makes the user confirm, the service
decide, or the user answer a prompt (`LoginEnds` speaks of clients that do not
prompt).  The other modules state no liveness.

**What the properties leave out on purpose.**  `NoDuplicateEffect` is about
calls documented not to be repeated (`OnceOnly`): both Python clients retry
every request, POST included, and duplicates there are the design.
`LoginsSurvive` speaks of updates that do not overlap; those that do lose one
another, in every SDK.  `ArrivalsSurvive` excludes the Go, Java and Node
downloads, which walk the directory after the transfers.  `DamageStays` is
about Python and Node, which raise on a file they cannot parse; Go and Java
write over it.  `NothingLost` has `receive(delete=True)` and purge as its
exceptions: the first consumes at the service and loses what a lost answer
carried.  `PurgeSparesLater` is about Go and Java; Python repeats a purge
after a timeout or a 502/503/504, Node after a 502/503/504, and attempts given up
on before the repetition returned do remove what is sent later.
`MirrorOnSuccess` and `LossOnlyAfterMirror` speak of what the run found, which is
all there was unless it `missed` something: Node's first page, an unreadable
directory in Python and Go, a file Go could not remove.  `OnlyDestinationChanges`
has the deletion of what continues the text of the destination's prefix as its
exception.
`MoveKeepsObject` excludes a move onto the own key, which deletes the object, and
abandoned requests executed after the end of their operation.  By page numbers
`ListComplete` holds only when nothing changes during the listing.  `ReadBack`
is about values that survive the codec (`Survives`).
`OneOpenClient` excludes an `aclose` that was cancelled: the transport then keeps
a closed client for good.  `ProgressCovers` and `SuccessIsWhole` exclude pipes
(finding 4).  `CodeOnce` allows one pair: a code given to
`login()` goes in the body of that login, and, accepted there or not, answers one
challenge after it.

## 4. Findings

1. **A synced single object is deleted again** (`services.py:992`).  Python
   finds an object by its own key when the listing of that prefix is empty,
   downloads it to `root/<name>`, then computes which local files are extra by
   `sync_join_prefix(prefix, rel)`, which for this file is `prefix/<name>` and
   not the object's key.  If the file was there before, `delete=True` removes
   it after the download (or the skip).
2. **The account is not the key's** (`context.py:149`).  `README.md:163`
   documents `account_id()` as "Access Key whoami"; the code prefers whatever
   account the session file holds for the profile, which a client with another
   key may have left there.
3. **A switch is undone** (`context.py:157`).  A client constructed before
   another one switches the account resolves from its snapshot and then stores
   the result, overwriting the switch, with no overlap of updates.
4. **A pipe is uploaded in part** (`services.py:48`).  A stream that cannot seek
   goes to the request loop as it is.  When an attempt breaks off, the next one
   sends what is left of the stream, the service stores that, and the call
   returns normally.  `services.py:362` accepts a "binary stream" for the body;
   `js/PARITY.md:33` promises a retry of an upload under the same key.

Met while modelling, and not contradicted by any document or test, so that no
run is about them:

- After the automatic choice of the only account, `self._session` is not read
  again (`context.py:257`): `account_id()` of a client without a key does not
  find the account until the client is constructed anew.
- With a key, `console_request` signs with the account `whoami` reported first
  (`transport.py:77`), while the path names the account switched to since.
- `secrets.create` validates its payload after the POST (`services.py:1255`): a
  call with a bad payload raises and leaves an empty secret.
- A login challenge without `mfa_token` is repeated as if it needed a credential
  (`mfa.py:142`).
- `move` onto the same key copies the object onto itself and deletes it
  (`services.py:484`).
- A code given to `login()` is sent in its body (`context.py:186`) and stays in the
  resolver, so that the next challenge is answered with a code that was already
  used; the comment at `mfa.py:80` ("one-shot — never reuse across challenges")
  is true of challenges only.
- A sync to `d` with `delete` removes `dx/a` at the destination, in every SDK, and a
  sync from `d` brings `dx/a` along (section 2.2); Go and Java downloads with
  `delete` fetch such a neighbour and then remove it.  `tests/test_so_sync.py:45`
  lists by `startswith` too, and has no neighbour.
- Node's `listAllObjects` ends after the first page when the service does not count
  pages (`so.js:85-97`), as `services.py:643` says it does not: a Node sync then
  mirrors a part, and one with `delete` takes local files whose objects are on
  later pages for extra.
- Go ignores the errors of `filepath.Walk` and `os.Remove` (`go/so.go:432`, `503`,
  `510`), and Python's `rglob` skips a directory it may not read: an upload with
  `delete` then removes the objects of files it could not see.
- Python and Node repeat a purge after a 502/503/504 (`js/PARITY.md:32` says so), and
  what was sent in between is purged as well.
- Secrets as env: a value with a form feed or another character at which
  `splitlines()` cuts is left raw between quotes (`secret_formats.py:202`, `64`) and
  is an error, or another value, when read; a NUL in a quoted value becomes a
  backslash (`195`).  As YAML: between quotes, tabs, returns, control characters
  and what is not ASCII are written as `json.dumps` escapes (`233`) that the reader
  does not undo (`219`); without quotes, line separators stay raw; and a value
  that begins and ends with a quote is not quoted and loses it.
- A copy-sync between buckets whose destination prefix is also the key of an
  object there looks that object up and, with `delete`, may remove it.

## 5. Proofs

Each proof module states what it assumes of the constants; the assumptions are
named in the modules that declare them, and TLC evaluates them in every run:
`MaxRetriesAssumption` (`RequestRetry`), `BoundsAssumption` (bounds are numbers;
`SoSync`, `SessionFile`, `MqDelivery`, `Transfers`, `ObjectMoves`, `ConsoleLogin`,
`Secrets`), `NoneAssumption` (`"none"` is no profile, account or token),
`BeginningsAssumption` and `BatchesAssumption` (streams begin well-formed, and what
is sent is not there yet), `PathsAssumption` (a path is a sequence of pieces of text),
`KeysAssumption` (keys are finitely many positive numbers), `ThreadsAssumption`
(threads are finitely many) and `MapsAssumption` (maps hold texts).  Threads and
the keys of a bucket are counted by what the theorems say of them and so must be
finite, as they are in any run of the program; otherwise nothing is assumed of
how many calls, clients, messages, threads, keys or programs there are, or of
how long a text is.

*Request loops.*  `IndInv` adds to `TypeOK` what the loop knows about its
attempts: attempts on the wire or with an effect are not beyond the loop
variable, an idle call has neither, a seen success or refusal has left its mark
on the effects, and a once-only call without a key has never had a second
attempt, because every outcome makes its policy return.
`NoDuplicateEffect` alone is not inductive: it must be known that nothing else
is on the wire when an effect happens.  `Invariance` proves `[]IndInv`;
`TypeCorrect`, `NoDuplicates`, `SuccessesAreReal` and `RefusalsAreFinal` follow.
`FaultsAreMasked` proves `TransientFaultsMasked`, which is inductive once
`IndInv` is known before and after the step; it opens all five policies.
`Refinement` proves `Spec => Abstract!Spec`: initial states map to initial
states, and each action maps to a step of `RemoteCall` or a stutter (`Begin` to
`Start`, an effect to `Effect`, a return to `Succeed`, `Refuse` or `Fail`).

*Sync.*  The theorems speak of scenarios that are `PrefixScenario`s: no object has
a prefix as its key, a directory has no prefix, the two prefixes of a copy
inside a bucket are the same or apart, and what continues the text of a prefix
without being below it does not share the relative name of something below it
(`MCScenariosAssumption` has TLC evaluate
this of the scenarios of the run).  Outside of them the properties are false, or
depend on a listing that looks an object up (findings 1, and the last of those
without a run).  `PathInv` holds in every run: a listed source has a place of its
own to go, a worker holds only what was planned, and what is doomed has no source.
`CalmInv` is about runs that nobody disturbs: the listings are parts of what the
sides held at the beginning (`before`), and the whole of it unless the side is in
`missed`, only destinations of transfers that have
begun differ from it, and unless something failed those that have ended hold
their source; `Exact` adds what the deletions have left.  `SuccessIsMirror` follows
from `Exact` at the end of a run, `LossesComeLast` from the order of the phases,
`ArrivalsAreKept` from `ArrivalInv` (what arrived late is not among the doomed).
`To` being injective, which the first needs, is a fact about texts proved from the
definition of sequences: `Rest`, `Longer` and `Folders` say what it is to continue a
text with and without a slash, `RelativeParts` what becomes of the relative name of
a neighbour, and `ToApart` that a neighbour of the destination's prefix is nobody's
destination.  `ListingsAreParts` is what is known of a listing cut short: each
entry is true.

*Session file.*  `IndInv` is `TypeOK`, `TokenInv` and `CalmInv`.  `TokenInv`
extends `TokensBelong` to every place a token can be on its way: the copies of
the file clients have read and the token being saved; an update may bring any
of them back into the file long after.  `CalmInv` says, for updates
that have not overlapped, that at most one client is between reading and having
written, that its copy is then what the logins add up to, and that the file is
whole unless it has been cut.  `TypeCorrect`, `TokensStayApart`, `LoginsAreKept`
and `DamageIsKept` state the four properties of the run for any number of
clients, profiles, accounts and tokens.

*Queues.*  The invariant of `MqDeliveryProofs` says that sequences of a stream are
unique and not beyond its counter, that a sequence which was handed out names
the same message for ever (`NameInv`), that every ack is for something that was
handed out, where messages come from (`OriginInv`), and which calls can have
removed one.  `MessagesAreKept`, `AcksAreExact` and `PurgesEnd` follow.  `AckRemovesOnlyHandled` needs `NameInv`: an ack names a sequence only,
and what it removes is what was handed out because no sequence is ever given
out twice.  `PurgeSparesLater` rests on the policies: a purge that is not
repeated, and returns without an error, has no attempt left; one that a gateway
gave up on has failed, and may still be executed (`PurgeOnce`).

`Refinement` proves that `MqDelivery` implements `Mailbox`.  It needs one more
invariant, `SendInv`: what a call that has not failed carries is a batch that was
accepted, so that what a late attempt stores is one of the abstract `Sends`.
`ExecuteAbstract` says what an execution does to the copies, call by call: a
send is `Store`, a purge `Purge`, a receive with `delete=True` `Take` and another
one `Hand`, if the answer arrives; an ack that finds its sequence is
`Acknowledge`, where `NameInv` is needed again: the guard of that step asks that
this very copy was handed out, the code compares a sequence only.  `Expire` is
`Redirect` or a stutter, beginning a call is `Ask`, and an attempt that is stranded,
refused or repeated is `Over`: it can only end requests (`CallGoesOn`).  What each
of these steps needs of `pending` is that the call which is being executed is
live at the time, also when its caller has long had an error.

*Transfers.*  `TransfersAreWhole` needs the relation between the position in the
body, what the attempt has sent and what the target holds, for each place in
the loop.  `ClientsAreReachable` needs that every client a thread holds was
created, and what `closing` says about the current one.  `ProgressIsCovered`
compares two counters of all threads with the state of each, so its invariant
(`ProgressInv`) counts: `Moved` is the set of pairs of a thread and a chunk its
present attempt has sent or received.  `completed` is at least its size, because
an attempt that breaks off, or a new transfer, only takes elements away, and
equal to it while every thread is in its first attempt of its first transfer.
`total` is `Size` for each transfer begun.  When every thread has completed its only
transfer all pairs have been moved, and there are as many as `total` says.

*Moves.*  `MovesKeepObjects` rests on `CopiedInv`: once a move has passed its copy,
the key it copied to holds what the source holds or nobody wants the object any
longer; a late repetition of the copy within the move changes nothing.
`ListingsAreComplete` is one argument for each way of paging.  By tokens, every
stable key up to the token has been listed and no key beyond it has (`TokenInv`):
a page begins after the last key of the one before, whatever was added or
removed.  By page numbers, what has been listed are the least keys of
the bucket, as many as fit on the pages read (`PagesInv`), as long as nothing has
changed.  The lemmas before them say what a page is: the least keys above a
bound, of which there are `PageSize` or all there are.  `WipesClear` adds what a
recursive deletion still has to erase (`WipeInv`): an object that is there, was
listed, and has not been written by anybody else since, is among what is left to
erase, and a wipe returns when nothing is.

*Login.*  `CodesAreUsedOnce` needs that the code in the resolver, if there is one,
has been made and has not answered a challenge (it may have been in the body of
the login it was given to), and that codes are numbered.

*Secrets.*  `CreatesOwnTheirSecrets` rests on `OwnInv`: whoever is about to store
values for a create, in a program or in a late request, knows that its POST made
the secret.  It holds because a conflict ends a create, a secret is never
removed, and the POST of another call cannot succeed any more.
`DocumentsReadBack` has two halves.  The codec: `CodecReadBack` says that reading
undoes escaping, for every text without the characters that its codec loses
(`Spoilt`).  What makes it more than a check of each
character is that a backslash of the value becomes a row of two, and the reader
must find where pairs begin in a row of any length; `PairsAreStarts` to
`StartsOfPrefix` show that they begin at every other place of a row, and
`CharReadBack` that the text written so far never ends within a pair, so that the
next character is read as it was written.  `QuoteReadBack` and `PlainReadBack` say that the line
of a quoted and of a plain value is cut nowhere and stripped of nothing,
`WrittenReadBack` adds the decision to quote, `DocumentReadBack` the document.  The programs: `DocInv` says, for every
place of an edit, what it has in hand - the text it was shown is the one of the
secret it read, and once its own request is under way, that request or an
execution of it puts back the same - and that while nobody else has touched the
secret it is still what the edit began with.

*Induction over data.*  The library's induction theorems take an operator as
parameter, which the provers here do not instantiate.  `ObjectMovesProofs` and
`SecretsProofs` use sets instead: a set of numbers that is not empty has a least
element (`LeastNumber`, from the well-foundedness of `<`), so (`ByNumbers`) a set
that contains 0 and the successor of each of its elements contains all numbers.  What
`FlattenSeq` computes is derived from its definition in the same way (`Joins` is
the recursive function in it).

*Only model-checked.*  `EveryCallReturns`, `RunEnds` and `LoginEnds`: liveness under
fairness, and the `ENABLED` in it, are out of the prover's reach.  The violations
of section 4 are TLC's.  Every other property of section 3 is a theorem.

## 6. Not modelled, and why

- Within modelled parts: `HOMECLOUD_ACCOUNT_ID` and the legacy
  `default_account_id` of the session file; threads sharing one client object
  other than its transport; sync between overlapping prefixes of one bucket;
  Go's unlocked
  creation of its HTTP client; the age of a signature at the last attempt,
  which needs the clocks of two machines; the paging of queues and of task
  lists; the waiting time of a receive.
- The credentials file: the read-change-rewrite of the session file again,
  written when a user configures a profile.
- Event streams: a line parser whose only state is the event it is reading.
- `client.tasks` keeps the acting user and the people of an account for ever; a
  stale entry shows up only in what the service answers.
- Pure functions of text or bytes: signing, error mapping, URL building, JSON
  documents, `.env` parsing.  They have no state and are covered by the
  repository's tests and test vectors.
- Management facades beyond their choice of credential (`ConsoleLogin`): one
  request each, as `RequestRetry` models it.
- Packaging, scripts and tests.

## 7. Plan

Done: `RequestRetry` with `RemoteCall`; `SoSync`; `SessionFile`; `MqDelivery` with `Mailbox`;
`Transfers`; `ObjectMoves`; `ConsoleLogin`; `Secrets`; proofs about
all of them.

Left, in this order:

| Module | Models | Questions |
|---|---|---|
| `CredentialsFile` | upsert, migrate, import, by SDK, with a file that cannot be read | profiles survive updates that do not overlap |
| `TaskLists` | the caches and the paging of `client.tasks` | a list of tasks is complete; a cache is not used for another account |
| `SseEvents` | `console_sse_events` on a stream that may be cut | no event lost, none made of two |

and, in a module that exists: `HOMECLOUD_ACCOUNT_ID` in `SessionFile`.  Left to prove: an
abstract specification of what a sync promises, and that `SoSync` implements it.
