------------------------------- MODULE SoSync -------------------------------
(***************************************************************************)
(* so.sync: a one-way sync between a local directory and a bucket prefix,  *)
(* or between two bucket prefixes, in the five SDKs.  A run lists its two  *)
(* sides, plans, transfers the planned objects with a pool of workers or   *)
(* in a loop, and then, if asked to, deletes what has no counterpart.      *)
(* Listings are a snapshot: another writer may change either side while    *)
(* the run acts on them.                                                   *)
(*                                                                         *)
(* A path is a text, given as the sequence of its pieces, of which "/" is  *)
(* one; a prefix is a text too, <<>> being the whole bucket.  A local      *)
(* directory is a place whose prefix is <<>>.  The service lists by text:  *)
(* to a request for d it answers with d/a and with dx/a.                   *)
(***************************************************************************)
EXTENDS Naturals, FiniteSets, SequencesExt

CONSTANTS
  Paths,        \* every path the model knows, in any place
  Places,       \* "local" and the buckets
  Scenarios,    \* calls of sync, with what the places hold before
  Workers,      \* max_workers of the two Python clients
  PageSize,     \* objects on a page of a listing
  MaxRuns,      \* how often the program calls sync
  MaxForeign    \* how many changes another writer makes

ASSUME PathsAssumption == Paths \subseteq Seq(STRING)
ASSUME BoundsAssumption ==
  Workers \in Nat \ {0} /\ PageSize \in Nat /\ MaxRuns \in Nat /\ MaxForeign \in Nat

VARIABLES
  sdk,          \* which SDK runs the job
  job,          \* the arguments of sync
  store,        \* store[p][k]: the content of path k in place p, or "none"
  phase,        \* where the run is
  seen,         \* the sides listed so far
  srcSeen,      \* srcSeen[k]: size of source path k in the listing; 0: not listed
  dstSeen,      \* the same for the destination
  todo,         \* source paths still to be transferred
  active,       \* those a worker has taken up
  doomed,       \* destination paths still to be deleted
  failed,       \* a request of this run has failed
  runs,         \* calls of sync so far
  foreign,      \* changes made by the other writer so far
  before,       \* history: the places when the run began
  disturbed,    \* history: the other writer moved since then
  missed,       \* history: sides of which the run has overlooked something
  arrivals      \* history: paths it put at the destination after the listing

progress == <<phase, seen, srcSeen, dstSeen, todo, active, doomed, failed>>
history == <<runs, foreign, before, disturbed, missed, arrivals>>
vars == <<sdk, job, store, progress, history>>

Sdks == {"python", "aio", "node", "go", "java"}

Contents == {"none", "part", "x", "y", "z"}

(* x and y are different contents of one size; part is the beginning of    *)
(* any of them.                                                            *)
Size(c) == CASE c = "none" -> 0 [] c = "part" -> 1 [] c \in {"x", "y"} -> 2 [] c = "z" -> 3

NotSeen == [k \in Paths |-> 0]

-----------------------------------------------------------------------------
(* Paths.                                                                  *)
Folder(prefix) == IF prefix = <<>> THEN <<>> ELSE prefix \o <<"/">>

(* Inside the prefix taken as a directory, and, as the service takes it:   *)
(* continuing its text.                                                    *)
Below(k, prefix) == IsStrictPrefix(Folder(prefix), k)
Continues(k, prefix) == IsStrictPrefix(prefix, k)

(* Mutated form: the prefix is not put in front of the path.               *)
JoinBare(prefix, rel) == IF rel = <<>> THEN prefix ELSE rel

Join(prefix, rel) == IF rel = <<>> THEN prefix ELSE Folder(prefix) \o rel

FileName(k) ==
  LET slashes == {i \in DOMAIN k : k[i] = "/"}
  IN  SubSeq(k, IF slashes = {} THEN 1 ELSE Max(slashes) + 1, Len(k))

(* A path that is not in the prefix keeps all of its name.                 *)
Relative(k, prefix) ==
  IF k = prefix THEN FileName(k)
  ELSE IF Below(k, prefix) THEN SubSeq(k, Len(Folder(prefix)) + 1, Len(k))
  ELSE k

(* Where source path k goes.                                               *)
Dest(k) == Join(job.toPrefix, Relative(k, job.fromPrefix))

(***************************************************************************)
(* A scenario of prefixes, the ordinary use: no object has a prefix as its *)
(* key, a directory has no prefix, the two prefixes of a copy inside a     *)
(* bucket are the same or apart, and what continues the text of a prefix   *)
(* without being below it does not have the name of something below it.    *)
(***************************************************************************)
OneName(prefix) ==
  \A k, l \in Paths :
    Continues(k, prefix) /\ Continues(l, prefix) /\ Relative(k, prefix) = Relative(l, prefix)
    => k = l

PrefixJob(j) ==
  /\ j \in [mode : {"up", "down", "copy"}, from : Places, fromPrefix : Seq(STRING),
            to : Places, toPrefix : Seq(STRING), skip : BOOLEAN, delete : BOOLEAN]
  /\ j.fromPrefix \notin Paths /\ j.toPrefix \notin Paths
  /\ OneName(j.fromPrefix) /\ OneName(j.toPrefix)
  /\ j.mode = "up" <=> j.from = "local"
  /\ j.mode = "down" <=> j.to = "local"
  /\ j.mode = "up" => j.fromPrefix = <<>>
  /\ j.mode = "down" => j.toPrefix = <<>>
  /\ j.from = j.to =>
       /\ j.mode = "copy"
       /\ \/ j.fromPrefix = j.toPrefix
          \/ ~IsPrefix(j.fromPrefix, j.toPrefix) /\ ~IsPrefix(j.toPrefix, j.fromPrefix)

PrefixScenario(s) ==
  /\ PrefixJob(s.job)
  /\ s.store \in [Places -> [Paths -> Contents]]
  /\ \A k \in Paths :
       s.store[s.job.from][k] # "none" /\ Continues(k, s.job.fromPrefix) =>
         Join(s.job.toPrefix, Relative(k, s.job.fromPrefix)) \in Paths

(***************************************************************************)
(* A complete listing: the paths that continue the prefix, with their      *)
(* sizes.  The list API does not return an object whose key is the prefix  *)
(* itself; Python looks such an object up when the listing of a bucket it  *)
(* reads from is empty (downloads, and both sides of a copy).              *)
(***************************************************************************)
Looked(place, mode, s) == place # "local" /\ mode # "up" /\ s \in {"python", "aio"}

Listing(place, prefix) ==
  LET held == {k \in Paths : store[place][k] # "none"}
      under == {k \in held : Continues(k, prefix)}
      found == IF under = {} /\ Looked(place, job.mode, sdk)
               THEN held \cap {prefix}
               ELSE under
  IN  [k \in Paths |-> IF k \in found THEN Size(store[place][k]) ELSE 0]

Listed(listing) == {k \in Paths : listing[k] # 0}

Cut(listing, kept) == [k \in Paths |-> IF k \in kept THEN listing[k] ELSE 0]

(* A path of a directory, up to a slash; <<>> is the directory synced.     *)
Directories == {<<>>} \cup UNION {{SubSeq(k, 1, i) : i \in {i \in DOMAIN k : k[i] = "/"}} : k \in Paths}

(***************************************************************************)
(* The listings a run may get.  Node asks for a further page of a bucket   *)
(* only if the answer counts the pages, which the service may not do;      *)
(* Python and Go overlook what is in a directory they may not read.        *)
(***************************************************************************)
Listings(place, prefix) ==
  LET all == Listing(place, prefix)
  IN  {all}
        \cup {Cut(all, page) : page \in
                 {S \in SUBSET Listed(all) :
                    place # "local" /\ sdk = "node" /\ Cardinality(S) = PageSize}}
        \cup {Cut(all, {k \in Paths : ~IsPrefix(dir, k)}) : dir \in
                 {d \in Directories : place = "local" /\ sdk \in {"python", "aio", "go"}}}

(* Go, Java and Node do not look at the local directory until they need    *)
(* each file, and walk it for deletion after the downloads.                *)
Python == sdk \in {"python", "aio"}
LateWalk == job.mode = "down" /\ ~Python

Sides == IF LateWalk THEN {"src"} ELSE {"src", "dst"}

(* The Java copy lists the destination first.                              *)
Earlier(side) ==
  IF sdk = "java" /\ job.mode = "copy"
  THEN IF side = "src" THEN {"dst"} ELSE {}
  ELSE IF side = "src" THEN {} ELSE {"src"}

-----------------------------------------------------------------------------
(* Planning.                                                               *)

(* The sizes that are compared: those of the listing, except that a local  *)
(* file is looked at anew (Node keeps the size of its walk on upload).     *)
SourceSize(k) ==
  IF job.mode = "up" /\ sdk # "node" THEN Size(store[job.from][k]) ELSE srcSeen[k]

(* What stands for k at the destination, with its size.  An upload looks   *)
(* for its key in the listing, a copy for the relative path; Python finds  *)
(* a local file by the key it would have, the others by its path.          *)
TargetSizes(k) ==
  IF job.mode = "up"
  THEN {dstSeen[d] : d \in Listed(dstSeen) \cap {Dest(k)}}
  ELSE IF job.mode = "copy"
  THEN {dstSeen[d] : d \in {d \in Listed(dstSeen) :
          Relative(d, job.toPrefix) = Relative(k, job.fromPrefix)}}
  ELSE IF Python
  THEN {Size(store[job.to][d]) : d \in {d \in Listed(dstSeen) : Join(job.fromPrefix, d) = k}}
  ELSE {Size(store[job.to][Dest(k)])}

(* Mutated form: what is there already is skipped, whatever its size.      *)
SkippedByName(k) == job.skip /\ TargetSizes(k) \ {0} # {}

Skipped(k) == job.skip /\ SourceSize(k) \in TargetSizes(k)

(* Destination paths of a listing without a counterpart in the source.     *)
(* Copies, and Node's downloads, compare relative paths, the others keys.  *)
Extra(listing) ==
  IF job.mode = "up"
  THEN Listed(listing) \ {Dest(k) : k \in Listed(srcSeen)}
  ELSE IF job.mode = "down" /\ sdk # "node"
  THEN {d \in Listed(listing) : Join(job.fromPrefix, d) \notin Listed(srcSeen)}
  ELSE {d \in Listed(listing) : Relative(d, job.toPrefix) \notin
          {Relative(k, job.fromPrefix) : k \in Listed(srcSeen)}}

(* Mutated form: the deletions do not wait for the transfers.              *)
TransfersOverEarly == active = {}

(* Python lets its pool run dry before it looks at the errors; with one    *)
(* worker, and in the other SDKs, the first error ends the run.            *)
StopsAtError == sdk \in {"node", "go", "java"} \/ (sdk = "python" /\ Workers = 1)

(* Mutated form: one thread per object.                                    *)
PoolSizeUnbounded == Cardinality(Paths)

PoolSize == IF Python THEN Workers ELSE 1

TransfersOver == active = {} /\ (todo = {} \/ (failed /\ StopsAtError))

-----------------------------------------------------------------------------
Init ==
  /\ sdk \in Sdks
  /\ \E s \in Scenarios : job = s.job /\ store = s.store
  /\ phase = "idle"
  /\ seen = {} /\ srcSeen = NotSeen /\ dstSeen = NotSeen
  /\ todo = {} /\ active = {} /\ doomed = {} /\ failed = FALSE
  /\ runs = 0 /\ foreign = 0
  /\ before = store
  /\ disturbed = FALSE
  /\ missed = {}
  /\ arrivals = {}

(* The call; only Python and Node refuse to sync a prefix with itself.     *)
Begin ==
  /\ phase \in {"idle", "done", "failed"}
  /\ runs < MaxRuns
  /\ runs' = runs + 1
  /\ phase' = IF /\ job.from = job.to /\ job.fromPrefix = job.toPrefix
                 /\ sdk \in {"python", "aio", "node"}
              THEN "failed" ELSE "scan"
  /\ seen' = {} /\ srcSeen' = NotSeen /\ dstSeen' = NotSeen
  /\ todo' = {} /\ active' = {} /\ doomed' = {} /\ failed' = FALSE
  /\ before' = store /\ disturbed' = FALSE /\ missed' = {} /\ arrivals' = {}
  /\ UNCHANGED <<sdk, job, store, foreign>>

Scan(side) ==
  /\ phase = "scan"
  /\ side \in Sides \ seen
  /\ Earlier(side) \subseteq seen
  /\ seen' = seen \cup {side}
  /\ LET place == IF side = "src" THEN job.from ELSE job.to
         prefix == IF side = "src" THEN job.fromPrefix ELSE job.toPrefix
     IN  \E listing \in Listings(place, prefix) :
           /\ IF side = "src"
              THEN srcSeen' = listing /\ UNCHANGED dstSeen
              ELSE dstSeen' = listing /\ UNCHANGED srcSeen
           /\ missed' = IF listing = Listing(place, prefix) THEN missed ELSE missed \cup {side}
  /\ UNCHANGED <<sdk, job, store, phase, todo, active, doomed, failed,
                 runs, foreign, before, disturbed, arrivals>>

(* A page of a listing cannot be had; Java and Node raise an error at a    *)
(* directory they cannot walk.                                             *)
ScanFails ==
  /\ phase = "scan"
  /\ failed' = TRUE
  /\ phase' = "failed"
  /\ UNCHANGED <<sdk, job, store, seen, srcSeen, dstSeen, todo, active, doomed, history>>

(* Python decides everything here; the others decide on skipping in the    *)
(* loop.  A local file that is gone since the walk ends a Python upload.   *)
Plan ==
  /\ phase = "scan"
  /\ seen = Sides
  /\ IF Python /\ job.mode = "up" /\ \E k \in Listed(srcSeen) : store[job.from][k] = "none"
     THEN /\ phase' = "failed"
          /\ failed' = TRUE
          /\ UNCHANGED <<todo, doomed>>
     ELSE /\ phase' = "transfer"
          /\ todo' = {k \in Listed(srcSeen) : Python => ~Skipped(k)}
          /\ doomed' = IF job.delete /\ ~LateWalk THEN Extra(dstSeen) ELSE {}
          /\ UNCHANGED failed
  /\ UNCHANGED <<sdk, job, store, seen, srcSeen, dstSeen, active, history>>

(* A worker, or the loop, takes up the next object.                        *)
StartTransfer(k) ==
  /\ phase = "transfer"
  /\ k \in todo \ active
  /\ Cardinality(active) < PoolSize
  /\ ~(failed /\ StopsAtError)
  /\ IF ~Python /\ Skipped(k)
     THEN todo' = todo \ {k} /\ UNCHANGED active
     ELSE active' = active \cup {k} /\ UNCHANGED todo
  /\ UNCHANGED <<sdk, job, store, phase, seen, srcSeen, dstSeen, doomed, failed, history>>

(* Mutated form: a failed transfer is put back in the queue.               *)
EndTransferRequeue(k) ==
  /\ k \in active
  /\ active' = active \ {k}
  /\ \E c \in Contents, ok \in BOOLEAN :
       /\ \/ c = store[job.from][k] /\ c # "none" /\ ok
          \/ c = store[job.to][Dest(k)] /\ ~ok
       /\ store' = [store EXCEPT ![job.to][Dest(k)] = c]
       /\ todo' = IF ok THEN todo \ {k} ELSE todo
  /\ UNCHANGED <<sdk, job, phase, seen, srcSeen, dstSeen, doomed, failed, history>>

(***************************************************************************)
(* The transfer of k ends.  An upload or a copy may take effect and yet be *)
(* reported as failed, its answer being lost.  A Python download streams   *)
(* into the file, and may leave the beginning of the object behind; the    *)
(* others write the file once they have the whole object.                  *)
(***************************************************************************)
EndTransfer(k) ==
  /\ k \in active
  /\ active' = active \ {k}
  /\ todo' = todo \ {k}
  /\ \E c \in Contents, ok \in BOOLEAN :
       /\ \/ c = store[job.from][k] /\ c # "none" /\ (ok \/ job.mode # "down")
          \/ c = store[job.to][Dest(k)] /\ ~ok
          \/ c = "part" /\ ~ok /\ Python /\ job.mode = "down" /\ store[job.from][k] # "none"
       /\ store' = [store EXCEPT ![job.to][Dest(k)] = c]
       /\ failed' = (failed \/ ~ok)
  /\ UNCHANGED <<sdk, job, phase, seen, srcSeen, dstSeen, doomed, history>>

(* An error is raised now, before anything is deleted.                     *)
GiveUp ==
  /\ phase = "transfer"
  /\ TransfersOver
  /\ failed
  /\ phase' = "failed"
  /\ UNCHANGED <<sdk, job, store, seen, srcSeen, dstSeen, todo, active, doomed, failed, history>>

(* Mutated form: the destination is listed again for the deletions.        *)
BeginDeleteRelisted ==
  /\ phase = "transfer"
  /\ TransfersOver
  /\ ~failed
  /\ phase' = "delete"
  /\ doomed' = IF job.delete THEN Extra(Listing(job.to, job.toPrefix)) ELSE doomed
  /\ UNCHANGED <<sdk, job, store, seen, srcSeen, dstSeen, todo, active, failed, history>>

BeginDelete ==
  /\ phase = "transfer"
  /\ TransfersOver
  /\ ~failed
  /\ phase' = "delete"
  /\ IF job.delete /\ LateWalk
     THEN \E listing \in Listings(job.to, job.toPrefix) :
            /\ doomed' = Extra(listing)
            /\ missed' = IF listing = Listing(job.to, job.toPrefix) THEN missed ELSE missed \cup {"dst"}
     ELSE UNCHANGED <<doomed, missed>>
  /\ UNCHANGED <<sdk, job, store, seen, srcSeen, dstSeen, todo, active, failed,
                 runs, foreign, before, disturbed, arrivals>>

(* Java and Node cannot walk the local directory, and raise an error.      *)
LateWalkFails ==
  /\ phase = "transfer"
  /\ TransfersOver
  /\ ~failed
  /\ job.delete /\ LateWalk /\ sdk \in {"java", "node"}
  /\ failed' = TRUE
  /\ phase' = "failed"
  /\ UNCHANGED <<sdk, job, store, seen, srcSeen, dstSeen, todo, active, doomed, history>>

(* Local deletions are done in a loop, which ends at the first error.      *)
DeletionsStop == failed /\ (StopsAtError \/ job.to = "local")

(* One deletion.  Bucket ones may fail, with or without having taken       *)
(* effect, local ones without; Go does not look at the error of a local    *)
(* one.                                                                    *)
DeleteOne(k) ==
  /\ phase = "delete"
  /\ k \in doomed
  /\ ~DeletionsStop
  /\ doomed' = doomed \ {k}
  /\ \E gone, ok \in BOOLEAN :
       /\ IF sdk = "go" /\ job.to = "local" THEN ok ELSE ok => gone
       /\ job.to = "local" /\ gone => ok
       /\ store' = IF gone THEN [store EXCEPT ![job.to][k] = "none"] ELSE store
       /\ failed' = (failed \/ ~ok)
       /\ missed' = IF ok /\ ~gone THEN missed \cup {"dst"} ELSE missed
  /\ UNCHANGED <<sdk, job, phase, seen, srcSeen, dstSeen, todo, active,
                 runs, foreign, before, disturbed, arrivals>>

End ==
  /\ phase = "delete"
  /\ doomed = {} \/ DeletionsStop
  /\ phase' = IF failed THEN "failed" ELSE "done"
  /\ UNCHANGED <<sdk, job, store, seen, srcSeen, dstSeen, todo, active, doomed, failed, history>>

(* Ctrl-C in the thread that waits for the pool: the workers finish what   *)
(* was submitted, then the exception goes on.                              *)
Interrupt ==
  /\ phase = "transfer"
  /\ sdk = "python" /\ Workers > 1
  /\ todo # {} /\ ~failed
  /\ failed' = TRUE
  /\ UNCHANGED <<sdk, job, store, phase, seen, srcSeen, dstSeen, todo, active, doomed, history>>

(* An asyncio run is cancelled: the tasks that wait for the semaphore end  *)
(* without starting; those at work take the CancelledError for an error of *)
(* theirs, and what they asked for may still be done.                      *)
Cancel ==
  /\ sdk = "aio"
  /\ \/ /\ phase = "transfer" /\ todo # {}
        /\ todo' = active /\ UNCHANGED doomed
     \/ /\ phase = "delete" /\ doomed # {}
        /\ doomed' \in {S \in SUBSET doomed : Cardinality(S) <= Workers}
        /\ UNCHANGED todo
  /\ failed' = TRUE
  /\ UNCHANGED <<sdk, job, store, phase, seen, srcSeen, dstSeen, active, history>>

(* Another program writes or removes a path on either side.                *)
Foreign(p, k, c) ==
  /\ foreign < MaxForeign
  /\ phase \in {"scan", "transfer", "delete"}
  /\ p \in {job.from, job.to}
  /\ Continues(k, IF p = job.from THEN job.fromPrefix ELSE job.toPrefix)
  /\ c # store[p][k]
  /\ p = job.from => Dest(k) \in Paths
  /\ store' = [store EXCEPT ![p][k] = c]
  /\ foreign' = foreign + 1
  /\ disturbed' = TRUE
  /\ arrivals' =
       IF p # job.to THEN arrivals
       ELSE IF c = "none" THEN arrivals \ {k}
       ELSE IF seen = Sides /\ dstSeen[k] = 0 /\ k \notin {Dest(s) : s \in Listed(srcSeen)}
       THEN arrivals \cup {k}
       ELSE arrivals
  /\ UNCHANGED <<sdk, job, runs, before, missed, progress>>

Stopped ==
  /\ phase \in {"done", "failed"}
  /\ runs = MaxRuns
  /\ UNCHANGED vars

Step ==
  \/ Begin
  \/ \E side \in {"src", "dst"} : Scan(side)
  \/ Plan
  \/ \E k \in Paths : StartTransfer(k) \/ EndTransfer(k) \/ DeleteOne(k)
  \/ GiveUp
  \/ BeginDelete
  \/ End

Next ==
  \/ Step
  \/ ScanFails
  \/ LateWalkFails
  \/ Interrupt
  \/ Cancel
  \/ \E p \in Places, k \in Paths, c \in {"none", "y"} : Foreign(p, k, c)
  \/ Stopped

(***************************************************************************)
(* The program runs, and its requests end, where each has a timer for all  *)
(* of its length: Node's signal, Go's deadline and Python's read timeout,  *)
(* with an answer to Python that is finite once begun.  Go and Python      *)
(* stream a download without one, and Java's timer ends with the headers:  *)
(* of these runs nothing is assumed.  (As in RequestRetry, where HasTimeout *)
(* says the same of single calls.)                                         *)
(***************************************************************************)
Timed == sdk = "node" \/ (sdk \in {"python", "aio", "go"} /\ job.mode # "down")

Spec == Init /\ [][Next]_vars /\ WF_vars(Timed /\ Step)

-----------------------------------------------------------------------------
TypeOK ==
  /\ sdk \in Sdks
  /\ store \in [Places -> [Paths -> Contents]]
  /\ phase \in {"idle", "scan", "transfer", "delete", "done", "failed"}
  /\ seen \in SUBSET {"src", "dst"}
  /\ srcSeen \in [Paths -> 0..3] /\ dstSeen \in [Paths -> 0..3]
  /\ todo \subseteq Paths /\ active \subseteq todo /\ doomed \subseteq Paths
  /\ Cardinality(active) <= (IF Python THEN Workers ELSE 1)
  /\ failed \in BOOLEAN /\ disturbed \in BOOLEAN
  /\ runs \in 0..MaxRuns /\ foreign \in 0..MaxForeign
  /\ before \in [Places -> [Paths -> Contents]]
  /\ missed \subseteq {"src", "dst"} /\ arrivals \subseteq Paths

(* Every object below the prefix that the run found at its source is at    *)
(* the destination: the same object, or, for a run that skips, one of the  *)
(* same size.                                                              *)
Mirrored ==
  \A k \in Listed(srcSeen) :
    LET here == store[job.from][k]
        there == store[job.to][Dest(k)]
    IN  Below(k, job.fromPrefix) =>
          IF job.skip THEN Size(there) = Size(here) ELSE there = here

(* The run has found all of its source.                                    *)
Complete ==
  \A k \in Paths :
    Below(k, job.fromPrefix) /\ store[job.from][k] # "none" => k \in Listed(srcSeen)

(* A run that returns normally, and that nobody disturbed, leaves a mirror *)
(* of what it found behind, also when an earlier run failed half-way or    *)
(* left a truncated file: of all of the source, unless the listing of the  *)
(* source was cut short (Node's first page, an unreadable directory); with *)
(* delete an exact one, unless the destination's was or Go could not       *)
(* remove a file (services.py _sync_local_to_bucket, _sync_bucket_to_local,*)
(* _sync_bucket_to_bucket and their ports).                                *)
MirrorOnSuccess ==
  phase = "done" /\ ~disturbed =>
    /\ Mirrored
    /\ "src" \notin missed => Complete
    /\ job.delete /\ "dst" \notin missed =>
         \A d \in Paths :
           Continues(d, job.toPrefix) /\ store[job.to][d] # "none" =>
             d \in {Dest(k) : k \in Listed(srcSeen)}

(* Nothing disappears from the destination before all the run has found of *)
(* its source has arrived there, whichever workers fail and in whatever    *)
(* order; and that is all of the source, unless its listing was cut short. *)
LossOnlyAfterMirror ==
  (/\ ~disturbed
   /\ \E d \in Paths : before[job.to][d] # "none" /\ store[job.to][d] = "none")
  => Mirrored /\ ("src" \notin missed => Complete)

(* A one-way sync never touches its source, and writes nothing outside its *)
(* destination prefix.  Outside it may only delete, when asked to delete,  *)
(* what continues the text of the prefix: a sync to d that deletes takes   *)
(* dx/a for an object without a counterpart, in every SDK.                 *)
OnlyDestinationChanges ==
  ~disturbed =>
    \A p \in Places, k \in Paths :
      store[p][k] # before[p][k] =>
        /\ p = job.to
        /\ \/ Below(k, job.toPrefix)
           \/ job.delete /\ Continues(k, job.toPrefix) /\ store[p][k] = "none"

(* What another writer adds to the destination after it was listed is not  *)
(* deleted by the run; Go, Java and Node give no such guarantee for a      *)
(* local directory, which they walk after the downloads.                   *)
ArrivalsSurvive == ~LateWalk => \A k \in arrivals : store[job.to][k] # "none"

(* Every call of sync whose requests all have a timer returns, whatever    *)
(* fails: a download that waits for a body without one, and Java's runs,   *)
(* are not among them (see Timed).                                         *)
RunEnds == (phase = "scan" /\ Timed) ~> phase \in {"done", "failed"}

(* A download brings the objects it lists: "Download bucket prefix to      *)
(* local directory" (services.py sync_bucket_to_local).                    *)
DownloadedFilesStay ==
  phase = "done" /\ ~disturbed /\ job.mode = "down" =>
    \A k \in Listed(srcSeen) : store[job.to][Dest(k)] # "none"

=============================================================================
