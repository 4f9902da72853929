------------------------------ MODULE MCSoSync ------------------------------
(***************************************************************************)
(* Small instances of SoSync: two objects, a directory, two buckets and    *)
(* three prefixes, with neighbours that continue the text of a prefix.     *)
(***************************************************************************)
EXTENDS SoSync

MCPlaces == {"local", "b1", "b2"}
MCNames == {"a", "b"}
MCNeighbours == {<<p, "x", "/", "a">> : p \in {"d", "e"}}

MCPaths ==
  {<<n>> : n \in MCNames}
    \cup {<<p, "/", n>> : p \in {"d", "e"}, n \in MCNames}
    \cup MCNeighbours
    \cup {<<"e", "/", "d", "x", "/", "a">>}

MCJob(mode, from, fromPrefix, to, toPrefix, skip, delete) ==
  [mode |-> mode, from |-> from, fromPrefix |-> fromPrefix, to |-> to, toPrefix |-> toPrefix,
   skip |-> skip, delete |-> delete]

MCJobs ==
  {MCJob("up", "local", <<>>, "b1", <<"d">>, TRUE, TRUE),
   MCJob("up", "local", <<>>, "b1", <<"d">>, FALSE, FALSE),
   MCJob("down", "b1", <<"d">>, "local", <<>>, TRUE, TRUE),
   MCJob("copy", "b1", <<"d">>, "b2", <<>>, TRUE, TRUE),
   MCJob("copy", "b1", <<"d">>, "b1", <<"e">>, FALSE, TRUE),
   MCJob("copy", "b1", <<"d">>, "b1", <<"d">>, FALSE, TRUE)}

(* What source and destination hold of a and b: each side lacks b in one   *)
(* of the two pairs; y has the size of x, z has not.  In the second the    *)
(* prefixes have neighbours in the bucket b1.                              *)
MCPairs ==
  {<<[a |-> "x", b |-> "x"], [a |-> "y", b |-> "none"], {}>>,
   <<[a |-> "x", b |-> "none"], [a |-> "z", b |-> "y"], MCNeighbours>>}

(* The bucket b1 holds another object under the name a; a copy of d onto   *)
(* itself has no neighbours.                                               *)
MCBystander(j, pair, p, k) ==
  IF p = "b1" /\ (k = <<"a">> \/ (k \in pair[3] /\ j.fromPrefix # j.toPrefix))
  THEN "x" ELSE "none"

MCHolds(j, pair, p, k) ==
  IF p = j.from /\ \E n \in MCNames : k = Join(j.fromPrefix, <<n>>)
  THEN pair[1][Last(k)]
  ELSE IF p = j.to /\ \E n \in MCNames : k = Join(j.toPrefix, <<n>>)
  THEN pair[2][Last(k)]
  ELSE MCBystander(j, pair, p, k)

MCStore(j, pair) == [p \in MCPlaces |-> [k \in MCPaths |-> MCHolds(j, pair, p, k)]]

MCScenarios == {[job |-> j, store |-> MCStore(j, pair)] : j \in MCJobs, pair \in MCPairs}

ASSUME MCScenariosAssumption == \A s \in MCScenarios : PrefixScenario(s)

(* A download of one object by its own key, into a directory that may      *)
(* already hold it.                                                        *)
MCSingleObject ==
  {[job |-> MCJob("down", "b1", <<"d", "/", "a">>, "local", <<>>, s, TRUE),
    store |-> [p \in MCPlaces |-> [k \in MCPaths |->
                 IF p = "b1" /\ k = <<"d", "/", "a">> THEN "x"
                 ELSE IF p = "local" /\ k = <<"a">> THEN c ELSE "none"]]] :
     s \in BOOLEAN, c \in {"none", "x"}}
=============================================================================
