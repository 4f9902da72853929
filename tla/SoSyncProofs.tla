---------------------------- MODULE SoSyncProofs ----------------------------
(***************************************************************************)
(* Proofs about SoSync, for scenarios of prefixes: any paths, places,      *)
(* contents before, number of workers, runs and foreign changes.           *)
(***************************************************************************)
EXTENDS SoSync, TLAPS, FiniteSetTheorems, SequenceTheorems

(* The pieces of a text; that "/" is a string is not known to the provers. *)
Pieces == STRING \cup {"/"}
Texts == Seq(Pieces)

LEMMA StringsArePieces == Seq(STRING) \subseteq Texts
  <1>1. STRING \subseteq Pieces
    BY DEF Pieces
  <1>2. QED
    BY <1>1, SeqMonotonic DEF Texts
Under(p, k) == Continues(k, p)
After(p, k) == SubSeq(k, Len(p) + 1, Len(k))

-----------------------------------------------------------------------------
(* Paths and prefixes.                                                     *)
LEMMA SameBeginning ==
  ASSUME NEW p \in Texts, NEW k \in Texts
  PROVE  IsPrefix(p, k) <=> Len(p) <= Len(k) /\ \A i \in 1..Len(p) : p[i] = k[i]
  <1>1. Len(p) \in Nat /\ Len(k) \in Nat
    BY LenProperties DEF Texts
  <1>2. ASSUME Len(p) <= Len(k)
        PROVE  /\ SubSeq(p, 1, Len(p)) = p /\ SubSeq(k, 1, Len(p)) \in Texts
               /\ Len(SubSeq(k, 1, Len(p))) = Len(p)
               /\ \A i \in 1..Len(p) : SubSeq(k, 1, Len(p))[i] = k[i]
    <2>1. SubSeq(p, 1, Len(p)) = p
      BY SubSeqFull DEF Texts
    <2>2. \A i \in 1..Len(p) : k[i] \in Pieces
      BY <1>1, <1>2, ElementOfSeq DEF Texts
    <2>3. /\ SubSeq(k, 1, Len(p)) \in Seq(Pieces)
          /\ Len(SubSeq(k, 1, Len(p))) = IF 1 <= Len(p) THEN Len(p) - 1 + 1 ELSE 0
          /\ \A i \in 1..(Len(p) - 1 + 1) : SubSeq(k, 1, Len(p))[i] = k[1 + i - 1]
      BY <1>1, <2>2, SubSeqProperties
    <2>4. QED
      BY <1>1, <2>1, <2>3 DEF Texts
  <1>3. ASSUME IsPrefix(p, k) PROVE Len(p) <= Len(k) /\ \A i \in 1..Len(p) : p[i] = k[i]
    BY <1>1, <1>2, <1>3 DEF IsPrefix
  <1>4. ASSUME Len(p) <= Len(k), \A i \in 1..Len(p) : p[i] = k[i] PROVE IsPrefix(p, k)
    <2>1. p = SubSeq(k, 1, Len(p))
      BY <1>1, <1>2, <1>4, SeqEqual DEF Texts
    <2>2. QED
      BY <1>2, <1>4, <2>1 DEF IsPrefix
  <1>5. QED
    BY <1>3, <1>4

(* What is left of k after a beginning of it.                              *)
LEMMA Rest ==
  ASSUME NEW p \in Texts, NEW k \in Texts, IsStrictPrefix(p, k)
  PROVE  /\ After(p, k) \in Texts /\ After(p, k) # <<>>
         /\ p \o After(p, k) = k
  <1> DEFINE r == SubSeq(k, Len(p) + 1, Len(k))
  <1>1. Len(p) \in Nat /\ Len(k) \in Nat /\ Len(p) <= Len(k) /\ k # p
    BY LenProperties DEF Texts, IsStrictPrefix, IsPrefix
  <1>3. r \in Texts
    <2>1. \A i \in Len(p) + 1..Len(k) : k[i] \in Pieces
      BY <1>1, ElementOfSeq DEF Texts
    <2>2. QED
      BY <1>1, <2>1, SubSeqProperties DEF Texts
  <1>4. SubSeq(k, 1, Len(p)) = p
    BY SubSeqFull DEF IsStrictPrefix, IsPrefix, Texts
  <1>5. SubSeq(k, 1, Len(p)) \o r = SubSeq(k, 1, Len(k))
    <2>1. 1 \in 1..Len(k) + 1 /\ Len(p) \in 1 - 1..Len(k) /\ Len(k) \in Len(p)..Len(k)
      BY <1>1
    <2>2. k \in Seq(Pieces)
      BY DEF Texts
    <2>3. QED
      BY <2>1, <2>2, ConcatAdjacentSubSeq
  <1>6. p \o r = k
    BY <1>4, <1>5, SubSeqFull DEF Texts
  <1>7. r # <<>>
    BY <1>1, <1>6, ConcatEmptySeq DEF Texts
  <1>8. QED
    BY <1>3, <1>6, <1>7 DEF After

LEMMA Longer ==
  ASSUME NEW p \in Texts, NEW r \in Texts, r # <<>>
  PROVE  p \o r \in Texts /\ IsStrictPrefix(p, p \o r) /\ After(p, p \o r) = r
  <1>1. Len(p) \in Nat /\ Len(r) \in Nat
    BY LenProperties DEF Texts
  <1>2. /\ p \o r \in Texts /\ Len(p \o r) = Len(p) + Len(r)
        /\ \A i \in 1..Len(p) + Len(r) : (p \o r)[i] = IF i <= Len(p) THEN p[i] ELSE r[i - Len(p)]
    BY ConcatProperties DEF Texts
  <1>3. IsPrefix(p, p \o r)
    <2>1. Len(p) <= Len(p \o r) /\ \A i \in 1..Len(p) : p[i] = (p \o r)[i]
      BY <1>1, <1>2
    <2>2. QED
      BY <1>2, <2>1, SameBeginning
  <1>4. p \o r # p
    BY ConcatEqualIffEmpty DEF Texts
  <1>5. IsStrictPrefix(p, p \o r)
    BY <1>3, <1>4 DEF IsStrictPrefix
  <1>6. After(p, p \o r) \in Texts /\ p \o After(p, p \o r) = p \o r
    BY <1>2, <1>5, Rest
  <1>7. After(p, p \o r) = r
    <2>1. p \in Seq(Pieces) /\ r \in Seq(Pieces) /\ After(p, p \o r) \in Seq(Pieces)
      BY <1>6 DEF Texts
    <2>2. p \o After(p, p \o r) = p \o r <=> After(p, p \o r) = r
      BY <2>1, ConcatSimplifications
    <2>3. QED
      BY <1>6, <2>2
  <1>8. QED
    BY <1>2, <1>5, <1>7

(* What is below a prefix continues it.                                    *)
LEMMA Folders ==
  ASSUME NEW p \in Texts
  PROVE  /\ Folder(p) \in Texts
         /\ \A k \in Texts : Below(k, p) => Under(p, k)
  <1>1. CASE p = <<>>
    BY <1>1 DEF Folder, Below, Under, Continues
  <1>2. CASE p # <<>>
    <2>1. <<"/">> \in Texts /\ <<"/">> # <<>> /\ Folder(p) = p \o <<"/">>
      <3>1. Folder(p) = p \o <<"/">>
        BY <1>2 DEF Folder
      <3>2. <<"/">> \in Texts
        <4>1. "/" \in Pieces
          BY DEF Pieces
        <4>2. QED
          BY <4>1 DEF Texts
      <3>3. <<"/">> # <<>>
        OBVIOUS
      <3>4. QED
        BY <3>1, <3>2, <3>3
    <2>2. /\ Folder(p) \in Texts /\ IsStrictPrefix(p, Folder(p))
      BY <2>1, Longer
    <2>3. ASSUME NEW k \in Texts, Below(k, p)
          PROVE  Under(p, k)
      <3>1. IsPrefix(Folder(p), k)
        BY <2>3 DEF Below, IsStrictPrefix
      <3>2. Len(p) \in Nat /\ Len(Folder(p)) \in Nat /\ Len(k) \in Nat
        BY <2>2, LenProperties DEF Texts
      <3>3. Len(p) <= Len(Folder(p)) /\ \A i \in 1..Len(p) : p[i] = Folder(p)[i]
        BY <2>2, SameBeginning DEF IsStrictPrefix
      <3>4. Len(Folder(p)) <= Len(k) /\ \A i \in 1..Len(Folder(p)) : Folder(p)[i] = k[i]
        BY <2>2, <3>1, SameBeginning
      <3>5. IsPrefix(p, k)
        <4>1. Len(p) <= Len(k) /\ \A i \in 1..Len(p) : p[i] = k[i]
          BY <3>2, <3>3, <3>4
        <4>2. QED
          BY <4>1, SameBeginning
      <3>6. p # k
        <4>1. Len(Folder(p)) = Len(p) + 1
          BY <2>1, ConcatProperties, <3>2 DEF Texts
        <4>2. QED
          BY <3>2, <3>4, <4>1
      <3>7. QED
        BY <3>5, <3>6 DEF Under, Continues, IsStrictPrefix
    <2>4. QED
      BY <2>2, <2>3
  <1>3. QED
    BY <1>1, <1>2

LEMMA RelativeParts ==
  ASSUME NEW p \in Texts, NEW k \in Texts, Under(p, k)
  PROVE  /\ Relative(k, p) \in Texts /\ Relative(k, p) # <<>>
         /\ Below(k, p) => Join(p, Relative(k, p)) = k
  <1>1. k # p
    BY DEF Under, Continues, IsStrictPrefix
  <1>2. CASE Below(k, p)
    <2>1. Relative(k, p) = After(Folder(p), k)
      BY <1>1, <1>2 DEF Relative, After
    <2>2. /\ After(Folder(p), k) \in Texts /\ After(Folder(p), k) # <<>>
          /\ Folder(p) \o After(Folder(p), k) = k
      BY <1>2, Folders, Rest DEF Below
    <2>3. QED
      BY <2>1, <2>2 DEF Join
  <1>3. CASE ~Below(k, p)
    <2>1. Relative(k, p) = k
      BY <1>1, <1>3 DEF Relative
    <2>2. k # <<>>
      <3>1. ASSUME k = <<>> PROVE FALSE
        <4>1. Len(p) \in Nat /\ Len(k) = 0 /\ Len(p) <= Len(k)
          BY <3>1, LenProperties, SameBeginning DEF Under, Continues, IsStrictPrefix, Texts
        <4>2. p = <<>>
          BY <4>1, EmptySeq DEF Texts
        <4>3. QED
          BY <1>1, <3>1, <4>2
      <3>2. QED
        BY <3>1
    <2>3. QED
      BY <1>3, <2>1, <2>2
  <1>4. QED
    BY <1>2, <1>3

LEMMA JoinBelow ==
  ASSUME NEW p \in Texts, NEW r \in Texts, r # <<>>
  PROVE  /\ Join(p, r) \in Texts /\ Below(Join(p, r), p) /\ Under(p, Join(p, r))
         /\ Relative(Join(p, r), p) = r
  <1>1. Join(p, r) = Folder(p) \o r
    BY DEF Join
  <1>2. /\ Join(p, r) \in Texts /\ IsStrictPrefix(Folder(p), Join(p, r))
        /\ After(Folder(p), Join(p, r)) = r
    BY <1>1, Folders, Longer
  <1>3. Below(Join(p, r), p) /\ Under(p, Join(p, r))
    BY <1>2, Folders DEF Below
  <1>4. Relative(Join(p, r), p) = r
    BY <1>2, <1>3 DEF Relative, After, Under, Continues, IsStrictPrefix
  <1>5. QED
    BY <1>2, <1>3, <1>4

LEMMA Comparable ==
  ASSUME NEW p \in Texts, NEW q \in Texts, NEW k \in Texts, Under(p, k), Under(q, k)
  PROVE  IsPrefix(p, q) \/ IsPrefix(q, p)
  <1>1. Len(p) \in Nat /\ Len(q) \in Nat
    BY LenProperties DEF Texts
  <1>2. (\A i \in 1..Len(p) : p[i] = k[i]) /\ (\A i \in 1..Len(q) : q[i] = k[i])
    BY SameBeginning DEF Under, Continues, IsStrictPrefix
  <1>3. CASE Len(p) <= Len(q)
    BY <1>1, <1>2, <1>3, SameBeginning
  <1>4. CASE Len(q) <= Len(p)
    BY <1>1, <1>2, <1>4, SameBeginning
  <1>5. QED
    BY <1>1, <1>3, <1>4

-----------------------------------------------------------------------------
(* Jobs: where the paths of the source go.                                 *)
To(j, k) == Join(j.toPrefix, Relative(k, j.fromPrefix))

LEMMA JobType ==
  ASSUME NEW j, PrefixJob(j)
  PROVE  /\ j.mode \in {"up", "down", "copy"}
         /\ j.from \in Places /\ j.to \in Places
         /\ j.fromPrefix \in Texts /\ j.toPrefix \in Texts
         /\ j.skip \in BOOLEAN /\ j.delete \in BOOLEAN
  <1>1. j.fromPrefix \in Seq(STRING) /\ j.toPrefix \in Seq(STRING)
    BY DEF PrefixJob
  <1>2. QED
    BY <1>1, StringsArePieces DEF PrefixJob

LEMMA PathType == \A k \in Paths : k \in Texts
  BY PathsAssumption, StringsArePieces

LEMMA ToFacts ==
  ASSUME NEW j, PrefixJob(j), NEW k \in Paths, Under(j.fromPrefix, k)
  PROVE  /\ To(j, k) \in Texts /\ Under(j.toPrefix, To(j, k)) /\ Below(To(j, k), j.toPrefix)
         /\ Relative(To(j, k), j.toPrefix) = Relative(k, j.fromPrefix)
  BY JobType, PathType, RelativeParts, JoinBelow DEF To

(* Two paths of the source do not go to the same place.                    *)
LEMMA ToInjective ==
  ASSUME NEW j, PrefixJob(j), NEW k \in Paths, NEW s \in Paths,
         Under(j.fromPrefix, k), Under(j.fromPrefix, s), To(j, k) = To(j, s)
  PROVE  k = s
  <1>1. Relative(k, j.fromPrefix) = Relative(s, j.fromPrefix)
    BY ToFacts
  <1>2. QED
    BY <1>1 DEF PrefixJob, OneName, Under

(* Which path of the destination has k as its source: two ways to tell.    *)
LEMMA ToHit ==
  ASSUME NEW j, PrefixJob(j), NEW k \in Paths, NEW d \in Paths,
         Under(j.fromPrefix, k), Under(j.toPrefix, d), To(j, k) \in Paths
  PROVE  To(j, k) = d <=> Relative(d, j.toPrefix) = Relative(k, j.fromPrefix)
  <1>1. /\ Relative(To(j, k), j.toPrefix) = Relative(k, j.fromPrefix)
        /\ Under(j.toPrefix, To(j, k))
    BY ToFacts
  <1>2. Relative(d, j.toPrefix) = Relative(To(j, k), j.toPrefix) => d = To(j, k)
    BY <1>1 DEF PrefixJob, OneName, Under
  <1>3. QED
    BY <1>1, <1>2

LEMMA ToHitDown ==
  ASSUME NEW j, PrefixJob(j), j.mode = "down", NEW k \in Texts, NEW d \in Paths,
         Under(j.toPrefix, d)
  PROVE  /\ Join(j.fromPrefix, d) = k => Below(k, j.fromPrefix) /\ To(j, k) = d
         /\ Below(k, j.fromPrefix) /\ To(j, k) = d => Join(j.fromPrefix, d) = k
  <1>1. j.toPrefix = <<>>
    BY DEF PrefixJob
  <1>2. d \in Texts /\ d # <<>>
    BY <1>1, PathType DEF Under, Continues, IsStrictPrefix
  <1>3. \A r \in Texts : r # <<>> => Join(<<>>, r) = r
    BY ConcatEmptySeq DEF Texts, Join, Folder
  <1>4. ASSUME Join(j.fromPrefix, d) = k
        PROVE  Below(k, j.fromPrefix) /\ To(j, k) = d
    BY <1>1, <1>2, <1>3, <1>4, JobType, JoinBelow DEF To
  <1>5. ASSUME Below(k, j.fromPrefix), To(j, k) = d
        PROVE  Join(j.fromPrefix, d) = k
    <2>1. /\ Relative(k, j.fromPrefix) \in Texts /\ Relative(k, j.fromPrefix) # <<>>
          /\ Join(j.fromPrefix, Relative(k, j.fromPrefix)) = k
      BY <1>5, JobType, Folders, RelativeParts
    <2>2. To(j, k) = Relative(k, j.fromPrefix)
      BY <1>1, <1>3, <2>1 DEF To
    <2>3. QED
      BY <1>5, <2>1, <2>2
  <1>6. QED
    BY <1>4, <1>5

(* Inside one place a destination is a source only of itself.              *)
LEMMA ToApart ==
  ASSUME NEW j, PrefixJob(j), j.from = j.to, NEW k \in Paths, Under(j.fromPrefix, k),
         To(j, k) \in Paths
  PROVE  j.mode = "copy" /\ (Under(j.fromPrefix, To(j, k)) => To(j, k) = k)
  <1>1. j.mode = "copy"
    BY DEF PrefixJob
  <1>2. CASE j.fromPrefix = j.toPrefix
    <2>1. Relative(To(j, k), j.fromPrefix) = Relative(k, j.fromPrefix)
      BY <1>2, ToFacts
    <2>2. QED
      BY <1>1, <2>1 DEF PrefixJob, OneName, Under
  <1>3. CASE ~IsPrefix(j.fromPrefix, j.toPrefix) /\ ~IsPrefix(j.toPrefix, j.fromPrefix)
    BY <1>1, <1>3, ToFacts, JobType, Comparable
  <1>4. QED
    BY <1>2, <1>3 DEF PrefixJob

-----------------------------------------------------------------------------
(* What places hold, and what listings say of it.                          *)
StoreType == [Places -> [Paths -> Contents]]
ListingType == [Paths -> 0..3]

LEMMA Sizes == \A c \in Contents : Size(c) \in 0..3 /\ (Size(c) = 0 <=> c = "none")
  BY DEF Size, Contents

Truth(held, prefix) == [k \in Paths |-> IF Under(prefix, k) THEN Size(held[k]) ELSE 0]

(* A complete listing.                                                     *)
LEMMA ListingIsTrue ==
  ASSUME store \in StoreType, NEW p \in Places, NEW prefix, prefix \notin Paths
  PROVE  Listing(p, prefix) = Truth(store[p], prefix)
  <1> DEFINE held == {k \in Paths : store[p][k] # "none"}
             under == {k \in held : Continues(k, prefix)}
             found == IF under = {} /\ Looked(p, job.mode, sdk) THEN held \cap {prefix} ELSE under
  <1>1. found = under
    BY DEF Looked
  <1>2. \A k \in Paths : store[p][k] \in Contents
    BY DEF StoreType
  <1>3. \A k \in Paths :
          (IF k \in under THEN Size(store[p][k]) ELSE 0)
            = IF Under(prefix, k) THEN Size(store[p][k]) ELSE 0
    BY <1>2, Sizes DEF Under
  <1>4. Listing(p, prefix) = [k \in Paths |-> IF k \in found THEN Size(store[p][k]) ELSE 0]
    BY DEF Listing
  <1> HIDE DEF found, under
  <1>5. Listing(p, prefix) = [k \in Paths |-> IF k \in under THEN Size(store[p][k]) ELSE 0]
    BY <1>1, <1>4
  <1>6. QED
    BY <1>3, <1>5 DEF Truth

LEMMA TruthListed ==
  ASSUME NEW held \in [Paths -> Contents], NEW prefix
  PROVE  /\ Truth(held, prefix) \in ListingType
         /\ Listed(Truth(held, prefix)) = {k \in Paths : Under(prefix, k) /\ held[k] # "none"}
         /\ \A k \in Paths : Under(prefix, k) => Truth(held, prefix)[k] = Size(held[k])
  <1>1. \A k \in Paths : Size(held[k]) \in 0..3 /\ (Size(held[k]) = 0 <=> held[k] = "none")
    BY Sizes
  <1>2. \A k \in Paths : Truth(held, prefix)[k] = IF Under(prefix, k) THEN Size(held[k]) ELSE 0
    BY DEF Truth
  <1>3. Truth(held, prefix) \in ListingType
    BY <1>1 DEF Truth, ListingType
  <1>4. \A k \in Paths : Truth(held, prefix)[k] # 0 <=> Under(prefix, k) /\ held[k] # "none"
    BY <1>1, <1>2
  <1>5. Listed(Truth(held, prefix)) = {k \in Paths : Under(prefix, k) /\ held[k] # "none"}
    BY <1>4 DEF Listed
  <1>6. QED
    BY <1>2, <1>3, <1>5

(* Any listing: some of the truth.                                         *)
Part(listing, whole) ==
  listing \in ListingType /\ \A k \in Paths : listing[k] = whole[k] \/ listing[k] = 0

LEMMA ListingsAreParts ==
  ASSUME store \in StoreType, NEW p \in Places, NEW prefix, prefix \notin Paths,
         NEW listing \in Listings(p, prefix)
  PROVE  Part(listing, Truth(store[p], prefix))
  <1> DEFINE all == Listing(p, prefix)
  <1>1. all = Truth(store[p], prefix) /\ all \in ListingType
    <2>1. store[p] \in [Paths -> Contents]
      BY DEF StoreType
    <2>2. QED
      BY <2>1, ListingIsTrue, TruthListed
  <1>2. listing = all \/ \E kept : listing = Cut(all, kept)
    BY DEF Listings
  <1> HIDE DEF all
  <1>3. CASE listing = all
    BY <1>1, <1>3 DEF Part
  <1>4. ASSUME NEW kept, listing = Cut(all, kept)
        PROVE  Part(listing, all)
    BY <1>1, <1>4 DEF Part, Cut, ListingType
  <1>5. QED
    BY <1>1, <1>2, <1>3, <1>4

LEMMA PartListed ==
  ASSUME NEW held \in [Paths -> Contents], NEW prefix, NEW listing,
         Part(listing, Truth(held, prefix))
  PROVE  \A k \in Listed(listing) :
           k \in Paths /\ Under(prefix, k) /\ held[k] # "none" /\ listing[k] = Size(held[k])
  <1>1. \A k \in Listed(listing) : k \in Paths /\ listing[k] # 0 /\ listing[k] = Truth(held, prefix)[k]
    BY DEF Part, Listed
  <1>2. \A k \in Listed(listing) : k \in Listed(Truth(held, prefix))
    BY <1>1 DEF Listed
  <1>3. QED
    BY <1>1, <1>2, TruthListed

(* Extra is what the deletions are for: listed, and the destination of     *)
(* nothing below the prefix of the source; and all that is the destination *)
(* of no source at all.                                                    *)
LEMMA ExtraIs ==
  ASSUME PrefixJob(job), NEW listing,
         \A d \in Listed(listing) : Under(job.toPrefix, d),
         \A k \in Listed(srcSeen) : Under(job.fromPrefix, k) /\ To(job, k) \in Paths
  PROVE  /\ \A d \in Extra(listing) :
              /\ d \in Listed(listing)
              /\ \A k \in Listed(srcSeen) : Below(k, job.fromPrefix) => To(job, k) # d
         /\ \A d \in Listed(listing) :
              (\A k \in Listed(srcSeen) : To(job, k) # d) => d \in Extra(listing)
  <1>1. Listed(listing) \subseteq Paths /\ Listed(srcSeen) \subseteq Paths
    BY DEF Listed
  <1>2. CASE job.mode = "down" /\ sdk # "node"
    <2>1. Extra(listing) = {d \in Listed(listing) : Join(job.fromPrefix, d) \notin Listed(srcSeen)}
      BY <1>2 DEF Extra
    <2>2. ASSUME NEW d \in Listed(listing), Join(job.fromPrefix, d) \notin Listed(srcSeen),
                 NEW k \in Listed(srcSeen), Below(k, job.fromPrefix)
          PROVE  To(job, k) # d
      BY <1>1, <1>2, <2>2, ToHitDown, PathType
    <2>3. ASSUME NEW d \in Listed(listing), Join(job.fromPrefix, d) \in Listed(srcSeen)
          PROVE  \E k \in Listed(srcSeen) : To(job, k) = d
      BY <1>1, <1>2, <2>3, ToHitDown, PathType
    <2>4. QED
      BY <2>1, <2>2, <2>3
  <1>3. CASE job.mode = "up"
    <2>1. Extra(listing) = Listed(listing) \ {To(job, k) : k \in Listed(srcSeen)}
      BY <1>3 DEF Extra, Dest, To
    <2>2. QED
      BY <2>1
  <1>4. CASE job.mode # "up" /\ ~(job.mode = "down" /\ sdk # "node")
    <2>1. ASSUME NEW d \in Listed(listing)
          PROVE  Relative(d, job.toPrefix) \notin {Relative(k, job.fromPrefix) : k \in Listed(srcSeen)}
                   <=> \A k \in Listed(srcSeen) : To(job, k) # d
      BY <1>1, ToHit
    <2>2. Extra(listing) = {d \in Listed(listing) : Relative(d, job.toPrefix) \notin
                              {Relative(k, job.fromPrefix) : k \in Listed(srcSeen)}}
      BY <1>4 DEF Extra
    <2>3. QED
      BY <2>1, <2>2
  <1>5. QED
    BY <1>2, <1>3, <1>4

(* What is skipped is at its destination, in the size of the source.       *)
LEMMA SkippedIs ==
  ASSUME PrefixJob(job), store \in StoreType,
         NEW k \in Listed(srcSeen), Under(job.fromPrefix, k), To(job, k) \in Paths,
         srcSeen[k] = Size(store[job.from][k]),
         \A d \in Listed(dstSeen) : Under(job.toPrefix, d),
         LateWalk \/ (To(job, k) \in Listed(dstSeen) =>
                        dstSeen[To(job, k)] = Size(store[job.to][To(job, k)])),
         Skipped(k)
  PROVE  job.skip /\ Size(store[job.to][To(job, k)]) = Size(store[job.from][k])
  <1>1. Listed(dstSeen) \subseteq Paths /\ k \in Paths
    BY DEF Listed
  <1>2. job.skip /\ Size(store[job.from][k]) \in TargetSizes(k)
    BY DEF Skipped, SourceSize
  <1>3. CASE job.mode = "copy"
    <2>1. PICK d \in Listed(dstSeen) :
            /\ Relative(d, job.toPrefix) = Relative(k, job.fromPrefix)
            /\ Size(store[job.from][k]) = dstSeen[d]
      BY <1>2, <1>3 DEF TargetSizes
    <2>2. d = To(job, k)
      BY <1>1, <2>1, ToHit
    <2>3. QED
      BY <1>2, <1>3, <2>1, <2>2 DEF LateWalk
  <1>4. CASE job.mode = "up"
    <2>1. To(job, k) \in Listed(dstSeen) /\ Size(store[job.from][k]) = dstSeen[To(job, k)]
      BY <1>2, <1>4 DEF TargetSizes, Dest, To
    <2>2. QED
      BY <1>2, <1>4, <2>1 DEF LateWalk
  <1>5. CASE job.mode = "down" /\ Python
    <2>1. PICK d \in Listed(dstSeen) :
            /\ Join(job.fromPrefix, d) = k
            /\ Size(store[job.from][k]) = Size(store[job.to][d])
      BY <1>2, <1>5 DEF TargetSizes
    <2>2. d = To(job, k)
      BY <1>1, <1>5, <2>1, ToHitDown, PathType
    <2>3. QED
      BY <1>2, <2>1, <2>2
  <1>6. CASE job.mode = "down" /\ ~Python
    BY <1>2, <1>6 DEF TargetSizes, Dest, To
  <1>7. QED
    BY <1>3, <1>4, <1>5, <1>6, JobType

-----------------------------------------------------------------------------
(* The invariant.                                                          *)
Sources == Listed(srcSeen)
Aimed(d) == \E k \in Sources : To(job, k) = d
Fed(d) == \E k \in Sources : Below(k, job.fromPrefix) /\ To(job, k) = d

TypeInv == TypeOK /\ PrefixJob(job) /\ IsFiniteSet(active)

(* What the plan is about: listed sources that have a place to go to, and  *)
(* paths that continue the destination prefix and that nothing below the   *)
(* source prefix goes to.                                                  *)
PlanInv ==
  /\ phase \in {"transfer", "delete", "done"} => seen = Sides
  /\ phase # "transfer" => active = {}
  /\ phase \in {"idle", "scan"} => todo = {} /\ doomed = {}
  /\ todo \subseteq Sources
  /\ \A k \in Sources : Under(job.fromPrefix, k) /\ To(job, k) \in Paths
  /\ \A d \in Listed(dstSeen) : Under(job.toPrefix, d)
  /\ \A d \in doomed : Under(job.toPrefix, d) /\ ~Fed(d) /\ job.delete
  /\ ~LateWalk => doomed \subseteq Listed(dstSeen)
  /\ phase = "transfer" /\ job.delete /\ ~LateWalk =>
       \A d \in Listed(dstSeen) : ~Aimed(d) => d \in doomed

(* Whatever the source holds has a place to go to.                         *)
HeldInv ==
  \A k \in Paths :
    store[job.from][k] # "none" /\ Under(job.fromPrefix, k) => To(job, k) \in Paths

(* An arrival is there, and the plan has nothing to do with it.            *)
ArrivalInv ==
  \A k \in arrivals :
    /\ seen = Sides /\ dstSeen[k] = 0 /\ ~Aimed(k)
    /\ ~LateWalk => store[job.to][k] # "none"

PathInv == TypeInv /\ PlanInv /\ HeldInv /\ ArrivalInv

-----------------------------------------------------------------------------
(* Initially.                                                              *)
LEMMA InitPath ==
  ASSUME \A s \in Scenarios : PrefixScenario(s), Init
  PROVE  PathInv
  <1>1. PICK s \in Scenarios : job = s.job /\ store = s.store
    BY DEF Init
  <1>2. PrefixScenario(s)
    BY <1>1
  <1>3. PrefixJob(job) /\ store \in StoreType
    BY <1>1, <1>2 DEF PrefixScenario, StoreType
  <1>4. Listed(NotSeen) = {} /\ NotSeen \in ListingType
    BY DEF Listed, NotSeen, ListingType
  <1>5. IsFiniteSet({}) /\ Cardinality({}) = 0
    BY FS_EmptySet
  <1>6. TypeOK
    <2>1. Cardinality(active) <= IF Python THEN Workers ELSE 1
      BY <1>5, BoundsAssumption DEF Init
    <2>2. runs \in 0..MaxRuns /\ foreign \in 0..MaxForeign
      BY BoundsAssumption DEF Init
    <2>3. QED
      BY <1>3, <1>4, <2>1, <2>2 DEF Init, TypeOK, StoreType, ListingType
  <1>7. TypeInv
    BY <1>3, <1>5, <1>6 DEF Init, TypeInv
  <1>8. PlanInv
    BY <1>4 DEF Init, PlanInv, Sources
  <1>9. HeldInv
    BY <1>1, <1>2 DEF PrefixScenario, HeldInv, To, Under
  <1>10. ArrivalInv
    BY DEF Init, ArrivalInv
  <1>11. QED
    BY <1>7, <1>8, <1>9, <1>10 DEF PathInv

(* The job and the SDK stay what they are.                                 *)
LEMMA Fixed ==
  ASSUME [Next]_vars
  PROVE  sdk' = sdk /\ job' = job /\ (LateWalk' <=> LateWalk) /\ Sides' = Sides
  <1>1. sdk' = sdk /\ job' = job
    BY DEF Next, Step, Begin, Scan, Plan, StartTransfer, EndTransfer, DeleteOne, GiveUp,
           BeginDelete, LateWalkFails, End, ScanFails, Interrupt, Cancel, Foreign, Stopped, vars
  <1>2. QED
    BY <1>1 DEF LateWalk, Sides, Python

(* A listing of either side.                                               *)
LEMMA ScanTrue ==
  ASSUME TypeInv, NEW side \in {"src", "dst"}, Scan(side)
  PROVE  /\ side = "src" =>
              /\ Part(srcSeen', Truth(store[job.from], job.fromPrefix)) /\ dstSeen' = dstSeen
              /\ "src" \notin missed' => srcSeen' = Truth(store[job.from], job.fromPrefix)
         /\ side = "dst" =>
              /\ Part(dstSeen', Truth(store[job.to], job.toPrefix)) /\ srcSeen' = srcSeen
              /\ "dst" \notin missed' => dstSeen' = Truth(store[job.to], job.toPrefix)
         /\ missed \subseteq missed' /\ missed' \subseteq missed \cup {side}
         /\ store[job.from] \in [Paths -> Contents] /\ store[job.to] \in [Paths -> Contents]
  <1>1. store \in StoreType /\ job.from \in Places /\ job.to \in Places
    BY JobType DEF TypeInv, TypeOK, StoreType
  <1>2. job.fromPrefix \notin Paths /\ job.toPrefix \notin Paths
    BY DEF TypeInv, PrefixJob
  <1> DEFINE place == IF side = "src" THEN job.from ELSE job.to
             prefix == IF side = "src" THEN job.fromPrefix ELSE job.toPrefix
  <1>3. PICK listing \in Listings(place, prefix) :
          /\ IF side = "src"
             THEN srcSeen' = listing /\ UNCHANGED dstSeen
             ELSE dstSeen' = listing /\ UNCHANGED srcSeen
          /\ missed' = IF listing = Listing(place, prefix) THEN missed ELSE missed \cup {side}
    BY DEF Scan
  <1>4. place \in Places /\ prefix \notin Paths
    BY <1>1, <1>2
  <1>5. Part(listing, Truth(store[place], prefix)) /\ Listing(place, prefix) = Truth(store[place], prefix)
    BY <1>1, <1>4, ListingsAreParts, ListingIsTrue
  <1>6. side \notin missed' => listing = Truth(store[place], prefix)
    BY <1>3, <1>5
  <1>7. missed \subseteq missed' /\ missed' \subseteq missed \cup {side}
    BY <1>3
  <1>8. CASE side = "src"
    BY <1>1, <1>3, <1>5, <1>6, <1>7, <1>8 DEF StoreType
  <1>9. CASE side = "dst"
    BY <1>1, <1>3, <1>5, <1>6, <1>7, <1>9 DEF StoreType
  <1>10. QED
    BY <1>8, <1>9

(* A transfer writes, or leaves alone, one destination.                    *)
LEMMA TransferWrites ==
  ASSUME PathInv, NEW k \in Paths, EndTransfer(k)
  PROVE  /\ k \in Sources /\ k \in todo /\ phase = "transfer"
         /\ To(job, k) \in Paths /\ store' \in StoreType
         /\ \A q \in Places, e \in Paths : q # job.to \/ e # To(job, k) => store'[q][e] = store[q][e]
         /\ \/ /\ store'[job.to][To(job, k)] = store[job.from][k]
               /\ store[job.from][k] # "none" /\ failed' \in BOOLEAN
            \/ store'[job.to][To(job, k)] = store[job.to][To(job, k)] /\ failed'
            \/ /\ store'[job.to][To(job, k)] = "part" /\ failed' /\ job.mode = "down"
               /\ store[job.from][k] # "none"
         /\ failed => failed'
  <1>1. k \in Sources /\ k \in todo /\ phase = "transfer" /\ To(job, k) \in Paths
    BY DEF EndTransfer, PathInv, TypeInv, TypeOK, PlanInv
  <1>2. PICK c \in Contents, ok \in BOOLEAN :
          /\ \/ c = store[job.from][k] /\ c # "none" /\ (ok \/ job.mode # "down")
             \/ c = store[job.to][Dest(k)] /\ ~ok
             \/ c = "part" /\ ~ok /\ Python /\ job.mode = "down" /\ store[job.from][k] # "none"
          /\ store' = [store EXCEPT ![job.to][Dest(k)] = c]
          /\ failed' = (failed \/ ~ok)
    BY DEF EndTransfer
  <1>3. Dest(k) = To(job, k)
    BY DEF Dest, To
  <1>4. store \in StoreType /\ job.to \in Places /\ failed \in BOOLEAN
    BY JobType DEF PathInv, TypeInv, TypeOK, StoreType
  <1>5. /\ store' \in StoreType /\ store'[job.to][To(job, k)] = c
        /\ \A q \in Places, e \in Paths : q # job.to \/ e # To(job, k) => store'[q][e] = store[q][e]
    BY <1>1, <1>2, <1>3, <1>4 DEF StoreType
  <1>6. (failed => failed') /\ failed' \in BOOLEAN /\ (~ok => failed')
    BY <1>2, <1>4
  <1>7. QED
    BY <1>1, <1>2, <1>3, <1>5, <1>6

(* A deletion takes at most one doomed path away.                          *)
LEMMA DeletionRemoves ==
  ASSUME PathInv, NEW d \in Paths, DeleteOne(d)
  PROVE  /\ d \in doomed /\ phase = "delete" /\ store' \in StoreType
         /\ \A q \in Places, e \in Paths : q # job.to \/ e # d => store'[q][e] = store[q][e]
         /\ \/ store'[job.to][d] = "none"
            \/ store' = store /\ (failed' \/ "dst" \in missed')
         /\ failed' \in BOOLEAN /\ (failed => failed')
         /\ missed \subseteq missed' /\ missed' \subseteq missed \cup {"dst"}
  <1>1. PICK gone \in BOOLEAN, ok \in BOOLEAN :
          /\ store' = IF gone THEN [store EXCEPT ![job.to][d] = "none"] ELSE store
          /\ failed' = (failed \/ ~ok)
          /\ missed' = IF ok /\ ~gone THEN missed \cup {"dst"} ELSE missed
    BY DEF DeleteOne
  <1>2. store \in StoreType /\ job.to \in Places /\ failed \in BOOLEAN /\ "none" \in Contents
    BY JobType DEF PathInv, TypeInv, TypeOK, StoreType, Contents
  <1>3. /\ d \in doomed /\ phase = "delete" /\ failed' \in BOOLEAN /\ (failed => failed')
        /\ missed \subseteq missed' /\ missed' \subseteq missed \cup {"dst"}
    BY <1>1, <1>2 DEF DeleteOne
  <1>4. CASE gone
    <2>1. store' = [store EXCEPT ![job.to][d] = "none"]
      BY <1>1, <1>4
    <2>2. /\ store' \in StoreType /\ store'[job.to][d] = "none"
          /\ \A q \in Places, e \in Paths : q # job.to \/ e # d => store'[q][e] = store[q][e]
      BY <1>2, <2>1 DEF StoreType
    <2>3. QED
      BY <1>3, <2>2
  <1>5. CASE ~gone
    BY <1>1, <1>2, <1>3, <1>5
  <1>6. QED
    BY <1>4, <1>5

-----------------------------------------------------------------------------
(* Every step keeps the types.                                             *)
LEMMA TypeStep ==
  ASSUME PathInv, [Next]_vars
  PROVE  TypeInv'
  <1> USE DEF TypeInv
  <1>1. TypeOK /\ PrefixJob(job) /\ IsFiniteSet(active)
    BY DEF PathInv
  <1>2. job' = job /\ sdk' = sdk /\ PrefixJob(job')
    BY <1>1, Fixed
  <1>3. runs \in Nat /\ foreign \in Nat /\ MaxRuns \in Nat /\ MaxForeign \in Nat
        /\ Workers \in Nat /\ Workers >= 1
    BY <1>1, BoundsAssumption DEF TypeOK
  <1>4. ASSUME active' = {}
        PROVE  IsFiniteSet(active') /\ Cardinality(active') <= IF Python' THEN Workers ELSE 1
    <2>1. IsFiniteSet(active') /\ Cardinality(active') = 0
      BY <1>4, FS_EmptySet
    <2>2. QED
      BY <1>3, <2>1
  <1>5. ASSUME active' = active
        PROVE  IsFiniteSet(active') /\ Cardinality(active') <= IF Python' THEN Workers ELSE 1
    BY <1>1, <1>2, <1>5 DEF TypeOK, Python
  <1>6. CASE Begin
    <2>1. active' = {} /\ NotSeen \in [Paths -> 0..3]
      BY <1>6 DEF Begin, NotSeen
    <2>2. runs' \in 0..MaxRuns
      BY <1>3, <1>6 DEF Begin
    <2>3. QED
      BY <1>1, <1>2, <1>4, <1>6, <2>1, <2>2 DEF Begin, TypeOK
  <1>7. ASSUME NEW side \in {"src", "dst"}, Scan(side)
        PROVE  TypeInv'
    <2>1. srcSeen' \in ListingType /\ dstSeen' \in ListingType
      <3>1. /\ side = "src" => srcSeen' \in ListingType /\ dstSeen' = dstSeen
            /\ side = "dst" => dstSeen' \in ListingType /\ srcSeen' = srcSeen
        BY <1>1, <1>7, ScanTrue DEF Part
      <3>2. srcSeen \in ListingType /\ dstSeen \in ListingType
        BY <1>1 DEF TypeOK, ListingType
      <3>3. QED
        BY <3>1, <3>2
    <2>2. active' = active /\ missed' \subseteq {"src", "dst"}
      BY <1>1, <1>7, ScanTrue DEF Scan, TypeOK
    <2>3. QED
      BY <1>1, <1>2, <1>5, <1>7, <2>1, <2>2 DEF Scan, TypeOK, ListingType, history
  <1>8. CASE Plan
    <2>1. Extra(dstSeen) \subseteq Paths /\ Listed(srcSeen) \subseteq Paths
      BY DEF Extra, Listed
    <2>2. /\ todo' \subseteq Paths /\ active' \subseteq todo' /\ doomed' \subseteq Paths
          /\ active' = active /\ failed' \in BOOLEAN
          /\ phase' \in {"transfer", "failed"}
      <3>1. active = {}
        BY <1>8 DEF Plan, PathInv, PlanInv
      <3>2. QED
        BY <1>1, <1>8, <2>1, <3>1 DEF Plan, TypeOK
    <2>3. QED
      BY <1>1, <1>2, <1>5, <1>8, <2>2 DEF Plan, TypeOK, history
  <1>9. ASSUME NEW k \in Paths, StartTransfer(k)
        PROVE  TypeInv'
    <2>1. CASE active' = active \cup {k} /\ todo' = todo
      <3>1. IsFiniteSet(active') /\ Cardinality(active') = Cardinality(active) + 1
        BY <1>1, <1>9, <2>1, FS_AddElement DEF StartTransfer
      <3>2. Cardinality(active) \in Nat
        BY <1>1, FS_CardinalityType
      <3>3. Cardinality(active') <= IF Python' THEN Workers ELSE 1
        BY <1>2, <1>3, <1>9, <3>1, <3>2 DEF StartTransfer, PoolSize, Python
      <3>4. QED
        BY <1>1, <1>2, <1>9, <2>1, <3>1, <3>3 DEF StartTransfer, TypeOK, history
    <2>2. CASE todo' = todo \ {k} /\ active' = active
      BY <1>1, <1>2, <1>5, <1>9, <2>2 DEF StartTransfer, TypeOK, history
    <2>3. QED
      BY <1>9, <2>1, <2>2 DEF StartTransfer
  <1>10. ASSUME NEW k \in Paths, EndTransfer(k)
         PROVE  TypeInv'
    <2>1. store' \in StoreType /\ failed' \in BOOLEAN
      <3>1. store' \in StoreType
        BY <1>10, TransferWrites
      <3>2. failed' \in BOOLEAN
        BY <1>1, <1>10 DEF EndTransfer, TypeOK
      <3>3. QED
        BY <3>1, <3>2
    <2>2. IsFiniteSet(active') /\ Cardinality(active') <= Cardinality(active)
      <3>1. active' \subseteq active
        BY <1>10 DEF EndTransfer
      <3>2. QED
        BY <1>1, <3>1, FS_Subset
    <2>3. Cardinality(active') <= IF Python' THEN Workers ELSE 1
      <3>1. Cardinality(active') \in Nat /\ Cardinality(active) \in Nat
        BY <1>1, <2>2, FS_CardinalityType
      <3>2. QED
        BY <1>1, <1>2, <1>3, <2>2, <3>1 DEF TypeOK, Python
    <2>4. QED
      BY <1>1, <1>2, <1>10, <2>1, <2>2, <2>3 DEF EndTransfer, TypeOK, StoreType, history
  <1>11. ASSUME NEW d \in Paths, DeleteOne(d)
         PROVE  TypeInv'
    <2>1. /\ store' \in StoreType /\ failed' \in BOOLEAN /\ active' = active
          /\ missed' \subseteq {"src", "dst"}
      BY <1>1, <1>11, DeletionRemoves DEF DeleteOne, TypeOK
    <2>2. QED
      BY <1>1, <1>2, <1>5, <1>11, <2>1 DEF DeleteOne, TypeOK, StoreType, history
  <1>12. CASE GiveUp \/ LateWalkFails \/ End \/ ScanFails \/ Interrupt \/ Stopped \/ UNCHANGED vars
    <2>1. active' = active
      BY <1>12 DEF GiveUp, LateWalkFails, End, ScanFails, Interrupt, Stopped, vars, progress
    <2>2. /\ phase' \in {"idle", "scan", "transfer", "delete", "done", "failed"}
          /\ failed' \in BOOLEAN
      BY <1>1, <1>12 DEF GiveUp, LateWalkFails, End, ScanFails, Interrupt, Stopped, vars, progress, TypeOK
    <2>3. QED
      BY <1>1, <1>2, <1>5, <1>12, <2>1, <2>2
         DEF GiveUp, LateWalkFails, End, ScanFails, Interrupt, Stopped, vars, progress, history, TypeOK
  <1>13. CASE BeginDelete
    <2>1. \A listing : Extra(listing) \subseteq Paths
      BY DEF Extra, Listed
    <2>2. active' = active /\ doomed' \subseteq Paths /\ missed' \subseteq {"src", "dst"}
      <3>1. CASE job.delete /\ LateWalk
        <4>1. PICK listing \in Listings(job.to, job.toPrefix) :
                /\ doomed' = Extra(listing)
                /\ missed' = IF listing = Listing(job.to, job.toPrefix) THEN missed
                             ELSE missed \cup {"dst"}
          BY <1>13, <3>1 DEF BeginDelete
        <4>2. doomed' \subseteq Paths
          BY <4>1, <2>1
        <4>3. missed' \subseteq {"src", "dst"}
          BY <1>1, <4>1 DEF TypeOK
        <4>4. QED
          BY <1>13, <4>2, <4>3 DEF BeginDelete
      <3>2. CASE ~(job.delete /\ LateWalk)
        BY <1>1, <1>13, <3>2 DEF BeginDelete, TypeOK
      <3>3. QED
        BY <3>1, <3>2
    <2>3. QED
      BY <1>1, <1>2, <1>5, <1>13, <2>2 DEF BeginDelete, TypeOK, history
  <1>14. ASSUME NEW p \in Places, NEW k \in Paths, NEW c \in {"none", "y"}, Foreign(p, k, c)
         PROVE  TypeInv'
    <2>1. store' \in [Places -> [Paths -> Contents]]
      BY <1>1, <1>14 DEF Foreign, TypeOK, Contents
    <2>2. foreign' \in 0..MaxForeign /\ arrivals' \subseteq Paths /\ active' = active
      BY <1>1, <1>3, <1>14 DEF Foreign, TypeOK, progress
    <2>3. QED
      BY <1>1, <1>2, <1>5, <1>14, <2>1, <2>2 DEF Foreign, TypeOK, progress
  <1>15. CASE Cancel
    <2>1. active' = active /\ todo' \subseteq Paths /\ active' \subseteq todo' /\ doomed' \subseteq Paths
      BY <1>1, <1>15 DEF Cancel, TypeOK, PathInv, PlanInv
    <2>2. QED
      BY <1>1, <1>2, <1>5, <1>15, <2>1 DEF Cancel, TypeOK, history
  <1>16. QED
    BY <1>6, <1>7, <1>8, <1>9, <1>10, <1>11, <1>12, <1>13, <1>14, <1>15 DEF Next, Step

-----------------------------------------------------------------------------
(* Every step keeps to the plan.                                           *)
LEMMA PlanStep ==
  ASSUME PathInv, [Next]_vars
  PROVE  PlanInv'
  <1>1. job' = job /\ sdk' = sdk /\ (LateWalk' <=> LateWalk) /\ Sides' = Sides /\ PrefixJob(job)
    BY Fixed DEF PathInv, TypeInv
  <1>2. PlanInv /\ store \in StoreType /\ job.from \in Places /\ job.to \in Places
    BY <1>1, JobType DEF PathInv, TypeInv, TypeOK, StoreType
  <1>3. CASE Begin
    <2>1. Listed(NotSeen) = {}
      BY DEF Listed, NotSeen
    <2>2. Sources' = {} /\ Listed(dstSeen)' = {}
      BY <1>3, <2>1 DEF Begin, Sources
    <2>3. phase' \in {"scan", "failed"} /\ todo' = {} /\ active' = {} /\ doomed' = {}
      BY <1>3 DEF Begin
    <2>4. QED
      BY <2>2, <2>3 DEF PlanInv
  <1>4. ASSUME NEW side \in {"src", "dst"}, Scan(side)
        PROVE  PlanInv'
    <2>1. /\ side = "src" => Part(srcSeen', Truth(store[job.from], job.fromPrefix)) /\ dstSeen' = dstSeen
          /\ side = "dst" => Part(dstSeen', Truth(store[job.to], job.toPrefix)) /\ srcSeen' = srcSeen
          /\ store[job.from] \in [Paths -> Contents] /\ store[job.to] \in [Paths -> Contents]
      BY <1>4, ScanTrue DEF PathInv
    <2>2. side = "src" =>
            \A k \in Listed(srcSeen') : Under(job.fromPrefix, k) /\ To(job, k) \in Paths
      BY <2>1, PartListed DEF PathInv, HeldInv
    <2>3. side = "dst" => \A d \in Listed(dstSeen') : Under(job.toPrefix, d)
      BY <2>1, PartListed
    <2>4. \A k \in Listed(srcSeen') : Under(job.fromPrefix, k) /\ To(job, k) \in Paths
      BY <1>2, <2>1, <2>2 DEF PlanInv, Sources
    <2>5. \A d \in Listed(dstSeen') : Under(job.toPrefix, d)
      BY <1>2, <2>1, <2>3 DEF PlanInv
    <2>6. /\ phase' = "scan" /\ todo' = {} /\ active' = {} /\ doomed' = {}
      BY <1>2, <1>4 DEF Scan, PlanInv
    <2>7. QED
      BY <1>1, <2>4, <2>5, <2>6 DEF PlanInv, Sources
  <1>5. CASE Plan
    <2>1. /\ \A d \in Extra(dstSeen) :
               /\ d \in Listed(dstSeen)
               /\ \A k \in Listed(srcSeen) : Below(k, job.fromPrefix) => To(job, k) # d
          /\ \A d \in Listed(dstSeen) :
               (\A k \in Listed(srcSeen) : To(job, k) # d) => d \in Extra(dstSeen)
      BY <1>1, <1>2, ExtraIs DEF PlanInv, Sources
    <2>2. /\ \A d \in Extra(dstSeen) : d \in Listed(dstSeen) /\ ~Fed(d)
          /\ \A d \in Listed(dstSeen) : ~Aimed(d) => d \in Extra(dstSeen)
      BY <2>1 DEF Fed, Aimed, Sources
    <2>3. UNCHANGED <<srcSeen, dstSeen, seen, active>> /\ active = {} /\ seen = Sides
      BY <1>2, <1>5 DEF Plan, PlanInv
    <2>4. CASE phase' = "failed" /\ UNCHANGED <<todo, doomed>>
      BY <1>1, <1>2, <2>3, <2>4 DEF PlanInv, Sources, Aimed, Fed
    <2>5. CASE /\ phase' = "transfer"
               /\ todo' = {k \in Listed(srcSeen) : Python => ~Skipped(k)}
               /\ doomed' = IF job.delete /\ ~LateWalk THEN Extra(dstSeen) ELSE {}
      <3>1. todo' \subseteq Sources
        BY <2>5 DEF Sources
      <3>2. /\ \A d \in doomed' : d \in Listed(dstSeen) /\ Under(job.toPrefix, d) /\ ~Fed(d) /\ job.delete
            /\ job.delete /\ ~LateWalk => \A d \in Listed(dstSeen) : ~Aimed(d) => d \in doomed'
        BY <1>2, <2>2, <2>5 DEF PlanInv
      <3>3. QED
        BY <1>1, <1>2, <2>3, <2>5, <3>1, <3>2 DEF PlanInv, Sources, Aimed, Fed
    <2>6. QED
      BY <1>5, <2>4, <2>5 DEF Plan
  <1>6. ASSUME NEW k \in Paths, StartTransfer(k) \/ EndTransfer(k)
        PROVE  PlanInv'
    BY <1>1, <1>2, <1>6 DEF StartTransfer, EndTransfer, PlanInv, Sources, Aimed, Fed
  <1>7. ASSUME NEW d \in Paths, DeleteOne(d)
        PROVE  PlanInv'
    BY <1>1, <1>2, <1>7 DEF DeleteOne, PlanInv, Sources, Aimed, Fed
  <1>8. CASE GiveUp \/ LateWalkFails \/ End \/ ScanFails \/ Interrupt \/ Stopped \/ UNCHANGED vars
    BY <1>1, <1>2, <1>8 DEF GiveUp, LateWalkFails, End, ScanFails, Interrupt, Stopped, TransfersOver,
         vars, progress, PlanInv, Sources, Aimed, Fed
  <1>9. CASE BeginDelete
    <2>1. ASSUME NEW listing \in Listings(job.to, job.toPrefix)
          PROVE  \A d \in Extra(listing) : Under(job.toPrefix, d) /\ ~Fed(d)
      <3>1. \A d \in Listed(listing) : Under(job.toPrefix, d)
        BY <1>1, <1>2, ListingsAreParts, PartListed DEF PrefixJob, StoreType
      <3>2. \A d \in Extra(listing) :
              /\ d \in Listed(listing)
              /\ \A k \in Listed(srcSeen) : Below(k, job.fromPrefix) => To(job, k) # d
        BY <1>1, <1>2, <3>1, ExtraIs DEF PlanInv, Sources
      <3>3. QED
        BY <3>1, <3>2 DEF Fed, Sources
    <2>2. \A d \in doomed' : Under(job.toPrefix, d) /\ ~Fed(d) /\ job.delete
      BY <1>2, <1>9, <2>1 DEF BeginDelete, PlanInv
    <2>3. /\ ~LateWalk => doomed' = doomed
          /\ phase = "transfer" /\ phase' = "delete" /\ active' = {}
          /\ UNCHANGED <<seen, srcSeen, dstSeen, todo>>
      BY <1>9 DEF BeginDelete, TransfersOver
    <2>4. QED
      BY <1>1, <1>2, <2>2, <2>3 DEF PlanInv, Sources, Aimed, Fed
  <1>10. ASSUME NEW p \in Places, NEW k \in Paths, NEW c \in {"none", "y"}, Foreign(p, k, c)
         PROVE  PlanInv'
    BY <1>1, <1>2, <1>10 DEF Foreign, progress, PlanInv, Sources, Aimed, Fed
  <1>11. CASE Cancel
    <2>1. /\ todo' \subseteq Sources /\ doomed' \subseteq doomed
          /\ \/ phase = "transfer" /\ doomed' = doomed
             \/ phase = "delete"
          /\ UNCHANGED <<phase, seen, srcSeen, dstSeen, active>>
      BY <1>2, <1>11 DEF Cancel, PathInv, TypeInv, TypeOK, PlanInv
    <2>2. QED
      BY <1>1, <1>2, <2>1 DEF PlanInv, Sources, Aimed, Fed
  <1>12. QED
    BY <1>3, <1>4, <1>5, <1>6, <1>7, <1>8, <1>9, <1>10, <1>11 DEF Next, Step

(* Steps that leave the places as they are, and those that do not.         *)
LEMMA StoreSteps ==
  ASSUME [Next]_vars
  PROVE  \/ store' = store
         \/ \E k \in Paths : EndTransfer(k) \/ DeleteOne(k)
         \/ \E p \in Places, k \in Paths, c \in {"none", "y"} : Foreign(p, k, c)
  BY DEF Next, Step, Begin, Scan, Plan, StartTransfer, GiveUp, BeginDelete, LateWalkFails, End,
         ScanFails, Interrupt, Cancel, Stopped, vars

(* Every step leaves the source with places to go to.                      *)
LEMMA HeldStep ==
  ASSUME PathInv, [Next]_vars
  PROVE  HeldInv'
  <1>1. job' = job /\ PrefixJob(job) /\ store \in StoreType /\ job.from \in Places /\ job.to \in Places
    BY Fixed, JobType DEF PathInv, TypeInv, TypeOK, StoreType
  <1>2. HeldInv
    BY DEF PathInv
  <1>3. CASE store' = store
    BY <1>1, <1>2, <1>3 DEF HeldInv
  <1>4. ASSUME NEW k \in Paths, EndTransfer(k)
        PROVE  HeldInv'
    <2> SUFFICES ASSUME NEW e \in Paths, store'[job.from][e] # "none", Under(job.fromPrefix, e)
                 PROVE  To(job, e) \in Paths
      BY <1>1 DEF HeldInv
    <2>1. k \in Sources /\ To(job, k) \in Paths /\ Under(job.fromPrefix, k)
      BY <1>4, TransferWrites DEF PathInv, PlanInv
    <2>2. CASE job.from # job.to \/ e # To(job, k)
      <3>1. store'[job.from][e] = store[job.from][e]
        BY <1>1, <1>4, <2>2, TransferWrites
      <3>2. QED
        BY <1>2, <3>1 DEF HeldInv
    <2>3. CASE job.from = job.to /\ e = To(job, k)
      <3>1. e = k
        BY <1>1, <2>1, <2>3, ToApart DEF Sources, Listed
      <3>2. QED
        BY <2>1, <3>1
    <2>4. QED
      BY <2>2, <2>3
  <1>5. ASSUME NEW d \in Paths, DeleteOne(d)
        PROVE  HeldInv'
    <2>1. \A e \in Paths : store'[job.from][e] = store[job.from][e] \/ store'[job.from][e] = "none"
      BY <1>1, <1>5, DeletionRemoves
    <2>2. QED
      BY <1>1, <1>2, <2>1 DEF HeldInv
  <1>6. ASSUME NEW p \in Places, NEW k \in Paths, NEW c \in {"none", "y"}, Foreign(p, k, c)
        PROVE  HeldInv'
    <2> SUFFICES ASSUME NEW e \in Paths, store'[job.from][e] # "none", Under(job.fromPrefix, e)
                 PROVE  To(job, e) \in Paths
      BY <1>1 DEF HeldInv
    <2>1. CASE p = job.from /\ e = k
      BY <1>6, <2>1 DEF Foreign, Dest, To
    <2>2. CASE p # job.from \/ e # k
      <3>1. store'[job.from][e] = store[job.from][e]
        BY <1>1, <1>6, <2>2 DEF Foreign, StoreType
      <3>2. QED
        BY <1>2, <3>1 DEF HeldInv
    <2>3. QED
      BY <2>1, <2>2
  <1>7. QED
    BY <1>3, <1>4, <1>5, <1>6, StoreSteps

(* Every step leaves the arrivals alone, but for the other writer's.       *)
LEMMA ArrivalStep ==
  ASSUME PathInv, [Next]_vars
  PROVE  ArrivalInv'
  <1>1. job' = job /\ (LateWalk' <=> LateWalk) /\ Sides' = Sides
        /\ store \in StoreType /\ job.from \in Places /\ job.to \in Places /\ arrivals \subseteq Paths
    BY Fixed, JobType DEF PathInv, TypeInv, TypeOK, StoreType
  <1>2. ArrivalInv /\ PlanInv
    BY DEF PathInv
  <1>3. ASSUME NEW k \in Paths, EndTransfer(k)
        PROVE  ArrivalInv'
    <2> SUFFICES ASSUME NEW a \in arrivals, ~LateWalk
                 PROVE  store'[job.to][a] # "none"
      BY <1>1, <1>2, <1>3 DEF EndTransfer, history, ArrivalInv, Aimed, Sources
    <2>1. k \in Sources
      BY <1>3, TransferWrites
    <2>2. a # To(job, k)
      BY <1>2, <2>1 DEF ArrivalInv, Aimed
    <2>3. store'[job.to][a] = store[job.to][a]
      BY <1>1, <1>3, <2>2, TransferWrites
    <2>4. QED
      BY <1>2, <2>3 DEF ArrivalInv
  <1>4. ASSUME NEW d \in Paths, DeleteOne(d)
        PROVE  ArrivalInv'
    <2> SUFFICES ASSUME NEW a \in arrivals, ~LateWalk
                 PROVE  store'[job.to][a] # "none"
      BY <1>1, <1>2, <1>4 DEF DeleteOne, history, ArrivalInv, Aimed, Sources
    <2>1. dstSeen[d] # 0
      BY <1>2, <1>4 DEF DeleteOne, PlanInv, Listed
    <2>2. a # d
      BY <1>2, <2>1 DEF ArrivalInv
    <2>3. store'[job.to][a] = store[job.to][a]
      BY <1>1, <1>4, <2>2, DeletionRemoves
    <2>4. QED
      BY <1>2, <2>3 DEF ArrivalInv
  <1>5. ASSUME NEW p \in Places, NEW k \in Paths, NEW c \in {"none", "y"}, Foreign(p, k, c)
        PROVE  ArrivalInv'
    <2> SUFFICES ASSUME NEW a \in arrivals'
                 PROVE  /\ seen = Sides /\ dstSeen[a] = 0 /\ ~Aimed(a)
                        /\ ~LateWalk => store'[job.to][a] # "none"
      BY <1>1, <1>5 DEF Foreign, progress, ArrivalInv, Aimed, Sources
    <2>1. store'[p][k] = c /\ \A q \in Places, e \in Paths : q # p \/ e # k => store'[q][e] = store[q][e]
      BY <1>1, <1>5 DEF Foreign, StoreType
    <2>2. CASE a \in arrivals /\ (p # job.to \/ a # k)
      BY <1>1, <1>2, <2>1, <2>2 DEF ArrivalInv
    <2>3. CASE p = job.to /\ a = k
      <3>1. c # "none"
        BY <1>5, <2>3 DEF Foreign
      <3>2. CASE a \in arrivals
        BY <1>2, <2>1, <2>3, <3>1, <3>2 DEF ArrivalInv
      <3>3. CASE a \notin arrivals
        <4>1. seen = Sides /\ dstSeen[a] = 0 /\ a \notin {Dest(s) : s \in Listed(srcSeen)}
          BY <1>5, <2>3, <3>1, <3>3 DEF Foreign
        <4>2. ~Aimed(a)
          BY <4>1 DEF Aimed, Sources, Dest, To
        <4>3. QED
          BY <2>1, <2>3, <3>1, <4>1, <4>2
      <3>4. QED
        BY <3>2, <3>3
    <2>4. QED
      BY <1>5, <2>2, <2>3 DEF Foreign
  <1>6. CASE Begin
    BY <1>6 DEF Begin, ArrivalInv
  <1>7. ASSUME NEW side \in {"src", "dst"}, Scan(side)
        PROVE  ArrivalInv'
    <2>1. arrivals = {}
      BY <1>2, <1>7 DEF Scan, ArrivalInv
    <2>2. QED
      BY <1>7, <2>1 DEF Scan, history, ArrivalInv
  <1>8. CASE UNCHANGED <<store, seen, srcSeen, dstSeen, arrivals>>
    BY <1>1, <1>2, <1>8 DEF ArrivalInv, Aimed, Sources
  <1>9. CASE \/ Plan \/ GiveUp \/ BeginDelete \/ LateWalkFails \/ End \/ ScanFails \/ Interrupt \/ Cancel \/ Stopped
             \/ UNCHANGED vars
             \/ \E k \in Paths : StartTransfer(k)
    BY <1>8, <1>9 DEF Plan, GiveUp, BeginDelete, LateWalkFails, End, ScanFails, Interrupt, Cancel, Stopped,
       StartTransfer, vars, progress, history
  <1>10. QED
    BY <1>3, <1>4, <1>5, <1>6, <1>7, <1>9 DEF Next, Step

LEMMA PathStep ==
  ASSUME PathInv, [Next]_vars
  PROVE  PathInv'
  BY TypeStep, PlanStep, HeldStep, ArrivalStep DEF PathInv

-----------------------------------------------------------------------------
(* Runs that nobody disturbs.                                              *)

(* Source path k has arrived, as far as job j can tell.                    *)
Like(j, st, k) ==
  IF j.skip THEN Size(st[j.to][To(j, k)]) = Size(st[j.from][k])
  ELSE st[j.to][To(j, k)] = st[j.from][k]

(* While transfers are under way the listed sources are what they were,    *)
(* only destinations of finished ones have changed, nothing has gone, and  *)
(* unless something failed the finished ones have arrived.                 *)
TransferInv ==
  /\ \A k \in Sources : store[job.from][k] = before[job.from][k]
  /\ \A p \in Places, e \in Paths :
       store[p][e] # before[p][e] => p = job.to /\ \E s \in Sources \ todo : e = To(job, s)
  /\ \A e \in Paths : before[job.to][e] # "none" => store[job.to][e] # "none"
  /\ ~failed => \A k \in Sources \ todo : Like(job, store, k)

(* What has no source is gone or doomed.                                   *)
Exact ==
  job.delete /\ ~failed /\ "dst" \notin missed =>
    \A d \in Paths :
      Under(job.toPrefix, d) /\ store[job.to][d] # "none" /\ ~Aimed(d) => d \in doomed

CalmInv ==
  ~disturbed =>
    /\ phase \in {"idle", "scan"} => store = before
    /\ "src" \in seen =>
         /\ Part(srcSeen, Truth(before[job.from], job.fromPrefix))
         /\ "src" \notin missed => srcSeen = Truth(before[job.from], job.fromPrefix)
    /\ "dst" \in seen =>
         /\ Part(dstSeen, Truth(before[job.to], job.toPrefix))
         /\ "dst" \notin missed => dstSeen = Truth(before[job.to], job.toPrefix)
    /\ phase = "transfer" => TransferInv
    /\ phase \in {"delete", "done"} => Mirrored /\ ("src" \notin missed => Complete) /\ Exact
    /\ phase = "done" => doomed = {} /\ ~failed
    /\ OnlyDestinationChanges
    /\ LossOnlyAfterMirror

IndInv == PathInv /\ CalmInv

LEMMA MirrorIs ==
  /\ Mirrored <=> \A k \in Sources : Below(k, job.fromPrefix) => Like(job, store, k)
  /\ Mirrored' <=> \A k \in Sources' : Below(k, job'.fromPrefix) => Like(job', store', k)
  <1>1. Mirrored <=> \A k \in Sources : Below(k, job.fromPrefix) => Like(job, store, k)
    BY DEF Mirrored, Like, Dest, To, Sources
  <1>2. Mirrored' <=> \A k \in Sources' : Below(k, job'.fromPrefix) => Like(job', store', k)
    BY DEF Mirrored, Like, Dest, To, Sources, Below
  <1>3. QED
    BY <1>1, <1>2

(* Nothing has changed yet.                                                *)
LEMMA Unchanged ==
  ASSUME store' = before'
  PROVE  OnlyDestinationChanges' /\ LossOnlyAfterMirror'
  BY DEF OnlyDestinationChanges, LossOnlyAfterMirror

(* A step that changes nothing the two are about.                          *)
LEMMA Kept ==
  ASSUME UNCHANGED <<job, store, before, srcSeen, disturbed>>,
         "src" \in missed' <=> "src" \in missed
  PROVE  /\ OnlyDestinationChanges <=> OnlyDestinationChanges'
         /\ LossOnlyAfterMirror <=> LossOnlyAfterMirror'
         /\ Mirrored <=> Mirrored'
         /\ Complete <=> Complete'
  <1>1. OnlyDestinationChanges <=> OnlyDestinationChanges'
    BY DEF OnlyDestinationChanges, Below, Continues
  <1>2. Mirrored <=> Mirrored'
    BY MirrorIs DEF Sources
  <1>3. Complete <=> Complete'
    BY DEF Complete, Below
  <1>4. LossOnlyAfterMirror <=> LossOnlyAfterMirror'
    BY <1>2, <1>3 DEF LossOnlyAfterMirror
  <1>5. QED
    BY <1>1, <1>2, <1>3, <1>4

LEMMA ListedIs ==
  ASSUME PathInv, CalmInv, ~disturbed, phase \in {"transfer", "delete", "done"} \/ seen = Sides
  PROVE  /\ \A k \in Sources : srcSeen[k] = Size(before[job.from][k])
         /\ LateWalk \/ \A d \in Listed(dstSeen) : dstSeen[d] = Size(before[job.to][d])
         /\ "src" \in missed \/ \A k \in Paths : Under(job.fromPrefix, k) => srcSeen[k] = Size(before[job.from][k])
         /\ \/ LateWalk \/ "dst" \in missed
            \/ \A d \in Paths : Under(job.toPrefix, d) => dstSeen[d] = Size(before[job.to][d])
  <1>1. before \in StoreType /\ job.from \in Places /\ job.to \in Places
    BY JobType DEF PathInv, TypeInv, TypeOK, StoreType
  <1>2. before[job.from] \in [Paths -> Contents] /\ before[job.to] \in [Paths -> Contents]
    BY <1>1 DEF StoreType
  <1>3. seen = Sides
    BY DEF PathInv, PlanInv
  <1>4. /\ Part(srcSeen, Truth(before[job.from], job.fromPrefix))
        /\ "src" \notin missed => srcSeen = Truth(before[job.from], job.fromPrefix)
    BY <1>3 DEF CalmInv, Sides
  <1>5. \A k \in Sources : srcSeen[k] = Size(before[job.from][k])
    BY <1>2, <1>4, PartListed DEF Sources
  <1>6. "src" \in missed \/ \A k \in Paths : Under(job.fromPrefix, k) => srcSeen[k] = Size(before[job.from][k])
    BY <1>2, <1>4, TruthListed
  <1>7. CASE ~LateWalk
    <2>1. /\ Part(dstSeen, Truth(before[job.to], job.toPrefix))
          /\ "dst" \notin missed => dstSeen = Truth(before[job.to], job.toPrefix)
      BY <1>3, <1>7 DEF CalmInv, Sides
    <2>2. \A d \in Listed(dstSeen) : dstSeen[d] = Size(before[job.to][d])
      BY <1>2, <2>1, PartListed
    <2>3. "dst" \in missed \/ \A d \in Paths : Under(job.toPrefix, d) => dstSeen[d] = Size(before[job.to][d])
      BY <1>2, <2>1, TruthListed
    <2>4. QED
      BY <1>5, <1>6, <2>2, <2>3
  <1>8. QED
    BY <1>5, <1>6, <1>7

(* Skipping an object whose source and destination nobody has touched.     *)
LEMMA SkippedLike ==
  ASSUME PathInv, CalmInv, ~disturbed, phase \in {"transfer", "delete", "done"} \/ seen = Sides,
         NEW k \in Sources, Skipped(k),
         store[job.from][k] = before[job.from][k],
         store[job.to][To(job, k)] = before[job.to][To(job, k)]
  PROVE  Like(job, store, k)
  <1>1. PrefixJob(job) /\ store \in StoreType
    BY DEF PathInv, TypeInv, TypeOK, StoreType
  <1>2. k \in Listed(srcSeen) /\ k \in Paths /\ Under(job.fromPrefix, k) /\ To(job, k) \in Paths
    BY DEF PathInv, PlanInv, Sources, Listed
  <1>3. \A d \in Listed(dstSeen) : Under(job.toPrefix, d)
    BY DEF PathInv, PlanInv
  <1>4. srcSeen[k] = Size(store[job.from][k])
    BY ListedIs
  <1>5. LateWalk \/ (To(job, k) \in Listed(dstSeen) =>
                        dstSeen[To(job, k)] = Size(store[job.to][To(job, k)]))
    BY ListedIs
  <1>6. job.skip /\ Size(store[job.to][To(job, k)]) = Size(store[job.from][k])
    BY <1>1, <1>2, <1>3, <1>4, <1>5, SkippedIs
  <1>7. QED
    BY <1>6 DEF Like

(* What every proof about a step of an undisturbed run begins with.        *)
LEMMA CalmFacts ==
  ASSUME IndInv, [Next]_vars
  PROVE  /\ job' = job /\ sdk' = sdk /\ (LateWalk' <=> LateWalk) /\ Sides' = Sides /\ PrefixJob(job)
         /\ store \in StoreType /\ before \in StoreType
         /\ job.from \in Places /\ job.to \in Places
         /\ PathInv /\ PlanInv /\ CalmInv
         /\ \A k \in Sources : k \in Paths /\ Under(job.fromPrefix, k) /\ To(job, k) \in Paths
         /\ Sources \subseteq Paths
  <1>1. PathInv /\ PlanInv /\ CalmInv /\ PrefixJob(job)
    BY DEF IndInv, PathInv, TypeInv
  <1>2. store \in StoreType /\ before \in StoreType /\ job.from \in Places /\ job.to \in Places
    BY <1>1, JobType DEF PathInv, TypeInv, TypeOK, StoreType
  <1>3. \A k \in Sources : k \in Paths /\ Under(job.fromPrefix, k) /\ To(job, k) \in Paths
    BY <1>1 DEF PlanInv, Sources, Listed
  <1>4. QED
    BY <1>1, <1>2, <1>3, Fixed

(* A listing that is what it was is as true as it was.                     *)
LEMMA PartKept ==
  ASSUME UNCHANGED <<job, before>>
  PROVE  /\ Part(srcSeen, Truth(before[job.from], job.fromPrefix))'
              <=> Part(srcSeen', Truth(before[job.from], job.fromPrefix))
         /\ (srcSeen = Truth(before[job.from], job.fromPrefix))'
              <=> srcSeen' = Truth(before[job.from], job.fromPrefix)
         /\ Part(dstSeen, Truth(before[job.to], job.toPrefix))'
              <=> Part(dstSeen', Truth(before[job.to], job.toPrefix))
         /\ (dstSeen = Truth(before[job.to], job.toPrefix))'
              <=> dstSeen' = Truth(before[job.to], job.toPrefix)
  BY DEF Part, Truth, Under, Continues, ListingType

LEMMA CalmBegin ==
  ASSUME Begin PROVE CalmInv'
  <1>1. store' = before' /\ seen' = {} /\ phase' \in {"scan", "failed"}
    BY DEF Begin
  <1>2. QED
    BY <1>1, Unchanged DEF CalmInv

LEMMA CalmScan ==
  ASSUME IndInv, [Next]_vars, NEW side \in {"src", "dst"}, Scan(side)
  PROVE  CalmInv'
  <1> SUFFICES ASSUME ~disturbed PROVE CalmInv'
    BY DEF Scan, history, CalmInv
  <1>1. PathInv /\ CalmInv /\ job' = job
    BY CalmFacts
  <1>2. UNCHANGED <<store, before, phase>> /\ phase = "scan" /\ seen' = seen \cup {side}
    BY DEF Scan, history
  <1>3. store = before
    BY <1>1, <1>2 DEF CalmInv
  <1>4. /\ side = "src" =>
             /\ Part(srcSeen', Truth(store[job.from], job.fromPrefix)) /\ dstSeen' = dstSeen
             /\ "src" \notin missed' => srcSeen' = Truth(store[job.from], job.fromPrefix)
        /\ side = "dst" =>
             /\ Part(dstSeen', Truth(store[job.to], job.toPrefix)) /\ srcSeen' = srcSeen
             /\ "dst" \notin missed' => dstSeen' = Truth(store[job.to], job.toPrefix)
        /\ missed \subseteq missed'
    BY <1>1, ScanTrue DEF PathInv
  <1>5. "src" \in seen' =>
          /\ Part(srcSeen', Truth(before[job.from], job.fromPrefix))
          /\ "src" \notin missed' => srcSeen' = Truth(before[job.from], job.fromPrefix)
    BY <1>1, <1>2, <1>3, <1>4 DEF CalmInv
  <1>6. "dst" \in seen' =>
          /\ Part(dstSeen', Truth(before[job.to], job.toPrefix))
          /\ "dst" \notin missed' => dstSeen' = Truth(before[job.to], job.toPrefix)
    BY <1>1, <1>2, <1>3, <1>4 DEF CalmInv
  <1>7. QED
    BY <1>1, <1>2, <1>3, <1>5, <1>6, Unchanged, PartKept DEF CalmInv

LEMMA CalmPlan ==
  ASSUME IndInv, [Next]_vars, Plan
  PROVE  CalmInv'
  <1> SUFFICES ASSUME ~disturbed PROVE CalmInv'
    BY DEF Plan, history, CalmInv
  <1>1. /\ PathInv /\ CalmInv /\ job' = job /\ Sources \subseteq Paths
        /\ \A k \in Sources : To(job, k) \in Paths
    BY CalmFacts
  <1>2. UNCHANGED <<store, before, seen, srcSeen, dstSeen, missed>> /\ phase = "scan" /\ seen = Sides
        /\ phase' \in {"transfer", "failed"}
    BY DEF Plan, history
  <1>3. store = before
    BY <1>1, <1>2 DEF CalmInv
  <1>4. ASSUME phase' = "transfer" PROVE TransferInv'
    <2>1. todo' = {k \in Sources : Python => ~Skipped(k)}
      BY <1>4 DEF Plan, Sources
    <2>2. \A k \in Sources \ todo' : Like(job, store, k)
      BY <1>1, <1>2, <1>3, <2>1, SkippedLike
    <2>3. QED
      BY <1>1, <1>2, <1>3, <2>2 DEF TransferInv, Sources
  <1>5. QED
    BY <1>1, <1>2, <1>3, <1>4, Unchanged DEF CalmInv

LEMMA CalmStart ==
  ASSUME IndInv, [Next]_vars, NEW k \in Paths, StartTransfer(k)
  PROVE  CalmInv'
  <1> SUFFICES ASSUME ~disturbed PROVE CalmInv'
    BY DEF StartTransfer, history, CalmInv
  <1>1. /\ PathInv /\ PlanInv /\ CalmInv /\ job' = job /\ Sources \subseteq Paths /\ PrefixJob(job)
        /\ \A s \in Sources : s \in Paths /\ Under(job.fromPrefix, s) /\ To(job, s) \in Paths
        /\ job.to \in Places
    BY CalmFacts
  <1>2. /\ UNCHANGED <<store, before, seen, srcSeen, dstSeen, phase, disturbed, missed, failed>>
        /\ phase = "transfer" /\ k \in todo /\ k \in Sources
    BY <1>1 DEF StartTransfer, history, PlanInv
  <1>3. TransferInv
    BY <1>1, <1>2 DEF CalmInv
  <1>4. TransferInv'
    <2>1. CASE todo' = todo
      BY <1>1, <1>2, <1>3, <2>1 DEF TransferInv, Sources
    <2>2. CASE todo' = todo \ {k} /\ Skipped(k)
      <3>1. store[job.from][k] = before[job.from][k]
        BY <1>2, <1>3 DEF TransferInv
      <3>2. store[job.to][To(job, k)] = before[job.to][To(job, k)]
        BY <1>1, <1>2, <1>3, ToInjective DEF TransferInv
      <3>3. Like(job, store, k)
        BY <1>1, <1>2, <2>2, <3>1, <3>2, SkippedLike
      <3>4. ~failed => \A s \in Sources \ todo' : Like(job, store, s)
        BY <1>3, <2>2, <3>3 DEF TransferInv
      <3>5. \A p \in Places, e \in Paths :
              store[p][e] # before[p][e] => p = job.to /\ \E s \in Sources \ todo' : e = To(job, s)
        BY <1>3, <2>2 DEF TransferInv
      <3>6. QED
        BY <1>1, <1>2, <1>3, <3>4, <3>5 DEF TransferInv, Sources
    <2>3. QED
      BY <2>1, <2>2 DEF StartTransfer
  <1>5. QED
    BY <1>1, <1>2, <1>4, Kept DEF CalmInv

LEMMA CalmTransfer ==
  ASSUME IndInv, [Next]_vars, NEW k \in Paths, EndTransfer(k)
  PROVE  CalmInv'
  <1> SUFFICES ASSUME ~disturbed PROVE CalmInv'
    BY DEF EndTransfer, history, CalmInv
  <1>1. /\ PathInv /\ PlanInv /\ CalmInv /\ job' = job /\ Sources \subseteq Paths /\ PrefixJob(job)
        /\ \A s \in Sources : s \in Paths /\ Under(job.fromPrefix, s) /\ To(job, s) \in Paths
        /\ job.to \in Places /\ job.from \in Places
    BY CalmFacts
  <1>2. /\ UNCHANGED <<before, seen, srcSeen, dstSeen, phase, disturbed, missed>>
        /\ todo' = todo \ {k} /\ phase = "transfer" /\ k \in todo /\ k \in Sources
    BY <1>1, TransferWrites DEF EndTransfer, history
  <1>3. TransferInv
    BY <1>1, <1>2 DEF CalmInv
  <1> DEFINE d == To(job, k)
  <1>4. /\ d \in Paths
        /\ \A q \in Places, e \in Paths : q # job.to \/ e # d => store'[q][e] = store[q][e]
        /\ \/ store'[job.to][d] = store[job.from][k] /\ store[job.from][k] # "none"
           \/ store'[job.to][d] = store[job.to][d] /\ failed'
           \/ store'[job.to][d] = "part" /\ failed' /\ job.mode = "down"
        /\ failed => failed'
    BY <1>1, TransferWrites
  <1> HIDE DEF d
  <1>5. \A s \in Sources : store'[job.from][s] = store[job.from][s]
    <2> SUFFICES ASSUME NEW s \in Sources, job.from = job.to, s = d
                 PROVE  store'[job.from][s] = store[job.from][s]
      BY <1>1, <1>4
    <2>1. job.mode = "copy" /\ s = k
      BY <1>1, <1>2, ToApart DEF d
    <2>2. QED
      BY <1>4, <2>1
  <1>6. \A s \in Sources : store'[job'.from][s] = before'[job'.from][s]
    BY <1>1, <1>2, <1>3, <1>5 DEF TransferInv
  <1>7. \A p \in Places, e \in Paths :
          store'[p][e] # before[p][e] => p = job.to /\ \E s \in Sources \ todo' : e = To(job, s)
    <2> SUFFICES ASSUME NEW p \in Places, NEW e \in Paths, store'[p][e] # before[p][e]
                 PROVE  p = job.to /\ \E s \in Sources \ todo' : e = To(job, s)
      OBVIOUS
    <2>1. CASE p = job.to /\ e = d
      BY <1>2, <2>1 DEF d
    <2>2. CASE ~(p = job.to /\ e = d)
      <3>1. store[p][e] # before[p][e]
        BY <1>4, <2>2
      <3>2. QED
        BY <1>2, <1>3, <3>1 DEF TransferInv
    <2>3. QED
      BY <2>1, <2>2
  <1>8. \A e \in Paths : before[job.to][e] # "none" => store'[job.to][e] # "none"
    BY <1>1, <1>3, <1>4 DEF TransferInv
  <1>9. ~failed' => \A s \in Sources \ todo' : Like(job, store', s)
    <2> SUFFICES ASSUME ~failed', NEW s \in Sources \ todo'
                 PROVE  Like(job, store', s)
      OBVIOUS
    <2>1. CASE s = k
      <3>1. store'[job.to][To(job, k)] = store'[job.from][k]
        BY <1>2, <1>4, <1>5 DEF d
      <3>2. QED
        BY <2>1, <3>1 DEF Like
    <2>2. CASE s # k
      <3>1. s \in Sources \ todo
        BY <1>2, <2>2
      <3>2. To(job, s) # d
        BY <1>1, <1>2, <2>2, ToInjective DEF d
      <3>3. /\ store'[job.to][To(job, s)] = store[job.to][To(job, s)]
            /\ store'[job.from][s] = store[job.from][s]
        BY <1>1, <1>4, <1>5, <3>2
      <3>4. Like(job, store, s)
        BY <1>3, <1>4, <3>1 DEF TransferInv
      <3>5. QED
        BY <3>3, <3>4 DEF Like
    <2>3. QED
      BY <2>1, <2>2
  <1>10. TransferInv'
    BY <1>1, <1>2, <1>6, <1>7, <1>8, <1>9 DEF TransferInv, Sources
  <1>11. OnlyDestinationChanges'
    BY <1>1, <1>2, <1>7, ToFacts DEF OnlyDestinationChanges
  <1>12. LossOnlyAfterMirror'
    BY <1>1, <1>2, <1>8 DEF LossOnlyAfterMirror
  <1>13. QED
    BY <1>1, <1>2, <1>10, <1>11, <1>12 DEF CalmInv

(* A run all of whose objects have arrived has found all of its source,    *)
(* unless the listing was cut short.                                       *)
LEMMA AllFound ==
  ASSUME IndInv, [Next]_vars, ~disturbed, phase = "transfer", seen = Sides, TransferInv,
         "src" \notin missed
  PROVE  Complete
  <1>1. /\ PathInv /\ PlanInv /\ CalmInv /\ PrefixJob(job)
        /\ store \in StoreType /\ before \in StoreType /\ job.from \in Places /\ job.to \in Places
        /\ \A s \in Sources : s \in Paths /\ Under(job.fromPrefix, s) /\ To(job, s) \in Paths
    BY CalmFacts
  <1> SUFFICES ASSUME NEW k \in Paths, Below(k, job.fromPrefix), store[job.from][k] # "none"
               PROVE  k \in Sources
    BY DEF Complete, Sources
  <1>2. Under(job.fromPrefix, k)
    BY <1>1, JobType, PathType, Folders
  <1>3. CASE store[job.from][k] = before[job.from][k]
    <2>1. before[job.from][k] \in Contents /\ before[job.from][k] # "none"
      BY <1>1, <1>3 DEF StoreType
    <2>2. srcSeen[k] = Size(before[job.from][k])
      BY <1>1, <1>2, ListedIs
    <2>3. srcSeen[k] # 0
      BY <2>1, <2>2, Sizes
    <2>4. QED
      BY <2>3 DEF Sources, Listed
  <1>4. CASE store[job.from][k] # before[job.from][k]
    <2>1. job.from = job.to /\ \E s \in Sources \ todo : k = To(job, s)
      BY <1>1, <1>4 DEF TransferInv
    <2>2. PICK s \in Sources : k = To(job, s)
      BY <2>1
    <2>3. k = s
      BY <1>1, <1>2, <2>1, <2>2, ToApart
    <2>4. QED
      BY <2>3
  <1>5. QED
    BY <1>3, <1>4

LEMMA CalmBeginDelete ==
  ASSUME IndInv, [Next]_vars, BeginDelete
  PROVE  CalmInv'
  <1> SUFFICES ASSUME ~disturbed PROVE CalmInv'
    BY DEF BeginDelete, CalmInv
  <1>1. /\ PathInv /\ PlanInv /\ CalmInv /\ job' = job /\ PrefixJob(job)
        /\ \A s \in Sources : Under(job.fromPrefix, s) /\ To(job, s) \in Paths
        /\ job.to \in Places /\ store \in StoreType /\ before \in StoreType
    BY CalmFacts
  <1>2. /\ UNCHANGED <<store, before, seen, srcSeen, dstSeen, disturbed, failed, todo>>
        /\ phase = "transfer" /\ phase' = "delete" /\ ~failed /\ todo = {} /\ seen = Sides
        /\ missed \subseteq missed' /\ missed' \subseteq missed \cup {"dst"}
    BY <1>1 DEF BeginDelete, TransfersOver, PlanInv
  <1>3. TransferInv
    BY <1>1, <1>2 DEF CalmInv
  <1>4. Mirrored /\ ("src" \notin missed => Complete)
    <2>1. Mirrored
      BY <1>2, <1>3, MirrorIs DEF TransferInv
    <2>2. QED
      BY <1>2, <1>3, <2>1, AllFound
  <1>5. ASSUME job.delete, "dst" \notin missed', NEW d \in Paths,
               Under(job.toPrefix, d), store[job.to][d] # "none", ~Aimed(d)
        PROVE  d \in doomed'
    <2>1. CASE LateWalk
      <3> DEFINE now == Listing(job.to, job.toPrefix)
      <3>1. now = Truth(store[job.to], job.toPrefix) /\ store[job.to] \in [Paths -> Contents]
        BY <1>1, ListingIsTrue DEF PrefixJob, StoreType
      <3>2. d \in Listed(now) /\ \A e \in Listed(now) : Under(job.toPrefix, e)
        BY <1>5, <3>1, TruthListed
      <3>3. \A e \in Listed(now) : (\A s \in Listed(srcSeen) : To(job, s) # e) => e \in Extra(now)
        BY <1>1, <3>2, ExtraIs DEF Sources
      <3>4. d \in Extra(now)
        BY <1>5, <3>2, <3>3 DEF Aimed, Sources
      <3>5. doomed' = Extra(now)
        BY <1>5, <2>1 DEF BeginDelete
      <3>6. QED
        BY <3>4, <3>5
    <2>2. CASE ~LateWalk
      <3>1. store[job.to][d] = before[job.to][d]
        BY <1>1, <1>3, <1>5 DEF TransferInv, Aimed
      <3>2. dstSeen[d] = Size(before[job.to][d])
        BY <1>1, <1>2, <1>5, <2>2, ListedIs
      <3>3. before[job.to][d] \in Contents
        BY <1>1 DEF StoreType
      <3>4. d \in Listed(dstSeen)
        BY <1>5, <3>1, <3>2, <3>3, Sizes DEF Listed
      <3>5. \A e \in Listed(dstSeen) : ~Aimed(e) => e \in doomed
        BY <1>1, <1>2, <1>5, <2>2 DEF PlanInv
      <3>6. QED
        BY <1>5, <2>2, <3>4, <3>5 DEF BeginDelete
    <2>3. QED
      BY <2>1, <2>2
  <1>6. Exact'
    BY <1>1, <1>2, <1>5 DEF Exact, Aimed, Sources
  <1>7. /\ Mirrored' /\ ("src" \notin missed' => Complete')
        /\ OnlyDestinationChanges' /\ LossOnlyAfterMirror'
    BY <1>1, <1>2, <1>4, Kept DEF CalmInv
  <1>8. /\ Part(srcSeen', Truth(before[job.from], job.fromPrefix))
        /\ "src" \notin missed' => srcSeen' = Truth(before[job.from], job.fromPrefix)
        /\ "dst" \in seen' =>
             /\ Part(dstSeen', Truth(before[job.to], job.toPrefix))
             /\ "dst" \notin missed' => dstSeen' = Truth(before[job.to], job.toPrefix)
    BY <1>1, <1>2 DEF CalmInv, Sides
  <1>9. QED
    BY <1>1, <1>2, <1>6, <1>7, <1>8, PartKept DEF CalmInv

LEMMA CalmDelete ==
  ASSUME IndInv, [Next]_vars, NEW d \in Paths, DeleteOne(d)
  PROVE  CalmInv'
  <1> SUFFICES ASSUME ~disturbed PROVE CalmInv'
    BY DEF DeleteOne, CalmInv
  <1>1. /\ PathInv /\ PlanInv /\ CalmInv /\ job' = job /\ PrefixJob(job)
        /\ \A s \in Sources : s \in Paths /\ Under(job.fromPrefix, s) /\ To(job, s) \in Paths
        /\ job.to \in Places /\ job.from \in Places
    BY CalmFacts
  <1>2. /\ UNCHANGED <<before, seen, srcSeen, dstSeen, phase, disturbed>>
        /\ doomed' = doomed \ {d} /\ phase = "delete"
    BY DEF DeleteOne
  <1>3. Mirrored /\ ("src" \notin missed => Complete) /\ Exact /\ OnlyDestinationChanges
    BY <1>1, <1>2 DEF CalmInv
  <1>4. /\ d \in doomed /\ Under(job.toPrefix, d) /\ ~Fed(d) /\ job.delete
        /\ \A q \in Places, e \in Paths : q # job.to \/ e # d => store'[q][e] = store[q][e]
        /\ store'[job.to][d] = "none" \/ (store' = store /\ (failed' \/ "dst" \in missed'))
        /\ failed => failed'
        /\ missed \subseteq missed' /\ missed' \subseteq missed \cup {"dst"}
    BY <1>1, DeletionRemoves DEF PlanInv
  <1>5. ASSUME NEW s \in Sources, Below(s, job.fromPrefix)
        PROVE  /\ store'[job.to][To(job, s)] = store[job.to][To(job, s)]
               /\ store'[job.from][s] = store[job.from][s]
    <2>1. To(job, s) # d
      BY <1>4, <1>5 DEF Fed
    <2>2. job.from # job.to \/ s # d
      <3>1. ASSUME job.from = job.to, s = d PROVE FALSE
        <4>1. Under(job.fromPrefix, s) /\ Under(job.toPrefix, s)
          BY <1>1, <1>4, <3>1
        <4>2. IsPrefix(job.fromPrefix, job.toPrefix) \/ IsPrefix(job.toPrefix, job.fromPrefix)
          BY <1>1, <4>1, JobType, PathType, Comparable
        <4>3. job.fromPrefix = job.toPrefix
          BY <1>1, <3>1, <4>2 DEF PrefixJob
        <4>4. Under(job.fromPrefix, To(job, s))
          BY <1>1, <4>3, ToFacts
        <4>5. To(job, s) = s
          BY <1>1, <3>1, <4>4, ToApart
        <4>6. QED
          BY <2>1, <3>1, <4>5
      <3>2. QED
        BY <3>1
    <2>3. QED
      BY <1>1, <1>4, <2>1, <2>2
  <1>6. \A s \in Sources : Below(s, job.fromPrefix) => Like(job, store', s)
    BY <1>3, <1>5, MirrorIs DEF Like
  <1>7. Mirrored'
    BY <1>1, <1>2, <1>6, MirrorIs DEF Sources
  <1>8. "src" \notin missed' => Complete'
    <2> SUFFICES ASSUME "src" \notin missed', NEW k \in Paths, Below(k, job.fromPrefix),
                        store'[job.from][k] # "none"
                 PROVE  k \in Listed(srcSeen)
      BY <1>1, <1>2 DEF Complete, Below
    <2>1. store[job.from][k] # "none"
      BY <1>1, <1>4
    <2>2. QED
      BY <1>3, <1>4, <2>1 DEF Complete
  <1>9. Exact'
    <2> SUFFICES ASSUME job.delete, ~failed', "dst" \notin missed', NEW e \in Paths,
                        Under(job.toPrefix, e), store'[job.to][e] # "none", ~Aimed(e)
                 PROVE  e \in doomed'
      BY <1>1, <1>2 DEF Exact, Aimed, Sources
    <2>1. e # d
      BY <1>4
    <2>2. store[job.to][e] # "none"
      BY <1>1, <1>4, <2>1
    <2>3. QED
      BY <1>2, <1>3, <1>4, <2>1, <2>2 DEF Exact
  <1>10. OnlyDestinationChanges'
    <2> SUFFICES ASSUME NEW p \in Places, NEW e \in Paths, store'[p][e] # before[p][e]
                 PROVE  /\ p = job.to
                        /\ \/ Below(e, job.toPrefix)
                           \/ job.delete /\ Continues(e, job.toPrefix) /\ store'[p][e] = "none"
      BY <1>1, <1>2 DEF OnlyDestinationChanges, Below, Continues
    <2>1. CASE store'[p][e] = store[p][e]
      BY <1>2, <1>3, <2>1 DEF OnlyDestinationChanges
    <2>2. CASE store'[p][e] # store[p][e]
      BY <1>1, <1>4, <2>2 DEF Under
    <2>3. QED
      BY <2>1, <2>2
  <1>11. LossOnlyAfterMirror'
    BY <1>7, <1>8 DEF LossOnlyAfterMirror
  <1>12. /\ "src" \in seen' =>
              /\ Part(srcSeen', Truth(before[job.from], job.fromPrefix))
              /\ "src" \notin missed' => srcSeen' = Truth(before[job.from], job.fromPrefix)
         /\ "dst" \in seen' =>
              /\ Part(dstSeen', Truth(before[job.to], job.toPrefix))
              /\ "dst" \notin missed' => dstSeen' = Truth(before[job.to], job.toPrefix)
    BY <1>1, <1>2, <1>4 DEF CalmInv
  <1>13. QED
    BY <1>1, <1>2, <1>7, <1>8, <1>9, <1>10, <1>11, <1>12, PartKept DEF CalmInv

(* The steps that end something, or change nothing.                        *)
LEMMA CalmRest ==
  ASSUME IndInv, [Next]_vars,
         GiveUp \/ LateWalkFails \/ End \/ ScanFails \/ Interrupt \/ Stopped \/ UNCHANGED vars
  PROVE  CalmInv'
  <1>1. /\ job' = job /\ UNCHANGED <<store, before, seen, srcSeen, dstSeen, disturbed, missed, todo, doomed>>
    BY CalmFacts DEF GiveUp, LateWalkFails, End, ScanFails, Interrupt, Stopped, vars, progress, history
  <1> SUFFICES ASSUME ~disturbed PROVE CalmInv'
    BY <1>1 DEF CalmInv
  <1>2. CalmInv
    BY DEF IndInv
  <1>3. OnlyDestinationChanges' /\ LossOnlyAfterMirror'
    BY <1>1, <1>2, Kept DEF CalmInv
  <1>4. CASE GiveUp \/ LateWalkFails \/ ScanFails
    <2>1. phase' = "failed"
      BY <1>4 DEF GiveUp, LateWalkFails, ScanFails
    <2>2. QED
      BY <1>1, <1>2, <1>3, <2>1 DEF CalmInv
  <1>5. CASE End
    <2>1. phase = "delete" /\ phase' = (IF failed THEN "failed" ELSE "done") /\ failed' = failed
          /\ (doomed = {} \/ failed)
      BY <1>5 DEF End, DeletionsStop
    <2>2. Mirrored' /\ ("src" \notin missed' => Complete') /\ Exact'
      BY <1>1, <1>2, <2>1, Kept DEF CalmInv, Exact, Aimed, Sources
    <2>3. QED
      BY <1>1, <1>2, <1>3, <2>1, <2>2 DEF CalmInv
  <1>6. CASE Interrupt
    <2>1. phase = "transfer" /\ phase' = phase /\ failed'
      BY <1>6 DEF Interrupt
    <2>2. TransferInv'
      BY <1>1, <1>2, <2>1 DEF CalmInv, TransferInv, Sources
    <2>3. QED
      BY <1>1, <1>2, <1>3, <2>1, <2>2 DEF CalmInv
  <1>7. CASE Stopped \/ UNCHANGED vars
    <2>1. phase' = phase /\ failed' = failed
      BY <1>7 DEF Stopped, vars, progress
    <2>2. (TransferInv => TransferInv') /\ (Exact => Exact') /\ (Mirrored => Mirrored')
          /\ (Complete => Complete')
      BY <1>1, <2>1, Kept DEF TransferInv, Exact, Aimed, Sources
    <2>3. QED
      BY <1>1, <1>2, <1>3, <2>1, <2>2 DEF CalmInv
  <1>8. QED
    BY <1>4, <1>5, <1>6, <1>7

(* A cancelled run has failed, so nothing is claimed of what it was doing. *)
LEMMA CalmCancel ==
  ASSUME IndInv, [Next]_vars, Cancel
  PROVE  CalmInv'
  <1> SUFFICES ASSUME ~disturbed PROVE CalmInv'
    BY DEF Cancel, history, CalmInv
  <1>1. /\ job' = job /\ UNCHANGED <<store, before, seen, srcSeen, dstSeen, disturbed, missed, phase>>
        /\ failed' /\ CalmInv
    BY CalmFacts DEF Cancel, history
  <1>2. OnlyDestinationChanges' /\ LossOnlyAfterMirror' /\ (Mirrored => Mirrored')
        /\ (Complete => Complete')
    BY <1>1, Kept DEF CalmInv
  <1>3. CASE phase = "transfer"
    <2>1. Sources \ todo \subseteq Sources \ todo'
      BY <1>3 DEF Cancel, IndInv, PathInv, TypeInv, TypeOK
    <2>2. TransferInv'
      BY <1>1, <1>3, <2>1 DEF CalmInv, TransferInv, Sources
    <2>3. QED
      BY <1>1, <1>2, <1>3, <2>2 DEF CalmInv
  <1>4. CASE phase = "delete"
    <2>1. Exact'
      BY <1>1 DEF Exact
    <2>2. QED
      BY <1>1, <1>2, <1>4, <2>1 DEF CalmInv
  <1>5. QED
    BY <1>3, <1>4 DEF Cancel

LEMMA CalmStep ==
  ASSUME IndInv, [Next]_vars
  PROVE  CalmInv'
  <1>1. ASSUME NEW p \in Places, NEW k \in Paths, NEW c \in {"none", "y"}, Foreign(p, k, c)
        PROVE  CalmInv'
    BY <1>1 DEF Foreign, CalmInv
  <1>2. QED
    BY <1>1, CalmBegin, CalmScan, CalmPlan, CalmStart, CalmTransfer, CalmBeginDelete, CalmDelete,
       CalmCancel, CalmRest DEF Next, Step

-----------------------------------------------------------------------------
LEMMA InitInd ==
  ASSUME \A s \in Scenarios : PrefixScenario(s), Init
  PROVE  IndInv
  <1>1. PathInv
    BY InitPath
  <1>2. store = before /\ seen = {} /\ phase = "idle"
    BY DEF Init
  <1>3. OnlyDestinationChanges /\ LossOnlyAfterMirror
    BY <1>2 DEF OnlyDestinationChanges, LossOnlyAfterMirror
  <1>4. QED
    BY <1>1, <1>2, <1>3 DEF IndInv, CalmInv

LEMMA NextInd ==
  ASSUME IndInv, [Next]_vars
  PROVE  IndInv'
  BY PathStep, CalmStep DEF IndInv

LEMMA Invariance ==
  ASSUME \A s \in Scenarios : PrefixScenario(s)
  PROVE  Spec => []IndInv
  <1>1. Init => IndInv
    BY InitInd
  <1>2. IndInv /\ [Next]_vars => IndInv'
    BY NextInd
  <1>3. QED
    BY <1>1, <1>2, PTL DEF Spec

(* The variables have their types, and the pool its size: no more workers  *)
(* than max_workers in Python, one in the others.                          *)
THEOREM TypeCorrect ==
  ASSUME \A s \in Scenarios : PrefixScenario(s)
  PROVE  Spec => []TypeOK
  <1>1. IndInv => TypeOK
    BY DEF IndInv, PathInv, TypeInv
  <1>2. QED
    BY <1>1, Invariance, PTL

(* A one-way sync writes nothing but its destination prefix, and deletes   *)
(* nothing that does not continue the text of that prefix.                 *)
THEOREM OthersAreLeftAlone ==
  ASSUME \A s \in Scenarios : PrefixScenario(s)
  PROVE  Spec => []OnlyDestinationChanges
  <1>1. IndInv => OnlyDestinationChanges
    BY DEF IndInv, CalmInv, OnlyDestinationChanges
  <1>2. QED
    BY <1>1, Invariance, PTL

(* What another writer adds after the listing is not deleted by the run.   *)
THEOREM ArrivalsAreKept ==
  ASSUME \A s \in Scenarios : PrefixScenario(s)
  PROVE  Spec => []ArrivalsSurvive
  <1>1. IndInv => ArrivalsSurvive
    BY DEF IndInv, PathInv, ArrivalInv, ArrivalsSurvive
  <1>2. QED
    BY <1>1, Invariance, PTL

(* Nothing disappears from the destination before all that the run found   *)
(* of its source has arrived there, and that is all of it, unless the      *)
(* listing of the source was cut short.                                    *)
THEOREM LossesComeLast ==
  ASSUME \A s \in Scenarios : PrefixScenario(s)
  PROVE  Spec => []LossOnlyAfterMirror
  <1>1. IndInv => LossOnlyAfterMirror
    BY DEF IndInv, CalmInv, LossOnlyAfterMirror
  <1>2. QED
    BY <1>1, Invariance, PTL

(* A run that returns, and that nobody disturbed, leaves a mirror behind,  *)
(* and with delete an exact one, as far as its listings were complete and  *)
(* its local deletions took effect.                                        *)
THEOREM SuccessIsMirror ==
  ASSUME \A s \in Scenarios : PrefixScenario(s)
  PROVE  Spec => []MirrorOnSuccess
  <1>1. ASSUME IndInv, phase = "done", ~disturbed
        PROVE  /\ Mirrored
               /\ "src" \notin missed => Complete
               /\ job.delete /\ "dst" \notin missed =>
                    \A d \in Paths :
                      Continues(d, job.toPrefix) /\ store[job.to][d] # "none" =>
                        d \in {Dest(k) : k \in Listed(srcSeen)}
    <2>1. Mirrored /\ ("src" \notin missed => Complete) /\ Exact /\ doomed = {} /\ ~failed
      BY <1>1 DEF IndInv, CalmInv
    <2>2. QED
      BY <2>1 DEF Exact, Aimed, Sources, Dest, To, Under
  <1>2. IndInv => MirrorOnSuccess
    BY <1>1 DEF MirrorOnSuccess
  <1>3. QED
    BY <1>2, Invariance, PTL
=============================================================================
