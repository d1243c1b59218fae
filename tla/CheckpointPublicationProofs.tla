--------------------- MODULE CheckpointPublicationProofs ---------------------
(***************************************************************************)
(* Facts about prefixes, frontiers and the endpoint vote, proved for every *)
(* set of leaves and every pool of endpoints; then what every step of      *)
(* publication keeps, for every set of workers, index bound and chunk      *)
(* size.  The composing modules' proofs cite these.                        *)
(***************************************************************************)
EXTENDS InsertionIndex, FiniteSetTheorems, WellFoundedInduction, TLAPS

-----------------------------------------------------------------------------
(* Prefixes.                                                               *)

\* Only the empty tree has no leaf.
LEMMA TreeLength ==
    /\ << >> \in Tree
    /\ \A t \in Tree : Len(t) \in Nat /\ (t = << >> <=> Len(t) = 0)
<1>1. << >> \in Tree
  BY DEF Tree
<1>2. \A t \in Tree : Len(t) \in Nat /\ (Len(t) = 0 => t = << >>)
  BY DEF Tree
<1>3. Len(<< >>) = 0
  OBVIOUS
<1> QED BY <1>1, <1>2, <1>3

\* A prefix agrees with the longer tree leaf by leaf.
LEMMA PrefixPointwise ==
    ASSUME NEW s \in Tree, NEW t \in Tree
    PROVE  IsPrefix(s, t) <=> Len(s) <= Len(t) /\ \A i \in 1 .. Len(s) : s[i] = t[i]
BY DEF IsPrefix, Tree

\* Two trees with the same leaves are equal.
LEMMA TreeEquality ==
    ASSUME NEW s \in Tree, NEW t \in Tree, Len(s) = Len(t),
           \A i \in 1 .. Len(s) : s[i] = t[i]
    PROVE  s = t
BY DEF Tree

\* Prefixes are ordered: reflexivity, transitivity and antisymmetry by length.
LEMMA PrefixOrder ==
    ASSUME NEW s \in Tree, NEW t \in Tree, NEW u \in Tree
    PROVE  /\ IsPrefix(s, s)
           /\ IsPrefix(s, t) /\ IsPrefix(t, u) => IsPrefix(s, u)
           /\ IsPrefix(s, t) /\ Len(s) = Len(t) => s = t
<1>1. IsPrefix(s, s)
  BY PrefixPointwise DEF Tree
<1>2. IsPrefix(s, t) /\ IsPrefix(t, u) => IsPrefix(s, u)
  BY PrefixPointwise DEF Tree
<1>3. IsPrefix(s, t) /\ Len(s) = Len(t) => s = t
  BY PrefixPointwise, TreeEquality
<1> QED BY <1>1, <1>2, <1>3

\* Of two prefixes of one tree the shorter is a prefix of the longer.
LEMMA PrefixLinear ==
    ASSUME NEW s \in Tree, NEW t \in Tree, NEW u \in Tree,
           IsPrefix(s, u), IsPrefix(t, u), Len(s) <= Len(t)
    PROVE  IsPrefix(s, t)
BY PrefixPointwise DEF Tree

\* Appending a leaf keeps the old tree as a prefix.
LEMMA PrefixAppend ==
    ASSUME NEW s \in Tree, NEW leaf \in Leaf
    PROVE  /\ Append(s, leaf) \in Tree
           /\ Len(Append(s, leaf)) = Len(s) + 1
           /\ IsPrefix(s, Append(s, leaf))
<1> DEFINE u == Append(s, leaf)
<1>1. u \in Tree /\ Len(u) = Len(s) + 1
  BY DEF Tree
<1>2. \A j \in 1 .. Len(s) : s[j] = u[j]
  BY DEF Tree
<1> HIDE DEF u
<1>3. Len(s) <= Len(u)
  BY <1>1 DEF Tree
<1>4. IsPrefix(s, u)
  BY <1>1, <1>2, <1>3, PrefixPointwise
<1> QED BY <1>1, <1>4 DEF u

\* Concatenation keeps its first operand as a prefix.
LEMMA PrefixConcat ==
    ASSUME NEW s \in Tree, NEW t \in Tree
    PROVE  /\ s \o t \in Tree
           /\ Len(s \o t) = Len(s) + Len(t)
           /\ IsPrefix(s, s \o t)
<1> DEFINE u == s \o t
<1>1. u \in Tree /\ Len(u) = Len(s) + Len(t)
  BY DEF Tree
<1>2. \A j \in 1 .. Len(s) : s[j] = u[j]
  BY DEF Tree
<1> HIDE DEF u
<1>3. Len(s) <= Len(u)
  BY <1>1 DEF Tree
<1>4. IsPrefix(s, u)
  BY <1>1, <1>2, <1>3, PrefixPointwise
<1> QED BY <1>1, <1>4 DEF u

\* The checkpoint at an index of a tree is a prefix with that index.
LEMMA PrefixCheckpointAt ==
    ASSUME NEW t \in Tree, NEW i \in 0 .. Len(t) - 1
    PROVE  /\ CheckpointAt(t, i) \in Checkpoint
           /\ Len(CheckpointAt(t, i)) = i + 1
           /\ IsPrefix(CheckpointAt(t, i), t)
<1>1. CheckpointAt(t, i) \in Tree /\ Len(CheckpointAt(t, i)) = i + 1
  BY DEF CheckpointAt, Tree
<1>2. \A j \in 1 .. i + 1 : CheckpointAt(t, i)[j] = t[j]
  BY DEF CheckpointAt, Tree
<1>3. IsPrefix(CheckpointAt(t, i), t)
  BY <1>1, <1>2, PrefixPointwise DEF Tree
<1> QED BY <1>1, <1>3 DEF Checkpoint, Tree

\* A prefix of a tree is the tree's checkpoint at the prefix's index.
LEMMA PrefixIsCheckpointAt ==
    ASSUME NEW t \in Tree, NEW c \in Checkpoint, IsPrefix(c, t)
    PROVE  Index(c) \in 0 .. Len(t) - 1 /\ c = CheckpointAt(t, Index(c))
<1>1. c \in Tree /\ Len(c) \in Nat /\ Len(c) # 0 /\ Len(t) \in Nat
  BY TreeLength DEF Checkpoint
<1>2. Len(c) <= Len(t) /\ \A j \in 1 .. Len(c) : c[j] = t[j]
  BY <1>1, PrefixPointwise
<1>3. Index(c) \in 0 .. Len(t) - 1
  BY <1>1, <1>2 DEF Index
<1> DEFINE d == CheckpointAt(t, Index(c))
<1>4. d \in Tree /\ Len(d) = Len(c) /\ IsPrefix(d, t)
  <2>1. d \in Checkpoint /\ Len(d) = Index(c) + 1 /\ IsPrefix(d, t)
    BY <1>3, PrefixCheckpointAt
  <2> QED BY <1>1, <2>1 DEF Checkpoint, Index
<1>5. \A j \in 1 .. Len(c) : d[j] = t[j]
  BY <1>4, PrefixPointwise
<1> HIDE DEF d
<1>6. c = d
  BY <1>1, <1>2, <1>4, <1>5, TreeEquality
<1> QED BY <1>3, <1>6 DEF d

\* One history has one checkpoint at an index.
LEMMA OneValuePerIndex ==
    ASSUME NEW t \in Tree, NEW c \in Checkpoint, NEW d \in Checkpoint,
           IsPrefix(c, t), IsPrefix(d, t), Index(c) = Index(d)
    PROVE  c = d
BY PrefixIsCheckpointAt

\* The first n leaves of a tree are a prefix of it, and of every extension.
LEMMA PrefixSubSeq ==
    ASSUME NEW s \in Tree, NEW t \in Tree, IsPrefix(s, t), NEW n \in 0 .. Len(s)
    PROVE  /\ SubSeq(s, 1, n) \in Tree
           /\ Len(SubSeq(s, 1, n)) = n
           /\ SubSeq(t, 1, n) = SubSeq(s, 1, n)
           /\ IsPrefix(SubSeq(s, 1, n), t)
           /\ n = Len(s) => SubSeq(s, 1, n) = s
<1>1. Len(s) <= Len(t) /\ (\A i \in 1 .. Len(s) : s[i] = t[i])
  BY PrefixPointwise
<1>2. ASSUME NEW u \in Tree, n <= Len(u)
      PROVE  /\ SubSeq(u, 1, n) \in Tree
             /\ Len(SubSeq(u, 1, n)) = n
             /\ \A i \in 1 .. n : SubSeq(u, 1, n)[i] = u[i]
  BY <1>2 DEF Tree
<1>3. n <= Len(s) /\ n <= Len(t) /\ n \in Nat
  BY <1>1, TreeLength
<1>4. SubSeq(t, 1, n) = SubSeq(s, 1, n)
  BY <1>1, <1>2, <1>3, TreeEquality DEF Tree
<1>5. IsPrefix(SubSeq(s, 1, n), t)
  BY <1>2, <1>3, <1>4, PrefixPointwise
<1>6. n = Len(s) => SubSeq(s, 1, n) = s
  BY <1>2, <1>3, TreeEquality
<1> QED BY <1>2, <1>3, <1>4, <1>5, <1>6

\* Trees with the same first n leaves have the same first n checkpoints.
LEMMA SameCheckpoints ==
    ASSUME NEW s \in Tree, NEW t \in Tree, NEW n \in Nat, n <= Len(s), n <= Len(t),
           \A j \in 1 .. n : s[j] = t[j], NEW i \in 0 .. n - 1
    PROVE  CheckpointAt(s, i) = CheckpointAt(t, i)
<1>1. Len(s) \in Nat /\ Len(t) \in Nat
  BY TreeLength
<1>2. i \in 0 .. Len(s) - 1 /\ i \in 0 .. Len(t) - 1
  BY <1>1
<1>3. /\ CheckpointAt(s, i) \in Tree /\ Len(CheckpointAt(s, i)) = i + 1
      /\ CheckpointAt(t, i) \in Tree /\ Len(CheckpointAt(t, i)) = i + 1
  BY <1>2, PrefixCheckpointAt DEF Checkpoint
<1>4. /\ \A j \in 1 .. i + 1 : CheckpointAt(s, i)[j] = s[j]
      /\ \A j \in 1 .. i + 1 : CheckpointAt(t, i)[j] = t[j]
  BY <1>2, <1>3, PrefixCheckpointAt, PrefixPointwise
<1>5. \A j \in 1 .. i + 1 : CheckpointAt(s, i)[j] = CheckpointAt(t, i)[j]
  BY <1>4
<1> QED BY <1>3, <1>5, TreeEquality

-----------------------------------------------------------------------------
(* Frontiers.                                                              *)

\* Preparing the samples keeps the committed tree, whether the replay goes on
\* or starts over, and adds no sample.
LEMMA PrepareSamplesCoherent ==
    ASSUME NEW f \in Frontier, Coherent(f), NEW indices
    PROVE  /\ PrepareSamples(f, indices) \in Frontier
           /\ Coherent(PrepareSamples(f, indices))
           /\ PrepareSamples(f, indices).committed = f.committed
           /\ PrepareSamples(f, indices).accumulated \in {f.committed, f.accumulated}
           /\ PrepareSamples(f, indices).sampled \subseteq f.sampled
<1>1. IsPrefix(f.committed, f.committed)
  BY PrefixOrder DEF Frontier
<1> QED BY <1>1 DEF PrepareSamples, NewFrontier, Coherent, Frontier

\* Ingesting a leaf keeps the frontier on one history.
LEMMA IngestCoherent ==
    ASSUME NEW f \in Frontier, Coherent(f), NEW leaf \in Leaf, NEW capture
    PROVE  /\ Ingest(f, leaf, capture) \in Frontier
           /\ Coherent(Ingest(f, leaf, capture))
           /\ Ingest(f, leaf, capture).committed = f.committed
           /\ Ingest(f, leaf, capture).accumulated = Append(f.accumulated, leaf)
           /\ Ingest(f, leaf, capture).sampled
                \subseteq f.sampled \cup {Append(f.accumulated, leaf)}
<1> DEFINE t == Append(f.accumulated, leaf)
           g == Ingest(f, leaf, capture)
<1>1. f.accumulated \in Tree /\ f.committed \in Tree /\ f.sampled \subseteq Tree
  BY DEF Frontier, Checkpoint
<1>2. t \in Tree /\ Len(t) = Len(f.accumulated) + 1 /\ IsPrefix(f.accumulated, t)
  BY <1>1, PrefixAppend
<1> HIDE DEF t
<1>3. t \in Checkpoint /\ IsPrefix(t, t)
  <2>1. Len(t) > 0
    BY <1>1, <1>2 DEF Tree
  <2> QED BY <1>2, <2>1, PrefixOrder DEF Checkpoint, Tree
<1>4. /\ g.committed = f.committed
      /\ g.accumulated = t
      /\ g.sampled \subseteq f.sampled \cup {t}
      /\ g \in Frontier
  BY <1>1, <1>2, <1>3 DEF t, Ingest, Frontier
<1>5. IsPrefix(f.committed, t) /\ Len(t) > Len(f.committed)
  <2>1. Len(f.committed) <= Len(f.accumulated)
    BY <1>1, PrefixPointwise DEF Coherent
  <2> QED BY <2>1, <1>1, <1>2, PrefixOrder DEF Coherent, Tree
<1>6. \A s \in f.sampled : IsPrefix(s, t) /\ Len(s) > Len(f.committed)
  BY <1>1, <1>2, PrefixOrder DEF Coherent
<1>7. Coherent(g)
  BY <1>3, <1>4, <1>5, <1>6 DEF Coherent
<1> QED BY <1>4, <1>7 DEF t

\* A known root lies on the replayed history and extends the committed tree.
LEMMA RootAtExtends ==
    ASSUME NEW f \in Frontier, Coherent(f), NEW i, NEW t \in RootAt(f, i)
    PROVE  /\ t \in Checkpoint
           /\ t \in f.sampled \cup {f.committed}
           /\ Index(t) = i
           /\ IsPrefix(t, f.accumulated)
           /\ IsPrefix(f.committed, t)
<1>1. f.accumulated \in Tree /\ f.committed \in Tree /\ f.sampled \subseteq Checkpoint
  BY DEF Frontier
<1>2. CASE t = f.committed /\ f.committed # << >> /\ Index(f.committed) = i
  BY <1>1, <1>2, PrefixOrder DEF Coherent, Checkpoint
<1>3. CASE t \in f.sampled /\ Index(t) = i
  <2>1. t \in Tree /\ IsPrefix(t, f.accumulated) /\ Len(f.committed) <= Len(t)
    BY <1>1, <1>3 DEF Coherent, Checkpoint, Tree
  <2>2. IsPrefix(f.committed, t)
    BY <1>1, <2>1, PrefixLinear DEF Coherent
  <2> QED BY <1>1, <1>3, <2>1, <2>2
<1> QED BY <1>2, <1>3 DEF RootAt

\* Committing a known root keeps the frontier on one history.
LEMMA CommitCoherent ==
    ASSUME NEW f \in Frontier, Coherent(f), NEW i, NEW t \in RootAt(f, i)
    PROVE  /\ Commit(f, t) \in Frontier
           /\ Coherent(Commit(f, t))
           /\ Commit(f, t).committed = t
           /\ Commit(f, t).accumulated = f.accumulated
           /\ Commit(f, t).sampled \subseteq f.sampled
<1>1. t \in Checkpoint /\ IsPrefix(t, f.accumulated)
  BY RootAtExtends
<1>2. CASE t = f.committed
  BY <1>2 DEF Commit
<1>3. CASE t # f.committed
  <2>1. /\ Commit(f, t).committed = t
        /\ Commit(f, t).accumulated = f.accumulated
        /\ Commit(f, t).sampled = {s \in f.sampled : Index(s) > Index(t)}
        /\ Commit(f, t) \in Frontier
    BY <1>1, <1>3 DEF Commit, Frontier, Checkpoint
  <2>2. \A s \in f.sampled : Index(s) > Index(t) => Len(s) > Len(t)
    BY <1>1 DEF Index, Frontier, Checkpoint, Tree
  <2> QED BY <1>1, <2>1, <2>2 DEF Coherent
<1> QED BY <1>2, <1>3

\* Insertions fetched again from the committed tree form a frontier of their own.
LEMMA RecoveredFrontierCoherent ==
    ASSUME NEW f \in Frontier, NEW bal \in Ballot, NEW leaves \in Tree
    PROVE  /\ RecoveredFrontier(f, bal, leaves) \in Frontier
           /\ Coherent(RecoveredFrontier(f, bal, leaves))
           /\ RecoveredFrontier(f, bal, leaves).committed = f.committed
           /\ RecoveredFrontier(f, bal, leaves).accumulated = f.committed \o leaves
<1> DEFINE t == f.committed \o leaves
           g == RecoveredFrontier(f, bal, leaves)
           captured == {j \in Indices(bal) : j >= Len(f.committed) /\ j < Len(t)}
<1>1. f.committed \in Tree /\ Len(f.committed) \in Nat
  BY DEF Frontier, Tree
<1>2. t \in Tree /\ Len(t) \in Nat /\ IsPrefix(f.committed, t)
  BY <1>1, PrefixConcat DEF Tree
<1>3. captured \subseteq 0 .. Len(t) - 1 /\ \A j \in captured : j >= Len(f.committed)
  <2>1. \A e \in Endpoint : Index(bal[e]) \in Int
    BY DEF Ballot, Index, Tree
  <2> HIDE DEF t
  <2> QED BY <1>1, <1>2, <2>1 DEF Indices, Responded
<1>4. /\ g.committed = f.committed
      /\ g.accumulated = t
      /\ g.sampled = {CheckpointAt(t, i) : i \in captured}
      /\ g = [committed |-> f.committed, accumulated |-> t,
              sampled |-> {CheckpointAt(t, i) : i \in captured}]
  BY DEF RecoveredFrontier
<1> HIDE DEF t, g, captured
<1>5. \A i \in captured : /\ CheckpointAt(t, i) \in Checkpoint
                          /\ Len(CheckpointAt(t, i)) > Len(f.committed)
                          /\ IsPrefix(CheckpointAt(t, i), t)
  BY <1>1, <1>2, <1>3, PrefixCheckpointAt
<1>6. g \in Frontier
  BY <1>1, <1>2, <1>4, <1>5 DEF Frontier
<1>7. Coherent(g)
  BY <1>2, <1>4, <1>5 DEF Coherent
<1> QED BY <1>4, <1>6, <1>7 DEF t, g

-----------------------------------------------------------------------------
(* The vote.                                                               *)

\* The threshold is at least one endpoint and at most all of them.
LEMMA RequiredRange == Required \in 1 .. Cardinality(Endpoint)
<1>1. Cardinality(Endpoint) \in Nat /\ Cardinality(Endpoint) # 0
  BY EndpointAssumption, FS_CardinalityType, FS_EmptySet
<1> DEFINE n == Cardinality(Endpoint)
<1>2. Required = IF Consensus = "Quorum" THEN (n + 1) \div 2 ELSE n - n \div 3
  BY DEF Required
<1> HIDE DEF n
<1>3. n \in Nat /\ n # 0
  BY <1>1 DEF n
<1>4. (n + 1) \div 2 \in 1 .. n /\ n - n \div 3 \in 1 .. n
  BY <1>3
<1> QED BY <1>2, <1>4 DEF n

\* A ballot counted over a coherent frontier moves the committed tree only
\* forward, only to a captured tree, and only to one that the reports of a
\* threshold of endpoints contain.
LEMMA EvaluateSound ==
    ASSUME NEW f \in Frontier, Coherent(f), NEW bal \in Ballot,
           NEW r \in Evaluate(f, bal)
    PROVE  /\ r.frontier \in Frontier
           /\ Coherent(r.frontier)
           /\ r.frontier.accumulated = f.accumulated
           /\ r.frontier.sampled \subseteq f.sampled
           /\ r.frontier.committed \in f.sampled \cup {f.committed}
           /\ IsPrefix(f.committed, r.frontier.committed)
           /\ r.outcome # "Verified" => r.frontier.committed = f.committed
           /\ r.outcome = "Verified" =>
                /\ r.frontier.committed \in Checkpoint
                /\ Cardinality({e \in Endpoint :
                        IsPrefix(r.frontier.committed, bal[e])}) >= Required
<1> DEFINE M == Matching(f, bal)
<1>1. CASE Cardinality(M) >= Required
  <2>1. PICK i \in NthHighest(bal, M, Required) :
          \E t \in RootAt(f, i) : r = [outcome |-> "Verified", frontier |-> Commit(f, t)]
    BY <1>1 DEF Evaluate
  <2>2. PICK t \in RootAt(f, i) : r = [outcome |-> "Verified", frontier |-> Commit(f, t)]
    BY <2>1
  <2>3. /\ t \in Checkpoint /\ t \in f.sampled \cup {f.committed} /\ Index(t) = i
        /\ IsPrefix(t, f.accumulated) /\ IsPrefix(f.committed, t)
    BY RootAtExtends
  <2>4. /\ Commit(f, t) \in Frontier /\ Coherent(Commit(f, t))
        /\ Commit(f, t).committed = t
        /\ Commit(f, t).accumulated = f.accumulated
        /\ Commit(f, t).sampled \subseteq f.sampled
    BY CommitCoherent
  <2> DEFINE Voters == {e \in M : Index(bal[e]) >= i}
             Holders == {e \in Endpoint : IsPrefix(t, bal[e])}
  <2>5. Voters \subseteq Holders
    <3> SUFFICES ASSUME NEW e \in Voters PROVE e \in Holders
      OBVIOUS
    <3>1. e \in Endpoint /\ bal[e] \in RootAt(f, Index(bal[e])) /\ Index(bal[e]) >= i
      BY DEF Matching, Eligible, Responded
    <3>2. bal[e] \in Checkpoint /\ IsPrefix(bal[e], f.accumulated)
      BY <3>1, RootAtExtends
    <3>3. t \in Tree /\ bal[e] \in Tree /\ f.accumulated \in Tree
      BY <2>3, <3>2 DEF Checkpoint, Frontier
    <3>4. Len(t) <= Len(bal[e])
      BY <2>3, <3>1, <3>3 DEF Index, Tree
    <3>5. IsPrefix(t, bal[e])
      BY <2>3, <3>2, <3>3, <3>4, PrefixLinear
    <3> QED BY <3>1, <3>5
  <2>6. Cardinality(Holders) >= Required
    <3>1. Cardinality(Voters) >= Required
      BY <2>1 DEF NthHighest
    <3>2. IsFiniteSet(Holders)
      BY EndpointAssumption, FS_Subset
    <3>3. Cardinality(Voters) <= Cardinality(Holders) /\ IsFiniteSet(Voters)
      BY <2>5, <3>2, FS_Subset
    <3>4. Cardinality(Voters) \in Nat /\ Cardinality(Holders) \in Nat
      BY <3>2, <3>3, FS_CardinalityType
    <3>5. Required \in Int
      BY RequiredRange, EndpointAssumption, FS_CardinalityType
    <3> HIDE DEF Voters, Holders
    <3> QED BY <3>1, <3>3, <3>4, <3>5
  <2> QED BY <2>2, <2>3, <2>4, <2>6
<1>2. CASE ~(Cardinality(M) >= Required)
  <2>1. r.frontier = f /\ r.outcome # "Verified"
    BY <1>2 DEF Evaluate
  <2>2. IsPrefix(f.committed, f.committed)
    BY PrefixOrder DEF Frontier
  <2> QED BY <2>1, <2>2
<1> QED BY <1>1, <1>2

\* One verification step: what EvaluateSound says, whether or not the step
\* replays a leaf or starts the replay over; no tree grows past the highest
\* index n that is reported.
LEMMA VerifyStepSound ==
    ASSUME NEW f \in Frontier, Coherent(f), NEW bal \in Ballot,
           NEW n \in Nat, \A i \in Indices(bal) : i <= n, Len(f.accumulated) <= n + 1,
           NEW leafAt \in [0 .. n -> Leaf \cup {NoLeaf}],
           NEW r \in VerifyStep(f, bal, leafAt)
    PROVE  /\ r.frontier \in Frontier
           /\ Coherent(r.frontier)
           /\ Len(r.frontier.accumulated) <= n + 1
           /\ IsPrefix(f.committed, r.frontier.committed)
           /\ r.outcome # "Verified" => r.frontier.committed = f.committed
           /\ r.outcome = "Verified" =>
                /\ r.frontier.committed \in Checkpoint
                /\ Cardinality({e \in Endpoint :
                        IsPrefix(r.frontier.committed, bal[e])}) >= Required
<1> DEFINE indices == Indices(bal)
           p == PrepareSamples(f, indices)
           next == Len(p.accumulated)
           exhausted == (\A i \in indices : i < next) \/ leafAt[next] = NoLeaf
           q == Ingest(p, leafAt[next], next \in indices)
           Sound(g) == /\ g \in Frontier /\ Coherent(g)
                       /\ g.committed = f.committed
                       /\ Len(g.accumulated) <= n + 1
<1>1. Sound(p)
  <2>1. /\ p \in Frontier /\ Coherent(p) /\ p.committed = f.committed
        /\ p.accumulated \in {f.committed, f.accumulated}
    BY PrepareSamplesCoherent
  <2>2. Len(f.committed) <= Len(f.accumulated)
    BY PrefixPointwise DEF Coherent, Frontier
  <2>3. Len(f.committed) \in Nat /\ Len(f.accumulated) \in Nat
    BY DEF Frontier, Tree
  <2> HIDE DEF p
  <2> QED BY <2>1, <2>2, <2>3
<1>2. ~exhausted => Sound(q)
  <2> HAVE ~exhausted
  <2>1. next \in Nat
    BY <1>1 DEF Frontier, Tree
  <2>2. \A i \in indices : i \in Int
    BY DEF Indices, Responded, Ballot, Index, Tree
  <2>3. next <= n
    <3> HIDE DEF p, next, indices
    <3>1. PICK i \in indices : ~(i < next)
      OBVIOUS
    <3>2. i <= n /\ i \in Int
      BY <2>2 DEF indices
    <3> QED BY <2>1, <3>1, <3>2
  <2>4. leafAt[next] \in Leaf
    <3> HIDE DEF next
    <3> QED BY <2>1, <2>3
  <2>5. /\ q \in Frontier /\ Coherent(q) /\ q.committed = p.committed
        /\ q.accumulated = Append(p.accumulated, leafAt[next])
    <3> HIDE DEF p, next, indices
    <3> QED BY <1>1, <2>4, IngestCoherent
  <2>6. Len(q.accumulated) = next + 1
    BY <1>1, <2>4, <2>5, PrefixAppend DEF Frontier
  <2> QED BY <1>1, <2>1, <2>3, <2>5, <2>6
<1>3. \/ r \in Evaluate(p, bal)
      \/ ~exhausted /\ r \in Evaluate(q, bal)
      \/ ~exhausted /\ r = [outcome |-> "More", frontier |-> q]
  BY DEF VerifyStep
<1>4. ASSUME NEW g, Sound(g), r \in Evaluate(g, bal)
      PROVE  /\ Sound(g) /\ r.frontier \in Frontier /\ Coherent(r.frontier)
             /\ Len(r.frontier.accumulated) <= n + 1
             /\ IsPrefix(f.committed, r.frontier.committed)
             /\ r.outcome # "Verified" => r.frontier.committed = f.committed
             /\ r.outcome = "Verified" =>
                  /\ r.frontier.committed \in Checkpoint
                  /\ Cardinality({e \in Endpoint :
                          IsPrefix(r.frontier.committed, bal[e])}) >= Required
  BY <1>4, EvaluateSound
<1> HIDE DEF p, next, q, exhausted
<1>5. CASE r \in Evaluate(p, bal)
  BY <1>1, <1>4, <1>5
<1>6. CASE ~exhausted /\ r \in Evaluate(q, bal)
  BY <1>2, <1>4, <1>6
<1>7. CASE ~exhausted /\ r = [outcome |-> "More", frontier |-> q]
  BY <1>2, <1>7, PrefixOrder DEF Frontier
<1> QED BY <1>3, <1>5, <1>6, <1>7
-----------------------------------------------------------------------------
(* The signing boundary.                                                   *)

\* A set of natural numbers that is not empty has a least element.
LEMMA LeastNatural ==
    ASSUME NEW S \in SUBSET Nat, S # {}
    PROVE  \E k \in S : \A j \in S : k <= j
<1>1. PICK k \in S : \A j \in S : ~(<<j, k>> \in OpToRel(<, Nat))
  BY NatLessThanWellFounded, WFMin
<1>2. \A j \in S : ~(j < k)
  BY <1>1 DEF OpToRel
<1> QED BY <1>2

\* The endpoints of E that report an index of at least k.
AtLeast(bal, E, k) == {e \in E : Index(bal[e]) >= k}

\* NthHighest in terms of AtLeast: the boundary holds n votes and the next
\* index does not.
LEMMA NthHighestCounts ==
    ASSUME NEW bal, NEW E, \A e \in E : Index(bal[e]) \in Nat, NEW n, NEW i
    PROVE  i \in NthHighest(bal, E, n) <=>
             /\ \E e \in E : i = Index(bal[e])
             /\ Cardinality(AtLeast(bal, E, i)) >= n
             /\ Cardinality(AtLeast(bal, E, i + 1)) < n
<1>1. ASSUME NEW e \in E, i = Index(bal[e])
      PROVE  {d \in E : Index(bal[d]) > i} = AtLeast(bal, E, i + 1)
  <2>1. \A d \in E : Index(bal[d]) > i <=> Index(bal[d]) >= i + 1
    BY <1>1
  <2> QED BY <2>1 DEF AtLeast
<1>2. {d \in E : Index(bal[d]) >= i} = AtLeast(bal, E, i)
  BY DEF AtLeast
<1> QED BY <1>1, <1>2 DEF NthHighest

\* Counts shrink as the index grows and grow with the set of voters.
LEMMA CountsMonotone ==
    ASSUME NEW bal, NEW E \in SUBSET Endpoint, NEW D \in SUBSET E,
           \A e \in E : Index(bal[e]) \in Nat,
           NEW i \in Nat, NEW j \in Nat, i <= j
    PROVE  /\ Cardinality(AtLeast(bal, D, j)) <= Cardinality(AtLeast(bal, E, i))
           /\ Cardinality(AtLeast(bal, D, j)) \in Nat
           /\ Cardinality(AtLeast(bal, E, i)) \in Nat
<1>1. AtLeast(bal, D, j) \subseteq AtLeast(bal, E, i)
  BY DEF AtLeast
<1>2. AtLeast(bal, E, i) \subseteq Endpoint
  BY DEF AtLeast
<1>3. IsFiniteSet(AtLeast(bal, E, i))
  BY <1>2, EndpointAssumption, FS_Subset
<1>4. /\ IsFiniteSet(AtLeast(bal, D, j))
      /\ Cardinality(AtLeast(bal, D, j)) <= Cardinality(AtLeast(bal, E, i))
  BY <1>1, <1>3, FS_Subset
<1> QED BY <1>3, <1>4, FS_CardinalityType

\* There is at most one signing boundary.
LEMMA BoundaryUnique ==
    ASSUME NEW bal, NEW E \in SUBSET Endpoint, \A e \in E : Index(bal[e]) \in Nat,
           NEW n \in Nat, NEW i \in NthHighest(bal, E, n), NEW j \in NthHighest(bal, E, n)
    PROVE  i = j
<1>1. ASSUME NEW k \in NthHighest(bal, E, n), NEW l \in NthHighest(bal, E, n), k < l
      PROVE  FALSE
  <2>1. /\ k \in Nat /\ l \in Nat /\ k + 1 \in Nat /\ k + 1 <= l
        /\ Cardinality(AtLeast(bal, E, k + 1)) < n
        /\ Cardinality(AtLeast(bal, E, l)) >= n
    BY <1>1, NthHighestCounts
  <2>2. /\ Cardinality(AtLeast(bal, E, l)) <= Cardinality(AtLeast(bal, E, k + 1))
        /\ Cardinality(AtLeast(bal, E, l)) \in Nat
        /\ Cardinality(AtLeast(bal, E, k + 1)) \in Nat
    BY <2>1, CountsMonotone
  <2> QED BY <2>1, <2>2
<1>2. i \in Nat /\ j \in Nat
  BY NthHighestCounts
<1> QED BY <1>1, <1>2

\* Enough voters have a signing boundary: the position that the code takes of
\* the sorted indices exists.
LEMMA BoundaryExists ==
    ASSUME NEW bal, NEW E \in SUBSET Endpoint,
           NEW top \in Nat, \A e \in E : Index(bal[e]) \in 0 .. top,
           NEW n \in Nat \ {0}, Cardinality(E) >= n
    PROVE  \E i \in Nat : i \in NthHighest(bal, E, n)
<1> DEFINE Count(k) == Cardinality(AtLeast(bal, E, k))
           Short == {k \in Nat : Count(k + 1) < n}
<1>1. \A k \in Nat : Count(k) \in Nat
  BY CountsMonotone
<1>2. top \in Short
  <2>1. AtLeast(bal, E, top + 1) = {}
    BY DEF AtLeast
  <2> QED BY <2>1, FS_EmptySet
<1>3. PICK k \in Short : \A j \in Short : k <= j
  BY <1>2, LeastNatural
<1>4. Count(k) >= n
  <2>1. CASE k = 0
    <3>1. AtLeast(bal, E, 0) = E
      BY DEF AtLeast
    <3> QED BY <2>1, <3>1
  <2>2. CASE k # 0
    <3>1. k - 1 \in Nat /\ (k - 1) + 1 = k
      BY <2>2
    <3>2. k - 1 \notin Short
      BY <1>3, <3>1
    <3>3. ~(Count(k) < n)
      BY <3>1, <3>2
    <3> QED BY <1>1, <3>3
  <2> QED BY <2>1, <2>2
<1>5. \E e \in E : k = Index(bal[e])
  <2> SUFFICES ASSUME \A e \in E : k # Index(bal[e]) PROVE FALSE
    OBVIOUS
  <2>1. AtLeast(bal, E, k) = AtLeast(bal, E, k + 1)
    BY DEF AtLeast
  <2> QED BY <1>1, <1>3, <1>4, <2>1
<1>6. k \in NthHighest(bal, E, n)
  BY <1>3, <1>4, <1>5, NthHighestCounts
<1> QED BY <1>6

\* replay_cannot_improve_vote: when the matching votes and all votes that could
\* still match have the same boundary, so has every set of votes in between.
LEMMA BoundaryBetween ==
    ASSUME NEW bal, NEW L \in SUBSET Endpoint, NEW H \in SUBSET Endpoint,
           NEW top \in Nat, \A e \in H : Index(bal[e]) \in 0 .. top,
           NEW n \in Nat \ {0}, Cardinality(L) >= n,
           NthHighest(bal, L, n) = NthHighest(bal, H, n),
           NEW E, L \subseteq E, E \subseteq H
    PROVE  NthHighest(bal, E, n) = NthHighest(bal, L, n)
<1>1. /\ \A e \in H : Index(bal[e]) \in Nat
      /\ \A e \in L : Index(bal[e]) \in 0 .. top
      /\ \A e \in L : Index(bal[e]) \in Nat
      /\ \A e \in E : Index(bal[e]) \in Nat
      /\ E \in SUBSET Endpoint
  OBVIOUS
<1>2. PICK i \in Nat : i \in NthHighest(bal, L, n)
  BY <1>1, BoundaryExists
<1>3. /\ \E e \in L : i = Index(bal[e])
      /\ Cardinality(AtLeast(bal, L, i)) >= n
      /\ Cardinality(AtLeast(bal, H, i + 1)) < n
  BY <1>1, <1>2, NthHighestCounts
<1>4. /\ Cardinality(AtLeast(bal, L, i)) <= Cardinality(AtLeast(bal, E, i))
      /\ Cardinality(AtLeast(bal, L, i)) \in Nat
      /\ Cardinality(AtLeast(bal, E, i)) \in Nat
  BY <1>1, CountsMonotone
<1>5. /\ Cardinality(AtLeast(bal, E, i + 1)) <= Cardinality(AtLeast(bal, H, i + 1))
      /\ Cardinality(AtLeast(bal, E, i + 1)) \in Nat
      /\ Cardinality(AtLeast(bal, H, i + 1)) \in Nat
  BY <1>1, CountsMonotone
<1>6. i \in NthHighest(bal, E, n)
  <2>1. Cardinality(AtLeast(bal, E, i)) >= n
    BY <1>3, <1>4
  <2>2. Cardinality(AtLeast(bal, E, i + 1)) < n
    BY <1>3, <1>5
  <2> QED BY <1>1, <1>3, <2>1, <2>2, NthHighestCounts
<1>7. \A j \in NthHighest(bal, E, n) : j = i
  BY <1>1, <1>6, BoundaryUnique
<1>8. \A j \in NthHighest(bal, L, n) : j = i
  BY <1>1, <1>2, BoundaryUnique
<1>9. NthHighest(bal, E, n) = {i} /\ NthHighest(bal, L, n) = {i}
  BY <1>2, <1>6, <1>7, <1>8, Zenon
<1> QED BY <1>9

-----------------------------------------------------------------------------
(* Trees that may be stored, reports and insertions.                       *)

\* A storable tree is a tree with at most MaxIndex + 1 leaves.
LEMMA StorableTreeLength ==
    ASSUME NEW t
    PROVE  /\ t \in StorableTree <=> t \in Tree /\ Len(t) <= MaxIndex + 1
           /\ t \in StorableTree => /\ Len(t) \in 0 .. MaxIndex + 1
                                    /\ t # None <=> Len(t) > 0
           /\ t \in Storable <=> t \in StorableTree /\ t # None
<1>1. t \in Storable <=> t \in Tree /\ t # << >> /\ Len(t) - 1 \in 0 .. MaxIndex
  BY DEF Storable, Checkpoint, Index, IndexSet
<1>2. t \in StorableTree <=> t \in Storable \/ t = << >>
  BY DEF StorableTree, None
<1>3. << >> \in Tree /\ Len(<< >>) = 0
  BY TreeLength
<1>4. t \in Tree => Len(t) \in Nat /\ (t = << >> <=> Len(t) = 0)
  BY TreeLength
<1>5. CASE t \in Tree
  BY <1>1, <1>2, <1>3, <1>4, <1>5, MaxIndexAssumption DEF None
<1>6. CASE t \notin Tree
  BY <1>1, <1>2, <1>3, <1>6
<1> QED BY <1>5, <1>6

\* The checkpoint of a history at an index has that index, and is no None.
LEMMA CheckpointAtIndex ==
    ASSUME NEW t \in StorableTree, NEW i \in 0 .. Len(t) - 1
    PROVE  /\ Index(CheckpointAt(t, i)) = i
           /\ CheckpointAt(t, i) # None
           /\ CheckpointAt(t, i) \in Storable
           /\ i \in IndexSet
<1>1. t \in Tree /\ Len(t) \in 0 .. MaxIndex + 1
  BY StorableTreeLength
<1>2. CheckpointAt(t, i) \in Checkpoint /\ Len(CheckpointAt(t, i)) = i + 1
  BY <1>1, PrefixCheckpointAt
<1>3. i \in 0 .. MaxIndex
  BY <1>1, MaxIndexAssumption
<1> QED BY <1>2, <1>3 DEF Checkpoint, Storable, Index, IndexSet, None

\* Nodes report checkpoints of the histories, whose leaves are leaves.
LEMMA ReportsTyped ==
    /\ Reports \subseteq Storable
    /\ \A i \in Nat : LeavesAt(i) \subseteq Leaf
<1>1. ASSUME NEW h \in Histories, NEW i \in 0 .. Index(h)
      PROVE  CheckpointAt(h, i) \in Storable
  <2>1. h \in Tree /\ Index(h) \in 0 .. MaxIndex /\ Index(h) = Len(h) - 1
    BY HistoriesAssumption DEF Checkpoint, IndexSet, Index
  <2>2. CheckpointAt(h, i) \in Checkpoint /\ Len(CheckpointAt(h, i)) = i + 1
    BY <2>1, PrefixCheckpointAt
  <2>3. i \in 0 .. MaxIndex
    BY <2>1, MaxIndexAssumption
  <2> QED BY <2>2, <2>3 DEF Storable, Index, IndexSet
<1>2. ASSUME NEW i \in Nat, NEW h \in Histories, Len(h) > i
      PROVE  h[i + 1] \in Leaf
  BY <1>2, HistoriesAssumption DEF Checkpoint, Tree
<1> QED BY <1>1, <1>2 DEF Reports, LeavesAt

\* Nodes that report a checkpoint report the whole history under it.
LEMMA ReportsClosed ==
    ASSUME NEW r \in Reports, NEW c \in Checkpoint, IsPrefix(c, r)
    PROVE  c \in Reports
<1>1. PICK h \in Histories : \E i \in 0 .. Index(h) : r = CheckpointAt(h, i)
  BY DEF Reports
<1>2. PICK i \in 0 .. Index(h) : r = CheckpointAt(h, i)
  BY <1>1
<1>3. h \in Tree /\ Index(h) = Len(h) - 1 /\ Len(h) \in Nat
  BY HistoriesAssumption, TreeLength DEF Checkpoint, Index
<1>4. r \in Tree /\ IsPrefix(r, h)
  BY <1>2, <1>3, PrefixCheckpointAt DEF Checkpoint
<1>5. IsPrefix(c, h)
  BY <1>3, <1>4, PrefixOrder DEF Checkpoint
<1>6. Index(c) \in 0 .. Index(h) /\ c = CheckpointAt(h, Index(c))
  BY <1>3, <1>5, PrefixIsCheckpointAt
<1> QED BY <1>6 DEF Reports

\* What an RPC fetch returns is a run of leaves of the length asked for.
LEMMA FetchedTyped ==
    ASSUME NEW first \in Nat, NEW n \in Nat, NEW leaves \in Fetched(first, n)
    PROVE  leaves \in Tree /\ Len(leaves) = n
<1>1. \A j \in 1 .. n : leaves[j] \in Leaf
  BY ReportsTyped DEF Fetched
<1>2. leaves \in [1 .. n -> Leaf]
  BY <1>1 DEF Fetched
<1> QED BY <1>2 DEF Tree

\* Storing leaves keeps the database's type.
LEMMA StoreInsertionsTyped ==
    ASSUME db \in [IndexSet -> Leaf \cup {NoLeaf}], NEW first \in Nat, NEW leaves \in Tree
    PROVE  StoreInsertions(first, leaves) \in [IndexSet -> Leaf \cup {NoLeaf}]
<1>1. ASSUME NEW i \in IndexSet, i >= first, i - first < Len(leaves)
      PROVE  leaves[i - first + 1] \in Leaf
  <2>1. i - first + 1 \in 1 .. Len(leaves)
    BY <1>1, MaxIndexAssumption DEF IndexSet, Tree
  <2> QED BY <2>1 DEF Tree
<1> QED BY <1>1 DEF StoreInsertions

-----------------------------------------------------------------------------
(* Types and jobs.                                                         *)

\* Moving a task to its next stage keeps the chunk's type and its checkpoints.
LEMMA MoveToSafe ==
    ASSUME PubTypeOK, NEW w \in Worker, NEW t \in chunk[w], NEW s \in Stage,
           MoveTo(w, t, s)
    PROVE  /\ chunk' \in [Worker -> SUBSET Task]
           /\ \A v \in Worker : \A u \in chunk'[v] : \E o \in chunk[v] : u.cp = o.cp
<1> DEFINE moved == [t EXCEPT !.stage = s]
<1>1. t \in Task /\ moved \in Task /\ moved.cp = t.cp
  BY DEF PubTypeOK, Task
<1>2. chunk' = [chunk EXCEPT ![w] = (chunk[w] \ {t}) \cup {moved}]
  BY DEF MoveTo
<1> HIDE DEF moved
<1>3. chunk' \in [Worker -> SUBSET Task]
  BY <1>1, <1>2 DEF PubTypeOK
<1>4. \A v \in Worker : \A u \in chunk'[v] : \E o \in chunk[v] : u.cp = o.cp
  BY <1>1, <1>2 DEF PubTypeOK
<1> QED BY <1>3, <1>4

\* A step of one submission keeps the types, takes no checkpoint into a job and
\* signs no value but the one its task holds.
LEMMA TaskStepSafe ==
    ASSUME PubTypeOK, NEW w \in Worker, NEW t \in chunk[w], TaskStep(w, t)
    PROVE  /\ PubTypeOK'
           /\ \A v \in Worker : InJob(v)' \subseteq InJob(v)
           /\ signed' \subseteq signed \cup InJob(w)
<1>0. t \in Task /\ t.cp \in Storable /\ Index(t.cp) \in IndexSet /\ t.cp \in InJob(w)
  BY DEF PubTypeOK, Task, Storable, InJob
<1>1. ASSUME NEW s \in Stage, MoveTo(w, t, s), queue' = queue
      PROVE  /\ chunk' \in [Worker -> SUBSET Task]
             /\ \A v \in Worker : InJob(v)' \subseteq InJob(v)
  BY <1>1, MoveToSafe DEF InJob
<1>2. CASE FetchAbsent(w, t)
  BY <1>0, <1>1, <1>2 DEF FetchAbsent, PubTypeOK, Stage, storageVars
<1>3. CASE FetchSame(w, t)
  BY <1>0, <1>1, <1>3 DEF FetchSame, PubTypeOK, Stage, Durable, storageVars
<1>4. CASE FetchConflict(w, t)
  BY <1>0, <1>4 DEF FetchConflict, Halt, PubTypeOK, GuardStage, storageVars, jobVars, InJob
<1>5. CASE Sign(w, t)
  BY <1>0, <1>1, <1>5 DEF Sign, PubTypeOK, Stage, storageVars
<1>6. CASE DispatchWrite(w, t)
  BY <1>0, <1>1, <1>6 DEF DispatchWrite, PubTypeOK, Stage, storageVars
<1>7. CASE WriteAcknowledged(w, t)
  BY <1>0, <1>1, <1>7 DEF WriteAcknowledged, PubTypeOK, Stage, Durable, storageVars
<1>8. CASE RetrySubmission(w, t)
  BY <1>0, <1>1, <1>8 DEF RetrySubmission, PubTypeOK, Stage, storageVars
<1>9. CASE ReadLatestIndex(w, t)
  BY <1>0, <1>1, <1>9 DEF ReadLatestIndex, PubTypeOK, Stage, storageVars
<1>10. CASE WriteLatestIndex(w, t)
  BY <1>0, <1>1, <1>10 DEF WriteLatestIndex, PubTypeOK, Stage
<1>11. CASE RetryLatestIndex(w, t)
  BY <1>0, <1>1, <1>11 DEF RetryLatestIndex, PubTypeOK, Stage, storageVars
<1> QED BY <1>2, <1>3, <1>4, <1>5, <1>6, <1>7, <1>8, <1>9, <1>10, <1>11 DEF TaskStep

\* The same of a whole publication step of any worker.
LEMMA PublicationStepSafe ==
    ASSUME PubTypeOK, PublicationStep
    PROVE  /\ PubTypeOK'
           /\ \A v \in Worker : InJob(v)' \subseteq InJob(v)
           /\ signed' \subseteq signed \cup UNION {InJob(v) : v \in Worker}
<1>1. PICK w \in Worker : \/ TakeChunk(w) \/ PersistTombstone(w) \/ PersistReorgStatus(w)
                          \/ \E t \in chunk[w] : TaskStep(w, t)
  BY DEF PublicationStep
<1>2. CASE TakeChunk(w)
  <2> DEFINE next == {c \in queue[w] :
                        Cardinality(Above(queue[w], c)) < MaxSignConcurrency}
             taken == {[cp |-> c, stage |-> "fetch",
                        publish |-> publishLatest[w] /\ Above(queue[w], c) = {}] :
                         c \in next}
  <2>1. next \subseteq queue[w] /\ queue[w] \subseteq Storable
    BY DEF PubTypeOK
  <2>2. /\ queue' = [queue EXCEPT ![w] = queue[w] \ next]
        /\ chunk' = [chunk EXCEPT ![w] = taken]
        /\ publishLatest' = [publishLatest EXCEPT ![w] = FALSE]
        /\ UNCHANGED <<stored, latestIndex, reorgFlag, tombstone, wire, outage, halted,
                       guard, signed>>
    BY <1>2 DEF TakeChunk, storageVars
  <2>3. taken \subseteq Task /\ \A u \in taken : u.cp \in next
    <3> HIDE DEF next
    <3> SUFFICES ASSUME NEW c \in next
                 PROVE  [cp |-> c, stage |-> "fetch",
                         publish |-> publishLatest[w] /\ Above(queue[w], c) = {}] \in Task
      OBVIOUS
    <3>1. (publishLatest[w] /\ Above(queue[w], c) = {}) \in BOOLEAN
      OBVIOUS
    <3> QED BY <2>1, <3>1 DEF Task, Stage
  <2> HIDE DEF next, taken
  <2>4. PubTypeOK'
    BY <2>1, <2>2, <2>3 DEF PubTypeOK
  <2>5. \A v \in Worker : InJob(v)' \subseteq InJob(v)
    BY <2>1, <2>2, <2>3 DEF InJob, PubTypeOK
  <2> QED BY <2>2, <2>4, <2>5
<1>3. CASE PersistTombstone(w)
  BY <1>3 DEF PersistTombstone, PubTypeOK, GuardStage, jobVars, InJob
<1>4. CASE PersistReorgStatus(w)
  BY <1>4 DEF PersistReorgStatus, PubTypeOK, GuardStage, jobVars, InJob
<1>5. CASE \E t \in chunk[w] : TaskStep(w, t)
  BY <1>5, TaskStepSafe
<1> QED BY <1>1, <1>2, <1>3, <1>4, <1>5

\* Storage applying a write, and the end of an outage, keep every job.
LEMMA StorageStepSafe ==
    ASSUME PubTypeOK, OutageEnds \/ \E c \in wire : WriteCheckpoint(c)
    PROVE  /\ PubTypeOK'
           /\ \A v \in Worker : InJob(v)' \subseteq InJob(v)
           /\ signed' = signed
<1>1. CASE OutageEnds
  BY <1>1 DEF OutageEnds, PubTypeOK, storageVars, jobVars, InJob
<1>2. ASSUME NEW c \in wire, WriteCheckpoint(c)
      PROVE  /\ PubTypeOK'
             /\ \A v \in Worker : InJob(v)' \subseteq InJob(v)
             /\ signed' = signed
  <2> DEFINE After(t) == IF t.cp = c /\ t.stage = "writing"
                         THEN [t EXCEPT !.stage = "written"] ELSE t
  <2>1. \A t \in Task : After(t) \in Task /\ After(t).cp = t.cp
    BY DEF Task, Stage
  <2>2. chunk' = [w \in Worker |-> {After(t) : t \in chunk[w]}]
    BY <1>2 DEF WriteCheckpoint
  <2>3. c \in Storable /\ Index(c) \in IndexSet
    BY DEF PubTypeOK, Storable
  <2> HIDE DEF After
  <2>4. chunk' \in [Worker -> SUBSET Task]
    BY <2>1, <2>2 DEF PubTypeOK
  <2>5. PubTypeOK'
    BY <1>2, <2>3, <2>4 DEF WriteCheckpoint, PubTypeOK
  <2>6. \A v \in Worker : InJob(v)' \subseteq InJob(v)
    BY <1>2, <2>1, <2>2, SMTT(30) DEF WriteCheckpoint, InJob, PubTypeOK
  <2> QED BY <1>2, <2>5, <2>6 DEF WriteCheckpoint
<1> QED BY <1>1, <1>2

\* A started job holds exactly the checkpoints it is given.
LEMMA StartJobSafe ==
    ASSUME PubTypeOK, NEW w \in Worker, NEW S \in SUBSET Storable, NEW p \in BOOLEAN,
           StartJob(w, S, p)
    PROVE  /\ queue' \in [Worker -> SUBSET Storable]
           /\ chunk' \in [Worker -> SUBSET Task]
           /\ publishLatest' \in [Worker -> BOOLEAN]
           /\ InJob(w)' = S
           /\ \A v \in Worker \ {w} : InJob(v)' = InJob(v)
BY DEF StartJob, PubTypeOK, InJob

-----------------------------------------------------------------------------
(* What storage holds.                                                     *)

\* Storage holds c, or nothing that differs from it, at the index of c.
Held(c) == stored[Index(c)] = c
Fits(c) == stored[Index(c)] \in {None, c}

\* The first n checkpoints of the history t are durable.
Covered(t, n) == \A i \in 0 .. n - 1 : stored[i] = CheckpointAt(t, i)

\* The values in requests and jobs, one per index.
InHand == wire \cup UNION {InJob(w) : w \in Worker}
Consistent == \A c, d \in InHand : Index(c) = Index(d) => c = d

\* No request in flight overwrites another value; neither does a submission
\* past its fetch, and past its write it is durable.
SubmissionsFit ==
    /\ \A c \in wire : Fits(c)
    /\ \A w \in Worker : \A t \in chunk[w] :
         /\ t.stage \in {"sign", "write", "writing"} => Fits(t.cp)
         /\ t.stage \in {"written", "latest", "latestWrite", "done"} => Held(t.cp)

\* Storage never replaces a value.
Grows == \A i \in IndexSet : stored[i] # None => stored'[i] = stored[i]

\* While storage only grows, what is durable stays durable.
LEMMA DurableStays ==
    ASSUME Grows
    PROVE  /\ \A c \in Storable : stored[Index(c)] = c => stored'[Index(c)] = c
           /\ \A t \in StorableTree : \A n \in 0 .. Len(t) :
                (\A i \in 0 .. n - 1 : stored[i] = CheckpointAt(t, i))
                  => \A i \in 0 .. n - 1 : stored'[i] = CheckpointAt(t, i)
<1>1. \A c \in Storable : c # None /\ Index(c) \in IndexSet
  BY DEF Storable, Checkpoint, None
<1>2. ASSUME NEW t \in StorableTree, NEW n \in 0 .. Len(t), NEW i \in 0 .. n - 1
      PROVE  CheckpointAt(t, i) # None /\ i \in IndexSet
  <2>1. t \in Tree /\ Len(t) \in 0 .. MaxIndex + 1
    BY StorableTreeLength
  <2>2. i \in 0 .. Len(t) - 1 /\ i \in 0 .. MaxIndex
    BY <2>1, MaxIndexAssumption
  <2>3. CheckpointAt(t, i) \in Checkpoint
    BY <2>1, <2>2, PrefixCheckpointAt
  <2> QED BY <2>2, <2>3 DEF Checkpoint, None, IndexSet
<1> QED BY <1>1, <1>2 DEF Grows

\* A moved task is the only one that changes, and the jobs keep their content.
LEMMA MoveToKeeps ==
    ASSUME PubTypeOK, NEW w \in Worker, NEW t \in chunk[w], NEW s \in Stage,
           MoveTo(w, t, s), queue' = queue
    PROVE  /\ \A v \in Worker : InJob(v)' = InJob(v)
           /\ \A v \in Worker : \A u \in chunk'[v] :
                \/ u \in chunk[v] /\ (v = w => u # t)
                \/ v = w /\ u = [t EXCEPT !.stage = s]
<1> DEFINE moved == [t EXCEPT !.stage = s]
<1>1. t \in Task /\ moved \in Task /\ moved.cp = t.cp
  BY DEF PubTypeOK, Task
<1>2. chunk' = [chunk EXCEPT ![w] = (chunk[w] \ {t}) \cup {moved}]
  BY DEF MoveTo
<1>3. \A v \in Worker : chunk'[v] = IF v = w THEN (chunk[w] \ {t}) \cup {moved} ELSE chunk[v]
  BY <1>2 DEF PubTypeOK
<1>4. \A v \in Worker : \A u \in chunk'[v] :
        \/ u \in chunk[v] /\ (v = w => u # t)
        \/ v = w /\ u = moved
  <2> HIDE DEF moved
  <2> QED BY <1>3
<1>5. \A v \in Worker : InJob(v)' = InJob(v)
  <2> HIDE DEF moved
  <2>1. \A v \in Worker : {u.cp : u \in chunk'[v]} = {u.cp : u \in chunk[v]}
    BY <1>1, <1>3
  <2> QED BY <2>1 DEF InJob
<1> QED BY <1>4, <1>5

\* A task that moves on keeps the submissions fitting if its new stage is earned.
LEMMA MoveToFits ==
    ASSUME PubTypeOK, SubmissionsFit, NEW w \in Worker, NEW t \in chunk[w], NEW s \in Stage,
           MoveTo(w, t, s), UNCHANGED <<stored, queue>>,
           wire' = wire \/ (wire' = wire \cup {t.cp} /\ Fits(t.cp)),
           s \in {"sign", "write", "writing"} => Fits(t.cp),
           s \in {"written", "latest", "latestWrite", "done"} => Held(t.cp)
    PROVE  /\ SubmissionsFit'
           /\ \A v \in Worker : InJob(v)' = InJob(v)
           /\ wire' \subseteq wire \cup InJob(w)
<1>1. /\ \A v \in Worker : InJob(v)' = InJob(v)
      /\ \A v \in Worker : \A u \in chunk'[v] :
           u \in chunk[v] \/ u = [t EXCEPT !.stage = s]
  BY MoveToKeeps
<1>2. [t EXCEPT !.stage = s].cp = t.cp /\ [t EXCEPT !.stage = s].stage = s
  BY DEF PubTypeOK, Task
<1>3. SubmissionsFit'
  BY <1>1, <1>2 DEF SubmissionsFit, Fits, Held
<1> QED BY <1>1, <1>3 DEF InJob

\* One submission: storage is only written through the wire, the wire takes
\* only values that fit, and the latest index moves only at the end.
LEMMA TaskStepFits ==
    ASSUME PubTypeOK, SubmissionsFit, NEW w \in Worker, NEW t \in chunk[w], TaskStep(w, t)
    PROVE  /\ SubmissionsFit'
           /\ stored' = stored
           /\ \A v \in Worker : InJob(v)' = InJob(v)
           /\ wire' \subseteq wire \cup InJob(w)
           /\ \/ latestIndex' = latestIndex
              \/ ~halted /\ t.stage = "latestWrite" /\ latestIndex' = Index(t.cp)
<1> USE DEF storageVars, Awaiting, Stage
<1>0. /\ t.stage \in {"sign", "write", "writing"} => Fits(t.cp)
      /\ t.stage \in {"written", "latest", "latestWrite", "done"} => Held(t.cp)
  BY DEF SubmissionsFit
<1>2. CASE FetchAbsent(w, t)
  <2>1. Fits(t.cp)
    BY <1>2 DEF FetchAbsent, Fits
  <2> QED BY <1>2, <2>1, MoveToFits DEF FetchAbsent
<1>3. CASE FetchSame(w, t)
  <2>1. Held(t.cp)
    BY <1>3 DEF FetchSame, Held
  <2> QED BY <1>3, <2>1, MoveToFits DEF FetchSame, Durable
<1>4. CASE FetchConflict(w, t)
  BY <1>4 DEF FetchConflict, jobVars, InJob, SubmissionsFit, Fits, Held
<1>5. CASE Sign(w, t)
  BY <1>0, <1>5, MoveToFits DEF Sign
<1>6. CASE DispatchWrite(w, t)
  BY <1>0, <1>6, MoveToFits DEF DispatchWrite
<1>7. CASE WriteAcknowledged(w, t)
  BY <1>0, <1>7, MoveToFits DEF WriteAcknowledged, Durable
<1>8. CASE RetrySubmission(w, t)
  BY <1>8, MoveToFits DEF RetrySubmission
<1>9. CASE ReadLatestIndex(w, t)
  BY <1>0, <1>9, MoveToFits DEF ReadLatestIndex
<1>10. CASE WriteLatestIndex(w, t)
  BY <1>0, <1>10, MoveToFits DEF WriteLatestIndex
<1>11. CASE RetryLatestIndex(w, t)
  BY <1>0, <1>11, MoveToFits DEF RetryLatestIndex
<1> QED BY <1>2, <1>3, <1>4, <1>5, <1>6, <1>7, <1>8, <1>9, <1>10, <1>11 DEF TaskStep

\* A chunk holds what it takes out of the queue; the last chunk is durable.
LEMMA TakeChunkFits ==
    ASSUME PubTypeOK, SubmissionsFit, NEW w \in Worker, TakeChunk(w)
    PROVE  /\ SubmissionsFit'
           /\ UNCHANGED <<stored, latestIndex, wire>>
           /\ \A v \in Worker : InJob(v)' \subseteq InJob(v)
           /\ \A v \in Worker : \A c \in InJob(v) : c \in InJob(v)' \/ stored'[Index(c)] = c
           /\ \A v \in Worker : \A u \in chunk'[v] :
                \/ v # w /\ u \in chunk[v]
                \/ v = w /\ u.stage = "fetch" /\ u.cp \in queue[w]
                         /\ u.publish = (publishLatest[w] /\ Above(queue[w], u.cp) = {})
           /\ \A v \in Worker : queue'[v] \subseteq queue[v]
<1> DEFINE next == {c \in queue[w] : Cardinality(Above(queue[w], c)) < MaxSignConcurrency}
           Fresh(c) == [cp |-> c, stage |-> "fetch",
                        publish |-> publishLatest[w] /\ Above(queue[w], c) = {}]
           taken == {Fresh(c) : c \in next}
<1>1. /\ queue' = [queue EXCEPT ![w] = queue[w] \ next]
      /\ chunk' = [chunk EXCEPT ![w] = taken]
      /\ UNCHANGED <<stored, latestIndex, wire>>
      /\ \A t \in chunk[w] : t.stage = "done"
  BY DEF TakeChunk, storageVars
<1>2. next \subseteq queue[w]
  OBVIOUS
<1>3. /\ \A u \in taken : /\ u.stage = "fetch" /\ u.cp \in next
                          /\ u.publish = (publishLatest[w] /\ Above(queue[w], u.cp) = {})
      /\ {u.cp : u \in taken} = next
  <2> HIDE DEF next
  <2>1. \A c \in next : /\ Fresh(c).stage = "fetch" /\ Fresh(c).cp = c
                        /\ Fresh(c).publish = (publishLatest[w] /\ Above(queue[w], c) = {})
    OBVIOUS
  <2> HIDE DEF Fresh
  <2> QED BY <2>1
<1> HIDE DEF next, taken, Fresh
<1>4. \A v \in Worker : /\ queue'[v] = IF v = w THEN queue[w] \ next ELSE queue[v]
                        /\ chunk'[v] = IF v = w THEN taken ELSE chunk[v]
  BY <1>1 DEF PubTypeOK
<1>5. SubmissionsFit'
  BY <1>1, <1>3, <1>4 DEF SubmissionsFit, Fits, Held
<1>6. /\ InJob(w)' = queue[w]
      /\ \A v \in Worker : v # w => InJob(v)' = InJob(v)
  <2>1. InJob(w)' = (queue[w] \ next) \cup next
    BY <1>3, <1>4 DEF InJob
  <2> QED BY <1>2, <1>4, <2>1 DEF InJob
<1>7. \A c \in InJob(w) : c \in queue[w] \/ stored[Index(c)] = c
  BY <1>1 DEF InJob, SubmissionsFit, Held
<1>8. \A v \in Worker : InJob(v)' \subseteq InJob(v)
  BY <1>6 DEF InJob
<1>9. \A v \in Worker : \A c \in InJob(v) : c \in InJob(v)' \/ stored'[Index(c)] = c
  BY <1>1, <1>6, <1>7
<1>10. \A v \in Worker : \A u \in chunk'[v] :
         \/ v # w /\ u \in chunk[v]
         \/ v = w /\ u.stage = "fetch" /\ u.cp \in queue[w]
                  /\ u.publish = (publishLatest[w] /\ Above(queue[w], u.cp) = {})
  BY <1>2, <1>3, <1>4
<1>11. \A v \in Worker : queue'[v] \subseteq queue[v]
  BY <1>4
<1> QED BY <1>1, <1>5, <1>8, <1>9, <1>10, <1>11

\* The same of a whole publication step of any worker.
LEMMA PublicationStepFits ==
    ASSUME PubTypeOK, SubmissionsFit, PublicationStep
    PROVE  /\ SubmissionsFit'
           /\ stored' = stored
           /\ \A v \in Worker : InJob(v)' \subseteq InJob(v)
           /\ \A v \in Worker : \A c \in InJob(v) : c \in InJob(v)' \/ stored'[Index(c)] = c
           /\ wire' \subseteq InHand
           /\ \/ latestIndex' = latestIndex
              \/ \E w \in Worker : \E t \in chunk[w] :
                   ~halted /\ t.stage = "latestWrite" /\ latestIndex' = Index(t.cp)
<1>1. PICK w \in Worker : \/ TakeChunk(w) \/ PersistTombstone(w) \/ PersistReorgStatus(w)
                          \/ \E t \in chunk[w] : TaskStep(w, t)
  BY DEF PublicationStep
<1>2. CASE TakeChunk(w)
  BY <1>2, TakeChunkFits DEF InHand
<1>3. CASE PersistTombstone(w) \/ PersistReorgStatus(w)
  BY <1>3 DEF PersistTombstone, PersistReorgStatus, jobVars, InJob, InHand, SubmissionsFit,
     Fits, Held
<1>4. ASSUME NEW t \in chunk[w], TaskStep(w, t)
      PROVE  /\ SubmissionsFit'
             /\ stored' = stored
             /\ \A v \in Worker : InJob(v)' = InJob(v)
             /\ wire' \subseteq wire \cup InJob(w)
             /\ \/ latestIndex' = latestIndex
                \/ ~halted /\ t.stage = "latestWrite" /\ latestIndex' = Index(t.cp)
  BY <1>4, TaskStepFits
<1>5. CASE \E t \in chunk[w] : TaskStep(w, t)
  BY <1>4, <1>5 DEF InHand
<1> QED BY <1>1, <1>2, <1>3, <1>5

\* Storage applying a request: the value fits, so nothing is replaced and every
\* submission still fits.
LEMMA WriteCheckpointFits ==
    ASSUME PubTypeOK, SubmissionsFit, Consistent, NEW c \in wire, WriteCheckpoint(c)
    PROVE  /\ SubmissionsFit'
           /\ Grows
           /\ c \in Storable /\ Fits(c) /\ stored' = [stored EXCEPT ![Index(c)] = c]
           /\ wire' \subseteq wire
           /\ \A v \in Worker : InJob(v)' = InJob(v)
           /\ \A v \in Worker : \A u \in chunk'[v] : \E o \in chunk[v] :
                u = IF o.cp = c /\ o.stage = "writing" THEN [o EXCEPT !.stage = "written"] ELSE o
<1> DEFINE After(t) == IF t.cp = c /\ t.stage = "writing"
                       THEN [t EXCEPT !.stage = "written"] ELSE t
<1>1. /\ chunk' = [w \in Worker |-> {After(t) : t \in chunk[w]}]
      /\ wire' = wire \ {c} /\ stored' = [stored EXCEPT ![Index(c)] = c] /\ queue' = queue
  BY DEF WriteCheckpoint
<1>2. \A t \in Task : /\ After(t).cp = t.cp
                      /\ After(t).stage \in {t.stage, "written"}
                      /\ After(t).stage # t.stage => t.cp = c
  BY DEF Task
<1>3. c \in Storable /\ Index(c) \in IndexSet /\ Fits(c) /\ c # None
  BY DEF PubTypeOK, Storable, SubmissionsFit, Checkpoint, None
<1>4. /\ \A i \in IndexSet : stored'[i] = IF i = Index(c) THEN c ELSE stored[i]
      /\ \A d \in Storable : Index(d) \in IndexSet
  BY <1>1, <1>3 DEF PubTypeOK, Storable
<1>5. Grows
  BY <1>3, <1>4 DEF Grows, Fits
<1>6. \A d \in InHand : d \in Storable /\ (Index(d) = Index(c) => d = c) /\ c \in InHand
  BY DEF InHand, Consistent, InJob, PubTypeOK, Task
<1>7. \A d \in InHand : /\ Fits(d) => stored'[Index(d)] \in {None, d}
                        /\ Held(d) => stored'[Index(d)] = d
                        /\ d = c => stored'[Index(d)] = d
  BY <1>4, <1>6 DEF Fits, Held
<1>8. \A v \in Worker : \A u \in chunk'[v] : \E o \in chunk[v] : u = After(o)
  BY <1>1
<1>9. \A v \in Worker : chunk[v] \subseteq Task /\ {t.cp : t \in chunk[v]} \subseteq InHand
  BY DEF PubTypeOK, InHand, InJob
<1>10. SubmissionsFit'
  <2> HIDE DEF After
  <2>1. \A d \in wire' : Fits(d)'
    BY <1>1, <1>7 DEF SubmissionsFit, Fits, InHand
  <2>2. ASSUME NEW v \in Worker, NEW u \in chunk'[v]
        PROVE  /\ u.stage \in {"sign", "write", "writing"} => Fits(u.cp)'
               /\ u.stage \in {"written", "latest", "latestWrite", "done"} => Held(u.cp)'
    <3>1. PICK o \in chunk[v] : u = After(o)
      BY <1>8
    <3>2. /\ o \in Task /\ o.cp \in InHand /\ u.cp = o.cp
          /\ u.stage \in {o.stage, "written"}
          /\ u.stage # o.stage => o.cp = c
      BY <1>2, <1>9, <3>1
    <3>3. /\ o.stage \in {"sign", "write", "writing"} => Fits(o.cp)
          /\ o.stage \in {"written", "latest", "latestWrite", "done"} => Held(o.cp)
      BY DEF SubmissionsFit
    <3>4. stored'[Index(o.cp)] = o.cp => stored'[Index(o.cp)] \in {None, o.cp}
      OBVIOUS
    <3> QED BY <1>7, <3>2, <3>3, <3>4 DEF Fits, Held
  <2> QED BY <2>1, <2>2 DEF SubmissionsFit
<1>11. \A v \in Worker : InJob(v)' = InJob(v)
  <2> HIDE DEF After
  <2>1. \A v \in Worker : {u.cp : u \in chunk'[v]} = {t.cp : t \in chunk[v]}
    BY <1>1, <1>2, <1>9
  <2> QED BY <1>1, <2>1 DEF InJob
<1> QED BY <1>1, <1>3, <1>5, <1>8, <1>10, <1>11
=============================================================================
