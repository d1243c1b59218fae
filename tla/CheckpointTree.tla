--------------------------- MODULE CheckpointTree ---------------------------
(***************************************************************************)
(* The validator's Merkle frontier and the vote of the state-read          *)
(* endpoints over it (agents/validator/src/submit.rs, CheckpointTree,      *)
(* verify_checkpoint_batch_step, evaluate_checkpoint_batch,                *)
(* replay_cannot_improve_vote; checkpoint_consensus.rs).                   *)
(*                                                                         *)
(* A Merkle root commits to the whole sequence of leaves under it, so a    *)
(* tree is represented by that sequence and so is a checkpoint: its index  *)
(* is one less than its length and its root is the sequence itself (hashes *)
(* are assumed collision-free).  << >> is the empty tree, and stands for   *)
(* "no checkpoint" where the code has an Option.                           *)
(***************************************************************************)
EXTENDS Integers, Sequences, FiniteSets, SequencesExt

CONSTANTS
    Leaf,        \* message ids inserted in the Merkle tree hook
    NoLeaf,      \* an index with no indexed insertion
    Endpoint,    \* the configured state-read endpoints: the voting slots
    Consensus    \* "Quorum" or "Majority": rpcConsensusType

ASSUME EndpointAssumption == IsFiniteSet(Endpoint) /\ Endpoint # {}
ASSUME ConsensusAssumption == Consensus \in {"Quorum", "Majority"}
ASSUME NoLeafAssumption == NoLeaf \notin Leaf

Tree == Seq(Leaf)
Checkpoint == Tree \ {<< >>}
None == << >>

Index(c) == Len(c) - 1
CheckpointAt(t, i) == SubSeq(t, 1, i + 1)

(***************************************************************************)
(* CheckpointConsensus::required: ceil(N/2), or N minus a third of N.      *)
(***************************************************************************)
Required ==
    LET n == Cardinality(Endpoint)
    IN  IF Consensus = "Quorum" THEN (n + 1) \div 2 ELSE n - n \div 3

TreeExceedsCheckpoint(c, t) == Index(c) + 1 < Len(t)

-----------------------------------------------------------------------------
(* The frontier.  sampled holds the trees captured at sampled indices.     *)

Frontier == [committed : Tree, accumulated : Tree, sampled : SUBSET Checkpoint]

NewFrontier(t) == [committed |-> t, accumulated |-> t, sampled |-> {}]

PrepareSamples(f, indices) ==
    LET kept == {s \in f.sampled : Index(s) \in indices}
        uncaptured == {i \in indices : /\ i >= Len(f.committed)
                                       /\ i < Len(f.accumulated)
                                       /\ \A s \in kept : Index(s) # i}
    IN  IF uncaptured # {}
        THEN NewFrontier(f.committed)
        ELSE [f EXCEPT !.sampled = kept]

\* root_at as a set: empty while no root is known at index i.
RootAt(f, i) ==
    IF f.committed # << >> /\ Index(f.committed) = i
    THEN {f.committed}
    ELSE {s \in f.sampled : Index(s) = i}

\* Mutation: the tree is captured before the leaf is ingested.
IngestCapturesFirst(f, leaf, capture) ==
    [f EXCEPT !.accumulated = Append(@, leaf),
              !.sampled = IF capture THEN @ \cup {f.accumulated} ELSE @]

Ingest(f, leaf, capture) ==
    LET t == Append(f.accumulated, leaf)
    IN  [f EXCEPT !.accumulated = t,
                  !.sampled = IF capture
                              THEN {s \in @ : Index(s) # Index(t)} \cup {t}
                              ELSE @]

\* commit of the sampled frontier t; committing the committed index is a no-op.
Commit(f, t) ==
    IF t = f.committed
    THEN f
    ELSE [f EXCEPT !.committed = t,
                   !.sampled = {s \in @ : Index(s) > Index(t)}]

-----------------------------------------------------------------------------
(* The vote.  A ballot has one slot per endpoint; None is a failed read.   *)

Ballot == [Endpoint -> Tree]
EmptyBallot == [e \in Endpoint |-> None]

Responded(b) == {e \in Endpoint : b[e] # None}
Indices(b) == {Index(b[e]) : e \in Responded(b)}
HasThreshold(b) == Cardinality(Responded(b)) >= Required

Eligible(f, b) == {e \in Responded(b) : ~TreeExceedsCheckpoint(b[e], f.committed)}
Matching(f, b) == {e \in Eligible(f, b) : RootAt(f, Index(b[e])) = {b[e]}}
Missing(f, b) == {e \in Eligible(f, b) : RootAt(f, Index(b[e])) = {}}

\* The n-th highest index the endpoints of E report (sort descending, take
\* position n-1), as a set: empty when E has fewer than n endpoints.
NthHighest(b, E, n) ==
    {i \in {Index(b[e]) : e \in E} :
        /\ Cardinality({e \in E : Index(b[e]) >= i}) >= n
        /\ Cardinality({e \in E : Index(b[e]) > i}) < n}

\* Mutation: a threshold of matching roots ends the replay.
ReplayStopsAtThreshold(f, b) == Cardinality(Matching(f, b)) >= Required

ReplayCannotImproveVote(f, b) ==
    LET matching == Matching(f, b)
    IN  /\ Cardinality(matching) >= Required
        /\ NthHighest(b, matching, Required)
             = NthHighest(b, matching \cup Missing(f, b), Required)

\* A threshold of endpoints agrees on another root at the committed index.
Conflicting(f, b) ==
    /\ f.committed # << >>
    /\ \E e \in Responded(b) :
         /\ Index(b[e]) = Index(f.committed)
         /\ b[e] # f.committed
         /\ Cardinality({o \in Responded(b) : b[o] = b[e]}) >= Required

\* Mutation: the highest matching index is signed.
EvaluateHighest(f, b) ==
    IF Cardinality(Matching(f, b)) >= Required
    THEN {[outcome |-> "Verified", frontier |-> Commit(f, t)] :
            t \in UNION {RootAt(f, i) : i \in NthHighest(b, Matching(f, b), 1)}}
    ELSE {[outcome |-> "WaitingForRpc", frontier |-> f]}

\* The result of counting the ballot, as the set that holds it.
Evaluate(f, b) ==
    LET matching == Matching(f, b)
        target == NthHighest(b, matching, Required)
        waiting == IF Cardinality(matching) + Cardinality(Missing(f, b)) >= Required
                   THEN "WaitingForInsertions" ELSE "WaitingForRpc"
    IN  IF Cardinality(matching) >= Required
        THEN {[outcome |-> "Verified", frontier |-> Commit(f, t)] :
                t \in UNION {RootAt(f, i) : i \in target}}
        ELSE {[outcome |-> waiting, frontier |-> f]}

(***************************************************************************)
(* verify_checkpoint_batch_step with a replay limit of one leaf: prepare   *)
(* the samples, stop if replay cannot change the vote, else ingest the     *)
(* next cached leaf.  "More" means that leaves remain (the code's None).   *)
(***************************************************************************)
VerifyStep(f, b, leafAt) ==
    LET indices == Indices(b)
        p == PrepareSamples(f, indices)
        next == Len(p.accumulated)
        exhausted == (\A i \in indices : i < next) \/ leafAt[next] = NoLeaf
        q == Ingest(p, leafAt[next], next \in indices)
        stop == \/ next \in indices /\ ReplayCannotImproveVote(q, b)
                \/ \A i \in indices : i <= next
    IN  IF ReplayCannotImproveVote(p, b) \/ exhausted THEN Evaluate(p, b)
        ELSE IF stop THEN Evaluate(q, b)
        ELSE {[outcome |-> "More", frontier |-> q]}

-----------------------------------------------------------------------------
(* recover_checkpoint_batch: insertions fetched again over RPC from the    *)
(* committed frontier, put to the same ballot.                             *)

Recoverable(f, b) ==
    {i \in Indices(b) : i >= Len(f.committed) /\ i < Len(f.accumulated)}

RecoveredFrontier(f, b, leaves) ==
    LET t == f.committed \o leaves
    IN  [committed |-> f.committed, accumulated |-> t,
         sampled |-> {CheckpointAt(t, i) : i \in
                        {j \in Indices(b) : j >= Len(f.committed) /\ j < Len(t)}}]

-----------------------------------------------------------------------------
(* The invariant that makes the cached frontiers sound: every tree the     *)
(* frontier holds lies on one history, and samples are past the committed  *)
(* tree.                                                                   *)
Coherent(f) ==
    /\ IsPrefix(f.committed, f.accumulated)
    /\ \A s \in f.sampled : IsPrefix(s, f.accumulated) /\ Len(s) > Len(f.committed)
=============================================================================
