------------------------- MODULE NonceManagerProofs -------------------------
(***************************************************************************)
(* Proofs about NonceManager, for every set of transactions and every      *)
(* bound: the type invariant, that a finalized nonce which a reorg takes   *)
(* back is never forgotten, and that short of the mishaps of clean a nonce *)
(* has one holder, which is sent with it, below the upper nonce.           *)
(***************************************************************************)
EXTENDS NonceManager, WellFoundedInduction, TLAPS

\* A non-empty set of naturals has a least element.
LEMMA LeastNatural ==
  ASSUME NEW T, T \subseteq Nat, T # {}
  PROVE  \E x \in T : \A y \in T : x <= y
<1> DEFINE R == OpToRel(<, Nat)
<1>1. \E x \in T : \A y \in T : ~ (<<y, x>> \in R)
  <2>1. IsWellFoundedOn(R, Nat)
    BY NatLessThanWellFounded
  <2> HIDE DEF R
  <2> QED BY <2>1, WFMin
<1>2. PICK x \in T : \A y \in T : ~ (<<y, x>> \in R)
  BY <1>1
<1>3. ASSUME NEW y \in T PROVE x <= y
  <2>1. R = {ss \in Nat \X Nat : ss[1] < ss[2]}
    BY DEF OpToRel
  <2> HIDE DEF R
  <2>2. y < x => <<y, x>> \in R
    BY <2>1
  <2> QED BY <1>2, <2>2
<1> QED BY <1>3

\* trim_freed_upper_nonces ends at or above its floor and not above where it
\* starts, and passes available nonces only.
LEMMA TrimmedBounds ==
  ASSUME NEW floor \in Nat, NEW top \in Nat, floor <= top
  PROVE  /\ Trimmed(floor, top) \in floor..top
         /\ \A m \in Trimmed(floor, top)..(top - 1) : nonce_available(m)
<1> DEFINE T == {n \in floor..top : \A m \in n..(top - 1) : nonce_available(m)}
<1>1. T \subseteq Nat /\ top \in T
  OBVIOUS
<1>2. PICK x \in T : \A y \in T : x <= y
  BY <1>1, LeastNatural
<1>3. x = floor \/ ~nonce_available(x - 1)
  <2> SUFFICES ASSUME x # floor, nonce_available(x - 1) PROVE FALSE
    OBVIOUS
  <2>1. x - 1 \in floor..top
    BY <1>2
  <2>2. \A m \in (x - 1)..(top - 1) : nonce_available(m)
    <3> SUFFICES ASSUME NEW m \in (x - 1)..(top - 1) PROVE nonce_available(m)
      OBVIOUS
    <3>1. CASE m = x - 1
      BY <3>1
    <3>2. CASE m # x - 1
      <4>1. m \in x..(top - 1)
        BY <3>2, <1>2
      <4> QED BY <4>1, <1>2
    <3> QED BY <3>1, <3>2
  <2>3. x - 1 \in T
    BY <2>1, <2>2
  <2> QED BY <2>3, <1>2
<1>4. \E n \in floor..top : /\ \A m \in n..(top - 1) : nonce_available(m)
                            /\ n = floor \/ ~nonce_available(n - 1)
  BY <1>2, <1>3
<1> QED BY <1>4 DEF Trimmed

\* identify_next_nonce returns an available nonce below the upper one, or the
\* upper one, unless the finalized nonce has passed it.
LEMMA NextNonceAvailable ==
  ASSUME TypeOK
  PROVE  /\ Next_nonce \in Nat
         /\ \/ Next_nonce < upper /\ nonce_available(Next_nonce)
            \/ Next_nonce = IF finalized + 1 > upper THEN finalized + 1 ELSE upper
<1> DEFINE free == {n \in (finalized + 1)..(upper - 1) : nonce_available(n)}
<1>0. finalized \in Int /\ finalized >= -1 /\ upper \in Nat /\ MaxNonce \in Nat
  BY BoundsAssumption DEF TypeOK, None
<1>1. free \subseteq Nat
  BY <1>0
<1>2. CASE free # {}
  <2>1. PICK x \in free : \A y \in free : x <= y
    BY <1>1, <1>2, LeastNatural
  <2>2. (CHOOSE n \in free : \A m \in free : n <= m) \in free
    BY <2>1
  <2>3. Next_nonce = (CHOOSE n \in free : \A m \in free : n <= m)
    BY <1>2 DEF Next_nonce
  <2>4. Next_nonce \in free
    BY <2>2, <2>3
  <2> QED BY <2>4, <1>0, <1>1
<1>3. CASE free = {}
  BY <1>0, <1>3 DEF Next_nonce
<1> QED BY <1>2, <1>3

-----------------------------------------------------------------------------
(* Type correctness                                                        *)

\* A submission in progress is of some transaction.
JobOfTx == job.pc # "idle" => job.tx \in Tx

TypeInv == TypeOK /\ JobOfTx

\* The account of a new agent has its type.
LEMMA TypeInit == Init => TypeInv
BY BoundsAssumption DEF Init, TypeInv, TypeOK, JobOfTx, None, Nonce, NoRange, NoUpdate, Due,
   NoJob, NoOverwrite, Updates, Jobs, Commands

\* The values the tasks start from and return to.
LEMMA RestTypes == NoUpdate \in Updates /\ Due \in Updates /\ NoJob \in Jobs
                   /\ NoOverwrite \in Commands
BY BoundsAssumption DEF NoUpdate, Due, NoJob, NoOverwrite, Updates, Jobs, Commands, None

\* A submission that takes a step keeps its type and its transaction.
LEMMA JobStep ==
  ASSUME job.tx \in Tx, NEW n \in None..MaxNonce,
         NEW p \in {"idle", "validate", "lock", "unlink", "pick", "link", "note", "send"}
  PROVE  JobAt(p, n) \in Jobs /\ JobAt(p, n).tx \in Tx
BY DEF Jobs, JobAt

\* A boundary update stores only what the chain reported, or trims to.
LEMMA BoundaryTypes == TypeInv /\ Boundaries => TypeInv'
<1> SUFFICES ASSUME TypeInv, Boundaries PROVE TypeInv'
  OBVIOUS
<1> USE BoundsAssumption DEF TypeInv, TypeOK, JobOfTx, None, Nonce, boundaries, links, stages
<1>0. update.seen \in -1..MaxNonce
  BY DEF Updates
<1>1. CASE ReadChain
  <2>1. update' = [pc |-> "record", seen |-> LastFinalized]
    BY <1>1 DEF ReadChain, Updates
  <2>2. LastFinalized \in None..MaxNonce
    BY DEF LastFinalized
  <2>3. update' \in Updates
    BY <2>1, <2>2 DEF Updates
  <2> QED BY <1>1, <2>3 DEF ReadChain
<1>2. CASE RecordRegression
  <2>1. update' \in Updates
    BY <1>2 DEF RecordRegression, Updates
  <2>2. range' \in [start : 0..(MaxNonce + 1), end : None..MaxNonce]
    BY <1>0, <1>2, SMTT(30) DEF RecordRegression, MergedRange
  <2>3. clean' \in BOOLEAN /\ lock' = "update"
    BY <1>2 DEF RecordRegression, TakeLock
  <2> QED BY <1>2, <2>1, <2>2, <2>3 DEF RecordRegression
<1>3. CASE StoreFinalized
  <2>1. update' \in Updates
    BY <1>3 DEF StoreFinalized, Updates
  <2> QED BY <1>0, <1>3, <2>1 DEF StoreFinalized
<1>4. CASE SetUpper
  <2> DEFINE floor == update.seen + 1
             top == IF update.seen >= upper THEN update.seen + 1 ELSE upper
  <2>1. floor \in Nat /\ top \in Nat /\ floor <= top /\ top <= MaxNonce + 1
    BY <1>0
  <2>2. upper' = Trimmed(floor, top)
    BY <1>4 DEF SetUpper
  <2> HIDE DEF floor, top
  <2>3. upper' \in floor..top
    BY <2>1, <2>2, TrimmedBounds
  <2>4. upper' \in 0..(MaxNonce + 1)
    BY <2>1, <2>3
  <2>5. [update EXCEPT !.pc = "clear"] \in Updates
    BY DEF Updates
  <2>6. update' \in Updates
    BY <1>4, <2>5, RestTypes DEF SetUpper
  <2>7. lock' \in {"free", "update", "assign"}
    BY <1>4 DEF SetUpper
  <2> QED BY <1>4, <2>4, <2>6, <2>7 DEF SetUpper
<1>5. CASE ClearRange
  <2>1. range' \in [start : 0..(MaxNonce + 1), end : None..MaxNonce]
    BY <1>5 DEF ClearRange, NoRange
  <2> QED BY <1>5, <2>1, RestTypes DEF ClearRange
<1>6. CASE UpdateFails
  <2>1. clean' \in BOOLEAN
    BY <1>6 DEF UpdateFails
  <2> QED BY <1>6, <2>1, RestTypes DEF UpdateFails
<1> QED BY <1>1, <1>2, <1>3, <1>4, <1>5, <1>6 DEF Boundaries

\* The stages move transactions.
LEMMA StageTypes == TypeInv /\ Stages => TypeInv'
<1> SUFFICES ASSUME TypeInv, Stages PROVE TypeInv'
  OBVIOUS
<1> USE BoundsAssumption DEF TypeInv, TypeOK, JobOfTx, None, Nonce, boundaries, links, stages
<1>1. ASSUME NEW t \in Tx, Pending(t) PROVE TypeInv'
  <2>1. job' \in Jobs /\ (job'.pc # "idle" => job'.tx \in Tx)
    BY <1>1, RestTypes DEF Pending, Jobs, NoJob
  <2>2. clean' \in BOOLEAN
    BY <1>1 DEF Pending
  <2> QED BY <1>1, <2>1, <2>2 DEF Pending
<1>2. ASSUME NEW t \in Tx, Included(t) PROVE TypeInv'
  <2>1. clean' \in BOOLEAN
    BY <1>2 DEF Included
  <2> QED BY <1>2, <2>1 DEF Included
<1>3. ASSUME NEW t \in Tx, DropPending(t) PROVE TypeInv'
  BY <1>3, RestTypes DEF DropPending, NoJob
<1>4. ASSUME NEW t \in Tx, Finalize(t) PROVE TypeInv'
  <2>1. clean' \in BOOLEAN
    BY <1>4 DEF Finalize
  <2> QED BY <1>4, <2>1 DEF Finalize
<1>5. ASSUME NEW t \in Tx, DropIncluded(t) PROVE TypeInv'
  BY <1>5 DEF DropIncluded
<1>6. CASE Reprocess
  <2>1. \A n \in range.start..range.end : txOf[n] \in Tx \cup {NoTx}
    OBVIOUS
  <2>2. pool' \subseteq Tx
    BY <1>6, <2>1 DEF Reprocess
  <2> QED BY <1>6, <2>2 DEF Reprocess
<1> QED BY <1>1, <1>2, <1>3, <1>4, <1>5, <1>6 DEF Stages

\* A submission takes a nonce within the bound.
LEMMA SubmissionTypes == TypeInv /\ Submission => TypeInv'
<1> SUFFICES ASSUME TypeInv, Submission PROVE TypeInv'
  OBVIOUS
<1> USE BoundsAssumption DEF TypeInv, TypeOK, JobOfTx, None, Nonce, boundaries, links, stages
<1>0. job.nonce \in None..MaxNonce
  BY DEF Jobs
<1>1. CASE Validate
  <2>1. job.tx \in Tx /\ nonceOf[job.tx] \in None..MaxNonce
    BY <1>1 DEF Validate
  <2>2. job' \in Jobs /\ job'.tx \in Tx
    BY <1>1, <2>1, JobStep DEF Validate
  <2> QED BY <1>1, <2>2 DEF Validate
<1>2. CASE AssignNext
  <2>1. job' \in Jobs /\ job'.tx \in Tx
    BY <1>2, JobStep DEF AssignNext
  <2>2. clean' \in BOOLEAN /\ lock' = "assign"
    BY <1>2 DEF AssignNext, TakeLock
  <2>3. txOf' \in [Nonce -> Tx \cup {NoTx}]
    BY <1>2 DEF AssignNext
  <2> QED BY <1>2, <2>1, <2>2, <2>3 DEF AssignNext
<1>3. CASE Unlink
  <2>1. job' \in Jobs /\ job'.tx \in Tx
    BY <1>3, JobStep DEF Unlink
  <2>2. nonceOf' \in [Tx -> None..MaxNonce]
    BY <1>3 DEF Unlink
  <2> QED BY <1>3, <2>1, <2>2 DEF Unlink
<1>4. CASE Pick
  <2>1. Next_nonce \in 0..MaxNonce
    BY <1>4, NextNonceAvailable DEF Pick
  <2>2. job' \in Jobs /\ job'.tx \in Tx
    BY <1>4, <2>1, JobStep DEF Pick
  <2>3. upper' \in 0..(MaxNonce + 1)
    BY <1>4, <2>1 DEF Pick
  <2> QED BY <1>4, <2>2, <2>3 DEF Pick
<1>5. CASE Link
  <2>1. job' \in Jobs /\ job'.tx \in Tx
    BY <1>0, <1>5, JobStep DEF Link
  <2>2. txOf' \in [Nonce -> Tx \cup {NoTx}]
    BY <1>5 DEF Link
  <2> QED BY <1>5, <2>1, <2>2 DEF Link
<1>6. CASE Note
  <2>1. job' \in Jobs /\ job'.tx \in Tx
    BY <1>6, JobStep DEF Note
  <2>2. nonceOf' \in [Tx -> None..MaxNonce]
    BY <1>0, <1>6 DEF Note
  <2> QED BY <1>6, <2>1, <2>2 DEF Note
<1>7. CASE NonceFails
  <2>1. clean' \in BOOLEAN
    BY <1>7 DEF NonceFails
  <2>2. faults' \in 0..MaxFaults
    BY <1>7 DEF NonceFails
  <2>3. job' \in Jobs /\ job'.pc = "idle"
    BY <1>7, RestTypes DEF NonceFails, NoJob
  <2> QED BY <1>7, <2>1, <2>2, <2>3 DEF NonceFails
<1>8. CASE Sent
  <2>1. clean' \in BOOLEAN
    BY <1>8 DEF Sent
  <2>2. job' \in Jobs /\ job'.pc = "idle" /\ job.tx \in Tx
    BY <1>8, RestTypes DEF Sent, NoJob
  <2> QED BY <1>8, <2>1, <2>2 DEF Sent
<1>9. CASE Retry
  <2>1. job' \in Jobs /\ job'.tx \in Tx
    BY <1>9, JobStep DEF Retry
  <2> QED BY <1>9, <2>1 DEF Retry
<1> QED BY <1>1, <1>2, <1>3, <1>4, <1>5, <1>6, <1>7, <1>8, <1>9 DEF Submission

\* An overwrite stores a nonce below the upper one.
LEMMA OperatorTypes == TypeInv /\ Operator => TypeInv'
<1> SUFFICES ASSUME TypeInv, Operator PROVE TypeInv'
  OBVIOUS
<1> USE BoundsAssumption DEF TypeInv, TypeOK, JobOfTx, None, Nonce, boundaries, links, stages
<1>1. ASSUME NEW n \in Nonce, Overwrite(n) PROVE TypeInv'
  <2>1. clean' \in BOOLEAN
    BY <1>1 DEF Overwrite
  <2>2. overwrite' \in Commands
    BY <1>1 DEF Overwrite, Commands
  <2> QED BY <1>1, <2>1, <2>2 DEF Overwrite
<1>2. CASE OverwriteUpper
  <2>1. overwrite' \in Commands /\ upper' \in 0..(MaxNonce + 1)
    BY <1>2 DEF OverwriteUpper, Commands
  <2> QED BY <1>2, <2>1 DEF OverwriteUpper
<1>3. CASE ClearNonce
  <2>1. PICK n \in Tracked :
          /\ txOf' = [txOf EXCEPT ![n] = NoTx]
          /\ overwrite' = [overwrite EXCEPT !.pc = "forget", !.desired = n + 1, !.tx = txOf[n]]
    BY <1>3 DEF ClearNonce
  <2>2. n \in Nonce /\ n + 1 \in 0..(MaxNonce + 1)
    BY DEF Tracked, Commands
  <2>3. overwrite' \in Commands
    BY <2>1, <2>2 DEF Commands
  <2> QED BY <1>3, <2>1, <2>3 DEF ClearNonce
<1>4. CASE ForgetNonce
  <2>1. overwrite' \in Commands
    BY <1>4 DEF ForgetNonce, Commands
  <2>2. nonceOf' = [t \in Tx |-> IF t = overwrite.tx THEN None ELSE nonceOf[t]]
    BY <1>4 DEF ForgetNonce
  <2>3. nonceOf' \in [Tx -> None..MaxNonce]
    BY <2>2
  <2> QED BY <1>4, <2>1, <2>3 DEF ForgetNonce
<1>5. CASE OverwriteEnds
  BY <1>5, RestTypes DEF OverwriteEnds
<1>6. CASE OverwriteFails
  <2>1. clean' \in BOOLEAN
    BY <1>6 DEF OverwriteFails
  <2> QED BY <1>6, <2>1, RestTypes DEF OverwriteFails
<1> QED BY <1>1, <1>2, <1>3, <1>4, <1>5, <1>6 DEF Operator

\* Every step keeps the types.
LEMMA TypeStep == TypeInv /\ [Next]_vars => TypeInv'
<1> SUFFICES ASSUME TypeInv, [Next]_vars PROVE TypeInv'
  OBVIOUS
<1> USE BoundsAssumption DEF TypeInv, TypeOK, JobOfTx, None, Nonce, boundaries, links, stages
<1>1. CASE ChainFinalizes
  BY <1>1 DEF ChainFinalizes
<1>2. CASE ChainReorgs
  BY <1>2 DEF ChainReorgs
<1>3. CASE Crash
  <2>1. clean' \in BOOLEAN
    BY <1>3 DEF Crash
  <2> QED BY <1>3, <2>1, RestTypes DEF Crash, NoJob
<1>4. CASE UNCHANGED vars
  BY <1>4 DEF vars
<1> QED
  BY <1>1, <1>2, <1>3, <1>4, BoundaryTypes, StageTypes, SubmissionTypes, OperatorTypes DEF Next

\* The stored boundaries, links and statuses, and what the tasks carry between
\* their steps, keep their types: no nonce below 0 or above the bound is stored
\* (trim_freed_upper_nonces, identify_next_nonce, overwrite_upper_nonce).
THEOREM TypeCorrect == Spec => []TypeOK
<1>1. TypeInv => TypeOK
  BY DEF TypeInv
<1> QED BY <1>1, TypeInit, TypeStep, PTL DEF Spec

-----------------------------------------------------------------------------
(* Regressions                                                             *)

\* What the boundary update has done so far: the range covers what the new
\* finalized nonce leaves out before that nonce is stored; the nonce is stored
\* before the range is given up.
UpdateInv ==
  /\ update.pc = "finalized" =>
       \A n \in (update.seen + 1)..high : n \in range.start..range.end
  /\ update.pc \in {"upper", "clear"} => finalized = update.seen
  /\ update.pc = "clear" => update.seen >= range.end

RegressionInv == TypeInv /\ RegressionCovered /\ UpdateInv

\* Every step keeps finalized nonces covered, across the writes of an update.
LEMMA RegressionStep == RegressionInv /\ [Next]_vars => RegressionInv'
<1> SUFFICES ASSUME RegressionInv, [Next]_vars PROVE RegressionInv'
  OBVIOUS
<1>1. TypeInv'
  BY TypeStep DEF RegressionInv
<1>2. /\ finalized \in Int /\ high \in Int /\ update.seen \in Int
      /\ range.start \in Int /\ range.end \in Int /\ update.seen >= -1
      /\ update \in [pc : {"due", "idle", "record", "finalized", "upper", "clear"},
                    seen : None..MaxNonce]
  BY BoundsAssumption DEF RegressionInv, TypeInv, TypeOK, None, Updates
<1> USE DEF RegressionCovered, UpdateInv
<1>3. CASE UNCHANGED <<finalized, high, range, update>>
  BY <1>1, <1>3 DEF RegressionInv
<1>4. CASE ReadChain
  BY <1>1, <1>2, <1>4 DEF RegressionInv, ReadChain, boundaries
<1>5. CASE RecordRegression
  <2>1. update.pc = "record" /\ UNCHANGED <<finalized, high>>
        /\ update' = [update EXCEPT !.pc = "finalized"]
        /\ range' = IF update.seen < finalized THEN MergedRange(finalized, update.seen) ELSE range
    BY <1>5 DEF RecordRegression
  <2>2. update'.pc = "finalized" /\ update'.seen = update.seen
    BY <2>1, <1>2
  <2>3. CASE update.seen < finalized
    <3>1. range' = MergedRange(finalized, update.seen)
      BY <2>1, <2>3
    <3>2. range'.start <= update.seen + 1 /\ range'.end >= finalized
      BY <1>2, <3>1 DEF MergedRange
    <3>3. ASSUME NEW n \in range.start..range.end PROVE n \in range'.start..range'.end
      <4>1. range # NoRange
        BY <3>3 DEF NoRange, None
      <4> QED BY <1>2, <3>1, <3>3, <4>1 DEF MergedRange
    <3>4. ASSUME NEW n \in (update.seen + 1)..high PROVE n \in range'.start..range'.end
      <4>0. range'.start \in Int /\ range'.end \in Int
        BY <1>2, <3>1 DEF MergedRange
      <4>1. CASE n <= finalized
        BY <1>2, <3>2, <3>4, <4>0, <4>1
      <4>2. CASE n > finalized
        <5>1. n \in range.start..range.end
          BY <1>2, <3>4, <4>2 DEF RegressionInv
        <5> QED BY <5>1, <3>3
      <4> QED BY <1>2, <3>4, <4>1, <4>2
    <3>5. \A n \in (finalized + 1)..high : n \in range'.start..range'.end
      BY <1>2, <2>3, <3>4
    <3> QED BY <1>1, <2>1, <2>2, <3>4, <3>5 DEF RegressionInv
  <2>4. CASE ~(update.seen < finalized)
    BY <1>1, <1>2, <2>1, <2>2, <2>4 DEF RegressionInv
  <2> QED BY <2>3, <2>4
<1>6. CASE StoreFinalized
  <2>1. /\ update.pc = "finalized" /\ finalized' = update.seen /\ range' = range
        /\ high' = IF update.seen > high THEN update.seen ELSE high
        /\ update' = [update EXCEPT !.pc = "upper"]
    BY <1>6 DEF StoreFinalized
  <2>2. update'.pc = "upper" /\ update'.seen = update.seen
    BY <2>1, <1>2
  <2>3. \A n \in (finalized' + 1)..high' : n \in range'.start..range'.end
    BY <1>2, <2>1 DEF RegressionInv
  <2> QED BY <1>1, <2>1, <2>2, <2>3 DEF RegressionInv
<1>7. CASE SetUpper
  <2>1. /\ update.pc = "upper" /\ UNCHANGED <<finalized, high, range>>
        /\ update' = IF Recovered THEN [update EXCEPT !.pc = "clear"] ELSE NoUpdate
    BY <1>7 DEF SetUpper
  <2>2. CASE Recovered
    <3>1. update'.pc = "clear" /\ update'.seen = update.seen /\ update.seen >= range.end
      BY <1>2, <2>1, <2>2 DEF Recovered
    <3> QED BY <1>1, <2>1, <3>1 DEF RegressionInv
  <2>3. CASE ~Recovered
    BY <1>1, <2>1, <2>3 DEF RegressionInv, NoUpdate
  <2> QED BY <2>2, <2>3
<1>8. CASE ClearRange
  <2>1. update.pc = "clear" /\ UNCHANGED <<finalized, high>> /\ update' = NoUpdate
    BY <1>8 DEF ClearRange
  <2>2. finalized >= range.end
    BY <1>2, <2>1 DEF RegressionInv
  <2>3. \A n \in (finalized + 1)..high : FALSE
    BY <1>2, <2>2 DEF RegressionInv
  <2> QED BY <1>1, <2>1, <2>3 DEF RegressionInv, NoUpdate
<1>9. CASE UpdateFails \/ Crash
  BY <1>1, <1>9 DEF RegressionInv, UpdateFails, Crash, boundaries, Due, NoUpdate
<1>10. CASE ChainFinalizes \/ ChainReorgs
  BY <1>3, <1>10 DEF ChainFinalizes, ChainReorgs, boundaries
<1>11. CASE Stages
  BY <1>3, <1>11 DEF Stages, Pending, Included, DropPending, Finalize, DropIncluded, Reprocess,
     boundaries
<1>12. CASE Submission
  BY <1>3, <1>12 DEF Submission, Validate, AssignNext, TakeLock, Unlink, Pick, Link, Note,
     NonceFails, Sent, Retry, boundaries
<1>13. CASE Operator
  BY <1>3, <1>13 DEF Operator, Overwrite, OverwriteUpper, ClearNonce, ForgetNonce, OverwriteEnds,
     OverwriteFails, boundaries
<1>14. CASE UNCHANGED vars
  BY <1>3, <1>14 DEF vars, boundaries
<1> QED
  BY <1>4, <1>5, <1>6, <1>7, <1>8, <1>9, <1>10, <1>11, <1>12, <1>13, <1>14 DEF Next, Boundaries

\* A crash or an error between any two writes of
\* update_boundary_nonces_from_chain, and any sequence of regressions and
\* recoveries, leaves every nonce that was finalized once and is not any more
\* in the range whose transactions are reprocessed.
THEOREM RegressionsCovered == Spec => []RegressionCovered
<1>1. Init => RegressionInv
  <2>1. Init => RegressionCovered /\ UpdateInv
    BY DEF Init, RegressionCovered, UpdateInv, None, Due, NoUpdate
  <2> QED BY <2>1, TypeInit DEF RegressionInv
<1>2. RegressionInv => RegressionCovered
  BY DEF RegressionInv
<1> QED BY <1>1, <1>2, RegressionStep, PTL DEF Spec

-----------------------------------------------------------------------------
(* Who holds a nonce                                                       *)

\* The lock is held from the step that takes it to the last write under it.
LockInv ==
  /\ lock = "assign" <=> job.pc \in {"unlink", "pick", "link", "note"}
  /\ lock = "update" <=> update.pc \in {"finalized", "upper", "clear"}

\* Without mishap an overwrite has the boundaries to itself.
OverwriteInv ==
  /\ overwrite.pc # "idle" => lock = "free"
  /\ overwrite.pc = "upper" => overwrite.top = upper /\ finalized < overwrite.desired

\* The finalized nonce passes the upper one only until the update that stored
\* it, or the first one after a crash, has set the upper one: no submission is
\* past its validation then.
UpperAhead ==
  \/ finalized < upper
  \/ update.pc = "upper"
  \/ update.pc \in {"due", "record", "finalized"} /\ job.pc \in {"idle", "validate"}

\* A nonce above the upper one is only held until an overwrite clears it.
HeldInv ==
  \A n \in Nonce : ~nonce_available(n) =>
    \/ n < upper
    \/ HalfCleared /\ n \in overwrite.desired..(overwrite.top - 1)

\* The transaction a nonce was taken from a step ago.
Releasing(t) ==
  \/ overwrite.pc = "forget" /\ overwrite.tx = t
  \/ job.pc = "unlink" /\ job.tx = t

\* The two keys of a link agree for every transaction that is not dropped, but
\* for the link that is being made or undone.
LinkInv ==
  \A t \in Tx : ~Freed(t) =>
    /\ nonceOf[t] # None =>
         \/ txOf[nonceOf[t]] = t
         \/ Releasing(t) /\ txOf[nonceOf[t]] = NoTx
    /\ Releasing(t) => \A n \in Nonce : txOf[n] # t
    /\ ~(job.pc = "note" /\ job.tx = t) => \A n \in Nonce : txOf[n] = t => nonceOf[t] = n

\* What the submission in progress has read and done is still so.
SubmissionInv ==
  /\ job.pc = "lock" /\ ~Freed(job.tx) => nonceOf[job.tx] \in {job.nonce, None}
  /\ job.pc \in {"pick", "link"} /\ ~Freed(job.tx) => \A n \in Nonce : txOf[n] # job.tx
  /\ job.pc = "link" => nonce_available(job.nonce) /\ job.nonce < upper
  /\ job.pc = "note" => /\ txOf[job.nonce] = job.tx
                        /\ ~Freed(job.tx) => \A n \in Nonce : txOf[n] = job.tx => n = job.nonce

CleanInv == OverwriteInv /\ UpperAhead /\ HeldInv /\ LinkInv /\ SubmissionInv

HoldingInv ==
  /\ RegressionInv
  /\ LockInv
  /\ job.pc \in {"link", "note"} => job.nonce # None
  /\ clean => CleanInv

\* Every step keeps the lock with its holder, and a submission past Pick has a
\* nonce.
LEMMA LockStep ==
  ASSUME TypeInv, TypeInv', LockInv, job.pc \in {"link", "note"} => job.nonce # None, [Next]_vars
  PROVE  LockInv' /\ (job'.pc \in {"link", "note"} => job'.nonce # None)
<1>0. /\ update \in Updates /\ job \in Jobs /\ lock \in {"free", "update", "assign"}
      /\ update' \in Updates
  BY DEF TypeInv, TypeOK
<1> USE DEF LockInv
<1>1. CASE UNCHANGED <<lock, update, job>>
  BY <1>1
<1>2. CASE Boundaries
  <2>1. \A p : [update EXCEPT !.pc = p].pc = p
    BY <1>0 DEF Updates
  <2>2. \A p, n : [update EXCEPT !.pc = p, !.seen = n].pc = p
    BY <1>0 DEF Updates
  <2>3. job' = job /\ NoUpdate.pc = "idle" /\ Due.pc = "due"
    BY <1>2 DEF Boundaries, ReadChain, RecordRegression, StoreFinalized, SetUpper, ClearRange,
       UpdateFails, NoUpdate, Due
  <2>4. CASE ReadChain
    BY <2>2, <2>3, <2>4 DEF ReadChain
  <2>5. CASE RecordRegression
    BY <2>1, <2>3, <2>5 DEF RecordRegression, TakeLock
  <2>6. CASE StoreFinalized
    BY <2>1, <2>3, <2>6 DEF StoreFinalized
  <2>7. CASE SetUpper
    BY <2>1, <2>3, <2>7 DEF SetUpper
  <2>8. CASE ClearRange
    BY <2>3, <2>8 DEF ClearRange
  <2>9. CASE UpdateFails
    BY <1>0, <2>3, <2>9 DEF UpdateFails
  <2> QED BY <1>2, <2>4, <2>5, <2>6, <2>7, <2>8, <2>9 DEF Boundaries
<1>3. CASE Stages
  <2>1. ASSUME NEW t \in Tx, Pending(t) PROVE UNCHANGED <<lock, update>> /\ job.pc = "idle"
                                               /\ job'.pc \in {"idle", "validate"}
    <3>1. [NoJob EXCEPT !.pc = "validate", !.tx = t].pc = "validate" /\ NoJob.pc = "idle"
      BY DEF NoJob
    <3> QED BY <2>1, <3>1 DEF Pending
  <2>2. ASSUME NEW t \in Tx, DropPending(t) PROVE UNCHANGED <<lock, update>>
                          /\ job.pc \in {"idle", "send"} /\ job'.pc = "idle"
    BY <2>2 DEF DropPending, NoJob
  <2>3. \/ UNCHANGED <<lock, update, job>>
        \/ \E t \in Tx : Pending(t) \/ DropPending(t)
    BY <1>3 DEF Stages, Included, Finalize, DropIncluded, Reprocess
  <2> QED BY <1>1, <2>1, <2>2, <2>3
<1>4. CASE Submission
  <2>1. \A p, n : JobAt(p, n).pc = p /\ JobAt(p, n).nonce = n
    BY DEF JobAt
  <2>2. update' = update /\ NoJob.pc = "idle"
    BY <1>4 DEF Submission, Validate, AssignNext, Unlink, Pick, Link, Note, NonceFails, Sent,
       Retry, NoJob
  <2>3. CASE Pick
    <3>1. Next_nonce # None
      BY NextNonceAvailable DEF TypeInv, None
    <3> QED BY <2>1, <2>2, <2>3, <3>1 DEF Pick
  <2>4. CASE ~Pick
    BY <1>0, <1>4, <2>1, <2>2, <2>4 DEF Submission, Validate, AssignNext, TakeLock, Unlink, Link,
       Note, NonceFails, Sent, Retry
  <2> QED BY <2>3, <2>4
<1>5. CASE Operator
  BY <1>1, <1>5 DEF Operator, Overwrite, OverwriteUpper, ClearNonce, ForgetNonce, OverwriteEnds,
     OverwriteFails
<1>6. CASE Crash
  BY <1>6 DEF Crash, Due, NoUpdate, NoJob
<1>7. CASE ChainFinalizes \/ ChainReorgs \/ UNCHANGED vars
  BY <1>1, <1>7 DEF ChainFinalizes, ChainReorgs, vars
<1> QED BY <1>2, <1>3, <1>4, <1>5, <1>6, <1>7 DEF Next

\* Without mishap a dropped transaction stays dropped, and clean once lost is
\* lost.
LEMMA DroppedStays ==
  ASSUME TypeInv, [Next]_vars, clean'
  PROVE  clean /\ \A t \in Tx : Freed(t) => Freed(t)'
<1>0. clean \in BOOLEAN /\ status \in [Tx -> {"Pending", "Included", "Finalized", "Dropped"}]
  BY DEF TypeInv, TypeOK
<1>1. clean
  BY <1>0 DEF Next, Boundaries, ReadChain, RecordRegression, TakeLock, StoreFinalized, SetUpper,
     ClearRange, UpdateFails, Stages, Pending, Included, DropPending, Finalize, DropIncluded,
     Reprocess, Submission, Validate, AssignNext, Unlink, Pick, Link, Note, NonceFails, Sent,
     Retry, Operator, Overwrite, OverwriteUpper, ClearNonce, ForgetNonce, OverwriteEnds,
     OverwriteFails, Crash, ChainFinalizes, ChainReorgs, vars
<1>2. ASSUME NEW t \in Tx, Freed(t) PROVE Freed(t)'
  <2>1. CASE status' = status
    BY <1>2, <2>1 DEF Freed
  <2>2. CASE Stages
    BY <1>0, <1>2, <2>2 DEF Stages, Pending, Included, DropPending, Finalize, DropIncluded,
       Reprocess, Freed
  <2>3. CASE NonceFails \/ Sent
    BY <1>0, <1>2, <2>3 DEF NonceFails, Sent, Freed
  <2>4. CASE Boundaries \/ Operator \/ Crash \/ ChainFinalizes \/ ChainReorgs \/ UNCHANGED vars
    BY <2>1, <2>4 DEF Boundaries, ReadChain, RecordRegression, StoreFinalized, SetUpper,
       ClearRange, UpdateFails, Operator, Overwrite, OverwriteUpper, ClearNonce, ForgetNonce,
       OverwriteEnds, OverwriteFails, Crash, ChainFinalizes, ChainReorgs, vars, stages
  <2>5. CASE Submission /\ ~NonceFails /\ ~Sent
    BY <2>1, <2>5 DEF Submission, Validate, AssignNext, Unlink, Pick, Link, Note, Retry, stages
  <2> QED BY <2>2, <2>3, <2>4, <2>5 DEF Next
<1> QED BY <1>1, <1>2

\* The types the proofs below need.
LEMMA HoldingTypes ==
  ASSUME TypeInv
  PROVE  /\ finalized \in Int /\ upper \in Nat /\ Nonce \subseteq Nat
         /\ txOf \in [Nonce -> Tx \cup {NoTx}] /\ nonceOf \in [Tx -> Nonce \cup {None}]
         /\ job.nonce \in Nonce \cup {None} /\ (job.pc # "idle" => job.tx \in Tx)
         /\ overwrite.desired \in Nat /\ overwrite.top \in Nat
         /\ overwrite.tx \in Tx \cup {NoTx} /\ overwrite.pc \in {"idle", "upper", "clear", "forget"}
         /\ NoTx \notin Tx /\ None \notin Nonce
BY BoundsAssumption, TxAssumption DEF TypeInv, TypeOK, JobOfTx, Jobs, Commands, Nonce, None

\* A step of the code from a state in which all went well to another one.
CleanStep ==
  /\ TypeInv /\ TypeInv' /\ LockInv /\ UpdateInv /\ CleanInv /\ clean'
  /\ job.pc \in {"link", "note"} => job.nonce # None
  /\ \A t \in Tx : Freed(t) => Freed(t)'

\* Where no link is written, a nonce that is free stays free.
LEMMA AvailableStays ==
  ASSUME CleanStep, NEW n \in Nonce, txOf' = txOf, nonce_available(n)
  PROVE  nonce_available(n)'
<1>1. txOf[n] = NoTx \/ txOf[n] \in Tx
  BY HoldingTypes DEF CleanStep
<1> QED BY <1>1 DEF CleanStep, nonce_available, Freed

\* A step that writes no link, begins or ends none, and does not lower the
\* upper nonce leaves every nonce with its holder.
LEMMA QuietStep ==
  ASSUME CleanStep, UNCHANGED links, upper <= upper',
         \/ overwrite' = overwrite
         \/ ~HalfCleared /\ overwrite'.pc \in {"idle", "upper"},
         \/ job' = job
         \/ /\ job.pc \notin {"unlink", "note"}
            /\ job'.pc \in {"idle", "validate", "lock", "send"}
            /\ job'.pc = "lock" => job'.nonce = nonceOf[job'.tx]
  PROVE  HeldInv' /\ LinkInv' /\ SubmissionInv'
<1>0. UNCHANGED <<txOf, nonceOf>>
  BY DEF links
<1>1. /\ HeldInv /\ LinkInv /\ SubmissionInv /\ TypeInv /\ TypeInv'
      /\ \A t \in Tx : Freed(t) => Freed(t)'
  BY DEF CleanStep, CleanInv
<1>2. \A n \in Nonce : nonce_available(n) => nonce_available(n)'
  BY <1>0, AvailableStays
<1>3. \A t : Releasing(t)' <=> Releasing(t)
  BY DEF Releasing, HalfCleared
<1>4. \A t : (job'.pc = "note" /\ job'.tx = t) <=> (job.pc = "note" /\ job.tx = t)
  OBVIOUS
<1>5. HeldInv'
  <2> SUFFICES ASSUME NEW n \in Nonce, ~nonce_available(n)'
               PROVE  \/ n < upper'
                      \/ HalfCleared' /\ n \in overwrite'.desired..(overwrite'.top - 1)
    BY DEF HeldInv
  <2>1. \/ n < upper
        \/ HalfCleared /\ n \in overwrite.desired..(overwrite.top - 1)
    BY <1>1, <1>2 DEF HeldInv
  <2>2. CASE n < upper
    <3>1. n \in Nat /\ upper \in Nat /\ upper' \in Nat
      BY <1>1, HoldingTypes, BoundsAssumption DEF TypeInv, TypeOK
    <3> QED BY <2>2, <3>1
  <2>3. CASE ~(n < upper)
    <3>1. overwrite' = overwrite
      BY <2>1, <2>3
    <3> QED BY <2>1, <2>3, <3>1 DEF HalfCleared
  <2> QED BY <2>2, <2>3
<1>6. LinkInv'
  <2> SUFFICES ASSUME NEW t \in Tx, ~Freed(t)'
      PROVE  /\ nonceOf'[t] # None =>
                  \/ txOf'[nonceOf'[t]] = t
                  \/ Releasing(t)' /\ txOf'[nonceOf'[t]] = NoTx
             /\ Releasing(t)' => \A n \in Nonce : txOf'[n] # t
             /\ ~(job'.pc = "note" /\ job'.tx = t) =>
                  \A n \in Nonce : txOf'[n] = t => nonceOf'[t] = n
    BY DEF LinkInv
  <2>1. ~Freed(t)
    BY <1>1
  <2> QED BY <1>0, <1>1, <1>3, <1>4, <2>1 DEF LinkInv
<1>7. SubmissionInv'
  <2>1. CASE job' = job
    <3>1. job.pc # "idle" => job.tx \in Tx
      BY <1>1, HoldingTypes
    <3>2. job.pc # "idle" /\ ~(status'[job.tx] = "Dropped") => ~Freed(job.tx)
      BY <1>1, <3>1 DEF Freed
    <3>3. ASSUME job.pc = "link" PROVE (nonce_available(job.nonce) /\ job.nonce < upper)'
      <4>1. PICK n \in Nonce : n = job.nonce
        BY <3>3, HoldingTypes DEF CleanStep
      <4>2. nonce_available(n) /\ n < upper
        BY <1>1, <3>3, <4>1 DEF SubmissionInv
      <4>3. nonce_available(n)'
        BY <1>2, <4>2
      <4>4. n < upper'
        BY <4>2, HoldingTypes, BoundsAssumption DEF CleanStep, TypeInv, TypeOK
      <4> QED BY <2>1, <4>1, <4>3, <4>4 DEF nonce_available, Freed
    <3> QED BY <1>0, <1>1, <2>1, <3>2, <3>3 DEF SubmissionInv, Freed
  <2>2. CASE job' # job
    BY <1>0, <2>2 DEF SubmissionInv
  <2> QED BY <2>1, <2>2
<1> QED BY <1>5, <1>6, <1>7

\* A boundary update passes no nonce that is held: it raises the upper nonce
\* above what the chain has used, and trims only what is free.
LEMMA BoundaryHolds ==
  ASSUME CleanStep, Boundaries
  PROVE  CleanInv'
<1>0. /\ UpdateInv /\ LockInv /\ OverwriteInv /\ UpperAhead /\ HeldInv /\ clean'
      /\ UNCHANGED <<job, overwrite, links>>
  BY DEF CleanStep, CleanInv, Boundaries, ReadChain, RecordRegression, StoreFinalized, SetUpper,
     ClearRange, UpdateFails
<1>1. /\ finalized \in Int /\ upper \in Nat /\ upper' \in Nat /\ update.seen \in Int
      /\ update.seen >= -1 /\ upper <= upper
      /\ update \in [pc : {"due", "idle", "record", "finalized", "upper", "clear"},
                    seen : None..MaxNonce]
  BY BoundsAssumption DEF CleanStep, TypeInv, TypeOK, None, Updates
<1>2. CASE ReadChain
  <2>1. update.pc \in {"due", "idle"} /\ update'.pc = "record"
        /\ UNCHANGED <<finalized, upper, lock>>
    BY <1>1, <1>2 DEF ReadChain, boundaries
  <2>2. HeldInv' /\ LinkInv' /\ SubmissionInv'
    BY <1>0, <1>1, <2>1, QuietStep
  <2> QED BY <1>0, <2>1, <2>2 DEF CleanInv, OverwriteInv, UpperAhead
<1>3. CASE RecordRegression
  <2>1. /\ update.pc = "record" /\ update'.pc = "finalized" /\ overwrite.pc = "idle"
        /\ UNCHANGED <<finalized, upper>>
    BY <1>0, <1>1, <1>3 DEF RecordRegression, TakeLock
  <2>2. HeldInv' /\ LinkInv' /\ SubmissionInv'
    BY <1>0, <1>1, <2>1, QuietStep
  <2> QED BY <1>0, <2>1, <2>2 DEF CleanInv, OverwriteInv, UpperAhead
<1>4. CASE StoreFinalized
  <2>1. update.pc = "finalized" /\ update'.pc = "upper" /\ UNCHANGED <<upper, lock>>
    BY <1>1, <1>4 DEF StoreFinalized
  <2>2. overwrite.pc = "idle"
    BY <1>0, <2>1 DEF LockInv, OverwriteInv
  <2>3. HeldInv' /\ LinkInv' /\ SubmissionInv'
    BY <1>0, <1>1, <2>1, QuietStep
  <2> QED BY <1>0, <2>1, <2>2, <2>3 DEF CleanInv, OverwriteInv, UpperAhead
<1>5. CASE SetUpper
  <2> DEFINE floor == update.seen + 1
             top == IF update.seen >= upper THEN update.seen + 1 ELSE upper
  <2>1. /\ update.pc = "upper" /\ upper' = Trimmed(floor, top) /\ finalized' = finalized
        /\ UNCHANGED <<txOf, nonceOf, status>>
    BY <1>5 DEF SetUpper, links, stages
  <2>2. /\ overwrite.pc = "idle" /\ job.pc \notin {"unlink", "pick", "link", "note"}
        /\ finalized = update.seen
    BY <1>0, <2>1 DEF LockInv, OverwriteInv, UpdateInv
  <2>3. floor \in Nat /\ top \in Nat /\ floor <= top /\ upper <= top
    BY <1>1
  <2> HIDE DEF top
  <2>4. upper' \in floor..top /\ \A m \in upper'..(top - 1) : nonce_available(m)
    BY <2>1, <2>3, TrimmedBounds
  <2>5. HeldInv'
    <3> SUFFICES ASSUME NEW n \in Nonce, ~nonce_available(n)' PROVE n < upper'
      BY DEF HeldInv
    <3>1. ~nonce_available(n)
      BY <2>1 DEF nonce_available, Freed
    <3>2. n < upper
      BY <1>0, <2>2, <3>1 DEF HeldInv, HalfCleared
    <3>3. n \in Nat
      BY HoldingTypes DEF CleanStep
    <3> QED BY <1>1, <2>3, <2>4, <3>1, <3>2, <3>3
  <2>6. finalized' < upper'
    BY <1>1, <2>1, <2>2, <2>4
  <2>7. LinkInv' /\ SubmissionInv'
    <3>1. LinkInv /\ SubmissionInv
      BY DEF CleanStep, CleanInv
    <3>2. LinkInv'
      BY <1>0, <2>1, <3>1 DEF LinkInv, Releasing, Freed
    <3>3. SubmissionInv'
      BY <1>0, <2>1, <2>2, <3>1 DEF SubmissionInv, Freed
    <3> QED BY <3>2, <3>3
  <2> QED BY <1>0, <2>2, <2>5, <2>6, <2>7 DEF CleanInv, OverwriteInv, UpperAhead
<1>6. CASE ClearRange
  <2>1. update.pc = "clear" /\ lock' = "free" /\ UNCHANGED <<finalized, upper>>
    BY <1>6 DEF ClearRange
  <2>2. HeldInv' /\ LinkInv' /\ SubmissionInv'
    BY <1>0, <1>1, <2>1, QuietStep
  <2> QED BY <1>0, <2>1, <2>2 DEF CleanInv, OverwriteInv, UpperAhead
<1>7. CASE UpdateFails
  <2>1. /\ update.pc \notin {"due", "idle", "upper"} /\ update'.pc = "due"
        /\ UNCHANGED <<finalized, upper>>
        /\ lock' = (IF lock = "update" THEN "free" ELSE lock)
    BY <1>0, <1>7 DEF UpdateFails, boundaries, Due, NoUpdate
  <2>2. HeldInv' /\ LinkInv' /\ SubmissionInv'
    BY <1>0, <1>1, <2>1, QuietStep
  <2> QED BY <1>0, <2>1, <2>2 DEF CleanInv, OverwriteInv, UpperAhead
<1> QED BY <1>2, <1>3, <1>4, <1>5, <1>6, <1>7 DEF Boundaries

\* The stages change no link; a transaction is only dropped.
LEMMA StageHolds ==
  ASSUME CleanStep, Stages
  PROVE  CleanInv'
<1>1. /\ UNCHANGED <<boundaries, links, lock, update, overwrite>>
      /\ job' = job \/ (job.pc \in {"idle", "send"} /\ job'.pc \in {"idle", "validate"})
  <2>1. ASSUME NEW t \in Tx, Pending(t)
        PROVE  UNCHANGED <<boundaries, links, lock, update, overwrite>> /\ job.pc = "idle"
               /\ job'.pc \in {"idle", "validate"}
    <3>1. [NoJob EXCEPT !.pc = "validate", !.tx = t].pc = "validate" /\ NoJob.pc = "idle"
      BY DEF NoJob
    <3> QED BY <2>1, <3>1 DEF Pending
  <2>2. ASSUME NEW t \in Tx, DropPending(t)
        PROVE  UNCHANGED <<boundaries, links, lock, update, overwrite>>
               /\ job.pc \in {"idle", "send"} /\ job'.pc = "idle"
    BY <2>2 DEF DropPending, NoJob
  <2>3. \/ UNCHANGED <<boundaries, links, lock, update, overwrite, job>>
        \/ \E t \in Tx : Pending(t) \/ DropPending(t)
    BY DEF Stages, Included, Finalize, DropIncluded, Reprocess
  <2> QED BY <2>1, <2>2, <2>3
<1>2. UNCHANGED <<finalized, upper>> /\ upper <= upper'
  BY <1>1, HoldingTypes DEF boundaries, CleanStep
<1>3. HeldInv' /\ LinkInv' /\ SubmissionInv'
  BY <1>1, <1>2, QuietStep
<1>4. OverwriteInv /\ UpperAhead
  BY DEF CleanStep, CleanInv
<1> QED BY <1>1, <1>2, <1>3, <1>4 DEF CleanInv, OverwriteInv, UpperAhead

\* The chain and a restart change no link; clean excludes the restarts that
\* leave one half written.
LEMMA RestHolds ==
  ASSUME CleanStep, ChainFinalizes \/ ChainReorgs \/ Crash \/ UNCHANGED vars
  PROVE  CleanInv'
<1>0. OverwriteInv /\ UpperAhead /\ clean' /\ upper \in Nat /\ upper <= upper
  BY HoldingTypes DEF CleanStep, CleanInv
<1>1. CASE Crash
  <2>1. /\ UNCHANGED <<finalized, upper, links>> /\ ~HalfLinked /\ ~HalfCleared
        /\ job'.pc = "idle" /\ overwrite'.pc = "idle" /\ update'.pc = "due"
    BY <1>0, <1>1 DEF Crash, boundaries, Due, NoUpdate, NoJob, NoOverwrite
  <2>2. HeldInv' /\ LinkInv' /\ SubmissionInv'
    BY <1>0, <2>1, QuietStep DEF HalfLinked
  <2> QED BY <2>1, <2>2 DEF CleanInv, OverwriteInv, UpperAhead
<1>2. CASE UNCHANGED <<boundaries, links, lock, update, job, overwrite>>
  <2>1. HeldInv' /\ LinkInv' /\ SubmissionInv'
    BY <1>0, <1>2, QuietStep DEF boundaries
  <2> QED BY <1>0, <1>2, <2>1 DEF CleanInv, OverwriteInv, UpperAhead, boundaries
<1> QED BY <1>1, <1>2 DEF ChainFinalizes, ChainReorgs, vars

\* Under the lock, taken or just free to take, no update has left the finalized
\* nonce above the upper one.
LEMMA AssignAhead ==
  ASSUME CleanStep, \/ job.pc \in {"unlink", "pick", "link", "note"}
                    \/ job.pc = "lock" /\ lock = "free"
  PROVE  finalized < upper /\ (job.pc # "lock" => overwrite.pc = "idle")
BY DEF CleanStep, CleanInv, LockInv, OverwriteInv, UpperAhead

\* assign_next_nonce takes the old nonce from a transaction only if it is still
\* that transaction's, and begins with one that has none.
LEMMA AssignHolds ==
  ASSUME CleanStep, AssignNext
  PROVE  CleanInv'
<1>1. /\ job.pc = "lock" /\ lock = "free" /\ overwrite.pc = "idle" /\ finalized < upper
      /\ UNCHANGED <<finalized, upper, nonceOf, status, overwrite>>
      /\ job.tx \in Tx
  BY AssignAhead, HoldingTypes DEF AssignNext, TakeLock, CleanStep, boundaries, stages
<1>2. /\ HeldInv /\ LinkInv /\ SubmissionInv
      /\ txOf \in [Nonce -> Tx \cup {NoTx}] /\ nonceOf \in [Tx -> Nonce \cup {None}]
      /\ NoTx \notin Tx /\ None \notin Nonce
  BY HoldingTypes DEF CleanStep, CleanInv
<1>3. \A t \in Tx : ~Freed(t) => /\ nonceOf[t] # None => txOf[nonceOf[t]] = t
                                 /\ \A n \in Nonce : txOf[n] = t => nonceOf[t] = n
  BY <1>1, <1>2 DEF LinkInv, Releasing
<1>4. ~Freed(job.tx) => nonceOf[job.tx] \in {job.nonce, None}
  BY <1>1, <1>2 DEF SubmissionInv
<1>5. \A t : Freed(t)' <=> status[t] = "Dropped"
  BY <1>1 DEF Freed
<1>6. OverwriteInv' /\ UpperAhead'
  BY <1>1 DEF OverwriteInv, UpperAhead
<1>7. CASE /\ job.nonce # None /\ txOf[job.nonce] = job.tx
           /\ txOf' = [txOf EXCEPT ![job.nonce] = NoTx]
           /\ job' = JobAt("unlink", None)
  <2>1. job'.pc = "unlink" /\ job'.tx = job.tx
    BY <1>7 DEF JobAt
  <2>2. \A n \in Nonce : txOf'[n] = IF n = job.nonce THEN NoTx ELSE txOf[n]
    BY <1>2, <1>7
  <2>3. \A t : Releasing(t)' <=> t = job.tx
    BY <1>1, <2>1 DEF Releasing
  <2>4. HeldInv'
    BY <1>1, <1>2, <2>2 DEF HeldInv, HalfCleared, nonce_available, Freed
  <2>5. LinkInv'
    <3> SUFFICES ASSUME NEW t \in Tx, ~Freed(t)'
        PROVE  /\ nonceOf[t] # None =>
                    \/ txOf'[nonceOf[t]] = t
                    \/ Releasing(t)' /\ txOf'[nonceOf[t]] = NoTx
               /\ Releasing(t)' => \A n \in Nonce : txOf'[n] # t
               /\ \A n \in Nonce : txOf'[n] = t => nonceOf[t] = n
      BY <1>1 DEF LinkInv
    <3>1. ~Freed(t)
      BY <1>5 DEF Freed
    <3>2. CASE t = job.tx
      BY <1>2, <1>3, <1>4, <1>7, <2>2, <2>3, <3>1, <3>2
    <3>3. CASE t # job.tx
      BY <1>2, <1>3, <1>7, <2>2, <2>3, <3>1, <3>3
    <3> QED BY <3>2, <3>3
  <2>6. SubmissionInv'
    BY <2>1 DEF SubmissionInv
  <2> QED BY <1>6, <2>4, <2>5, <2>6 DEF CleanInv
<1>8. CASE /\ job.nonce # None => txOf[job.nonce] # job.tx
           /\ job' = JobAt("pick", None)
           /\ UNCHANGED txOf
  <2>1. job'.pc = "pick" /\ job'.tx = job.tx
    BY <1>8 DEF JobAt
  <2>2. ~Freed(job.tx) => \A n \in Nonce : txOf[n] # job.tx
    BY <1>1, <1>2, <1>3, <1>4, <1>8
  <2>3. SubmissionInv'
    BY <1>1, <1>8, <2>1, <2>2 DEF SubmissionInv, Freed
  <2>4. HeldInv'
    BY <1>1, <1>2, <1>8 DEF HeldInv, HalfCleared, nonce_available, Freed
  <2>5. LinkInv'
    BY <1>1, <1>3, <1>8, <2>1 DEF LinkInv, Releasing, Freed
  <2> QED BY <1>6, <2>3, <2>4, <2>5 DEF CleanInv
<1> QED BY <1>7, <1>8 DEF AssignNext

\* identify_next_nonce hands out a nonce that nobody holds: one that is
\* available, or the upper nonce, above all that are held.
LEMMA PickHolds ==
  ASSUME CleanStep, Pick
  PROVE  CleanInv'
<1>1. /\ job.pc = "pick" /\ overwrite.pc = "idle" /\ finalized < upper
      /\ UNCHANGED <<finalized, txOf, nonceOf, status, overwrite, lock>>
      /\ upper' = (IF Next_nonce = upper THEN Next_nonce + 1 ELSE upper)
      /\ job' = JobAt("link", Next_nonce)
      /\ Next_nonce <= MaxNonce
  BY AssignAhead DEF Pick, links, stages
<1>2. /\ HeldInv /\ LinkInv /\ SubmissionInv
      /\ finalized \in Int /\ upper \in Nat /\ Nonce \subseteq Nat
  BY HoldingTypes DEF CleanStep, CleanInv
<1>3. PICK n : n = Next_nonce
  OBVIOUS
<1>4. n \in Nonce /\ n \in Nat /\ ((n < upper /\ nonce_available(n)) \/ n = upper)
  <2>1. TypeOK
    BY DEF CleanStep, TypeInv
  <2>2. n \in Nat /\ n <= MaxNonce /\ MaxNonce \in Nat
    BY <1>1, <1>3, <2>1, NextNonceAvailable, BoundsAssumption
  <2>3. n \in Nonce
    BY <2>2 DEF Nonce
  <2> QED BY <1>1, <1>2, <1>3, <2>1, <2>3, NextNonceAvailable
<1>5. nonce_available(n)
  BY <1>1, <1>2, <1>4 DEF HeldInv, HalfCleared
<1>6. upper <= upper' /\ n < upper' /\ upper' \in Nat
  BY <1>1, <1>2, <1>3, <1>4
<1>7. job'.pc = "link" /\ job'.tx = job.tx /\ job'.nonce = n
  BY <1>1, <1>3 DEF JobAt
<1>8. HeldInv'
  <2> SUFFICES ASSUME NEW m \in Nonce, ~nonce_available(m)' PROVE m < upper'
    BY DEF HeldInv
  <2>1. ~nonce_available(m)
    BY <1>1 DEF nonce_available, Freed
  <2>2. m < upper
    BY <1>1, <1>2, <2>1 DEF HeldInv, HalfCleared
  <2> QED BY <1>2, <1>6, <2>2
<1>9. LinkInv'
  BY <1>1, <1>2, <1>7 DEF LinkInv, Releasing, Freed
<1>10. SubmissionInv'
  BY <1>1, <1>2, <1>5, <1>6, <1>7 DEF SubmissionInv, Freed, nonce_available
<1>11. OverwriteInv' /\ UpperAhead'
  BY <1>1, <1>2, <1>6 DEF OverwriteInv, UpperAhead
<1> QED BY <1>8, <1>9, <1>10, <1>11 DEF CleanInv

\* The writes that undo and make a link, in the order of clear_tracked_tx_uuid
\* and set_tracked_tx_uuid, leave no nonce with two transactions.
LEMMA LinkHolds ==
  ASSUME CleanStep, Unlink \/ Link \/ Note
  PROVE  CleanInv'
<1>1. /\ job.pc \in {"unlink", "link", "note"} /\ overwrite.pc = "idle" /\ finalized < upper
      /\ UNCHANGED <<finalized, upper, status, overwrite>> /\ job.tx \in Tx
  BY AssignAhead, HoldingTypes DEF Unlink, Link, Note, CleanStep, boundaries, stages
<1>2. /\ HeldInv /\ LinkInv /\ SubmissionInv
      /\ txOf \in [Nonce -> Tx \cup {NoTx}] /\ nonceOf \in [Tx -> Nonce \cup {None}]
      /\ NoTx \notin Tx /\ None \notin Nonce
      /\ job.pc \in {"link", "note"} => job.nonce \in Nonce
  BY HoldingTypes DEF CleanStep, CleanInv
<1>3. \A t : Freed(t)' <=> Freed(t)
  BY <1>1 DEF Freed
<1>4. OverwriteInv' /\ UpperAhead'
  BY <1>1 DEF OverwriteInv, UpperAhead
<1>5. CASE Unlink
  <2>1. /\ job.pc = "unlink" /\ job'.pc = "pick" /\ job'.tx = job.tx /\ txOf' = txOf
        /\ \A t \in Tx : nonceOf'[t] = IF t = job.tx THEN None ELSE nonceOf[t]
    BY <1>2, <1>5 DEF Unlink, JobAt
  <2>2. ~Freed(job.tx) => \A n \in Nonce : txOf[n] # job.tx
    BY <1>1, <1>2, <2>1 DEF LinkInv, Releasing
  <2>3. HeldInv'
    BY <1>1, <1>2, <2>1 DEF HeldInv, HalfCleared, nonce_available, Freed
  <2>4. LinkInv'
    BY <1>1, <1>2, <1>3, <2>1, <2>2 DEF LinkInv, Releasing
  <2>5. SubmissionInv'
    BY <1>1, <2>1, <2>2 DEF SubmissionInv, Freed
  <2> QED BY <1>4, <2>3, <2>4, <2>5 DEF CleanInv
<1>6. CASE Link
  <2>1. /\ job.pc = "link" /\ job'.pc = "note" /\ job'.tx = job.tx /\ job'.nonce = job.nonce
        /\ nonceOf' = nonceOf
        /\ \A n \in Nonce : txOf'[n] = IF n = job.nonce THEN job.tx ELSE txOf[n]
    BY <1>2, <1>6 DEF Link, JobAt
  <2>2. /\ job.nonce \in Nonce /\ nonce_available(job.nonce) /\ job.nonce < upper
        /\ ~Freed(job.tx) => \A n \in Nonce : txOf[n] # job.tx
    BY <1>2, <2>1 DEF SubmissionInv
  <2>3. HeldInv'
    <3> SUFFICES ASSUME NEW n \in Nonce, ~nonce_available(n)' PROVE n < upper
      BY <1>1 DEF HeldInv
    <3>1. CASE n = job.nonce
      BY <2>2, <3>1
    <3>2. CASE n # job.nonce
      <4>1. ~nonce_available(n)
        BY <1>1, <2>1, <3>2 DEF nonce_available, Freed
      <4> QED BY <1>1, <1>2, <4>1 DEF HeldInv, HalfCleared
    <3> QED BY <3>1, <3>2
  <2>4. LinkInv'
    <3> SUFFICES ASSUME NEW t \in Tx, ~Freed(t)
        PROVE  /\ nonceOf[t] # None => txOf'[nonceOf[t]] = t
               /\ t # job.tx => \A n \in Nonce : txOf'[n] = t => nonceOf[t] = n
      BY <1>1, <1>3, <2>1 DEF LinkInv, Releasing
    <3>1. /\ nonceOf[t] # None => txOf[nonceOf[t]] = t
          /\ \A n \in Nonce : txOf[n] = t => nonceOf[t] = n
      BY <1>1, <1>2, <2>1 DEF LinkInv, Releasing
    <3>2. CASE t = job.tx
      BY <1>2, <2>2, <3>1, <3>2
    <3>3. CASE t # job.tx
      <4>1. nonceOf[t] # None => nonceOf[t] # job.nonce
        BY <1>2, <2>2, <3>1 DEF nonce_available
      <4> QED BY <1>2, <2>1, <3>1, <3>3, <4>1
    <3> QED BY <3>2, <3>3
  <2>5. SubmissionInv'
    BY <1>1, <2>1, <2>2 DEF SubmissionInv, Freed
  <2> QED BY <1>4, <2>3, <2>4, <2>5 DEF CleanInv
<1>7. CASE Note
  <2>1. /\ job.pc = "note" /\ job'.pc = "send" /\ txOf' = txOf
        /\ \A t \in Tx : nonceOf'[t] = IF t = job.tx THEN job.nonce ELSE nonceOf[t]
    BY <1>2, <1>7 DEF Note, JobAt
  <2>2. /\ txOf[job.nonce] = job.tx
        /\ ~Freed(job.tx) => \A n \in Nonce : txOf[n] = job.tx => n = job.nonce
    BY <1>2, <2>1 DEF SubmissionInv
  <2>3. HeldInv'
    BY <1>1, <1>2, <2>1 DEF HeldInv, HalfCleared, nonce_available, Freed
  <2>4. LinkInv'
    <3> SUFFICES ASSUME NEW t \in Tx, ~Freed(t)
        PROVE  /\ nonceOf'[t] # None => txOf[nonceOf'[t]] = t
               /\ \A n \in Nonce : txOf[n] = t => nonceOf'[t] = n
      BY <1>1, <1>3, <2>1 DEF LinkInv, Releasing
    <3>1. CASE t = job.tx
      BY <2>1, <2>2, <3>1
    <3>2. CASE t # job.tx
      BY <1>1, <1>2, <2>1, <3>2 DEF LinkInv, Releasing
    <3> QED BY <3>1, <3>2
  <2>5. SubmissionInv'
    BY <2>1 DEF SubmissionInv
  <2> QED BY <1>4, <2>3, <2>4, <2>5 DEF CleanInv
<1> QED BY <1>5, <1>6, <1>7

\* Every step of a submission leaves each nonce with one holder.
LEMMA SubmissionHolds ==
  ASSUME CleanStep, Submission
  PROVE  CleanInv'
<1>1. CASE AssignNext \/ Pick \/ Unlink \/ Link \/ Note
  BY <1>1, AssignHolds, PickHolds, LinkHolds
<1>2. CASE Validate \/ NonceFails \/ Sent \/ Retry
  <2>0. OverwriteInv /\ UpperAhead /\ clean' /\ upper \in Nat /\ upper <= upper
    BY HoldingTypes DEF CleanStep, CleanInv
  <2>1. UNCHANGED <<finalized, upper, links, overwrite, update>>
    BY <1>2 DEF Validate, NonceFails, Sent, Retry, boundaries
  <2>2. lock' = lock \/ lock' = "free"
    BY <1>2 DEF Validate, NonceFails, Sent, Retry
  <2> DEFINE Moves == /\ job.pc \notin {"unlink", "note"}
                      /\ job'.pc \in {"idle", "validate", "lock", "send"}
                      /\ job'.pc = "lock" => job'.nonce = nonceOf[job'.tx]
                      /\ finalized < upper \/ job'.pc \in {"idle", "validate"}
  <2>3. \A p, n : JobAt(p, n).pc = p /\ JobAt(p, n).nonce = n /\ JobAt(p, n).tx = job.tx
    BY DEF JobAt
  <2>4. Moves
    <3>1. CASE Validate
      <4>1. finalized < upper
        BY <2>0, <3>1 DEF UpperAhead, Validate
      <4>2. CASE KeepsNonce(job.tx)
        BY <2>3, <3>1, <4>1, <4>2 DEF Validate
      <4>3. CASE ~KeepsNonce(job.tx)
        BY <2>3, <3>1, <4>1, <4>3 DEF Validate
      <4> QED BY <4>2, <4>3
    <3>2. CASE NonceFails
      <4>1. ~HalfLinked
        BY <2>0, <3>2 DEF NonceFails
      <4>2. job'.pc = "idle"
        BY <3>2 DEF NonceFails, NoJob
      <4> QED BY <4>1, <4>2 DEF HalfLinked
    <3>3. CASE Sent
      BY <3>3 DEF Sent, NoJob
    <3>4. CASE Retry
      BY <2>3, <3>4 DEF Retry
    <3> QED BY <1>2, <3>1, <3>2, <3>3, <3>4
  <2>5. HeldInv' /\ LinkInv' /\ SubmissionInv'
    BY <2>0, <2>1, <2>4, QuietStep
  <2>6. UpperAhead'
    BY <2>0, <2>1, <2>4 DEF UpperAhead
  <2> QED BY <2>0, <2>1, <2>2, <2>5, <2>6 DEF CleanInv, OverwriteInv
<1> QED BY <1>1, <1>2 DEF Submission

\* An overwrite that nothing cuts into ends with no holder of a nonce above the
\* new upper nonce: it clears what it passed, nonce by nonce, from below.
LEMMA OperatorHolds ==
  ASSUME CleanStep, Operator
  PROVE  CleanInv'
<1>0. /\ OverwriteInv /\ UpperAhead /\ HeldInv /\ LinkInv /\ SubmissionInv /\ LockInv /\ clean'
      /\ UNCHANGED <<finalized, status, lock, update, job>>
  BY DEF CleanStep, CleanInv, Operator, Overwrite, OverwriteUpper, ClearNonce, ForgetNonce,
     OverwriteEnds, OverwriteFails, boundaries, stages
<1>1. /\ finalized \in Int /\ upper \in Nat /\ upper <= upper /\ Nonce \subseteq Nat
      /\ overwrite.desired \in Nat /\ overwrite.top \in Nat
      /\ txOf \in [Nonce -> Tx \cup {NoTx}] /\ nonceOf \in [Tx -> Nonce \cup {None}]
      /\ NoTx \notin Tx /\ None \notin Nonce
      /\ overwrite \in [pc : {"idle", "upper", "clear", "forget"}, desired : 0..(MaxNonce + 1),
                        top : 0..(MaxNonce + 1), tx : Tx \cup {NoTx}]
  BY HoldingTypes DEF CleanStep, TypeInv, TypeOK, Commands
<1>2. overwrite.pc # "idle" => /\ lock = "free"
                               /\ job.pc \notin {"unlink", "pick", "link", "note"}
  BY <1>0 DEF OverwriteInv, LockInv
<1>3. \A t : Freed(t)' <=> Freed(t)
  BY <1>0 DEF Freed
<1>4. ASSUME NEW n \in Nonce, Overwrite(n) PROVE CleanInv'
  <2>1. /\ overwrite.pc = "idle" /\ n < upper /\ n > finalized /\ lock = "free"
        /\ overwrite' = [pc |-> "upper", desired |-> n, top |-> upper, tx |-> NoTx]
        /\ UNCHANGED <<upper, links>>
    BY <1>0, <1>4 DEF Overwrite, boundaries
  <2>2. HeldInv' /\ LinkInv' /\ SubmissionInv'
    BY <1>0, <1>1, <2>1, QuietStep DEF HalfCleared
  <2>3. n \in Int
    BY <1>1
  <2> QED BY <1>0, <1>1, <2>1, <2>2, <2>3 DEF CleanInv, OverwriteInv, UpperAhead
<1>5. CASE OverwriteUpper
  <2>1. /\ overwrite.pc = "upper" /\ overwrite'.pc = "clear" /\ upper' = overwrite.desired
        /\ overwrite'.desired = overwrite.desired /\ overwrite'.top = overwrite.top
        /\ UNCHANGED <<txOf, nonceOf>>
    BY <1>1, <1>5 DEF OverwriteUpper, links
  <2>2. overwrite.top = upper /\ finalized < overwrite.desired
    BY <1>0, <2>1 DEF OverwriteInv
  <2>3. HeldInv'
    <3> SUFFICES ASSUME NEW n \in Nonce, ~nonce_available(n)'
                 PROVE  n < overwrite.desired \/ n \in overwrite.desired..(overwrite.top - 1)
      BY <2>1 DEF HeldInv, HalfCleared
    <3>1. ~nonce_available(n)
      BY <1>0, <2>1 DEF nonce_available, Freed
    <3>2. n < upper
      BY <1>0, <2>1, <3>1 DEF HeldInv, HalfCleared
    <3> QED BY <1>1, <2>2, <3>2
  <2>4. LinkInv'
    BY <1>0, <1>3, <2>1 DEF LinkInv, Releasing
  <2>5. SubmissionInv'
    BY <1>0, <1>2, <2>1 DEF SubmissionInv, Freed
  <2>6. OverwriteInv' /\ UpperAhead'
    BY <1>0, <1>2, <2>1, <2>2 DEF OverwriteInv, UpperAhead
  <2> QED BY <2>3, <2>4, <2>5, <2>6 DEF CleanInv
<1>6. CASE ClearNonce
  <2>1. PICK n \in Tracked :
          /\ \A m \in Tracked : n <= m
          /\ txOf' = [txOf EXCEPT ![n] = NoTx]
          /\ overwrite' = [overwrite EXCEPT !.pc = "forget", !.desired = n + 1, !.tx = txOf[n]]
    BY <1>6 DEF ClearNonce
  <2>2. overwrite.pc = "clear" /\ upper' = upper /\ nonceOf' = nonceOf
    BY <1>6 DEF ClearNonce, boundaries
  <2>3. /\ overwrite'.pc = "forget" /\ overwrite'.desired = n + 1
        /\ overwrite'.top = overwrite.top /\ overwrite'.tx = txOf[n]
    BY <1>1, <2>1
  <2>4. n \in Nonce /\ txOf[n] \in Tx /\ n \in Nat
    <3>1. n \in overwrite.desired..(overwrite.top - 1) /\ txOf[n] # NoTx
      BY DEF Tracked
    <3>2. n \in Nonce
      BY <1>1, <3>1, BoundsAssumption DEF Nonce
    <3> QED BY <1>1, <3>1, <3>2
  <2>5. \A m \in Nonce : txOf'[m] = IF m = n THEN NoTx ELSE txOf[m]
    BY <1>1, <2>1
  <2>6. HeldInv'
    <3> SUFFICES ASSUME NEW m \in Nonce, ~nonce_available(m)'
                 PROVE  m < upper \/ m \in (n + 1)..(overwrite.top - 1)
      BY <2>2, <2>3 DEF HeldInv, HalfCleared
    <3>1. m # n /\ txOf[m] # NoTx /\ ~nonce_available(m)
      BY <1>0, <2>5 DEF nonce_available, Freed
    <3>2. m < upper \/ m \in overwrite.desired..(overwrite.top - 1)
      BY <1>0, <3>1 DEF HeldInv
    <3>3. CASE m \in overwrite.desired..(overwrite.top - 1)
      <4>1. m \in Tracked
        BY <3>1, <3>3 DEF Tracked
      <4>2. n <= m
        BY <2>1, <4>1
      <4> QED BY <1>1, <2>4, <3>1, <3>3, <4>2
    <3> QED BY <3>2, <3>3
  <2>7. LinkInv'
    <3>1. \A t \in Tx : ~Freed(t) => /\ nonceOf[t] # None => txOf[nonceOf[t]] = t
                                     /\ \A m \in Nonce : txOf[m] = t => nonceOf[t] = m
      BY <1>0, <1>2, <2>2 DEF LinkInv, Releasing
    <3>2. \A t : Releasing(t)' <=> t = txOf[n]
      BY <1>0, <1>2, <2>2, <2>3 DEF Releasing
    <3> SUFFICES ASSUME NEW t \in Tx, ~Freed(t)
        PROVE  /\ nonceOf[t] # None =>
                    \/ txOf'[nonceOf[t]] = t
                    \/ Releasing(t)' /\ txOf'[nonceOf[t]] = NoTx
               /\ Releasing(t)' => \A m \in Nonce : txOf'[m] # t
               /\ \A m \in Nonce : txOf'[m] = t => nonceOf[t] = m
      BY <1>3, <2>2 DEF LinkInv
    <3>3. CASE t = txOf[n]
      BY <1>1, <2>4, <2>5, <3>1, <3>2, <3>3
    <3>4. CASE t # txOf[n]
      BY <1>1, <2>4, <2>5, <3>1, <3>2, <3>4, ZenonT(30)
    <3> QED BY <3>3, <3>4
  <2>8. SubmissionInv'
    BY <1>0, <1>2, <2>2 DEF SubmissionInv, Freed
  <2>9. OverwriteInv' /\ UpperAhead'
    BY <1>0, <1>2, <2>2, <2>3 DEF OverwriteInv, UpperAhead
  <2> QED BY <2>6, <2>7, <2>8, <2>9 DEF CleanInv
<1>7. CASE ForgetNonce
  <2>1. /\ overwrite.pc = "forget" /\ overwrite'.pc = "clear" /\ UNCHANGED <<upper, txOf>>
        /\ overwrite'.desired = overwrite.desired /\ overwrite'.top = overwrite.top
    BY <1>1, <1>7 DEF ForgetNonce, boundaries
  <2>2. \A t \in Tx : nonceOf'[t] = IF t = overwrite.tx THEN None ELSE nonceOf[t]
    BY <1>1, <1>7 DEF ForgetNonce
  <2>3. HeldInv'
    BY <1>0, <2>1 DEF HeldInv, HalfCleared, nonce_available, Freed
  <2>4. LinkInv'
    BY <1>0, <1>2, <1>3, <2>1, <2>2 DEF LinkInv, Releasing
  <2>5. SubmissionInv'
    <3>1. job.pc = "lock" => job.tx \in Tx
      BY HoldingTypes DEF CleanStep
    <3> QED BY <1>0, <1>2, <2>1, <2>2, <3>1 DEF SubmissionInv, Freed
  <2>6. OverwriteInv' /\ UpperAhead'
    BY <1>0, <1>2, <2>1 DEF OverwriteInv, UpperAhead
  <2> QED BY <2>3, <2>4, <2>5, <2>6 DEF CleanInv
<1>8. CASE OverwriteEnds
  <2>1. /\ overwrite.pc = "clear" /\ Tracked = {} /\ overwrite'.pc = "idle"
        /\ UNCHANGED <<upper, txOf, nonceOf>>
    BY <1>8 DEF OverwriteEnds, NoOverwrite, boundaries, links
  <2>2. HeldInv'
    <3> SUFFICES ASSUME NEW n \in Nonce, ~nonce_available(n)' PROVE n < upper
      BY <2>1 DEF HeldInv
    <3>1. ~nonce_available(n) /\ txOf[n] # NoTx
      BY <1>0, <2>1 DEF nonce_available, Freed
    <3>2. n \notin overwrite.desired..(overwrite.top - 1)
      BY <2>1, <3>1 DEF Tracked
    <3> QED BY <1>0, <3>1, <3>2 DEF HeldInv
  <2>3. LinkInv'
    BY <1>0, <1>3, <2>1 DEF LinkInv, Releasing
  <2>4. SubmissionInv'
    BY <1>0, <1>2, <2>1 DEF SubmissionInv, Freed
  <2>5. OverwriteInv' /\ UpperAhead'
    BY <1>0, <2>1 DEF OverwriteInv, UpperAhead
  <2> QED BY <2>2, <2>3, <2>4, <2>5 DEF CleanInv
<1>9. CASE OverwriteFails
  <2>1. overwrite'.pc = "idle" /\ ~HalfCleared /\ UNCHANGED <<upper, links>>
    BY <1>0, <1>9 DEF OverwriteFails, NoOverwrite, boundaries
  <2>2. HeldInv' /\ LinkInv' /\ SubmissionInv'
    BY <1>0, <1>1, <2>1, QuietStep
  <2> QED BY <1>0, <2>1, <2>2 DEF CleanInv, OverwriteInv, UpperAhead
<1> QED BY <1>4, <1>5, <1>6, <1>7, <1>8, <1>9 DEF Operator

\* Every step of an account's tasks keeps the invariant.
LEMMA HoldingStep == HoldingInv /\ [Next]_vars => HoldingInv'
<1> SUFFICES ASSUME HoldingInv, [Next]_vars PROVE HoldingInv'
  OBVIOUS
<1>1. RegressionInv' /\ TypeInv /\ TypeInv' /\ UpdateInv
  BY RegressionStep DEF HoldingInv, RegressionInv
<1>2. LockInv' /\ (job'.pc \in {"link", "note"} => job'.nonce # None)
  BY <1>1, LockStep DEF HoldingInv
<1>3. ASSUME clean' PROVE CleanInv'
  <2>1. clean /\ \A t \in Tx : Freed(t) => Freed(t)'
    BY <1>1, <1>3, DroppedStays
  <2>2. CleanStep
    BY <1>1, <1>3, <2>1 DEF CleanStep, HoldingInv
  <2> QED BY <2>2, BoundaryHolds, StageHolds, SubmissionHolds, OperatorHolds, RestHolds DEF Next
<1> QED BY <1>1, <1>2, <1>3 DEF HoldingInv

\* The invariant holds from the start of a new agent on.
LEMMA HoldingInvariance == Spec => []HoldingInv
<1>1. Init => HoldingInv
  <2> SUFFICES ASSUME Init PROVE HoldingInv
    OBVIOUS
  <2>1. RegressionInv
    BY TypeInit DEF Init, RegressionInv, RegressionCovered, UpdateInv, None, Due, NoUpdate
  <2>2. /\ finalized = -1 /\ upper = 0 /\ lock = "free" /\ update.pc = "due" /\ job.pc = "idle"
        /\ overwrite.pc = "idle"
        /\ \A n \in Nonce : txOf[n] = NoTx
        /\ \A t \in Tx : nonceOf[t] = None
    BY DEF Init, Due, NoUpdate, NoJob, NoOverwrite, None
  <2>3. LockInv /\ OverwriteInv /\ UpperAhead /\ HeldInv /\ SubmissionInv
    BY <2>2 DEF LockInv, OverwriteInv, UpperAhead, HeldInv, SubmissionInv, nonce_available
  <2>4. LinkInv
    BY <2>2, TxAssumption DEF LinkInv, Releasing
  <2> QED BY <2>1, <2>2, <2>3, <2>4 DEF HoldingInv, CleanInv
<1> QED BY <1>1, HoldingStep, PTL DEF Spec

\* Short of the mishaps of clean, the upper nonce is above every nonce that a
\* transaction which is not dropped holds, once an overwrite has ended: taking
\* it as it is, as assign_next_nonce does, takes no nonce from anybody.
THEOREM UpperAboveHeld == Spec => []HeldBelowUpper
<1>1. HoldingInv => HeldBelowUpper
  BY DEF HoldingInv, CleanInv, HeldInv, HalfCleared, HeldBelowUpper
<1> QED BY <1>1, HoldingInvariance, PTL

\* Short of those mishaps, no two transactions that wait for the chain have the
\* same nonce (assign_next_nonce, validate_assigned_nonce).
THEOREM NonceHasOneHolder == Spec => []NoSharedNonce
<1>1. HoldingInv => NoSharedNonce
  <2> SUFFICES ASSUME HoldingInv, clean, NEW t \in Tx, NEW u \in Tx, t # u, Taken(t), Taken(u),
                      nonceOf[t] # None
               PROVE  nonceOf[t] # nonceOf[u]
    BY DEF NoSharedNonce
  <2>1. ~Freed(t) /\ ~Freed(u)
    BY DEF Taken, Freed
  <2>2. LinkInv /\ TypeInv
    BY DEF HoldingInv, CleanInv, RegressionInv
  <2>3. nonceOf[t] \in Nonce /\ nonceOf[u] \in Nonce \cup {None}
    BY <2>2, HoldingTypes
  <2> SUFFICES ASSUME nonceOf[t] = nonceOf[u] PROVE FALSE
    OBVIOUS
  <2>4. \/ txOf[nonceOf[t]] = t
        \/ Releasing(t) /\ txOf[nonceOf[t]] = NoTx
    BY <2>1, <2>2 DEF LinkInv
  <2>5. \/ txOf[nonceOf[t]] = u
        \/ Releasing(u) /\ txOf[nonceOf[t]] = NoTx
    BY <2>1, <2>2 DEF LinkInv
  <2>6. Releasing(t) /\ Releasing(u)
    BY <2>4, <2>5, TxAssumption
  <2>7. OverwriteInv /\ LockInv
    BY DEF HoldingInv, CleanInv
  <2> QED BY <2>6, <2>7 DEF Releasing, OverwriteInv, LockInv
<1> QED BY <1>1, HoldingInvariance, PTL

\* Short of those mishaps, a nonce above the finalized one that a waiting
\* transaction holds is the one it is sent with (set_tracked_tx_uuid and its
\* reversal): no gap is left that no transaction will fill.
THEOREM HolderIsSent == Spec => []HeldIsSent
<1>1. HoldingInv => HeldIsSent
  <2> SUFFICES ASSUME HoldingInv, clean, NEW n \in (finalized + 1)..MaxNonce, txOf[n] # NoTx,
                      Taken(txOf[n]), ~(job.pc = "note" /\ job.tx = txOf[n])
               PROVE  nonceOf[txOf[n]] = n
    BY DEF HeldIsSent
  <2>1. LinkInv /\ TypeInv
    BY DEF HoldingInv, CleanInv, RegressionInv
  <2>2. n \in Nonce
    BY <2>1, BoundsAssumption DEF TypeInv, TypeOK, Nonce, None
  <2>3. txOf[n] \in Tx /\ ~Freed(txOf[n])
    BY <2>1, <2>2, HoldingTypes DEF Taken, Freed
  <2> QED BY <2>1, <2>2, <2>3 DEF LinkInv
<1> QED BY <1>1, HoldingInvariance, PTL
=============================================================================
