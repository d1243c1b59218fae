----------------------- MODULE ConsensusValidatorFair -----------------------
(***************************************************************************)
(* Liveness of the consensus validator.  The process's tasks are scheduled *)
(* fairly by the runtime, and an outage of storage or of a signer, during  *)
(* which calls fail and are retried any number of times, ends eventually.  *)
(* Endpoints, indexers and crashes are not assumed to do anything.         *)
(***************************************************************************)
EXTENDS ConsensusValidator

Elsewhere == <<db, snapshot, processVars, loopVars, watchVars, historyVars>>

Scheduled(A) == mode = "running" /\ A

\* A call of a task completes; failing and retrying is not progress.
TaskProgress(w) ==
    \E t \in chunk[w] :
        \/ FetchAbsent(w, t)
        \/ FetchSame(w, t)
        \/ FetchConflict(w, t)
        \/ Sign(w, t)
        \/ DispatchWrite(w, t)
        \/ WriteAcknowledged(w, t)
        \/ ReadLatestIndex(w, t)
        \/ WriteLatestIndex(w, t)

\* No outage lasts forever; outside it every call is answered.
StorageFairness ==
    /\ WF_vars(OutageEnds /\ UNCHANGED Elsewhere)
    /\ WF_vars((\E cp \in wire : WriteCheckpoint(cp)) /\ UNCHANGED Elsewhere)

TaskFairness ==
    /\ WF_vars(Scheduled(NotifyHistory))
    /\ WF_vars(Scheduled(HistoryStep))
    /\ WF_vars(Scheduled(LiveExit))
    /\ \A w \in Worker :
         /\ WF_vars(Scheduled(TakeChunk(w)) /\ UNCHANGED Elsewhere)
         /\ WF_vars(Scheduled(TaskProgress(w)) /\ UNCHANGED Elsewhere)
         /\ WF_vars(/\ Scheduled(PersistTombstone(w) \/ PersistReorgStatus(w))
                    /\ UNCHANGED Elsewhere)

FairSpec == Spec /\ StorageFairness /\ TaskFairness

\* The live loop itself also keeps turning: its reads time out after 20 s.
LoopFairSpec == FairSpec /\ WF_vars(Scheduled(LiveStep))

\* Every index of the committed history is eventually published, though the
\* live submitter publishes only heads and targets coalesce while the history
\* worker retries; unless a conflict halts the validator or it crashes.
CommittedEventuallyPublished ==
    \A i \in IndexSet :
        (mode = "running" /\ i < Len(tree.committed))
            ~> (stored[i] # None \/ halted \/ mode # "running")

\* A halted validator ends its process: "stay halted until the detecting
\* worker persists the guard and terminates the process" (submit.rs).
HaltTerminates == halted ~> mode # "running"
=============================================================================
