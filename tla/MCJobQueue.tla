----------------------------- MODULE MCJobQueue -----------------------------
(* Small instances of JobQueue.                                              *)
EXTENDS JobQueue, TLC

\* The retry budgets of the code are 3, 3 and 2. With one attempt a failure
\* dead-letters the job at once, and re-queues it where jobs.Retry has put its
\* attempts back to 0.
OneAttempt == [k \in JobType |-> 1]

TranscodesOnly == {"transcode"} \X Entry
MixedRequests == TranscodesOnly \cup {<<"download", 1>>}

OwnFlavor == [j \in Job |-> j]

WorkerSymmetry == Permutations(Worker)
=============================================================================
