------------------------ MODULE GenerationProperties ------------------------
(***************************************************************************)
(* What GenerationPipeline is meant to guarantee, and the fairness its     *)
(* scheduling provides.                                                    *)
(***************************************************************************)
EXTENDS GenerationPipeline

Points ==
  {"idle", "reuse", "validate_input", "submit_to_ai", "ai_processing", "quality_check",
   "done", "return", "blocked", "catch", "rethrow"} \cup Stages

\* Every column, queue field and execution register holds a value the code can
\* store in it, the counters never beyond their limits.
RowTypes ==
  /\ status \in [Jobs -> Statuses]
  /\ outputUrl \in [Jobs -> Outputs \cup {None}]
  /\ inputHash \in [Jobs -> Requests \cup {None}]
  /\ inputParams \in [Jobs -> Requests \cup {None}]
  /\ completedAt \in SUBSET Jobs

ApiTypes ==
  /\ request \in [Jobs -> {"none", "enqueue", "accepted", "refused", "lost"}]
  /\ cancelling \in SUBSET Jobs

QueueTypes ==
  /\ qstate \in [Jobs -> {"none", "wait", "active", "completed", "failed"}]
  /\ owner \in [Jobs -> Slots \cup {None}]
  /\ payload \in [Jobs -> Requests \cup {None}]
  /\ attemptsMade \in [Jobs -> 0 .. Attempts]
  /\ stalls \in [Jobs -> 0 .. MaxStalledCount]
  /\ returned \in [Jobs -> Outputs \cup {None}]

\* The loop counters of the polls and of the signing share one register.
MaxTries == IF AiPollMaxAttempts < C2paMaxRetries THEN C2paMaxRetries ELSE AiPollMaxAttempts

SlotTypes ==
  /\ pc \in [Slots -> Points]
  /\ job \in [Slots -> Jobs \cup {None}]
  /\ out \in [Slots -> Outputs \cup {None}]
  /\ attempt \in [Slots -> 0 .. Attempts]
  /\ tries \in [Slots -> 0 .. MaxTries]

ProcessTypes ==
  /\ late \in [Jobs -> 0 .. MaxLate]
  /\ usePrisma \in BOOLEAN

ServiceTypes ==
  /\ submissions \in [Jobs -> Nat]
  /\ cleared \in SUBSET (Stages \X Outputs)

SinkTypes ==
  /\ deadLetters \in [Jobs -> Nat]
  /\ bus \in SUBSET Events

TypeOK ==
  /\ RowTypes /\ ApiTypes /\ QueueTypes /\ SlotTypes
  /\ ProcessTypes /\ ServiceTypes /\ SinkTypes

-----------------------------------------------------------------------------
\* The outputs a user can reach: through a row, or through an event.
Completions == {e \in bus : e.type = "generation.completed"}

Released ==
  ({outputUrl[j] : j \in Jobs} \cup {e.output : e \in Completions}) \ {None}

\* No output reaches a user, by a fresh generation, a reuse, a retry or a
\* second execution of the same job, unless the moderation, consent and C2PA
\* services have each let that very output through (generationWorker.ts:450).
GovernanceGate ==
  \A o \in Released : \A g \in BlockingStages : <<g, o>> \in cleared

\* A completion never announces an output made for other request data:
\* deduplication by input hash hands out results of the same request only, also
\* for retried jobs, whose params have had a hash folded in.
ReuseMatchesRequest ==
  \A e \in Completions : payload[e.output[1]] = payload[e.job]

\* The outputs that every blocking stage has let through.
GovernedOutputs ==
  {o \in {p[2] : p \in cleared} : \A g \in BlockingStages : <<g, o>> \in cleared}

\* A row says `complete` only if an output made for exactly that request has passed
\* the moderation, consent and C2PA services, whichever row it was made for and
\* whatever has become of that row since: a deduplicated row, which has no output
\* and no completedAt of its own, outlives the row it took its result from
\* (generationWorker.ts:373, cleanupWorker.ts:28).
CompleteIsGoverned ==
  \A j \in Jobs : status[j] = "complete" =>
    \E o \in GovernedOutputs : payload[o[1]] = payload[j]

\* The AI service is never asked for a job more often than the queue's attempts,
\* the tolerated stalls and the client's POST retries multiply out to.
SubmissionBudget ==
  \A j \in Jobs :
    submissions[j] <= AiPostAttempts * (Attempts + MaxStalledCount)

\* A job is dead-lettered only on its last attempt, and once more at most for
\* each time that attempt stalled: nothing in the dead-letter queue has a
\* regular retry ahead of it (DLQ_MAX_RETRIES agrees with the queue's attempts).
DeadLettersAreLast ==
  \A j \in Jobs :
    /\ deadLetters[j] > 0 => attemptsMade[j] >= Attempts - 1
    /\ deadLetters[j] <= 1 + stalls[j]

\* What the queue says of a job that has ended is so: a completed one keeps, as its
\* return value, an output that every blocking stage has let through and that was
\* made for the same request data, and a failed one had all its chances.  Events
\* are best effort, so the queue is the one record of a completion that is always
\* made (`return result`, generationWorker.ts:537).
VerdictsHold ==
  \A j \in Jobs :
    /\ qstate[j] = "completed" =>
         /\ returned[j] \in GovernedOutputs
         /\ payload[returned[j][1]] = payload[j]
    /\ qstate[j] = "failed" => attemptsMade[j] = Attempts \/ stalls[j] = MaxStalledCount

\* The pipeline implements the delivery gate.
Gate == INSTANCE DeliveryGate
          WITH Blocking <- BlockingStages, Earlier <- Before, released <- Released

\* Every step of the pipeline is a clearance in the order of the stages, a
\* release of cleared outputs, or neither.
ImplementsGate == Gate!Spec

-----------------------------------------------------------------------------
\* Fairness.  A handler that has awaited its query goes on; the event loop runs
\* every execution and callback that is ready, and what an execution awaits of a
\* service comes back or fails (fetch gives up by itself after its platform's time
\* limit); BullMQ's workers fetch waiting jobs and look for locks that no live
\* process holds.  Nothing is assumed of the answers: an AI job may stay pending at
\* every poll.  Nothing is assumed of users, crashes, row deletions, lapsing locks
\* and rejected calls.
Fairness ==
  /\ \A j \in Jobs :
       /\ WF_vars(EnqueueGeneration(j) \/ EnqueueRejected(j))
       /\ WF_vars(CancelWrite(j))
       /\ WF_vars(CallbackWrites(j))
       /\ WF_vars(\E s \in Slots : StartJob(s, j))
       /\ WF_vars(StalledCheck(j) /\ ~Executing(owner[j], j))
  /\ \A s \in Slots : WF_vars(Process(s))

FairSpec == Spec /\ Fairness

\* What the API has accepted, the queue ends for good: a submission or retry that
\* was answered with 201 is some day completed or failed in BullMQ and stays so.
\* A failed attempt that the queue runs again is no end (production.ts:217).
AcceptedSettles ==
  \A j \in Jobs :
    request[j] = "accepted" ~> [](qstate[j] \in {"completed", "failed"})

\* An execution always gives its slot back: no outcome of the AI or governance
\* services keeps one of the worker's few slots forever.
SlotsRecycle ==
  \A s \in Slots : pc[s] # "idle" ~> pc[s] = "idle"

-----------------------------------------------------------------------------
\* What the repository says of the system and the code does not do.

\* "A completed job cannot be cancelled" (production.ts:88): no step turns a
\* complete row into a cancelled one.
CompletedNotCancelled ==
  [][\A j \in Jobs : status[j] = "complete" => status'[j] # "cancelled"]_vars

\* A row whose enqueue was rejected "would otherwise sit at `queued` forever, which
\* reads as "waiting its turn" when in fact nothing will ever run it.  Say so on the
\* row" (production.ts:160): a row is `queued` only while its enqueue is under way
\* or the queue has the job.
QueuedMeansWaiting ==
  \A j \in Jobs :
    status[j] = "queued" => request[j] = "enqueue" \/ qstate[j] \in {"wait", "active"}

\* The row id is the queue's job id so that "every status transition the worker
\* writes lands on the row the console is already displaying"
\* (generationQueue.ts:100): once BullMQ has completed a job and nobody has
\* cancelled it, its row is complete.
ConsoleAgrees ==
  \A j \in Jobs : qstate[j] = "completed" => status[j] \in {"complete", "cancelled"}
=============================================================================
