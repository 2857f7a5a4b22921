------------------------ MODULE GenerationPipeline ------------------------
(***************************************************************************)
(* The generation job pipeline: the console API that records a job and     *)
(* puts it on the BullMQ queue, the queue itself, and the worker that      *)
(* drives a job through the AI service and the governance services and     *)
(* writes every transition to the job's row in generation_jobs.            *)
(*                                                                         *)
(* Four parties act on a row without any lock between them: the API        *)
(* handlers, the execution BullMQ handed the job to (or two of them, once  *)
(* a lock has lapsed), the governance progress callbacks, which the        *)
(* pipeline starts and never awaits, and the cleanup worker, which deletes *)
(* rows by their age.                                                      *)
(***************************************************************************)
EXTENDS Naturals, FiniteSets

CONSTANTS Jobs,              \* the job rows that may ever be created
          Inputs,            \* distinct (type, project, params) a user submits
          Slots,             \* concurrent executions of the worker process
          None,              \* no value: SQL NULL, undefined
          Attempts,          \* the queue's `attempts` option
          DlqMaxRetries,     \* DLQ_MAX_RETRIES of the worker
          AiPostAttempts,    \* POSTs the AI client makes of one submission
          AiPollMaxAttempts, \* AI_POLL_MAX_ATTEMPTS
          C2paMaxRetries,    \* C2PA_MAX_RETRIES
          MaxStalledCount,   \* BullMQ's maxStalledCount
          MaxLate,           \* bound: outstanding progress callbacks per job
          Cancellable,       \* bound: the rows users try to cancel
          ApiMayCrash,       \* may the API process die?
          RowsMayExpire,     \* may rows become older than EXPIRED_JOB_AGE_HOURS?
          LocksMayLapse,     \* may a live execution fail to renew its lock?
          DatabaseMayFail    \* may a worker's database call be rejected?

ASSUME ConstantsAssumption ==
  /\ Jobs # {} /\ Slots # {}
  /\ Cancellable \subseteq Jobs
  /\ None \notin Jobs \cup Slots
  /\ {Attempts, DlqMaxRetries} \subseteq Nat \ {0}
  /\ {AiPostAttempts, AiPollMaxAttempts, C2paMaxRetries} \subseteq Nat \ {0}
  /\ {MaxStalledCount, MaxLate} \subseteq Nat
  /\ {ApiMayCrash, RowsMayExpire, LocksMayLapse, DatabaseMayFail} \subseteq BOOLEAN

\* An output is named by the job and the AI submission that produced it.
Outputs == Jobs \X Nat

ASSUME NoneIsNoData == None \notin Outputs \cup (Inputs \X Nat)

\* The statuses of a row, and "absent" and "deleted" where there is none.
Statuses ==
  {"absent", "queued", "running", "complete", "failed", "cancelled", "deleted"}

\* Request data: what the user asked for, and how many times an input_hash has
\* been folded into the params (Rehash).  The input hash of a job is
\* injective on it, so a hash is represented by the data it is the hash of.
Requests == Inputs \X Nat

Rehash(r) == <<r[1], r[2] + 1>>

Stages == {"content_moderation", "consent_validation", "c2pa_signing", "watermarking"}

\* The stages whose refusal makes runGovernancePipeline answer passed: false.
BlockingStages == Stages \ {"watermarking"}

\* runGovernancePipeline runs the stages in this order.
Before ==
  [g \in Stages |->
     CASE g = "content_moderation" -> {}
       [] g = "consent_validation" -> {"content_moderation"}
       [] g = "c2pa_signing" -> {"content_moderation", "consent_validation"}
       [] g = "watermarking" -> BlockingStages]

VARIABLES
  status, outputUrl, inputHash, inputParams,       \* columns of generation_jobs
  completedAt,                                     \* the rows with a completedAt
  request, cancelling,                             \* API requests in progress
  qstate, owner, payload, attemptsMade, stalls,    \* BullMQ's job hashes ...
  returned,                                        \* ... and their return values
  pc, job, out, attempt, tries,                    \* executions, by slot
  late, usePrisma,                                 \* the worker process
  submissions, cleared,                            \* AI and governance services
  deadLetters, bus                                 \* dead-letter queue, events

rowVars == <<status, outputUrl, inputHash, inputParams, completedAt>>
apiVars == <<request, cancelling>>
queueVars == <<qstate, owner, payload, attemptsMade, stalls, returned>>
slotVars == <<pc, job, out, attempt, tries>>
processVars == <<late, usePrisma>>
serviceVars == <<submissions, cleared>>
sinkVars == <<deadLetters, bus>>
vars == <<rowVars, apiVars, queueVars, slotVars, processVars, serviceVars, sinkVars>>

Events ==
  [type : {"generation.started", "generation.completed", "generation.failed",
           "governance.completed"},
   job : Jobs, output : Outputs \cup {None}]

Event(t, j, o) == [type |-> t, job |-> j, output |-> o]

Init ==
  /\ status = [j \in Jobs |-> "absent"]
  /\ outputUrl = [j \in Jobs |-> None]
  /\ inputHash = [j \in Jobs |-> None]
  /\ inputParams = [j \in Jobs |-> None]
  /\ completedAt = {}
  /\ request = [j \in Jobs |-> "none"]
  /\ cancelling = {}
  /\ qstate = [j \in Jobs |-> "none"]
  /\ owner = [j \in Jobs |-> None]
  /\ payload = [j \in Jobs |-> None]
  /\ attemptsMade = [j \in Jobs |-> 0]
  /\ stalls = [j \in Jobs |-> 0]
  /\ returned = [j \in Jobs |-> None]
  /\ pc = [s \in Slots |-> "idle"]
  /\ job = [s \in Slots |-> None]
  /\ out = [s \in Slots |-> None]
  /\ attempt = [s \in Slots |-> 0]
  /\ tries = [s \in Slots |-> 0]
  /\ late = [j \in Jobs |-> 0]
  /\ usePrisma = TRUE
  /\ submissions = [j \in Jobs |-> 0]
  /\ cleared = {}
  /\ deadLetters = [j \in Jobs |-> 0]
  /\ bus = {}

-----------------------------------------------------------------------------
(* The console API: routes/console/production.ts and lib/generationQueue.ts *)

\* Row j is created `queued` with the given request data and hash; the enqueue
\* is awaited next.
CreateRow(j, params, hash) ==
  /\ status[j] = "absent"
  /\ status' = [status EXCEPT ![j] = "queued"]
  /\ inputParams' = [inputParams EXCEPT ![j] = params]
  /\ inputHash' = [inputHash EXCEPT ![j] = hash]
  /\ payload' = [payload EXCEPT ![j] = params]
  /\ request' = [request EXCEPT ![j] = "enqueue"]
  /\ UNCHANGED <<outputUrl, completedAt, cancelling, qstate, owner, attemptsMade, stalls,
                 returned, slotVars, processVars, serviceVars, sinkVars>>

\* POST /jobs
SubmitJob(j, x) == CreateRow(j, <<x, 0>>, None)

\* POST /jobs/:id/retry: a new row k with the request data of row j as it
\* stands now, hash included; row j itself is left alone.
RetryJob(j, k) ==
  /\ status[j] \in {"failed", "cancelled"}
  /\ CreateRow(k, inputParams[j], inputHash[j])

\* Mutant of EnqueueGeneration: the row is created and the handler stops there.
EnqueueForgotten(j) ==
  /\ request[j] = "enqueue"
  /\ request' = [request EXCEPT ![j] = "accepted"]
  /\ UNCHANGED <<rowVars, cancelling, queueVars, slotVars, processVars,
                 serviceVars, sinkVars>>

\* queue.add() resolves: the caller gets its 201.
EnqueueGeneration(j) ==
  /\ request[j] = "enqueue"
  /\ request' = [request EXCEPT ![j] = "accepted"]
  /\ qstate' = [qstate EXCEPT ![j] = "wait"]
  /\ UNCHANGED <<rowVars, cancelling, owner, payload, attemptsMade, stalls, returned,
                 slotVars, processVars, serviceVars, sinkVars>>

\* queue.add() rejects: the handler says so on the row, unless that update is
\* rejected as well, which ends the request with nothing recorded.
EnqueueRejected(j) ==
  /\ request[j] = "enqueue"
  /\ \/ /\ request' = [request EXCEPT ![j] = "refused"]
        /\ status' = [status EXCEPT ![j] = "failed"]
        /\ completedAt' = completedAt \cup {j}
     \/ /\ request' = [request EXCEPT ![j] = "lost"]
        /\ UNCHANGED <<status, completedAt>>
  /\ UNCHANGED <<outputUrl, inputHash, inputParams, cancelling, queueVars,
                 slotVars, processVars, serviceVars, sinkVars>>

\* DELETE /jobs/:id reads the row and checks it ...
CancelCheck(j) ==
  /\ status[j] \notin {"absent", "deleted", "complete"}
  /\ j \in Cancellable \ cancelling
  /\ cancelling' = cancelling \cup {j}
  /\ UNCHANGED <<rowVars, request, queueVars, slotVars, processVars, serviceVars, sinkVars>>

\* ... and, in a second query with no condition on the status, cancels it, or
\* fails because the row is gone.  The BullMQ job is not touched.
CancelWrite(j) ==
  /\ j \in cancelling
  /\ cancelling' = cancelling \ {j}
  /\ status' = [status EXCEPT ![j] = IF @ = "deleted" THEN @ ELSE "cancelled"]
  /\ UNCHANGED <<outputUrl, inputHash, inputParams, completedAt, request, queueVars,
                 slotVars, processVars, serviceVars, sinkVars>>

\* The API process dies: what its handlers had still to do is never done.
ApiCrash ==
  /\ ApiMayCrash
  /\ request' = [j \in Jobs |-> IF request[j] = "enqueue" THEN "lost" ELSE request[j]]
  /\ cancelling' = {}
  /\ UNCHANGED <<rowVars, queueVars, slotVars, processVars, serviceVars, sinkVars>>

-----------------------------------------------------------------------------
(* The cleanup worker                                                       *)

\* cleanExpiredJobs deletes what has ended more than EXPIRED_JOB_AGE_HOURS ago.
\* A row without a completedAt is never old enough; of the others, those of D are.
CleanExpiredJobs(D) ==
  /\ RowsMayExpire
  /\ D # {}
  /\ \A j \in D : j \in completedAt /\ status[j] \in {"failed", "complete"}
  /\ status' = [j \in Jobs |-> IF j \in D THEN "deleted" ELSE status[j]]
  /\ outputUrl' = [j \in Jobs |-> IF j \in D THEN None ELSE outputUrl[j]]
  /\ inputHash' = [j \in Jobs |-> IF j \in D THEN None ELSE inputHash[j]]
  /\ inputParams' = [j \in Jobs |-> IF j \in D THEN None ELSE inputParams[j]]
  /\ completedAt' = completedAt \ D
  /\ UNCHANGED <<apiVars, queueVars, slotVars, processVars, serviceVars, sinkVars>>

-----------------------------------------------------------------------------
(* BullMQ and the database, as the worker sees them                         *)

\* Does an update that the worker makes now reach the row of j?
Reaches(j) == usePrisma /\ status[j] # "deleted"

\* withFallback: once a database call has been rejected, if only because its row
\* is gone, the worker writes to a map in its own memory, which nothing reads back.
SetStatus(j, v) ==
  /\ status' = IF Reaches(j) THEN [status EXCEPT ![j] = v] ELSE status
  /\ usePrisma' = Reaches(j)

\* publishEvent logs a failure and goes on: any of the events may be dropped.
Publish(events) == \E sent \in SUBSET events : bus' = bus \cup sent

\* Mutant of CachedRows: the lookup forgets the input hash.
AnyCompleteRow(j) == {k \in Jobs : status[k] = "complete" /\ outputUrl[k] # None}

\* The lookup of findCachedResult: a complete row with the same input hash
\* whose output is present.
CachedRows(j) ==
  {k \in Jobs : /\ status[k] = "complete"
                /\ inputHash[k] = payload[j]
                /\ outputUrl[k] # None}

Executing(s, j) == pc[s] # "idle" /\ job[s] = j

\* BullMQ hands j to a free slot, and processGeneration looks for a result to
\* reuse.  A failed lookup, or one that met a row without an output first,
\* counts as a miss.
StartJob(s, j) ==
  /\ pc[s] = "idle"
  /\ qstate[j] = "wait"
  /\ qstate' = [qstate EXCEPT ![j] = "active"]
  /\ owner' = [owner EXCEPT ![j] = s]
  /\ job' = [job EXCEPT ![s] = j]
  /\ attempt' = [attempt EXCEPT ![s] = attemptsMade[j]]
  /\ \/ \E k \in CachedRows(j) :
          /\ pc' = [pc EXCEPT ![s] = "reuse"]
          /\ out' = [out EXCEPT ![s] = outputUrl[k]]
     \/ /\ pc' = [pc EXCEPT ![s] = "validate_input"]
        /\ out' = out
  /\ UNCHANGED <<rowVars, apiVars, payload, attemptsMade, stalls, returned, tries,
                 processVars, serviceVars, sinkVars>>

\* The slot is free again; BullMQ has heard the outcome only from the
\* execution that still holds the job's lock.
Release(s) ==
  /\ pc' = [pc EXCEPT ![s] = "idle"]
  /\ job' = [job EXCEPT ![s] = None]
  /\ out' = [out EXCEPT ![s] = None]
  /\ attempt' = [attempt EXCEPT ![s] = 0]
  /\ tries' = [tries EXCEPT ![s] = 0]

HoldsLock(s) == qstate[job[s]] = "active" /\ owner[job[s]] = s

\* BullMQ keeps what processGeneration returns as the job's return value.
ReturnResult(s) ==
  /\ pc[s] = "return"
  /\ Release(s)
  /\ IF HoldsLock(s)
     THEN /\ qstate' = [qstate EXCEPT ![job[s]] = "completed"]
          /\ owner' = [owner EXCEPT ![job[s]] = None]
          /\ returned' = [returned EXCEPT ![job[s]] = out[s]]
     ELSE UNCHANGED <<qstate, owner, returned>>
  /\ UNCHANGED <<rowVars, apiVars, payload, attemptsMade, stalls,
                 processVars, serviceVars, sinkVars>>

\* Mutant of Rethrow: one attempt too many.
RethrowOnceMore(s) ==
  /\ pc[s] = "rethrow"
  /\ Release(s)
  /\ IF HoldsLock(s)
     THEN LET j == job[s] IN
          /\ attemptsMade' = [attemptsMade EXCEPT ![j] = @ + 1]
          /\ qstate' = [qstate EXCEPT
                          ![j] = IF attemptsMade[j] + 1 <= Attempts THEN "wait" ELSE "failed"]
          /\ owner' = [owner EXCEPT ![j] = None]
     ELSE UNCHANGED <<attemptsMade, qstate, owner>>
  /\ UNCHANGED <<rowVars, apiVars, payload, stalls, returned, processVars,
                 serviceVars, sinkVars>>

\* A thrown error uses up an attempt: the job waits for its backoff, or has failed.
Rethrow(s) ==
  /\ pc[s] = "rethrow"
  /\ Release(s)
  /\ IF HoldsLock(s)
     THEN LET j == job[s] IN
          /\ attemptsMade' = [attemptsMade EXCEPT ![j] = @ + 1]
          /\ qstate' = [qstate EXCEPT
                          ![j] = IF attemptsMade[j] + 1 < Attempts THEN "wait" ELSE "failed"]
          /\ owner' = [owner EXCEPT ![j] = None]
     ELSE UNCHANGED <<attemptsMade, qstate, owner>>
  /\ UNCHANGED <<rowVars, apiVars, payload, stalls, returned, processVars,
                 serviceVars, sinkVars>>

\* The lock of an active job has lapsed, because its process died or because a
\* live one could not renew it.  BullMQ lets the job run again MaxStalledCount
\* times and then fails it without running it, so no worker code sees that.
StalledCheck(j) ==
  /\ qstate[j] = "active"
  /\ LocksMayLapse \/ ~Executing(owner[j], j)
  /\ owner' = [owner EXCEPT ![j] = None]
  /\ \/ /\ stalls[j] < MaxStalledCount
        /\ stalls' = [stalls EXCEPT ![j] = @ + 1]
        /\ qstate' = [qstate EXCEPT ![j] = "wait"]
     \/ /\ stalls[j] = MaxStalledCount
        /\ qstate' = [qstate EXCEPT ![j] = "failed"]
        /\ UNCHANGED stalls
  /\ UNCHANGED <<rowVars, apiVars, payload, attemptsMade, returned, slotVars,
                 processVars, serviceVars, sinkVars>>

\* The worker process dies and comes back: every execution and every callback
\* that was under way is gone, and usePrisma has its initial value again.
WorkerCrash ==
  /\ pc' = [s \in Slots |-> "idle"]
  /\ job' = [s \in Slots |-> None]
  /\ out' = [s \in Slots |-> None]
  /\ attempt' = [s \in Slots |-> 0]
  /\ tries' = [s \in Slots |-> 0]
  /\ late' = [j \in Jobs |-> 0]
  /\ usePrisma' = TRUE
  /\ UNCHANGED <<rowVars, apiVars, queueVars, serviceVars, sinkVars>>

\* One rejected database call is enough, also one that the qc, export or
\* governance worker of the same process makes for a job that has no row.
DatabaseCallFails ==
  /\ DatabaseMayFail
  /\ usePrisma' = FALSE
  /\ UNCHANGED <<rowVars, apiVars, queueVars, slotVars, late, serviceVars, sinkVars>>

-----------------------------------------------------------------------------
(* processGeneration, one action per stretch between awaits that matter     *)

\* Execution s moves from one point of processGeneration to the next.
Advance(s, from, to) ==
  /\ pc[s] = from
  /\ pc' = [pc EXCEPT ![s] = to]

\* A deduplicated job: its row becomes complete, with no output and no completedAt
\* of its own.
ReuseResult(s) ==
  /\ Advance(s, "reuse", "return")
  /\ SetStatus(job[s], "complete")
  /\ Publish({Event("generation.completed", job[s], out[s])})
  /\ UNCHANGED <<outputUrl, inputHash, inputParams, completedAt, apiVars, queueVars, job,
                 out, attempt, tries, late, serviceVars, deadLetters>>

\* createJobRecord meets the row the API wrote: the update branch of its upsert
\* folds the input hash into the stored params.  (The create branch would need the
\* row to be deleted just after updateJobStatus has set it to running.)
CreateJobRecord(s) ==
  /\ Advance(s, "validate_input", "submit_to_ai")
  /\ SetStatus(job[s], "running")
  /\ Publish({Event("generation.started", job[s], None)})
  /\ inputParams' = IF Reaches(job[s])
                    THEN [inputParams EXCEPT ![job[s]] = Rehash(payload[job[s]])]
                    ELSE inputParams
  /\ UNCHANGED <<outputUrl, inputHash, completedAt, apiVars, queueVars, job, out,
                 attempt, tries, late, serviceVars, deadLetters>>

\* Mutant of Posts: the retries of a submission are counted without its first POST.
PostsOnceMore == 0 .. AiPostAttempts + 1

\* fetchWithRetry of the AI client POSTs a submission again when no usable answer
\* came back: the POSTs of one submission the service may have received.
Posts == 0 .. AiPostAttempts

\* Each POST the service received is a job there.
SubmitToAi(s) ==
  \E n \in Posts :
    LET j == job[s] IN
    /\ \/ /\ n > 0
          /\ Advance(s, "submit_to_ai", "ai_processing")
          /\ out' = [out EXCEPT ![s] = <<j, submissions[j] + n>>]
       \/ /\ Advance(s, "submit_to_ai", "catch")
          /\ out' = out
    /\ SetStatus(j, "running")
    /\ submissions' = [submissions EXCEPT ![j] = @ + n]
    /\ UNCHANGED <<outputUrl, inputHash, inputParams, completedAt, apiVars, queueVars,
                   job, attempt, tries, late, cleared, sinkVars>>

\* pollAiJobUntilDone: a poll that reports the AI job as still under way is repeated
\* after the interval, and the last one gives the AI job up ...
PollPending(s) ==
  /\ \/ /\ tries[s] + 1 < AiPollMaxAttempts
        /\ Advance(s, "ai_processing", "ai_processing")
        /\ tries' = [tries EXCEPT ![s] = @ + 1]
        /\ out' = out
     \/ /\ tries[s] + 1 = AiPollMaxAttempts
        /\ Advance(s, "ai_processing", "catch")
        /\ tries' = tries
        /\ out' = [out EXCEPT ![s] = None]
  /\ SetStatus(job[s], "running")
  /\ UNCHANGED <<outputUrl, inputHash, inputParams, completedAt, apiVars, queueVars,
                 job, attempt, late, serviceVars, sinkVars>>

\* ... and the one that reports it as complete ends the loop with status v on the
\* row; the loops to come count from 0 again.
PollEnds(s, to, v) ==
  /\ Advance(s, "ai_processing", to)
  /\ SetStatus(job[s], v)
  /\ tries' = [tries EXCEPT ![s] = 0]
  /\ UNCHANGED <<outputUrl, inputHash, inputParams, completedAt, apiVars, queueVars,
                 job, out, attempt, late, serviceVars, sinkVars>>

\* Mutants of PollComplete: a later attempt takes governance for done ...
GovernOnlyOnce(s) ==
  PollEnds(s, IF attempt[s] > 0 THEN "quality_check" ELSE "content_moderation", "running")

\* ... and the status of the AI job is copied to the row.
CopyAiStatus(s) == PollEnds(s, "content_moderation", "complete")

PollComplete(s) == PollEnds(s, "content_moderation", "running")

-----------------------------------------------------------------------------
(* runGovernancePipeline                                                    *)

\* The progress callback is an async function that the pipeline calls and does
\* not await: its row write is outstanding from here on.
EmitProgress(j) ==
  late' = [late EXCEPT ![j] = IF @ < MaxLate THEN @ + 1 ELSE @]

\* The service of stage g lets the output through: on to `to`.
Clear(s, g, to) ==
  /\ Advance(s, g, to)
  /\ out' = out
  /\ cleared' = cleared \cup {<<g, out[s]>>}

\* The service of stage g refuses it: no later step knows the output.
Refuse(s, g) ==
  /\ Advance(s, g, "blocked")
  /\ out' = [out EXCEPT ![s] = None]
  /\ UNCHANGED cleared

ModerateContent(s) ==
  /\ \/ Clear(s, "content_moderation", "consent_validation")
     \/ Refuse(s, "content_moderation")
  /\ SetStatus(job[s], "running")
  /\ EmitProgress(job[s])
  /\ UNCHANGED <<outputUrl, inputHash, inputParams, completedAt, apiVars, queueVars, job,
                 attempt, tries, submissions, sinkVars>>

ValidateConsent(s) ==
  /\ \/ Clear(s, "consent_validation", "c2pa_signing")
     \/ Refuse(s, "consent_validation")
  /\ EmitProgress(job[s])
  /\ UNCHANGED <<rowVars, apiVars, queueVars, job, attempt, tries, usePrisma,
                 submissions, sinkVars>>

\* Mutants of SignC2PA: an unsigned output goes on after the last attempt ...
SignOrSkip(s) ==
  /\ \/ Clear(s, "c2pa_signing", "watermarking") /\ UNCHANGED tries
     \/ /\ Advance(s, "c2pa_signing",
                   IF tries[s] + 1 < C2paMaxRetries THEN "c2pa_signing" ELSE "watermarking")
        /\ tries' = [tries EXCEPT ![s] = @ + 1]
        /\ UNCHANGED <<out, cleared>>
  /\ EmitProgress(job[s])
  /\ UNCHANGED <<rowVars, apiVars, queueVars, job, attempt, usePrisma,
                 submissions, sinkVars>>

\* ... and a failed attempt goes back to the consent, without being counted.
SignFromConsent(s) ==
  /\ \/ Clear(s, "c2pa_signing", "watermarking")
     \/ Advance(s, "c2pa_signing", "consent_validation") /\ UNCHANGED <<out, cleared>>
  /\ EmitProgress(job[s])
  /\ UNCHANGED <<rowVars, apiVars, queueVars, job, attempt, tries, usePrisma,
                 submissions, sinkVars>>

\* The signing loop: a failed attempt is repeated, the last one blocks.
SignC2PA(s) ==
  /\ \/ Clear(s, "c2pa_signing", "watermarking") /\ UNCHANGED tries
     \/ /\ tries[s] + 1 < C2paMaxRetries
        /\ Advance(s, "c2pa_signing", "c2pa_signing")
        /\ tries' = [tries EXCEPT ![s] = @ + 1]
        /\ UNCHANGED <<out, cleared>>
     \/ /\ tries[s] + 1 = C2paMaxRetries
        /\ Refuse(s, "c2pa_signing")
        /\ UNCHANGED tries
  /\ EmitProgress(job[s])
  /\ UNCHANGED <<rowVars, apiVars, queueVars, job, attempt, usePrisma,
                 submissions, sinkVars>>

\* A failure to watermark is flagged for review and does not block.
EmbedWatermark(s) ==
  /\ \/ Clear(s, "watermarking", "quality_check")
     \/ Advance(s, "watermarking", "quality_check") /\ UNCHANGED <<out, cleared>>
  /\ EmitProgress(job[s])
  /\ UNCHANGED <<rowVars, apiVars, queueVars, job, attempt, tries, usePrisma,
                 submissions, sinkVars>>

\* The row write of a progress callback lands, whatever became of the job since.
CallbackWrites(j) ==
  /\ late[j] > 0
  /\ late' = [late EXCEPT ![j] = @ - 1]
  /\ SetStatus(j, "running")
  /\ UNCHANGED <<outputUrl, inputHash, inputParams, completedAt, apiVars, queueVars,
                 slotVars, serviceVars, sinkVars>>

-----------------------------------------------------------------------------
(* The end of processGeneration                                             *)

\* The quality check draws its scores and refuses nothing.
MarkComplete(s) ==
  /\ Advance(s, "quality_check", "done")
  /\ SetStatus(job[s], "complete")
  /\ IF Reaches(job[s])
     THEN /\ outputUrl' = [outputUrl EXCEPT ![job[s]] = out[s]]
          /\ inputHash' = [inputHash EXCEPT ![job[s]] = payload[job[s]]]
          /\ completedAt' = completedAt \cup {job[s]}
     ELSE UNCHANGED <<outputUrl, inputHash, completedAt>>
  /\ UNCHANGED <<inputParams, apiVars, queueVars, job, out, attempt, tries,
                 late, serviceVars, sinkVars>>

AnnounceResult(s) ==
  /\ Advance(s, "done", "return")
  /\ SetStatus(job[s], "complete")
  /\ Publish({Event("governance.completed", job[s], out[s]),
              Event("generation.completed", job[s], out[s])})
  /\ UNCHANGED <<outputUrl, inputHash, inputParams, completedAt, apiVars, queueVars, job,
                 out, attempt, tries, late, serviceVars, deadLetters>>

\* Mutant of DeadLetter: off by one.
DeadLetterEarly(s) ==
  \/ /\ attempt[s] + 2 >= DlqMaxRetries
     /\ deadLetters' = [deadLetters EXCEPT ![job[s]] = @ + 1]
  \/ UNCHANGED deadLetters

\* After its last attempt the job goes to the dead-letter queue; if that cannot
\* be reached, the error is logged and nothing else happens.
DeadLetter(s) ==
  \/ /\ attempt[s] + 1 >= DlqMaxRetries
     /\ deadLetters' = [deadLetters EXCEPT ![job[s]] = @ + 1]
  \/ UNCHANGED deadLetters

\* markFailed of the row of j.
MarkFailed(j) ==
  /\ SetStatus(j, "failed")
  /\ completedAt' = IF Reaches(j) THEN completedAt \cup {j} ELSE completedAt

\* governanceResult.passed is false.
GovernanceBlocked(s) ==
  /\ Advance(s, "blocked", "rethrow")
  /\ MarkFailed(job[s])
  /\ Publish({Event("governance.completed", job[s], None),
              Event("generation.failed", job[s], None)})
  /\ DeadLetter(s)
  /\ UNCHANGED <<outputUrl, inputHash, inputParams, apiVars, queueVars, job, out,
                 attempt, tries, late, serviceVars>>

\* An await that rejects: the AI job failed or outlived its tier's time limit; a
\* governance service could not be reached; BullMQ could
\* not record the progress.
MayThrow ==
  {"reuse", "validate_input", "submit_to_ai", "ai_processing", "content_moderation",
   "consent_validation", "quality_check", "done"}

Throw(s) ==
  /\ pc[s] \in MayThrow
  /\ pc' = [pc EXCEPT ![s] = "catch"]
  /\ out' = [out EXCEPT ![s] = None]
  /\ IF pc[s] \in Stages THEN EmitProgress(job[s]) ELSE late' = late
  /\ UNCHANGED <<rowVars, apiVars, queueVars, job, attempt, tries,
                 usePrisma, serviceVars, sinkVars>>

\* Mutant of CatchError: the error is recorded and not thrown again.
CatchSwallowed(s) ==
  /\ Advance(s, "catch", "return")
  /\ MarkFailed(job[s])
  /\ DeadLetter(s)
  /\ UNCHANGED <<outputUrl, inputHash, inputParams, apiVars, queueVars, job, out,
                 attempt, tries, late, serviceVars, bus>>

\* Every other error: markFailed, without a generation.failed event.
CatchError(s) ==
  /\ Advance(s, "catch", "rethrow")
  /\ MarkFailed(job[s])
  /\ DeadLetter(s)
  /\ UNCHANGED <<outputUrl, inputHash, inputParams, apiVars, queueVars, job, out,
                 attempt, tries, late, serviceVars, bus>>

-----------------------------------------------------------------------------
Api ==
  \/ \E j \in Jobs : \/ \E x \in Inputs : SubmitJob(j, x)
                     \/ \E k \in Jobs : RetryJob(j, k)
                     \/ EnqueueGeneration(j)
                     \/ EnqueueRejected(j)
                     \/ CancelCheck(j)
                     \/ CancelWrite(j)
  \/ ApiCrash

Generate(s) == CreateJobRecord(s) \/ SubmitToAi(s) \/ PollPending(s) \/ PollComplete(s)

Govern(s) ==
  ModerateContent(s) \/ ValidateConsent(s) \/ SignC2PA(s) \/ EmbedWatermark(s)

Complete(s) == ReuseResult(s) \/ MarkComplete(s) \/ AnnounceResult(s) \/ ReturnResult(s)

Fail(s) == GovernanceBlocked(s) \/ Throw(s) \/ CatchError(s) \/ Rethrow(s)

\* The steps an execution takes by itself.
Process(s) == Generate(s) \/ Govern(s) \/ Complete(s) \/ Fail(s)

Next ==
  \/ Api
  \/ \E s \in Slots : Process(s) \/ \E j \in Jobs : StartJob(s, j)
  \/ \E j \in Jobs : CallbackWrites(j) \/ StalledCheck(j)
  \/ \E D \in SUBSET Jobs : CleanExpiredJobs(D)
  \/ WorkerCrash
  \/ DatabaseCallFails

Spec == Init /\ [][Next]_vars
=============================================================================
