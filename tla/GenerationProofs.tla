-------------------------- MODULE GenerationProofs --------------------------
(***************************************************************************)
(* Proofs that GenerationPipeline keeps its types, releases only governed  *)
(* outputs, reuses only results of the same request, implements            *)
(* DeliveryGate, and keeps the AI service's and the dead letter queue's    *)
(* share of a job within its attempts, for every number of jobs, inputs    *)
(* and slots and every setting of the bounds.                              *)
(*                                                                         *)
(* The invariants are proved in layers: Requested (what has been recorded  *)
(* about a row once anything else mentions it) and Governed (what the      *)
(* services have said of an output by the time an execution carries it to  *)
(* a given point) carry the type invariant and the gate; Matching (whose   *)
(* output a row, a return value, an execution or an event carries) carries *)
(* reuse, and with Governed what a complete row and a completed job stand  *)
(* for.  SubmissionsCovered and DeadLettersCovered count what a job has    *)
(* cost against how often the queue has handed it out, and ZombiesCovered  *)
(* its executions without a lock against its stalls.                       *)
(***************************************************************************)
EXTENDS GenerationProperties, FiniteSetTheorems, TLAPS

\* The points at which an execution holds an output.
Holding == Stages \cup {"reuse", "ai_processing", "quality_check", "done", "return"}

\* The stages an output has been through when an execution is at point p.
Passed(p) ==
  CASE p = "consent_validation" -> {"content_moderation"}
    [] p = "c2pa_signing" -> {"content_moderation", "consent_validation"}
    [] p \in {"reuse", "watermarking", "quality_check", "done", "return"} -> BlockingStages
    [] OTHER -> {}

\* Whatever the queue, a callback, a cancellation or an execution knows of was
\* requested, a requested row has its data, and the queue has attempts left for
\* every job it may still run.
RowsRequested ==
  \A j \in Jobs :
    /\ status[j] = "absent" <=> request[j] = "none"
    /\ request[j] # "none" => payload[j] \in Requests
    /\ status[j] \notin {"absent", "deleted"} => inputParams[j] \in Requests
    /\ request[j] # "accepted" => qstate[j] = "none"
    /\ qstate[j] = "none" => attemptsMade[j] = 0
    /\ qstate[j] \in {"wait", "active"} => attemptsMade[j] < Attempts
    /\ late[j] > 0 => request[j] = "accepted"
    /\ j \in cancelling => request[j] # "none"
    /\ request[j] \in {"none", "enqueue"} => status[j] # "deleted" /\ j \notin completedAt

SlotsRequested ==
  \A s \in Slots :
    /\ pc[s] # "idle" => job[s] \in Jobs /\ request[job[s]] = "accepted"
    /\ pc[s] \in Holding => out[s] \in Outputs

Requested == RowsRequested /\ SlotsRequested

\* An execution at a given point carries an output that has been through the
\* stages before that point, and so does a return value.
Governed ==
  /\ \A s \in Slots : \A g \in Passed(pc[s]) : <<g, out[s]>> \in cleared
  /\ \A j \in Jobs : returned[j] # None =>
       \A g \in BlockingStages : <<g, returned[j]>> \in cleared

\* The points at which an execution carries the output of its own submission.
OwnPoints == Stages \cup {"ai_processing", "quality_check", "done"}

\* Output o was made for the request data of job j, and both were requested.
MadeFor(o, j) ==
  /\ o \in Outputs
  /\ request[j] # "none" /\ request[o[1]] # "none"
  /\ payload[o[1]] = payload[j]

\* Outputs stay with the request data they were made for: in a row, in a return
\* value, in an execution and in an announcement.  A row whose output is recorded
\* carries the hash of its own data, whatever hash a retry gave it before.
RowsMatch ==
  \A j \in Jobs : outputUrl[j] # None =>
    outputUrl[j][1] = j /\ inputHash[j] = payload[j] /\ request[j] # "none"

ReturnsMatch == \A j \in Jobs : returned[j] # None => MadeFor(returned[j], j)

SlotsMatch ==
  \A s \in Slots :
    /\ pc[s] \in OwnPoints => out[s][1] = job[s]
    /\ pc[s] \in {"reuse", "return"} => MadeFor(out[s], job[s])

EventsMatch == \A e \in Completions : MadeFor(e.output, e.job)

Matching == RowsMatch /\ ReturnsMatch /\ SlotsMatch /\ EventsMatch

\* A complete row stands for a governed output that was made for its request.
CompleteBacked ==
  \A j \in Jobs : status[j] = "complete" => \E o \in GovernedOutputs : MadeFor(o, j)

LEMMA Bounds ==
  /\ Attempts \in Nat /\ Attempts > 0
  /\ C2paMaxRetries \in Nat /\ MaxStalledCount \in Nat /\ MaxLate \in Nat
  /\ AiPostAttempts \in Nat /\ AiPollMaxAttempts \in Nat
  /\ MaxTries \in Nat /\ C2paMaxRetries <= MaxTries /\ AiPollMaxAttempts <= MaxTries
  /\ None \notin Jobs /\ None \notin Slots /\ None \notin Outputs
  /\ None \notin Requests
BY ConstantsAssumption, NoneIsNoData DEF Requests, MaxTries

LEMMA TypeInit == Init => TypeOK /\ Requested
BY Bounds DEF Init, TypeOK, RowTypes, ApiTypes, QueueTypes, SlotTypes, ProcessTypes,
              ServiceTypes, SinkTypes, Requested, RowsRequested, SlotsRequested, Statuses, Points, Events, Holding, Stages

-----------------------------------------------------------------------------
LEMMA RowTypesStep ==
  ASSUME TypeOK, Requested, [Next]_vars
  PROVE  RowTypes'
<1> USE DEF rowVars
<1>0. RowTypes
  BY DEF TypeOK
<1>1. ASSUME NEW j \in Jobs, NEW params \in Requests, NEW hash \in Requests \cup {None},
             CreateRow(j, params, hash)
      PROVE  RowTypes'
  BY <1>0, <1>1 DEF CreateRow, RowTypes, Statuses
<1>2. ASSUME NEW j \in Jobs, NEW x \in Inputs, SubmitJob(j, x) PROVE RowTypes'
  BY <1>1, <1>2 DEF SubmitJob, Requests
<1>3. ASSUME NEW j \in Jobs, NEW k \in Jobs, RetryJob(j, k) PROVE RowTypes'
  BY <1>0, <1>1, <1>3 DEF RetryJob, RowTypes, Requested, RowsRequested
<1>4. ASSUME NEW j \in Jobs, NEW v \in Statuses, SetStatus(j, v),
             completedAt' \in {completedAt, completedAt \cup {j}},
             UNCHANGED <<outputUrl, inputHash, inputParams>>
      PROVE  RowTypes'
  BY <1>0, <1>4 DEF SetStatus, RowTypes
<1>5. ASSUME NEW s \in Slots,
             \/ SubmitToAi(s) \/ PollPending(s) \/ PollComplete(s) \/ ModerateContent(s)
             \/ ReuseResult(s) \/ AnnounceResult(s) \/ GovernanceBlocked(s) \/ CatchError(s)
      PROVE  RowTypes'
  <2>1. job[s] \in Jobs
    BY <1>5 DEF SubmitToAi, PollPending, PollComplete, PollEnds, ModerateContent, Clear,
                Refuse, ReuseResult, AnnounceResult, GovernanceBlocked, CatchError, Advance,
                Requested, SlotsRequested
  <2> QED BY <1>4, <1>5, <2>1
          DEF SubmitToAi, PollPending, PollComplete, PollEnds, ModerateContent, ReuseResult,
              AnnounceResult, GovernanceBlocked, CatchError, MarkFailed, Statuses
<1>6. ASSUME NEW j \in Jobs, CallbackWrites(j) PROVE RowTypes'
  BY <1>4, <1>6 DEF CallbackWrites, Statuses
<1>14. ASSUME NEW D \in SUBSET Jobs, CleanExpiredJobs(D) PROVE RowTypes'
  BY <1>0, <1>14 DEF CleanExpiredJobs, RowTypes, Statuses
<1>7. ASSUME NEW j \in Jobs, EnqueueRejected(j) \/ CancelWrite(j) PROVE RowTypes'
  BY <1>0, <1>7 DEF EnqueueRejected, CancelWrite, RowTypes, Statuses
<1>8. ASSUME NEW s \in Slots, CreateJobRecord(s) PROVE RowTypes'
  <2>1. Rehash(payload[job[s]]) \in Requests
    BY <1>8 DEF CreateJobRecord, Advance, Requested, RowsRequested, SlotsRequested, Requests, Rehash
  <2> QED BY <1>0, <1>8, <2>1 DEF CreateJobRecord, SetStatus, RowTypes, Statuses
<1>9. ASSUME NEW s \in Slots, MarkComplete(s) PROVE RowTypes'
  <2>1. out[s] \in Outputs /\ payload[job[s]] \in Requests
    BY <1>9 DEF MarkComplete, Advance, Requested, RowsRequested, SlotsRequested, Holding
  <2>2. job[s] \in Jobs
    BY <1>9 DEF MarkComplete, Advance, Requested, SlotsRequested
  <2> QED BY <1>0, <1>9, <2>1, <2>2 DEF MarkComplete, SetStatus, RowTypes, Statuses
<1>10. CASE UNCHANGED rowVars
  BY <1>0, <1>10 DEF RowTypes
<1>11. ASSUME NEW j \in Jobs,
              \/ EnqueueGeneration(j) \/ CancelCheck(j) \/ StalledCheck(j)
              \/ \E s \in Slots : StartJob(s, j)
       PROVE  UNCHANGED rowVars
  BY <1>11 DEF EnqueueGeneration, CancelCheck, StalledCheck, StartJob
<1>12. ASSUME NEW s \in Slots,
              \/ ValidateConsent(s) \/ SignC2PA(s) \/ EmbedWatermark(s)
              \/ ReturnResult(s) \/ Throw(s) \/ Rethrow(s)
       PROVE  UNCHANGED rowVars
  BY <1>12 DEF ValidateConsent, SignC2PA, EmbedWatermark, ReturnResult, Throw, Rethrow
<1>13. ASSUME ApiCrash \/ WorkerCrash \/ DatabaseCallFails \/ UNCHANGED vars
       PROVE  UNCHANGED rowVars
  BY <1>13 DEF ApiCrash, WorkerCrash, DatabaseCallFails, vars
<1> QED
  BY <1>2, <1>3, <1>5, <1>6, <1>7, <1>8, <1>9, <1>10, <1>11, <1>12, <1>13, <1>14
     DEF Next, Api, Process, Generate, Govern, Complete, Fail

LEMMA ApiTypesStep ==
  ASSUME TypeOK, [Next]_vars
  PROVE  ApiTypes'
<1> USE DEF apiVars
<1>0. ApiTypes
  BY DEF TypeOK
<1>1. ASSUME NEW j \in Jobs, NEW params, NEW hash, CreateRow(j, params, hash)
      PROVE  ApiTypes'
  BY <1>0, <1>1 DEF CreateRow, ApiTypes
<1>2. ASSUME NEW j \in Jobs,
             \/ EnqueueGeneration(j) \/ EnqueueRejected(j) \/ CancelCheck(j) \/ CancelWrite(j)
      PROVE  ApiTypes'
  BY <1>0, <1>2 DEF EnqueueGeneration, EnqueueRejected, CancelCheck, CancelWrite, ApiTypes
<1>3. CASE ApiCrash
  BY <1>0, <1>3 DEF ApiCrash, ApiTypes
<1>4. CASE UNCHANGED apiVars
  BY <1>0, <1>4 DEF ApiTypes
<1>5. ASSUME NEW s \in Slots, Process(s) PROVE UNCHANGED apiVars
  BY <1>5 DEF Process, Generate, Govern, Complete, Fail, CreateJobRecord, SubmitToAi,
              PollComplete, PollEnds, PollPending, ModerateContent, ValidateConsent, SignC2PA,
              EmbedWatermark, ReuseResult, MarkComplete, AnnounceResult, ReturnResult,
              GovernanceBlocked, Throw, CatchError, Rethrow
<1>6. ASSUME NEW j \in Jobs,
             \/ CallbackWrites(j) \/ StalledCheck(j) \/ \E s \in Slots : StartJob(s, j)
      PROVE  UNCHANGED apiVars
  BY <1>6 DEF CallbackWrites, StalledCheck, StartJob
<1>7. ASSUME \/ WorkerCrash \/ DatabaseCallFails \/ UNCHANGED vars
             \/ \E D \in SUBSET Jobs : CleanExpiredJobs(D)
      PROVE  UNCHANGED apiVars
  BY <1>7 DEF WorkerCrash, DatabaseCallFails, CleanExpiredJobs, vars
<1> QED
  BY <1>1, <1>2, <1>3, <1>4, <1>5, <1>6, <1>7 DEF Next, Api, SubmitJob, RetryJob

LEMMA QueueTypesStep ==
  ASSUME TypeOK, Requested, [Next]_vars
  PROVE  QueueTypes'
<1> USE DEF queueVars
<1>0. QueueTypes
  BY DEF TypeOK
<1>1. ASSUME NEW j \in Jobs, NEW params \in Requests, NEW hash, CreateRow(j, params, hash)
      PROVE  QueueTypes'
  BY <1>0, <1>1 DEF CreateRow, QueueTypes
<1>2. ASSUME NEW j \in Jobs, NEW x \in Inputs, SubmitJob(j, x) PROVE QueueTypes'
  BY <1>1, <1>2 DEF SubmitJob, Requests
<1>3. ASSUME NEW j \in Jobs, NEW k \in Jobs, RetryJob(j, k) PROVE QueueTypes'
  BY <1>1, <1>3 DEF RetryJob, Requested, RowsRequested
<1>4. ASSUME NEW j \in Jobs, EnqueueGeneration(j) \/ \E s \in Slots : StartJob(s, j)
      PROVE  QueueTypes'
  BY <1>0, <1>4 DEF EnqueueGeneration, StartJob, QueueTypes
<1>5. ASSUME NEW j \in Jobs, StalledCheck(j) PROVE QueueTypes'
  BY <1>0, <1>5, Bounds DEF StalledCheck, QueueTypes
<1>6. ASSUME NEW s \in Slots, ReturnResult(s) PROVE QueueTypes'
  <2>1. out[s] \in Outputs
    BY <1>6 DEF ReturnResult, Requested, SlotsRequested, Holding
  <2> QED BY <1>0, <1>6, <2>1 DEF ReturnResult, QueueTypes
<1>7. ASSUME NEW s \in Slots, Rethrow(s) PROVE QueueTypes'
  <2>1. CASE HoldsLock(s)
    <3>1. job[s] \in Jobs /\ attemptsMade[job[s]] < Attempts
      BY <1>7, <2>1 DEF Rethrow, HoldsLock, Requested, RowsRequested, SlotsRequested
    <3>2. attemptsMade[job[s]] + 1 \in 0 .. Attempts
      BY <1>0, <3>1, Bounds DEF QueueTypes
    <3> QED BY <1>0, <1>7, <2>1, <3>1, <3>2 DEF Rethrow, QueueTypes
  <2>2. CASE ~HoldsLock(s)
    BY <1>0, <1>7, <2>2 DEF Rethrow, QueueTypes
  <2> QED BY <2>1, <2>2
<1>8. CASE UNCHANGED queueVars
  BY <1>0, <1>8 DEF QueueTypes
<1>9. ASSUME NEW s \in Slots,
             \/ Generate(s) \/ Govern(s) \/ ReuseResult(s) \/ MarkComplete(s)
             \/ AnnounceResult(s) \/ GovernanceBlocked(s) \/ Throw(s) \/ CatchError(s)
      PROVE  UNCHANGED queueVars
  BY <1>9 DEF Generate, Govern, CreateJobRecord, SubmitToAi, PollComplete, PollEnds,
              PollPending,
              ModerateContent, ValidateConsent, SignC2PA, EmbedWatermark, ReuseResult,
              MarkComplete, AnnounceResult, GovernanceBlocked, Throw, CatchError
<1>10. ASSUME NEW j \in Jobs,
              \/ EnqueueRejected(j) \/ CancelCheck(j) \/ CancelWrite(j) \/ CallbackWrites(j)
       PROVE  UNCHANGED queueVars
  BY <1>10 DEF EnqueueRejected, CancelCheck, CancelWrite, CallbackWrites
<1>11. ASSUME \/ ApiCrash \/ WorkerCrash \/ DatabaseCallFails \/ UNCHANGED vars
              \/ \E D \in SUBSET Jobs : CleanExpiredJobs(D)
       PROVE  UNCHANGED queueVars
  BY <1>11 DEF ApiCrash, WorkerCrash, DatabaseCallFails, CleanExpiredJobs, vars
<1> QED
  BY <1>2, <1>3, <1>4, <1>5, <1>6, <1>7, <1>8, <1>9, <1>10, <1>11
     DEF Next, Api, Process, Complete, Fail

LEMMA SlotTypesStep ==
  ASSUME TypeOK, Requested, [Next]_vars
  PROVE  SlotTypes'
<1> USE DEF slotVars
<1>0. SlotTypes
  BY DEF TypeOK
<1>1. ASSUME NEW s, NEW p, NEW q \in Points, Advance(s, p, q),
             UNCHANGED <<job, out, attempt, tries>>
      PROVE  SlotTypes'
  BY <1>0, <1>1 DEF Advance, SlotTypes
<1>2. ASSUME NEW s \in Slots,
             \/ CreateJobRecord(s) \/ ReuseResult(s) \/ MarkComplete(s)
             \/ AnnounceResult(s) \/ GovernanceBlocked(s) \/ CatchError(s) \/ EmbedWatermark(s)
      PROVE  SlotTypes'
  BY <1>1, <1>2 DEF CreateJobRecord, ReuseResult, MarkComplete, AnnounceResult,
                    GovernanceBlocked, CatchError, EmbedWatermark, Clear, Points, Stages
<1>3. ASSUME NEW s, NEW g, Refuse(s, g), UNCHANGED <<job, attempt, tries>>
      PROVE  SlotTypes'
  BY <1>0, <1>3 DEF Refuse, Advance, SlotTypes, Points
<1>4. ASSUME NEW s \in Slots, ModerateContent(s) \/ ValidateConsent(s) PROVE SlotTypes'
  BY <1>1, <1>3, <1>4 DEF ModerateContent, ValidateConsent, Clear, Points, Stages
<1>5. ASSUME NEW s \in Slots, SignC2PA(s) PROVE SlotTypes'
  <2>1. CASE Advance(s, "c2pa_signing", "c2pa_signing") /\ tries[s] + 1 < C2paMaxRetries
             /\ tries' = [tries EXCEPT ![s] = @ + 1] /\ UNCHANGED <<job, out, attempt>>
    BY <1>0, <2>1, Bounds DEF Advance, SlotTypes, Points, Stages
  <2> QED BY <1>1, <1>3, <1>5, <2>1 DEF SignC2PA, Clear, Points, Stages
<1>6. ASSUME NEW s \in Slots, SubmitToAi(s) PROVE SlotTypes'
  <2>1. job[s] \in Jobs
    BY <1>6 DEF SubmitToAi, Advance, Requested, SlotsRequested
  <2>2. PICK n \in 0 .. AiPostAttempts :
          /\ \/ pc' = [pc EXCEPT ![s] = "ai_processing"]
                /\ out' = [out EXCEPT ![s] = <<job[s], submissions[job[s]] + n>>]
             \/ pc' = [pc EXCEPT ![s] = "catch"] /\ out' = out
          /\ UNCHANGED <<job, attempt, tries>>
    BY <1>6 DEF SubmitToAi, Posts, Advance
  <2>3. <<job[s], submissions[job[s]] + n>> \in Outputs
    BY <2>1, <2>2, Bounds DEF TypeOK, ServiceTypes, Outputs
  <2> QED BY <1>0, <2>2, <2>3 DEF SlotTypes, Points
<1>7. ASSUME NEW s \in Slots, NEW j \in Jobs, StartJob(s, j) PROVE SlotTypes'
  BY <1>0, <1>7 DEF StartJob, CachedRows, TypeOK, RowTypes, QueueTypes, SlotTypes, Points
<1>8. ASSUME NEW s \in Slots, Release(s) PROVE SlotTypes'
  BY <1>0, <1>8, Bounds DEF Release, SlotTypes, Points
<1>9. ASSUME NEW s \in Slots, ReturnResult(s) \/ Rethrow(s) PROVE SlotTypes'
  BY <1>8, <1>9 DEF ReturnResult, Rethrow
<1>10. ASSUME NEW s \in Slots, Throw(s) PROVE SlotTypes'
  BY <1>0, <1>10 DEF Throw, SlotTypes, Points
<1>11. CASE WorkerCrash
  BY <1>11, Bounds DEF WorkerCrash, SlotTypes, Points
<1>12. CASE UNCHANGED slotVars
  BY <1>0, <1>12 DEF SlotTypes
<1>13. ASSUME \/ Api \/ DatabaseCallFails \/ UNCHANGED vars
              \/ \E D \in SUBSET Jobs : CleanExpiredJobs(D)
       PROVE  UNCHANGED slotVars
  BY <1>13 DEF Api, SubmitJob, RetryJob, CreateRow, EnqueueGeneration, EnqueueRejected,
               CancelCheck, CancelWrite, ApiCrash, DatabaseCallFails, CleanExpiredJobs, vars
<1>14. ASSUME NEW j \in Jobs, CallbackWrites(j) \/ StalledCheck(j) PROVE UNCHANGED slotVars
  BY <1>14 DEF CallbackWrites, StalledCheck
<1>15. ASSUME NEW s \in Slots, PollPending(s) PROVE SlotTypes'
  <2>1. CASE /\ Advance(s, "ai_processing", "ai_processing")
             /\ tries[s] + 1 < AiPollMaxAttempts /\ tries' = [tries EXCEPT ![s] = @ + 1]
             /\ UNCHANGED <<job, out, attempt>>
    BY <1>0, <2>1, Bounds DEF Advance, SlotTypes, Points
  <2>2. CASE /\ Advance(s, "ai_processing", "catch") /\ out' = [out EXCEPT ![s] = None]
             /\ UNCHANGED <<job, attempt, tries>>
    BY <1>0, <2>2 DEF Advance, SlotTypes, Points
  <2> QED BY <1>15, <2>1, <2>2 DEF PollPending
<1>16. ASSUME NEW s \in Slots, PollComplete(s) PROVE SlotTypes'
  BY <1>0, <1>16, Bounds DEF PollComplete, PollEnds, Advance, SlotTypes, Points, Stages
<1> QED
  BY <1>2, <1>4, <1>5, <1>6, <1>7, <1>9, <1>10, <1>11, <1>12, <1>13, <1>14, <1>15, <1>16
     DEF Next, Process, Generate, Govern, Complete, Fail

LEMMA SetStatusTypes ==
  ASSUME NEW j, NEW v, SetStatus(j, v)
  PROVE  usePrisma' \in BOOLEAN
BY DEF SetStatus, Reaches

LEMMA ProcessTypesStep ==
  ASSUME TypeOK, Requested, [Next]_vars
  PROVE  ProcessTypes'
<1> USE DEF processVars
<1>0. /\ late \in [Jobs -> 0 .. MaxLate] /\ usePrisma \in BOOLEAN
      /\ \A s \in Slots : pc[s] # "idle" => job[s] \in Jobs
  BY DEF TypeOK, ProcessTypes, Requested, SlotsRequested
<1>1. ASSUME NEW j \in Jobs, EmitProgress(j), usePrisma' \in BOOLEAN PROVE ProcessTypes'
  <2>1. (IF late[j] < MaxLate THEN late[j] + 1 ELSE late[j]) \in 0 .. MaxLate
    BY <1>0, Bounds
  <2>2. late' \in [Jobs -> 0 .. MaxLate]
    BY <1>0, <1>1, <2>1 DEF EmitProgress
  <2> QED BY <1>0, <1>1, <2>2 DEF ProcessTypes
<1>2. ASSUME NEW s \in Slots,
             ModerateContent(s) \/ ValidateConsent(s) \/ SignC2PA(s) \/ EmbedWatermark(s)
      PROVE  ProcessTypes'
  <2>1. job[s] \in Jobs /\ EmitProgress(job[s])
    BY <1>0, <1>2 DEF ModerateContent, ValidateConsent, SignC2PA, EmbedWatermark, Clear,
                      Refuse, Advance
  <2>2. usePrisma' = usePrisma \/ SetStatus(job[s], "running")
    BY <1>2 DEF ModerateContent, ValidateConsent, SignC2PA, EmbedWatermark
  <2>3. usePrisma' \in BOOLEAN
    BY <1>0, <2>2, SetStatusTypes
  <2> QED BY <1>1, <2>1, <2>3
<1>3. ASSUME NEW s \in Slots, Throw(s) PROVE ProcessTypes'
  <2>1. job[s] \in Jobs
    BY <1>0, <1>3 DEF Throw, MayThrow
  <2> QED BY <1>0, <1>1, <1>3, <2>1 DEF Throw, ProcessTypes
<1>4. ASSUME NEW j \in Jobs, CallbackWrites(j) PROVE ProcessTypes'
  <2>1. late[j] - 1 \in 0 .. MaxLate
    BY <1>0, <1>4, Bounds DEF CallbackWrites
  <2>2. late' \in [Jobs -> 0 .. MaxLate]
    BY <1>0, <1>4, <2>1 DEF CallbackWrites
  <2>3. usePrisma' \in BOOLEAN
    BY <1>4, SetStatusTypes DEF CallbackWrites
  <2> QED BY <2>2, <2>3 DEF ProcessTypes
<1>5. ASSUME WorkerCrash \/ DatabaseCallFails PROVE ProcessTypes'
  <2>1. late' \in [Jobs -> 0 .. MaxLate]
    BY <1>0, <1>5, Bounds DEF WorkerCrash, DatabaseCallFails
  <2> QED BY <1>5, <2>1 DEF WorkerCrash, DatabaseCallFails, ProcessTypes
<1>6. CASE UNCHANGED processVars
  BY <1>0, <1>6 DEF ProcessTypes
<1>7. ASSUME NEW s \in Slots,
             \/ Generate(s) \/ ReuseResult(s) \/ MarkComplete(s) \/ AnnounceResult(s)
             \/ GovernanceBlocked(s) \/ CatchError(s)
      PROVE  ProcessTypes'
  <2>1. late' = late /\ \E v : SetStatus(job[s], v)
    BY <1>7 DEF Generate, CreateJobRecord, SubmitToAi, PollComplete, PollEnds, PollPending,
                ReuseResult, MarkComplete, AnnounceResult, GovernanceBlocked, CatchError,
                MarkFailed
  <2>2. usePrisma' \in BOOLEAN
    BY <2>1, SetStatusTypes
  <2> QED BY <1>0, <2>1, <2>2 DEF ProcessTypes
<1>8. ASSUME \/ \E s \in Slots : ReturnResult(s) \/ Rethrow(s)
             \/ \E j \in Jobs : StalledCheck(j) \/ \E s \in Slots : StartJob(s, j)
      PROVE  UNCHANGED processVars
  BY <1>8 DEF ReturnResult, Rethrow, StalledCheck, StartJob
<1>9. ASSUME Api \/ UNCHANGED vars \/ \E D \in SUBSET Jobs : CleanExpiredJobs(D)
      PROVE  UNCHANGED processVars
  BY <1>9 DEF Api, SubmitJob, RetryJob, CreateRow, EnqueueGeneration, EnqueueRejected,
              CancelCheck, CancelWrite, ApiCrash, CleanExpiredJobs, vars
<1> QED
  BY <1>2, <1>3, <1>4, <1>5, <1>6, <1>7, <1>8, <1>9
     DEF Next, Process, Govern, Complete, Fail

LEMMA ServiceTypesStep ==
  ASSUME TypeOK, Requested, [Next]_vars
  PROVE  ServiceTypes'
<1> USE DEF serviceVars
<1>0. ServiceTypes
  BY DEF TypeOK
<1>1. ASSUME NEW s \in Slots, SubmitToAi(s) PROVE ServiceTypes'
  <2>1. PICK n \in 0 .. AiPostAttempts :
          submissions' = [submissions EXCEPT ![job[s]] = @ + n] /\ cleared' = cleared
    BY <1>1 DEF SubmitToAi, Posts
  <2>2. \A j \in Jobs : submissions[j] + n \in Nat
    BY <1>0, <2>1, Bounds DEF ServiceTypes
  <2> QED BY <1>0, <2>1, <2>2 DEF ServiceTypes
<1>2. ASSUME NEW s \in Slots, NEW g \in Stages, NEW to, Clear(s, g, to),
             UNCHANGED submissions
      PROVE  ServiceTypes'
  <2>1. out[s] \in Outputs
    BY <1>2 DEF Clear, Advance, Requested, SlotsRequested, Holding
  <2> QED BY <1>0, <1>2, <2>1 DEF Clear, ServiceTypes
<1>3. CASE UNCHANGED serviceVars
  BY <1>0, <1>3 DEF ServiceTypes
<1>4. ASSUME NEW s \in Slots, ModerateContent(s) \/ ValidateConsent(s) PROVE ServiceTypes'
  BY <1>2, <1>3, <1>4 DEF ModerateContent, ValidateConsent, Refuse, Stages
<1>5. ASSUME NEW s \in Slots, SignC2PA(s) \/ EmbedWatermark(s) PROVE ServiceTypes'
  BY <1>2, <1>3, <1>5 DEF SignC2PA, EmbedWatermark, Refuse, Stages
<1>6. ASSUME NEW s \in Slots,
             \/ CreateJobRecord(s) \/ PollComplete(s) \/ PollPending(s) \/ Complete(s)
             \/ Fail(s)
      PROVE  UNCHANGED serviceVars
  BY <1>6 DEF CreateJobRecord, PollComplete, PollEnds, PollPending, Complete, Fail, ReuseResult,
              MarkComplete, AnnounceResult, ReturnResult, GovernanceBlocked, Throw,
              CatchError, Rethrow
<1>7. ASSUME NEW j \in Jobs,
             \/ CallbackWrites(j) \/ StalledCheck(j) \/ \E s \in Slots : StartJob(s, j)
      PROVE  UNCHANGED serviceVars
  BY <1>7 DEF CallbackWrites, StalledCheck, StartJob
<1>8. ASSUME \/ Api \/ WorkerCrash \/ DatabaseCallFails \/ UNCHANGED vars
             \/ \E D \in SUBSET Jobs : CleanExpiredJobs(D)
      PROVE  UNCHANGED serviceVars
  BY <1>8 DEF CleanExpiredJobs, Api, SubmitJob, RetryJob, CreateRow, EnqueueGeneration, EnqueueRejected,
              CancelCheck, CancelWrite, ApiCrash, WorkerCrash, DatabaseCallFails, vars
<1> QED
  BY <1>1, <1>3, <1>4, <1>5, <1>6, <1>7, <1>8 DEF Next, Process, Generate, Govern

LEMMA SinkTypesStep ==
  ASSUME TypeOK, Requested, [Next]_vars
  PROVE  SinkTypes'
<1> USE DEF sinkVars
<1>0. /\ SinkTypes
      /\ \A s \in Slots : pc[s] # "idle" => job[s] \in Jobs
  BY DEF TypeOK, Requested, SlotsRequested
<1>2. ASSUME NEW s \in Slots, CreateJobRecord(s) PROVE SinkTypes'
  BY <1>0, <1>2 DEF CreateJobRecord, Publish, Advance, Event, Events, SinkTypes
<1>3. ASSUME NEW s \in Slots, ReuseResult(s) \/ AnnounceResult(s) PROVE SinkTypes'
  <2>1. job[s] \in Jobs /\ out[s] \in Outputs
    BY <1>0, <1>3 DEF ReuseResult, AnnounceResult, Advance, Requested, SlotsRequested, Holding
  <2> QED BY <1>0, <1>3, <2>1
          DEF ReuseResult, AnnounceResult, Publish, Event, Events, SinkTypes
<1>4. ASSUME NEW s \in Slots, DeadLetter(s) PROVE deadLetters' \in [Jobs -> Nat]
  BY <1>0, <1>4 DEF DeadLetter, SinkTypes
<1>5. ASSUME NEW s \in Slots, GovernanceBlocked(s) PROVE SinkTypes'
  BY <1>0, <1>4, <1>5 DEF GovernanceBlocked, Publish, Advance, Event, Events, SinkTypes
<1>6. ASSUME NEW s \in Slots, CatchError(s) PROVE SinkTypes'
  BY <1>0, <1>4, <1>6 DEF CatchError, SinkTypes
<1>7. CASE UNCHANGED sinkVars
  BY <1>0, <1>7 DEF SinkTypes
<1>8. ASSUME NEW s \in Slots,
             \/ SubmitToAi(s) \/ PollComplete(s) \/ PollPending(s) \/ Govern(s)
             \/ MarkComplete(s) \/ ReturnResult(s) \/ Throw(s) \/ Rethrow(s)
      PROVE  UNCHANGED sinkVars
  BY <1>8 DEF SubmitToAi, PollComplete, PollEnds, PollPending, Govern, ModerateContent,
              ValidateConsent, SignC2PA, EmbedWatermark, MarkComplete, ReturnResult, Throw,
              Rethrow
<1>9. ASSUME NEW j \in Jobs,
             \/ CallbackWrites(j) \/ StalledCheck(j) \/ \E s \in Slots : StartJob(s, j)
      PROVE  UNCHANGED sinkVars
  BY <1>9 DEF CallbackWrites, StalledCheck, StartJob
<1>10. ASSUME \/ Api \/ WorkerCrash \/ DatabaseCallFails \/ UNCHANGED vars
              \/ \E D \in SUBSET Jobs : CleanExpiredJobs(D)
       PROVE  UNCHANGED sinkVars
  BY <1>10 DEF CleanExpiredJobs, Api, SubmitJob, RetryJob, CreateRow, EnqueueGeneration, EnqueueRejected,
               CancelCheck, CancelWrite, ApiCrash, WorkerCrash, DatabaseCallFails, vars
<1> QED
  BY <1>2, <1>3, <1>5, <1>6, <1>7, <1>8, <1>9, <1>10
     DEF Next, Process, Generate, Complete, Fail

LEMMA TypeStep ==
  ASSUME TypeOK, Requested, [Next]_vars
  PROVE  TypeOK'
BY RowTypesStep, ApiTypesStep, QueueTypesStep, SlotTypesStep, ProcessTypesStep,
   ServiceTypesStep, SinkTypesStep DEF TypeOK

LEMMA RowsRequestedStep ==
  ASSUME TypeOK, Requested, [Next]_vars
  PROVE  RowsRequested'
<1> USE DEF rowVars, apiVars, queueVars, processVars
<1>0. /\ RowTypes /\ ApiTypes /\ QueueTypes /\ late \in [Jobs -> 0 .. MaxLate]
      /\ RowsRequested
      /\ \A s \in Slots : pc[s] # "idle" => job[s] \in Jobs /\ request[job[s]] = "accepted"
  BY DEF TypeOK, ProcessTypes, Requested, SlotsRequested
<1>1. ASSUME NEW j \in Jobs, NEW params \in Requests, NEW hash, CreateRow(j, params, hash)
      PROVE  RowsRequested'
  BY <1>0, <1>1, Bounds DEF CreateRow, RowsRequested, RowTypes, ApiTypes, QueueTypes
<1>2. ASSUME NEW j \in Jobs, NEW x \in Inputs, SubmitJob(j, x) PROVE RowsRequested'
  BY <1>1, <1>2 DEF SubmitJob, Requests
<1>3. ASSUME NEW j \in Jobs, NEW k \in Jobs, RetryJob(j, k) PROVE RowsRequested'
  BY <1>0, <1>1, <1>3 DEF RetryJob, RowsRequested
<1>4. ASSUME NEW j \in Jobs, EnqueueGeneration(j) PROVE RowsRequested'
  BY <1>0, <1>4, Bounds DEF EnqueueGeneration, RowsRequested, ApiTypes, QueueTypes
<1>5. ASSUME NEW j \in Jobs, EnqueueRejected(j) \/ CancelCheck(j) \/ CancelWrite(j)
      PROVE  RowsRequested'
  <2>1. /\ UNCHANGED <<inputParams, queueVars, processVars>>
        /\ request'[j] # "accepted" \/ request' = request
        /\ request[j] # "none" /\ status[j] # "absent"
        /\ \A i \in Jobs : request'[i] = "none" <=> request[i] = "none"
    BY <1>0, <1>5 DEF EnqueueRejected, CancelCheck, CancelWrite, RowsRequested, ApiTypes
  <2>2. \A i \in Jobs : status'[i] = "absent" <=> status[i] = "absent"
    BY <1>0, <1>5, <2>1 DEF EnqueueRejected, CancelCheck, CancelWrite, RowTypes
  <2>3. \A i \in Jobs : status'[i] \notin {"absent", "deleted"}
                          => status[i] \notin {"absent", "deleted"}
    BY <1>0, <1>5, <2>1 DEF EnqueueRejected, CancelCheck, CancelWrite, RowTypes, RowsRequested
  <2>4. \A i \in Jobs : /\ request'[i] = "accepted" <=> request[i] = "accepted"
                        /\ request'[i] = "enqueue" => request[i] = "enqueue"
                        /\ request'[i] \in {"none", "enqueue"} /\ i \in completedAt' => i \in completedAt
                        /\ status'[i] = "deleted" => status[i] = "deleted"
    BY <1>0, <1>5 DEF EnqueueRejected, CancelCheck, CancelWrite, ApiTypes, RowTypes
  <2>5. \A i \in Jobs : i \in cancelling' => request[i] # "none"
    BY <1>0, <1>5, <2>1 DEF EnqueueRejected, CancelCheck, CancelWrite, RowsRequested
  <2> QED BY <1>0, <2>1, <2>2, <2>3, <2>4, <2>5 DEF RowsRequested
<1>14. ASSUME NEW D \in SUBSET Jobs, CleanExpiredJobs(D) PROVE RowsRequested'
  BY <1>0, <1>14 DEF CleanExpiredJobs, RowsRequested, RowTypes
<1>6. CASE ApiCrash
  BY <1>0, <1>6 DEF ApiCrash, RowsRequested, ApiTypes
\* What an execution or a callback does to the row of a requested job.
<1>7. ASSUME NEW k \in Jobs, request[k] = "accepted",
             NEW v \in Statuses \ {"absent", "deleted"}, SetStatus(k, v) \/ status' = status,
             inputParams' = inputParams \/ inputParams' = [inputParams EXCEPT ![k] = Rehash(payload[k])],
             completedAt' \in {completedAt, completedAt \cup {k}},
             \A j \in Jobs : late'[j] > 0 => late[j] > 0 \/ j = k,
             UNCHANGED <<apiVars, queueVars>>
      PROVE  RowsRequested'
  <2>1. \A j \in Jobs : /\ status'[j] = "absent" <=> status[j] = "absent"
                        /\ status'[j] = "deleted" <=> status[j] = "deleted"
    <3>1. status[k] # "absent"
      BY <1>0, <1>7 DEF RowsRequested
    <3>2. CASE status' = status
      BY <3>2
    <3>3. CASE Reaches(k) /\ status' = [status EXCEPT ![k] = v]
      BY <1>0, <1>7, <3>1, <3>3 DEF Reaches, RowTypes
    <3> QED BY <1>7, <3>2, <3>3 DEF SetStatus
  <2>2. Rehash(payload[k]) \in Requests
    BY <1>0, <1>7 DEF RowsRequested, Rehash, Requests
  <2>3. ASSUME NEW j \in Jobs, status'[j] \notin {"absent", "deleted"}
        PROVE  inputParams'[j] \in Requests
    <3>1. inputParams[j] \in Requests
      BY <1>0, <2>1, <2>3 DEF RowsRequested
    <3> QED BY <1>0, <1>7, <2>2, <3>1 DEF RowTypes
  <2>4. ASSUME NEW j \in Jobs, request'[j] \in {"none", "enqueue"}
        PROVE  status'[j] # "deleted" /\ j \notin completedAt'
    BY <1>0, <1>7, <2>1, <2>4 DEF RowsRequested
  <2>5. \A j \in Jobs : late'[j] > 0 => request'[j] = "accepted"
    BY <1>0, <1>7 DEF RowsRequested
  <2> QED BY <1>0, <1>7, <2>1, <2>3, <2>4, <2>5 DEF RowsRequested
<1>8. ASSUME NEW s \in Slots,
             \/ Generate(s) \/ ReuseResult(s) \/ MarkComplete(s)
             \/ AnnounceResult(s) \/ GovernanceBlocked(s) \/ CatchError(s)
      PROVE  RowsRequested'
  <2>1. job[s] \in Jobs /\ request[job[s]] = "accepted"
    BY <1>0, <1>8 DEF Generate, CreateJobRecord, SubmitToAi, PollComplete, PollEnds,
                      PollPending, ReuseResult, MarkComplete, AnnounceResult,
                      GovernanceBlocked, CatchError, Advance
  <2> QED BY <1>7, <1>8, <2>1
          DEF Generate, CreateJobRecord, SubmitToAi, PollComplete, PollEnds, PollPending,
              ReuseResult, MarkComplete, AnnounceResult, GovernanceBlocked, CatchError,
              MarkFailed, Statuses
<1>9. ASSUME NEW s \in Slots, Govern(s) \/ Throw(s) PROVE RowsRequested'
  <2>1. job[s] \in Jobs /\ request[job[s]] = "accepted"
    BY <1>0, <1>9 DEF Govern, ModerateContent, ValidateConsent, SignC2PA, EmbedWatermark,
                      Clear, Refuse, Advance, Throw, MayThrow
  <2>2. ASSUME EmitProgress(job[s]) PROVE \A j \in Jobs : late'[j] > 0 => late[j] > 0 \/ j = job[s]
    BY <1>0, <2>1, <2>2 DEF EmitProgress
  <2>3. /\ SetStatus(job[s], "running") \/ status' = status
        /\ EmitProgress(job[s]) \/ late' = late
        /\ UNCHANGED <<inputParams, completedAt, apiVars, queueVars>>
    BY <1>9 DEF Govern, ModerateContent, ValidateConsent, SignC2PA, EmbedWatermark, Throw
  <2> QED BY <1>7, <2>1, <2>2, <2>3 DEF Statuses
<1>10. ASSUME NEW j \in Jobs, CallbackWrites(j) PROVE RowsRequested'
  <2>1. \A i \in Jobs : late'[i] > 0 => late[i] > 0
    BY <1>0, <1>10, Bounds DEF CallbackWrites
  <2>2. request[j] = "accepted"
    BY <1>0, <1>10 DEF CallbackWrites, RowsRequested
  <2> QED BY <1>7, <1>10, <2>1, <2>2 DEF CallbackWrites, Statuses
<1>11. ASSUME NEW j \in Jobs, StalledCheck(j) \/ \E s \in Slots : StartJob(s, j)
       PROVE  RowsRequested'
  BY <1>0, <1>11 DEF StalledCheck, StartJob, RowsRequested, QueueTypes
<1>12. ASSUME NEW s \in Slots, ReturnResult(s) \/ Rethrow(s) PROVE RowsRequested'
  <2>1. UNCHANGED <<rowVars, apiVars, payload, processVars>>
    BY <1>12 DEF ReturnResult, Rethrow
  <2>2. CASE HoldsLock(s)
    <3>1. job[s] \in Jobs /\ qstate[job[s]] = "active"
      BY <1>0, <1>12, <2>2 DEF ReturnResult, Rethrow, HoldsLock
    <3>2. CASE ReturnResult(s)
      BY <1>0, <2>1, <2>2, <3>1, <3>2 DEF ReturnResult, RowsRequested, QueueTypes
    <3>3. CASE Rethrow(s)
      BY <1>0, <2>1, <2>2, <3>1, <3>3, Bounds DEF Rethrow, RowsRequested, QueueTypes
    <3> QED BY <1>12, <3>2, <3>3
  <2>3. CASE ~HoldsLock(s)
    BY <1>0, <1>12, <2>1, <2>3 DEF ReturnResult, Rethrow, RowsRequested
  <2> QED BY <2>2, <2>3
<1>13. ASSUME WorkerCrash \/ DatabaseCallFails \/ UNCHANGED vars PROVE RowsRequested'
  BY <1>0, <1>13 DEF WorkerCrash, DatabaseCallFails, vars, RowsRequested
<1> QED
  BY <1>2, <1>3, <1>4, <1>5, <1>6, <1>8, <1>9, <1>10, <1>11, <1>12, <1>13, <1>14
     DEF Next, Api, Process, Complete, Fail

\* A job stays requested, with the data it was requested with.
LEMMA RequestsStay ==
  ASSUME TypeOK, Requested, [Next]_vars, NEW i \in Jobs, request[i] # "none"
  PROVE  /\ request'[i] # "none" /\ payload'[i] = payload[i]
         /\ request[i] = "accepted" => request'[i] = "accepted"
<1> DEFINE Stays == /\ request'[i] # "none" /\ payload'[i] = payload[i]
                    /\ request[i] = "accepted" => request'[i] = "accepted"
<1> USE DEF apiVars, queueVars
<1>0. RowsRequested /\ ApiTypes /\ QueueTypes
  BY DEF TypeOK, Requested
<1>1. ASSUME NEW j \in Jobs, NEW params, NEW hash, CreateRow(j, params, hash) PROVE Stays
  BY <1>0, <1>1 DEF CreateRow, RowsRequested, ApiTypes, QueueTypes
<1>2. ASSUME NEW j \in Jobs,
             EnqueueGeneration(j) \/ EnqueueRejected(j) \/ CancelCheck(j) \/ CancelWrite(j)
      PROVE  Stays
  BY <1>0, <1>2 DEF EnqueueGeneration, EnqueueRejected, CancelCheck, CancelWrite, ApiTypes
<1>3. ASSUME ApiCrash PROVE Stays
  BY <1>3 DEF ApiCrash
<1>4. ASSUME NEW s \in Slots, Process(s) PROVE UNCHANGED <<request, payload>>
  BY <1>4 DEF Process, Generate, Govern, Complete, Fail, CreateJobRecord, SubmitToAi,
              PollComplete, PollEnds, PollPending, ModerateContent, ValidateConsent, SignC2PA,
              EmbedWatermark, ReuseResult, MarkComplete, AnnounceResult, ReturnResult,
              GovernanceBlocked, Throw, CatchError, Rethrow
<1>5. ASSUME NEW j \in Jobs,
             \/ CallbackWrites(j) \/ StalledCheck(j) \/ \E s \in Slots : StartJob(s, j)
      PROVE  UNCHANGED <<request, payload>>
  BY <1>5 DEF CallbackWrites, StalledCheck, StartJob
<1>6. ASSUME \/ WorkerCrash \/ DatabaseCallFails \/ UNCHANGED vars
             \/ \E D \in SUBSET Jobs : CleanExpiredJobs(D)
      PROVE  UNCHANGED <<request, payload>>
  BY <1>6 DEF WorkerCrash, DatabaseCallFails, CleanExpiredJobs, vars
<1> QED BY <1>1, <1>2, <1>3, <1>4, <1>5, <1>6 DEF Next, Api, SubmitJob, RetryJob

LEMMA SlotsRequestedStep ==
  ASSUME TypeOK, Requested, [Next]_vars
  PROVE  SlotsRequested'
<1> USE DEF slotVars
<1>0. SlotTypes /\ SlotsRequested /\ RowsRequested
  BY DEF TypeOK, Requested
<1>1. \A j \in Jobs : request[j] = "accepted" => request'[j] = "accepted"
  BY RequestsStay
<1>2. ASSUME NEW s \in Slots, NEW p \in Points \ {"idle"}, NEW q \in Points,
             Advance(s, p, q), job' = job,
             \/ q \notin Holding
             \/ p \in Holding /\ out' = out
             \/ \E o \in Outputs : out' = [out EXCEPT ![s] = o],
             \A r \in Slots \ {s} : out'[r] = out[r]
      PROVE  SlotsRequested'
  BY <1>0, <1>1, <1>2 DEF Advance, SlotTypes, SlotsRequested
<1>3. ASSUME NEW s \in Slots,
             \/ CreateJobRecord(s) \/ PollComplete(s) \/ ReuseResult(s) \/ MarkComplete(s)
             \/ AnnounceResult(s) \/ GovernanceBlocked(s) \/ CatchError(s) \/ EmbedWatermark(s)
      PROVE  SlotsRequested'
  BY <1>2, <1>3 DEF CreateJobRecord, PollComplete, PollEnds, ReuseResult, MarkComplete, AnnounceResult,
                    GovernanceBlocked, CatchError, EmbedWatermark, Clear, Points, Stages, Holding
<1>4. ASSUME NEW s \in Slots, NEW g \in Stages, Refuse(s, g), job' = job
      PROVE  SlotsRequested'
  BY <1>0, <1>2, <1>4 DEF Refuse, SlotTypes, Points, Stages, Holding
<1>5. ASSUME NEW s \in Slots, ModerateContent(s) \/ ValidateConsent(s) \/ SignC2PA(s)
      PROVE  SlotsRequested'
  <2>1. job' = job
    BY <1>5 DEF ModerateContent, ValidateConsent, SignC2PA
  <2>2. CASE \E g \in Stages : Refuse(s, g)
    BY <1>4, <2>1, <2>2
  <2>3. CASE out' = out /\ \E p \in Stages, q \in Stages : Advance(s, p, q)
    BY <1>2, <2>1, <2>3 DEF Points, Stages, Holding
  <2> QED BY <1>5, <2>2, <2>3 DEF ModerateContent, ValidateConsent, SignC2PA, Clear, Stages
<1>6. ASSUME NEW s \in Slots, SubmitToAi(s) PROVE SlotsRequested'
  <2>1. job[s] \in Jobs /\ job' = job
    BY <1>0, <1>6 DEF SubmitToAi, Advance, SlotsRequested
  <2>2. CASE Advance(s, "submit_to_ai", "catch") /\ out' = out
    BY <1>2, <2>1, <2>2 DEF Points, Holding, Stages
  <2>3. CASE \E n \in 0 .. AiPostAttempts :
               /\ Advance(s, "submit_to_ai", "ai_processing")
               /\ out' = [out EXCEPT ![s] = <<job[s], submissions[job[s]] + n>>]
    <3>1. PICK n \in 0 .. AiPostAttempts :
            /\ Advance(s, "submit_to_ai", "ai_processing")
            /\ out' = [out EXCEPT ![s] = <<job[s], submissions[job[s]] + n>>]
      BY <2>3
    <3>2. <<job[s], submissions[job[s]] + n>> \in Outputs
      BY <2>1, <3>1, Bounds DEF TypeOK, ServiceTypes, Outputs
    <3> QED BY <1>0, <1>2, <2>1, <3>1, <3>2 DEF SlotTypes, Points
  <2> QED BY <1>6, <2>2, <2>3 DEF SubmitToAi, Posts
<1>7. ASSUME NEW s \in Slots, NEW j \in Jobs, StartJob(s, j) PROVE SlotsRequested'
  <2>1. request[j] = "accepted"
    BY <1>0, <1>7 DEF StartJob, RowsRequested
  <2>2. \A k \in CachedRows(j) : outputUrl[k] \in Outputs
    BY DEF CachedRows, TypeOK, RowTypes
  <2> QED BY <1>0, <1>1, <1>7, <2>1, <2>2 DEF StartJob, SlotTypes, SlotsRequested, Holding, Stages
<1>8. ASSUME NEW s \in Slots, ReturnResult(s) \/ Rethrow(s) PROVE SlotsRequested'
  BY <1>0, <1>1, <1>8 DEF ReturnResult, Rethrow, Release, SlotTypes, SlotsRequested, Holding, Stages
<1>9. ASSUME NEW s \in Slots, Throw(s) PROVE SlotsRequested'
  BY <1>0, <1>1, <1>9 DEF Throw, MayThrow, SlotTypes, SlotsRequested, Holding, Stages
<1>10. CASE WorkerCrash
  BY <1>10 DEF WorkerCrash, SlotsRequested, Holding, Stages
<1>11. CASE UNCHANGED <<pc, job, out>>
  BY <1>0, <1>1, <1>11 DEF SlotsRequested
<1>12. ASSUME \/ Api \/ DatabaseCallFails \/ UNCHANGED vars
              \/ \E D \in SUBSET Jobs : CleanExpiredJobs(D)
       PROVE  UNCHANGED <<pc, job, out>>
  BY <1>12 DEF CleanExpiredJobs, Api, SubmitJob, RetryJob, CreateRow, EnqueueGeneration, EnqueueRejected,
               CancelCheck, CancelWrite, ApiCrash, DatabaseCallFails, vars
<1>13. ASSUME NEW j \in Jobs, CallbackWrites(j) \/ StalledCheck(j)
       PROVE  UNCHANGED <<pc, job, out>>
  BY <1>13 DEF CallbackWrites, StalledCheck
<1>14. ASSUME NEW s \in Slots, PollPending(s) PROVE SlotsRequested'
  <2>1. CASE Advance(s, "ai_processing", "ai_processing") /\ UNCHANGED <<job, out>>
    BY <1>2, <2>1 DEF Points, Stages, Holding
  <2>2. CASE Advance(s, "ai_processing", "catch") /\ out' = [out EXCEPT ![s] = None] /\ job' = job
    BY <1>0, <1>2, <2>2 DEF SlotTypes, Points, Stages, Holding
  <2> QED BY <1>14, <2>1, <2>2 DEF PollPending
<1> QED
  BY <1>3, <1>5, <1>6, <1>7, <1>8, <1>9, <1>10, <1>11, <1>12, <1>13, <1>14
     DEF Next, Process, Generate, Govern, Complete, Fail

LEMMA RequestedStep ==
  ASSUME TypeOK, Requested, [Next]_vars
  PROVE  Requested'
BY RowsRequestedStep, SlotsRequestedStep DEF Requested

LEMMA GovernedInit == Init => Governed
BY DEF Init, Governed, Passed

LEMMA GovernedStep ==
  ASSUME TypeOK, Requested, Governed, GovernanceGate, [Next]_vars
  PROVE  Governed'
<1> USE DEF TypeOK, SlotTypes, QueueTypes, Governed, Passed, rowVars, apiVars, queueVars,
            slotVars, processVars, serviceVars, sinkVars
<1>1. ASSUME NEW j \in Jobs, NEW x \in Inputs, SubmitJob(j, x) PROVE Governed'
  BY <1>1 DEF SubmitJob, CreateRow
<1>2. ASSUME NEW j \in Jobs, NEW k \in Jobs, RetryJob(j, k) PROVE Governed'
  BY <1>2 DEF RetryJob, CreateRow
<1>3. ASSUME NEW j \in Jobs, EnqueueGeneration(j) PROVE Governed'
  BY <1>3 DEF EnqueueGeneration
<1>4. ASSUME NEW j \in Jobs, EnqueueRejected(j) PROVE Governed'
  BY <1>4 DEF EnqueueRejected
<1>5. ASSUME NEW j \in Jobs, CancelCheck(j) PROVE Governed'
  BY <1>5 DEF CancelCheck
<1>6. ASSUME NEW j \in Jobs, CancelWrite(j) PROVE Governed'
  BY <1>6 DEF CancelWrite
<1>7. CASE ApiCrash
  BY <1>7 DEF ApiCrash
<1>8. ASSUME NEW s \in Slots, CreateJobRecord(s) PROVE Governed'
  BY <1>8 DEF CreateJobRecord, Advance
<1>9. ASSUME NEW s \in Slots, SubmitToAi(s) PROVE Governed'
  BY <1>9 DEF SubmitToAi, Advance
<1>10. ASSUME NEW s \in Slots, PollComplete(s) PROVE Governed'
  BY <1>10 DEF PollComplete, PollEnds, Advance, Stages
<1>11. ASSUME NEW s \in Slots, PollPending(s) PROVE Governed'
  BY <1>11 DEF PollPending, Advance
<1>12. ASSUME NEW s \in Slots, ModerateContent(s) PROVE Governed'
  BY <1>12 DEF ModerateContent, Clear, Refuse, Advance, Stages, BlockingStages
<1>13. ASSUME NEW s \in Slots, ValidateConsent(s) PROVE Governed'
  BY <1>13 DEF ValidateConsent, Clear, Refuse, Advance, Stages, BlockingStages
<1>14. ASSUME NEW s \in Slots, SignC2PA(s) PROVE Governed'
  BY <1>14 DEF SignC2PA, Clear, Refuse, Advance, Stages, BlockingStages
<1>15. ASSUME NEW s \in Slots, EmbedWatermark(s) PROVE Governed'
  BY <1>15 DEF EmbedWatermark, Clear, Advance, Stages, BlockingStages
<1>16. ASSUME NEW s \in Slots, ReuseResult(s) PROVE Governed'
  BY <1>16 DEF ReuseResult, Advance
<1>17. ASSUME NEW s \in Slots, MarkComplete(s) PROVE Governed'
  BY <1>17 DEF MarkComplete, Advance, Stages, BlockingStages
<1>18. ASSUME NEW s \in Slots, AnnounceResult(s) PROVE Governed'
  BY <1>18 DEF AnnounceResult, Advance
<1>19. ASSUME NEW s \in Slots, ReturnResult(s) PROVE Governed'
  BY <1>19 DEF ReturnResult, Release
<1>20. ASSUME NEW s \in Slots, GovernanceBlocked(s) PROVE Governed'
  BY <1>20 DEF GovernanceBlocked, Advance
<1>21. ASSUME NEW s \in Slots, Throw(s) PROVE Governed'
  BY <1>21 DEF Throw
<1>22. ASSUME NEW s \in Slots, CatchError(s) PROVE Governed'
  BY <1>22 DEF CatchError, Advance
<1>23. ASSUME NEW s \in Slots, Rethrow(s) PROVE Governed'
  BY <1>23 DEF Rethrow, Release
<1>24. ASSUME NEW s \in Slots, NEW j \in Jobs, StartJob(s, j) PROVE Governed'
  <2>1. ASSUME NEW k \in CachedRows(j) PROVE \A g \in BlockingStages : <<g, outputUrl[k]>> \in cleared
    BY DEF CachedRows, GovernanceGate, Released
  <2>2. CASE \E k \in CachedRows(j) : /\ pc' = [pc EXCEPT ![s] = "reuse"]
                                      /\ out' = [out EXCEPT ![s] = outputUrl[k]]
    BY <1>24, <2>1, <2>2 DEF StartJob
  <2>3. CASE pc' = [pc EXCEPT ![s] = "validate_input"] /\ out' = out
    BY <1>24, <2>3 DEF StartJob
  <2> QED BY <1>24, <2>2, <2>3 DEF StartJob
<1>25. ASSUME NEW j \in Jobs, CallbackWrites(j) PROVE Governed'
  BY <1>25 DEF CallbackWrites
<1>26. ASSUME NEW j \in Jobs, StalledCheck(j) PROVE Governed'
  BY <1>26 DEF StalledCheck
<1>27. CASE WorkerCrash
  BY <1>27 DEF WorkerCrash
<1>28. CASE DatabaseCallFails
  BY <1>28 DEF DatabaseCallFails
<1>29. CASE UNCHANGED vars
  BY <1>29 DEF vars
<1>30. ASSUME NEW D \in SUBSET Jobs, CleanExpiredJobs(D) PROVE Governed'
  BY <1>30 DEF CleanExpiredJobs
<1> QED
  BY <1>30, <1>1, <1>2, <1>3, <1>4, <1>5, <1>6, <1>7, <1>8, <1>9, <1>10, <1>11, <1>12,
     <1>13, <1>14, <1>15, <1>16, <1>17, <1>18, <1>19, <1>20, <1>21, <1>22, <1>23, <1>24,
     <1>25, <1>26, <1>27, <1>28, <1>29
     DEF Next, Api, Process, Generate, Govern, Complete, Fail

-----------------------------------------------------------------------------
(* The pipeline's steps, seen as steps of the delivery gate.                *)

LEMMA PassedBefore == \A g \in Stages : Before[g] \subseteq Passed(g)
BY DEF Before, Passed, Stages, BlockingStages

\* An action that touches neither outputs nor clearances is a stutter of the gate.
LEMMA KeepsReleased ==
  ASSUME UNCHANGED <<outputUrl, cleared>>, Completions' = Completions
  PROVE  UNCHANGED Gate!vars
BY DEF Gate!vars, Released

LEMMA ClearStep ==
  ASSUME NEW s \in Slots, NEW g \in Stages, NEW to, TypeOK, Requested, Governed,
         Clear(s, g, to), UNCHANGED <<outputUrl, bus>>
  PROVE  Gate!Clear
<1>1. pc[s] = g /\ cleared' = cleared \cup {<<g, out[s]>>}
  BY DEF Clear, Advance
<1>2. out[s] \in Outputs
  BY <1>1 DEF Requested, SlotsRequested, Holding
<1>3. \A h \in Before[g] : <<h, out[s]>> \in cleared
  BY <1>1, PassedBefore DEF Governed
<1>4. Released' = Released
  BY DEF Released, Completions
<1> QED BY <1>1, <1>2, <1>3, <1>4 DEF Gate!Clear

LEMMA ReleaseStep ==
  ASSUME NEW s \in Slots, Requested, Governed,
         pc[s] \in {"reuse", "quality_check", "done"},
         Released' \subseteq Released \cup {out[s]}, cleared' = cleared
  PROVE  Gate!Release
<1>1. out[s] \in Outputs
  BY DEF Requested, SlotsRequested, Holding
<1>2. \A g \in BlockingStages : <<g, out[s]>> \in cleared
  BY DEF Governed, Passed
<1> QED BY <1>1, <1>2 DEF Gate!Release, Gate!FullyCleared

LEMMA GateStep ==
  ASSUME TypeOK, Requested, Governed, [Next]_vars
  PROVE  [Gate!Next]_(Gate!vars)
<1> USE DEF rowVars, apiVars, queueVars, slotVars, processVars, serviceVars, sinkVars
<1>1. ASSUME NEW s \in Slots, ModerateContent(s) PROVE [Gate!Next]_(Gate!vars)
  <2>1. CASE Clear(s, "content_moderation", "consent_validation")
    BY <1>1, <2>1, ClearStep DEF ModerateContent, Stages, Gate!Next
  <2>2. CASE Refuse(s, "content_moderation")
    BY <1>1, <2>2, KeepsReleased DEF ModerateContent, Refuse, Completions
  <2> QED BY <1>1, <2>1, <2>2 DEF ModerateContent
<1>2. ASSUME NEW s \in Slots, ValidateConsent(s) PROVE [Gate!Next]_(Gate!vars)
  <2>1. CASE Clear(s, "consent_validation", "c2pa_signing")
    BY <1>2, <2>1, ClearStep DEF ValidateConsent, Stages, Gate!Next
  <2>2. CASE Refuse(s, "consent_validation")
    BY <1>2, <2>2, KeepsReleased DEF ValidateConsent, Refuse, Completions
  <2> QED BY <1>2, <2>1, <2>2 DEF ValidateConsent
<1>3. ASSUME NEW s \in Slots, SignC2PA(s) PROVE [Gate!Next]_(Gate!vars)
  <2>1. CASE Clear(s, "c2pa_signing", "watermarking")
    BY <1>3, <2>1, ClearStep DEF SignC2PA, Stages, Gate!Next
  <2>2. CASE UNCHANGED cleared
    BY <1>3, <2>2, KeepsReleased DEF SignC2PA, Completions
  <2> QED BY <1>3, <2>1, <2>2 DEF SignC2PA, Refuse
<1>4. ASSUME NEW s \in Slots, EmbedWatermark(s) PROVE [Gate!Next]_(Gate!vars)
  <2>1. CASE Clear(s, "watermarking", "quality_check")
    BY <1>4, <2>1, ClearStep DEF EmbedWatermark, Stages, Gate!Next
  <2>2. CASE UNCHANGED cleared
    BY <1>4, <2>2, KeepsReleased DEF EmbedWatermark, Completions
  <2> QED BY <1>4, <2>1, <2>2 DEF EmbedWatermark
<1>5. ASSUME NEW s \in Slots, ReuseResult(s) PROVE [Gate!Next]_(Gate!vars)
  <2>1. Released' \subseteq Released \cup {out[s]}
    BY <1>5 DEF ReuseResult, Publish, Released, Completions, Event
  <2> QED BY <1>5, <2>1, ReleaseStep DEF ReuseResult, Advance, Gate!Next
<1>6. ASSUME NEW s \in Slots, MarkComplete(s) PROVE [Gate!Next]_(Gate!vars)
  <2>1. \A j \in Jobs : outputUrl'[j] \in {outputUrl[j], out[s]}
    BY <1>6 DEF MarkComplete, TypeOK, RowTypes
  <2>2. Released' \subseteq Released \cup {out[s]}
    BY <1>6, <2>1 DEF MarkComplete, Released, Completions
  <2> QED BY <1>6, <2>2, ReleaseStep DEF MarkComplete, Advance, Gate!Next
<1>7. ASSUME NEW s \in Slots, AnnounceResult(s) PROVE [Gate!Next]_(Gate!vars)
  <2>1. Released' \subseteq Released \cup {out[s]}
    BY <1>7 DEF AnnounceResult, Publish, Released, Completions, Event
  <2> QED BY <1>7, <2>1, ReleaseStep DEF AnnounceResult, Advance, Gate!Next
<1>8. ASSUME NEW s \in Slots, CreateJobRecord(s) \/ GovernanceBlocked(s)
      PROVE  [Gate!Next]_(Gate!vars)
  <2>1. Completions' = Completions
    BY <1>8 DEF CreateJobRecord, GovernanceBlocked, Publish, Completions, Event
  <2> QED BY <1>8, <2>1, KeepsReleased DEF CreateJobRecord, GovernanceBlocked
<1>9. CASE UNCHANGED <<outputUrl, bus, cleared>>
  BY <1>9, KeepsReleased DEF Completions
<1>10. ASSUME NEW j \in Jobs,
              \/ \E x \in Inputs : SubmitJob(j, x)
              \/ \E k \in Jobs : RetryJob(j, k)
              \/ EnqueueGeneration(j) \/ EnqueueRejected(j)
              \/ CancelCheck(j) \/ CancelWrite(j)
              \/ CallbackWrites(j) \/ StalledCheck(j)
              \/ \E s \in Slots : StartJob(s, j)
       PROVE  UNCHANGED <<outputUrl, bus, cleared>>
  BY <1>10 DEF SubmitJob, RetryJob, CreateRow, EnqueueGeneration, EnqueueRejected,
               CancelCheck, CancelWrite, CallbackWrites, StalledCheck, StartJob
<1>11. ASSUME NEW s \in Slots,
              \/ SubmitToAi(s) \/ PollPending(s) \/ PollComplete(s)
              \/ ReturnResult(s) \/ Throw(s) \/ CatchError(s) \/ Rethrow(s)
       PROVE  UNCHANGED <<outputUrl, bus, cleared>>
  BY <1>11 DEF SubmitToAi, PollPending, PollComplete, PollEnds, ReturnResult, Throw,
               CatchError, Rethrow
<1>12. ASSUME ApiCrash \/ WorkerCrash \/ DatabaseCallFails \/ UNCHANGED vars
       PROVE  UNCHANGED <<outputUrl, bus, cleared>>
  BY <1>12 DEF ApiCrash, WorkerCrash, DatabaseCallFails, vars
<1>13. ASSUME NEW D \in SUBSET Jobs, CleanExpiredJobs(D) PROVE [Gate!Next]_(Gate!vars)
  <2>1. Released' \subseteq Released /\ cleared' = cleared
    BY <1>13, Bounds DEF CleanExpiredJobs, Released, Completions
  <2> QED BY <2>1 DEF Gate!Release, Gate!Next
<1> QED
  BY <1>13, <1>1, <1>2, <1>3, <1>4, <1>5, <1>6, <1>7, <1>8, <1>9, <1>10, <1>11, <1>12
     DEF Next, Api, Process, Generate, Govern, Complete, Fail

\* What the gate keeps out stays out.
LEMMA GatePreserves ==
  ASSUME GovernanceGate, [Gate!Next]_(Gate!vars)
  PROVE  GovernanceGate'
BY DEF GovernanceGate, Gate!Next, Gate!Clear, Gate!Release, Gate!vars, Gate!FullyCleared

-----------------------------------------------------------------------------
(* Whose output a row, a return value, an execution and an event carry.      *)

LEMMA MatchingInit == Init => Matching
BY DEF Init, Matching, RowsMatch, ReturnsMatch, SlotsMatch, EventsMatch, OwnPoints, Stages,
       Completions

LEMMA MadeForStays ==
  ASSUME TypeOK, Requested, [Next]_vars, NEW j \in Jobs, NEW o, MadeFor(o, j)
  PROVE  /\ o \in Outputs /\ request'[j] # "none" /\ request'[o[1]] # "none"
         /\ payload'[o[1]] = payload'[j]
<1>1. o[1] \in Jobs
  BY DEF MadeFor, Outputs
<1> QED BY <1>1, RequestsStay DEF MadeFor

LEMMA RowsMatchStep ==
  ASSUME TypeOK, Requested, SlotsMatch, RowsMatch, [Next]_vars
  PROVE  RowsMatch'
<1> USE DEF rowVars
<1>1. ASSUME UNCHANGED <<outputUrl, inputHash>> PROVE RowsMatch'
  BY <1>1, RequestsStay DEF RowsMatch
<1>2. ASSUME NEW j \in Jobs, NEW params, NEW hash, CreateRow(j, params, hash) PROVE RowsMatch'
  <2>1. outputUrl[j] = None
    BY <1>2 DEF CreateRow, RowsMatch, Requested, RowsRequested
  <2> QED BY <1>2, <2>1, RequestsStay DEF CreateRow, RowsMatch, TypeOK, RowTypes
<1>3. ASSUME NEW D \in SUBSET Jobs, CleanExpiredJobs(D) PROVE RowsMatch'
  BY <1>3, RequestsStay DEF CleanExpiredJobs, RowsMatch
<1>4. ASSUME NEW s \in Slots, MarkComplete(s) PROVE RowsMatch'
  <2>1. /\ job[s] \in Jobs /\ request[job[s]] # "none" /\ out[s][1] = job[s]
        /\ payload' = payload
    BY <1>4 DEF MarkComplete, Advance, SlotsMatch, OwnPoints, Requested, SlotsRequested, queueVars
  <2> QED BY <1>1, <1>4, <2>1, RequestsStay DEF MarkComplete, RowsMatch, TypeOK, RowTypes
<1>5. ASSUME NEW j \in Jobs,
             \/ EnqueueGeneration(j) \/ EnqueueRejected(j) \/ CancelCheck(j) \/ CancelWrite(j)
             \/ CallbackWrites(j) \/ StalledCheck(j) \/ \E s \in Slots : StartJob(s, j)
      PROVE  UNCHANGED <<outputUrl, inputHash>>
  BY <1>5 DEF EnqueueGeneration, EnqueueRejected, CancelCheck, CancelWrite, CallbackWrites,
              StalledCheck, StartJob
<1>6. ASSUME NEW s \in Slots,
             \/ Generate(s) \/ Govern(s) \/ ReuseResult(s) \/ AnnounceResult(s)
             \/ ReturnResult(s) \/ Fail(s)
      PROVE  UNCHANGED <<outputUrl, inputHash>>
  BY <1>6 DEF Generate, CreateJobRecord, SubmitToAi, PollPending, PollComplete, PollEnds, Govern,
              ModerateContent, ValidateConsent, SignC2PA, EmbedWatermark, ReuseResult,
              AnnounceResult, ReturnResult, Fail, GovernanceBlocked, Throw, CatchError, Rethrow
<1>7. ASSUME ApiCrash \/ WorkerCrash \/ DatabaseCallFails \/ UNCHANGED vars
      PROVE  UNCHANGED <<outputUrl, inputHash>>
  BY <1>7 DEF ApiCrash, WorkerCrash, DatabaseCallFails, vars
<1> QED BY <1>1, <1>2, <1>3, <1>4, <1>5, <1>6, <1>7
        DEF Next, Api, SubmitJob, RetryJob, Process, Complete

LEMMA ReturnsMatchStep ==
  ASSUME TypeOK, Requested, SlotsMatch, ReturnsMatch, [Next]_vars
  PROVE  ReturnsMatch'
<1> USE DEF queueVars
<1>1. ASSUME UNCHANGED returned PROVE ReturnsMatch'
  BY <1>1, MadeForStays DEF ReturnsMatch, MadeFor
<1>2. ASSUME NEW s \in Slots, ReturnResult(s) PROVE ReturnsMatch'
  <2>1. job[s] \in Jobs /\ MadeFor(out[s], job[s])
    BY <1>2 DEF ReturnResult, SlotsMatch, Requested, SlotsRequested
  <2>2. CASE HoldsLock(s)
    <3>1. returned' = [returned EXCEPT ![job[s]] = out[s]]
      BY <1>2, <2>2 DEF ReturnResult
    <3> QED BY <2>1, <3>1, MadeForStays DEF ReturnsMatch, MadeFor, TypeOK, QueueTypes
  <2>3. CASE ~HoldsLock(s)
    BY <1>1, <1>2, <2>3 DEF ReturnResult
  <2> QED BY <2>2, <2>3
<1>3. ASSUME NEW j \in Jobs,
             \/ \E x \in Inputs : SubmitJob(j, x)
             \/ \E k \in Jobs : RetryJob(j, k)
             \/ EnqueueGeneration(j) \/ EnqueueRejected(j) \/ CancelCheck(j) \/ CancelWrite(j)
             \/ CallbackWrites(j) \/ StalledCheck(j) \/ \E s \in Slots : StartJob(s, j)
      PROVE  UNCHANGED returned
  BY <1>3 DEF SubmitJob, RetryJob, CreateRow, EnqueueGeneration, EnqueueRejected, CancelCheck,
              CancelWrite, CallbackWrites, StalledCheck, StartJob
<1>4. ASSUME NEW s \in Slots,
             \/ Generate(s) \/ Govern(s) \/ ReuseResult(s) \/ MarkComplete(s)
             \/ AnnounceResult(s) \/ Fail(s)
      PROVE  UNCHANGED returned
  BY <1>4 DEF Generate, CreateJobRecord, SubmitToAi, PollPending, PollComplete, PollEnds, Govern,
              ModerateContent, ValidateConsent, SignC2PA, EmbedWatermark, ReuseResult,
              MarkComplete, AnnounceResult, Fail, GovernanceBlocked, Throw, CatchError, Rethrow
<1>5. ASSUME \/ ApiCrash \/ WorkerCrash \/ DatabaseCallFails \/ UNCHANGED vars
             \/ \E D \in SUBSET Jobs : CleanExpiredJobs(D)
      PROVE  UNCHANGED returned
  BY <1>5 DEF ApiCrash, WorkerCrash, DatabaseCallFails, CleanExpiredJobs, vars
<1> QED BY <1>1, <1>2, <1>3, <1>4, <1>5 DEF Next, Api, Process, Complete

LEMMA EventsMatchStep ==
  ASSUME TypeOK, Requested, SlotsMatch, EventsMatch, [Next]_vars
  PROVE  EventsMatch'
<1> USE DEF sinkVars
<1>0. \A e \in Completions : e.job \in Jobs
  BY DEF TypeOK, SinkTypes, Completions, Events
<1>1. ASSUME Completions' = Completions PROVE EventsMatch'
  BY <1>0, <1>1, MadeForStays DEF EventsMatch, MadeFor
<1>2. ASSUME NEW s \in Slots, ReuseResult(s) \/ AnnounceResult(s) PROVE EventsMatch'
  <2>1. Completions' \subseteq
          Completions \cup {Event("generation.completed", job[s], out[s])}
    BY <1>2 DEF ReuseResult, AnnounceResult, Publish, Completions, Event
  <2>2. job[s] \in Jobs /\ MadeFor(out[s], job[s])
    BY <1>2 DEF ReuseResult, AnnounceResult, Advance, SlotsMatch, OwnPoints, MadeFor,
                Requested, SlotsRequested, Holding
  <2> QED BY <1>0, <2>1, <2>2, MadeForStays DEF EventsMatch, MadeFor, Event
<1>3. ASSUME NEW s \in Slots, CreateJobRecord(s) \/ GovernanceBlocked(s)
      PROVE  Completions' = Completions
  BY <1>3 DEF CreateJobRecord, GovernanceBlocked, Publish, Completions, Event
<1>4. CASE UNCHANGED bus
  BY <1>1, <1>4 DEF Completions
<1>5. ASSUME NEW j \in Jobs,
             \/ \E x \in Inputs : SubmitJob(j, x)
             \/ \E k \in Jobs : RetryJob(j, k)
             \/ EnqueueGeneration(j) \/ EnqueueRejected(j) \/ CancelCheck(j) \/ CancelWrite(j)
             \/ CallbackWrites(j) \/ StalledCheck(j) \/ \E s \in Slots : StartJob(s, j)
      PROVE  UNCHANGED bus
  BY <1>5 DEF SubmitJob, RetryJob, CreateRow, EnqueueGeneration, EnqueueRejected, CancelCheck,
              CancelWrite, CallbackWrites, StalledCheck, StartJob
<1>6. ASSUME NEW s \in Slots,
             \/ SubmitToAi(s) \/ PollPending(s) \/ PollComplete(s) \/ Govern(s)
             \/ MarkComplete(s) \/ ReturnResult(s) \/ Throw(s) \/ CatchError(s) \/ Rethrow(s)
      PROVE  UNCHANGED bus
  BY <1>6 DEF SubmitToAi, PollPending, PollComplete, PollEnds, Govern, ModerateContent,
              ValidateConsent, SignC2PA, EmbedWatermark, MarkComplete, ReturnResult, Throw,
              CatchError, Rethrow
<1>7. ASSUME \/ ApiCrash \/ WorkerCrash \/ DatabaseCallFails \/ UNCHANGED vars
             \/ \E D \in SUBSET Jobs : CleanExpiredJobs(D)
      PROVE  UNCHANGED bus
  BY <1>7 DEF ApiCrash, WorkerCrash, DatabaseCallFails, CleanExpiredJobs, vars
<1> QED BY <1>1, <1>2, <1>3, <1>4, <1>5, <1>6, <1>7
        DEF Next, Api, Process, Generate, Complete, Fail

LEMMA SlotsMatchStep ==
  ASSUME TypeOK, Requested, RowsMatch, SlotsMatch, [Next]_vars
  PROVE  SlotsMatch'
<1> USE DEF slotVars
<1>0. SlotTypes /\ SlotsRequested /\ RowsRequested
  BY DEF TypeOK, Requested
<1>1. \A s \in Slots : pc[s] \in {"reuse", "return"} =>
        /\ job[s] \in Jobs /\ out[s] \in Outputs
        /\ request'[job[s]] # "none" /\ request'[out[s][1]] # "none"
        /\ payload'[out[s][1]] = payload'[job[s]]
  BY <1>0, MadeForStays DEF SlotsMatch, SlotsRequested
<1>2. ASSUME UNCHANGED <<pc, job, out>> PROVE SlotsMatch'
  BY <1>1, <1>2 DEF SlotsMatch, MadeFor
\* Execution s goes on; the other executions are where they were.
<1>3. ASSUME NEW s \in Slots, NEW p, NEW q, Advance(s, p, q), job' = job,
             \A r \in Slots \ {s} : out'[r] = out[r],
             q \in OwnPoints => p \in OwnPoints /\ out' = out,
             q \in {"reuse", "return"} => p \in {"reuse", "done"} /\ out' = out
      PROVE  SlotsMatch'
  <2>1. \A r \in Slots \ {s} : pc'[r] = pc[r]
    BY <1>0, <1>3 DEF Advance, SlotTypes
  <2>2. pc[s] = p /\ pc'[s] = q
    BY <1>0, <1>3 DEF Advance, SlotTypes
  <2>3. ASSUME NEW r \in Slots \ {s}
        PROVE  /\ pc'[r] \in OwnPoints => out'[r][1] = job'[r]
               /\ pc'[r] \in {"reuse", "return"} => MadeFor(out[r], job[r])'
    BY <1>1, <1>3, <2>1, <2>3 DEF SlotsMatch, MadeFor
  <2>4. q \in OwnPoints => out'[s][1] = job'[s]
    BY <1>3, <2>2 DEF SlotsMatch
  <2>5. ASSUME q \in {"reuse", "return"} PROVE MadeFor(out[s], job[s])'
    <3>1. CASE p = "reuse"
      BY <1>1, <1>3, <2>2, <2>5, <3>1 DEF MadeFor
    <3>2. CASE p = "done"
      <4>1. /\ out[s] \in Outputs /\ out[s][1] = job[s]
            /\ job[s] \in Jobs /\ request[job[s]] # "none"
        BY <1>0, <2>2, <3>2 DEF SlotsMatch, OwnPoints, SlotsRequested, Holding
      <4> QED BY <1>3, <2>5, <4>1, RequestsStay DEF MadeFor
    <3> QED BY <1>3, <2>5, <3>1, <3>2
  <2> QED BY <2>2, <2>3, <2>4, <2>5 DEF SlotsMatch
<1>4. ASSUME NEW s \in Slots,
             \/ CreateJobRecord(s) \/ PollPending(s) \/ PollComplete(s) \/ ModerateContent(s)
             \/ ValidateConsent(s) \/ SignC2PA(s) \/ EmbedWatermark(s)
      PROVE  SlotsMatch'
  <2>1. \E p \in {"validate_input", "ai_processing"} \cup Stages,
           q \in {"submit_to_ai", "ai_processing", "quality_check", "blocked", "catch"} \cup Stages :
          /\ Advance(s, p, q) /\ job' = job
          /\ \A r \in Slots \ {s} : out'[r] = out[r]
          /\ q \in OwnPoints => p \in OwnPoints /\ out' = out
    BY <1>0, <1>4 DEF CreateJobRecord, PollPending, PollComplete, PollEnds, ModerateContent,
                ValidateConsent, SignC2PA, EmbedWatermark, Clear, Refuse, OwnPoints, Stages,
                SlotTypes
  <2> QED BY <1>3, <2>1 DEF Stages
<1>5. ASSUME NEW s \in Slots,
             \/ ReuseResult(s) \/ MarkComplete(s) \/ AnnounceResult(s)
             \/ GovernanceBlocked(s) \/ CatchError(s)
      PROVE  SlotsMatch'
  BY <1>3, <1>5 DEF ReuseResult, MarkComplete, AnnounceResult, GovernanceBlocked, CatchError,
                    OwnPoints, Stages
<1>6. ASSUME NEW s \in Slots, SubmitToAi(s) PROVE SlotsMatch'
  <2>1. job[s] \in Jobs /\ job' = job
    BY <1>0, <1>6 DEF SubmitToAi, Advance, SlotsRequested
  <2>2. CASE Advance(s, "submit_to_ai", "catch") /\ out' = out
    BY <1>3, <2>1, <2>2 DEF OwnPoints, Stages
  <2>3. ASSUME NEW n, Advance(s, "submit_to_ai", "ai_processing"),
               out' = [out EXCEPT ![s] = <<job[s], submissions[job[s]] + n>>]
        PROVE  SlotsMatch'
    <3>1. \A r \in Slots \ {s} : pc'[r] = pc[r] /\ out'[r] = out[r]
      BY <1>0, <2>3 DEF Advance, SlotTypes
    <3>2. pc'[s] = "ai_processing" /\ out'[s][1] = job[s]
      BY <1>0, <2>3 DEF Advance, SlotTypes
    <3>3. ASSUME NEW r \in Slots \ {s}
          PROVE  /\ pc'[r] \in OwnPoints => out'[r][1] = job'[r]
                 /\ pc'[r] \in {"reuse", "return"} => MadeFor(out[r], job[r])'
      BY <1>1, <2>1, <3>1, <3>3 DEF SlotsMatch, MadeFor
    <3> QED BY <2>1, <3>2, <3>3 DEF SlotsMatch
  <2> QED BY <1>6, <2>2, <2>3 DEF SubmitToAi
<1>7. ASSUME NEW s \in Slots, NEW j \in Jobs, StartJob(s, j) PROVE SlotsMatch'
  <2>1. request[j] # "none" /\ UNCHANGED <<request, payload>>
    BY <1>0, <1>7 DEF StartJob, RowsRequested, apiVars
  <2>2. \A k \in CachedRows(j) : MadeFor(outputUrl[k], j)
    BY <2>1 DEF CachedRows, RowsMatch, MadeFor, TypeOK, RowTypes
  <2>3. \A r \in Slots \ {s} : pc'[r] = pc[r] /\ out'[r] = out[r] /\ job'[r] = job[r]
    BY <1>0, <1>7 DEF StartJob, SlotTypes
  <2>4. job'[s] = j
    BY <1>0, <1>7 DEF StartJob, SlotTypes
  <2>5. \/ pc'[s] = "validate_input"
        \/ pc'[s] = "reuse" /\ \E k \in CachedRows(j) : out'[s] = outputUrl[k]
    BY <1>0, <1>7 DEF StartJob, SlotTypes
  <2>6. ASSUME NEW r \in Slots \ {s}
        PROVE  /\ pc'[r] \in OwnPoints => out'[r][1] = job'[r]
               /\ pc'[r] \in {"reuse", "return"} => MadeFor(out[r], job[r])'
    BY <1>1, <2>3, <2>6 DEF SlotsMatch, MadeFor
  <2>7. /\ pc'[s] \notin OwnPoints
        /\ pc'[s] \in {"reuse", "return"} => MadeFor(out[s], job[s])'
    BY <2>1, <2>2, <2>4, <2>5 DEF OwnPoints, Stages, MadeFor
  <2> QED BY <2>6, <2>7 DEF SlotsMatch
<1>8. ASSUME NEW s \in Slots, ReturnResult(s) \/ Rethrow(s) \/ Throw(s) PROVE SlotsMatch'
  <2>1. \A r \in Slots \ {s} : pc'[r] = pc[r] /\ out'[r] = out[r] /\ job'[r] = job[r]
    BY <1>0, <1>8 DEF ReturnResult, Rethrow, Release, Throw, SlotTypes
  <2>2. pc'[s] \in {"idle", "catch"}
    BY <1>0, <1>8 DEF ReturnResult, Rethrow, Release, Throw, SlotTypes
  <2>3. ASSUME NEW r \in Slots \ {s}
        PROVE  /\ pc'[r] \in OwnPoints => out'[r][1] = job'[r]
               /\ pc'[r] \in {"reuse", "return"} => MadeFor(out[r], job[r])'
    BY <1>1, <2>1, <2>3 DEF SlotsMatch, MadeFor
  <2> QED BY <2>2, <2>3 DEF SlotsMatch, OwnPoints, Stages
<1>9. CASE WorkerCrash
  BY <1>9 DEF WorkerCrash, SlotsMatch, OwnPoints, Stages
<1>10. ASSUME NEW j \in Jobs,
              \/ \E x \in Inputs : SubmitJob(j, x)
              \/ \E k \in Jobs : RetryJob(j, k)
              \/ EnqueueGeneration(j) \/ EnqueueRejected(j) \/ CancelCheck(j)
              \/ CancelWrite(j) \/ CallbackWrites(j) \/ StalledCheck(j)
       PROVE  SlotsMatch'
  BY <1>2, <1>10 DEF SubmitJob, RetryJob, CreateRow, EnqueueGeneration, EnqueueRejected,
                     CancelCheck, CancelWrite, CallbackWrites, StalledCheck
<1>11. ASSUME \/ ApiCrash \/ DatabaseCallFails \/ UNCHANGED vars
              \/ \E D \in SUBSET Jobs : CleanExpiredJobs(D)
       PROVE  SlotsMatch'
  BY <1>2, <1>11 DEF ApiCrash, DatabaseCallFails, CleanExpiredJobs, vars
<1> QED BY <1>4, <1>5, <1>6, <1>7, <1>8, <1>9, <1>10, <1>11
        DEF Next, Api, Process, Generate, Govern, Complete, Fail

LEMMA MatchingStep ==
  ASSUME TypeOK, Requested, Matching, [Next]_vars
  PROVE  Matching'
BY RowsMatchStep, ReturnsMatchStep, SlotsMatchStep, EventsMatchStep DEF Matching

LEMMA BackedStep ==
  ASSUME TypeOK, Requested, Governed, Matching, CompleteBacked, [Next]_vars
  PROVE  CompleteBacked'
<1> USE DEF rowVars
<1>1. cleared \subseteq cleared'
  BY GateStep DEF Gate!Next, Gate!Clear, Gate!Release, Gate!vars
<1>2. GovernedOutputs \subseteq GovernedOutputs'
  BY <1>1 DEF GovernedOutputs
\* A row that was complete before this step.
<1>3. ASSUME NEW i \in Jobs, status[i] = "complete"
      PROVE  \E o \in GovernedOutputs' : MadeFor(o, i)'
  <2>1. PICK o \in GovernedOutputs : MadeFor(o, i)
    BY <1>3 DEF CompleteBacked
  <2>2. MadeFor(o, i)'
    BY <2>1, MadeForStays DEF MadeFor
  <2> QED BY <1>2, <2>1, <2>2
<1>4. ASSUME \A i \in Jobs : status'[i] = "complete" => status[i] = "complete"
      PROVE  CompleteBacked'
  BY <1>3, <1>4 DEF CompleteBacked
\* A row that an execution completes.
<1>5. ASSUME NEW s \in Slots, ReuseResult(s) \/ MarkComplete(s) \/ AnnounceResult(s)
      PROVE  CompleteBacked'
  <2>1. /\ job[s] \in Jobs /\ MadeFor(out[s], job[s])
        /\ BlockingStages \subseteq Passed(pc[s])
    BY <1>5 DEF ReuseResult, MarkComplete, AnnounceResult, Advance, Matching, SlotsMatch,
                OwnPoints, MadeFor, Requested, SlotsRequested, Holding, Passed
  <2>2. out[s] \in GovernedOutputs
    <3>1. \A g \in BlockingStages : <<g, out[s]>> \in cleared
      BY <2>1 DEF Governed
    <3>2. <<"consent_validation", out[s]>> \in cleared
      BY <3>1 DEF BlockingStages, Stages
    <3> QED BY <3>1, <3>2 DEF GovernedOutputs
  <2>3. /\ request'[job[s]] # "none" /\ request'[out[s][1]] # "none"
        /\ payload'[out[s][1]] = payload'[job[s]] /\ out[s] \in Outputs
    BY <2>1, MadeForStays
  <2>4. \A i \in Jobs \ {job[s]} : status'[i] = status[i]
    BY <1>5, <2>1 DEF ReuseResult, MarkComplete, AnnounceResult, SetStatus, TypeOK, RowTypes
  <2>5. \E o \in GovernedOutputs' : MadeFor(o, job[s])'
    <3>1. PICK o \in GovernedOutputs : o = out[s]
      BY <2>2
    <3>2. MadeFor(o, job[s])'
      <4>1. job'[s] = job[s]
        BY <1>5 DEF ReuseResult, MarkComplete, AnnounceResult
      <4> QED BY <2>3, <3>1, <4>1 DEF MadeFor
    <3> QED BY <1>2, <3>1, <3>2
  <2>6. job'[s] = job[s]
    BY <1>5 DEF ReuseResult, MarkComplete, AnnounceResult
  <2> QED BY <1>3, <2>4, <2>5, <2>6 DEF CompleteBacked
<1>6. ASSUME NEW s \in Slots,
             Generate(s) \/ ModerateContent(s) \/ GovernanceBlocked(s) \/ CatchError(s)
      PROVE  CompleteBacked'
  <2>1. \E v \in {"running", "failed"} : SetStatus(job[s], v)
    BY <1>6 DEF Generate, CreateJobRecord, SubmitToAi, PollPending, PollComplete, PollEnds,
                ModerateContent, GovernanceBlocked, CatchError, MarkFailed
  <2> QED BY <1>4, <2>1 DEF SetStatus, TypeOK, RowTypes
<1>7. ASSUME NEW j \in Jobs,
             \/ \E x \in Inputs : SubmitJob(j, x)
             \/ \E k \in Jobs : RetryJob(j, k)
             \/ EnqueueRejected(j) \/ CancelWrite(j) \/ CallbackWrites(j)
      PROVE  CompleteBacked'
  BY <1>4, <1>7 DEF SubmitJob, RetryJob, CreateRow, EnqueueRejected, CancelWrite,
                    CallbackWrites, SetStatus, TypeOK, RowTypes
<1>8. ASSUME NEW D \in SUBSET Jobs, CleanExpiredJobs(D) PROVE CompleteBacked'
  BY <1>4, <1>8 DEF CleanExpiredJobs
<1>9. CASE UNCHANGED status
  BY <1>4, <1>9
<1>10. ASSUME NEW j \in Jobs,
              \/ EnqueueGeneration(j) \/ CancelCheck(j) \/ StalledCheck(j)
              \/ \E s \in Slots : StartJob(s, j)
       PROVE  UNCHANGED status
  BY <1>10 DEF EnqueueGeneration, CancelCheck, StalledCheck, StartJob
<1>11. ASSUME NEW s \in Slots,
              \/ ValidateConsent(s) \/ SignC2PA(s) \/ EmbedWatermark(s)
              \/ ReturnResult(s) \/ Throw(s) \/ Rethrow(s)
       PROVE  UNCHANGED status
  BY <1>11 DEF ValidateConsent, SignC2PA, EmbedWatermark, ReturnResult, Throw, Rethrow
<1>12. ASSUME ApiCrash \/ WorkerCrash \/ DatabaseCallFails \/ UNCHANGED vars
       PROVE  UNCHANGED status
  BY <1>12 DEF ApiCrash, WorkerCrash, DatabaseCallFails, vars
<1> QED
  BY <1>5, <1>6, <1>7, <1>8, <1>9, <1>10, <1>11, <1>12
     DEF Next, Api, Process, Govern, Complete, Fail

-----------------------------------------------------------------------------
\* Every reachable state has values of the declared types: in particular no job
\* ever uses more attempts, stalls or signing tries than its limits
\* (generationQueue.ts:60, governancePipeline.ts:80).
THEOREM TypeCorrect == Spec => []TypeOK
<1>1. Init => TypeOK /\ Requested
  BY TypeInit
<1>2. TypeOK /\ Requested /\ [Next]_vars => (TypeOK /\ Requested)'
  BY TypeStep, RequestedStep
<1> QED BY <1>1, <1>2, PTL DEF Spec

LEMMA RequestedCorrect == Spec => [](TypeOK /\ Requested)
<1>1. TypeOK /\ Requested /\ [Next]_vars => (TypeOK /\ Requested)'
  BY TypeStep, RequestedStep
<1> QED BY TypeInit, <1>1, PTL DEF Spec

LEMMA GovernedCorrect == Spec => [](Governed /\ GovernanceGate)
<1>1. Init => Governed /\ GovernanceGate
  BY GovernedInit DEF Init, GovernanceGate, Released, Completions
<1>2. /\ TypeOK /\ Requested /\ Governed /\ GovernanceGate /\ [Next]_vars
      => (Governed /\ GovernanceGate)'
  BY GovernedStep, GateStep, GatePreserves
<1> QED BY <1>1, <1>2, RequestedCorrect, PTL DEF Spec

\* No output reaches a user unless moderation, consent and signing have each let
\* that very output through (the branch on governanceResult.passed,
\* generationWorker.ts:482), whatever is retried, reused, stalled or restarted.
THEOREM OnlyGovernedOutputs == Spec => []GovernanceGate
BY GovernedCorrect, PTL

\* The pipeline implements the delivery gate: every one of its steps is a
\* clearance in stage order, a release of cleared outputs, or neither.
THEOREM Implementation == Spec => ImplementsGate
<1>1. Init => Gate!Init
  BY DEF Init, Gate!Init, Released, Completions
<1>2. TypeOK /\ Requested /\ Governed /\ [Next]_vars => [Gate!Next]_(Gate!vars)
  BY GateStep
<1> QED BY <1>1, <1>2, RequestedCorrect, GovernedCorrect, PTL
        DEF Spec, ImplementsGate, Gate!Spec

LEMMA MatchingCorrect == Spec => []Matching
<1>1. TypeOK /\ Requested /\ Matching /\ [Next]_vars => Matching'
  BY MatchingStep
<1> QED BY <1>1, MatchingInit, RequestedCorrect, PTL DEF Spec

\* Deduplication announces only results of the very same request data
\* (findCachedResult, generationWorker.ts:244).
THEOREM ReuseIsSound == Spec => []ReuseMatchesRequest
<1>1. Matching => ReuseMatchesRequest
  BY DEF Matching, EventsMatch, MadeFor, ReuseMatchesRequest
<1> QED BY <1>1, MatchingCorrect, PTL

\* A complete row stands for an output that was made for its very request and that
\* the blocking stages have let through, also when the row was deduplicated and the
\* row it took its result from has since been deleted (jobHelpers.ts:186,
\* cleanupWorker.ts:28).
THEOREM CompletionIsGoverned == Spec => []CompleteIsGoverned
<1>1. Init => CompleteBacked
  BY DEF Init, CompleteBacked
<1>2. /\ TypeOK /\ Requested /\ Governed /\ Matching /\ CompleteBacked /\ [Next]_vars
      => CompleteBacked'
  BY BackedStep
<1>3. CompleteBacked => CompleteIsGoverned
  BY DEF CompleteBacked, CompleteIsGoverned, MadeFor
<1> QED BY <1>1, <1>2, <1>3, RequestedCorrect, GovernedCorrect, MatchingCorrect, PTL DEF Spec

-----------------------------------------------------------------------------
(* What a job costs: POSTs to the AI service and dead letters.               *)

\* Use of a budget, u so far and at most a for each member of S still to come,
\* is covered by k times a.
Covered(a, u, S, k) == IsFiniteSet(S) /\ u + a * Cardinality(S) <= a * k

\* Executions of a job that have their submission to the AI service before them.
Submitting(j) ==
  {s \in Slots : job[s] = j /\ pc[s] \in {"validate_input", "submit_to_ai"}}

\* How often the queue has handed out a job: once for every attempt used up or
\* stall survived, and once more for the attempt that is under way or was the
\* last without being used up.
HandedOut(j) ==
  attemptsMade[j] + stalls[j]
    + (IF qstate[j] \in {"none", "wait"} \/ attemptsMade[j] = Attempts THEN 0 ELSE 1)

SubmissionsCovered ==
  \A j \in Jobs : Covered(AiPostAttempts, submissions[j], Submitting(j), HandedOut(j))

\* Executions on the last attempt of a job that may yet end in its catch block.
LastAttempts(j) ==
  {s \in Slots : /\ job[s] = j
                 /\ attempt[s] + 1 >= Attempts
                 /\ pc[s] \notin {"idle", "return", "rethrow"}}

\* How often the queue has handed out a job for its last attempt, at most.
HandedOutLast(j) ==
  IF attemptsMade[j] + 1 < Attempts THEN 0
  ELSE stalls[j] + (IF qstate[j] \in {"none", "wait"} THEN 0 ELSE 1)

DeadLettersCovered ==
  \A j \in Jobs : Covered(1, deadLetters[j], LastAttempts(j), HandedOutLast(j))

\* Covered use stays covered: nothing is used, a unit is taken up when one more
\* is granted, or a unit is used up.
LEMMA CoveredStep ==
  ASSUME NEW a \in Nat, NEW u \in Nat, NEW v \in Nat, NEW k \in Nat, NEW l \in Nat,
         NEW S, NEW T, Covered(a, u, S, k),
         \/ v = u /\ T \subseteq S /\ l >= k
         \/ v = u /\ l >= k + 1 /\ \E x : T \subseteq S \cup {x}
         \/ v <= u + a /\ l >= k /\ \E x \in S : T \subseteq S \ {x}
  PROVE  Covered(a, v, T, l)
<1>1. IsFiniteSet(S) /\ Cardinality(S) \in Nat /\ u + a * Cardinality(S) <= a * k
  BY FS_CardinalityType DEF Covered
<1>2. \A m, n \in Nat : m <= n => a * m <= a * n
  OBVIOUS
<1>3. \A n \in Nat : a * (n + 1) = a * n + a /\ a * n \in Nat
  OBVIOUS
<1>4. CASE v = u /\ T \subseteq S /\ l >= k
  <2>1. IsFiniteSet(T) /\ Cardinality(T) \in Nat /\ Cardinality(T) <= Cardinality(S)
    BY <1>1, <1>4, FS_Subset, FS_CardinalityType
  <2>2. a * Cardinality(T) <= a * Cardinality(S) /\ a * k <= a * l
    BY <1>1, <1>2, <1>4, <2>1
  <2> QED BY <1>1, <1>3, <1>4, <2>1, <2>2 DEF Covered
<1>5. ASSUME NEW x, v = u, l >= k + 1, T \subseteq S \cup {x} PROVE Covered(a, v, T, l)
  <2>1. /\ IsFiniteSet(S \cup {x}) /\ Cardinality(S \cup {x}) \in Nat
        /\ Cardinality(S \cup {x}) <= Cardinality(S) + 1
    <3>1. /\ IsFiniteSet(S \cup {x})
          /\ Cardinality(S \cup {x}) = IF x \in S THEN Cardinality(S) ELSE Cardinality(S) + 1
      BY <1>1, FS_AddElement
    <3>2. Cardinality(S \cup {x}) \in Nat
      BY <3>1, FS_CardinalityType
    <3> QED BY <1>1, <3>1, <3>2
  <2>2. IsFiniteSet(T) /\ Cardinality(T) \in Nat
        /\ Cardinality(T) <= Cardinality(S \cup {x})
    BY <1>5, <2>1, FS_Subset, FS_CardinalityType
  <2>3. Cardinality(T) <= Cardinality(S) + 1
    BY <1>1, <2>1, <2>2
  <2>4. /\ a * Cardinality(T) <= a * Cardinality(S) + a
        /\ a * k + a <= a * l
    <3>1. a * Cardinality(T) <= a * (Cardinality(S) + 1) /\ a * (k + 1) <= a * l
      BY <1>1, <1>2, <1>5, <2>2, <2>3
    <3> QED BY <1>1, <1>3, <3>1
  <2> QED BY <1>1, <1>3, <1>5, <2>2, <2>4 DEF Covered
<1>6. ASSUME NEW x \in S, v <= u + a, l >= k, T \subseteq S \ {x} PROVE Covered(a, v, T, l)
  <2>1. /\ IsFiniteSet(S \ {x}) /\ Cardinality(S \ {x}) \in Nat
        /\ Cardinality(S) = Cardinality(S \ {x}) + 1
    <3>1. IsFiniteSet(S \ {x}) /\ Cardinality(S \ {x}) = Cardinality(S) - 1
      BY <1>1, <1>6, FS_RemoveElement
    <3>2. Cardinality(S \ {x}) \in Nat
      BY <3>1, FS_CardinalityType
    <3> QED BY <1>1, <3>1, <3>2
  <2>2. IsFiniteSet(T) /\ Cardinality(T) \in Nat
        /\ Cardinality(T) <= Cardinality(S \ {x})
    BY <1>6, <2>1, FS_Subset, FS_CardinalityType
  <2>3. /\ a * Cardinality(T) + a <= a * Cardinality(S)
        /\ a * k <= a * l
    <3>1. a * Cardinality(T) <= a * Cardinality(S \ {x}) /\ a * k <= a * l
      BY <1>2, <1>6, <2>1, <2>2
    <3> QED BY <1>3, <2>1, <2>2, <3>1
  <2> QED BY <1>1, <1>3, <1>6, <2>2, <2>3 DEF Covered
<1> QED BY <1>4, <1>5, <1>6

\* An execution goes on with its job or ends; it never comes back to a point
\* before its submission, nor from its end.
GoesOn(s) ==
  \/ pc'[s] = "idle"
  \/ pc'[s] = pc[s] /\ job'[s] = job[s] /\ attempt'[s] = attempt[s]
  \/ /\ job'[s] = job[s] /\ attempt'[s] = attempt[s]
     /\ pc[s] \notin {"idle", "return", "rethrow"}
     /\ pc'[s] = "submit_to_ai" => pc[s] = "validate_input"
     /\ pc'[s] # "validate_input"

LEMMA SlotsGoOn ==
  ASSUME TypeOK, [Next]_vars
  PROVE  \/ \E s \in Slots, j \in Jobs : StartJob(s, j)
         \/ \A s \in Slots : GoesOn(s)
<1> USE DEF slotVars
<1>0. SlotTypes
  BY DEF TypeOK
<1>1. ASSUME NEW s, NEW from, NEW to, from \notin {"idle", "return", "rethrow"},
             Advance(s, from, to), UNCHANGED <<job, attempt>>,
             to = "submit_to_ai" => from = "validate_input", to # "validate_input"
      PROVE  \A t \in Slots : GoesOn(t)
  BY <1>0, <1>1 DEF Advance, GoesOn, SlotTypes
<1>2. ASSUME NEW s \in Slots,
             \/ CreateJobRecord(s) \/ PollPending(s) \/ PollComplete(s) \/ ReuseResult(s)
             \/ MarkComplete(s) \/ AnnounceResult(s) \/ GovernanceBlocked(s) \/ CatchError(s)
             \/ EmbedWatermark(s)
      PROVE  \A t \in Slots : GoesOn(t)
  BY <1>1, <1>2 DEF CreateJobRecord, PollPending, PollComplete, PollEnds, ReuseResult,
                    MarkComplete, AnnounceResult, GovernanceBlocked, CatchError, EmbedWatermark,
                    Clear
<1>3. ASSUME NEW s \in Slots,
             ModerateContent(s) \/ ValidateConsent(s) \/ SignC2PA(s) \/ SubmitToAi(s)
      PROVE  \A t \in Slots : GoesOn(t)
  BY <1>1, <1>3 DEF ModerateContent, ValidateConsent, SignC2PA, SubmitToAi, Clear, Refuse
<1>4. ASSUME NEW s \in Slots, ReturnResult(s) \/ Rethrow(s)
      PROVE  \A t \in Slots : GoesOn(t)
  BY <1>0, <1>4 DEF ReturnResult, Rethrow, Release, GoesOn, SlotTypes
<1>5. ASSUME NEW s \in Slots, Throw(s) PROVE \A t \in Slots : GoesOn(t)
  BY <1>0, <1>5 DEF Throw, MayThrow, GoesOn, SlotTypes
<1>6. CASE WorkerCrash
  BY <1>6 DEF WorkerCrash, GoesOn
<1>7. CASE UNCHANGED slotVars
  BY <1>7 DEF GoesOn
<1>8. ASSUME \/ Api \/ DatabaseCallFails \/ UNCHANGED vars
             \/ \E j \in Jobs : CallbackWrites(j) \/ StalledCheck(j)
             \/ \E D \in SUBSET Jobs : CleanExpiredJobs(D)
      PROVE  UNCHANGED slotVars
  BY <1>8 DEF Api, SubmitJob, RetryJob, CreateRow, EnqueueGeneration, EnqueueRejected,
              CancelCheck, CancelWrite, ApiCrash, DatabaseCallFails, CallbackWrites,
              StalledCheck, CleanExpiredJobs, vars
<1> QED
  BY <1>2, <1>3, <1>4, <1>5, <1>6, <1>7, <1>8
     DEF Next, Process, Generate, Govern, Complete, Fail

LEMMA HandingOutTypes ==
  ASSUME TypeOK, NEW j \in Jobs
  PROVE  HandedOut(j) \in Nat /\ HandedOutLast(j) \in Nat
BY Bounds DEF TypeOK, QueueTypes, HandedOut, HandedOutLast

\* The counts of the times a job was handed out never fall, and rise when it is.
LEMMA HandingOut ==
  ASSUME TypeOK, Requested, [Next]_vars, NEW j \in Jobs
  PROVE  /\ HandedOut(j)' >= HandedOut(j) /\ HandedOutLast(j)' >= HandedOutLast(j)
         /\ \A s \in Slots : StartJob(s, j) =>
              /\ HandedOut(j)' = HandedOut(j) + 1
              /\ attemptsMade[j] + 1 >= Attempts =>
                   HandedOutLast(j)' = HandedOutLast(j) + 1
<1> USE DEF queueVars
<1> DEFINE Rises == HandedOut(j)' >= HandedOut(j) /\ HandedOutLast(j)' >= HandedOutLast(j)
<1>0. QueueTypes /\ RowsRequested /\ SlotsRequested
  BY DEF TypeOK, Requested
<1>1. ASSUME NEW k \in Jobs, NEW s \in Slots, StartJob(s, k)
      PROVE  Rises
  BY <1>0, <1>1, Bounds DEF StartJob, QueueTypes, RowsRequested, HandedOut, HandedOutLast
<1>2. ASSUME NEW s \in Slots, StartJob(s, j)
      PROVE  /\ HandedOut(j)' = HandedOut(j) + 1
             /\ attemptsMade[j] + 1 >= Attempts => HandedOutLast(j)' = HandedOutLast(j) + 1
  BY <1>0, <1>2, Bounds DEF StartJob, QueueTypes, RowsRequested, HandedOut, HandedOutLast
<1>3. ASSUME NEW k \in Jobs, EnqueueGeneration(k) PROVE Rises
  BY <1>0, <1>3, Bounds DEF EnqueueGeneration, QueueTypes, RowsRequested, HandedOut, HandedOutLast
<1>4. ASSUME NEW k \in Jobs, StalledCheck(k) PROVE Rises
  BY <1>0, <1>4, Bounds DEF StalledCheck, QueueTypes, RowsRequested, HandedOut, HandedOutLast
<1>5. ASSUME NEW s \in Slots, ReturnResult(s) PROVE Rises
  BY <1>0, <1>5, Bounds DEF ReturnResult, HoldsLock, QueueTypes, HandedOut, HandedOutLast
<1>6. ASSUME NEW s \in Slots, Rethrow(s) PROVE Rises
  <2>1. CASE HoldsLock(s) /\ job[s] = j
    <3>1. /\ attemptsMade[j] < Attempts /\ qstate[j] = "active"
          /\ attemptsMade'[j] = attemptsMade[j] + 1 /\ stalls'[j] = stalls[j]
          /\ qstate'[j] = IF attemptsMade[j] + 1 < Attempts THEN "wait" ELSE "failed"
      BY <1>0, <1>6, <2>1 DEF Rethrow, HoldsLock, QueueTypes, RowsRequested
    <3> QED BY <1>0, <3>1, Bounds DEF QueueTypes, HandedOut, HandedOutLast
  <2>2. CASE ~HoldsLock(s) \/ job[s] # j
    BY <1>0, <1>6, <2>2, Bounds DEF Rethrow, QueueTypes, HandedOut, HandedOutLast
  <2> QED BY <2>1, <2>2
<1>7. ASSUME UNCHANGED <<qstate, attemptsMade, stalls>> PROVE Rises
  BY <1>0, <1>7, Bounds DEF QueueTypes, HandedOut, HandedOutLast
<1>8. ASSUME \/ \E k \in Jobs : \/ \E x \in Inputs : SubmitJob(k, x)
                                \/ \E i \in Jobs : RetryJob(k, i)
                                \/ EnqueueRejected(k) \/ CancelCheck(k) \/ CancelWrite(k)
                                \/ CallbackWrites(k)
             \/ ApiCrash \/ WorkerCrash \/ DatabaseCallFails \/ UNCHANGED vars
             \/ \E D \in SUBSET Jobs : CleanExpiredJobs(D)
      PROVE  UNCHANGED <<qstate, attemptsMade, stalls>>
  BY <1>8 DEF SubmitJob, RetryJob, CreateRow, EnqueueRejected, CancelCheck, CancelWrite,
              CallbackWrites, ApiCrash, WorkerCrash, DatabaseCallFails, CleanExpiredJobs, vars
<1>9. ASSUME NEW s \in Slots,
             \/ Generate(s) \/ Govern(s) \/ ReuseResult(s) \/ MarkComplete(s)
             \/ AnnounceResult(s) \/ GovernanceBlocked(s) \/ Throw(s) \/ CatchError(s)
      PROVE  UNCHANGED <<qstate, attemptsMade, stalls>>
  BY <1>9 DEF Generate, Govern, CreateJobRecord, SubmitToAi, PollComplete, PollEnds, PollPending,
              ModerateContent, ValidateConsent, SignC2PA, EmbedWatermark, ReuseResult,
              MarkComplete, AnnounceResult, GovernanceBlocked, Throw, CatchError
<1>10. Rises
  BY <1>1, <1>3, <1>4, <1>5, <1>6, <1>7, <1>8, <1>9 DEF Next, Api, Process, Complete, Fail
<1> QED BY <1>2, <1>10

\* Only a submission to the AI service counts as one.
LEMMA SubmissionsOf ==
  ASSUME TypeOK, Requested, [Next]_vars, NEW j \in Jobs
  PROVE  \/ submissions'[j] = submissions[j]
         \/ \E s \in Slots : /\ SubmitToAi(s) /\ job[s] = j
                           /\ submissions'[j] <= submissions[j] + AiPostAttempts
<1> USE DEF serviceVars
<1>0. ServiceTypes /\ SlotsRequested
  BY DEF TypeOK, Requested
<1>1. ASSUME NEW s \in Slots, SubmitToAi(s)
      PROVE  \/ submissions'[j] = submissions[j]
             \/ job[s] = j /\ submissions'[j] <= submissions[j] + AiPostAttempts
  <2>1. PICK n \in 0 .. AiPostAttempts :
          submissions' = [submissions EXCEPT ![job[s]] = @ + n]
    BY <1>1 DEF SubmitToAi, Posts
  <2>2. n \in Nat /\ n <= AiPostAttempts
    BY <2>1, Bounds
  <2> QED BY <1>0, <2>1, <2>2, Bounds DEF ServiceTypes
<1>2. ASSUME NEW s \in Slots,
             \/ CreateJobRecord(s) \/ PollComplete(s) \/ PollPending(s) \/ Govern(s)
             \/ Complete(s) \/ Fail(s) \/ \E k \in Jobs : StartJob(s, k)
      PROVE  submissions' = submissions
  BY <1>2 DEF CreateJobRecord, PollComplete, PollEnds, PollPending, Govern, ModerateContent,
              ValidateConsent, SignC2PA, EmbedWatermark, Complete, ReuseResult, MarkComplete,
              AnnounceResult, ReturnResult, Fail, GovernanceBlocked, Throw, CatchError,
              Rethrow, StartJob
<1>3. ASSUME \/ Api \/ WorkerCrash \/ DatabaseCallFails \/ UNCHANGED vars
             \/ \E k \in Jobs : CallbackWrites(k) \/ StalledCheck(k)
             \/ \E D \in SUBSET Jobs : CleanExpiredJobs(D)
      PROVE  submissions' = submissions
  BY <1>3 DEF Api, SubmitJob, RetryJob, CreateRow, EnqueueGeneration, EnqueueRejected,
              CancelCheck, CancelWrite, ApiCrash, WorkerCrash, DatabaseCallFails,
              CallbackWrites, StalledCheck, CleanExpiredJobs, vars
<1> QED BY <1>1, <1>2, <1>3 DEF Next, Process, Generate

\* Only an execution that ends in a failure adds a dead letter.
LEMMA DeadLettersOf ==
  ASSUME TypeOK, Requested, [Next]_vars, NEW j \in Jobs
  PROVE  \/ deadLetters'[j] = deadLetters[j]
         \/ \E s \in Slots : /\ GovernanceBlocked(s) \/ CatchError(s)
                           /\ job[s] = j /\ attempt[s] + 1 >= DlqMaxRetries
                           /\ deadLetters'[j] = deadLetters[j] + 1
<1> USE DEF sinkVars
<1>0. SinkTypes /\ SlotsRequested
  BY DEF TypeOK, Requested
<1>1. ASSUME NEW s \in Slots, GovernanceBlocked(s) \/ CatchError(s)
      PROVE  \/ deadLetters'[j] = deadLetters[j]
             \/ /\ job[s] = j /\ attempt[s] + 1 >= DlqMaxRetries
                /\ deadLetters'[j] = deadLetters[j] + 1
  BY <1>0, <1>1 DEF GovernanceBlocked, CatchError, DeadLetter, SinkTypes
<1>2. ASSUME NEW s \in Slots,
             \/ Generate(s) \/ Govern(s) \/ Complete(s) \/ Throw(s)
             \/ Rethrow(s) \/ \E k \in Jobs : StartJob(s, k)
      PROVE  deadLetters' = deadLetters
  BY <1>2 DEF Generate, CreateJobRecord, SubmitToAi, PollComplete, PollEnds, PollPending, Govern,
              ModerateContent, ValidateConsent, SignC2PA, EmbedWatermark, Complete,
              ReuseResult, MarkComplete, AnnounceResult, ReturnResult, Throw, Rethrow, StartJob
<1>3. ASSUME \/ Api \/ WorkerCrash \/ DatabaseCallFails \/ UNCHANGED vars
             \/ \E k \in Jobs : CallbackWrites(k) \/ StalledCheck(k)
             \/ \E D \in SUBSET Jobs : CleanExpiredJobs(D)
      PROVE  deadLetters' = deadLetters
  BY <1>3 DEF Api, SubmitJob, RetryJob, CreateRow, EnqueueGeneration, EnqueueRejected,
              CancelCheck, CancelWrite, ApiCrash, WorkerCrash, DatabaseCallFails,
              CallbackWrites, StalledCheck, CleanExpiredJobs, vars
<1> QED BY <1>1, <1>2, <1>3 DEF Next, Process, Fail

LEMMA SubmissionsStep ==
  ASSUME TypeOK, Requested, SubmissionsCovered, [Next]_vars
  PROVE  SubmissionsCovered'
<1> SUFFICES ASSUME NEW j \in Jobs
             PROVE  Covered(AiPostAttempts, submissions[j], Submitting(j), HandedOut(j))'
  BY DEF SubmissionsCovered
<1> DEFINE a == AiPostAttempts
           u == submissions[j]
           S == Submitting(j)
           k == HandedOut(j)
<1>0. SlotTypes /\ TypeOK'
  BY TypeStep DEF TypeOK
<1>1. a \in Nat /\ u \in Nat /\ u' \in Nat /\ k \in Nat /\ k' \in Nat
  <2>1. \A i \in Jobs : submissions[i] \in Nat /\ submissions'[i] \in Nat
    BY <1>0 DEF TypeOK, ServiceTypes
  <2>2. HandedOut(j) \in Nat
    BY HandingOutTypes
  <2>3. HandedOut(j)' \in Nat
    <3>1. QueueTypes'
      BY <1>0 DEF TypeOK
    <3> QED BY <3>1, Bounds DEF QueueTypes, HandedOut
  <2> QED BY <2>1, <2>2, <2>3, Bounds
<1>2. k' >= k
  BY HandingOut
<1>3. (\A s \in Slots : GoesOn(s)) => S' \subseteq S
  BY <1>0 DEF GoesOn, Submitting
<1>4. ASSUME NEW s \in Slots, NEW i \in Jobs, StartJob(s, i)
      PROVE  IF i = j THEN S' \subseteq S \cup {s} ELSE S' \subseteq S
  BY <1>0, <1>4 DEF StartJob, Submitting, SlotTypes
<1>5. ASSUME NEW s \in Slots, SubmitToAi(s), job[s] = j
      PROVE  s \in S /\ S' \subseteq S \ {s}
  BY <1>0, <1>5 DEF SubmitToAi, Advance, Submitting, SlotTypes
<1>6. \/ u' = u /\ S' \subseteq S /\ k' >= k
      \/ u' = u /\ k' >= k + 1 /\ \E x : S' \subseteq S \cup {x}
      \/ u' <= u + a /\ k' >= k /\ \E x \in S : S' \subseteq S \ {x}
  <2>1. CASE u' = u /\ \A s \in Slots : GoesOn(s)
    BY <1>2, <1>3, <2>1
  <2>2. ASSUME NEW s \in Slots, NEW i \in Jobs, StartJob(s, i)
        PROVE  \/ u' = u /\ S' \subseteq S /\ k' >= k
               \/ u' = u /\ k' >= k + 1 /\ \E x : S' \subseteq S \cup {x}
    <3>1. u' = u
      BY <2>2 DEF StartJob, serviceVars
    <3>2. CASE i = j
      BY <1>1, <1>4, <2>2, <3>1, <3>2, HandingOut
    <3>3. CASE i # j
      BY <1>2, <1>4, <2>2, <3>1, <3>3
    <3> QED BY <3>2, <3>3
  <2>3. ASSUME NEW s \in Slots, SubmitToAi(s), job[s] = j, u' <= u + a
        PROVE  u' <= u + a /\ k' >= k /\ \E x \in S : S' \subseteq S \ {x}
    BY <1>2, <1>5, <2>3
  <2> QED BY <2>1, <2>2, <2>3, SlotsGoOn, SubmissionsOf
<1>7. Covered(a, u, S, k)
  BY DEF SubmissionsCovered
<1> HIDE DEF a, u, S, k
<1>8. Covered(a, u', S', k')
  BY <1>1, <1>6, <1>7, CoveredStep
<1> QED BY <1>8 DEF a, u, S, k, Covered

\* The worker's limit is not below the queue's: what it dead-letters has no
\* attempt left.
LEMMA DeadLettersStep ==
  ASSUME DlqMaxRetries >= Attempts,
         TypeOK, Requested, DeadLettersCovered, [Next]_vars
  PROVE  DeadLettersCovered'
<1> SUFFICES ASSUME NEW j \in Jobs
             PROVE  Covered(1, deadLetters[j], LastAttempts(j), HandedOutLast(j))'
  BY DEF DeadLettersCovered
<1> DEFINE u == deadLetters[j]
           S == LastAttempts(j)
           k == HandedOutLast(j)
<1>0. SlotTypes /\ QueueTypes /\ TypeOK'
  BY TypeStep DEF TypeOK
<1>1. u \in Nat /\ u' \in Nat /\ k \in Nat /\ k' \in Nat
  <2>1. \A i \in Jobs : deadLetters[i] \in Nat /\ deadLetters'[i] \in Nat
    BY <1>0 DEF TypeOK, SinkTypes
  <2>2. HandedOutLast(j) \in Nat
    BY HandingOutTypes
  <2>3. HandedOutLast(j)' \in Nat
    <3>1. QueueTypes'
      BY <1>0 DEF TypeOK
    <3> QED BY <3>1, Bounds DEF QueueTypes, HandedOutLast
  <2> QED BY <2>1, <2>2, <2>3
<1>2. k' >= k
  BY HandingOut
<1>3. (\A s \in Slots : GoesOn(s)) => S' \subseteq S
  BY <1>0 DEF GoesOn, LastAttempts
<1>4. ASSUME NEW s \in Slots, NEW i \in Jobs, StartJob(s, i)
      PROVE  IF i = j /\ attemptsMade[j] + 1 >= Attempts THEN S' \subseteq S \cup {s}
             ELSE S' \subseteq S
  <2>1. \A t \in Slots \ {s} : /\ pc'[t] = pc[t] /\ job'[t] = job[t]
                              /\ attempt'[t] = attempt[t]
    BY <1>0, <1>4 DEF StartJob, SlotTypes
  <2>2. job'[s] = i /\ attempt'[s] = attemptsMade[i]
    BY <1>0, <1>4 DEF StartJob, SlotTypes
  <2>3. S' \subseteq S \cup {s}
    BY <2>1 DEF LastAttempts
  <2>4. s \in S' => i = j /\ attemptsMade[j] + 1 >= Attempts
    BY <2>2 DEF LastAttempts
  <2> QED BY <2>3, <2>4
<1>5. ASSUME NEW s \in Slots, GovernanceBlocked(s) \/ CatchError(s), job[s] = j,
             attempt[s] + 1 >= DlqMaxRetries
      PROVE  s \in S /\ S' \subseteq S \ {s}
  <2>1. pc[s] \in {"blocked", "catch"} /\ pc' = [pc EXCEPT ![s] = "rethrow"]
        /\ job' = job /\ attempt' = attempt
    BY <1>5 DEF GovernanceBlocked, CatchError, Advance
  <2>2. attempt[s] + 1 >= Attempts
    BY <1>0, <1>5, ConstantsAssumption DEF SlotTypes
  <2> QED BY <1>0, <1>5, <2>1, <2>2 DEF LastAttempts, SlotTypes
<1>6. \/ u' = u /\ S' \subseteq S /\ k' >= k
      \/ u' = u /\ k' >= k + 1 /\ \E x : S' \subseteq S \cup {x}
      \/ u' <= u + 1 /\ k' >= k /\ \E x \in S : S' \subseteq S \ {x}
  <2>1. CASE u' = u /\ \A s \in Slots : GoesOn(s)
    BY <1>2, <1>3, <2>1
  <2>2. ASSUME NEW s \in Slots, NEW i \in Jobs, StartJob(s, i)
        PROVE  \/ u' = u /\ S' \subseteq S /\ k' >= k
               \/ u' = u /\ k' >= k + 1 /\ \E x : S' \subseteq S \cup {x}
    <3>1. u' = u
      BY <2>2 DEF StartJob, sinkVars
    <3>2. CASE i = j /\ attemptsMade[j] + 1 >= Attempts
      BY <1>1, <1>4, <2>2, <3>1, <3>2, HandingOut
    <3>3. CASE ~(i = j /\ attemptsMade[j] + 1 >= Attempts)
      BY <1>2, <1>4, <2>2, <3>1, <3>3
    <3> QED BY <3>2, <3>3
  <2>3. ASSUME NEW s \in Slots, GovernanceBlocked(s) \/ CatchError(s), job[s] = j,
               attempt[s] + 1 >= DlqMaxRetries, u' = u + 1
        PROVE  u' <= u + 1 /\ k' >= k /\ \E x \in S : S' \subseteq S \ {x}
    BY <1>1, <1>2, <1>5, <2>3
  <2> QED BY <2>1, <2>2, <2>3, SlotsGoOn, DeadLettersOf
<1>7. Covered(1, u, S, k)
  BY DEF DeadLettersCovered
<1> HIDE DEF u, S, k
<1>8. Covered(1, u', S', k')
  BY <1>1, <1>6, <1>7, CoveredStep
<1> QED BY <1>8 DEF u, S, k, Covered

-----------------------------------------------------------------------------
LEMMA CoveredInit == Init => SubmissionsCovered /\ DeadLettersCovered
<1> SUFFICES ASSUME Init, NEW j \in Jobs
             PROVE  /\ Covered(AiPostAttempts, submissions[j], Submitting(j), HandedOut(j))
                    /\ Covered(1, deadLetters[j], LastAttempts(j), HandedOutLast(j))
  BY DEF SubmissionsCovered, DeadLettersCovered
<1>1. Submitting(j) = {} /\ LastAttempts(j) = {}
  BY DEF Init, Submitting, LastAttempts
<1>2. HandedOut(j) = 0 /\ HandedOutLast(j) = 0
  BY Bounds DEF Init, HandedOut, HandedOutLast
<1>3. submissions[j] = 0 /\ deadLetters[j] = 0
  BY DEF Init
<1> QED BY <1>1, <1>2, <1>3, FS_EmptySet, Bounds DEF Covered

LEMMA SubmissionsBounded ==
  ASSUME TypeOK, SubmissionsCovered
  PROVE  SubmissionBudget
<1> SUFFICES ASSUME NEW j \in Jobs
             PROVE  submissions[j] <= AiPostAttempts * (Attempts + MaxStalledCount)
  BY DEF SubmissionBudget
<1> DEFINE n == Cardinality(Submitting(j))
           k == HandedOut(j)
           K == Attempts + MaxStalledCount
<1>1. n \in Nat /\ submissions[j] + AiPostAttempts * n <= AiPostAttempts * k
  BY FS_CardinalityType DEF SubmissionsCovered, Covered
<1>2. k \in Nat /\ K \in Nat /\ k <= K
  BY Bounds DEF TypeOK, QueueTypes, HandedOut
<1>3. submissions[j] \in Nat /\ AiPostAttempts \in Nat
  BY Bounds DEF TypeOK, ServiceTypes
<1> HIDE DEF n, k, K
<1>4. \A a, l, m \in Nat : a * l \in Nat /\ (l <= m => a * l <= a * m)
  OBVIOUS
<1>5. AiPostAttempts * n \in Nat /\ AiPostAttempts * k \in Nat /\ AiPostAttempts * K \in Nat
      /\ AiPostAttempts * k <= AiPostAttempts * K
  BY <1>1, <1>2, <1>3, <1>4
<1>6. submissions[j] <= AiPostAttempts * K
  BY <1>1, <1>3, <1>5
<1> QED BY <1>6 DEF K

LEMMA DeadLettersBounded ==
  ASSUME TypeOK, DeadLettersCovered
  PROVE  DeadLettersAreLast
<1> SUFFICES ASSUME NEW j \in Jobs
             PROVE  /\ deadLetters[j] > 0 => attemptsMade[j] >= Attempts - 1
                    /\ deadLetters[j] <= 1 + stalls[j]
  BY DEF DeadLettersAreLast
<1> DEFINE n == Cardinality(LastAttempts(j))
<1>1. n \in Nat /\ deadLetters[j] + 1 * n <= 1 * HandedOutLast(j)
  BY FS_CardinalityType DEF DeadLettersCovered, Covered
<1>2. deadLetters[j] \in Nat /\ attemptsMade[j] \in Nat /\ stalls[j] \in Nat
  BY Bounds DEF TypeOK, SinkTypes, QueueTypes
<1> HIDE DEF n
<1>3. HandedOutLast(j) \in Nat /\ deadLetters[j] <= HandedOutLast(j)
  BY <1>1, <1>2, HandingOutTypes
<1> QED BY <1>2, <1>3, Bounds DEF HandedOutLast

\* The AI service never gets more POSTs for a job than the attempts, the
\* tolerated stalls and the client's retries multiply out to, also when several
\* live executions have the same job (fetchWithRetry, aiApiClient.ts:92).
THEOREM SubmissionsWithinBudget == Spec => []SubmissionBudget
<1>1. TypeOK /\ Requested /\ SubmissionsCovered /\ [Next]_vars => SubmissionsCovered'
  BY SubmissionsStep
<1>2. TypeOK /\ SubmissionsCovered => SubmissionBudget
  BY SubmissionsBounded
<1> QED BY <1>1, <1>2, CoveredInit, RequestedCorrect, PTL DEF Spec

\* With a limit of the worker that is not below the queue's attempts (both are 3:
\* generationWorker.ts:41, generationQueue.ts:60) a job is dead-lettered on its
\* last attempt only, and once more at most for each stall.
THEOREM DeadLettersHaveNoRetry ==
  ASSUME DlqMaxRetries >= Attempts
  PROVE  Spec => []DeadLettersAreLast
<1>1. TypeOK /\ Requested /\ DeadLettersCovered /\ [Next]_vars => DeadLettersCovered'
  BY DeadLettersStep
<1>2. TypeOK /\ DeadLettersCovered => DeadLettersAreLast
  BY DeadLettersBounded
<1> QED BY <1>1, <1>2, CoveredInit, RequestedCorrect, PTL DEF Spec

-----------------------------------------------------------------------------
(* What the queue knows: executions and their locks, and how jobs end.       *)

\* Live executions of a job.
Executions(j) == {s \in Slots : Executing(s, j)}

\* A job has no more live executions than one and one for each stall.
ExecutionsBounded ==
  \A j \in Jobs : /\ IsFiniteSet(Executions(j))
                  /\ Cardinality(Executions(j)) <= 1 + stalls[j]

\* Until BullMQ notices a stall of a job, it has one live execution at most, which
\* has the lock, and none while the job waits or after it has ended.
ExecutesAlone ==
  \A j \in Jobs : stalls[j] = 0 /\ qstate[j] # "failed" =>
    \A s \in Executions(j) : qstate[j] = "active" /\ Executions(j) = {s}

\* Live executions of a job whose lock has lapsed.
Zombies(j) == {s \in Executions(j) : ~(qstate[j] = "active" /\ owner[j] = s)}

\* The stalls of a job that were noticed: those that were counted, and the one
\* that failed the job.
Noticed(j) == stalls[j] + (IF qstate[j] = "failed" THEN 1 ELSE 0)

\* A live execution has its lock, or there was a stall of the job for it.
ZombiesCovered == \A j \in Jobs : Covered(1, 0, Zombies(j), Noticed(j))

\* The queue has a job as completed with a return value only, and gives it up only
\* when its attempts are used up or it has stalled as often as tolerated.
EndsJustified ==
  \A j \in Jobs :
    /\ qstate[j] = "completed" => returned[j] # None
    /\ qstate[j] = "failed" => attemptsMade[j] = Attempts \/ stalls[j] = MaxStalledCount

\* The five actions in which BullMQ changes what it keeps of a job.
LEMMA QueueSteps ==
  ASSUME [Next]_vars
  PROVE  \/ UNCHANGED <<qstate, owner, attemptsMade, stalls, returned>>
         \/ \E j \in Jobs : \/ EnqueueGeneration(j) \/ StalledCheck(j)
                            \/ \E s \in Slots : StartJob(s, j)
         \/ \E s \in Slots : ReturnResult(s) \/ Rethrow(s)
<1> USE DEF queueVars
<1>1. ASSUME NEW s \in Slots,
             \/ Generate(s) \/ Govern(s) \/ ReuseResult(s) \/ MarkComplete(s)
             \/ AnnounceResult(s) \/ GovernanceBlocked(s) \/ Throw(s) \/ CatchError(s)
      PROVE  UNCHANGED <<qstate, owner, attemptsMade, stalls, returned>>
  BY <1>1 DEF Generate, Govern, CreateJobRecord, SubmitToAi, PollComplete, PollEnds, PollPending,
              ModerateContent, ValidateConsent, SignC2PA, EmbedWatermark, ReuseResult,
              MarkComplete, AnnounceResult, GovernanceBlocked, Throw, CatchError
<1>2. ASSUME \/ \E k \in Jobs : \/ \E x \in Inputs : SubmitJob(k, x)
                                \/ \E i \in Jobs : RetryJob(k, i)
                                \/ EnqueueRejected(k) \/ CancelCheck(k) \/ CancelWrite(k)
                                \/ CallbackWrites(k)
             \/ ApiCrash \/ WorkerCrash \/ DatabaseCallFails \/ UNCHANGED vars
             \/ \E D \in SUBSET Jobs : CleanExpiredJobs(D)
      PROVE  UNCHANGED <<qstate, owner, attemptsMade, stalls, returned>>
  BY <1>2 DEF SubmitJob, RetryJob, CreateRow, EnqueueRejected, CancelCheck, CancelWrite,
              CallbackWrites, ApiCrash, WorkerCrash, DatabaseCallFails, CleanExpiredJobs, vars
<1> QED BY <1>1, <1>2 DEF Next, Api, Process, Complete, Fail

\* The lock a live execution loses, it loses to a stall.
LEMMA ZombiesOf ==
  ASSUME TypeOK, Requested, [Next]_vars, NEW j \in Jobs
  PROVE  \/ Zombies(j)' \subseteq Zombies(j) /\ Noticed(j)' >= Noticed(j)
         \/ /\ Noticed(j)' >= Noticed(j) + 1
            /\ \E x : Zombies(j)' \subseteq Zombies(j) \cup {x}
<1> USE DEF slotVars
<1> DEFINE Good == \/ Zombies(j)' \subseteq Zombies(j) /\ Noticed(j)' >= Noticed(j)
                   \/ /\ Noticed(j)' >= Noticed(j) + 1
                      /\ \E x : Zombies(j)' \subseteq Zombies(j) \cup {x}
<1>0. SlotTypes /\ QueueTypes /\ RowsRequested /\ SlotsRequested
  BY DEF TypeOK, Requested
<1>1. stalls[j] \in Nat /\ Noticed(j) \in Nat
  BY <1>0, Bounds DEF QueueTypes, Noticed
<1>2. (\A s \in Slots : GoesOn(s)) => Executions(j)' \subseteq Executions(j)
  BY <1>0 DEF GoesOn, Executions, Executing
<1>3. ASSUME UNCHANGED <<qstate, owner, attemptsMade, stalls>>,
             \A s \in Slots : GoesOn(s)
      PROVE  Good
  BY <1>1, <1>2, <1>3 DEF Zombies, Noticed
<1>4. ASSUME NEW s \in Slots, NEW k \in Jobs, StartJob(s, k) PROVE Good
  <2>1. \A t \in Slots \ {s} : pc'[t] = pc[t] /\ job'[t] = job[t]
    BY <1>0, <1>4 DEF StartJob, SlotTypes
  <2>2. job'[s] = k /\ Executions(j)' \subseteq Executions(j) \cup {s}
    BY <1>0, <1>4, <2>1 DEF StartJob, SlotTypes, Executions, Executing
  <2>3. /\ qstate[k] = "wait" /\ qstate'[k] = "active" /\ owner'[k] = s
        /\ k # j => qstate'[j] = qstate[j] /\ owner'[j] = owner[j]
        /\ stalls' = stalls
    BY <1>0, <1>4 DEF StartJob, QueueTypes
  <2>4. Noticed(j)' >= Noticed(j)
    BY <1>1, <2>3 DEF Noticed
  <2>5. s \in Executions(j)' => k = j
    BY <2>2 DEF Executions, Executing
  <2>6. Zombies(j)' \subseteq Zombies(j)
    BY <2>2, <2>3, <2>5 DEF Zombies
  <2> QED BY <2>4, <2>6
<1>5. ASSUME NEW k \in Jobs, EnqueueGeneration(k) PROVE Good
  <2>1. /\ qstate[k] = "none" /\ qstate'[k] = "wait"
        /\ k # j => qstate'[j] = qstate[j]
        /\ owner' = owner /\ stalls' = stalls
    BY <1>0, <1>5 DEF EnqueueGeneration, QueueTypes, RowsRequested
  <2>2. Executions(j)' = Executions(j)
    BY <1>5 DEF EnqueueGeneration, Executions, Executing
  <2>3. Noticed(j)' >= Noticed(j)
    BY <1>1, <2>1 DEF Noticed
  <2> QED BY <2>1, <2>2, <2>3 DEF Zombies
<1>6. ASSUME NEW k \in Jobs, StalledCheck(k) PROVE Good
  <2>1. Executions(j)' = Executions(j)
    BY <1>6 DEF StalledCheck, Executions, Executing
  <2>2. CASE k = j
    <3>1. Noticed(j)' = Noticed(j) + 1
      BY <1>0, <1>1, <1>6, <2>2 DEF StalledCheck, QueueTypes, Noticed
    <3>2. Zombies(j)' \subseteq Zombies(j) \cup {owner[j]}
      BY <2>1 DEF Zombies
    <3> QED BY <1>1, <3>1, <3>2
  <2>3. CASE k # j
    <3>1. qstate'[j] = qstate[j] /\ owner'[j] = owner[j] /\ stalls'[j] = stalls[j]
      BY <1>0, <1>6, <2>3 DEF StalledCheck, QueueTypes
    <3>2. Noticed(j)' >= Noticed(j)
      BY <1>1, <3>1 DEF Noticed
    <3> QED BY <2>1, <3>1, <3>2 DEF Zombies
  <2> QED BY <2>2, <2>3
<1>7. ASSUME NEW s \in Slots, ReturnResult(s) \/ Rethrow(s) PROVE Good
  <2>1. Executions(j)' \subseteq Executions(j) \ {s}
    BY <1>0, <1>7 DEF ReturnResult, Rethrow, Release, SlotTypes, Executions, Executing
  <2>2. stalls' = stalls
    BY <1>7 DEF ReturnResult, Rethrow
  <2>3. \/ qstate'[j] = qstate[j] /\ owner'[j] = owner[j]
        \/ qstate[j] = "active" /\ owner[j] = s
    BY <1>0, <1>7 DEF ReturnResult, Rethrow, HoldsLock, QueueTypes
  <2>4. Noticed(j)' >= Noticed(j)
    BY <1>1, <2>2, <2>3 DEF Noticed
  <2>5. Zombies(j)' \subseteq Zombies(j)
    BY <2>1, <2>3 DEF Zombies
  <2> QED BY <2>4, <2>5
<1> QED BY <1>3, <1>4, <1>5, <1>6, <1>7, QueueSteps, SlotsGoOn

LEMMA ZombiesStep ==
  ASSUME TypeOK, Requested, ZombiesCovered, [Next]_vars
  PROVE  ZombiesCovered'
<1> SUFFICES ASSUME NEW j \in Jobs PROVE Covered(1, 0, Zombies(j), Noticed(j))'
  BY DEF ZombiesCovered
<1> DEFINE S == Zombies(j)
           k == Noticed(j)
<1>1. k \in Nat /\ k' \in Nat
  <2>1. \A i \in Jobs : stalls[i] \in Nat /\ stalls'[i] \in Nat
    BY TypeStep, Bounds DEF TypeOK, QueueTypes
  <2> QED BY <2>1 DEF Noticed
<1>2. \/ S' \subseteq S /\ k' >= k
      \/ k' >= k + 1 /\ \E x : S' \subseteq S \cup {x}
  BY ZombiesOf
<1>3. Covered(1, 0, S, k)
  BY DEF ZombiesCovered
<1> HIDE DEF S, k
<1>4. Covered(1, 0, S', k')
  BY <1>1, <1>2, <1>3, CoveredStep
<1> QED BY <1>4 DEF S, k, Covered

LEMMA EndsStep ==
  ASSUME TypeOK, Requested, EndsJustified, [Next]_vars
  PROVE  EndsJustified'
<1> SUFFICES ASSUME NEW j \in Jobs
             PROVE  /\ qstate'[j] = "completed" => returned'[j] # None
                    /\ qstate'[j] = "failed" =>
                         attemptsMade'[j] = Attempts \/ stalls'[j] = MaxStalledCount
  BY DEF EndsJustified
<1> DEFINE Good == /\ qstate'[j] = "completed" => returned'[j] # None
                   /\ qstate'[j] = "failed" =>
                        attemptsMade'[j] = Attempts \/ stalls'[j] = MaxStalledCount
<1>0. QueueTypes /\ RowsRequested /\ SlotsRequested
  BY DEF TypeOK, Requested
<1>1. ASSUME /\ qstate'[j] = qstate[j] /\ returned'[j] = returned[j]
             /\ attemptsMade'[j] = attemptsMade[j] /\ stalls'[j] = stalls[j]
      PROVE  Good
  BY <1>1 DEF EndsJustified
<1>2. ASSUME NEW k \in Jobs, EnqueueGeneration(k) \/ \E s \in Slots : StartJob(s, k)
      PROVE  Good
  <2>1. /\ qstate'[k] \in {"wait", "active"} /\ attemptsMade' = attemptsMade
        /\ stalls' = stalls /\ returned' = returned /\ (k # j => qstate'[j] = qstate[j])
    BY <1>0, <1>2 DEF EnqueueGeneration, StartJob, QueueTypes
  <2> QED BY <1>1, <2>1
<1>3. ASSUME NEW k \in Jobs, StalledCheck(k) PROVE Good
  <2>1. CASE k = j
    BY <1>0, <1>3, <2>1 DEF StalledCheck, QueueTypes
  <2>2. CASE k # j
    BY <1>0, <1>1, <1>3, <2>2 DEF StalledCheck, QueueTypes
  <2> QED BY <2>1, <2>2
<1>4. ASSUME NEW s \in Slots, ReturnResult(s) PROVE Good
  <2>1. out[s] # None
    BY <1>0, <1>4, Bounds DEF ReturnResult, SlotsRequested, Holding
  <2>2. CASE HoldsLock(s) /\ job[s] = j
    BY <1>0, <1>4, <2>1, <2>2 DEF ReturnResult, QueueTypes
  <2>3. CASE ~(HoldsLock(s) /\ job[s] = j)
    BY <1>0, <1>1, <1>4, <2>3 DEF ReturnResult, QueueTypes
  <2> QED BY <2>2, <2>3
<1>5. ASSUME NEW s \in Slots, Rethrow(s) PROVE Good
  <2>1. CASE HoldsLock(s) /\ job[s] = j
    <3>1. /\ attemptsMade[j] < Attempts /\ attemptsMade[j] \in Nat
          /\ attemptsMade'[j] = attemptsMade[j] + 1
          /\ qstate'[j] = IF attemptsMade[j] + 1 < Attempts THEN "wait" ELSE "failed"
      BY <1>0, <1>5, <2>1, Bounds DEF Rethrow, HoldsLock, QueueTypes, RowsRequested
    <3> QED BY <3>1, Bounds
  <2>2. CASE ~(HoldsLock(s) /\ job[s] = j)
    BY <1>0, <1>1, <1>5, <2>2 DEF Rethrow, QueueTypes
  <2> QED BY <2>1, <2>2
<1>6. CASE UNCHANGED <<qstate, owner, attemptsMade, stalls, returned>>
  BY <1>1, <1>6
<1> QED BY <1>2, <1>3, <1>4, <1>5, <1>6, QueueSteps

-----------------------------------------------------------------------------
LEMMA QueueInit == Init => ZombiesCovered /\ EndsJustified
<1> SUFFICES ASSUME Init
             PROVE  /\ \A j \in Jobs : Covered(1, 0, Zombies(j), Noticed(j))
                    /\ EndsJustified
  BY DEF ZombiesCovered
<1>1. \A j \in Jobs : Zombies(j) = {} /\ Noticed(j) = 0
  BY DEF Init, Zombies, Executions, Executing, Noticed
<1>2. EndsJustified
  BY DEF Init, EndsJustified
<1> QED BY <1>1, <1>2, FS_EmptySet DEF Covered

LEMMA ExecutionsBoundedBy ==
  ASSUME TypeOK, ZombiesCovered
  PROVE  ExecutionsBounded
<1> SUFFICES ASSUME NEW j \in Jobs
             PROVE  IsFiniteSet(Executions(j)) /\ Cardinality(Executions(j)) <= 1 + stalls[j]
  BY DEF ExecutionsBounded
<1> DEFINE Z == Zombies(j)
           n == Cardinality(Z)
<1>1. stalls[j] \in Nat /\ IsFiniteSet(Z) /\ n \in Nat /\ n <= Noticed(j)
  <2>1. stalls[j] \in Nat /\ Noticed(j) \in Nat
    BY Bounds DEF TypeOK, QueueTypes, Noticed
  <2>2. IsFiniteSet(Z) /\ 0 + 1 * n <= 1 * Noticed(j)
    BY DEF ZombiesCovered, Covered
  <2>3. n \in Nat
    BY <2>2, FS_CardinalityType
  <2> HIDE DEF n
  <2> QED BY <2>1, <2>2, <2>3
<1>2. CASE qstate[j] # "active"
  <2>1. Executions(j) = Z
    BY <1>2 DEF Zombies
  <2>2. Noticed(j) <= 1 + stalls[j]
    BY <1>1 DEF Noticed
  <2> HIDE DEF Z
  <2> QED BY <1>1, <2>1, <2>2 DEF Noticed
<1>3. CASE qstate[j] = "active"
  <2>1. Noticed(j) = stalls[j]
    BY <1>1, <1>3 DEF Noticed
  <2>2. Executions(j) \subseteq Z \cup {owner[j]}
    BY <1>3 DEF Zombies
  <2>3. /\ IsFiniteSet(Z \cup {owner[j]})
        /\ Cardinality(Z \cup {owner[j]}) = IF owner[j] \in Z THEN n ELSE n + 1
    BY <1>1, FS_AddElement
  <2>4. /\ IsFiniteSet(Executions(j))
        /\ Cardinality(Executions(j)) <= Cardinality(Z \cup {owner[j]})
        /\ Cardinality(Executions(j)) \in Nat
    BY <2>2, <2>3, FS_Subset, FS_CardinalityType
  <2> HIDE DEF Z, n
  <2> QED BY <1>1, <2>1, <2>3, <2>4
<1> QED BY <1>2, <1>3

\* A job has no more live executions than one and one for each stall that BullMQ
\* survived: each zombie was paid for by a lapsed lock (the stalled check).
THEOREM FewExecutions == Spec => []ExecutionsBounded
<1>1. TypeOK /\ Requested /\ ZombiesCovered /\ [Next]_vars => ZombiesCovered'
  BY ZombiesStep
<1>2. TypeOK /\ ZombiesCovered => ExecutionsBounded
  BY ExecutionsBoundedBy
<1> QED BY <1>1, <1>2, QueueInit, RequestedCorrect, PTL DEF Spec

LEMMA ExecutesAloneBy ==
  ASSUME TypeOK, ZombiesCovered
  PROVE  ExecutesAlone
<1> SUFFICES ASSUME NEW j \in Jobs, stalls[j] = 0, qstate[j] # "failed",
                    NEW s \in Executions(j)
             PROVE  qstate[j] = "active" /\ Executions(j) = {s}
  BY DEF ExecutesAlone
<1> DEFINE n == Cardinality(Zombies(j))
<1>1. IsFiniteSet(Zombies(j)) /\ n \in Nat /\ 0 + 1 * n <= 1 * Noticed(j)
  BY FS_CardinalityType DEF ZombiesCovered, Covered
<1>2. Noticed(j) = 0
  BY DEF Noticed
<1>3. n = 0
  <2> HIDE DEF n
  <2> QED BY <1>1, <1>2
<1>4. Zombies(j) = {}
  BY <1>1, <1>3, FS_EmptySet
<1> QED BY <1>4 DEF Zombies

\* As long as BullMQ has noticed no stall of a job, the job is never executed twice
\* at a time, nor after the queue has it as completed or has put it back to wait:
\* whatever crashes, retries and lapsing locks there are, each second execution has
\* a stall of its own behind it (StalledCheck), and nothing else brings one about.
THEOREM OneExecution == Spec => []ExecutesAlone
<1>1. TypeOK /\ Requested /\ ZombiesCovered /\ [Next]_vars => ZombiesCovered'
  BY ZombiesStep
<1>2. TypeOK /\ ZombiesCovered => ExecutesAlone
  BY ExecutesAloneBy
<1> QED BY <1>1, <1>2, QueueInit, RequestedCorrect, PTL DEF Spec

\* What the queue says of a job's end is so, whoever else wrote to the row and
\* whichever events were dropped: what it keeps as the result of a completed job was
\* cleared and made for that request (`return result`, generationWorker.ts:537),
\* and it gives a job up only when its attempts or the tolerated stalls are used up.
THEOREM QueueVerdicts == Spec => []VerdictsHold
<1>1. TypeOK /\ Requested /\ EndsJustified /\ [Next]_vars => EndsJustified'
  BY EndsStep
<1>2. EndsJustified /\ Matching /\ Governed => VerdictsHold
  <2> SUFFICES ASSUME EndsJustified, Matching, Governed, NEW j \in Jobs,
                      qstate[j] = "completed"
               PROVE  returned[j] \in GovernedOutputs /\ payload[returned[j][1]] = payload[j]
    BY DEF VerdictsHold, EndsJustified
  <2>1. returned[j] # None
    BY DEF EndsJustified
  <2>2. \A g \in BlockingStages : <<g, returned[j]>> \in cleared
    BY <2>1 DEF Governed
  <2>3. <<"consent_validation", returned[j]>> \in cleared
    BY <2>2 DEF BlockingStages, Stages
  <2>4. returned[j] \in GovernedOutputs
    BY <2>2, <2>3 DEF GovernedOutputs
  <2> QED BY <2>1, <2>4 DEF Matching, ReturnsMatch, MadeFor
<1> QED BY <1>1, <1>2, QueueInit, RequestedCorrect, GovernedCorrect, MatchingCorrect, PTL DEF Spec

-----------------------------------------------------------------------------
(* That an execution gets on: what its end needs besides fairness.           *)

\* How many steps of its own an execution at point p has before it, at most, after
\* n rounds of the loop it is in; a loop counts once for each round left.
StepsFrom(p, n) ==
  CASE p = "idle" -> 0
    [] p \in {"return", "rethrow"} -> 1
    [] p \in {"catch", "blocked"} -> 2
    [] p \in {"reuse", "done"} -> 3
    [] p = "quality_check" -> 4
    [] p = "watermarking" -> 5
    [] p = "c2pa_signing" -> 6 + MaxTries - n
    [] p = "consent_validation" -> 7 + MaxTries
    [] p = "content_moderation" -> 8 + MaxTries
    [] p = "ai_processing" -> 9 + MaxTries + MaxTries - n
    [] p = "submit_to_ai" -> 10 + MaxTries + MaxTries
    [] p = "validate_input" -> 11 + MaxTries + MaxTries

StepsLeft(s) == StepsFrom(pc[s], tries[s])

\* Each step of an execution brings it nearer to its end, and nothing that others
\* do, be it users, callbacks or a second execution, takes it further away.
GetsOn(s) ==
  /\ StepsLeft(s) \in Nat
  /\ Process(s) => StepsLeft(s)' < StepsLeft(s)
  /\ pc[s] # "idle" => StepsLeft(s)' <= StepsLeft(s)

LEMMA StepsFromPoints ==
  \A n \in 0 .. MaxTries :
    /\ StepsFrom("idle", n) = 0
    /\ StepsFrom("return", n) = 1 /\ StepsFrom("rethrow", n) = 1
    /\ StepsFrom("catch", n) = 2 /\ StepsFrom("blocked", n) = 2
    /\ StepsFrom("reuse", n) = 3 /\ StepsFrom("done", n) = 3
    /\ StepsFrom("quality_check", n) = 4
    /\ StepsFrom("watermarking", n) = 5
    /\ StepsFrom("c2pa_signing", n) = 6 + MaxTries - n
    /\ StepsFrom("consent_validation", n) = 7 + MaxTries
    /\ StepsFrom("content_moderation", n) = 8 + MaxTries
    /\ StepsFrom("ai_processing", n) = 9 + MaxTries + MaxTries - n
    /\ StepsFrom("submit_to_ai", n) = 10 + MaxTries + MaxTries
    /\ StepsFrom("validate_input", n) = 11 + MaxTries + MaxTries
BY DEF StepsFrom

LEMMA StepsLeftTypes ==
  ASSUME TypeOK, NEW s \in Slots
  PROVE  /\ pc[s] \in Points /\ tries[s] \in 0 .. MaxTries
         /\ StepsLeft(s) \in Nat
         /\ pc[s] \in MayThrow => StepsLeft(s) > 2
<1>1. pc[s] \in Points /\ tries[s] \in 0 .. MaxTries
  BY DEF TypeOK, SlotTypes
<1>2. StepsLeft(s) \in Nat /\ (pc[s] \in MayThrow => StepsLeft(s) > 2)
  BY <1>1, StepsFromPoints, Bounds DEF StepsLeft, Points, Stages, MayThrow
<1> QED BY <1>1, <1>2

\* One step of an execution, and what it does to the others: nothing.
LEMMA ProcessNears ==
  ASSUME TypeOK, NEW s \in Slots, Process(s)
  PROVE  /\ StepsLeft(s)' < StepsLeft(s)
         /\ \A t \in Slots : t # s => pc'[t] = pc[t] /\ tries'[t] = tries[t]
<1> DEFINE Nears == /\ StepsLeft(s)' < StepsLeft(s)
                    /\ \A t \in Slots : t # s => pc'[t] = pc[t] /\ tries'[t] = tries[t]
           C == MaxTries
<1>0. SlotTypes /\ C \in Nat /\ tries[s] \in 0 .. C
  BY Bounds, StepsLeftTypes DEF TypeOK
<1>1. ASSUME NEW from, NEW to, Advance(s, from, to), tries' = tries,
             StepsFrom(to, tries[s]) < StepsFrom(from, tries[s])
      PROVE  Nears
  BY <1>0, <1>1 DEF Advance, SlotTypes, StepsLeft
<1>2. CASE CreateJobRecord(s) \/ ReuseResult(s) \/ MarkComplete(s)
  BY <1>0, <1>1, <1>2, StepsFromPoints DEF CreateJobRecord, ReuseResult, MarkComplete
<1>3. CASE AnnounceResult(s) \/ GovernanceBlocked(s) \/ CatchError(s)
  BY <1>0, <1>1, <1>3, StepsFromPoints DEF AnnounceResult, GovernanceBlocked, CatchError
<1>4. CASE SubmitToAi(s)
  BY <1>0, <1>1, <1>4, StepsFromPoints DEF SubmitToAi
<1>5. CASE ModerateContent(s) \/ ValidateConsent(s) \/ EmbedWatermark(s)
  BY <1>0, <1>1, <1>5, StepsFromPoints
     DEF ModerateContent, ValidateConsent, EmbedWatermark, Clear, Refuse
\* A loop goes round once more.
<1>9. ASSUME NEW p \in {"ai_processing", "c2pa_signing"}, Advance(s, p, p),
             tries' = [tries EXCEPT ![s] = @ + 1], tries[s] < C
      PROVE  Nears
  <2>1. pc'[s] = p /\ pc[s] = p /\ tries'[s] = tries[s] + 1
    BY <1>0, <1>9 DEF Advance, SlotTypes
  <2>2. tries[s] + 1 \in 0 .. C
    BY <1>0, <1>9
  <2>3. StepsLeft(s)' = StepsLeft(s) - 1 /\ StepsLeft(s) \in Nat
    BY <1>0, <1>9, <2>1, <2>2, StepsFromPoints DEF StepsLeft
  <2>4. \A t \in Slots : t # s => pc'[t] = pc[t] /\ tries'[t] = tries[t]
    BY <1>0, <1>9 DEF Advance, SlotTypes
  <2> QED BY <2>3, <2>4
<1>6. CASE SignC2PA(s)
  <2>1. StepsFrom("watermarking", tries[s]) < StepsFrom("c2pa_signing", tries[s])
        /\ StepsFrom("blocked", tries[s]) < StepsFrom("c2pa_signing", tries[s])
    BY <1>0, StepsFromPoints
  <2>2. tries[s] + 1 < C2paMaxRetries => tries[s] < C
    BY <1>0, Bounds
  <2> QED BY <1>1, <1>6, <1>9, <2>1, <2>2 DEF SignC2PA, Clear, Refuse
<1>10. CASE PollPending(s)
  <2>1. StepsFrom("catch", tries[s]) < StepsFrom("ai_processing", tries[s])
    BY <1>0, StepsFromPoints
  <2>2. tries[s] + 1 < AiPollMaxAttempts => tries[s] < C
    BY <1>0, Bounds
  <2> QED BY <1>1, <1>9, <1>10, <2>1, <2>2 DEF PollPending
<1>11. CASE PollComplete(s)
  <2>1. /\ pc[s] = "ai_processing" /\ pc'[s] = "content_moderation" /\ tries'[s] = 0
        /\ \A t \in Slots : t # s => pc'[t] = pc[t] /\ tries'[t] = tries[t]
    BY <1>0, <1>11 DEF PollComplete, PollEnds, Advance, SlotTypes
  <2>2. StepsFrom("content_moderation", 0) < StepsFrom("ai_processing", tries[s])
    BY <1>0, StepsFromPoints
  <2> QED BY <2>1, <2>2 DEF StepsLeft
<1>7. CASE ReturnResult(s) \/ Rethrow(s)
  <2>1. pc'[s] = "idle" /\ tries'[s] = 0 /\ StepsLeft(s) = 1
    BY <1>0, <1>7, StepsFromPoints
       DEF ReturnResult, Rethrow, Release, SlotTypes, StepsLeft
  <2>2. \A t \in Slots : t # s => pc'[t] = pc[t] /\ tries'[t] = tries[t]
    BY <1>0, <1>7 DEF ReturnResult, Rethrow, Release, SlotTypes
  <2> QED BY <1>0, <2>1, <2>2, StepsFromPoints DEF StepsLeft
<1>8. CASE Throw(s)
  <2>1. pc'[s] = "catch" /\ tries' = tries /\ StepsLeft(s) > 2
    BY <1>0, <1>8, StepsLeftTypes DEF Throw, SlotTypes
  <2>2. \A t \in Slots : t # s => pc'[t] = pc[t]
    BY <1>0, <1>8 DEF Throw, SlotTypes
  <2> QED BY <1>0, <2>1, <2>2, StepsFromPoints DEF StepsLeft
<1> QED
  BY <1>2, <1>3, <1>4, <1>5, <1>6, <1>7, <1>8, <1>10, <1>11
     DEF Process, Generate, Govern, Complete, Fail

\* No execution can go on for ever: it ends after at most 11 steps of its own, and
\* one for each round of its two loops, the polls of pollAiJobUntilDone
\* (generationWorker.ts:322) and the signing attempts of governancePipeline.ts:75,
\* whatever the services answer and whoever else moves.
THEOREM ExecutionsGetOn == Spec => [][\A s \in Slots : GetsOn(s)]_vars
<1>1. ASSUME TypeOK, TypeOK', [Next]_vars PROVE [\A s \in Slots : GetsOn(s)]_vars
  <2> SUFFICES ASSUME Next, NEW s \in Slots PROVE GetsOn(s)
    BY <1>1
  <2>0. /\ StepsLeft(s) \in Nat /\ pc[s] \in Points
        /\ tries[s] \in 0 .. MaxTries
    BY <1>1, StepsLeftTypes
  <2> StepsLeft(s)' \in Nat
    <3>1. pc'[s] \in Points /\ tries'[s] \in 0 .. MaxTries
      BY <1>1 DEF TypeOK, SlotTypes
    <3> QED BY <3>1, StepsFromPoints, Bounds DEF StepsLeft, Points, Stages
  <2>1. CASE Process(s)
    <3>1. StepsLeft(s)' < StepsLeft(s)
      BY <1>1, <2>1, ProcessNears
    <3> QED BY <2>0, <3>1 DEF GetsOn
  <2>2. ASSUME ~Process(s), pc[s] # "idle" => \/ pc'[s] = "idle"
                                              \/ pc'[s] = pc[s] /\ tries'[s] = tries[s]
        PROVE  GetsOn(s)
    <3>1. CASE pc'[s] = pc[s] /\ tries'[s] = tries[s]
      BY <2>0, <2>2, <3>1 DEF GetsOn, StepsLeft
    <3>2. CASE pc'[s] = "idle"
      <4>1. StepsLeft(s)' = 0
        BY <3>2 DEF StepsLeft, StepsFrom
      <4> QED BY <2>0, <2>2, <4>1 DEF GetsOn
    <3> QED BY <2>0, <2>2, <3>1, <3>2 DEF GetsOn
  <2>3. ASSUME NEW t \in Slots, t # s, Process(t) PROVE pc'[s] = pc[s] /\ tries'[s] = tries[s]
    BY <1>1, <2>3, ProcessNears
  <2>4. ASSUME NEW t \in Slots, NEW j \in Jobs, StartJob(t, j), pc[s] # "idle"
        PROVE  pc'[s] = pc[s] /\ tries'[s] = tries[s]
    BY <1>1, <2>4 DEF StartJob, TypeOK, SlotTypes
  <2>5. CASE WorkerCrash
    <3>1. pc'[s] = "idle"
      BY <2>5 DEF WorkerCrash
    <3> QED BY <2>1, <2>2, <3>1
  <2>6. ASSUME \/ Api \/ DatabaseCallFails
               \/ \E j \in Jobs : CallbackWrites(j) \/ StalledCheck(j)
               \/ \E D \in SUBSET Jobs : CleanExpiredJobs(D)
        PROVE  UNCHANGED slotVars
    BY <2>6 DEF Api, SubmitJob, RetryJob, CreateRow, EnqueueGeneration, EnqueueRejected,
                CancelCheck, CancelWrite, ApiCrash, DatabaseCallFails, CallbackWrites,
                StalledCheck, CleanExpiredJobs, slotVars
  <2> QED BY <2>1, <2>2, <2>3, <2>4, <2>5, <2>6 DEF Next, slotVars
<1> QED BY <1>1, TypeCorrect, PTL DEF Spec

=============================================================================
