----------------------- MODULE OfflineQueueProperties -----------------------
(* What the offline queue keeps.                                             *)
EXTENDS OfflineQueue

Lists == Seq(Actions)

\* The types of the variables.
QueueTypeOK ==
  /\ stored \in Lists
  /\ queueing \in [Actions -> [at : {"none", "writing", "queued", "dropped"}, read : Lists]]
  /\ replay \in [Replays -> [on : BOOLEAN, read : Lists, todo : Lists, remaining : Lists]]
  /\ started \in 0 .. MaxReplays
  /\ applied \in [Actions -> Nat]
  /\ cleared \subseteq Actions
  /\ overwritten \subseteq Actions
  /\ calm \in BOOLEAN

Queued(a) == queueing[a].at = "queued"

\* However replays, clears and writes overlap, an action is in the stored list
\* at most once, so that one replay never sends it twice.
StoredOnce == IsInjective(stored)

\* An action that queueAction has confirmed is stored, was carried out, was
\* cleared by the user or was written over by an operation that had read the
\* list before it was there: neither a failed call nor the end of the app loses
\* one.
NoneLost ==
  \A a \in Actions :
    Queued(a) => a \in ToSet(stored) \/ applied[a] > 0 \/ a \in cleared \cup overwritten

\* As long as no answer is lost and no two operations overlap, an action is
\* carried out once, and between replays it is either stored or was carried out
\* or cleared, never two of these.
CalmQueue ==
  calm =>
    \A a \in Actions :
      /\ applied[a] <= 1
      /\ ~Replaying /\ Queued(a) =>
           \/ a \in ToSet(stored) /\ applied[a] = 0 /\ a \notin cleared
           \/ a \notin ToSet(stored) /\ (applied[a] = 1) # (a \in cleared)
===============================================================================
