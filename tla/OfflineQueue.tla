----------------------------- MODULE OfflineQueue -----------------------------
(***************************************************************************)
(* The mobile app's queue of actions made offline: lib/offlineManager.ts   *)
(* and the screen that replays and clears it.                              *)
(*                                                                         *)
(* The queue is one list in AsyncStorage.  queueAction reads the list,     *)
(* waits, and writes it back with the new action; a replay reads it, makes *)
(* one call for each action, and writes back the ones that failed.         *)
(* Nothing keeps two of these from overlapping: the screen disables its    *)
(* button for its own replay only, and the list may grow or be cleared     *)
(* meanwhile.  The system may kill the app between any two steps.          *)
(***************************************************************************)
EXTENDS Naturals, Sequences, SequencesExt

CONSTANTS
  Actions,    \* the actions, each queued once: queueAction gives it its id
  Replays,    \* replays that may be under way at a time
  MaxReplays  \* replays started in all

ASSUME ReplaysAssumption == MaxReplays \in Nat

VARIABLES
  stored,     \* the list in AsyncStorage
  queueing,   \* queueAction: how far it is and the list it read
  replay,     \* syncPendingActions: the list read, what is still to be sent, what failed
  started,    \* replays started
  applied,    \* how often the server carried out each action
  cleared,    \* history: actions that a clear removed
  overwritten,\* history: actions that a write dropped without having read them
  calm        \* history: no answer was lost and no two operations overlapped

queueVars == <<stored, queueing, replay, started, applied, cleared, overwritten, calm>>

NotReplaying == [on |-> FALSE, read |-> <<>>, todo |-> <<>>, remaining |-> <<>>]

QueueInit ==
  /\ stored = <<>>
  /\ queueing = [a \in Actions |-> [at |-> "none", read |-> <<>>]]
  /\ replay = [s \in Replays |-> NotReplaying]
  /\ started = 0
  /\ applied = [a \in Actions |-> 0]
  /\ cleared = {}
  /\ overwritten = {}
  /\ calm = TRUE

Replaying == \E s \in Replays : replay[s].on

\* writeActions by an operation that had read the list it now replaces.
WriteActions(list, read) ==
  /\ stored' = list
  /\ overwritten' = overwritten \cup (ToSet(stored) \ (ToSet(read) \cup ToSet(list)))
  /\ calm' = (calm /\ stored = read)

-----------------------------------------------------------------------------
\* queueAction up to the list it reads.
QueueRead(a) ==
  /\ queueing[a].at = "none"
  /\ queueing' = [queueing EXCEPT ![a] = [at |-> "writing", read |-> stored]]
  /\ UNCHANGED <<stored, replay, started, applied, cleared, overwritten, calm>>

QueueWrite(a) ==
  /\ queueing[a].at = "writing"
  /\ WriteActions(Append(queueing[a].read, a), queueing[a].read)
  /\ queueing' = [queueing EXCEPT ![a].at = "queued"]
  /\ UNCHANGED <<replay, started, applied, cleared>>

\* "Sync Now", on a screen that is not replaying itself.  What it showed may be
\* old: the list may be empty by now.
ReplayRead(s) ==
  /\ ~replay[s].on
  /\ started < MaxReplays
  /\ started' = started + 1
  /\ replay' = [replay EXCEPT ![s] =
       [on |-> TRUE, read |-> stored, todo |-> stored, remaining |-> <<>>]]
  /\ calm' = (calm /\ ~Replaying)
  /\ UNCHANGED <<stored, queueing, applied, cleared, overwritten>>

\* Mutant of Send: a failed action is not kept.
SendForgets(s) ==
  /\ replay[s].on
  /\ replay[s].todo # <<>>
  /\ LET a == Head(replay[s].todo)
     IN /\ replay' = [replay EXCEPT ![s].todo = Tail(@)]
        /\ \E n \in {0, 1} : applied' = [applied EXCEPT ![a] = @ + n]
  /\ UNCHANGED <<stored, queueing, started, cleared, overwritten, calm>>

\* One call: it succeeds, fails without effect, or is carried out although the
\* app sees a failure (the answer is lost, or a 204 whose body is not JSON).
Send(s) ==
  /\ replay[s].on
  /\ replay[s].todo # <<>>
  /\ LET a == Head(replay[s].todo)
         rest == [replay[s] EXCEPT !.todo = Tail(@)]
         kept == [rest EXCEPT !.remaining = Append(@, a)]
         Applies == applied' = [applied EXCEPT ![a] = @ + 1]
     IN \/ replay' = [replay EXCEPT ![s] = rest] /\ Applies /\ UNCHANGED calm
        \/ replay' = [replay EXCEPT ![s] = kept] /\ UNCHANGED <<applied, calm>>
        \/ replay' = [replay EXCEPT ![s] = kept] /\ Applies /\ calm' = FALSE
  /\ UNCHANGED <<stored, queueing, started, cleared, overwritten>>

\* Mutants of ReplayWrite: what failed is put back with what is stored ...
ReplayWriteBack(s) ==
  /\ replay[s].on
  /\ replay[s].todo = <<>>
  /\ WriteActions(stored \o replay[s].remaining, stored)
  /\ replay' = [replay EXCEPT ![s] = NotReplaying]
  /\ UNCHANGED <<queueing, started, applied, cleared>>

\* ... or the list is left as it is if anything failed.
ReplayWriteNone(s) ==
  /\ replay[s].on
  /\ replay[s].todo = <<>>
  /\ IF replay[s].remaining = <<>> THEN WriteActions(<<>>, replay[s].read)
     ELSE UNCHANGED <<stored, overwritten, calm>>
  /\ replay' = [replay EXCEPT ![s] = NotReplaying]
  /\ UNCHANGED <<queueing, started, applied, cleared>>

\* The actions that failed are all that is stored from now on.
ReplayWrite(s) ==
  /\ replay[s].on
  /\ replay[s].todo = <<>>
  /\ WriteActions(replay[s].remaining, replay[s].read)
  /\ replay' = [replay EXCEPT ![s] = NotReplaying]
  /\ UNCHANGED <<queueing, started, applied, cleared>>

\* clearOfflineData for everything.
Clear ==
  /\ stored # <<>>
  /\ cleared' = cleared \cup ToSet(stored)
  /\ stored' = <<>>
  /\ UNCHANGED <<queueing, replay, started, applied, overwritten, calm>>

\* The system ends the app: operations under way are never heard of again.
Kill ==
  /\ \/ Replaying
     \/ \E a \in Actions : queueing[a].at = "writing"
  /\ queueing' = [a \in Actions |->
       IF queueing[a].at = "writing" THEN [queueing[a] EXCEPT !.at = "dropped"]
                                     ELSE queueing[a]]
  /\ replay' = [s \in Replays |-> NotReplaying]
  /\ calm' = (calm /\ ~Replaying)
  /\ UNCHANGED <<stored, started, applied, cleared, overwritten>>

QueueNext ==
  \/ \E a \in Actions : QueueRead(a) \/ QueueWrite(a)
  \/ \E s \in Replays : ReplayRead(s) \/ Send(s) \/ ReplayWrite(s)
  \/ Clear
  \/ Kill

QueueSpec == QueueInit /\ [][QueueNext]_queueVars
=============================================================================
