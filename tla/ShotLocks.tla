----------------------------- MODULE ShotLocks -----------------------------
(***************************************************************************)
(* The shot lock manager of the collaboration service: a lock lasts        *)
(* LOCK_EXPIRY_MS from the last time its holder asked for it, and a timer  *)
(* removes it afterwards.  Time is abstracted: a lock is live until its    *)
(* expiresAt has passed, and its timer fires some time later.  Every lock  *)
(* manager call is one step, as the code runs in one event loop.           *)
(***************************************************************************)
EXTENDS Naturals

CONSTANTS Users, Shots,
          None            \* no lock, nobody

ASSUME LocksAssumption ==
  /\ None \notin Users
  /\ \A u \in Users, b \in BOOLEAN : None # [user |-> u, live |-> b]

VARIABLES locks,   \* the entry of each shot: who locked it, and is it still live
          timers,  \* timeouts pending that will remove the shot's entry
          lease    \* history: who was told to hold the shot, until its time is up
                   \* or it gave the shot up

lockVars == <<locks, timers, lease>>

LocksInit ==
  /\ locks = [s \in Shots |-> None]
  /\ timers = [s \in Shots |-> 0]
  /\ lease = [s \in Shots |-> None]

Live(s) == locks[s] # None /\ locks[s].live

HeldBy(s, u) == locks[s] # None /\ locks[s].user = u

\* Entries of the shots of S are deleted, with the timers that belong to them.
Remove(S) ==
  /\ locks' = [s \in Shots |-> IF s \in S THEN None ELSE locks[s]]
  /\ timers' = [s \in Shots |-> IF s \in S THEN timers[s] - 1 ELSE timers[s]]

\* The shots of S are given up by u.
GiveUp(S, u) ==
  lease' = [s \in Shots |-> IF s \in S /\ lease[s] = u THEN None ELSE lease[s]]

\* Mutants of Grant: the old timer is not cleared ...
GrantOldTimer(u, s) ==
  /\ locks' = [locks EXCEPT ![s] = [user |-> u, live |-> TRUE]]
  /\ timers' = [timers EXCEPT ![s] = IF @ < 2 THEN @ + 1 ELSE @]
  /\ lease' = [lease EXCEPT ![s] = u]

\* ... or a renewal sets none.
GrantNoTimer(u, s) ==
  /\ locks' = [locks EXCEPT ![s] = [user |-> u, live |-> TRUE]]
  /\ timers' = [timers EXCEPT ![s] = IF locks[s] = None THEN @ + 1 ELSE @ - 1]
  /\ lease' = [lease EXCEPT ![s] = u]

\* The lock is u's from now on; the timer of the entry it replaces is cleared.
Grant(u, s) ==
  /\ locks' = [locks EXCEPT ![s] = [user |-> u, live |-> TRUE]]
  /\ timers' = [timers EXCEPT ![s] = IF locks[s] = None THEN @ + 1 ELSE @]
  /\ lease' = [lease EXCEPT ![s] = u]

\* A live lock of another user stays; else the lock is granted, or renewed.
LockShot(u, s) ==
  IF Live(s) /\ ~HeldBy(s, u) THEN UNCHANGED lockVars ELSE Grant(u, s)

\* Mutant of UnlockShot: anyone may.
UnlockAnyones(u, s) ==
  /\ Remove(IF locks[s] # None THEN {s} ELSE {})
  /\ GiveUp({s}, u)

UnlockShot(u, s) ==
  /\ Remove(IF HeldBy(s, u) THEN {s} ELSE {})
  /\ GiveUp({s}, u)

\* isLocked removes an entry whose time is up.
IsLocked(s) ==
  /\ Remove(IF locks[s] # None /\ ~Live(s) THEN {s} ELSE {})
  /\ UNCHANGED lease

\* Mutant of ReleaseAllForUser: only the locks that are still live.
ReleaseLive(u) ==
  /\ Remove({s \in Shots : HeldBy(s, u) /\ Live(s)})
  /\ GiveUp(Shots, u)

ReleaseAllForUser(u) ==
  /\ Remove({s \in Shots : HeldBy(s, u)})
  /\ GiveUp(Shots, u)

\* expiresAt passes.
Lapse(s) ==
  /\ Live(s)
  /\ locks' = [locks EXCEPT ![s].live = FALSE]
  /\ lease' = [lease EXCEPT ![s] = None]
  /\ UNCHANGED timers

\* A timeout fires.  The newest one, that of a live lock, is not due yet; any
\* other is.  Nobody sets onLockExpired: no one is told.
TimerFires(s) ==
  /\ timers[s] > (IF Live(s) THEN 1 ELSE 0)
  /\ locks' = [locks EXCEPT ![s] = None]
  /\ timers' = [timers EXCEPT ![s] = @ - 1]
  /\ UNCHANGED lease
=============================================================================
