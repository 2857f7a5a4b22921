---------------------- MODULE CollaborationProperties ----------------------
(* What the collaboration server is meant to guarantee.                     *)
EXTENDS Collaboration

LockTypes ==
  /\ locks \in [Shots -> {None} \cup [user : Users, live : BOOLEAN]]
  /\ timers \in [Shots -> Nat]
  /\ lease \in [Shots -> Users \cup {None}]

RoomTypes ==
  /\ conn \in [Conns -> {"closed", "open", "closing"}]
  /\ rooms \in [Projects -> [Users -> Conns \cup {None}]]
  /\ docs \in SUBSET Projects
  /\ listed \in [Conns -> SUBSET Users]
  /\ shown \in [Conns -> [Shots -> Users \cup {None}]]

\* Every map of the server and of the clients holds what the code can store in it.
TypeOK == LockTypes /\ RoomTypes

\* A user that was told it holds a shot does hold it until the time it was told
\* is up, or it unlocks the shot or closes one of its connections: no timer of
\* an earlier lock, no other user's lock, unlock, query or close takes the shot
\* away (shotLocking.ts:25).
LeaseHonoured ==
  \A s \in Shots : lease[s] # None => locks[s] = [user |-> lease[s], live |-> TRUE]

\* Every lock has exactly one timer pending, and no timer outlives its lock.
TimerPerLock ==
  \A s \in Shots : timers[s] = IF locks[s] = None THEN 0 ELSE 1

\* Nobody holds a shot without a connection (index.ts:99).
NoOrphanLocks ==
  \A s \in Shots : locks[s] # None =>
    \E c \in Conns : Alive(c) /\ UserOf[c] = locks[s].user

\* A presence entry refers to a connection of that user to that project which
\* has not closed, whichever of the user's connections come and go, and exactly
\* the projects somebody is present in have a document (index.ts:98).
PresenceIsLive ==
  /\ \A p \in Projects, u \in Users : rooms[p][u] # None =>
       /\ Alive(rooms[p][u])
       /\ UserOf[rooms[p][u]] = u /\ ProjectOf[rooms[p][u]] = p
  /\ docs = {p \in Projects : Present(rooms[p]) # {}}

\* The last list of users that was sent to a client in a room names exactly the
\* users in it, so all clients end up with the same list (awareness.ts:95).
ListsConverge ==
  \A p \in Projects : \A c \in Audience(rooms[p], conn) : listed[c] = Present(rooms[p])

\* Time passes, and timeouts fire; nothing is assumed of clients.
Fairness ==
  \A s \in Shots :
    WF_vars(Lapse(s) /\ Time(s)) /\ WF_vars(TimerFires(s) /\ Time(s))

FairSpec == Spec /\ Fairness

\* No lock outlives its holder's interest: unless somebody keeps asking for the
\* shot, it becomes free, also if its holder never says another word.
LocksGiveUp ==
  \A s \in Shots :
    \/ []<><<\E c \in Conns : HandleLock(c, s)>>_vars
    \/ locks[s] # None ~> locks[s] = None

=============================================================================
