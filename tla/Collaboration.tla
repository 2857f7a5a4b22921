--------------------------- MODULE Collaboration ---------------------------
(***************************************************************************)
(* The collaboration server: connections of users to projects, one         *)
(* presence entry per user and project, shot locks, and the frames         *)
(* broadcast to a project's room.  A user may have several connections, to *)
(* one project or to several.  Frames reach a client in order and each     *)
(* overwrites an earlier one, so what the frames sent so far add up to, by *)
(* the handlers of useCollab.ts, stands for the frames and the client.     *)
(***************************************************************************)
EXTENDS ShotLocks

CONSTANTS Conns, Projects,
          UserOf,      \* the user of a connection: its token
          ProjectOf,   \* the project of a connection: its URL
          Home         \* the project of a shot

ASSUME CollaborationAssumption ==
  /\ None \notin Conns
  /\ UserOf \in [Conns -> Users]
  /\ ProjectOf \in [Conns -> Projects]
  /\ Home \in [Shots -> Projects]

VARIABLES
  conn,     \* each connection: closed, open, or closing
  rooms,    \* AwarenessManager: the connection of each user in a project
  docs,     \* the projects with a document
  listed,   \* the users in the last awareness-update sent to each client
  shown     \* the user each client shows a shot as locked by (its shotLocks)

presenceVars == <<conn, rooms, docs, listed>>
vars == <<lockVars, presenceVars, shown>>

Init ==
  /\ LocksInit
  /\ conn = [c \in Conns |-> "closed"]
  /\ rooms = [p \in Projects |-> [u \in Users |-> None]]
  /\ docs = {}
  /\ listed = [c \in Conns |-> {}]
  /\ shown = [c \in Conns |-> [s \in Shots |-> None]]

Alive(c) == conn[c] \in {"open", "closing"}

Present(room) == {u \in Users : room[u] # None}

\* The clients of a room that a broadcast reaches.
Audience(room, state) ==
  {c \in Conns : state[c] = "open" /\ \E u \in Users : room[u] = c}

\* broadcastAwareness: everyone in the room gets the list of its users.
BroadcastAwareness(room, state, before) ==
  listed' = [c \in Conns |-> IF c \in Audience(room, state) THEN Present(room)
                             ELSE before[c]]

-----------------------------------------------------------------------------
\* Mutant of Connect: the newcomer only is sent the list.
ConnectQuietly(c) ==
  LET p == ProjectOf[c]
      room == [rooms[p] EXCEPT ![UserOf[c]] = c]
  IN /\ conn[c] = "closed"
     /\ conn' = [conn EXCEPT ![c] = "open"]
     /\ docs' = docs \cup {p}
     /\ rooms' = [rooms EXCEPT ![p] = room]
     /\ listed' = [listed EXCEPT ![c] = Present(room)]
     /\ shown' = [shown EXCEPT ![c] = [s \in Shots |-> None]]
     /\ UNCHANGED lockVars

\* A new connection takes the place of an earlier one of its user in the room;
\* its client starts without a list or locks.
Connect(c) ==
  LET p == ProjectOf[c]
      room == [rooms[p] EXCEPT ![UserOf[c]] = c]
  IN /\ conn[c] = "closed"
     /\ conn' = [conn EXCEPT ![c] = "open"]
     /\ docs' = docs \cup {p}
     /\ rooms' = [rooms EXCEPT ![p] = room]
     /\ BroadcastAwareness(room, conn', listed)
     /\ shown' = [shown EXCEPT ![c] = [s \in Shots |-> None]]
     /\ UNCHANGED lockVars

\* A shot-lock-update for the room of c: u is what the shot is locked by.
BroadcastLock(c, s, u) ==
  shown' = [d \in Conns |->
              IF d \in Audience(rooms[ProjectOf[c]], conn)
              THEN [shown[d] EXCEPT ![s] = u] ELSE shown[d]]

\* Clients name shots of the project they are connected to.
Asks(c, s) == Alive(c) /\ Home[s] = ProjectOf[c]

\* lock-shot: granted or not, the room is sent the holder.
HandleLock(c, s) ==
  /\ Asks(c, s)
  /\ LockShot(UserOf[c], s)
  /\ BroadcastLock(c, s, locks'[s].user)
  /\ UNCHANGED presenceVars

\* unlock-shot: the room is sent `locked: false`, whatever unlockShot answered.
HandleUnlock(c, s) ==
  /\ Asks(c, s)
  /\ UnlockShot(UserOf[c], s)
  /\ BroadcastLock(c, s, None)
  /\ UNCHANGED presenceVars

\* query-lock: the answer goes to the one that asked.
HandleQuery(c, s) ==
  /\ Asks(c, s)
  /\ IsLocked(s)
  /\ shown' = IF conn[c] = "open"
              THEN [shown EXCEPT ![c][s] = IF Live(s) THEN locks[s].user ELSE None]
              ELSE shown
  /\ UNCHANGED presenceVars

\* The connection is being closed, by the client or for not answering pings.
Closing(c) ==
  /\ conn[c] = "open"
  /\ conn' = [conn EXCEPT ![c] = "closing"]
  /\ UNCHANGED <<lockVars, rooms, docs, listed, shown>>

\* Mutant of Close: the presence entry stays when a closing handshake preceded.
CloseLeavesPresence(c) ==
  LET u == UserOf[c]
      p == ProjectOf[c]
      room == [rooms[p] EXCEPT ![u] = IF conn[c] = "closing" THEN @ ELSE None]
  IN /\ Alive(c)
     /\ conn' = [conn EXCEPT ![c] = "closed"]
     /\ rooms' = [rooms EXCEPT ![p] = room]
     /\ docs' = IF Present(room) = {} THEN docs \ {p} ELSE docs
     /\ BroadcastAwareness(room, conn, listed)
     /\ ReleaseAllForUser(u)
     /\ UNCHANGED shown

\* The close handler removes the user from the room, releases all its locks, in
\* whatever project, tells the room, and drops the document of an empty room.
Close(c) ==
  LET u == UserOf[c]
      p == ProjectOf[c]
      room == [rooms[p] EXCEPT ![u] = None]
  IN /\ Alive(c)
     /\ conn' = [conn EXCEPT ![c] = "closed"]
     /\ rooms' = [rooms EXCEPT ![p] = room]
     /\ docs' = IF Present(room) = {} THEN docs \ {p} ELSE docs
     /\ BroadcastAwareness(room, conn, listed)
     /\ ReleaseAllForUser(u)
     /\ shown' = [d \in Conns |->
                    IF d \in Audience(room, conn)
                    THEN [s \in Shots |-> IF shown[d][s] = u THEN None ELSE shown[d][s]]
                    ELSE shown[d]]

Requests(c) == \E s \in Shots : HandleLock(c, s) \/ HandleUnlock(c, s) \/ HandleQuery(c, s)

Time(s) == (Lapse(s) \/ TimerFires(s)) /\ UNCHANGED <<presenceVars, shown>>

Next ==
  \/ \E c \in Conns : Connect(c) \/ Requests(c) \/ Closing(c) \/ Close(c)
  \/ \E s \in Shots : Time(s)

Spec == Init /\ [][Next]_vars
=============================================================================
