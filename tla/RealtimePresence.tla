-------------------------- MODULE RealtimePresence --------------------------
(***************************************************************************)
(* Presence in the realtime service: the connection handler of             *)
(* realtime/src/index.ts and services/presenceService.ts.                  *)
(*                                                                         *)
(* One entry per user, and in awayTimers the handle of one timer, however  *)
(* many sockets the user has.  A connection puts the user online, clears   *)
(* the timer with that handle and starts another; the end of any socket    *)
(* clears it and puts the user offline.  A timer is named by the           *)
(* connection that started it.  (The archive of past sessions, which       *)
(* nothing reads, is left out.)                                            *)
(***************************************************************************)
EXTENDS FiniteSets

CONSTANTS
  Members,    \* the users
  Sockets     \* sockets, each connected at most once

VARIABLES
  socket,     \* the sockets and whose they are
  presence,   \* status of each user's entry, "none" before there is one
  awayTimers, \* each user's timer in the map, {} for no entry
  running     \* the timers that will still run out

presenceVars == <<socket, presence, awayTimers, running>>

PresenceInit ==
  /\ \E u \in Members : socket = [s \in Sockets |-> [at |-> "new", user |-> u]]
  /\ presence = [u \in Members |-> "none"]
  /\ awayTimers = [u \in Members |-> {}]
  /\ running = {}

\* getOnlineUsers.
OnlineUsers == {u \in Members : presence[u] \notin {"none", "offline"}}

\* The user's sockets that are connected.
OpenSockets(u) == {s \in Sockets : socket[s] = [at |-> "open", user |-> u]}

\* Mutant of Cleared: the entry is deleted, and the timer runs on.
ClearedFromMap(u) == running

\* The timers that run after clearAwayTimer, which knows the one in the map.
Cleared(u) == running \ awayTimers[u]

\* Mutant of PresenceConnect: the timer is set before trackPresence clears it.
ConnectUntimed(s, u) ==
  /\ socket[s].at = "new"
  /\ socket' = [socket EXCEPT ![s] = [at |-> "open", user |-> u]]
  /\ presence' = [presence EXCEPT ![u] = "online"]
  /\ running' = Cleared(u)
  /\ awayTimers' = [awayTimers EXCEPT ![u] = {}]

\* io.on('connection'): trackPresence, then setAway.
PresenceConnect(s, u) ==
  /\ socket[s].at = "new"
  /\ socket' = [socket EXCEPT ![s] = [at |-> "open", user |-> u]]
  /\ presence' = [presence EXCEPT ![u] = "online"]
  /\ running' = Cleared(u) \cup {s}
  /\ awayTimers' = [awayTimers EXCEPT ![u] = {s}]

\* The 'disconnect' handler: trackPresence.
PresenceDisconnect(s) ==
  /\ socket[s].at = "open"
  /\ socket' = [socket EXCEPT ![s].at = "closed"]
  /\ presence' = [presence EXCEPT ![socket[s].user] = "offline"]
  /\ running' = Cleared(socket[s].user)
  /\ awayTimers' = [awayTimers EXCEPT ![socket[s].user] = {}]

\* A timer runs out, whatever timer the map has by now.
GoesAway(s) ==
  LET u == socket[s].user IN
  /\ s \in running
  /\ running' = running \ {s}
  /\ presence' = IF presence[u] = "online" THEN [presence EXCEPT ![u] = "away"] ELSE presence
  /\ awayTimers' = [awayTimers EXCEPT ![u] = {}]
  /\ UNCHANGED socket

PresenceNext ==
  \E s \in Sockets :
    (\E u \in Members : PresenceConnect(s, u)) \/ PresenceDisconnect(s) \/ GoesAway(s)

PresenceSpec == PresenceInit /\ [][PresenceNext]_presenceVars
=============================================================================
