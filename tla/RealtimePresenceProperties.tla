--------------------- MODULE RealtimePresenceProperties ---------------------
(* What the presence list shows.                                             *)
EXTENDS RealtimePresence

\* The types of the variables.
PresenceTypeOK ==
  /\ socket \in [Sockets -> [at : {"new", "open", "closed"}, user : Members]]
  /\ presence \in [Members -> {"none", "online", "away", "offline"}]
  /\ awayTimers \in [Members -> SUBSET Sockets]
  /\ running \subseteq Sockets

\* The timers that will put a user away.
TimersOf(u) == {s \in running : socket[s].user = u}

\* Whoever is listed has a socket, whatever sockets of the user came and went;
\* whoever is online, and nobody else, has a timer that will end it, and the map
\* has all there are, so that no timer of an earlier connection strikes a later
\* one (presenceService.ts:54, 73).
ListedAreConnected ==
  \A u \in Members :
    /\ u \in OnlineUsers => OpenSockets(u) # {}
    /\ TimersOf(u) # {} <=> presence[u] = "online"
    /\ TimersOf(u) = awayTimers[u]

\* Timers run out.
PresenceFairness == \A s \in Sockets : WF_presenceVars(GoesAway(s))

\* Nobody stays online for ever, however often the user's sockets come and go:
\* the timer that each connection starts over is not lost.
OnlineEnds == \A u \in Members : presence[u] = "online" ~> presence[u] # "online"
=============================================================================
