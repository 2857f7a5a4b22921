----------------------------- MODULE MCServices -----------------------------
(* Four small parts of the system that share no state, checked in one run:   *)
(* in each behaviour one of them moves.                                      *)
EXTENDS OfflineQueueProperties, EventBusProperties, RealtimePresenceProperties,
        ShotTakesProperties

CONSTANTS p1, s1, s2, started_, progress_

VARIABLE moving

servicesVars == <<moving, queueVars, busVars, presenceVars, takeVars>>

EventCounts == [p \in Publishers |-> IF p = p1 THEN 2 ELSE 1]
Wants == [s \in Subscribers |-> IF s = s1 THEN {progress_} ELSE EventTypes]

ServicesInit ==
  /\ moving \in {"queue", "bus", "presence", "takes"}
  /\ QueueInit /\ BusInit /\ PresenceInit /\ TakesInit

QueueMoves ==
  moving = "queue" /\ QueueNext /\ UNCHANGED <<moving, busVars, presenceVars, takeVars>>
BusMoves ==
  moving = "bus" /\ BusNext /\ UNCHANGED <<moving, queueVars, presenceVars, takeVars>>
PresenceMoves ==
  moving = "presence" /\ PresenceNext /\ UNCHANGED <<moving, queueVars, busVars, takeVars>>
TakesMove ==
  moving = "takes" /\ TakesNext /\ UNCHANGED <<moving, queueVars, busVars, presenceVars>>

ServicesSpec ==
  /\ ServicesInit
  /\ [][QueueMoves \/ BusMoves \/ PresenceMoves \/ TakesMove]_servicesVars
  /\ BusFairness /\ PresenceFairness

\* The types of the variables of all four.
ServicesTypeOK == QueueTypeOK /\ BusTypeOK /\ PresenceTypeOK /\ TakesTypeOK
=============================================================================
