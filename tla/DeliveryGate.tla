---------------------------- MODULE DeliveryGate ----------------------------
(***************************************************************************)
(* What the platform promises of a generated output, without saying how:   *)
(* the governance services clear it stage by stage, in the order of the    *)
(* pipeline, and only an output every blocking stage has cleared is ever   *)
(* released to a user (as the output of a job record, or in a              *)
(* generation.completed event).  GenerationPipeline implements it.         *)
(***************************************************************************)
CONSTANTS Outputs,   \* everything the AI service may produce
          Stages,    \* the governance stages
          Blocking,  \* the stages an output may not be released without
          Earlier    \* the stages that come before a given one

VARIABLES cleared,   \* the <<stage, output>> pairs a governance service let through
          released   \* the outputs a user can reach

vars == <<cleared, released>>

Init == cleared = {} /\ released = {}

FullyCleared == {o \in Outputs : \A g \in Blocking : <<g, o>> \in cleared}

\* Governance services let outputs through a stage, each only after every
\* earlier stage did.
Clear ==
  /\ cleared \subseteq cleared'
  /\ \A p \in cleared' \ cleared :
       /\ p \in Stages \X Outputs
       /\ \A h \in Earlier[p[1]] : <<h, p[2]>> \in cleared
  /\ UNCHANGED released

\* Cleared outputs become reachable; a newer output of the same job may take
\* the place of an older one.
Release ==
  /\ released' \subseteq released \cup FullyCleared
  /\ UNCHANGED cleared

Next == Clear \/ Release

Spec == Init /\ [][Next]_vars
=============================================================================
