---------------------------- MODULE MCGeneration ----------------------------
(* GenerationPipeline with model values for TLC.                            *)
EXTENDS GenerationProperties, TLC

CONSTANTS j1, j2, x1, x2, s1, s2

\* Slots are interchangeable, and so are the inputs of users.
Symmetry == Permutations(Slots) \cup Permutations(Inputs)

\* An output that no execution holds, no return value keeps and nothing released has
\* no influence on any later step, as outputs are never named twice: of such outputs
\* only the request data of the governed ones matters to a property.  Nor does any
\* step or property depend on the other events.
View ==
  <<rowVars, apiVars, queueVars, slotVars, processVars, submissions, deadLetters,
    Completions, {payload[o[1]] : o \in GovernedOutputs},
    {p \in cleared : p[2] \in Released \cup {out[s] : s \in Slots}
                                       \cup {returned[j] : j \in Jobs}}>>
=============================================================================
