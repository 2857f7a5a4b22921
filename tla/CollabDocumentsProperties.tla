---------------------- MODULE CollabDocumentsProperties ----------------------
(* What persistence of the shared document would mean.                        *)
EXTENDS CollabDocuments

\* README.md:61 lists "persistence" with what is "genuinely wired end to end": an
\* edit that the server had when a quiet period longer than the save delay ended
\* is in the saved state, in the served document or in some tab ever after,
\* whatever tabs are closed or reloaded and however often the process restarts.
EditsKept ==
  settled \subseteq saved \cup served \cup UNION {tab[c].doc : c \in Tabs}
=============================================================================
