------------------------- MODULE MCCollabDocuments -------------------------
EXTENDS CollabDocumentsProperties, TLC
CONSTANTS ann, ben, t1, t2, t3
Owners == t1 :> ann @@ t2 :> ann @@ t3 :> ben
=============================================================================
