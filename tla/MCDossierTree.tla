--------------------------- MODULE MCDossierTree ---------------------------
(* Instances of DossierTree for TLC. *)
EXTENDS DossierTree, TLC

CONSTANTS d1, d2, d3, u1, u2, task

MCAllRights == Users \X Dossiers
MCDepth == [t \in Tasks |-> 1]
\* d2 is protected: u2 has the right on it and u1 does not.
MCProtected == (Users \X Dossiers) \ {<<u1, d2>>}
\* Nobody may reactivate d2, so that reactivating a tree with it fails halfway.
MCReopen == Users \X {d1, d3}
\* The dossiers with the same rights.
MCSame == Permutations({d1, d3})
=============================================================================
