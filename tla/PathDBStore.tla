---------------------------- MODULE PathDBStore -----------------------------
(***************************************************************************)
(* The histories of the path database as an ancient store.                 *)
(***************************************************************************)
EXTENDS PathDB

Histories == INSTANCE AncientStore WITH Versions <- Root, failed <- FALSE

\* The histories are used as the ancient store allows.
UsesAncientStore == Histories!Spec
=============================================================================
