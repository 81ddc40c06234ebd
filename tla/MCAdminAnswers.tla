--------------------------- MODULE MCAdminAnswers ---------------------------
(***************************************************************************)
(* An instance of AdminAnswers for TLC.                                    *)
(***************************************************************************)
EXTENDS AdminAnswers, MCControlPlane
=============================================================================
