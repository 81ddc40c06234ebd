-------------------------- MODULE MCCredentialBroker --------------------------
(***************************************************************************)
(* Instances of CredentialBroker for TLC.  Callers are interchangeable,    *)
(* but symmetry is not sound for the liveness property.                    *)
(***************************************************************************)
EXTENDS CredentialBroker

CONSTANTS c1, c2
=============================================================================
