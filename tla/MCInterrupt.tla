------------------------------ MODULE MCInterrupt ------------------------------
(***************************************************************************)
(* One remote and one local store; the caller may replace either by either.*)
(***************************************************************************)
EXTENDS Interrupt

CONSTANTS remote, local

MCStore == {remote, local}
MCRemote == {remote}
=============================================================================
