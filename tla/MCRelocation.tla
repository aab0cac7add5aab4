---------------------------- MODULE MCRelocation ----------------------------
(***************************************************************************)
(* Instances of Relocation for TLC.  Two relocations are the least for     *)
(* which one meets what another, called off, has left.                     *)
(***************************************************************************)
EXTENDS Relocation

TwoRelocations == <<"r1", "r2">>
=============================================================================
