---------------------------- MODULE MCSignedWriter ----------------------------
(* An instance of SignedWriter for TLC with records of one size and one time. *)
EXTENDS SignedWriter

MCInputTs == [v \in Inputs |-> 1]
MCRecordSize == [v \in Inputs |-> 1]
=============================================================================
