----------------------------- MODULE MCKeyStore -----------------------------
(* An instance of KeyStore for TLC.                                           *)
EXTENDS KeyStore
=============================================================================
