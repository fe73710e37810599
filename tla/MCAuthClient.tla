---------------------------- MODULE MCAuthClient ----------------------------
(***************************************************************************)
(* Instances of AuthClient for TLC.                                        *)
(***************************************************************************)
EXTENDS AuthClient

CONSTANTS t1, t2, u1

=============================================================================
