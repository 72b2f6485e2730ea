------------------------ MODULE MCRegistrationProxy ------------------------
(* Small instances of RegistrationProxy for TLC. *)
EXTENDS RegistrationProxy

CONSTANTS t1, t2, n1, n2, alice, bob, chatty
=============================================================================
