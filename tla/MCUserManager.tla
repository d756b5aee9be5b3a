---------------------------- MODULE MCUserManager ----------------------------
(* Instance of UserManager for TLC.                                          *)
EXTENDS UserManager

CONSTANTS alice, bob, secret, blank
===============================================================================
