---------------------------- MODULE MCProtection ----------------------------
(* The instance of Protection for TLC.                                     *)
EXTENDS Protection, TLC

CONSTANTS c1, c2, w1, w2, w3

=============================================================================
