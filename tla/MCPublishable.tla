--------------------------- MODULE MCPublishable ---------------------------
(***************************************************************************)
(* TLC instance of Publishable: two metrics of two values, and two clients *)
(* so that a request left with the previous client can overlap one handed  *)
(* to the next.                                                            *)
(***************************************************************************)
EXTENDS Publishable

MCElapsed == {0, 1, 3}
=============================================================================
