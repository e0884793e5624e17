---------------------------- MODULE MCAloChoice ----------------------------
(* Model checking of AloChoice with no call of setScale: the scales differ *)
(* only by what conditions take away.  SEAL takes a depth of 11 at the     *)
(* scale 60, and of 14 at 50.                                              *)
EXTENDS AloChoice
=============================================================================
