------------------------------ MODULE MCTrail ------------------------------
(* Three variables, an anonymous one and two terms: every order of binding  *)
(* them, marking and unwinding.                                             *)
EXTENDS Trail
=============================================================================
