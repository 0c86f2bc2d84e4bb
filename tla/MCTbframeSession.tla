-------------------------- MODULE MCTbframeSession --------------------------
(***************************************************************************)
(* The session protocol with one fault.  The two ends run the same code, so *)
(* the end it happens at is A.  Seven cookies are enough: Fresh always      *)
(* finds one that nothing holds.                                            *)
(***************************************************************************)
EXTENDS TbframeSession

MCCookies == 1 .. 7
=============================================================================
