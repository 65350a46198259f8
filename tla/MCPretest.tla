----------------------------- MODULE MCPretest -----------------------------
(***************************************************************************)
(* Instances of Pretest for TLC: a hardware list in an order of its own,   *)
(* with an item that has no check and one that is listed twice.            *)
(***************************************************************************)
EXTENDS Pretest

Watch == <<"wifi", "gsensor", "lcddisplay", "bluetooth", "charge", "gsensor",
           "touchkey", "proximity">>
===========================================================================
