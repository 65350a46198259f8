------------------------------ MODULE MCDhcp ------------------------------
(***************************************************************************)
(* Instances of DhcpClient for TLC.  Addresses are only ever compared, so  *)
(* a safety run may permute them.                                          *)
(***************************************************************************)
EXTENDS DhcpClient, TLC

AddressSymmetry == Permutations(Address)
===========================================================================
