--------------------------- MODULE MCWanPolicyRaces ---------------------------
(***************************************************************************)
(* A small instance of WanPolicyRaces, with the payloads of MCWanPolicy.   *)
(***************************************************************************)
EXTENDS WanPolicyRaces, MCWanPolicy
=============================================================================
