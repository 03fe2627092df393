----------------------------- MODULE MCWanPolicy -----------------------------
(***************************************************************************)
(* Small instances of WanPolicy.                                           *)
(***************************************************************************)
EXTENDS WanPolicy, TLC

\* What the gateway posts for pin-observed: pinned, allowed, protected or not, with
\* the address of the lease.
ObservedPayloads ==
  [classroom_id: Classroom, static_ip: Address, is_pinned: {TRUE},
   wan_allowed: {TRUE}, wan_protected: BOOLEAN]

\* The same for unprotected devices only.
UnprotectedPayloads == {p \in ObservedPayloads : ~p.wan_protected}

\* What POST /internal/devices accepts of anybody, for a device that is allowed.
AllowedPayloads ==
  [classroom_id: Classroom, static_ip: Address, is_pinned: BOOLEAN,
   wan_allowed: {TRUE}, wan_protected: BOOLEAN]

PinPayloads == [classroom_id: Classroom, static_ip: Address]

NoPayloads == {}

\* Handlers in flight differ by nothing but their names.
RequestSymmetry == Permutations(Request)
=============================================================================
