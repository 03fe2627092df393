---------------------------- MODULE WanPolicyRaces ----------------------------
(***************************************************************************)
(* WanPolicy with a history: the devices whose row a handler wrote after   *)
(* another one had changed its generation or its pin.  It only remembers   *)
(* and restrains no step.                                                  *)
(***************************************************************************)
EXTENDS WanPolicy

VARIABLE raced  \* the devices such a commit has written

racesVars == <<vars, raced>>

LostUpdate(d) ==
  \E q \in Request : /\ requests[q].changes[d] # NoChange
                     /\ StaleGeneration(q, d) \/ StalePin(q, d)
                     /\ Commit(q)

RacesInit == Init /\ raced = {}

RacesNext == Next /\ raced' = raced \cup {d \in Device : LostUpdate(d)}

RacesSpec == RacesInit /\ [][RacesNext]_racesVars

-----------------------------------------------------------------------------

=============================================================================
