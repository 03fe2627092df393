------------------------------- MODULE WakeOnLan -------------------------------
(***************************************************************************)
(* One command of the gateway that wakes the devices of a classroom: a     *)
(* task per MAC, four requests to the router at a time, a limit for each   *)
(* request and one for all of them.                                        *)
(***************************************************************************)
EXTENDS Naturals, FiniteSets

CONSTANTS
  Text,            \* MACs as the devices have them
  Upper,           \* the same, trimmed and in upper case
  Malformed,       \* those that no packet can go to
  Layouts,         \* devices of a classroom, as the sets of their MACs
  Addresses,       \* addresses the router may have: sets of records
  Subnet,          \* the hosts of the classroom
  Slots,           \* requests at a time
  RequestTimeout, BatchTimeout  \* in ticks

ASSUME WakeAssumption ==
  /\ IsFiniteSet(Text)
  /\ Upper \in [Text -> Text] /\ \A m \in Text : Upper[Upper[m]] = Upper[m]
  /\ Malformed \subseteq Text /\ Layouts \subseteq SUBSET Text
  /\ Slots \in Nat \ {0}
  /\ RequestTimeout \in Nat \ {0} /\ BatchTimeout \in Nat \ {0}

VARIABLES
  batch,    \* "idle", "reading" the addresses, "sending", or its answer
  target,   \* the task of each MAC, or Untouched
  elapsed,  \* ticks since the tasks began
  posted,   \* requests that the router has not carried out yet
  packets   \* packets that it sent, by the MAC they wake

wakeVars == <<batch, target, elapsed, posted, packets>>

Untouched == [step |-> "none", since |-> 0]
Ended == {"none", "sent", "failed"}

InitWake ==
  /\ batch = "idle"
  /\ target = [m \in Text |-> Untouched]
  /\ elapsed = 0
  /\ posted = [m \in Text |-> 0]
  /\ packets = [m \in Text |-> 0]

Sending == {m \in Text : target[m].step = "sending"}

-----------------------------------------------------------------------------
(* Whom and where.                                                         *)

\* Mutant: devices are told apart by their MAC as it is written.
TargetsAsWritten(devices) == devices

Targets(devices) == {Upper[m] : m \in devices}

UsableAddresses(addresses) == {a \in addresses : ~a.disabled /\ ~a.invalid}

\* The interfaces of the narrowest networks that hold the classroom.
WolInterfaces(addresses) ==
  LET candidates == {a \in UsableAddresses(addresses) : Subnet \subseteq a.network}
  IN  {a.interface : a \in {b \in candidates :
                              \A c \in candidates : Cardinality(b.network) <= Cardinality(c.network)}}

\* Without a MAC nothing is asked of the router.
WakeClassroom(devices) ==
  /\ batch = "idle"
  /\ IF devices = {}
     THEN batch' = "answered" /\ UNCHANGED target
     ELSE /\ batch' = "reading"
          /\ target' = [m \in Text |->
               IF m \in Targets(devices) THEN [step |-> "wanted", since |-> 0] ELSE Untouched]
  /\ UNCHANGED <<elapsed, posted, packets>>

AddressesUnread ==
  /\ batch = "reading"
  /\ batch' = "refused"
  /\ UNCHANGED <<target, elapsed, posted, packets>>

\* Exactly one interface must be left; the malformed fail at once.
SendWolPackets(addresses) ==
  /\ batch = "reading"
  /\ IF Cardinality(WolInterfaces(addresses)) # 1
     THEN batch' = "refused" /\ UNCHANGED target
     ELSE /\ batch' = "sending"
          /\ target' = [m \in Text |->
               IF target[m].step = "wanted" /\ m \in Malformed
               THEN [step |-> "failed", since |-> 0] ELSE target[m]]
  /\ UNCHANGED <<elapsed, posted, packets>>

-----------------------------------------------------------------------------
(* The tasks.                                                              *)

Becomes(m, step) == target' = [target EXCEPT ![m] = [step |-> step, since |-> elapsed]]

\* The task gets a slot of the semaphore and posts.
Post(m) ==
  /\ batch = "sending" /\ target[m].step = "wanted"
  /\ Cardinality(Sending) < Slots
  /\ Becomes(m, "sending")
  /\ posted' = [posted EXCEPT ![m] = @ + 1]
  /\ UNCHANGED <<batch, elapsed, packets>>

\* The router sends the packet; its answer comes in time, or not.
RouterSends(m) ==
  /\ posted[m] > 0
  /\ posted' = [posted EXCEPT ![m] = @ - 1]
  /\ packets' = [packets EXCEPT ![Upper[m]] = @ + 1]
  /\ \/ target[m].step = "sending" /\ Becomes(m, "sent")
     \/ UNCHANGED target
  /\ UNCHANGED <<batch, elapsed>>

\* It refuses, or cannot be reached.
RouterRefuses(m) ==
  /\ posted[m] > 0
  /\ posted' = [posted EXCEPT ![m] = @ - 1]
  /\ IF target[m].step = "sending" THEN Becomes(m, "failed") ELSE UNCHANGED target
  /\ UNCHANGED <<batch, elapsed, packets>>

\* Mutant: the limit of the batch is set on the requests, not on the tasks.
OverdueOncePosted(m) ==
  /\ target[m].step = "sending"
  /\ elapsed >= target[m].since + RequestTimeout \/ elapsed >= BatchTimeout

Overdue(m) ==
  \/ target[m].step = "sending" /\ elapsed >= target[m].since + RequestTimeout
  \/ target[m].step \in {"wanted", "sending"} /\ elapsed >= BatchTimeout

\* The client gives up; the router may have the request all the same.
GiveUp(m) ==
  /\ batch = "sending"
  /\ Overdue(m)
  /\ Becomes(m, "failed")
  /\ UNCHANGED <<batch, elapsed, posted, packets>>

\* Timers go off on time.
Tick ==
  /\ batch = "sending"
  /\ \E m \in Text : target[m].step \notin Ended
  /\ \A m \in Text : ~Overdue(m)
  /\ elapsed' = elapsed + 1
  /\ UNCHANGED <<batch, target, posted, packets>>

\* All tasks are gathered; if no packet was sent the command has failed.
Gather ==
  /\ batch = "sending"
  /\ \A m \in Text : target[m].step \in Ended
  /\ batch' = IF \E m \in Text : target[m].step = "sent" THEN "answered" ELSE "refused"
  /\ UNCHANGED <<target, elapsed, posted, packets>>

NextWake ==
  \/ \E devices \in Layouts : WakeClassroom(devices)
  \/ AddressesUnread
  \/ \E addresses \in Addresses : SendWolPackets(addresses)
  \/ \E m \in Text : Post(m) \/ RouterSends(m) \/ RouterRefuses(m) \/ GiveUp(m)
  \/ Tick \/ Gather

WakeSpec == InitWake /\ [][NextWake]_wakeVars

-----------------------------------------------------------------------------
(* Properties.                                                             *)

WakeTypeOK ==
  /\ batch \in {"idle", "reading", "sending", "answered", "refused"}
  /\ target \in [Text -> [step: {"wanted", "sending"} \cup Ended, since: 0..BatchTimeout]]
  /\ elapsed \in 0..BatchTimeout
  /\ posted \in [Text -> Nat] /\ packets \in [Text -> Nat]

\* No MAC gets two packets, however many devices share it: what is reported as sent
\* was sent, and what is reported as failed was sent at most once, or may still be, by
\* the one request that the client gave up on.  Nothing goes to a MAC that was not
\* asked for or whose task has not begun.
PacketsMatchResults ==
  \A m \in Text :
    /\ posted[m] + packets[m] <= 1
    /\ target[m].step = "sent" => packets[m] = 1
    /\ posted[m] + packets[m] > 0 => target[m].step \in {"sending", "sent", "failed"}
=============================================================================
