--------------------------- MODULE StatisticsReport ---------------------------
(***************************************************************************)
(* What classroom-service computes from the history of a device: the       *)
(* segments of a report (build_segments) and the time since when each of   *)
(* its two states holds (get_device_state_times).                          *)
(*                                                                         *)
(* A history is the sequence of the device's events in the order of their  *)
(* ids.  An event tells both states, [at, online, wan]; times need not     *)
(* grow with ids, so every query orders by time and then by id.            *)
(***************************************************************************)
EXTENDS Integers, SequencesExt

\* The order of the queries: occurred_at, id.
Precedes(history, i, j) ==
  \/ history[i].at < history[j].at
  \/ history[i].at = history[j].at /\ i < j

\* The last of some events, by their places in the history.
Latest(history, places) ==
  CHOOSE i \in places : \A j \in places \ {i} : Precedes(history, j, i)

\* The place of the n-th of some events.
Nth(history, places, n) ==
  CHOOSE i \in places : Cardinality({j \in places : Precedes(history, j, i)}) = n - 1

\* One of the two states of some events, in the order of the queries.
Track(history, places, field) ==
  [n \in 1..Cardinality(places) |->
     LET event == history[Nth(history, places, n)]
     IN  [at |-> event.at, state |-> event[field]]]

Before(history, start) == {i \in DOMAIN history : history[i].at < start}
Within(history, start, end) ==
  {i \in DOMAIN history : history[i].at >= start /\ history[i].at <= end}

\* Mutant: of events of one instant, the first one is taken.
BaselineByTime(history, start) ==
  {i \in Before(history, start) :
     \A j \in Before(history, start) :
       \/ history[j].at < history[i].at
       \/ history[j].at = history[i].at /\ i <= j}

\* The event the device entered the interval with, if any: the query has
\* the latest first.
Baseline(history, start) ==
  IF Before(history, start) = {} THEN {}
  ELSE {Latest(history, Before(history, start))}

-----------------------------------------------------------------------------
(* Segments.                                                               *)

AppendSegment(segments, start, end, state) ==
  IF /\ segments # <<>>
     /\ Last(segments).state = state
     /\ Last(segments).end = start
  THEN [segments EXCEPT ![Len(segments)].end = end]
  ELSE Append(segments, [start |-> start, end |-> end, state |-> state])

\* A scan holds the segments so far: `state` holds since `cursor`, now until `at`.
Close(scan, at) ==
  IF scan.cursor < at
  THEN AppendSegment(scan.segments, scan.cursor, at, scan.state)
  ELSE scan.segments

Scan(scan, event) ==
  [segments |-> Close(scan, event.at), state |-> event.state, cursor |-> event.at]

\* The event known at the start of the interval stands there, before the others.
Known(start, baseline, events) ==
  [i \in DOMAIN baseline |-> [at |-> start, state |-> baseline[i].state]] \o events

\* The loop.  Events lie in the interval, so that the clamping of their times is idle.
BuildSegments(start, end, baseline, events) ==
  LET known == Known(start, baseline, events)
      first == [segments |-> <<>>, state |-> known[1].state, cursor |-> known[1].at]
      scan[n \in 1..Len(known)] ==
        IF n = 1 THEN first ELSE Scan(scan[n - 1], known[n])
  IN  IF known = <<>> THEN <<>> ELSE Close(scan[Len(known)], end)

\* get_classroom_statistics, for one device and one of its states.
Segments(history, start, end, field) ==
  BuildSegments(start, end,
                Track(history, Baseline(history, start), field),
                Track(history, Within(history, start, end), field))

-----------------------------------------------------------------------------
(* Since when.                                                             *)

\* lag(...) over (order by occurred_at, id): the event before, if any.
Lag(history, i) == {j \in DOMAIN history : Precedes(history, j, i)}

\* Mutant: any event is a transition.
TransitionsOfBoth(history, field) == DOMAIN history

\* is_distinct_from: the first event has no predecessor and is a transition.
Transitions(history, field) ==
  {i \in DOMAIN history :
     \/ Lag(history, i) = {}
     \/ history[Latest(history, Lag(history, i))][field] # history[i][field]}

\* max(case(...)): online_state_since and wan_state_since.
\* (For a device that has events.)
Since(history, field) ==
  LET times == {history[i].at : i \in Transitions(history, field)}
  IN  CHOOSE t \in times : \A u \in times : u <= t
=============================================================================
