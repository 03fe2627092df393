-------------------------- MODULE CameraStreams_proofs --------------------------
(***************************************************************************)
(* Proofs about CameraStreams, for any sessions, streams, cameras and      *)
(* bounds: one ffmpeg for an HLS directory, and viewers that are sessions. *)
(* The queue of the lock plays no part in these two: whoever has the lock  *)
(* acts alone, in whatever order it was given.  Of the queue itself it is  *)
(* proved that it has its type, and that it holds those who wait for the   *)
(* lock, each of them once.                                                *)
(***************************************************************************)
EXTENDS CameraStreams, SequenceTheorems, TLAPS

\* The types but those of the queue and the bounds; a session that a client
\* asked for has a key.
Types ==
  /\ sessions \in [Session -> SessionState]
  /\ shared \in [Key -> StreamId \cup {None}]
  /\ streams \in [StreamId -> StreamState]
  /\ cleanup \in CleanupState
  /\ lock \in Waiter \cup {None}
  /\ stopping \in StreamId \cup {None}
  /\ lateReadsLeft \in 0..MaxLateReads
  /\ \A k \in Key : shared[k] # None => streams[shared[k]].key = k
  /\ \A v \in Session : sessions[v].phase # "none" => sessions[v].key \in Key

\* Who does what only the holder of the lock does, holds it.
SessionHolds(v) ==
  /\ sessions[v].phase = "replacing" =>
       lock = v /\ stopping # None /\ streams[stopping].key = sessions[v].key
  /\ sessions[v].phase = "spawning" =>
       lock = v /\ stopping = None /\ shared[sessions[v].key] = None

WatcherHolds(s) == streams[s].watcher = "spawning" => lock = s /\ InDict(s)

CleanerHolds ==
  cleanup.phase = "sweeping" =>
    /\ lock = Cleaner
    /\ stopping # None => stopping \in cleanup.todo
    /\ \A s \in cleanup.todo : s # stopping => InDict(s)

\* The stream that is being stopped is not in the dict, and nothing is at its key.
StoppedIsOut ==
  stopping # None =>
    /\ lock \in Session \cup {Cleaner}
    /\ streams[stopping].key \in Key
    /\ shared[streams[stopping].key] = None

\* A stream that runs, or that somebody watches, is in the dict or being stopped.
Placed(s) ==
  streams[s].process = "running" \/ streams[s].viewers # {} => InDict(s) \/ stopping = s

Attended(s) ==
  \A v \in streams[s].viewers :
    /\ sessions[v].phase \in {"viewing", "expired", "dropped", "leaving"}
    /\ sessions[v].key = streams[s].key

Inv ==
  /\ Types
  /\ \A v \in Session : SessionHolds(v)
  /\ \A s \in StreamId : WatcherHolds(s) /\ Placed(s) /\ (NoLateRead => Attended(s))
  /\ CleanerHolds
  /\ StoppedIsOut

-----------------------------------------------------------------------------
(* Steps of a kind.                                                        *)

LEMMA InitInv == Init => Inv
BY BoundAssumption, WaiterAssumption
   DEF Init, Inv, Types, SessionHolds, WatcherHolds, CleanerHolds, StoppedIsOut, Placed, Attended,
       NoSession, NoStream, Asleep, SessionState, StreamState, CleanupState, InDict

\* A session that goes from one phase to another without the lock.
LEMMA SessionMoves ==
  ASSUME Inv, NEW v \in Session, NEW new \in SessionState,
         sessions' = [sessions EXCEPT ![v] = new],
         sessions[v].phase \notin {"replacing", "spawning"},
         new.phase \notin {"replacing", "spawning"},
         new.phase # "none" => new.key \in Key,
         UNCHANGED <<shared, streams, lock, stopping>>,
         cleanup' \in CleanupState, cleanup'.phase = cleanup.phase, cleanup'.todo = cleanup.todo,
         lateReadsLeft' \in 0..lateReadsLeft,
         \/ lateReadsLeft' # lateReadsLeft
         \/ /\ new.phase \in {"viewing", "expired", "dropped", "leaving"}
            /\ new.key = sessions[v].key
         \/ sessions[v].phase \in {"none", "starting", "attaching"}
  PROVE  Inv'
<1> USE DEF Inv
<1>1. Types'
  BY BoundAssumption DEF Types
<1>2. \A w \in Session : SessionHolds(w)'
  BY <1>1 DEF Types, SessionHolds
<1>3. ASSUME NEW s \in StreamId PROVE WatcherHolds(s)' /\ Placed(s)'
  BY DEF WatcherHolds, Placed, InDict
<1>4. CleanerHolds' /\ StoppedIsOut'
  BY DEF CleanerHolds, StoppedIsOut, InDict
<1>5. ASSUME NoLateRead', NEW s \in StreamId PROVE Attended(s)'
  <2>1. NoLateRead /\ lateReadsLeft' = lateReadsLeft
    BY <1>5, BoundAssumption DEF NoLateRead, Types
  <2>2. Attended(s)
    BY <2>1
  <2>3. streams[s].viewers \subseteq Session
    BY DEF Types, StreamState
  <2>. QED
    BY <2>1, <2>2, <2>3 DEF Attended, Types
<1>. QED
  BY <1>1, <1>2, <1>3, <1>4, <1>5

\* What happens to a stream that stays where it is: it does not begin to run
\* unless it is in the dict, and its watcher holds the lock while it spawns.
LEMMA StreamMoves ==
  ASSUME Inv, NEW s \in StreamId, NEW new \in StreamState,
         streams' = [streams EXCEPT ![s] = new],
         new.key = streams[s].key, new.viewers = streams[s].viewers,
         new.process = "running" => streams[s].process = "running" \/ InDict(s),
         new.watcher = "spawning" => lock' = s /\ InDict(s),
         UNCHANGED <<sessions, shared, stopping, lateReadsLeft>>,
         \/ lock' = lock
         \/ lock = None /\ lock' = s
         \/ lock = s /\ lock' = None,
         cleanup' = cleanup
  PROVE  Inv'
<1> USE WaiterAssumption DEF Inv, Waiter
<1>1. \A t \in StreamId : /\ streams'[t].key = streams[t].key /\ streams'[t].viewers = streams[t].viewers
                          /\ InDict(t)' = InDict(t)
                          /\ t # s => streams'[t] = streams[t]
  BY DEF Types, InDict
<1>2. Types'
  BY <1>1 DEF Types
<1>3. ASSUME NEW v \in Session PROVE SessionHolds(v)'
  BY <1>1 DEF SessionHolds, Types
<1>4. ASSUME NEW t \in StreamId PROVE WatcherHolds(t)'
  <2>1. CASE t = s
    BY <1>1, <2>1 DEF WatcherHolds, Types
  <2>2. CASE t # s
    BY <1>1, <2>2 DEF WatcherHolds
  <2>. QED
    BY <2>1, <2>2
<1>5. ASSUME NEW t \in StreamId PROVE Placed(t)'
  <2>1. CASE t = s
    BY <1>1, <2>1 DEF Placed, Types
  <2>2. CASE t # s
    BY <1>1, <2>2 DEF Placed
  <2>. QED
    BY <2>1, <2>2
<1>6. ASSUME NEW t \in StreamId, NoLateRead' PROVE Attended(t)'
  BY <1>1, <1>6 DEF Attended, NoLateRead
<1>7. CleanerHolds'
  BY <1>1 DEF CleanerHolds, Types, CleanupState
<1>8. StoppedIsOut'
  BY <1>1 DEF StoppedIsOut, Types
<1>. QED
  BY <1>2, <1>3, <1>4, <1>5, <1>6, <1>7, <1>8

\* The cleanup task goes on without the lock, or takes it or leaves it with
\* nothing to stop.
LEMMA CleanerMoves ==
  ASSUME Inv, cleanup' \in CleanupState, UNCHANGED <<sessions, shared, streams, stopping, lateReadsLeft>>,
         \/ lock' = lock
         \/ lock = None /\ lock' = Cleaner
         \/ lock = Cleaner /\ lock' = None /\ stopping = None,
         cleanup'.phase = "sweeping" =>
           /\ lock' = Cleaner
           /\ stopping # None => stopping \in cleanup'.todo
           /\ \A s \in cleanup'.todo : s # stopping => InDict(s)
  PROVE  Inv'
<1> USE WaiterAssumption DEF Inv, Waiter
<1>1. Types'
  BY DEF Types
<1>2. \A v \in Session : SessionHolds(v)'
  BY DEF SessionHolds
<1>3. ASSUME NEW s \in StreamId PROVE WatcherHolds(s)' /\ Placed(s)' /\ (NoLateRead' => Attended(s)')
  BY DEF WatcherHolds, Placed, InDict, Attended, NoLateRead
<1>4. CleanerHolds' /\ StoppedIsOut'
  BY DEF CleanerHolds, StoppedIsOut, InDict
<1>. QED
  BY <1>1, <1>2, <1>3, <1>4

-----------------------------------------------------------------------------
(* Steps of a session.                                                     *)

LEMMA SetPhaseType ==
  ASSUME Types, NEW v \in Session,
         NEW phase \in {"attaching", "viewing", "expired", "dropped", "leaving", "replacing", "spawning"},
         SetPhase(v, phase)
  PROVE  LET new == [sessions[v] EXCEPT !.phase = phase]
         IN  /\ new \in SessionState /\ new.phase = phase /\ new.key = sessions[v].key
             /\ sessions' = [sessions EXCEPT ![v] = new]
             /\ sessions'[v] = new
BY DEF Types, SetPhase, SessionState

LEMMA NoSessionType ==
  /\ NoSession \in SessionState /\ NoSession.phase = "none"
BY DEF NoSession, SessionState

LEMMA CreateStep ==
  ASSUME Inv, NEW v \in Session, NEW k \in Key, CreateCameraSession(v, k)
  PROVE  Inv'
<1> DEFINE new == [phase |-> "starting", key |-> k]
<1>1. new \in SessionState /\ new.phase = "starting" /\ new.key = k
  BY DEF SessionState
<1>2. sessions' = [sessions EXCEPT ![v] = new] /\ sessions[v].phase = "none"
  BY DEF CreateCameraSession
<1>3. UNCHANGED <<shared, streams, cleanup, lock, stopping, lateReadsLeft>>
  BY DEF CreateCameraSession
<1>4. cleanup \in CleanupState /\ lateReadsLeft \in 0..lateReadsLeft
  BY BoundAssumption DEF Inv, Types
<1> HIDE DEF new
<1>. QED
  BY <1>1, <1>2, <1>3, <1>4, SessionMoves

LEMMA ReuseStep ==
  ASSUME Inv, NEW v \in Session, ReuseStream(v)
  PROVE  Inv'
<1> DEFINE new == [sessions[v] EXCEPT !.phase = "attaching"]
<1>1. /\ Types /\ sessions[v].phase = "starting" /\ SetPhase(v, "attaching")
      /\ UNCHANGED <<shared, streams, cleanup, lock, stopping, lateReadsLeft>>
  BY DEF Inv, ReuseStream, bounds
<1>2. /\ new \in SessionState /\ new.phase = "attaching" /\ new.key = sessions[v].key
      /\ sessions' = [sessions EXCEPT ![v] = new]
  BY <1>1, SetPhaseType
<1>3. cleanup \in CleanupState /\ lateReadsLeft \in 0..lateReadsLeft /\ sessions[v].key \in Key
  BY <1>1, BoundAssumption DEF Types
<1> HIDE DEF new
<1>. QED
  BY <1>1, <1>2, <1>3, SessionMoves

LEMMA StopSessionStep ==
  ASSUME Inv, NEW v \in Session, StopCameraSession(v)
  PROVE  Inv'
<1> DEFINE new == [sessions[v] EXCEPT !.phase = "leaving"]
<1>1. /\ Types /\ sessions[v].phase \in {"viewing", "expired"} /\ SetPhase(v, "leaving")
      /\ UNCHANGED <<shared, streams, cleanup, lock, stopping, lateReadsLeft>>
  BY DEF Inv, StopCameraSession, bounds, lockVars
<1>2. /\ new \in SessionState /\ new.phase = "leaving" /\ new.key = sessions[v].key
      /\ sessions' = [sessions EXCEPT ![v] = new]
  BY <1>1, SetPhaseType
<1>3. cleanup \in CleanupState /\ lateReadsLeft \in 0..lateReadsLeft /\ sessions[v].key \in Key
  BY <1>1, BoundAssumption DEF Types
<1> HIDE DEF new
<1>. QED
  BY <1>1, <1>2, <1>3, SessionMoves

LEMMA ExpireStep ==
  ASSUME Inv, NEW v \in Session, Expire(v)
  PROVE  Inv'
<1> DEFINE new == [sessions[v] EXCEPT !.phase = "expired"]
<1>1. /\ Types /\ sessions[v].phase \in {"viewing", "expired"} /\ SetPhase(v, "expired")
      /\ UNCHANGED <<shared, streams, cleanup, lock, stopping, lateReadsLeft>>
  BY DEF Inv, Expire, bounds, lockVars
<1>2. /\ new \in SessionState /\ new.phase = "expired" /\ new.key = sessions[v].key
      /\ sessions' = [sessions EXCEPT ![v] = new]
  BY <1>1, SetPhaseType
<1>3. cleanup \in CleanupState /\ lateReadsLeft \in 0..lateReadsLeft /\ sessions[v].key \in Key
  BY <1>1, BoundAssumption DEF Types
<1> HIDE DEF new
<1>. QED
  BY <1>1, <1>2, <1>3, SessionMoves

LEMMA LateReadStep ==
  ASSUME Inv, NEW v \in Session, GetFileLate(v)
  PROVE  Inv'
<1>1. /\ sessions[v].phase = "expired" /\ sessions' = [sessions EXCEPT ![v] = NoSession]
      /\ lateReadsLeft' = lateReadsLeft - 1 /\ lateReadsLeft > 0
      /\ UNCHANGED <<shared, streams, cleanup, lock, stopping>>
  BY DEF GetFileLate, lockVars
<1>2. cleanup \in CleanupState /\ lateReadsLeft \in Nat
  BY BoundAssumption DEF Inv, Types
<1>3. lateReadsLeft' \in 0..lateReadsLeft /\ lateReadsLeft' # lateReadsLeft
  BY <1>1, <1>2
<1>. QED
  BY <1>1, <1>2, <1>3, NoSessionType, SessionMoves

LEMMA ReleaseExpiredStep ==
  ASSUME Inv, NEW v \in Session, ReleaseExpired(v)
  PROVE  Inv'
<1> DEFINE new == [sessions[v] EXCEPT !.phase = "leaving"]
<1>1. /\ Types /\ sessions[v].phase = "dropped" /\ SetPhase(v, "leaving")
      /\ cleanup' = [cleanup EXCEPT !.current = v]
      /\ UNCHANGED <<shared, streams, lock, stopping, lateReadsLeft>>
  BY DEF Inv, ReleaseExpired, bounds
<1>2. /\ new \in SessionState /\ new.phase = "leaving" /\ new.key = sessions[v].key
      /\ sessions' = [sessions EXCEPT ![v] = new]
  BY <1>1, SetPhaseType
<1>3. lateReadsLeft \in 0..lateReadsLeft /\ sessions[v].key \in Key
  BY <1>1, BoundAssumption DEF Types
<1>4. cleanup' \in CleanupState /\ cleanup'.phase = cleanup.phase /\ cleanup'.todo = cleanup.todo
  BY <1>1 DEF Types, CleanupState
<1> HIDE DEF new
<1>. QED
  BY <1>1, <1>2, <1>3, <1>4, SessionMoves

LEMMA ReplaceStep ==
  ASSUME Inv, NEW v \in Session, NEW s \in StreamId, ReplaceStream(v, s)
  PROVE  Inv'
<1> USE WaiterAssumption DEF Inv, Waiter
<1> DEFINE new == [sessions[v] EXCEPT !.phase = "replacing"]
           k == sessions[v].key
<1>1. /\ sessions[v].phase = "starting" /\ k \in Key /\ shared[k] = s /\ streams[s].key = k /\ lock = None
      /\ SetPhase(v, "replacing") /\ lock' = v /\ stopping' = s
      /\ shared' = [shared EXCEPT ![k] = None]
      /\ streams' = [streams EXCEPT ![s].watcher = IF Watched(s) THEN "cancelled" ELSE @]
      /\ UNCHANGED <<cleanup, lateReadsLeft>>
  BY DEF ReplaceStream, BeginStop, MyTurn, Types, bounds
<1>2. /\ new \in SessionState /\ new.phase = "replacing" /\ new.key = k
      /\ sessions' = [sessions EXCEPT ![v] = new] /\ sessions'[v] = new
  BY <1>1, SetPhaseType
<1> HIDE DEF new
<1>3. \A t \in StreamId : /\ streams'[t].key = streams[t].key /\ streams'[t].viewers = streams[t].viewers
                          /\ streams'[t].process = streams[t].process
                          /\ streams'[t] \in StreamState
                          /\ streams'[t].watcher \in {streams[t].watcher, "cancelled"}
  BY <1>1 DEF Types, StreamState
<1>4. \A t \in StreamId : t # s => (InDict(t) <=> InDict(t)')
  BY <1>1, <1>3 DEF InDict, Types
<1>5. Types'
  <2>1. streams' \in [StreamId -> StreamState]
    BY <1>1, <1>3 DEF Types
  <2>2. \A x \in Key : shared'[x] # None => streams'[shared'[x]].key = x
    BY <1>1, <1>3 DEF Types
  <2>3. \A w \in Session : sessions'[w].phase # "none" => sessions'[w].key \in Key
    BY <1>1, <1>2 DEF Types
  <2>. QED
    BY <1>1, <1>2, <2>1, <2>2, <2>3 DEF Types
<1>6. stopping = None
  BY <1>1 DEF StoppedIsOut
<1>7. ASSUME NEW w \in Session PROVE SessionHolds(w)'
  <2>1. CASE w = v
    BY <1>1, <1>2, <1>3, <2>1 DEF SessionHolds
  <2>2. CASE w # v
    BY <1>1, <1>2, <2>2 DEF SessionHolds, Types
  <2>. QED
    BY <2>1, <2>2
<1>8. ASSUME NEW t \in StreamId PROVE WatcherHolds(t)'
  BY <1>1, <1>3 DEF WatcherHolds
<1>9. ASSUME NEW t \in StreamId PROVE Placed(t)'
  BY <1>1, <1>3, <1>4, <1>6 DEF Placed
<1>10. ASSUME NEW t \in StreamId, NoLateRead' PROVE Attended(t)'
  <2>1. Attended(t) /\ streams[t].viewers \subseteq Session
    BY <1>1, <1>10 DEF NoLateRead, Types, StreamState
  <2>2. v \notin streams[t].viewers
    BY <1>1, <2>1 DEF Attended
  <2>. QED
    BY <1>2, <1>3, <2>1, <2>2 DEF Attended, Types
<1>11. CleanerHolds'
  BY <1>1 DEF CleanerHolds
<1>12. StoppedIsOut'
  BY <1>1, <1>3 DEF StoppedIsOut, Types
<1>. QED
  BY <1>5, <1>7, <1>8, <1>9, <1>10, <1>11, <1>12

\* What was being stopped has ended: nothing is left of the stream.
LEMMA Ending ==
  ASSUME Inv, NEW s \in StreamId, EndStop(s), UNCHANGED shared, lateReadsLeft' = lateReadsLeft
  PROVE  /\ streams' \in [StreamId -> StreamState] /\ stopping' = None
         /\ \A k \in Key : shared'[k] # None => streams'[shared'[k]].key = k
         /\ \A t \in StreamId : t # s => (InDict(t) <=> InDict(t)') /\ streams'[t] = streams[t]
         /\ \A t \in StreamId : streams'[t].watcher = "spawning" => streams[t].watcher = "spawning" /\ t # s
         /\ \A t \in StreamId : Placed(t)'
         /\ streams'[s].viewers = {}
<1> USE WaiterAssumption DEF Inv
<1>1. /\ stopping = s /\ stopping' = None /\ streams' = [streams EXCEPT ![s] = NoStream]
      /\ shared' = shared
  BY DEF EndStop
<1>2. NoStream \in StreamState /\ NoStream.viewers = {} /\ NoStream.process = "none" /\ NoStream.watcher = "none"
  BY DEF NoStream, StreamState
<1>3. streams' \in [StreamId -> StreamState] /\ streams'[s] = NoStream
      /\ \A t \in StreamId : t # s => streams'[t] = streams[t]
  BY <1>1, <1>2 DEF Types
<1>4. \A k \in Key : shared[k] # s
  <2>1. streams[s].key \in Key /\ shared[streams[s].key] = None
    BY <1>1 DEF StoppedIsOut
  <2>. QED
    BY <2>1 DEF Types
<1>5. \A t \in StreamId : t # s => (InDict(t) <=> InDict(t)')
  BY <1>1, <1>3 DEF InDict
<1>6. \A k \in Key : shared'[k] # None => streams'[shared'[k]].key = k
  BY <1>1, <1>3, <1>4 DEF Types
<1>7. ASSUME NEW t \in StreamId PROVE Placed(t)'
  <2>1. CASE t = s
    BY <1>2, <1>3, <2>1 DEF Placed
  <2>2. CASE t # s
    BY <1>1, <1>3, <1>5, <2>2 DEF Placed
  <2>. QED
    BY <2>1, <2>2
<1>. QED
  BY <1>1, <1>2, <1>3, <1>5, <1>6, <1>7

LEMMA EndReplacingStep ==
  ASSUME Inv, NEW v \in Session, NEW s \in StreamId, EndReplacing(v, s)
  PROVE  Inv'
<1> USE WaiterAssumption DEF Inv, Waiter
<1> DEFINE new == [sessions[v] EXCEPT !.phase = "spawning"]
           k == sessions[v].key
<1>1. /\ sessions[v].phase = "replacing" /\ k \in Key /\ EndStop(s) /\ SetPhase(v, "spawning")
      /\ UNCHANGED <<shared, cleanup, lock, lateReadsLeft>> /\ stopping = s
  BY DEF EndReplacing, EndStop, Types, bounds
<1>2. /\ new \in SessionState /\ new.phase = "spawning" /\ new.key = k
      /\ sessions' = [sessions EXCEPT ![v] = new] /\ sessions'[v] = new
  BY <1>1, SetPhaseType
<1> HIDE DEF new
<1>3. /\ streams' \in [StreamId -> StreamState] /\ stopping' = None
      /\ \A x \in Key : shared'[x] # None => streams'[shared'[x]].key = x
      /\ \A t \in StreamId : t # s => (InDict(t) <=> InDict(t)') /\ streams'[t] = streams[t]
      /\ \A t \in StreamId : streams'[t].watcher = "spawning" => streams[t].watcher = "spawning" /\ t # s
      /\ \A t \in StreamId : Placed(t)'
      /\ streams'[s].viewers = {}
  BY <1>1, Ending
<1>4. lock = v /\ streams[s].key = k /\ shared[k] = None
  BY <1>1 DEF SessionHolds, StoppedIsOut
<1>5. Types'
  BY <1>1, <1>2, <1>3 DEF Types
<1>6. ASSUME NEW w \in Session PROVE SessionHolds(w)'
  <2>1. CASE w = v
    BY <1>1, <1>2, <1>3, <1>4, <2>1 DEF SessionHolds
  <2>2. CASE w # v
    BY <1>1, <1>2, <1>4, <2>2 DEF SessionHolds, Types
  <2>. QED
    BY <2>1, <2>2
<1>7. ASSUME NEW t \in StreamId PROVE WatcherHolds(t)'
  BY <1>1, <1>3, <1>4 DEF WatcherHolds
<1>8. ASSUME NEW t \in StreamId, NoLateRead' PROVE Attended(t)'
  <2>1. CASE t = s
    BY <1>3, <2>1 DEF Attended
  <2>2. CASE t # s
    <3>1. Attended(t) /\ streams[t].viewers \subseteq Session /\ streams'[t] = streams[t]
      BY <1>1, <1>3, <1>8, <2>2 DEF NoLateRead, Types, StreamState
    <3>2. v \notin streams[t].viewers
      BY <1>1, <3>1 DEF Attended
    <3>. QED
      BY <1>2, <3>1, <3>2 DEF Attended, Types
  <2>. QED
    BY <2>1, <2>2
<1>9. CleanerHolds' /\ StoppedIsOut'
  BY <1>1, <1>3, <1>4 DEF CleanerHolds, StoppedIsOut
<1>. QED
  BY <1>3, <1>5, <1>6, <1>7, <1>8, <1>9

LEMMA StartStep ==
  ASSUME Inv, NEW v \in Session, StartStream(v)
  PROVE  Inv'
<1> USE WaiterAssumption DEF Inv, Waiter
<1> DEFINE new == [sessions[v] EXCEPT !.phase = "spawning"]
<1>1. /\ sessions[v].phase = "starting" /\ shared[sessions[v].key] = None /\ SetPhase(v, "spawning")
      /\ lock = None /\ lock' = v
      /\ UNCHANGED <<shared, streams, cleanup, stopping, lateReadsLeft>>
  BY DEF StartStream, Enter, MyTurn, bounds
<1>2. /\ new \in SessionState /\ new.phase = "spawning" /\ new.key = sessions[v].key
      /\ sessions' = [sessions EXCEPT ![v] = new] /\ sessions'[v] = new
  BY <1>1, SetPhaseType
<1> HIDE DEF new
<1>3. stopping = None
  BY <1>1 DEF StoppedIsOut
<1>4. Types'
  BY <1>1, <1>2 DEF Types
<1>5. ASSUME NEW w \in Session PROVE SessionHolds(w)'
  <2>1. CASE w = v
    BY <1>1, <1>2, <1>3, <2>1 DEF SessionHolds
  <2>2. CASE w # v
    BY <1>1, <1>2, <2>2 DEF SessionHolds, Types
  <2>. QED
    BY <2>1, <2>2
<1>6. ASSUME NEW t \in StreamId PROVE WatcherHolds(t)' /\ Placed(t)'
  BY <1>1 DEF WatcherHolds, Placed, InDict
<1>7. ASSUME NEW t \in StreamId, NoLateRead' PROVE Attended(t)'
  <2>1. Attended(t) /\ streams[t].viewers \subseteq Session
    BY <1>1, <1>7 DEF NoLateRead, Types, StreamState
  <2>2. v \notin streams[t].viewers
    BY <1>1, <2>1 DEF Attended
  <2>. QED
    BY <1>1, <1>2, <2>1, <2>2 DEF Attended, Types
<1>8. CleanerHolds' /\ StoppedIsOut'
  BY <1>1, <1>3 DEF CleanerHolds, StoppedIsOut
<1>. QED
  BY <1>4, <1>5, <1>6, <1>7, <1>8

LEMMA SpawnedStep ==
  ASSUME Inv, NEW v \in Session, NEW s \in StreamId, Spawned(v, s)
  PROVE  Inv'
<1> USE WaiterAssumption DEF Inv, Waiter
<1> DEFINE new == [sessions[v] EXCEPT !.phase = "attaching"]
           k == sessions[v].key
<1>1. /\ sessions[v].phase = "spawning" /\ k \in Key /\ streams[s].key = None /\ SetPhase(v, "attaching")
      /\ streams' = [streams EXCEPT ![s] = NewStream(k)]
      /\ shared' = [shared EXCEPT ![k] = s]
      /\ lock = v /\ lock' = None
      /\ UNCHANGED <<cleanup, stopping, lateReadsLeft>>
  BY DEF Spawned, Leave, Types, bounds
<1>2. /\ new \in SessionState /\ new.phase = "attaching" /\ new.key = k
      /\ sessions' = [sessions EXCEPT ![v] = new] /\ sessions'[v] = new
  BY <1>1, SetPhaseType
<1> HIDE DEF new
<1>3. stopping = None /\ shared[k] = None
  BY <1>1 DEF SessionHolds
<1>4. /\ NewStream(k) \in StreamState /\ NewStream(k).key = k /\ NewStream(k).viewers = {}
      /\ NewStream(k).process = "running" /\ NewStream(k).watcher = "waiting"
  BY <1>1 DEF NewStream, NoStream, StreamState
<1>5. /\ streams' \in [StreamId -> StreamState] /\ streams'[s] = NewStream(k)
      /\ \A t \in StreamId : t # s => streams'[t] = streams[t]
  BY <1>1, <1>4 DEF Types
<1>6. \A x \in Key : shared[x] # s
  BY <1>1 DEF Types
<1>7. /\ InDict(s)' /\ shared' \in [Key -> StreamId \cup {None}]
      /\ \A t \in StreamId : t # s => (InDict(t) => InDict(t)')
  BY <1>1, <1>3, <1>4, <1>5 DEF InDict, Types
<1>8. Types'
  <2>1. \A x \in Key : shared'[x] # None => streams'[shared'[x]].key = x
    BY <1>1, <1>4, <1>5, <1>6 DEF Types
  <2>. QED
    BY <1>1, <1>2, <1>5, <1>7, <2>1 DEF Types
<1>9. ASSUME NEW w \in Session PROVE SessionHolds(w)'
  <2>1. CASE w = v
    BY <1>2, <2>1 DEF SessionHolds
  <2>2. CASE w # v
    BY <1>1, <1>2, <2>2 DEF SessionHolds, Types
  <2>. QED
    BY <2>1, <2>2
<1>10. ASSUME NEW t \in StreamId PROVE WatcherHolds(t)' /\ Placed(t)'
  <2>1. CASE t = s
    BY <1>4, <1>5, <1>7, <2>1 DEF WatcherHolds, Placed
  <2>2. CASE t # s
    BY <1>1, <1>5, <1>7, <2>2 DEF WatcherHolds, Placed
  <2>. QED
    BY <2>1, <2>2
<1>11. ASSUME NEW t \in StreamId, NoLateRead' PROVE Attended(t)'
  <2>1. CASE t = s
    BY <1>4, <1>5, <2>1 DEF Attended
  <2>2. CASE t # s
    <3>1. Attended(t) /\ streams[t].viewers \subseteq Session /\ streams'[t] = streams[t]
      BY <1>1, <1>5, <1>11, <2>2 DEF NoLateRead, Types, StreamState
    <3>2. v \notin streams[t].viewers
      BY <1>1, <3>1 DEF Attended
    <3>. QED
      BY <1>2, <3>1, <3>2 DEF Attended, Types
  <2>. QED
    BY <2>1, <2>2
<1>12. CleanerHolds' /\ StoppedIsOut'
  BY <1>1, <1>3 DEF CleanerHolds, StoppedIsOut
<1>. QED
  BY <1>8, <1>9, <1>10, <1>11, <1>12

LEMMA SpawnFailsStep ==
  ASSUME Inv, NEW v \in Session, SpawnFails(v)
  PROVE  Inv'
<1> USE WaiterAssumption DEF Inv, Waiter
<1>1. /\ sessions[v].phase = "spawning" /\ sessions' = [sessions EXCEPT ![v] = NoSession]
      /\ lock = v /\ lock' = None
      /\ UNCHANGED <<shared, streams, cleanup, stopping, lateReadsLeft>>
  BY DEF SpawnFails, Leave
<1>2. stopping = None /\ sessions'[v] = NoSession
  BY <1>1 DEF SessionHolds, Types
<1>3. Types'
  BY <1>1, <1>2, NoSessionType DEF Types
<1>4. ASSUME NEW w \in Session PROVE SessionHolds(w)'
  <2>1. CASE w = v
    BY <1>2, <2>1, NoSessionType DEF SessionHolds
  <2>2. CASE w # v
    BY <1>1, <2>2 DEF SessionHolds, Types
  <2>. QED
    BY <2>1, <2>2
<1>5. ASSUME NEW t \in StreamId PROVE WatcherHolds(t)' /\ Placed(t)'
  BY <1>1 DEF WatcherHolds, Placed, InDict
<1>6. ASSUME NEW t \in StreamId, NoLateRead' PROVE Attended(t)'
  <2>1. Attended(t) /\ streams[t].viewers \subseteq Session
    BY <1>1, <1>6 DEF NoLateRead, Types, StreamState
  <2>2. v \notin streams[t].viewers
    BY <1>1, <2>1 DEF Attended
  <2>. QED
    BY <1>1, <2>1, <2>2 DEF Attended, Types
<1>7. CleanerHolds' /\ StoppedIsOut'
  BY <1>1, <1>2 DEF CleanerHolds, StoppedIsOut
<1>. QED
  BY <1>3, <1>4, <1>5, <1>6, <1>7

\* A stream whose viewers and idle time change is a stream.
LEMMA ViewersMove ==
  ASSUME NEW x \in StreamState, NEW viewers \in SUBSET Session,
         NEW idle \in {"unset", "recent", "past"}
  PROVE  LET y == [x EXCEPT !.viewers = viewers, !.idle = idle]
         IN  /\ y \in StreamState /\ y.key = x.key /\ y.process = x.process
             /\ y.watcher = x.watcher /\ y.viewers = viewers
BY DEF StreamState

\* The session joins the stream of its key, which is in the dict.
LEMMA AttachStep ==
  ASSUME Inv, NEW v \in Session, Attach(v)
  PROVE  Inv'
<1> USE WaiterAssumption DEF Inv, Waiter
<1> DEFINE s == shared[sessions[v].key]
<1>1. /\ sessions[v].phase = "attaching" /\ sessions[v].key \in Key
      /\ UNCHANGED <<shared, cleanup, lock, stopping, lateReadsLeft>>
      /\ cleanup \in CleanupState /\ lateReadsLeft \in 0..lateReadsLeft
  BY BoundAssumption DEF Attach, Pass, Types, bounds
<1>2. CASE s = None /\ sessions' = [sessions EXCEPT ![v] = NoSession] /\ UNCHANGED streams
  BY <1>1, <1>2, NoSessionType, SessionMoves
<1>3. CASE /\ s # None /\ SetPhase(v, "viewing")
           /\ streams' = [streams EXCEPT ![s].viewers = @ \cup {v}, ![s].idle = "unset"]
  <2> DEFINE new == [sessions[v] EXCEPT !.phase = "viewing"]
  <2>1. /\ new \in SessionState /\ new.phase = "viewing" /\ new.key = sessions[v].key
        /\ sessions' = [sessions EXCEPT ![v] = new] /\ sessions'[v] = new
    BY <1>3, SetPhaseType
  <2> HIDE DEF new
  <2>2. s \in StreamId /\ streams[s].key = sessions[v].key /\ InDict(s)
    BY <1>1, <1>3 DEF Types, InDict
  <2>3. \A t \in StreamId :
          /\ streams'[t] \in StreamState /\ streams'[t].key = streams[t].key
          /\ streams'[t].process = streams[t].process /\ streams'[t].watcher = streams[t].watcher
          /\ streams'[t].viewers = IF t = s THEN streams[t].viewers \cup {v} ELSE streams[t].viewers
    <3> DEFINE joined == [streams[s] EXCEPT !.viewers = @ \cup {v}, !.idle = "unset"]
    <3>1. /\ joined \in StreamState /\ joined.key = streams[s].key
          /\ joined.process = streams[s].process /\ joined.watcher = streams[s].watcher
          /\ joined.viewers = streams[s].viewers \cup {v}
      <4>1. streams[s] \in StreamState /\ streams[s].viewers \cup {v} \in SUBSET Session
        BY <2>2 DEF Types, StreamState
      <4> HIDE DEF s, Inv
      <4>. QED
        BY <4>1, ViewersMove
    <3>2. streams' = [streams EXCEPT ![s] = joined]
      BY <1>3
    <3> HIDE DEF joined
    <3>3. streams'[s] = joined /\ \A t \in StreamId : t # s => streams'[t] = streams[t]
      BY <2>2, <3>2 DEF Types
    <3>4. \A t \in StreamId : streams[t] \in StreamState
      BY DEF Types
    <3> HIDE DEF s
    <3>. QED
      BY <3>1, <3>3, <3>4
  <2>4. \A t \in StreamId : InDict(t)' <=> InDict(t)
    BY <1>1, <2>3 DEF InDict
  <2>5. Types'
    <3>1. streams' \in [StreamId -> StreamState]
      BY <1>3, <2>3 DEF Types
    <3>. QED
      BY <1>1, <2>1, <2>3, <3>1 DEF Types
  <2>6. ASSUME NEW w \in Session PROVE SessionHolds(w)'
    <3>1. CASE w = v
      BY <2>1, <3>1 DEF SessionHolds
    <3>2. CASE w # v
      BY <1>1, <2>1, <2>3, <3>2 DEF SessionHolds, Types
    <3>. QED
      BY <3>1, <3>2
  <2>7. ASSUME NEW t \in StreamId PROVE WatcherHolds(t)' /\ Placed(t)'
    <3>1. WatcherHolds(t)'
      BY <1>1, <2>3, <2>4 DEF WatcherHolds
    <3>2. Placed(t)'
      BY <1>1, <2>2, <2>3, <2>4 DEF Placed
    <3>. QED
      BY <3>1, <3>2
  <2>8. ASSUME NEW t \in StreamId, NoLateRead' PROVE Attended(t)'
    <3>1. Attended(t) /\ streams[t].viewers \subseteq Session
      BY <1>1, <2>8 DEF NoLateRead, Types, StreamState
    <3>2. v \notin streams[t].viewers
      BY <1>1, <3>1 DEF Attended
    <3>3. \A w \in streams[t].viewers : sessions'[w] = sessions[w]
      BY <2>1, <3>1, <3>2 DEF Types
    <3>4. ASSUME NEW w \in streams'[t].viewers
          PROVE  /\ sessions'[w].phase \in {"viewing", "expired", "dropped", "leaving"}
                 /\ sessions'[w].key = streams'[t].key
      <4>1. CASE w \in streams[t].viewers
        BY <2>3, <3>1, <3>3, <4>1 DEF Attended
      <4>2. CASE w \notin streams[t].viewers
        <5>1. t = s /\ w = v
          <6>1. w \in IF t = s THEN streams[t].viewers \cup {v} ELSE streams[t].viewers
            BY <2>3
          <6> HIDE DEF s, Inv
          <6>. QED
            BY <6>1, <4>2
        <5>. QED
          BY <2>1, <2>2, <2>3, <5>1
      <4>. QED
        BY <4>1, <4>2
    <3>. QED
      BY <3>4 DEF Attended
  <2>9. CleanerHolds' /\ StoppedIsOut'
    BY <1>1, <2>3, <2>4 DEF CleanerHolds, StoppedIsOut, Types, CleanupState
  <2>. QED
    BY <2>5, <2>6, <2>7, <2>8, <2>9
<1>. QED
  BY <1>2, <1>3 DEF Attach

\* The session leaves the stream of its key: it is a viewer of no other one.
LEMMA ReleaseStep ==
  ASSUME Inv, NEW v \in Session, ReleaseSession(v)
  PROVE  Inv'
<1> USE WaiterAssumption DEF Inv, Waiter
<1> DEFINE s == shared[sessions[v].key]
<1>1. /\ sessions[v].phase = "leaving" /\ sessions[v].key \in Key /\ lock = None
      /\ sessions' = [sessions EXCEPT ![v] = NoSession]
      /\ UNCHANGED <<shared, lock, stopping, lateReadsLeft>>
  BY DEF ReleaseSession, Pass, MyTurn, Types, bounds
<1>2. cleanup' \in CleanupState /\ cleanup'.phase = cleanup.phase /\ cleanup'.todo = cleanup.todo
  BY DEF ReleaseSession, Types, CleanupState
<1>3. stopping = None /\ sessions'[v] = NoSession
  BY <1>1 DEF StoppedIsOut, Types
<1>4. s = None \/ (s \in StreamId /\ streams[s].key = sessions[v].key)
  BY <1>1 DEF Types
<1>5. \A t \in StreamId :
        /\ streams'[t] \in StreamState /\ streams'[t].key = streams[t].key
        /\ streams'[t].process = streams[t].process /\ streams'[t].watcher = streams[t].watcher
        /\ streams'[t].viewers = IF t = s THEN streams[t].viewers \ {v} ELSE streams[t].viewers
  <2>1. CASE s = None
    BY <2>1 DEF ReleaseSession, Types
  <2>2. CASE s # None
    <3> DEFINE left == [streams[s] EXCEPT !.viewers = @ \ {v},
                          !.idle = IF streams[s].viewers \ {v} = {} THEN "recent" ELSE @]
    <3>1. /\ left \in StreamState /\ left.key = streams[s].key
          /\ left.process = streams[s].process /\ left.watcher = streams[s].watcher
          /\ left.viewers = streams[s].viewers \ {v}
      <4> DEFINE x == streams[s]
                 viewers == x.viewers \ {v}
                 idle == IF viewers = {} THEN "recent" ELSE x.idle
                 gone == [x EXCEPT !.viewers = viewers, !.idle = idle]
      <4>1. x \in StreamState /\ viewers \in SUBSET Session /\ idle \in {"unset", "recent", "past"}
        BY <1>4, <2>2 DEF Types, StreamState
      <4>2. left = gone
        OBVIOUS
      <4>3. /\ gone \in StreamState /\ gone.key = x.key /\ gone.process = x.process
            /\ gone.watcher = x.watcher /\ gone.viewers = viewers
        <5> HIDE DEF s, x, viewers, idle, left, Inv
        <5>. QED
          BY <4>1, ZenonT(60) DEF StreamState
      <4> HIDE DEF gone, left
      <4>. QED
        BY <4>2, <4>3
    <3>2. streams' = [streams EXCEPT ![s] = left]
      BY <2>2 DEF ReleaseSession
    <3> HIDE DEF left
    <3>3. streams'[s] = left /\ \A t \in StreamId : t # s => streams'[t] = streams[t]
      BY <1>4, <2>2, <3>2 DEF Types
    <3>4. \A t \in StreamId : streams[t] \in StreamState
      BY DEF Types
    <3> HIDE DEF s
    <3>. QED
      BY <3>1, <3>3, <3>4
  <2>. QED
    BY <2>1, <2>2
<1>6. \A t \in StreamId : InDict(t)' <=> InDict(t)
  BY <1>1, <1>5 DEF InDict
<1>7. Types'
  <2>1. streams' \in [StreamId -> StreamState]
    BY <1>5 DEF ReleaseSession, Types
  <2>. QED
    BY <1>1, <1>2, <1>3, <1>5, <2>1, NoSessionType DEF Types
<1>8. ASSUME NEW w \in Session PROVE SessionHolds(w)'
  <2>1. CASE w = v
    BY <1>3, <2>1, NoSessionType DEF SessionHolds
  <2>2. CASE w # v
    BY <1>1, <1>3, <2>2 DEF SessionHolds, Types
  <2>. QED
    BY <2>1, <2>2
<1>9. ASSUME NEW t \in StreamId PROVE WatcherHolds(t)' /\ Placed(t)'
  <2>1. WatcherHolds(t)'
    BY <1>1, <1>5, <1>6 DEF WatcherHolds
  <2>2. Placed(t)'
    BY <1>1, <1>5, <1>6 DEF Placed
  <2>. QED
    BY <2>1, <2>2
<1>10. ASSUME NEW t \in StreamId, NoLateRead' PROVE Attended(t)'
  <2>1. Attended(t) /\ streams[t].viewers \subseteq Session
    BY <1>1, <1>10 DEF NoLateRead, Types, StreamState
  <2>2. v \in streams[t].viewers => t = s
    <3>1. v \in streams[t].viewers => InDict(t) /\ sessions[v].key = streams[t].key
      BY <1>3, <2>1 DEF Placed, Attended
    <3>. QED
      BY <1>1, <3>1 DEF InDict
  <2>3. v \notin streams'[t].viewers /\ streams'[t].viewers \subseteq streams[t].viewers
    BY <1>5, <2>2
  <2>4. \A w \in streams'[t].viewers : sessions'[w] = sessions[w]
    BY <1>1, <2>1, <2>3 DEF Types
  <2>5. streams'[t].key = streams[t].key
    BY <1>5
  <2>. QED
    BY <2>1, <2>3, <2>4, <2>5 DEF Attended
<1>11. CleanerHolds' /\ StoppedIsOut'
  BY <1>1, <1>2, <1>3, <1>5, <1>6 DEF CleanerHolds, StoppedIsOut, Types, CleanupState
<1>. QED
  BY <1>7, <1>8, <1>9, <1>10, <1>11

-----------------------------------------------------------------------------
(* Steps of a stream and of the cleanup task.                              *)

\* A step of the watcher that leaves the process alone.
LEMMA WatcherMoves ==
  ASSUME Inv, NEW s \in StreamId, NEW watcher \in {"exited", "delaying", "retrying", "spawning", "done"},
         SetWatcher(s, watcher),
         watcher = "spawning" => lock' = s /\ InDict(s),
         UNCHANGED <<sessions, shared, stopping, lateReadsLeft, cleanup>>,
         \/ lock' = lock
         \/ lock = None /\ lock' = s
         \/ lock = s /\ lock' = None
  PROVE  Inv'
<1> DEFINE new == [streams[s] EXCEPT !.watcher = watcher]
<1>1. /\ new \in StreamState /\ new.key = streams[s].key /\ new.viewers = streams[s].viewers
      /\ new.process = streams[s].process /\ new.watcher = watcher
      /\ streams' = [streams EXCEPT ![s] = new]
  BY DEF Inv, Types, StreamState, SetWatcher
<1> HIDE DEF new
<1>. QED
  BY <1>1, StreamMoves

LEMMA WatcherStepInv ==
  ASSUME Inv, NEW s \in StreamId, WatcherStep(s)
  PROVE  Inv'
<1>1. CASE NoticeExit(s) \/ Retry(s) \/ GiveUp(s) \/ RestartFails(s) \/ WatcherStops(s)
  BY <1>1, WatcherMoves
     DEF NoticeExit, Retry, GiveUp, Pass, RestartFails, Leave, WatcherStops, lockVars, bounds
<1>2. CASE Restart(s)
  BY <1>2, WatcherMoves DEF Restart, Enter, MyTurn, bounds
<1>3. CASE HandleExit(s)
  <2> DEFINE watched == InDict(s) /\ streams[s].viewers # {}
             new == [streams[s] EXCEPT
                       !.process = IF InDict(s) THEN "none" ELSE @,
                       !.watcher = IF watched THEN "delaying" ELSE "done",
                       !.idle = IF InDict(s) /\ ~watched THEN "recent" ELSE @]
  <2>1. streams' = [streams EXCEPT ![s] = new]
    BY <1>3 DEF HandleExit
  <2>2. /\ new \in StreamState /\ new.key = streams[s].key /\ new.viewers = streams[s].viewers
        /\ new.process = "running" => streams[s].process = "running"
        /\ new.watcher # "spawning"
    BY DEF Inv, Types, StreamState
  <2>3. UNCHANGED <<sessions, shared, stopping, lateReadsLeft, lock, cleanup>>
    BY <1>3 DEF HandleExit, Pass, bounds
  <2> HIDE DEF new
  <2>. QED
    BY <2>1, <2>2, <2>3, StreamMoves
<1>4. CASE Restarted(s)
  <2> DEFINE new == [streams[s] EXCEPT !.process = "running", !.watcher = "waiting"]
  <2>1. streams' = [streams EXCEPT ![s] = new]
    BY <1>4 DEF Restarted
  <2>2. /\ new \in StreamState /\ new.key = streams[s].key /\ new.viewers = streams[s].viewers
        /\ new.watcher = "waiting"
    BY DEF Inv, Types, StreamState
  <2>3. /\ UNCHANGED <<sessions, shared, stopping, lateReadsLeft, cleanup>>
        /\ InDict(s) /\ lock = s /\ lock' = None
    BY <1>4 DEF Restarted, Leave, bounds, Inv, WatcherHolds
  <2> HIDE DEF new
  <2>. QED
    BY <2>1, <2>2, <2>3, StreamMoves
<1>. QED
  BY <1>1, <1>2, <1>3, <1>4 DEF WatcherStep

LEMMA ExitStep ==
  ASSUME Inv, NEW s \in StreamId, Exit(s)
  PROVE  Inv'
<1> DEFINE new == [streams[s] EXCEPT !.process = "exited"]
<1>1. streams' = [streams EXCEPT ![s] = new]
  BY DEF Exit
<1>2. /\ new \in StreamState /\ new.key = streams[s].key /\ new.viewers = streams[s].viewers
      /\ new.process = "exited" /\ new.watcher = streams[s].watcher
  BY DEF Inv, Types, StreamState
<1>3. UNCHANGED <<sessions, shared, stopping, lateReadsLeft, lock, cleanup>>
  BY DEF Exit, bounds, lockVars
<1>4. streams[s].watcher = "spawning" => lock = s /\ InDict(s)
  BY DEF Inv, WatcherHolds
<1> HIDE DEF new
<1>. QED
  BY <1>1, <1>2, <1>3, <1>4, StreamMoves

LEMMA IdleStep ==
  ASSUME Inv, NEW s \in StreamId, NEW idle \in {"recent", "past", streams[s].idle},
         streams' = [streams EXCEPT ![s].idle = idle],
         UNCHANGED <<sessions, shared, stopping, lateReadsLeft, lock, cleanup>>
  PROVE  Inv'
<1> DEFINE new == [streams[s] EXCEPT !.idle = idle]
<1>1. streams' = [streams EXCEPT ![s] = new]
  OBVIOUS
<1>2. /\ new \in StreamState /\ new.key = streams[s].key /\ new.viewers = streams[s].viewers
      /\ new.process = streams[s].process /\ new.watcher = streams[s].watcher
  BY DEF Inv, Types, StreamState
<1>3. streams[s].watcher = "spawning" => lock = s /\ InDict(s)
  BY DEF Inv, WatcherHolds
<1> HIDE DEF new
<1>. QED
  BY <1>1, <1>2, <1>3, StreamMoves

\* Every expired session goes at once.
LEMMA PopStep ==
  ASSUME Inv, PopExpired
  PROVE  Inv'
<1> USE WaiterAssumption DEF Inv, Waiter
<1>1. UNCHANGED <<shared, streams, lock, stopping, lateReadsLeft>>
  BY DEF PopExpired, lockVars, bounds
<1>2. \A v \in Session :
        /\ sessions'[v] \in SessionState /\ sessions'[v].key = sessions[v].key
        /\ \/ sessions'[v].phase = sessions[v].phase
           \/ sessions[v].phase = "expired" /\ sessions'[v].phase = "dropped"
  BY DEF PopExpired, Types, SessionState
<1>3. cleanup' \in CleanupState /\ cleanup'.phase = "releasing"
  BY DEF PopExpired, Types, CleanupState
<1>4. Types'
  <2>1. sessions' \in [Session -> SessionState]
    BY <1>2 DEF PopExpired
  <2>. QED
    BY <1>1, <1>2, <1>3, <2>1 DEF Types
<1>5. \A v \in Session : SessionHolds(v)'
  BY <1>1, <1>2 DEF SessionHolds
<1>6. ASSUME NEW t \in StreamId PROVE WatcherHolds(t)' /\ Placed(t)'
  BY <1>1 DEF WatcherHolds, Placed, InDict
<1>7. ASSUME NEW t \in StreamId, NoLateRead' PROVE Attended(t)'
  <2>1. Attended(t) /\ streams[t].viewers \subseteq Session
    BY <1>1, <1>7 DEF NoLateRead, Types, StreamState
  <2>. QED
    BY <1>1, <1>2, <2>1 DEF Attended
<1>8. CleanerHolds' /\ StoppedIsOut'
  BY <1>1, <1>3 DEF CleanerHolds, StoppedIsOut
<1>. QED
  BY <1>4, <1>5, <1>6, <1>7, <1>8

LEMMA SweepSteps ==
  ASSUME Inv, QueueSweep \/ StartSweep \/ EndSweep
  PROVE  Inv'
<1>1. cleanup \in CleanupState /\ stopping \in StreamId \cup {None}
  BY DEF Inv, Types
<1>2. CASE QueueSweep
  <2>1. cleanup' \in CleanupState /\ cleanup'.phase = "queued"
    BY <1>1, <1>2 DEF QueueSweep, CleanupState
  <2>. QED
    BY <1>2, <2>1, CleanerMoves DEF QueueSweep, bounds
<1>3. CASE StartSweep
  <2>1. cleanup' \in CleanupState /\ cleanup'.todo = {s \in StreamId : InDict(s)}
    BY <1>1, <1>3 DEF StartSweep, CleanupState
  <2>2. lock = None /\ lock' = Cleaner /\ stopping = None
    BY <1>3, WaiterAssumption DEF StartSweep, Enter, MyTurn, Inv, StoppedIsOut
  <2>. QED
    BY <1>3, <2>1, <2>2, CleanerMoves DEF StartSweep, bounds
<1>4. CASE EndSweep
  <2>1. cleanup' \in CleanupState /\ cleanup'.phase = "sleeping"
    BY <1>4, WaiterAssumption DEF EndSweep, Asleep, CleanupState
  <2>2. lock = Cleaner /\ lock' = None /\ stopping = None
    BY <1>4 DEF EndSweep, Leave, Inv, CleanerHolds
  <2>. QED
    BY <1>4, <2>1, <2>2, CleanerMoves DEF EndSweep, Leave, bounds
<1>. QED
  BY <1>2, <1>3, <1>4

LEMMA KeepStep ==
  ASSUME Inv, NEW s \in StreamId, KeepStream(s)
  PROVE  Inv'
<1> USE WaiterAssumption DEF Inv, Waiter
<1>1. /\ cleanup.phase = "sweeping" /\ stopping = None /\ lock = Cleaner
      /\ UNCHANGED <<sessions, shared, lock, stopping, lateReadsLeft>>
  BY DEF KeepStream, SweepingAt, CleanerHolds, lockVars, bounds
<1>2. /\ cleanup' \in CleanupState /\ cleanup'.phase = "sweeping" /\ cleanup'.todo \subseteq cleanup.todo
  BY <1>1 DEF KeepStream, Types, CleanupState
<1>3. \A t \in StreamId :
        /\ streams'[t] \in StreamState /\ streams'[t].key = streams[t].key
        /\ streams'[t].process = streams[t].process /\ streams'[t].watcher = streams[t].watcher
        /\ streams'[t].viewers = streams[t].viewers
  BY DEF KeepStream, Types, StreamState
<1>4. \A t \in StreamId : InDict(t)' <=> InDict(t)
  BY <1>1, <1>3 DEF InDict
<1>5. Types'
  <2>1. streams' \in [StreamId -> StreamState]
    BY <1>3 DEF KeepStream, Types
  <2>. QED
    BY <1>1, <1>2, <1>3, <2>1 DEF Types
<1>6. \A v \in Session : SessionHolds(v)'
  BY <1>1 DEF SessionHolds
<1>7. ASSUME NEW t \in StreamId PROVE WatcherHolds(t)' /\ Placed(t)'
  BY <1>1, <1>3, <1>4 DEF WatcherHolds, Placed
<1>8. ASSUME NEW t \in StreamId, NoLateRead' PROVE Attended(t)'
  BY <1>1, <1>3, <1>8 DEF Attended, NoLateRead
<1>9. CleanerHolds' /\ StoppedIsOut'
  <2>1. \A t \in cleanup.todo : t \in StreamId
    BY DEF Types, CleanupState
  <2>. QED
    BY <1>1, <1>2, <1>4, <2>1 DEF CleanerHolds, StoppedIsOut
<1>. QED
  BY <1>5, <1>6, <1>7, <1>8, <1>9

LEMMA StopIdleStep ==
  ASSUME Inv, NEW s \in StreamId, StopIdleStream(s)
  PROVE  Inv'
<1> USE WaiterAssumption DEF Inv, Waiter
<1> DEFINE k == streams[s].key
<1>1. /\ cleanup.phase = "sweeping" /\ stopping = None /\ lock = Cleaner /\ s \in cleanup.todo
      /\ InDict(s) /\ stopping' = s
      /\ shared' = [shared EXCEPT ![k] = None]
      /\ streams' = [streams EXCEPT ![s].watcher = IF Watched(s) THEN "cancelled" ELSE @]
      /\ UNCHANGED <<sessions, cleanup, lock, lateReadsLeft>>
  BY DEF StopIdleStream, SweepingAt, BeginStop, CleanerHolds, bounds
<1>2. k \in Key /\ shared[k] = s
  BY <1>1 DEF InDict, Types, StreamState
<1>3. \A t \in StreamId : /\ streams'[t].key = streams[t].key /\ streams'[t].viewers = streams[t].viewers
                          /\ streams'[t].process = streams[t].process
                          /\ streams'[t] \in StreamState
                          /\ streams'[t].watcher \in {streams[t].watcher, "cancelled"}
  BY <1>1 DEF Types, StreamState
<1>4. \A t \in StreamId : t # s => (InDict(t) <=> InDict(t)')
  BY <1>1, <1>2, <1>3 DEF InDict, Types
<1>5. Types'
  <2>1. streams' \in [StreamId -> StreamState]
    BY <1>1, <1>3 DEF Types
  <2>2. \A x \in Key : shared'[x] # None => streams'[shared'[x]].key = x
    BY <1>1, <1>2, <1>3 DEF Types
  <2>. QED
    BY <1>1, <2>1, <2>2 DEF Types
<1>6. \A v \in Session : SessionHolds(v)'
  BY <1>1 DEF SessionHolds
<1>7. ASSUME NEW t \in StreamId PROVE WatcherHolds(t)' /\ Placed(t)'
  <2>1. WatcherHolds(t)'
    BY <1>1, <1>3 DEF WatcherHolds
  <2>2. Placed(t)'
    BY <1>1, <1>3, <1>4 DEF Placed
  <2>. QED
    BY <2>1, <2>2
<1>8. ASSUME NEW t \in StreamId, NoLateRead' PROVE Attended(t)'
  BY <1>1, <1>3, <1>8 DEF Attended, NoLateRead
<1>9. CleanerHolds' /\ StoppedIsOut'
  <2>1. \A t \in cleanup.todo : t \in StreamId
    BY DEF Types, CleanupState
  <2>. QED
    BY <1>1, <1>2, <1>3, <1>4, <2>1 DEF CleanerHolds, StoppedIsOut, Types
<1>. QED
  BY <1>5, <1>6, <1>7, <1>8, <1>9

LEMMA EndStopIdleStep ==
  ASSUME Inv, NEW s \in StreamId, EndStopIdle(s)
  PROVE  Inv'
<1> USE WaiterAssumption DEF Inv, Waiter
<1>1. /\ cleanup.phase = "sweeping" /\ EndStop(s) /\ stopping = s /\ lock = Cleaner
      /\ UNCHANGED <<sessions, shared, lock, lateReadsLeft>>
  BY DEF EndStopIdle, EndStop, CleanerHolds, bounds
<1>2. cleanup' \in CleanupState /\ cleanup'.phase = "sweeping" /\ cleanup'.todo = cleanup.todo \ {s}
  BY <1>1 DEF EndStopIdle, Types, CleanupState
<1>3. /\ streams' \in [StreamId -> StreamState] /\ stopping' = None
      /\ \A x \in Key : shared'[x] # None => streams'[shared'[x]].key = x
      /\ \A t \in StreamId : t # s => (InDict(t) <=> InDict(t)') /\ streams'[t] = streams[t]
      /\ \A t \in StreamId : streams'[t].watcher = "spawning" => streams[t].watcher = "spawning" /\ t # s
      /\ \A t \in StreamId : Placed(t)'
      /\ streams'[s].viewers = {}
  BY <1>1, Ending
<1>4. Types'
  BY <1>1, <1>2, <1>3 DEF Types
<1>5. \A v \in Session : SessionHolds(v)'
  BY <1>1 DEF SessionHolds
<1>6. ASSUME NEW t \in StreamId PROVE WatcherHolds(t)'
  BY <1>1, <1>3 DEF WatcherHolds
<1>7. ASSUME NEW t \in StreamId, NoLateRead' PROVE Attended(t)'
  <2>1. CASE t = s
    BY <1>3, <2>1 DEF Attended
  <2>2. CASE t # s
    BY <1>1, <1>3, <1>7, <2>2 DEF Attended, NoLateRead
  <2>. QED
    BY <2>1, <2>2
<1>8. CleanerHolds' /\ StoppedIsOut'
  <2>1. \A t \in cleanup.todo : t \in StreamId
    BY DEF Types, CleanupState
  <2>. QED
    BY <1>1, <1>2, <1>3, <2>1 DEF CleanerHolds, StoppedIsOut
<1>. QED
  BY <1>3, <1>4, <1>5, <1>6, <1>7, <1>8

LEMMA NextInv == Inv /\ [Next]_vars => Inv'
<1> SUFFICES ASSUME Inv, [Next]_vars PROVE Inv'
  OBVIOUS
<1>1. ASSUME NEW v \in Session, HandlerStep(v) PROVE Inv'
  BY <1>1, ReuseStep, StartStep, SpawnFailsStep, ReplaceStep, EndReplacingStep, SpawnedStep,
     AttachStep, ReleaseStep DEF HandlerStep
<1>2. ASSUME NEW v \in Session, ClientStep(v) \/ Expire(v) PROVE Inv'
  BY <1>2, CreateStep, StopSessionStep, LateReadStep, ExpireStep DEF ClientStep
<1>3. ASSUME NEW s \in StreamId, WatcherStep(s) \/ Exit(s) PROVE Inv'
  BY <1>3, WatcherStepInv, ExitStep
<1>4. ASSUME NEW s \in StreamId, IdleTimePasses(s) PROVE Inv'
  <2>1. /\ streams' = [streams EXCEPT ![s].idle = "past"]
        /\ UNCHANGED <<sessions, shared, stopping, lateReadsLeft, lock, cleanup>>
    BY <1>4 DEF IdleTimePasses, lockVars, bounds
  <2>. QED
    BY <2>1, IdleStep
<1>5. CASE CleanupStep
  BY <1>5, PopStep, SweepSteps, ReleaseExpiredStep, KeepStep, StopIdleStep, EndStopIdleStep
     DEF CleanupStep
<1>6. CASE UNCHANGED vars
  BY <1>6 DEF vars, lockVars, bounds, Inv, Types, SessionHolds, WatcherHolds, CleanerHolds,
              StoppedIsOut, Placed, Attended, InDict, NoLateRead
<1>. QED
  BY <1>1, <1>2, <1>3, <1>4, <1>5, <1>6 DEF Next

LEMMA Invariant == Spec => []Inv
BY InitInv, NextInv, PTL DEF Spec

-----------------------------------------------------------------------------
(* The theorems.                                                           *)

\* Two ffmpegs never write the same HLS directory.
THEOREM OneWriter == Spec => []OneFfmpegPerDirectory
<1>1. Inv => OneFfmpegPerDirectory
  <2> SUFFICES ASSUME Inv, NEW s \in StreamId, NEW t \in StreamId, s # t,
                      streams[s].process = "running", streams[t].process = "running",
                      streams[s].key = streams[t].key
               PROVE  FALSE
    BY DEF OneFfmpegPerDirectory
  <2>1. (InDict(s) \/ stopping = s) /\ (InDict(t) \/ stopping = t)
    BY DEF Inv, Placed
  <2>2. ~(InDict(s) /\ InDict(t))
    BY DEF InDict
  <2>3. stopping # None => shared[streams[stopping].key] = None
    BY DEF Inv, StoppedIsOut
  <2>4. s # None /\ t # None
    BY WaiterAssumption
  <2>. QED
    BY <2>1, <2>2, <2>3, <2>4 DEF InDict
<1>. QED
  BY <1>1, Invariant, PTL

\* As long as no file is asked for with an expired session, every viewer of a
\* stream is a session of its camera that will still be released.
THEOREM ViewersAreSessions == Spec => []ViewersHaveSessions
<1>1. Inv => ViewersHaveSessions
  BY DEF Inv, Attended, ViewersHaveSessions
<1>. QED
  BY <1>1, Invariant, PTL

-----------------------------------------------------------------------------
(* Queues: finite sequences of distinct elements.                          *)

LEMMA Suffix ==
  ASSUME NEW W, NEW q \in Seq(W), NEW n \in 1..Len(q), NEW back, back = SubSeq(q, n + 1, Len(q))
  PROVE  /\ back \in Seq(W) /\ Len(back) = Len(q) - n
         /\ \A i \in 1..(Len(q) - n) : back[i] = q[n + i]
<1> DEFINE m == n + 1
<1>1. m \in Int /\ Len(q) \in Int /\ n \in Int /\ n <= Len(q) /\ (\A i \in m..Len(q) : q[i] \in W)
  OBVIOUS
<1>2. m = n + 1 /\ back = SubSeq(q, m, Len(q))
  OBVIOUS
<1> HIDE DEF m
<1>3. /\ back \in Seq(W) /\ Len(back) = IF m <= Len(q) THEN Len(q) - m + 1 ELSE 0
      /\ \A i \in 1..(Len(q) - m + 1) : back[i] = q[m + i - 1]
  BY <1>1, <1>2, SubSeqProperties
<1>4. Len(q) - m + 1 = Len(q) - n /\ (m <= Len(q) \/ Len(q) - n = 0)
  BY <1>1, <1>2
<1>5. Len(back) = Len(q) - n
  BY <1>3, <1>4, <1>1, <1>2
<1>6. ASSUME NEW i \in 1..(Len(q) - n) PROVE back[i] = q[n + i]
  <2>1. i \in 1..(Len(q) - m + 1)
    BY <1>4
  <2>2. m + i - 1 = n + i
    BY <1>1, <1>2
  <2>. QED
    BY <1>3, <2>1, <2>2
<1>. QED
  BY <1>3, <1>5, <1>6

\* The elements of a queue that lost the one at n.
LEMMA RemoveOneElements ==
  ASSUME NEW W, NEW q \in Seq(W), NEW n \in 1..Len(q)
  PROVE  /\ RemoveOne(q, n) \in Seq(W) /\ DOMAIN RemoveOne(q, n) = 1..(Len(q) - 1)
         /\ \A i \in 1..(Len(q) - 1) : RemoveOne(q, n)[i] = IF i < n THEN q[i] ELSE q[i + 1]
<1> DEFINE front == SubSeq(q, 1, n - 1)
           back == SubSeq(q, n + 1, Len(q))
           r == RemoveOne(q, n)
<1>1. Len(q) \in Nat /\ n \in Nat /\ 1 <= n /\ n <= Len(q)
  OBVIOUS
<1>2. /\ front \in Seq(W) /\ Len(front) = n - 1
      /\ \A i \in 1..(n - 1) : front[i] = q[i]
  BY <1>1, SubSeqProperties
<1>3. /\ back \in Seq(W) /\ Len(back) = Len(q) - n
      /\ \A i \in 1..(Len(q) - n) : back[i] = q[n + i]
  BY Suffix
<1>4. r = front \o back
  BY DEF RemoveOne
<1> HIDE DEF front, back, r
<1>5. /\ r \in Seq(W) /\ Len(r) = Len(front) + Len(back)
      /\ \A i \in 1..(Len(front) + Len(back)) :
           r[i] = IF i <= Len(front) THEN front[i] ELSE back[i - Len(front)]
  BY <1>2, <1>3, <1>4, ConcatProperties
<1>6. Len(front) + Len(back) = Len(q) - 1
  BY <1>1, <1>2, <1>3
<1>7. DOMAIN r = 1..(Len(q) - 1)
  BY <1>5, <1>6
<1>8. ASSUME NEW i \in 1..(Len(q) - 1) PROVE r[i] = IF i < n THEN q[i] ELSE q[i + 1]
  <2>1. r[i] = IF i <= n - 1 THEN front[i] ELSE back[i - (n - 1)]
    BY <1>2, <1>5, <1>6
  <2>2. CASE i < n
    BY <1>1, <1>2, <2>1, <2>2
  <2>3. CASE ~(i < n)
    <3>1. ~(i <= n - 1) /\ i - (n - 1) \in 1..(Len(q) - n) /\ n + (i - (n - 1)) = i + 1
      BY <1>1, <2>3
    <3>. QED
      BY <1>3, <2>1, <2>3, <3>1
  <2>. QED
    BY <2>2, <2>3
<1>. QED
  BY <1>5, <1>7, <1>8 DEF r

\* A queue of exactly the elements of W, each of them once.
QueueOf(q, W) ==
  /\ q \in Seq(W)
  /\ \A w \in W : \E i \in DOMAIN q : q[i] = w
  /\ \A i, j \in DOMAIN q : q[i] = q[j] => i = j

LEMMA AppendQueue ==
  ASSUME NEW W, NEW q, QueueOf(q, W), NEW w, w \notin W
  PROVE  QueueOf(Append(q, w), W \cup {w})
<1> DEFINE r == Append(q, w)
<1>1. /\ q \in Seq(W) /\ r \in Seq(W \cup {w}) /\ Len(r) = Len(q) + 1 /\ r[Len(q) + 1] = w
      /\ \A i \in 1..Len(q) : r[i] = q[i] /\ q[i] \in W
  BY DEF QueueOf
<1>2. DOMAIN q = 1..Len(q) /\ DOMAIN r = 1..(Len(q) + 1) /\ Len(q) \in Nat
  BY <1>1
<1> HIDE DEF r
<1>3. ASSUME NEW x \in W \cup {w} PROVE \E i \in DOMAIN r : r[i] = x
  <2>1. CASE x = w
    BY <1>1, <1>2, <2>1
  <2>2. CASE x \in W
    <3>1. PICK i \in DOMAIN q : q[i] = x
      BY <2>2 DEF QueueOf
    <3>. QED
      BY <1>1, <1>2, <3>1
  <2>. QED
    BY <2>1, <2>2
<1>4. ASSUME NEW i \in DOMAIN r, NEW j \in DOMAIN r, r[i] = r[j] PROVE i = j
  BY <1>1, <1>2, <1>4 DEF QueueOf
<1>. QED
  BY <1>1, <1>3, <1>4 DEF QueueOf, r

LEMMA TailQueue ==
  ASSUME NEW W, NEW q, QueueOf(q, W), q # <<>>
  PROVE  Head(q) \in W /\ QueueOf(Tail(q), W \ {Head(q)})
<1> DEFINE r == Tail(q)
<1>1. /\ q \in Seq(W) /\ Head(q) = q[1] /\ Head(q) \in W /\ Len(q) \in Nat \ {0}
      /\ r \in Seq(W) /\ Len(r) = Len(q) - 1 /\ \A i \in 1..Len(r) : r[i] = q[i + 1]
  BY HeadTailProperties DEF QueueOf
<1>2. DOMAIN q = 1..Len(q) /\ DOMAIN r = 1..(Len(q) - 1)
  BY <1>1
<1> HIDE DEF r
<1>3. ASSUME NEW i \in DOMAIN r PROVE i + 1 \in DOMAIN q /\ r[i] = q[i + 1] /\ r[i] # Head(q)
  <2>1. i \in Nat /\ i + 1 \in DOMAIN q /\ 1 \in DOMAIN q /\ i + 1 # 1 /\ r[i] = q[i + 1]
    BY <1>1, <1>2
  <2>. QED
    BY <1>1, <2>1 DEF QueueOf
<1>4. r \in Seq(W \ {Head(q)})
  BY <1>1, <1>2, <1>3
<1>5. ASSUME NEW x \in W \ {Head(q)} PROVE \E i \in DOMAIN r : r[i] = x
  <2>1. PICK i \in DOMAIN q : q[i] = x
    BY DEF QueueOf
  <2>2. i - 1 \in DOMAIN r /\ r[i - 1] = x
    BY <1>1, <1>2, <2>1
  <2>. QED
    BY <2>2
<1>6. ASSUME NEW i \in DOMAIN r, NEW j \in DOMAIN r, r[i] = r[j] PROVE i = j
  <2>1. i + 1 = j + 1
    BY <1>3, <1>6 DEF QueueOf
  <2>. QED
    BY <1>1, <1>2, <2>1
<1>. QED
  BY <1>1, <1>4, <1>5, <1>6 DEF QueueOf, r

LEMMA WithoutQueue ==
  ASSUME NEW W, NEW q, QueueOf(q, W), NEW w
  PROVE  QueueOf(Without(q, w), W \ {w})
<1>1. CASE w \notin W
  <2>1. ~ \E i \in DOMAIN q : q[i] = w
    BY <1>1 DEF QueueOf
  <2>2. Without(q, w) = q /\ W \ {w} = W
    BY <1>1, <2>1 DEF Without
  <2>. QED
    BY <2>2
<1>2. CASE w \in W
  <2> DEFINE n == CHOOSE i \in DOMAIN q : q[i] = w
             r == RemoveOne(q, n)
  <2>1. n \in DOMAIN q /\ q[n] = w /\ Without(q, w) = r
    BY <1>2 DEF QueueOf, Without
  <2> HIDE DEF n
  <2>2. q \in Seq(W) /\ DOMAIN q = 1..Len(q) /\ Len(q) \in Nat /\ n \in 1..Len(q)
    BY <2>1 DEF QueueOf
  <2>3. /\ r \in Seq(W) /\ DOMAIN r = 1..(Len(q) - 1)
        /\ \A i \in DOMAIN r : r[i] = IF i < n THEN q[i] ELSE q[i + 1]
    BY <2>2, RemoveOneElements DEF r
  <2> HIDE DEF r
  \* Where the elements of r are in q.
  <2> DEFINE at(i) == IF i < n THEN i ELSE i + 1
  <2> HIDE DEF at
  <2>4. ASSUME NEW i \in DOMAIN r PROVE at(i) \in DOMAIN q /\ at(i) # n /\ r[i] = q[at(i)]
    BY <2>2, <2>3 DEF at
  <2>5. \A i \in DOMAIN r : r[i] # w
    BY <2>1, <2>4 DEF QueueOf
  <2>6. r \in Seq(W \ {w})
    BY <2>2, <2>3, <2>5
  <2>7. ASSUME NEW x \in W \ {w} PROVE \E i \in DOMAIN r : r[i] = x
    <3>1. PICK i \in DOMAIN q : q[i] = x
      BY DEF QueueOf
    <3>2. i # n
      BY <2>1, <3>1
    <3>3. CASE i < n
      BY <2>2, <2>3, <3>1, <3>3
    <3>4. CASE i > n
      <4>1. i - 1 \in DOMAIN r /\ r[i - 1] = x
        BY <2>2, <2>3, <3>1, <3>4
      <4>. QED
        BY <4>1
    <3>. QED
      BY <2>2, <3>1, <3>2, <3>3, <3>4
  <2>8. ASSUME NEW i \in DOMAIN r, NEW j \in DOMAIN r, r[i] = r[j] PROVE i = j
    <3>1. at(i) = at(j)
      BY <2>8, <2>4 DEF QueueOf
    <3>2. i \in Nat /\ j \in Nat
      BY <2>2, <2>3
    <3>. QED
      BY <2>2, <3>1, <3>2 DEF at
  <2>. QED
    BY <2>1, <2>6, <2>7, <2>8 DEF QueueOf
<1>. QED
  BY <1>1, <1>2

-----------------------------------------------------------------------------
(* The queue of the lock.                                                  *)

Waits(w) ==
  \/ w \in Session /\ sessions[w].phase \in {"starting", "attaching", "leaving"}
  \/ w \in StreamId /\ streams[w].watcher \in {"exited", "retrying"}
  \/ w = Cleaner /\ cleanup.phase = "queued"

\* Those who wait for the lock.
Waiting == {w \in Waiter : Waits(w)}

\* A stream object that is not in use has no watcher.
Unused(s) == streams[s].key = None => streams[s].watcher = "none"

QueueInv ==
  /\ QueueOf(queue, Waiting)
  /\ \A s \in StreamId : Unused(s)

LEMMA QueueStays ==
  ASSUME QueueInv, queue' = queue, Waiting' = Waiting
  PROVE  QueueOf(queue, Waiting)'
BY DEF QueueInv

LEMMA QueueGrows ==
  ASSUME QueueInv, NEW w, w \notin Waiting, queue' = Append(queue, w), Waiting' = Waiting \cup {w}
  PROVE  QueueOf(queue, Waiting)'
BY AppendQueue DEF QueueInv

LEMMA QueueMovesOn ==
  ASSUME QueueInv, NEW w, MyTurn(w), queue' = Tail(queue), Waiting' = Waiting \ {w}
  PROVE  QueueOf(queue, Waiting)'
BY TailQueue DEF QueueInv, MyTurn

\* The head of the queue waits again, behind the others.
LEMMA QueueTurns ==
  ASSUME QueueInv, NEW w, MyTurn(w), queue' = Append(Tail(queue), w), Waiting' = Waiting
  PROVE  QueueOf(queue, Waiting)'
<1>1. w \in Waiting /\ QueueOf(Tail(queue), Waiting \ {w})
  BY TailQueue DEF QueueInv, MyTurn
<1>2. (Waiting \ {w}) \cup {w} = Waiting
  BY <1>1
<1>. QED
  BY <1>1, <1>2, AppendQueue

LEMMA HandlerKeepsQueue ==
  ASSUME Inv, QueueInv, NEW v \in Session, HandlerStep(v)
  PROVE  QueueOf(queue, Waiting)'
<1> USE WaiterAssumption DEF Waiting, Waits, Waiter
<1>1. /\ sessions \in [Session -> SessionState] /\ streams \in [StreamId -> StreamState]
      /\ cleanup \in CleanupState
  BY DEF Inv, Types
<1>2. CASE ReuseStream(v)
  <2>1. Waiting' = Waiting
    BY <1>1, <1>2 DEF ReuseStream, SetPhase, SessionState
  <2>. QED
    BY <1>2, <2>1, QueueTurns DEF ReuseStream
<1>3. CASE StartStream(v)
  <2>1. Waiting' = Waiting \ {v}
    BY <1>1, <1>3 DEF StartStream, SetPhase, SessionState
  <2>. QED
    BY <1>3, <2>1, QueueMovesOn DEF StartStream, Enter
<1>4. CASE SpawnFails(v)
  <2>1. Waiting' = Waiting
    BY <1>1, <1>4 DEF SpawnFails, NoSession, SessionState
  <2>. QED
    BY <1>4, <2>1, QueueStays DEF SpawnFails
<1>5. ASSUME NEW s \in StreamId, ReplaceStream(v, s) PROVE QueueOf(queue, Waiting)'
  <2>1. MyTurn(v) /\ queue' = Without(Tail(queue), s)
    BY <1>5 DEF ReplaceStream
  <2>2. Waiting' = (Waiting \ {v}) \ {s}
    BY <1>1, <1>5 DEF ReplaceStream, BeginStop, SetPhase, Watched, SessionState, StreamState
  <2>3. QueueOf(Tail(queue), Waiting \ {v})
    BY <2>1, TailQueue DEF QueueInv, MyTurn
  <2>4. QueueOf(Without(Tail(queue), s), (Waiting \ {v}) \ {s})
    BY <2>3, WithoutQueue
  <2>. QED
    BY <2>1, <2>2, <2>4
<1>6. ASSUME NEW s \in StreamId, EndReplacing(v, s) PROVE QueueOf(queue, Waiting)'
  <2>1. Waiting' = Waiting
    BY <1>1, <1>6 DEF EndReplacing, EndStop, Ended, Watched, NoStream, SetPhase, SessionState, StreamState
  <2>. QED
    BY <1>6, <2>1, QueueStays DEF EndReplacing
<1>7. ASSUME NEW s \in StreamId, Spawned(v, s) PROVE QueueOf(queue, Waiting)'
  <2>1. streams[s].watcher = "none"
    BY <1>7 DEF Spawned, QueueInv, Unused
  <2>2. NewStream(sessions[v].key).watcher = "waiting"
    BY DEF NewStream, NoStream
  <2>3. v \notin Waiting /\ Waiting' = Waiting \cup {v}
    BY <1>1, <1>7, <2>1, <2>2 DEF Spawned, SetPhase, SessionState
  <2>. QED
    BY <1>7, <2>3, QueueGrows DEF Spawned
<1>8. CASE Attach(v)
  <2>1. /\ sessions'[v].phase \in {"none", "viewing"}
        /\ \A w \in Session : w # v => sessions'[w] = sessions[w]
        /\ \A s \in StreamId : streams'[s].watcher = streams[s].watcher
        /\ cleanup' = cleanup
    BY <1>1, <1>8 DEF Attach, SetPhase, NoSession, SessionState, StreamState
  <2>2. Waiting' = Waiting \ {v}
    BY <2>1
  <2>. QED
    BY <1>8, <2>2, QueueMovesOn DEF Attach, Pass
<1>9. CASE ReleaseSession(v)
  <2>1. /\ sessions'[v].phase = "none"
        /\ \A w \in Session : w # v => sessions'[w] = sessions[w]
        /\ \A s \in StreamId : streams'[s].watcher = streams[s].watcher
        /\ cleanup'.phase = cleanup.phase
    BY <1>1, <1>9 DEF ReleaseSession, NoSession, SessionState, StreamState, CleanupState
  <2>2. Waiting' = Waiting \ {v}
    BY <2>1
  <2>. QED
    BY <1>9, <2>2, QueueMovesOn DEF ReleaseSession, Pass
<1>. QED
  BY <1>2, <1>3, <1>4, <1>5, <1>6, <1>7, <1>8, <1>9 DEF HandlerStep

LEMMA ClientKeepsQueue ==
  ASSUME Inv, QueueInv, NEW v \in Session, ClientStep(v) \/ Expire(v)
  PROVE  QueueOf(queue, Waiting)'
<1> USE WaiterAssumption DEF Waiting, Waits, Waiter
<1>1. sessions \in [Session -> SessionState]
  BY DEF Inv, Types
<1>2. ASSUME NEW k \in Key, CreateCameraSession(v, k) PROVE QueueOf(queue, Waiting)'
  <2>1. v \notin Waiting /\ Waiting' = Waiting \cup {v}
    BY <1>1, <1>2 DEF CreateCameraSession, SessionState
  <2>. QED
    BY <1>2, <2>1, QueueGrows DEF CreateCameraSession, Arrive
<1>3. CASE StopCameraSession(v)
  <2>1. v \notin Waiting /\ Waiting' = Waiting \cup {v}
    BY <1>1, <1>3 DEF StopCameraSession, SetPhase, SessionState
  <2>. QED
    BY <1>3, <2>1, QueueGrows DEF StopCameraSession, Arrive
<1>4. CASE GetFileLate(v) \/ Expire(v)
  <2>1. Waiting' = Waiting
    BY <1>1, <1>4 DEF GetFileLate, Expire, SetPhase, NoSession, SessionState
  <2>. QED
    BY <1>4, <2>1, QueueStays DEF GetFileLate, Expire, lockVars
<1>. QED
  BY <1>2, <1>3, <1>4 DEF ClientStep

LEMMA WatcherKeepsQueue ==
  ASSUME Inv, QueueInv, NEW s \in StreamId, WatcherStep(s) \/ Exit(s) \/ IdleTimePasses(s)
  PROVE  QueueOf(queue, Waiting)'
<1> USE WaiterAssumption DEF Waiting, Waits, Waiter
<1>1. streams \in [StreamId -> StreamState]
  BY DEF Inv, Types
<1>2. CASE NoticeExit(s) \/ Retry(s)
  <2>1. s \notin Waiting /\ Waiting' = Waiting \cup {s}
    BY <1>1, <1>2 DEF NoticeExit, Retry, SetWatcher, StreamState
  <2>. QED
    BY <1>2, <2>1, QueueGrows DEF NoticeExit, Retry, Arrive
<1>3. CASE HandleExit(s) \/ GiveUp(s) \/ Restart(s)
  <2>1. /\ streams'[s].watcher \in {"delaying", "done", "spawning"}
        /\ \A t \in StreamId : t # s => streams'[t] = streams[t]
        /\ UNCHANGED <<sessions, cleanup>>
    <3>1. CASE HandleExit(s)
      BY <1>1, <3>1 DEF HandleExit, StreamState
    <3>2. CASE GiveUp(s)
      BY <1>1, <3>2 DEF GiveUp, SetWatcher
    <3>3. CASE Restart(s)
      BY <1>1, <3>3 DEF Restart, SetWatcher
    <3>. QED
      BY <1>3, <3>1, <3>2, <3>3
  <2>2. Waiting' = Waiting \ {s}
    BY <2>1
  <2>. QED
    BY <1>3, <2>2, QueueMovesOn DEF HandleExit, GiveUp, Restart, Pass, Enter
<1>4. CASE Restarted(s) \/ RestartFails(s) \/ WatcherStops(s) \/ Exit(s) \/ IdleTimePasses(s)
  <2>1. /\ \/ streams'[s].watcher \in {"waiting", "delaying", "done"} /\ ~Waits(s)
           \/ streams'[s].watcher = streams[s].watcher
        /\ \A t \in StreamId : t # s => streams'[t] = streams[t]
        /\ UNCHANGED <<sessions, cleanup, queue>>
    BY <1>1, <1>4
       DEF Restarted, RestartFails, WatcherStops, Exit, IdleTimePasses, SetWatcher, StreamState, lockVars
  <2>2. Waiting' = Waiting
    BY <2>1
  <2>. QED
    BY <2>1, <2>2, QueueStays
<1>. QED
  BY <1>2, <1>3, <1>4 DEF WatcherStep

LEMMA CleanupKeepsQueue ==
  ASSUME Inv, QueueInv, CleanupStep
  PROVE  QueueOf(queue, Waiting)'
<1> USE WaiterAssumption DEF Waiting, Waits, Waiter
<1>1. /\ sessions \in [Session -> SessionState] /\ streams \in [StreamId -> StreamState]
      /\ cleanup \in CleanupState
  BY DEF Inv, Types
<1>2. CASE PopExpired \/ EndSweep
  <2>1. /\ \A v \in Session :
             \/ sessions'[v].phase = sessions[v].phase
             \/ sessions[v].phase = "expired" /\ sessions'[v].phase = "dropped"
        /\ cleanup.phase # "queued" /\ cleanup'.phase # "queued"
        /\ UNCHANGED <<streams, queue>>
    <3>1. CASE PopExpired
      BY <1>1, <3>1 DEF PopExpired, SessionState, CleanupState, lockVars
    <3>2. CASE EndSweep
      BY <1>1, <3>2 DEF EndSweep, Asleep
    <3>. QED
      BY <1>2, <3>1, <3>2
  <2>2. Waiting' = Waiting
    BY <2>1
  <2>. QED
    BY <2>1, <2>2, QueueStays
<1>3. CASE QueueSweep
  <2>1. Cleaner \notin Waiting /\ Waiting' = Waiting \cup {Cleaner}
    BY <1>1, <1>3 DEF QueueSweep, CleanupState
  <2>. QED
    BY <1>3, <2>1, QueueGrows DEF QueueSweep, Arrive
<1>4. CASE StartSweep
  <2>1. Waiting' = Waiting \ {Cleaner}
    BY <1>1, <1>4 DEF StartSweep, CleanupState
  <2>. QED
    BY <1>4, <2>1, QueueMovesOn DEF StartSweep, Enter
<1>5. ASSUME NEW v \in Session, ReleaseExpired(v) PROVE QueueOf(queue, Waiting)'
  <2>1. v \notin Waiting /\ Waiting' = Waiting \cup {v}
    BY <1>1, <1>5 DEF ReleaseExpired, SetPhase, SessionState, CleanupState
  <2>. QED
    BY <1>5, <2>1, QueueGrows DEF ReleaseExpired, Arrive
<1>6. ASSUME NEW s \in StreamId, KeepStream(s) PROVE QueueOf(queue, Waiting)'
  <2>1. /\ \A t \in StreamId : streams'[t].watcher = streams[t].watcher
        /\ cleanup'.phase = cleanup.phase
        /\ UNCHANGED <<sessions, queue>>
    BY <1>1, <1>6 DEF KeepStream, StreamState, CleanupState, lockVars
  <2>2. Waiting' = Waiting
    BY <2>1
  <2>. QED
    BY <2>1, <2>2, QueueStays
<1>7. ASSUME NEW s \in StreamId, StopIdleStream(s) PROVE QueueOf(queue, Waiting)'
  <2>1. Waiting' = Waiting \ {s}
    BY <1>1, <1>7 DEF StopIdleStream, BeginStop, Watched, StreamState
  <2>. QED
    BY <1>7, <2>1, WithoutQueue DEF StopIdleStream, QueueInv
<1>8. ASSUME NEW s \in StreamId, EndStopIdle(s) PROVE QueueOf(queue, Waiting)'
  <2>1. /\ ~Waits(s) /\ streams'[s].watcher = "none"
        /\ \A t \in StreamId : t # s => streams'[t] = streams[t]
        /\ cleanup'.phase = cleanup.phase
        /\ UNCHANGED <<sessions, queue>>
    BY <1>1, <1>8 DEF EndStopIdle, EndStop, Ended, Watched, NoStream, StreamState, CleanupState
  <2>2. Waiting' = Waiting
    BY <2>1
  <2>. QED
    BY <2>1, <2>2, QueueStays
<1>. QED
  BY <1>2, <1>3, <1>4, <1>5, <1>6, <1>7, <1>8 DEF CleanupStep

LEMMA UnusedStays ==
  ASSUME Inv, QueueInv, Next, NEW t \in StreamId
  PROVE  Unused(t)'
<1>1. streams \in [StreamId -> StreamState] /\ Unused(t)
  BY DEF Inv, Types, QueueInv
<1>2. ASSUME streams'[t].key = streams[t].key,
             streams'[t].watcher = streams[t].watcher \/ streams[t].watcher # "none"
      PROVE  Unused(t)'
  BY <1>1, <1>2 DEF Unused
<1>3. ASSUME NEW s \in StreamId, BeginStop(s) PROVE Unused(t)'
  BY <1>1, <1>2, <1>3 DEF BeginStop, Watched, StreamState
<1>4. ASSUME NEW s \in StreamId, EndStop(s) PROVE Unused(t)'
  BY <1>1, <1>4 DEF EndStop, NoStream, Unused
<1>5. ASSUME NEW v \in Session, HandlerStep(v) PROVE Unused(t)'
  <2>1. CASE ReuseStream(v) \/ StartStream(v) \/ SpawnFails(v)
    BY <1>2, <2>1 DEF ReuseStream, StartStream, SpawnFails
  <2>2. ASSUME NEW s \in StreamId, Spawned(v, s) PROVE Unused(t)'
    <3>1. sessions[v].key # None
      BY <2>2, WaiterAssumption DEF Spawned, Inv, Types
    <3>2. NewStream(sessions[v].key).key = sessions[v].key
      BY DEF NewStream, NoStream
    <3>. QED
      BY <1>1, <2>2, <3>1, <3>2 DEF Spawned, Unused
  <2>3. CASE Attach(v)
    BY <1>1, <1>2, <2>3 DEF Attach, StreamState
  <2>4. CASE ReleaseSession(v)
    BY <1>1, <1>2, <2>4 DEF ReleaseSession, StreamState
  <2>. QED
    BY <1>3, <1>4, <1>5, <2>1, <2>2, <2>3, <2>4 DEF HandlerStep, ReplaceStream, EndReplacing
<1>6. ASSUME NEW v \in Session, ClientStep(v) \/ Expire(v) PROVE Unused(t)'
  BY <1>2, <1>6 DEF ClientStep, CreateCameraSession, StopCameraSession, GetFileLate, Expire
<1>7. ASSUME NEW s \in StreamId, WatcherStep(s) PROVE Unused(t)'
  <2>1. CASE HandleExit(s)
    BY <1>1, <1>2, <2>1 DEF HandleExit, StreamState
  <2>2. CASE Restarted(s)
    BY <1>1, <1>2, <2>2 DEF Restarted, StreamState
  <2>3. ASSUME NEW phase, SetWatcher(s, phase), streams[s].watcher # "none" PROVE Unused(t)'
    BY <1>1, <1>2, <2>3 DEF SetWatcher, StreamState
  <2>. QED
    BY <1>7, <2>1, <2>2, <2>3
       DEF WatcherStep, NoticeExit, Retry, GiveUp, Restart, RestartFails, WatcherStops
<1>8. ASSUME NEW s \in StreamId, Exit(s) \/ IdleTimePasses(s) PROVE Unused(t)'
  BY <1>1, <1>2, <1>8 DEF Exit, IdleTimePasses, StreamState
<1>9. ASSUME NEW s \in StreamId, KeepStream(s) PROVE Unused(t)'
  BY <1>1, <1>2, <1>9 DEF KeepStream, StreamState
<1>10. CASE CleanupStep
  BY <1>2, <1>3, <1>4, <1>9, <1>10
     DEF CleanupStep, PopExpired, QueueSweep, StartSweep, EndSweep, ReleaseExpired,
         StopIdleStream, EndStopIdle
<1>. QED
  BY <1>5, <1>6, <1>7, <1>8, <1>10 DEF Next

LEMMA QueueNext == Inv /\ QueueInv /\ [Next]_vars => QueueInv'
<1>1. ASSUME Inv, QueueInv, Next PROVE QueueInv'
  <2>1. QueueOf(queue, Waiting)'
    BY <1>1, HandlerKeepsQueue, ClientKeepsQueue, WatcherKeepsQueue, CleanupKeepsQueue DEF Next
  <2>. QED
    BY <1>1, <2>1, UnusedStays DEF QueueInv
<1>2. ASSUME QueueInv, UNCHANGED vars PROVE QueueInv'
  BY <1>2 DEF vars, lockVars, QueueInv, Waiting, Waits, Unused
<1>. QED
  BY <1>1, <1>2

LEMMA QueueInvariant == Spec => []QueueInv
<1>1. Init => QueueInv
  BY WaiterAssumption
     DEF Init, QueueInv, QueueOf, Waiting, Waits, Waiter, Unused, NoSession, NoStream, Asleep
<1>. QED
  BY <1>1, QueueNext, Invariant, PTL DEF Spec

-----------------------------------------------------------------------------
(* The bounds.                                                             *)

BoundsKept == requestsLeft \in 0..MaxRequests /\ faultsLeft \in 0..MaxFaults

LEMMA BoundsNext == BoundsKept /\ [Next]_vars => BoundsKept'
<1> SUFFICES ASSUME BoundsKept, [Next]_vars PROVE BoundsKept'
  OBVIOUS
<1>1. ASSUME UNCHANGED <<requestsLeft, faultsLeft>> PROVE BoundsKept'
  BY <1>1 DEF BoundsKept
<1>2. ASSUME faultsLeft > 0, faultsLeft' = faultsLeft - 1, requestsLeft' = requestsLeft PROVE BoundsKept'
  BY <1>2, BoundAssumption DEF BoundsKept
<1>3. ASSUME NEW v \in Session, HandlerStep(v) PROVE BoundsKept'
  <2>1. CASE SpawnFails(v)
    BY <1>2, <2>1 DEF SpawnFails
  <2>2. CASE Attach(v) \/ ReleaseSession(v)
    BY <1>1, <2>2 DEF Attach, ReleaseSession, bounds
  <2>. QED
    BY <1>1, <1>3, <2>1, <2>2
       DEF HandlerStep, ReuseStream, StartStream, ReplaceStream, EndReplacing, Spawned, bounds
<1>4. ASSUME NEW v \in Session, ClientStep(v) \/ Expire(v) PROVE BoundsKept'
  BY <1>1, <1>4, BoundAssumption
     DEF ClientStep, CreateCameraSession, StopCameraSession, GetFileLate, Expire, bounds, BoundsKept
<1>5. ASSUME NEW s \in StreamId, WatcherStep(s) \/ Exit(s) \/ IdleTimePasses(s) PROVE BoundsKept'
  <2>1. CASE RestartFails(s)
    BY <1>2, <2>1 DEF RestartFails
  <2>2. CASE HandleExit(s) \/ Restarted(s)
    BY <1>1, <2>2 DEF HandleExit, Restarted, bounds
  <2>. QED
    BY <1>1, <1>5, <2>1, <2>2
       DEF WatcherStep, NoticeExit, Retry, GiveUp, Restart, WatcherStops, Exit, IdleTimePasses, bounds
<1>6. CASE CleanupStep
  BY <1>1, <1>6
     DEF CleanupStep, PopExpired, QueueSweep, StartSweep, EndSweep, ReleaseExpired, KeepStream,
         StopIdleStream, EndStopIdle, bounds
<1>7. CASE UNCHANGED vars
  BY <1>1, <1>7 DEF vars, bounds
<1>. QED
  BY <1>3, <1>4, <1>5, <1>6, <1>7 DEF Next

-----------------------------------------------------------------------------

\* Every variable of the camera service has its type, and a stream is in the dict
\* under its own key.
THEOREM TypeCorrect == Spec => []TypeOK
<1>1. Init => BoundsKept
  BY BoundAssumption DEF Init, BoundsKept
<1>2. QueueInv => queue \in Seq(Waiter)
  BY DEF QueueInv, QueueOf, Waiting
<1>3. Inv /\ QueueInv /\ BoundsKept => TypeOK
  BY <1>2 DEF Inv, Types, BoundsKept, TypeOK
<1>. QED
  BY <1>1, <1>3, BoundsNext, Invariant, QueueInvariant, PTL DEF Spec

\* Whoever waits for shared_streams_lock is in its queue, once; and who is in the queue
\* still waits: no cancelled watcher, no handler that has its answer is ever handed the
\* lock, and nobody waits whom the lock does not know of.
THEOREM QueueHoldsWaiters == Spec => []QueueOf(queue, Waiting)
<1>1. QueueInv => QueueOf(queue, Waiting)
  BY DEF QueueInv
<1>. QED
  BY <1>1, QueueInvariant, PTL
=============================================================================
