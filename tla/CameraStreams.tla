--------------------------- MODULE CameraStreams ---------------------------
(***************************************************************************)
(* camera-service: viewer sessions, the ffmpeg processes they share, the   *)
(* watcher that restarts an ffmpeg, and the cleanup task (main.py,         *)
(* session_store.py).                                                      *)
(*                                                                         *)
(* One event loop runs all of it, so code between two awaits is one step.  *)
(* Most awaits are acquisitions of one lock, shared_streams_lock, which is *)
(* first come first served: `queue' holds who waits for it.  Starting an   *)
(* ffmpeg and stopping a stream await while they hold it.                  *)
(***************************************************************************)
EXTENDS Naturals, Sequences

CONSTANTS
  Session,       \* camera sessions; one is used again when its client is through
  Key,           \* stream keys: a camera in one quality, and its HLS directory
  StreamId,      \* SharedCameraStream objects; used again when nothing is left of one
  Cleaner,       \* the cleanup task
  MaxRequests,   \* bound: sessions that clients ask for
  MaxFaults,     \* bound: an ffmpeg that cannot be started
  MaxLateReads,  \* bound: files asked for with an expired session
  None

ASSUME BoundAssumption ==
  MaxRequests \in Nat /\ MaxFaults \in Nat /\ MaxLateReads \in Nat

\* Sessions, streams and the cleanup task wait for the same lock.
ASSUME WaiterAssumption ==
  /\ Session \cap StreamId = {}
  /\ Cleaner \notin Session \cup StreamId
  /\ None \notin Session \cup StreamId \cup Key \cup {Cleaner}

VARIABLES
  sessions,      \* each session, from the request until nothing knows it
  shared,        \* shared_streams: the stream of each key
  streams,       \* the stream objects with their ffmpeg and watcher
  cleanup,       \* the cleanup task
  lock,          \* who holds shared_streams_lock
  queue,         \* who waits for it
  stopping,      \* the stream that the holder of the lock is stopping
  requestsLeft, faultsLeft, lateReadsLeft

lockVars == <<lock, queue, stopping>>
bounds == <<requestsLeft, faultsLeft, lateReadsLeft>>
vars == <<sessions, shared, streams, cleanup, lockVars, bounds>>

Waiter == Session \cup StreamId \cup {Cleaner}

\* none       not in the store, unknown to any handler
\* starting   waits for the lock in get_or_start_shared_stream
\* replacing  holds it and stops a dead stream
\* spawning   holds it and starts ffmpeg
\* attaching  in the store, waits for the lock to become a viewer
\* viewing    its client has the answer
\* expired    in the store past its time
\* dropped    taken from the store by the cleanup task, not released yet
\* leaving    out of the store, waits for the lock in release_session
SessionState ==
  [phase: {"none", "starting", "replacing", "spawning", "attaching", "viewing",
           "expired", "dropped", "leaving"}, key: Key \cup {None}]

NoSession == [phase |-> "none", key |-> None]

\* viewers  viewer_session_ids
\* process  none, running, exited (its returncode is set)
\* watcher  none, waiting (for the process), exited (waits for the lock after it),
\*          delaying, retrying (waits for the lock to restart), spawning (holds it),
\*          cancelled, done
\* idle     last_viewer_left_at: unset, recent, past (the idle timeout)
StreamState ==
  [key: Key \cup {None}, viewers: SUBSET Session,
   process: {"none", "running", "exited"},
   watcher: {"none", "waiting", "exited", "delaying", "retrying", "spawning",
             "cancelled", "done"},
   idle: {"unset", "recent", "past"}]

NoStream ==
  [key |-> None, viewers |-> {}, process |-> "none", watcher |-> "none", idle |-> "unset"]

NewStream(k) ==
  [NoStream EXCEPT !.key = k, !.process = "running", !.watcher = "waiting"]

\* phase    sleeping, releasing (what had expired), queued (for the lock), sweeping
\* current  the session it is releasing
\* todo     the streams it has not looked at
CleanupState ==
  [phase: {"sleeping", "releasing", "queued", "sweeping"},
   current: Session \cup {None}, todo: SUBSET StreamId]

Asleep == [phase |-> "sleeping", current |-> None, todo |-> {}]

-----------------------------------------------------------------------------
(* The lock.                                                               *)

InDict(s) == streams[s].key # None /\ shared[streams[s].key] = s

Watched(s) == streams[s].watcher \notin {"none", "done"}

\* The holder of the lock stops s and need not wait for it any more.
Ended(s) == ~Watched(s) /\ streams[s].process # "running"

\* Others come to the lock while its holder awaits something.  Whoever finds it free
\* has it at once, so those who already wait go before; and the cleanup task awaits
\* nothing but the end of a stream.
Arrive(w) ==
  /\ lock = None => queue = <<>>
  /\ lock = Cleaner => stopping # None /\ ~Ended(stopping)
  /\ queue' = Append(queue, w)

MyTurn(w) == lock = None /\ queue # <<>> /\ Head(queue) = w

\* A critical section without an await is one step.
Pass(w) == MyTurn(w) /\ queue' = Tail(queue) /\ UNCHANGED <<lock, stopping>>

Enter(w) == MyTurn(w) /\ queue' = Tail(queue) /\ lock' = w

Leave(w) == lock = w /\ lock' = None /\ UNCHANGED stopping

RemoveOne(q, i) == SubSeq(q, 1, i - 1) \o SubSeq(q, i + 1, Len(q))

\* The waiter that is cancelled leaves the queue; it waits once at most.
Without(q, w) ==
  IF \E i \in DOMAIN q : q[i] = w THEN RemoveOne(q, CHOOSE i \in DOMAIN q : q[i] = w) ELSE q

-----------------------------------------------------------------------------
(* Streams.                                                                *)

IsStreamProcessRunning(s) ==
  \/ streams[s].process = "running"
  \/ streams[s].viewers # {} /\ Watched(s)

SetPhase(v, phase) == sessions' = [sessions EXCEPT ![v].phase = phase]

\* Mutant: the stream stays in the dict.
BeginStopUnpopped(s) ==
  /\ streams' = [streams EXCEPT ![s].watcher = IF Watched(s) THEN "cancelled" ELSE @]
  /\ stopping' = s
  /\ UNCHANGED shared

\* Mutant: the watcher is awaited without having been cancelled.
BeginStopUncancelled(s) ==
  /\ shared' = [shared EXCEPT ![streams[s].key] = None]
  /\ stopping' = s
  /\ UNCHANGED streams

\* pop, restart_task.cancel().
BeginStop(s) ==
  /\ shared' = [shared EXCEPT ![streams[s].key] = None]
  /\ streams' = [streams EXCEPT ![s].watcher = IF Watched(s) THEN "cancelled" ELSE @]
  /\ stopping' = s

\* Mutant: the process is told to end and not awaited.
EndStopUnawaited(s) ==
  /\ stopping = s
  /\ ~Watched(s)
  /\ streams' = [streams EXCEPT ![s] = IF @.process = "running" THEN @ ELSE NoStream]
  /\ stopping' = None

\* The watcher was awaited, then the process, which is killed if it has to be.
EndStop(s) ==
  /\ stopping = s
  /\ Ended(s)
  /\ streams' = [streams EXCEPT ![s] = NoStream]
  /\ stopping' = None

-----------------------------------------------------------------------------
(* A session.                                                              *)

\* POST /internal/camera/sessions.
CreateCameraSession(v, k) ==
  /\ sessions[v].phase = "none"
  /\ requestsLeft > 0
  /\ requestsLeft' = requestsLeft - 1
  /\ sessions' = [sessions EXCEPT ![v] = [phase |-> "starting", key |-> k]]
  /\ Arrive(v)
  /\ UNCHANGED <<shared, streams, cleanup, lock, stopping, faultsLeft, lateReadsLeft>>

\* A running stream is shared; the session is stored and waits for the lock again,
\* behind those who came in between.
ReuseStream(v) ==
  /\ sessions[v].phase = "starting"
  /\ MyTurn(v)
  /\ shared[sessions[v].key] # None
  /\ IsStreamProcessRunning(shared[sessions[v].key])
  /\ SetPhase(v, "attaching")
  /\ queue' = Append(Tail(queue), v)
  /\ UNCHANGED <<shared, streams, cleanup, lock, stopping, bounds>>

\* A cancelled watcher no longer waits for the lock.
ReplaceStream(v, s) ==
  /\ sessions[v].phase = "starting"
  /\ shared[sessions[v].key] = s
  /\ ~IsStreamProcessRunning(s)
  /\ MyTurn(v)
  /\ lock' = v
  /\ queue' = Without(Tail(queue), s)
  /\ BeginStop(s)
  /\ SetPhase(v, "replacing")
  /\ UNCHANGED <<cleanup, bounds>>

EndReplacing(v, s) ==
  /\ sessions[v].phase = "replacing"
  /\ EndStop(s)
  /\ SetPhase(v, "spawning")
  /\ UNCHANGED <<shared, cleanup, lock, queue, bounds>>

StartStream(v) ==
  /\ sessions[v].phase = "starting"
  /\ shared[sessions[v].key] = None
  /\ Enter(v)
  /\ SetPhase(v, "spawning")
  /\ UNCHANGED <<shared, streams, cleanup, stopping, bounds>>

Spawned(v, s) ==
  /\ sessions[v].phase = "spawning"
  /\ streams[s].key = None
  /\ streams' = [streams EXCEPT ![s] = NewStream(sessions[v].key)]
  /\ shared' = [shared EXCEPT ![sessions[v].key] = s]
  /\ SetPhase(v, "attaching")
  /\ Leave(v)
  /\ queue' = Append(queue, v)
  /\ UNCHANGED <<cleanup, bounds>>

\* OSError: 502, and the key stays without a stream.
SpawnFails(v) ==
  /\ sessions[v].phase = "spawning"
  /\ faultsLeft > 0
  /\ faultsLeft' = faultsLeft - 1
  /\ sessions' = [sessions EXCEPT ![v] = NoSession]
  /\ Leave(v)
  /\ UNCHANGED <<shared, streams, cleanup, queue, requestsLeft, lateReadsLeft>>

\* The session becomes a viewer of whatever stream its key has by now, or is told
\* 503 and forgotten.
Attach(v) ==
  LET s == shared[sessions[v].key]
  IN  /\ sessions[v].phase = "attaching"
      /\ Pass(v)
      /\ \/ /\ s = None
            /\ sessions' = [sessions EXCEPT ![v] = NoSession]
            /\ UNCHANGED streams
         \/ /\ s # None
            /\ SetPhase(v, "viewing")
            /\ streams' = [streams EXCEPT ![s].viewers = @ \cup {v}, ![s].idle = "unset"]
      /\ UNCHANGED <<shared, cleanup, bounds>>

\* Mutant: the session is forgotten without leaving its stream.
StopUnreleased(v) ==
  /\ sessions[v].phase \in {"viewing", "expired"}
  /\ sessions' = [sessions EXCEPT ![v] = NoSession]
  /\ UNCHANGED <<shared, streams, cleanup, lockVars, bounds>>

\* POST .../stop.  An expired session that is still in the store is released as well.
StopCameraSession(v) ==
  /\ sessions[v].phase \in {"viewing", "expired"}
  /\ SetPhase(v, "leaving")
  /\ Arrive(v)
  /\ UNCHANGED <<shared, streams, cleanup, lock, stopping, bounds>>

ReleaseSession(v) ==
  LET s == shared[sessions[v].key]
  IN  /\ sessions[v].phase = "leaving"
      /\ Pass(v)
      /\ sessions' = [sessions EXCEPT ![v] = NoSession]
      /\ cleanup' = [cleanup EXCEPT !.current = IF @ = v THEN None ELSE @]
      /\ IF s = None THEN UNCHANGED streams
         ELSE streams' = [streams EXCEPT
                ![s].viewers = @ \ {v},
                ![s].idle = IF streams[s].viewers \ {v} = {} THEN "recent" ELSE @]
      /\ UNCHANGED <<shared, bounds>>

\* The time to live passes.  It is an hour, and handlers are done long before.
Expire(v) ==
  /\ sessions[v].phase = "viewing"
  /\ SetPhase(v, "expired")
  /\ UNCHANGED <<shared, streams, cleanup, lockVars, bounds>>

\* GET .../hls/{filename} with an expired session: the store forgets the session, and
\* nobody releases it.
GetFileLate(v) ==
  /\ sessions[v].phase = "expired"
  /\ lateReadsLeft > 0
  /\ lateReadsLeft' = lateReadsLeft - 1
  /\ sessions' = [sessions EXCEPT ![v] = NoSession]
  /\ UNCHANGED <<shared, streams, cleanup, lockVars, requestsLeft, faultsLeft>>

-----------------------------------------------------------------------------
(* ffmpeg and its watcher (watch_ffmpeg_process).                          *)

\* The camera closes the connection, or terminate() or kill() worked.
Exit(s) ==
  /\ streams[s].process = "running"
  /\ streams' = [streams EXCEPT ![s].process = "exited"]
  /\ UNCHANGED <<sessions, shared, cleanup, lockVars, bounds>>

SetWatcher(s, phase) == streams' = [streams EXCEPT ![s].watcher = phase]

NoticeExit(s) ==
  /\ streams[s].watcher = "waiting"
  /\ streams[s].process = "exited"
  /\ SetWatcher(s, "exited")
  /\ Arrive(s)
  /\ UNCHANGED <<sessions, shared, cleanup, lock, stopping, bounds>>

\* Without viewers the watcher is through; the stream stays until it is swept or
\* replaced.  It leaves alone what is not in the dict any more.
HandleExit(s) ==
  LET watched == InDict(s) /\ streams[s].viewers # {}
  IN  /\ streams[s].watcher = "exited"
      /\ Pass(s)
      /\ streams' = [streams EXCEPT
           ![s].process = IF InDict(s) THEN "none" ELSE @,
           ![s].watcher = IF watched THEN "delaying" ELSE "done",
           ![s].idle = IF InDict(s) /\ ~watched THEN "recent" ELSE @]
      /\ UNCHANGED <<sessions, shared, cleanup, bounds>>

Retry(s) ==
  /\ streams[s].watcher = "delaying"
  /\ SetWatcher(s, "retrying")
  /\ Arrive(s)
  /\ UNCHANGED <<sessions, shared, cleanup, lock, stopping, bounds>>

GiveUp(s) ==
  /\ streams[s].watcher = "retrying"
  /\ ~InDict(s) \/ streams[s].viewers = {}
  /\ Pass(s)
  /\ SetWatcher(s, "done")
  /\ UNCHANGED <<sessions, shared, cleanup, bounds>>

Restart(s) ==
  /\ streams[s].watcher = "retrying"
  /\ InDict(s)
  /\ streams[s].viewers # {}
  /\ Enter(s)
  /\ SetWatcher(s, "spawning")
  /\ UNCHANGED <<sessions, shared, cleanup, stopping, bounds>>

Restarted(s) ==
  /\ streams[s].watcher = "spawning"
  /\ streams' = [streams EXCEPT ![s].process = "running", ![s].watcher = "waiting"]
  /\ Leave(s)
  /\ UNCHANGED <<sessions, shared, cleanup, queue, bounds>>

\* Mutant: the watcher gives up after the first failure.
RestartFailsOnce(s) ==
  /\ streams[s].watcher = "spawning"
  /\ faultsLeft > 0
  /\ faultsLeft' = faultsLeft - 1
  /\ SetWatcher(s, "done")
  /\ Leave(s)
  /\ UNCHANGED <<sessions, shared, cleanup, queue, requestsLeft, lateReadsLeft>>

RestartFails(s) ==
  /\ streams[s].watcher = "spawning"
  /\ faultsLeft > 0
  /\ faultsLeft' = faultsLeft - 1
  /\ SetWatcher(s, "delaying")
  /\ Leave(s)
  /\ UNCHANGED <<sessions, shared, cleanup, queue, requestsLeft, lateReadsLeft>>

WatcherStops(s) ==
  /\ streams[s].watcher = "cancelled"
  /\ SetWatcher(s, "done")
  /\ UNCHANGED <<sessions, shared, cleanup, lockVars, bounds>>

\* The idle timeout passes.
IdleTimePasses(s) ==
  /\ streams[s].idle = "recent"
  /\ streams' = [streams EXCEPT ![s].idle = "past"]
  /\ UNCHANGED <<sessions, shared, cleanup, lockVars, bounds>>

-----------------------------------------------------------------------------
(* The cleanup task.                                                       *)

\* Mutant: expired sessions are forgotten without leaving their streams.
PopUnreleased ==
  /\ cleanup.phase = "sleeping"
  /\ cleanup' = [cleanup EXCEPT !.phase = "releasing"]
  /\ sessions' = [v \in Session |->
       IF sessions[v].phase = "expired" THEN NoSession ELSE sessions[v]]
  /\ UNCHANGED <<shared, streams, lockVars, bounds>>

\* pop_expired takes all expired sessions at once ...
PopExpired ==
  /\ cleanup.phase = "sleeping"
  /\ cleanup' = [cleanup EXCEPT !.phase = "releasing"]
  /\ sessions' = [v \in Session |->
       IF sessions[v].phase = "expired" THEN [sessions[v] EXCEPT !.phase = "dropped"]
       ELSE sessions[v]]
  /\ UNCHANGED <<shared, streams, lockVars, bounds>>

\* ... and they are released one after the other.
ReleaseExpired(v) ==
  /\ cleanup.phase = "releasing"
  /\ cleanup.current = None
  /\ sessions[v].phase = "dropped"
  /\ cleanup' = [cleanup EXCEPT !.current = v]
  /\ SetPhase(v, "leaving")
  /\ Arrive(v)
  /\ UNCHANGED <<shared, streams, lock, stopping, bounds>>

QueueSweep ==
  /\ cleanup.phase = "releasing"
  /\ cleanup.current = None
  /\ \A v \in Session : sessions[v].phase # "dropped"
  /\ cleanup' = [cleanup EXCEPT !.phase = "queued"]
  /\ Arrive(Cleaner)
  /\ UNCHANGED <<sessions, shared, streams, lock, stopping, bounds>>

StartSweep ==
  /\ cleanup.phase = "queued"
  /\ Enter(Cleaner)
  /\ cleanup' = [cleanup EXCEPT !.phase = "sweeping", !.todo = {s \in StreamId : InDict(s)}]
  /\ UNCHANGED <<sessions, shared, streams, stopping, bounds>>

SweepingAt(s) == cleanup.phase = "sweeping" /\ stopping = None /\ s \in cleanup.todo

\* A stream with viewers is kept, and so is one that became idle lately or is seen
\* idle for the first time.
KeepStream(s) ==
  /\ SweepingAt(s)
  /\ streams[s].viewers # {} \/ streams[s].idle # "past"
  /\ streams' = [streams EXCEPT ![s].idle =
       IF streams[s].viewers = {} /\ @ = "unset" THEN "recent" ELSE @]
  /\ cleanup' = [cleanup EXCEPT !.todo = @ \ {s}]
  /\ UNCHANGED <<sessions, shared, lockVars, bounds>>

StopIdleStream(s) ==
  /\ SweepingAt(s)
  /\ streams[s].viewers = {}
  /\ streams[s].idle = "past"
  /\ BeginStop(s)
  /\ queue' = Without(queue, s)
  /\ UNCHANGED <<sessions, cleanup, lock, bounds>>

EndStopIdle(s) ==
  /\ cleanup.phase = "sweeping"
  /\ EndStop(s)
  /\ cleanup' = [cleanup EXCEPT !.todo = @ \ {s}]
  /\ UNCHANGED <<sessions, shared, lock, queue, bounds>>

EndSweep ==
  /\ cleanup.phase = "sweeping"
  /\ cleanup.todo = {}
  /\ cleanup' = Asleep
  /\ Leave(Cleaner)
  /\ UNCHANGED <<sessions, shared, streams, queue, bounds>>

-----------------------------------------------------------------------------
Init ==
  /\ sessions = [v \in Session |-> NoSession]
  /\ shared = [k \in Key |-> None]
  /\ streams = [s \in StreamId |-> NoStream]
  /\ cleanup = Asleep
  /\ lock = None
  /\ queue = <<>>
  /\ stopping = None
  /\ requestsLeft = MaxRequests
  /\ faultsLeft = MaxFaults
  /\ lateReadsLeft = MaxLateReads

\* What a handler does once it was called.
HandlerStep(v) ==
  \/ ReuseStream(v) \/ StartStream(v) \/ SpawnFails(v)
  \/ \E s \in StreamId : ReplaceStream(v, s) \/ EndReplacing(v, s) \/ Spawned(v, s)
  \/ Attach(v) \/ ReleaseSession(v)

ClientStep(v) ==
  \/ \E k \in Key : CreateCameraSession(v, k)
  \/ StopCameraSession(v)
  \/ GetFileLate(v)

WatcherStep(s) ==
  \/ NoticeExit(s) \/ HandleExit(s) \/ Retry(s) \/ GiveUp(s)
  \/ Restart(s) \/ Restarted(s) \/ RestartFails(s) \/ WatcherStops(s)

CleanupStep ==
  \/ PopExpired \/ QueueSweep \/ StartSweep \/ EndSweep
  \/ \E v \in Session : ReleaseExpired(v)
  \/ \E s \in StreamId : KeepStream(s) \/ StopIdleStream(s) \/ EndStopIdle(s)

Next ==
  \/ \E v \in Session : HandlerStep(v) \/ ClientStep(v) \/ Expire(v)
  \/ \E s \in StreamId : WatcherStep(s) \/ Exit(s) \/ IdleTimePasses(s)
  \/ CleanupStep

Spec == Init /\ [][Next]_vars

\* terminate() and kill() end a process; a camera may keep one running for ever.
Terminated(s) == stopping = s /\ ~Watched(s) /\ Exit(s)

\* Handlers and tasks that can run do run, ffmpeg starts or fails to, and the idle
\* timeout passes.  Clients do what they like: they need not stop a session, nor does
\* it expire while nobody looks.  A task that comes to the lock may find it free or
\* taken by turns, hence strong fairness.
Fairness ==
  /\ \A v \in Session : WF_vars(HandlerStep(v))
  /\ \A s \in StreamId :
       /\ SF_vars(WatcherStep(s))
       /\ WF_vars(Terminated(s))
       /\ WF_vars(IdleTimePasses(s))
  /\ SF_vars(CleanupStep)

FairSpec == Spec /\ Fairness

-----------------------------------------------------------------------------
(* Properties.                                                             *)

\* Every variable has its type, and a stream is in the dict under its own key.
TypeOK ==
  /\ sessions \in [Session -> SessionState]
  /\ shared \in [Key -> StreamId \cup {None}]
  /\ streams \in [StreamId -> StreamState]
  /\ cleanup \in CleanupState
  /\ lock \in Waiter \cup {None}
  /\ queue \in Seq(Waiter)
  /\ stopping \in StreamId \cup {None}
  /\ requestsLeft \in 0..MaxRequests
  /\ faultsLeft \in 0..MaxFaults
  /\ lateReadsLeft \in 0..MaxLateReads
  /\ \A k \in Key : shared[k] # None => streams[shared[k]].key = k

\* Two ffmpegs never write the same HLS directory: a stream that is replaced, swept or
\* restarted has ended its process before the next one of its key starts.
OneFfmpegPerDirectory ==
  \A s, t \in StreamId :
    /\ s # t
    /\ streams[s].process = "running"
    /\ streams[t].process = "running"
    => streams[s].key # streams[t].key

\* A file asked for with an expired session takes the session from the store only.
NoLateRead == lateReadsLeft = MaxLateReads

\* Whoever a stream counts as a viewer is a session of its camera that will still be
\* released.  A viewer without a session keeps the stream for nobody: that happens
\* after a late read, and in no other way.
ViewersHaveSessions ==
  NoLateRead =>
    \A s \in StreamId : \A v \in streams[s].viewers :
      /\ sessions[v].phase \in {"viewing", "expired", "dropped", "leaving"}
      /\ sessions[v].key = streams[s].key

\* Every request is answered and every release ends: nobody waits for a lock whose
\* holder waits for him, although a watcher is awaited by whoever holds the lock that
\* the watcher waits for.
RequestIsAnswered ==
  \A v \in Session :
    sessions[v].phase \in {"starting", "replacing", "spawning", "attaching", "leaving"}
      ~> sessions[v].phase \in {"viewing", "none"}

\* While a watcher is at work, a stream with viewers runs again after its ffmpeg ended
\* or could not be started.
WatchedStreamRecovers ==
  \A s \in StreamId :
    InDict(s) /\ streams[s].viewers # {} /\ Watched(s) /\ streams[s].process # "running"
      ~> streams[s].process = "running" \/ streams[s].viewers = {} \/ ~InDict(s)

\* When a camera has no sessions any more, its ffmpeg does not run for ever ...
UnwatchedStreamsEnd ==
  \A k \in Key :
    <>[](\A v \in Session : sessions[v].key # k)
      => <>[](/\ shared[k] = None
              /\ \A s \in StreamId :
                   streams[s].process = "running" => streams[s].key # k)

\* ... if no file was asked for with an expired session.
UnwatchedStreamsEndInTime == []NoLateRead => UnwatchedStreamsEnd
=============================================================================
