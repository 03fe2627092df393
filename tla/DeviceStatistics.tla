--------------------------- MODULE DeviceStatistics ---------------------------
(***************************************************************************)
(* The statistics of one device in classroom-service: the row of its       *)
(* current state, the history of its changes, and the consumers of lease   *)
(* snapshots and of WAN policy events that write both.                     *)
(*                                                                         *)
(* A queue delivers up to ten messages at once, so that several handlers   *)
(* run side by side.  Each reads the device, then the state row, and       *)
(* commits; SQLAlchemy writes back the columns that differ from what was   *)
(* read.  Rows of other devices share only the transaction: what fails for *)
(* one of them drops the snapshot for all (RejectMessage).                 *)
(*                                                                         *)
(* Time counts the changes of the world outside: two instants between      *)
(* which nothing changed are one.                                          *)
(***************************************************************************)
EXTENDS Leases, StatisticsReport

CONSTANTS
  Tracked,     \* the device's MAC
  Handler,     \* messages of the two queues handled at the same time
  WanState     \* allowed, blocked and protected

VARIABLES
  now,
  device,      \* the row of devices: pinned, and the WAN state it gives
  current,     \* the row of device_statistics_state, or None
  history,     \* device_statistics_events of the device, by id
  dhcpQueue,   \* the queue of snapshots
  wanQueue,    \* the queue of WAN policy events
  handling,    \* what each handler is doing
  overlapped   \* two handlers were at work at once (for the properties)

statisticsVars ==
  <<now, device, current, history, dhcpQueue, wanQueue, handling, overlapped>>
tables == <<current, history>>

\* Of WAN policy events only the time is used: the state is read again.
WanMessage == [at: Nat]
Message == Snapshot \cup WanMessage
StateRow == [online: BOOLEAN, wan: WanState, at: Nat]
Event == [at: Nat, online: BOOLEAN, wan: WanState]

\* "device": the device was read; "state": the state row too, and decided.
Handling ==
  [step: {"device"}, message: Message, wan: WanState]
    \cup
  [step: {"state"}, message: Message,
   read: StateRow \cup {None}, next: StateRow]

InitStatistics ==
  /\ now = 0
  /\ device = [pinned |-> TRUE, wan |-> "allowed"]
  /\ current = None
  /\ history = <<>>
  /\ dhcpQueue = <<>> /\ wanQueue = <<>>
  /\ handling = [h \in Handler |-> None]
  /\ overlapped = FALSE

IdleHandlers == {h \in Handler : handling[h] = None}

-----------------------------------------------------------------------------
(* Handling one message.                                                   *)

\* Handlers are alike: the next message goes to one that is idle.
NextHandler == CHOOSE h \in Handler : h \in IdleHandlers

\* The handler of message m reads the device: an unpinned one is ignored.
Take(h, m) ==
  /\ IdleHandlers # {} /\ h = NextHandler
  /\ handling' =
       [handling EXCEPT ![h] =
          IF device.pinned
          THEN [step |-> "device", message |-> m, wan |-> device.wan]
          ELSE None]
  /\ overlapped' = (overlapped \/ IdleHandlers # Handler)
  /\ UNCHANGED <<now, device, tables>>

HandleDhcpStatistics(h) ==
  /\ dhcpQueue # <<>>
  /\ Take(h, Head(dhcpQueue))
  /\ dhcpQueue' = Tail(dhcpQueue)
  /\ UNCHANGED wanQueue

HandleWanStatistics(h) ==
  /\ wanQueue # <<>>
  /\ Take(h, Head(wanQueue))
  /\ wanQueue' = Tail(wanQueue)
  /\ UNCHANGED dhcpQueue

IsSnapshot(m) == "leases" \in DOMAIN m

\* bool(lease is not None and lease.active), of the last lease of the MAC.
Online(leases) ==
  Tracked \in SeenMacs(leases) /\ LastLease(leases, Tracked).active

\* What the row becomes: with the flag of the snapshot, or the one read.
NextState(m, wan) ==
  [online |-> IF IsSnapshot(m) THEN Online(m.leases)
              ELSE current # None /\ current.online,
   wan    |-> wan,
   at     |-> m.at]

IsStale(m) == current # None /\ m.at < current.at

\* record_device_statistics_state, up to the commit.
ReadState(h) ==
  /\ handling[h] # None /\ handling[h].step = "device"
  /\ LET m == handling[h].message IN
     handling' =
       [handling EXCEPT ![h] =
          IF IsStale(m) THEN None
          ELSE [step |-> "state", message |-> m, read |-> current,
                next |-> NextState(m, handling[h].wan)]]
  /\ UNCHANGED <<now, device, tables, dhcpQueue, wanQueue, overlapped>>

\* An UPDATE sets the columns that differ from those read.
Updated(row, read, next) ==
  [column \in DOMAIN row |->
     IF next[column] # read[column] THEN next[column] ELSE row[column]]

\* Mutant: a change of the WAN state alone is not recorded.
IsOnlineChange(read, next) == read = None \/ read.online # next.online

IsChange(read, next) ==
  read = None \/ read.online # next.online \/ read.wan # next.wan

\* The row and, when a state changed, the event, in one transaction.  A row
\* that another handler inserted meanwhile makes the INSERT fail.
Store(read, next) ==
  IF read = None /\ current # None THEN UNCHANGED tables
  ELSE /\ current' = IF read = None THEN next ELSE Updated(current, read, next)
       /\ history' =
            IF IsChange(read, next)
            THEN Append(history, [at |-> next.at, online |-> next.online,
                                  wan |-> next.wan])
            ELSE history

Commit(h) ==
  /\ handling[h] # None /\ handling[h].step = "state"
  /\ Store(handling[h].read, handling[h].next)
  /\ handling' = [handling EXCEPT ![h] = None]
  /\ UNCHANGED <<now, device, dhcpQueue, wanQueue, overlapped>>

\* Back to the head of its queue, where it came from.
Redeliver(m) ==
  IF IsSnapshot(m)
  THEN dhcpQueue' = <<m>> \o dhcpQueue /\ UNCHANGED wanQueue
  ELSE wanQueue' = <<m>> \o wanQueue /\ UNCHANGED dhcpQueue

\* The service dies between the commit and the acknowledgement, or before
\* the commit: the message is delivered again, first in its queue.  (Only a
\* crash that meets one handler at work, so that this order is known.)
CrashStatistics(h) ==
  /\ handling[h] # None
  /\ \A g \in Handler \ {h} : handling[g] = None
  /\ \/ UNCHANGED tables
     \/ /\ handling[h].step = "state"
        /\ Store(handling[h].read, handling[h].next)
  /\ Redeliver(handling[h].message)
  /\ handling' = [handling EXCEPT ![h] = None]
  /\ UNCHANGED <<now, device, overlapped>>

\* A handler that raises rejects its message: requeue=False.
RejectMessage(h) ==
  /\ handling[h] # None
  /\ handling' = [handling EXCEPT ![h] = None]
  /\ UNCHANGED <<now, device, tables, dhcpQueue, wanQueue, overlapped>>

HandlerStep(h) == ReadState(h) \/ Commit(h)
=============================================================================
