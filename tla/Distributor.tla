---------------------------- MODULE Distributor ----------------------------
(***************************************************************************)
(* The distributor of internal/monitor/distributor.go: one goroutine that  *)
(* receives from a loopback channel, a worker goroutine for every polling  *)
(* monitor, a short-lived goroutine for every poll in progress, and a      *)
(* reader goroutine for every feed subscriber.  The distributor itself,    *)
(* the poll goroutines, the readers, the request handlers and main all     *)
(* send on the same loopback channel, a Go channel whose buffer holds      *)
(* Capacity messages.                                                      *)
(*                                                                         *)
(* A goroutine blocked in a send on the loopback channel is one whose send *)
(* step is not enabled yet.  The channels of the workers are unbuffered,   *)
(* so a send on them is a joint step of the distributor and the worker.    *)
(***************************************************************************)
EXTENDS Naturals, Sequences

CONSTANTS
  Monitors,   \* ids of monitors
  Configs,    \* what a monitor row holds besides its id
  Workers,    \* identities of worker goroutines, and of their channels
  Conns,      \* feed connections, each with the key it is registered under
  Fragile,    \* connections whose peer may go away
  Slow,       \* connections whose peer may stop reading for a while
  Settings,   \* values of the settings
  Capacity,   \* size of the buffer of the loopback channel
  MaxPolls,   \* bound: polls in progress before a timer fires, or a request is made
  MaxRows,    \* bound: the count of measurement rows saturates here
  None        \* no value

ASSUME CapacityAssumption == Capacity \in Nat \ {0}
ASSUME BoundsAssumption == MaxPolls \in Nat \ {0} /\ MaxRows \in Nat \ {0}
ASSUME ConnsAssumption == Fragile \subseteq Conns /\ Slow \subseteq Conns
ASSUME NoneAssumption == None \notin Workers /\ None \notin Configs

VARIABLES
  loopback,     \* messages in the buffer of the loopback channel
  pc,           \* where the distributor goroutine is
  cur,          \* the message it is handling, while it blocks on that message
  todo,         \* subscribers the measurement has not been written to yet
  discard,      \* subscribers whose write failed
  polling,      \* d.polling: the channel (worker) of every polling monitor
  phase,        \* where every worker goroutine is
  job,          \* the monitor every worker goroutine captured
  inflight,     \* poll goroutines in progress, by what they poll
  subscribers,  \* d.subscribers
  reader,       \* where the reader goroutine of every connection is
  net,          \* what the peer of every connection does
  closed,       \* connections the distributor has closed
  settings,     \* d.settings
  rows,         \* measurement rows in the repository (saturating at MaxRows)
  feed          \* the last row written to every connection

listenVars == <<pc, cur, todo, discard>>
workerVars == <<polling, phase, job>>
connVars   == <<subscribers, reader, net, closed>>
dataVars   == <<settings, rows, feed>>
vars == <<loopback, listenVars, workerVars, inflight, connVars, dataVars>>

-----------------------------------------------------------------------------
(* Messages (monitor.go:259-289, settings.go). *)

Job == [mon : Monitors, cfg : Configs]

StartMessage(j)       == [type |-> "start", job |-> j]
StopMessage(m)        == [type |-> "stop", mon |-> m]
PollMessage(j)        == [type |-> "poll", job |-> j]
MeasurementMessage(m) == [type |-> "measurement", mon |-> m]
SubscribeMessage(c)   == [type |-> "subscribe", conn |-> c]
UnsubscribeMessage(c) == [type |-> "unsubscribe", conn |-> c]
SettingsMessage(s)    == [type |-> "settings", value |-> s]

Message ==
       {StartMessage(j) : j \in Job} \cup {PollMessage(j) : j \in Job}
  \cup {StopMessage(m) : m \in Monitors}
  \cup {MeasurementMessage(m) : m \in Monitors}
  \cup {SubscribeMessage(c) : c \in Conns}
  \cup {UnsubscribeMessage(c) : c \in Conns}
  \cup {SettingsMessage(s) : s \in Settings}

(* The messages in the channel, and those that are in it more than once. *)
Pending == {loopback[i] : i \in 1 .. Len(loopback)}
Repeated == {msg \in Pending : \E i, j \in 1 .. Len(loopback) :
                                 i # j /\ loopback[i] = msg /\ loopback[j] = msg}

(* Seeded bug: a send that does not wait for room. *)
SendUnbounded(msg) == loopback' = Append(loopback, msg)

(* A send on the loopback channel: possible while its buffer has room. *)
Send(msg) == /\ Len(loopback) < Capacity
             /\ loopback' = Append(loopback, msg)

(* The head of the loop of Listen takes the oldest message. *)
Receive(msg) == /\ pc = "listening"
                /\ loopback # <<>>
                /\ Head(loopback) = msg
                /\ loopback' = Tail(loopback)

Init ==
  /\ loopback = <<>>
  /\ pc = "listening" /\ cur = None /\ todo = {} /\ discard = {}
  /\ polling = [m \in Monitors |-> None]
  /\ phase = [w \in Workers |-> "none"]
  /\ job = [w \in Workers |-> None]
  /\ inflight = [j \in Job |-> 0]
  /\ subscribers = {} /\ closed = {}
  /\ reader = [c \in Conns |-> "none"]
  /\ net = [c \in Conns |-> "up"]
  /\ settings \in Settings
  /\ rows = 0
  /\ feed = [c \in Conns |-> 0]

-----------------------------------------------------------------------------
(* Feed subscribers. *)

(* A connection is registered and its reader goroutine spawned. *)
Subscribe(c) ==
  /\ Receive(SubscribeMessage(c))
  /\ subscribers' = subscribers \cup {c}
  /\ reader' = [reader EXCEPT ![c] = "reading"]
  /\ feed' = [feed EXCEPT ![c] = rows]
  /\ UNCHANGED <<listenVars, workerVars, inflight, net, closed, settings, rows>>

(* Seeded bug: the connection stays registered after it is closed. *)
UnsubscribeKeepsEntry(c) ==
  /\ Receive(UnsubscribeMessage(c))
  /\ closed' = IF c \in subscribers THEN closed \cup {c} ELSE closed
  /\ UNCHANGED <<subscribers, listenVars, workerVars, inflight, reader, net, dataVars>>

(* A registered connection is closed and forgotten; any other is a no-op. *)
Unsubscribe(c) ==
  /\ Receive(UnsubscribeMessage(c))
  /\ closed' = IF c \in subscribers THEN closed \cup {c} ELSE closed
  /\ subscribers' = subscribers \ {c}
  /\ UNCHANGED <<listenVars, workerVars, inflight, reader, net, dataVars>>

(* Seeded bug: the reader exits without telling the distributor. *)
ReaderExitsSilently(c) ==
  /\ reader[c] = "reading"
  /\ net[c] = "down" \/ c \in closed
  /\ reader' = [reader EXCEPT ![c] = "done"]
  /\ UNCHANGED <<loopback, subscribers, listenVars, workerVars, inflight, net, closed, dataVars>>

(* The reader goroutine: ReadMessage fails once the peer is gone or the
   connection is closed; it sends one UnsubscribeMessage and exits. *)
ReaderExits(c) ==
  /\ reader[c] = "reading"
  /\ net[c] = "down" \/ c \in closed
  /\ Send(UnsubscribeMessage(c))
  /\ reader' = [reader EXCEPT ![c] = "done"]
  /\ UNCHANGED <<subscribers, listenVars, workerVars, inflight, net, closed, dataVars>>

-----------------------------------------------------------------------------
(* Workers. *)

(* Seeded bug: an entry that exists is overwritten. *)
StartWorkerAlways(j) ==
  /\ Receive(StartMessage(j))
  /\ \E w \in Workers :
       /\ phase[w] = "none"
       /\ polling' = [polling EXCEPT ![j.mon] = w]
       /\ phase' = [phase EXCEPT ![w] = "sleeping"]
       /\ job' = [job EXCEPT ![w] = j]
  /\ UNCHANGED <<listenVars, inflight, connVars, dataVars>>

(* A monitor that is not polling gets a channel and a worker. *)
StartWorker(j) ==
  /\ Receive(StartMessage(j))
  /\ polling[j.mon] = None
  /\ \E w \in Workers :
       /\ phase[w] = "none"
       /\ polling' = [polling EXCEPT ![j.mon] = w]
       /\ phase' = [phase EXCEPT ![w] = "sleeping"]
       /\ job' = [job EXCEPT ![w] = j]
  /\ UNCHANGED <<listenVars, inflight, connVars, dataVars>>

(* A request to start a monitor that is polling is dropped. *)
DropStart(j) ==
  /\ Receive(StartMessage(j))
  /\ polling[j.mon] # None
  /\ UNCHANGED <<listenVars, workerVars, inflight, connVars, dataVars>>

(* A stop request for a polling monitor: the distributor blocks in the send
   on the worker's channel. *)
StopBegin(m) ==
  /\ Receive(StopMessage(m))
  /\ polling[m] # None
  /\ pc' = "stopping"
  /\ cur' = StopMessage(m)
  /\ UNCHANGED <<todo, discard, workerVars, inflight, connVars, dataVars>>

(* Seeded bug: it is put back into the channel, to be tried again. *)
DropStopRequeues(m) ==
  /\ pc = "listening" /\ loopback # <<>> /\ Head(loopback) = StopMessage(m)
  /\ polling[m] = None
  /\ loopback' = Append(Tail(loopback), StopMessage(m))
  /\ UNCHANGED <<listenVars, workerVars, inflight, connVars, dataVars>>

(* A stop request for any other monitor is a no-op. *)
DropStop(m) ==
  /\ Receive(StopMessage(m))
  /\ polling[m] = None
  /\ UNCHANGED <<listenVars, workerVars, inflight, connVars, dataVars>>

(* Seeded bug: the worker takes the message and the entry stays. *)
StopHandshakeKeepsEntry(m) ==
  /\ pc = "stopping" /\ cur = StopMessage(m)
  /\ phase[polling[m]] = "selecting"
  /\ phase' = [phase EXCEPT ![polling[m]] = "none"]
  /\ job' = [job EXCEPT ![polling[m]] = None]
  /\ pc' = "listening" /\ cur' = None
  /\ UNCHANGED <<polling, loopback, todo, discard, inflight, connVars, dataVars>>

(* The worker, once in its select, takes the StopMessage and exits; the
   distributor deletes the entry. *)
StopHandshake(m) ==
  /\ pc = "stopping" /\ cur = StopMessage(m)
  /\ phase[polling[m]] = "selecting"
  /\ phase' = [phase EXCEPT ![polling[m]] = "none"]
  /\ job' = [job EXCEPT ![polling[m]] = None]
  /\ polling' = [polling EXCEPT ![m] = None]
  /\ pc' = "listening" /\ cur' = None
  /\ UNCHANGED <<loopback, todo, discard, inflight, connVars, dataVars>>

(* The initial random sleep of a worker ends. *)
Wake(w) ==
  /\ phase[w] = "sleeping"
  /\ phase' = [phase EXCEPT ![w] = "selecting"]
  /\ UNCHANGED <<loopback, listenVars, polling, job, inflight, connVars, dataVars>>

(* Seeded bug: the worker polls once and exits. *)
TickOnce(w) ==
  /\ phase[w] = "selecting"
  /\ inflight[job[w]] < MaxPolls
  /\ inflight' = [inflight EXCEPT ![job[w]] = @ + 1]
  /\ phase' = [phase EXCEPT ![w] = "none"]
  /\ UNCHANGED <<loopback, listenVars, polling, job, connVars, dataVars>>

(* The interval timer of a worker fires: it spawns a poll of what it captured. *)
Tick(w) ==
  /\ phase[w] = "selecting"
  /\ inflight[job[w]] < MaxPolls
  /\ inflight' = [inflight EXCEPT ![job[w]] = @ + 1]
  /\ UNCHANGED <<loopback, listenVars, workerVars, connVars, dataVars>>

-----------------------------------------------------------------------------
(* Polls. *)

(* A poll request for a monitor that is not polling spawns the poll here. *)
PollInactive(j) ==
  /\ Receive(PollMessage(j))
  /\ polling[j.mon] = None
  /\ inflight' = [inflight EXCEPT ![j] = @ + 1]
  /\ UNCHANGED <<listenVars, workerVars, connVars, dataVars>>

(* One for a polling monitor is handed to its worker, a blocking send. *)
PollBegin(j) ==
  /\ Receive(PollMessage(j))
  /\ polling[j.mon] # None
  /\ pc' = "handing"
  /\ cur' = PollMessage(j)
  /\ UNCHANGED <<todo, discard, workerVars, inflight, connVars, dataVars>>

(* The worker takes it, and polls the monitor it captured when it started. *)
PollHandshake(j) ==
  /\ pc = "handing" /\ cur = PollMessage(j)
  /\ phase[polling[j.mon]] = "selecting"
  /\ inflight' = [inflight EXCEPT ![job[polling[j.mon]]] = @ + 1]
  /\ pc' = "listening" /\ cur' = None
  /\ UNCHANGED <<loopback, todo, discard, workerVars, connVars, dataVars>>

(* A poll goroutine is done and sends its measurement. *)
Report(j) ==
  /\ inflight[j] > 0
  /\ Send(MeasurementMessage(j.mon))
  /\ inflight' = [inflight EXCEPT ![j] = @ - 1]
  /\ UNCHANGED <<listenVars, workerVars, connVars, dataVars>>

-----------------------------------------------------------------------------
(* Distribution of a measurement. *)

(* distributeMeasurement begins: the insert is under way. *)
StoreBegin(m) ==
  /\ Receive(MeasurementMessage(m))
  /\ pc' = "storing"
  /\ cur' = MeasurementMessage(m)
  /\ UNCHANGED <<todo, discard, workerVars, inflight, connVars, dataVars>>

(* The row is in; the distributor goes through its subscribers. *)
StoreDone ==
  /\ pc = "storing"
  /\ rows' = IF rows < MaxRows THEN rows + 1 ELSE rows
  /\ pc' = "writing" /\ cur' = None
  /\ todo' = subscribers
  /\ UNCHANGED <<loopback, discard, workerVars, inflight, connVars, settings, feed>>

(* The insert failed: nothing is distributed. *)
StoreFails ==
  /\ pc = "storing"
  /\ pc' = "listening" /\ cur' = None
  /\ UNCHANGED <<loopback, todo, discard, workerVars, inflight, connVars, dataVars>>

(* A write that succeeds; to a peer that is gone it may, for a while. *)
WriteDone(c) ==
  /\ pc = "writing" /\ c \in todo
  /\ net[c] # "stalled"
  /\ feed' = [feed EXCEPT ![c] = rows]
  /\ todo' = todo \ {c}
  /\ UNCHANGED <<loopback, pc, cur, discard, workerVars, inflight, connVars, settings, rows>>

(* Seeded bug: a failed write is not remembered. *)
WriteFailsUnnoticed(c) ==
  /\ pc = "writing" /\ c \in todo
  /\ net[c] = "down"
  /\ todo' = todo \ {c}
  /\ UNCHANGED <<discard, loopback, pc, cur, workerVars, inflight, connVars, dataVars>>

(* A write that fails: the subscriber is kept for the second loop. *)
WriteFails(c) ==
  /\ pc = "writing" /\ c \in todo
  /\ net[c] = "down"
  /\ todo' = todo \ {c}
  /\ discard' = discard \cup {c}
  /\ UNCHANGED <<loopback, pc, cur, workerVars, inflight, connVars, dataVars>>

(* The first loop is over. *)
WritesOver ==
  /\ pc = "writing" /\ todo = {}
  /\ pc' = "discarding"
  /\ UNCHANGED <<loopback, cur, todo, discard, workerVars, inflight, connVars, dataVars>>

(* The distributor sends an UnsubscribeMessage to itself. *)
DiscardOne(c) ==
  /\ pc = "discarding" /\ c \in discard
  /\ Send(UnsubscribeMessage(c))
  /\ discard' = discard \ {c}
  /\ UNCHANGED <<pc, cur, todo, workerVars, inflight, connVars, dataVars>>

(* The second loop is over. *)
DiscardsOver ==
  /\ pc = "discarding" /\ discard = {}
  /\ pc' = "listening"
  /\ UNCHANGED <<loopback, cur, todo, discard, workerVars, inflight, connVars, dataVars>>

(* A SettingsMessage replaces the distributor's copy of the settings. *)
ApplySettings(s) ==
  /\ Receive(SettingsMessage(s))
  /\ settings' = s
  /\ UNCHANGED <<listenVars, workerVars, inflight, connVars, rows, feed>>

-----------------------------------------------------------------------------
(* The environment: request handlers and main send, peers come and go. *)

(* A handler, or main on startup, sends a request. *)
Request ==
  /\ \/ \E j \in Job : Send(StartMessage(j))
     \/ \E m \in Monitors : Send(StopMessage(m))
     \/ \E j \in Job :
          /\ \A k \in Job : k.mon = j.mon => inflight[k] < MaxPolls
          /\ Send(PollMessage(j))
     \/ \E s \in Settings : Send(SettingsMessage(s))
  /\ UNCHANGED <<listenVars, workerVars, inflight, connVars, dataVars>>

(* HandleSubscribe sends a connection it has upgraded. *)
Connect(c) ==
  /\ reader[c] = "none"
  /\ Send(SubscribeMessage(c))
  /\ reader' = [reader EXCEPT ![c] = "upgraded"]
  /\ UNCHANGED <<subscribers, net, closed, listenVars, workerVars, inflight, dataVars>>

(* The peer goes away, stops reading, or reads again. *)
Peer(c, from, to) ==
  /\ reader[c] # "none"
  /\ net[c] \in from
  /\ net' = [net EXCEPT ![c] = to]
  /\ UNCHANGED <<loopback, listenVars, workerVars, inflight, subscribers, reader, closed, dataVars>>

Break(c)  == c \in Fragile /\ Peer(c, {"up", "stalled"}, "down")
Stall(c)  == c \in Slow /\ Peer(c, {"up"}, "stalled")
Resume(c) == Peer(c, {"stalled"}, "up")

-----------------------------------------------------------------------------

(* One step of the distributor goroutine. *)
ListenStep ==
  \/ \E c \in Conns : Subscribe(c) \/ Unsubscribe(c)
  \/ \E j \in Job : StartWorker(j) \/ DropStart(j)
  \/ \E m \in Monitors : StopBegin(m) \/ DropStop(m) \/ StopHandshake(m)
  \/ \E j \in Job : PollInactive(j) \/ PollBegin(j) \/ PollHandshake(j)
  \/ \E m \in Monitors : StoreBegin(m)
  \/ StoreDone \/ StoreFails
  \/ \E c \in Conns : WriteDone(c) \/ WriteFails(c)
  \/ WritesOver
  \/ \E c \in Conns : DiscardOne(c)
  \/ DiscardsOver
  \/ \E s \in Settings : ApplySettings(s)

Next ==
  \/ ListenStep
  \/ \E w \in Workers : Wake(w) \/ Tick(w)
  \/ \E j \in Job : Report(j)
  \/ \E c \in Conns : ReaderExits(c) \/ Connect(c)
  \/ \E c \in Conns : Break(c) \/ Stall(c) \/ Resume(c)
  \/ Request

Spec == Init /\ [][Next]_vars

(* Goroutines that can run do run, timers fire and probes end.  Strong     *)
(* fairness stands for the queue of senders of a Go channel, which is      *)
(* first-in first-out: a goroutine waiting for room gets its turn.  It     *)
(* stands for MaxPolls too, a bound the timers of the code do not have.    *)
(* Nothing is assumed of requests, of peers or of the repository.          *)
Fairness ==
  /\ WF_vars(ListenStep)
  /\ \A w \in Workers : WF_vars(Wake(w)) /\ SF_vars(Tick(w))
  /\ \A j \in Job : SF_vars(Report(j))
  /\ \A c \in Conns : SF_vars(ReaderExits(c))

FairSpec == Spec /\ Fairness

-----------------------------------------------------------------------------
(* Properties. *)

Blocked == {"stopping", "handing", "storing"}

(* Every variable has its type. *)
TypeOK ==
  /\ loopback \in Seq(Message) /\ Len(loopback) <= Capacity
  /\ pc \in {"listening", "writing", "discarding"} \cup Blocked
  /\ cur \in Message \cup {None}
  /\ todo \subseteq Conns /\ discard \subseteq Conns
  /\ polling \in [Monitors -> Workers \cup {None}]
  /\ phase \in [Workers -> {"none", "sleeping", "selecting"}]
  /\ job \in [Workers -> Job \cup {None}]
  /\ inflight \in [Job -> Nat]
  /\ subscribers \subseteq Conns /\ closed \subseteq Conns
  /\ reader \in [Conns -> {"none", "upgraded", "reading", "done"}]
  /\ net \in [Conns -> {"up", "stalled", "down"}]
  /\ settings \in Settings
  /\ rows \in 0 .. MaxRows
  /\ feed \in [Conns -> 0 .. MaxRows]

(* A monitor is polled by one worker at a time, the one whose channel the
   distributor holds: no worker is leaked by stop or start, none is stopped
   that the distributor still believes in, whatever order the requests come. *)
WorkersMatchPolling ==
  /\ \A w \in Workers : phase[w] # "none" =>
        job[w] \in Job /\ polling[job[w].mon] = w
  /\ \A m \in Monitors : polling[m] # None =>
        phase[polling[m]] # "none" /\ job[polling[m]].mon = m

(* While the distributor blocks in a send on a worker's channel, that worker
   is alive and will come to its select: the send is never one nobody takes. *)
WillTake(m) == polling[m] # None /\ phase[polling[m]] \in {"sleeping", "selecting"}

HandshakeHasPartner ==
  /\ pc = "stopping" => \E m \in Monitors : cur = StopMessage(m) /\ WillTake(m)
  /\ pc = "handing" => \E j \in Job : cur = PollMessage(j) /\ WillTake(j.mon)

(* The distributor writes only to connections it has not closed, and every
   connection it has accepted and dropped is closed, not leaked. *)
SubscribersOpen ==
  /\ subscribers \cap closed = {}
  /\ todo \subseteq subscribers /\ discard \subseteq subscribers
  /\ \A c \in Conns : reader[c] = "done" /\ c \notin subscribers => c \in closed

(* A reader that has exited left its UnsubscribeMessage where the distributor
   will find it: no dead connection stays registered with nobody to report it. *)
ReaderGoneIsReported ==
  \A c \in Conns : reader[c] = "done" /\ c \in subscribers =>
    UnsubscribeMessage(c) \in Pending

(* No subscriber misses a row: each has been sent the newest row, or is still
   to be written to, or is known to be broken and its removal is under way. *)
FeedFollowsStore ==
  \A c \in subscribers :
    feed[c] = rows \/ c \in todo \cup discard \/ UnsubscribeMessage(c) \in Pending

(* What the distributor promises, under this mapping: a message the
   distributor blocks on still counts as waiting, and a monitor is started
   with what its worker captured. *)
Notice == Message \ (  {StartMessage(j) : j \in Job} \cup {PollMessage(j) : j \in Job}
                     \cup {StopMessage(m) : m \in Monitors})

Waiting == IF pc \in {"stopping", "handing"} THEN <<cur>> \o loopback ELSE loopback
Captured == [m \in Monitors |-> IF polling[m] = None THEN None ELSE job[polling[m]].cfg]

Promise == INSTANCE Registry WITH
  Notices <- Notice, mailbox <- Waiting, started <- Captured, due <- inflight

ImplementsRegistry == Promise!RegSpec

(* The inductive invariant behind the three feed properties above.  A connection
   is announced to the distributor once, and is registered or closed from the
   moment its reader runs; the two loops of a distribution leave nothing
   behind for the next. *)
AnnouncedOnce ==
  \A c \in Conns :
    /\ SubscribeMessage(c) \in Pending => reader[c] = "upgraded"
    /\ SubscribeMessage(c) \notin Repeated

AcceptedIsKnown ==
  \A c \in Conns : reader[c] \in {"reading", "done"} <=> c \in subscribers \cup closed

LoopsAreOver ==
  /\ pc # "writing" => todo = {}
  /\ pc \notin {"writing", "discarding"} => discard = {}

FeedInv ==
  /\ AnnouncedOnce /\ AcceptedIsKnown /\ LoopsAreOver
  /\ SubscribersOpen /\ ReaderGoneIsReported /\ FeedFollowsStore

(* The distributor returns to its channel again and again:
   "Listen will block and listen for incoming messages" (distributor.go:37). *)
KeepsListening == []<>(pc = "listening")

(* Unless the distributor stops listening, messages of every kind are carried
   out for as long as there are any, the one it blocks on included: what
   MonitorService asks of it before anything a handler writes takes effect. *)
TakesMessages == KeepsListening => Promise!KeepsTaking

(* Unless the distributor stops listening, a stop request in the channel is
   carried out. *)
StopTakesEffect ==
  KeepsListening => \A m \in Monitors :
    StopMessage(m) \in Pending ~> polling[m] = None

(* Unless the distributor stops listening, a monitor that stays started is
   polled for ever, its measurements reaching the distributor. *)
StartedIsPolled ==
  KeepsListening => \A m \in Monitors :
    (<>[](polling[m] # None)) => []<>(pc = "storing" /\ cur = MeasurementMessage(m))

(* Unless the distributor stops listening, a subscriber whose peer is gone is
   dropped and its connection closed. *)
GoneSubscriberDropped ==
  KeepsListening => \A c \in Conns :
    (c \in subscribers /\ net[c] = "down") ~> (c \in closed /\ c \notin subscribers)
=============================================================================
