------------------------- MODULE DistributorProofs -------------------------
(* Proofs of the safety properties of Distributor, for every value of its
   constants: any number of monitors, workers and connections, any capacity. *)
EXTENDS Distributor, TLAPS

-----------------------------------------------------------------------------
(* The messages and the channel. *)

(* Every message the goroutines build is a message. *)
LEMMA MessageTypes ==
  /\ \A j \in Job : StartMessage(j) \in Message /\ PollMessage(j) \in Message
  /\ \A m \in Monitors : StopMessage(m) \in Message /\ MeasurementMessage(m) \in Message
  /\ \A c \in Conns : SubscribeMessage(c) \in Message /\ UnsubscribeMessage(c) \in Message
  /\ \A s \in Settings : SettingsMessage(s) \in Message
BY DEF Message

(* Messages of different kinds differ, and a message determines what it is about. *)
LEMMA MessagesDiffer ==
  /\ \A c, d \in Conns : /\ SubscribeMessage(c) # UnsubscribeMessage(d)
                         /\ SubscribeMessage(c) = SubscribeMessage(d) => c = d
                         /\ UnsubscribeMessage(c) = UnsubscribeMessage(d) => c = d
  /\ \A c \in Conns, j \in Job :
       /\ SubscribeMessage(c) \notin {StartMessage(j), PollMessage(j)}
       /\ UnsubscribeMessage(c) \notin {StartMessage(j), PollMessage(j)}
  /\ \A c \in Conns, m \in Monitors :
       /\ SubscribeMessage(c) \notin {StopMessage(m), MeasurementMessage(m)}
       /\ UnsubscribeMessage(c) \notin {StopMessage(m), MeasurementMessage(m)}
  /\ \A c \in Conns, s \in Settings :
       SettingsMessage(s) \notin {SubscribeMessage(c), UnsubscribeMessage(c)}
  /\ \A m, n \in Monitors : StopMessage(m) = StopMessage(n) => m = n
  /\ \A j, k \in Job : PollMessage(j) = PollMessage(k) => j = k
BY DEF SubscribeMessage, UnsubscribeMessage, StartMessage, PollMessage, StopMessage,
       MeasurementMessage, SettingsMessage

(* A send keeps the channel within its capacity and what was in it. *)
LEMMA SendFacts ==
  ASSUME loopback \in Seq(Message), NEW msg \in Message, Send(msg)
  PROVE  /\ loopback' \in Seq(Message) /\ Len(loopback') <= Capacity
         /\ msg \in Pending'
         /\ \A other : other \in Pending => other \in Pending'
         /\ \A other : other \in Pending' => other \in Pending \/ other = msg
BY CapacityAssumption DEF Send, Pending

(* A receive removes the oldest message and keeps the others. *)
LEMMA ReceiveFacts ==
  ASSUME loopback \in Seq(Message), Len(loopback) <= Capacity,
         NEW msg, Receive(msg)
  PROVE  /\ loopback' \in Seq(Message) /\ Len(loopback') <= Capacity
         /\ msg \in Pending /\ pc = "listening"
         /\ \A other : other \in Pending /\ other # msg => other \in Pending'
         /\ \A other : other \in Pending' => other \in Pending
<1> DEFINE n == Len(loopback)
<1>1. n \in Nat /\ n > 0 /\ Len(loopback') = n - 1 /\ loopback' \in Seq(Message)
  BY DEF Receive
<1>2. loopback[1] = msg
  BY DEF Receive
<1>3. \A i \in 1 .. n - 1 : loopback'[i] = loopback[i + 1]
  BY DEF Receive
<1>4. msg \in Pending /\ pc = "listening"
  BY <1>1, <1>2 DEF Receive, Pending
<1>5. ASSUME NEW other, other \in Pending, other # msg
      PROVE  other \in Pending'
  <2>1. PICK i \in 1 .. n : loopback[i] = other
    BY <1>5 DEF Pending
  <2>2. i - 1 \in 1 .. n - 1
    BY <1>1, <1>2, <1>5, <2>1
  <2>3. loopback'[i - 1] = other
    BY <1>1, <1>3, <2>1, <2>2
  <2> QED BY <1>1, <2>2, <2>3 DEF Pending
<1>6. ASSUME NEW other, other \in Pending'
      PROVE  other \in Pending
  <2>1. PICK i \in 1 .. n - 1 : loopback'[i] = other
    BY <1>1, <1>6 DEF Pending
  <2>2. i + 1 \in 1 .. n /\ loopback[i + 1] = other
    BY <1>1, <1>3, <2>1
  <2> QED BY <2>2 DEF Pending
<1> QED BY <1>1, <1>4, <1>5, <1>6, CapacityAssumption

-----------------------------------------------------------------------------
(* Counting one more poll keeps the type of the counts, whatever is polled. *)
LEMMA CountUp ==
  ASSUME NEW f \in [Job -> Nat], NEW x
  PROVE  [f EXCEPT ![x] = @ + 1] \in [Job -> Nat]
<1> DEFINE g == [f EXCEPT ![x] = @ + 1]
<1>1. \A i \in Job : g[i] = f[i] \/ g[i] = f[i] + 1
  OBVIOUS
<1>2. \A i \in Job : g[i] \in Nat
  BY <1>1
<1>3. g = [i \in Job |-> g[i]]
  OBVIOUS
<1> QED BY <1>2, <1>3

(* Every variable of the distributor keeps its type in every behaviour. *)
THEOREM TypeCorrect == Spec => []TypeOK
<1>1. Init => TypeOK
  BY CapacityAssumption, BoundsAssumption DEF Init, TypeOK
<1>2. TypeOK /\ [Next]_vars => TypeOK'
  <2> SUFFICES ASSUME TypeOK, [Next]_vars PROVE TypeOK'
    OBVIOUS
  <2>1. ASSUME NEW c \in Conns, Subscribe(c) PROVE TypeOK'
    BY <2>1, ReceiveFacts DEF TypeOK, Subscribe, listenVars, workerVars
  <2>2. ASSUME NEW c \in Conns, Unsubscribe(c) PROVE TypeOK'
    BY <2>2, ReceiveFacts DEF TypeOK, Unsubscribe, listenVars, workerVars, dataVars
  <2>3. ASSUME NEW j \in Job, StartWorker(j) PROVE TypeOK'
    BY <2>3, ReceiveFacts DEF TypeOK, StartWorker, Job, listenVars, connVars, dataVars
  <2>4. ASSUME NEW j \in Job, DropStart(j) PROVE TypeOK'
    BY <2>4, ReceiveFacts DEF TypeOK, DropStart, listenVars, workerVars, connVars, dataVars
  <2>5. ASSUME NEW m \in Monitors, StopBegin(m) PROVE TypeOK'
    BY <2>5, ReceiveFacts, MessageTypes DEF TypeOK, StopBegin, Blocked, workerVars, connVars, dataVars
  <2>6. ASSUME NEW m \in Monitors, DropStop(m) PROVE TypeOK'
    BY <2>6, ReceiveFacts DEF TypeOK, DropStop, listenVars, workerVars, connVars, dataVars
  <2>7. ASSUME NEW m \in Monitors, StopHandshake(m) PROVE TypeOK'
    BY <2>7 DEF TypeOK, StopHandshake, connVars, dataVars
  <2>8. ASSUME NEW j \in Job, PollInactive(j) PROVE TypeOK'
    BY <2>8, ReceiveFacts DEF TypeOK, PollInactive, listenVars, workerVars, connVars, dataVars
  <2>9. ASSUME NEW j \in Job, PollBegin(j) PROVE TypeOK'
    BY <2>9, ReceiveFacts, MessageTypes DEF TypeOK, PollBegin, Blocked, workerVars, connVars, dataVars
  <2>10. ASSUME NEW j \in Job, PollHandshake(j) PROVE TypeOK'
    <3>1. inflight' \in [Job -> Nat]
      BY <2>10, CountUp DEF TypeOK, PollHandshake
    <3> QED BY <2>10, <3>1 DEF TypeOK, PollHandshake, workerVars, connVars, dataVars
  <2>11. ASSUME NEW m \in Monitors, StoreBegin(m) PROVE TypeOK'
    BY <2>11, ReceiveFacts, MessageTypes DEF TypeOK, StoreBegin, Blocked, workerVars, connVars, dataVars
  <2>12. ASSUME StoreDone PROVE TypeOK'
    BY <2>12, BoundsAssumption DEF TypeOK, StoreDone, workerVars, connVars
  <2>13. ASSUME StoreFails PROVE TypeOK'
    BY <2>13 DEF TypeOK, StoreFails, workerVars, connVars, dataVars
  <2>14. ASSUME NEW c \in Conns, WriteDone(c) PROVE TypeOK'
    BY <2>14 DEF TypeOK, WriteDone, workerVars, connVars
  <2>15. ASSUME NEW c \in Conns, WriteFails(c) PROVE TypeOK'
    BY <2>15 DEF TypeOK, WriteFails, workerVars, connVars, dataVars
  <2>16. ASSUME WritesOver PROVE TypeOK'
    BY <2>16 DEF TypeOK, WritesOver, workerVars, connVars, dataVars
  <2>17. ASSUME NEW c \in Conns, DiscardOne(c) PROVE TypeOK'
    BY <2>17, SendFacts, MessageTypes DEF TypeOK, DiscardOne, workerVars, connVars, dataVars
  <2>18. ASSUME DiscardsOver PROVE TypeOK'
    BY <2>18 DEF TypeOK, DiscardsOver, workerVars, connVars, dataVars
  <2>19. ASSUME NEW s \in Settings, ApplySettings(s) PROVE TypeOK'
    BY <2>19, ReceiveFacts DEF TypeOK, ApplySettings, listenVars, workerVars, connVars
  <2>20. ASSUME NEW w \in Workers, Wake(w) PROVE TypeOK'
    BY <2>20 DEF TypeOK, Wake, listenVars, connVars, dataVars
  <2>21. ASSUME NEW w \in Workers, Tick(w) PROVE TypeOK'
    <3>1. inflight' \in [Job -> Nat]
      BY <2>21, CountUp DEF TypeOK, Tick
    <3> QED BY <2>21, <3>1 DEF TypeOK, Tick, listenVars, workerVars, connVars, dataVars
  <2>22. ASSUME NEW j \in Job, Report(j) PROVE TypeOK'
    <3>1. j.mon \in Monitors
      BY DEF Job
    <3>2. loopback' \in Seq(Message) /\ Len(loopback') <= Capacity
      BY <2>22, <3>1, SendFacts, MessageTypes DEF TypeOK, Report
    <3>3. inflight' \in [Job -> Nat]
      BY <2>22 DEF TypeOK, Report
    <3> QED BY <2>22, <3>2, <3>3 DEF TypeOK, Report, listenVars, workerVars, connVars, dataVars
  <2>23. ASSUME NEW c \in Conns, ReaderExits(c) PROVE TypeOK'
    BY <2>23, SendFacts, MessageTypes DEF TypeOK, ReaderExits, listenVars, workerVars, dataVars
  <2>24. ASSUME NEW c \in Conns, Connect(c) PROVE TypeOK'
    BY <2>24, SendFacts, MessageTypes DEF TypeOK, Connect, listenVars, workerVars, dataVars
  <2>25. ASSUME NEW c \in Conns, Break(c) \/ Stall(c) \/ Resume(c) PROVE TypeOK'
    BY <2>25 DEF TypeOK, Break, Stall, Resume, Peer, listenVars, workerVars, dataVars
  <2>26. ASSUME Request PROVE TypeOK'
    <3>1. loopback' \in Seq(Message) /\ Len(loopback') <= Capacity
      BY <2>26, SendFacts, MessageTypes DEF TypeOK, Request
    <3> QED BY <2>26, <3>1 DEF TypeOK, Request, listenVars, workerVars, connVars, dataVars
  <2>27. CASE UNCHANGED vars
    BY <2>27 DEF TypeOK, vars, listenVars, workerVars, connVars, dataVars
  <2> QED
    BY <2>1, <2>2, <2>3, <2>4, <2>5, <2>6, <2>7, <2>8, <2>9, <2>10, <2>11, <2>12, <2>13,
       <2>14, <2>15, <2>16, <2>17, <2>18, <2>19, <2>20, <2>21, <2>22, <2>23, <2>24, <2>25,
       <2>26, <2>27 DEF Next, ListenStep
<1> QED BY <1>1, <1>2, PTL DEF Spec

-----------------------------------------------------------------------------
(* Workers.  WorkersMatchPolling is inductive together with
   HandshakeHasPartner: the distributor deletes an entry only in the handshake
   in which the worker exits, and the worker it blocks on cannot exit by
   itself. *)

WorkerInv == WorkersMatchPolling /\ HandshakeHasPartner

(* WorkerInv speaks of nothing but the workers and what the distributor waits
   for, so a step that changes neither keeps it. *)
LEMMA WorkerFrame ==
  ASSUME WorkerInv, UNCHANGED workerVars,
         pc' \notin {"stopping", "handing"}
  PROVE  WorkerInv'
BY DEF WorkerInv, WorkersMatchPolling, HandshakeHasPartner, WillTake, workerVars

(* Nor does one that moves neither the workers nor what the distributor waits for. *)
LEMMA WorkerFrameWaiting ==
  ASSUME WorkerInv, UNCHANGED <<workerVars, pc, cur>>
  PROVE  WorkerInv'
BY DEF WorkerInv, WorkersMatchPolling, HandshakeHasPartner, WillTake, workerVars

(* A start request: the new worker is the only one of its monitor. *)
LEMMA StartKeepsWorkers ==
  ASSUME TypeOK, WorkerInv, NEW j \in Job, StartWorker(j)
  PROVE  WorkerInv'
<1> USE NoneAssumption
<1>1. PICK w \in Workers :
        /\ phase[w] = "none"
        /\ polling' = [polling EXCEPT ![j.mon] = w]
        /\ phase' = [phase EXCEPT ![w] = "sleeping"]
        /\ job' = [job EXCEPT ![w] = j]
  BY DEF StartWorker
<1>2. j.mon \in Monitors /\ polling[j.mon] = None
  BY DEF Job, StartWorker
<1>3. ASSUME NEW v \in Workers, phase'[v] # "none"
      PROVE  job'[v] \in Job /\ polling'[job'[v].mon] = v
  <2>1. CASE v = w
    BY <1>1, <1>2, <2>1 DEF TypeOK
  <2>2. CASE v # w
    <3>1. job'[v] = job[v] /\ job[v] \in Job /\ polling[job[v].mon] = v
      BY <1>1, <1>3, <2>2 DEF TypeOK, WorkerInv, WorkersMatchPolling
    <3>2. job[v].mon \in Monitors /\ job[v].mon # j.mon
      BY <1>2, <3>1 DEF Job
    <3> QED BY <1>1, <3>1, <3>2 DEF TypeOK
  <2> QED BY <2>1, <2>2
<1>4. ASSUME NEW m \in Monitors, polling'[m] # None
      PROVE  phase'[polling'[m]] # "none" /\ job'[polling'[m]].mon = m
  <2>1. CASE m = j.mon
    BY <1>1, <1>2, <2>1 DEF TypeOK
  <2>2. CASE m # j.mon
    BY <1>1, <1>2, <1>4, <2>2 DEF TypeOK, WorkerInv, WorkersMatchPolling
  <2> QED BY <2>1, <2>2
<1>5. pc' = "listening"
  BY DEF StartWorker, Receive, listenVars
<1> QED BY <1>3, <1>4, <1>5 DEF WorkerInv, WorkersMatchPolling, HandshakeHasPartner

(* The stop handshake: the worker and the entry go together. *)
LEMMA StopKeepsWorkers ==
  ASSUME TypeOK, WorkerInv, NEW m \in Monitors, StopHandshake(m)
  PROVE  WorkerInv'
<1> USE NoneAssumption
<1> DEFINE w == polling[m]
<1>1. w \in Workers /\ job[w].mon = m
  BY MessagesDiffer DEF TypeOK, StopHandshake, WorkerInv, WorkersMatchPolling, HandshakeHasPartner, WillTake
<1>2. /\ phase' = [phase EXCEPT ![w] = "none"]
      /\ job' = [job EXCEPT ![w] = None]
      /\ polling' = [polling EXCEPT ![m] = None]
      /\ pc' = "listening"
  BY DEF StopHandshake
<1>3. ASSUME NEW v \in Workers, phase'[v] # "none"
      PROVE  job'[v] \in Job /\ polling'[job'[v].mon] = v
  <2>1. v # w /\ phase[v] # "none"
    BY <1>1, <1>2, <1>3 DEF TypeOK
  <2>2. job'[v] = job[v] /\ job[v] \in Job /\ polling[job[v].mon] = v
    BY <1>2, <2>1 DEF TypeOK, WorkerInv, WorkersMatchPolling
  <2>3. job[v].mon \in Monitors /\ job[v].mon # m
    BY <2>1, <2>2 DEF Job
  <2> QED BY <1>2, <2>2, <2>3 DEF TypeOK
<1>4. ASSUME NEW n \in Monitors, polling'[n] # None
      PROVE  phase'[polling'[n]] # "none" /\ job'[polling'[n]].mon = n
  <2>1. n # m /\ polling'[n] = polling[n] /\ polling[n] \in Workers
    BY <1>2, <1>4 DEF TypeOK
  <2>2. phase[polling[n]] # "none" /\ job[polling[n]].mon = n
    BY <2>1 DEF WorkerInv, WorkersMatchPolling
  <2>3. polling[n] # w
    BY <1>1, <2>1, <2>2
  <2> QED BY <1>2, <2>1, <2>2, <2>3 DEF TypeOK
<1> QED BY <1>2, <1>3, <1>4 DEF WorkerInv, WorkersMatchPolling, HandshakeHasPartner

(* A worker that wakes is still alive. *)
LEMMA WakeKeepsWorkers ==
  ASSUME TypeOK, WorkerInv, NEW w \in Workers, Wake(w)
  PROVE  WorkerInv'
<1>1. /\ \A v \in Workers : phase'[v] # "none" <=> phase[v] # "none"
      /\ \A v \in Workers : phase[v] \in {"sleeping", "selecting"}
                          => phase'[v] \in {"sleeping", "selecting"}
  BY DEF TypeOK, Wake
<1>2. UNCHANGED <<pc, cur, polling, job>>
  BY DEF Wake, listenVars
<1>3. WorkersMatchPolling'
  BY <1>1, <1>2 DEF TypeOK, WorkerInv, WorkersMatchPolling
<1>4. HandshakeHasPartner'
  <2>1. \A m \in Monitors : WillTake(m) => WillTake(m)'
    BY <1>1, <1>2 DEF TypeOK, WillTake
  <2>2. \A j \in Job : j.mon \in Monitors
    BY DEF Job
  <2> QED BY <1>2, <2>1, <2>2 DEF WorkerInv, HandshakeHasPartner
<1> QED BY <1>3, <1>4 DEF WorkerInv

(* The distributor begins to wait only for a worker that is there. *)
LEMMA WaitKeepsWorkers ==
  ASSUME TypeOK, WorkerInv,
         \/ \E m \in Monitors : StopBegin(m)
         \/ \E j \in Job : PollBegin(j)
  PROVE  WorkerInv'
<1>1. UNCHANGED workerVars
  BY DEF StopBegin, PollBegin
<1>2. \A m \in Monitors : polling[m] # None => WillTake(m)'
  BY <1>1 DEF TypeOK, WorkerInv, WorkersMatchPolling, WillTake, workerVars
<1>3. HandshakeHasPartner'
  <2>1. ASSUME NEW m \in Monitors, StopBegin(m) PROVE HandshakeHasPartner'
    BY <1>2, <2>1 DEF StopBegin, HandshakeHasPartner
  <2>2. ASSUME NEW j \in Job, PollBegin(j) PROVE HandshakeHasPartner'
    BY <1>2, <2>2 DEF PollBegin, HandshakeHasPartner, Job
  <2> QED BY <2>1, <2>2
<1>4. WorkersMatchPolling'
  BY <1>1 DEF WorkerInv, WorkersMatchPolling, workerVars
<1> QED BY <1>3, <1>4 DEF WorkerInv

(* No step breaks WorkerInv. *)
LEMMA WorkerStep ==
  ASSUME TypeOK, WorkerInv, [Next]_vars
  PROVE  WorkerInv'
<1>1. ASSUME NEW c \in Conns, Subscribe(c) \/ Unsubscribe(c) \/ WriteDone(c) \/ WriteFails(c)
                              \/ DiscardOne(c)
      PROVE  WorkerInv'
  BY <1>1, WorkerFrame DEF Subscribe, Unsubscribe, WriteDone, WriteFails, DiscardOne, Receive, listenVars
<1>2. ASSUME NEW j \in Job, DropStart(j) \/ PollInactive(j) \/ PollHandshake(j)
      PROVE  WorkerInv'
  BY <1>2, WorkerFrame DEF DropStart, PollInactive, PollHandshake, Receive, listenVars
<1>3. ASSUME NEW m \in Monitors, DropStop(m) \/ StoreBegin(m)
      PROVE  WorkerInv'
  BY <1>3, WorkerFrame DEF DropStop, StoreBegin, Receive, listenVars
<1>4. CASE StoreDone \/ StoreFails \/ WritesOver \/ DiscardsOver
  BY <1>4, WorkerFrame DEF StoreDone, StoreFails, WritesOver, DiscardsOver
<1>5. ASSUME NEW s \in Settings, ApplySettings(s) PROVE WorkerInv'
  BY <1>5, WorkerFrame DEF ApplySettings, Receive, listenVars
<1>6. ASSUME NEW w \in Workers, Tick(w) PROVE WorkerInv'
  BY <1>6, WorkerFrameWaiting DEF Tick, listenVars
<1>7. ASSUME NEW j \in Job, Report(j) PROVE WorkerInv'
  BY <1>7, WorkerFrameWaiting DEF Report, listenVars
<1>8. ASSUME NEW c \in Conns, ReaderExits(c) \/ Connect(c) \/ Break(c) \/ Stall(c) \/ Resume(c)
      PROVE  WorkerInv'
  BY <1>8, WorkerFrameWaiting DEF ReaderExits, Connect, Break, Stall, Resume, Peer, listenVars
<1>9. CASE Request
  BY <1>9, WorkerFrameWaiting DEF Request, listenVars
<1>10. CASE UNCHANGED vars
  BY <1>10, WorkerFrameWaiting DEF vars, listenVars
<1> QED
  BY <1>1, <1>2, <1>3, <1>4, <1>5, <1>6, <1>7, <1>8, <1>9, <1>10, StartKeepsWorkers,
     StopKeepsWorkers, WakeKeepsWorkers, WaitKeepsWorkers DEF Next, ListenStep

(* Initially nothing is polled. *)
LEMMA WorkerInit == Init => WorkerInv
BY DEF Init, WorkerInv, WorkersMatchPolling, HandshakeHasPartner

(* In every behaviour, the live workers are exactly those the distributor
   holds the channel of, one for each polling monitor (distributor.go:117-174). *)
THEOREM OneWorkerPerMonitor == Spec => []WorkersMatchPolling
<1>1. TypeOK /\ WorkerInv /\ [Next]_vars => WorkerInv'
  BY WorkerStep
<1>2. WorkerInv => WorkersMatchPolling
  BY DEF WorkerInv
<1> QED BY <1>1, <1>2, WorkerInit, TypeCorrect, PTL DEF Spec

(* In every behaviour, the distributor blocks only on a worker that will come
   to receive (distributor.go:55 and 172). *)
THEOREM HandshakesComplete == Spec => []HandshakeHasPartner
<1>1. TypeOK /\ WorkerInv /\ [Next]_vars => WorkerInv'
  BY WorkerStep
<1>2. WorkerInv => HandshakeHasPartner
  BY DEF WorkerInv
<1> QED BY <1>1, <1>2, WorkerInit, TypeCorrect, PTL DEF Spec

-----------------------------------------------------------------------------
(* The feed.  FeedInv is inductive: the reader of a connection reports it once,
   so the properties need where every connection is on its way from the
   handler to the distributor and out again. *)

(* A message that is in the channel once is not in it after it is received. *)
LEMMA ReceivedOnce ==
  ASSUME loopback \in Seq(Message), NEW msg, Receive(msg),
         msg \notin Repeated
  PROVE  msg \notin Pending'
<1>1. loopback[1] = msg /\ Len(loopback) \in Nat \ {0}
  BY DEF Receive
<1>2. Len(loopback') = Len(loopback) - 1
  BY DEF Receive
<1>3. \A i \in 1 .. Len(loopback') : loopback'[i] = loopback[i + 1]
  BY <1>2 DEF Receive
<1> QED BY <1>1, <1>2, <1>3 DEF Pending, Repeated

(* Receiving keeps every message that was in the channel once so. *)
LEMMA ReceiveKeepsOnce ==
  ASSUME loopback \in Seq(Message), NEW msg, Receive(msg), NEW other,
         other \notin Repeated
  PROVE  other \notin Repeated'
<1>1. Len(loopback) \in Nat \ {0} /\ Len(loopback') = Len(loopback) - 1
  BY DEF Receive
<1>2. \A i \in 1 .. Len(loopback') : loopback'[i] = loopback[i + 1]
  BY <1>1 DEF Receive
<1> SUFFICES ASSUME NEW i \in 1 .. Len(loopback'), NEW j \in 1 .. Len(loopback'),
                    loopback'[i] = other, loopback'[j] = other
             PROVE  i = j
  BY DEF Repeated
<1>3. i + 1 \in 1 .. Len(loopback) /\ j + 1 \in 1 .. Len(loopback)
  BY <1>1
<1>4. i + 1 = j + 1
  BY <1>2, <1>3 DEF Repeated, Pending
<1> QED BY <1>1, <1>4

(* Sending a message keeps once what was there once, if it was not there yet
   or is another message. *)
LEMMA SendKeepsOnce ==
  ASSUME loopback \in Seq(Message), NEW msg \in Message, Send(msg), NEW other,
         other # msg \/ msg \notin Pending,
         other \notin Repeated
  PROVE  other \notin Repeated'
<1>1. Len(loopback) \in Nat /\ Len(loopback') = Len(loopback) + 1
  BY DEF Send
<1>2. \A i \in 1 .. Len(loopback) : loopback'[i] = loopback[i]
  BY DEF Send
<1>3. loopback'[Len(loopback) + 1] = msg
  BY <1>1 DEF Send
<1> SUFFICES ASSUME NEW i \in 1 .. Len(loopback'), NEW j \in 1 .. Len(loopback'),
                    loopback'[i] = other, loopback'[j] = other
             PROVE  i = j
  BY DEF Repeated
<1>4. CASE other # msg
  BY <1>1, <1>2, <1>3, <1>4 DEF Repeated, Pending
<1>5. CASE msg \notin Pending
  BY <1>1, <1>2, <1>3, <1>5 DEF Pending, Repeated
<1> QED BY <1>4, <1>5

(* FeedInv does not see a step that leaves the subscribers, their readers and
   the loops alone and neither adds nor loses a message about a connection. *)
LEMMA FeedFrame ==
  ASSUME TypeOK, FeedInv, UNCHANGED <<subscribers, reader, closed, todo, discard, rows, feed>>,
         \A c \in Conns : /\ UnsubscribeMessage(c) \in Pending => UnsubscribeMessage(c) \in Pending'
                          /\ SubscribeMessage(c) \in Pending' => SubscribeMessage(c) \in Pending
                          /\ SubscribeMessage(c) \notin Repeated',
         LoopsAreOver'
  PROVE  FeedInv'
<1>1. AnnouncedOnce' /\ AcceptedIsKnown'
  BY DEF SubscribeMessage, UnsubscribeMessage, FeedInv, AnnouncedOnce, AcceptedIsKnown
<1>2. SubscribersOpen' /\ ReaderGoneIsReported'
  BY DEF UnsubscribeMessage, FeedInv, SubscribersOpen, ReaderGoneIsReported
<1>3. FeedFollowsStore'
  <2> SUFFICES ASSUME NEW c \in Conns, c \in subscribers
               PROVE  feed[c] = rows \/ c \in todo \cup discard
                        \/ UnsubscribeMessage(c) \in Pending'
    BY DEF UnsubscribeMessage, TypeOK, FeedFollowsStore
  <2> QED BY DEF FeedInv, FeedFollowsStore
<1> QED BY <1>1, <1>2, <1>3 DEF FeedInv

(* Receiving a message about anything but a connection. *)
LEMMA FeedReceive ==
  ASSUME TypeOK, FeedInv, NEW msg, Receive(msg),
         \A c \in Conns : msg # SubscribeMessage(c) /\ msg # UnsubscribeMessage(c),
         UNCHANGED <<subscribers, reader, closed, todo, discard, rows, feed>>
  PROVE  FeedInv'
<1>1. \A c \in Conns : /\ UnsubscribeMessage(c) \in Pending => UnsubscribeMessage(c) \in Pending'
                       /\ SubscribeMessage(c) \in Pending' => SubscribeMessage(c) \in Pending
                       /\ SubscribeMessage(c) \notin Repeated'
  BY ReceiveFacts, ReceiveKeepsOnce DEF TypeOK, FeedInv, AnnouncedOnce
<1>2. LoopsAreOver'
  BY DEF FeedInv, LoopsAreOver, Receive
<1> QED BY <1>1, <1>2, FeedFrame

(* Sending one. *)
LEMMA FeedSend ==
  ASSUME TypeOK, FeedInv, NEW msg \in Message, Send(msg),
         \A c \in Conns : msg # SubscribeMessage(c) /\ msg # UnsubscribeMessage(c),
         UNCHANGED <<pc, subscribers, reader, closed, todo, discard, rows, feed>>
  PROVE  FeedInv'
<1>1. \A c \in Conns : /\ UnsubscribeMessage(c) \in Pending => UnsubscribeMessage(c) \in Pending'
                       /\ SubscribeMessage(c) \in Pending' => SubscribeMessage(c) \in Pending
                       /\ SubscribeMessage(c) \notin Repeated'
  BY SendFacts, SendKeepsOnce DEF TypeOK, FeedInv, AnnouncedOnce
<1>2. LoopsAreOver'
  BY DEF FeedInv, LoopsAreOver
<1> QED BY <1>1, <1>2, FeedFrame

(* A step that leaves the channel alone. *)
LEMMA FeedQuiet ==
  ASSUME TypeOK, FeedInv, UNCHANGED <<loopback, subscribers, reader, closed, todo, discard, rows, feed>>,
         LoopsAreOver'
  PROVE  FeedInv'
BY FeedFrame DEF FeedInv, AnnouncedOnce, Pending, Repeated

(* A connection is registered. *)
LEMMA FeedSubscribe ==
  ASSUME TypeOK, FeedInv, NEW c \in Conns, Subscribe(c)
  PROVE  FeedInv'
<1>1. /\ Receive(SubscribeMessage(c)) /\ pc = "listening"
      /\ subscribers' = subscribers \cup {c}
      /\ reader' = [reader EXCEPT ![c] = "reading"]
      /\ feed' = [feed EXCEPT ![c] = rows]
      /\ UNCHANGED <<pc, todo, discard, closed, rows>>
  BY DEF Subscribe, Receive, listenVars
<1>2. \A d \in Conns : /\ UnsubscribeMessage(d) \in Pending => UnsubscribeMessage(d) \in Pending'
                       /\ SubscribeMessage(d) \in Pending' => SubscribeMessage(d) \in Pending
                       /\ SubscribeMessage(d) \notin Repeated'
  BY <1>1, ReceiveFacts, ReceiveKeepsOnce, MessagesDiffer DEF TypeOK, FeedInv, AnnouncedOnce
<1>3. SubscribeMessage(c) \notin Pending'
  BY <1>1, ReceivedOnce DEF TypeOK, FeedInv, AnnouncedOnce
<1>4. reader[c] = "upgraded"
  BY <1>1, ReceiveFacts DEF TypeOK, FeedInv, AnnouncedOnce
<1>5. c \notin closed /\ c \notin subscribers
  BY <1>4 DEF FeedInv, AcceptedIsKnown
<1>6. AnnouncedOnce' /\ AcceptedIsKnown' /\ LoopsAreOver'
  BY <1>1, <1>2, <1>3 DEF SubscribeMessage, UnsubscribeMessage, TypeOK, FeedInv, AnnouncedOnce, AcceptedIsKnown, LoopsAreOver
<1>7. SubscribersOpen' /\ ReaderGoneIsReported' /\ FeedFollowsStore'
  BY <1>1, <1>2, <1>5
     DEF TypeOK, FeedInv, SubscribersOpen, ReaderGoneIsReported, FeedFollowsStore
<1> QED BY <1>6, <1>7 DEF FeedInv

(* A connection is closed and forgotten. *)
LEMMA FeedUnsubscribe ==
  ASSUME TypeOK, FeedInv, NEW c \in Conns, Unsubscribe(c)
  PROVE  FeedInv'
<1>1. /\ Receive(UnsubscribeMessage(c)) /\ pc = "listening"
      /\ subscribers' = subscribers \ {c}
      /\ closed' = IF c \in subscribers THEN closed \cup {c} ELSE closed
      /\ UNCHANGED <<pc, reader, todo, discard, rows, feed>>
  BY DEF SubscribeMessage, UnsubscribeMessage, Unsubscribe, Receive, listenVars, dataVars
<1>2. \A d \in Conns : /\ d # c /\ UnsubscribeMessage(d) \in Pending => UnsubscribeMessage(d) \in Pending'
                       /\ SubscribeMessage(d) \in Pending' => SubscribeMessage(d) \in Pending
                       /\ SubscribeMessage(d) \notin Repeated'
  BY <1>1, ReceiveFacts, ReceiveKeepsOnce, MessagesDiffer DEF TypeOK, FeedInv, AnnouncedOnce
<1>3. todo = {} /\ discard = {}
  BY <1>1 DEF FeedInv, LoopsAreOver
<1>4. AnnouncedOnce' /\ AcceptedIsKnown' /\ LoopsAreOver'
  BY <1>1, <1>2 DEF SubscribeMessage, UnsubscribeMessage, FeedInv, AnnouncedOnce, AcceptedIsKnown, LoopsAreOver
<1>5. SubscribersOpen'
  BY <1>1, <1>3 DEF TypeOK, FeedInv, SubscribersOpen
<1>6. ReaderGoneIsReported'
  BY <1>1, <1>2 DEF UnsubscribeMessage, FeedInv, ReaderGoneIsReported
<1>7. FeedFollowsStore'
  BY <1>1, <1>2 DEF UnsubscribeMessage, TypeOK, FeedInv, FeedFollowsStore
<1> QED BY <1>4, <1>5, <1>6, <1>7 DEF FeedInv

(* A reader, or the distributor itself, reports a connection. *)
LEMMA FeedReport ==
  ASSUME TypeOK, FeedInv, NEW c \in Conns, ReaderExits(c) \/ DiscardOne(c)
  PROVE  FeedInv'
<1>1. Send(UnsubscribeMessage(c)) /\ UNCHANGED <<pc, subscribers, closed, todo, rows, feed>>
  BY DEF SubscribeMessage, UnsubscribeMessage, ReaderExits, DiscardOne, listenVars, connVars, dataVars
<1>2. \A d \in Conns : /\ UnsubscribeMessage(d) \in Pending => UnsubscribeMessage(d) \in Pending'
                       /\ SubscribeMessage(d) \in Pending' => SubscribeMessage(d) \in Pending
                       /\ SubscribeMessage(d) \notin Repeated'
  BY <1>1, SendFacts, SendKeepsOnce, MessageTypes, MessagesDiffer DEF TypeOK, FeedInv, AnnouncedOnce
<1>3. UnsubscribeMessage(c) \in Pending'
  BY <1>1, SendFacts, MessageTypes DEF TypeOK
<1>4. CASE ReaderExits(c)
  <2>1. /\ reader[c] = "reading" /\ discard' = discard
        /\ reader' = [reader EXCEPT ![c] = "done"]
    BY <1>4 DEF ReaderExits, listenVars
  <2>2. AnnouncedOnce' /\ AcceptedIsKnown' /\ LoopsAreOver'
    BY <1>1, <1>2, <2>1 DEF SubscribeMessage, UnsubscribeMessage, TypeOK, FeedInv, AnnouncedOnce, AcceptedIsKnown, LoopsAreOver
  <2>3. SubscribersOpen' /\ ReaderGoneIsReported' /\ FeedFollowsStore'
    BY <1>1, <1>2, <1>3, <2>1
       DEF TypeOK, FeedInv, AcceptedIsKnown, SubscribersOpen, ReaderGoneIsReported, FeedFollowsStore
  <2> QED BY <2>2, <2>3 DEF FeedInv
<1>5. CASE DiscardOne(c)
  <2>1. pc = "discarding" /\ discard' = discard \ {c} /\ reader' = reader
    BY <1>5 DEF SubscribeMessage, UnsubscribeMessage, DiscardOne, connVars
  <2>2. AnnouncedOnce' /\ AcceptedIsKnown' /\ LoopsAreOver'
    BY <1>1, <1>2, <2>1 DEF SubscribeMessage, UnsubscribeMessage, FeedInv, AnnouncedOnce, AcceptedIsKnown, LoopsAreOver
  <2>3. SubscribersOpen' /\ ReaderGoneIsReported'
    BY <1>1, <1>2, <2>1 DEF UnsubscribeMessage, FeedInv, SubscribersOpen, ReaderGoneIsReported
  <2>4. FeedFollowsStore'
    BY <1>1, <1>2, <1>3, <2>1 DEF UnsubscribeMessage, TypeOK, FeedInv, FeedFollowsStore
  <2> QED BY <2>2, <2>3, <2>4 DEF FeedInv
<1> QED BY <1>4, <1>5

(* A handler announces a connection, for the first time. *)
LEMMA FeedConnect ==
  ASSUME TypeOK, FeedInv, NEW c \in Conns, Connect(c)
  PROVE  FeedInv'
<1>1. /\ Send(SubscribeMessage(c)) /\ reader[c] = "none"
      /\ reader' = [reader EXCEPT ![c] = "upgraded"]
      /\ UNCHANGED <<pc, subscribers, closed, todo, discard, rows, feed>>
  BY DEF Connect, listenVars, dataVars
<1>2. SubscribeMessage(c) \notin Pending
  BY <1>1 DEF FeedInv, AnnouncedOnce
<1>3. \A d \in Conns : /\ UnsubscribeMessage(d) \in Pending => UnsubscribeMessage(d) \in Pending'
                       /\ d # c /\ SubscribeMessage(d) \in Pending' => SubscribeMessage(d) \in Pending
                       /\ SubscribeMessage(d) \notin Repeated'
  BY <1>1, <1>2, SendFacts, SendKeepsOnce, MessageTypes, MessagesDiffer
     DEF TypeOK, FeedInv, AnnouncedOnce
<1>4. AnnouncedOnce' /\ AcceptedIsKnown' /\ LoopsAreOver'
  BY <1>1, <1>3 DEF SubscribeMessage, UnsubscribeMessage, TypeOK, FeedInv, AnnouncedOnce, AcceptedIsKnown, LoopsAreOver
<1>5. SubscribersOpen' /\ ReaderGoneIsReported' /\ FeedFollowsStore'
  BY <1>1, <1>3 DEF SubscribeMessage, UnsubscribeMessage, TypeOK, FeedInv, SubscribersOpen, ReaderGoneIsReported, FeedFollowsStore
<1> QED BY <1>4, <1>5 DEF FeedInv

(* The distribution of a measurement. *)
LEMMA FeedDistribute ==
  ASSUME TypeOK, FeedInv,
         StoreDone \/ (\E c \in Conns : WriteDone(c) \/ WriteFails(c))
  PROVE  FeedInv'
<1>1. UNCHANGED <<loopback, subscribers, reader, closed>>
  BY DEF StoreDone, WriteDone, WriteFails, connVars
<1>2. AnnouncedOnce' /\ AcceptedIsKnown'
  BY <1>1 DEF SubscribeMessage, UnsubscribeMessage, FeedInv, AnnouncedOnce, Pending, Repeated, AcceptedIsKnown
<1>3. ReaderGoneIsReported'
  BY <1>1 DEF FeedInv, ReaderGoneIsReported, Pending
<1>4. CASE StoreDone
  BY <1>1, <1>2, <1>3, <1>4
     DEF StoreDone, FeedInv, LoopsAreOver, SubscribersOpen, FeedFollowsStore
<1>5. ASSUME NEW c \in Conns, WriteDone(c) \/ WriteFails(c)
      PROVE  FeedInv'
  <2>1. /\ pc = "writing" /\ c \in todo /\ todo' = todo \ {c}
        /\ \/ feed' = [feed EXCEPT ![c] = rows] /\ discard' = discard
           \/ feed' = feed /\ discard' = discard \cup {c}
        /\ UNCHANGED <<pc, rows>>
    BY <1>5 DEF WriteDone, WriteFails, dataVars
  <2>2. LoopsAreOver' /\ SubscribersOpen'
    BY <1>1, <2>1 DEF FeedInv, LoopsAreOver, SubscribersOpen
  <2>3. FeedFollowsStore'
    BY <1>1, <2>1 DEF TypeOK, FeedInv, FeedFollowsStore, SubscribersOpen, Pending
  <2> QED BY <1>2, <1>3, <2>2, <2>3 DEF FeedInv
<1> QED BY <1>4, <1>5

(* No step breaks FeedInv. *)
LEMMA FeedStep ==
  ASSUME TypeOK, FeedInv, [Next]_vars
  PROVE  FeedInv'
<1>1. ASSUME NEW j \in Job, StartWorker(j) \/ DropStart(j) \/ PollInactive(j) \/ PollBegin(j)
      PROVE  FeedInv'
  BY <1>1, FeedReceive, MessagesDiffer
     DEF StartWorker, DropStart, PollInactive, PollBegin, listenVars, connVars, dataVars
<1>2. ASSUME NEW m \in Monitors, StopBegin(m) \/ DropStop(m) \/ StoreBegin(m)
      PROVE  FeedInv'
  BY <1>2, FeedReceive, MessagesDiffer
     DEF StopBegin, DropStop, StoreBegin, listenVars, connVars, dataVars
<1>3. ASSUME NEW s \in Settings, ApplySettings(s) PROVE FeedInv'
  BY <1>3, FeedReceive, MessagesDiffer DEF ApplySettings, listenVars, connVars
<1>4. ASSUME NEW m \in Monitors, StopHandshake(m) PROVE FeedInv'
  BY <1>4, FeedQuiet DEF StopHandshake, connVars, dataVars, FeedInv, LoopsAreOver
<1>5. ASSUME NEW j \in Job, PollHandshake(j) PROVE FeedInv'
  BY <1>5, FeedQuiet DEF PollHandshake, connVars, dataVars, FeedInv, LoopsAreOver
<1>6. CASE StoreFails \/ WritesOver \/ DiscardsOver
  BY <1>6, FeedQuiet
     DEF StoreFails, WritesOver, DiscardsOver, connVars, dataVars, FeedInv, LoopsAreOver
<1>7. ASSUME NEW w \in Workers, Wake(w) \/ Tick(w) PROVE FeedInv'
  BY <1>7, FeedQuiet DEF Wake, Tick, listenVars, connVars, dataVars, FeedInv, LoopsAreOver
<1>8. ASSUME NEW c \in Conns, Break(c) \/ Stall(c) \/ Resume(c) PROVE FeedInv'
  BY <1>8, FeedQuiet DEF Break, Stall, Resume, Peer, listenVars, dataVars, FeedInv, LoopsAreOver
<1>9. ASSUME NEW j \in Job, Report(j) PROVE FeedInv'
  <2>1. j.mon \in Monitors
    BY DEF Job
  <2> QED BY <1>9, <2>1, FeedSend, MessageTypes, MessagesDiffer
          DEF Report, listenVars, connVars, dataVars
<1>10. CASE Request
  BY <1>10, FeedSend, MessageTypes, MessagesDiffer DEF Request, listenVars, connVars, dataVars
<1>11. CASE UNCHANGED vars
  BY <1>11, FeedQuiet DEF vars, listenVars, connVars, dataVars, FeedInv, LoopsAreOver
<1> QED
  BY <1>1, <1>2, <1>3, <1>4, <1>5, <1>6, <1>7, <1>8, <1>9, <1>10, <1>11, FeedSubscribe,
     FeedUnsubscribe, FeedReport, FeedConnect, FeedDistribute DEF Next, ListenStep

(* Initially there is no subscriber. *)
LEMMA FeedInit == Init => FeedInv
BY DEF Init, FeedInv, AnnouncedOnce, Pending, Repeated, AcceptedIsKnown, LoopsAreOver,
       SubscribersOpen, ReaderGoneIsReported, FeedFollowsStore

(* FeedInv holds in every behaviour (distributor.go:70-114 and 177-202). *)
THEOREM FeedCorrect == Spec => []FeedInv
<1>1. TypeOK /\ FeedInv /\ [Next]_vars => FeedInv'
  BY FeedStep
<1> QED BY <1>1, FeedInit, TypeCorrect, PTL DEF Spec

(* In every behaviour the distributor writes only to connections it has not
   closed, and closes every connection it drops. *)
THEOREM SubscribersStayOpen == Spec => []SubscribersOpen
<1>1. FeedInv => SubscribersOpen
  BY DEF FeedInv
<1> QED BY <1>1, FeedCorrect, PTL

(* In every behaviour, a connection whose reader is gone is reported. *)
THEOREM GoneReadersAreReported == Spec => []ReaderGoneIsReported
<1>1. FeedInv => ReaderGoneIsReported
  BY DEF FeedInv
<1> QED BY <1>1, FeedCorrect, PTL

(* In every behaviour, no subscriber misses a row unless it is being dropped. *)
THEOREM NoRowMissed == Spec => []FeedFollowsStore
<1>1. FeedInv => FeedFollowsStore
  BY DEF FeedInv
<1> QED BY <1>1, FeedCorrect, PTL

-----------------------------------------------------------------------------
(* Distributor implements Registry: every step of its goroutines is a step of
   the promise, or none. *)

Concrete == TypeOK /\ WorkerInv

-----------------------------------------------------------------------------
(* What waits. *)

(* The message the distributor blocks on is a message. *)
LEMMA BlockedOnMessage ==
  ASSUME Concrete, pc \in {"stopping", "handing"}
  PROVE  cur \in Message
BY MessageTypes DEF Concrete, WorkerInv, HandshakeHasPartner

(* A send adds the message to what waits. *)
LEMMA SendPuts ==
  ASSUME Concrete, NEW msg \in Message, Send(msg), UNCHANGED <<pc, cur>>
  PROVE  Waiting' = Append(Waiting, msg)
<1>1. loopback \in Seq(Message) /\ loopback' = Append(loopback, msg)
  BY DEF Concrete, TypeOK, Send
<1>2. CASE pc \in {"stopping", "handing"}
  <2>1. cur \in Message
    BY <1>2, BlockedOnMessage
  <2>2. <<cur>> \o Append(loopback, msg) = Append(<<cur>> \o loopback, msg)
    BY <1>1, <2>1
  <2> QED BY <1>1, <1>2, <2>2 DEF Waiting
<1>3. CASE pc \notin {"stopping", "handing"}
  BY <1>1, <1>3 DEF Waiting
<1> QED BY <1>2, <1>3

(* A message received and dealt with at once is taken from what waits. *)
LEMMA ReceiveTakes ==
  ASSUME NEW msg, Receive(msg), pc' \notin {"stopping", "handing"}
  PROVE  Promise!Take(msg)
BY DEF Receive, Waiting, Promise!Take

(* A message the distributor blocks on is still waiting. *)
LEMMA ReceiveHolds ==
  ASSUME Concrete, NEW msg, Receive(msg), cur' = msg, pc' \in {"stopping", "handing"}
  PROVE  Waiting' = Waiting
<1>1. loopback \in Seq(Message) /\ loopback # <<>> /\ pc = "listening"
  BY DEF Concrete, TypeOK, Receive
<1>2. <<Head(loopback)>> \o Tail(loopback) = loopback
  BY <1>1
<1> QED BY <1>1, <1>2 DEF Receive, Waiting

(* It is taken when the handshake is over. *)
LEMMA HandshakeTakes ==
  ASSUME Concrete, pc \in {"stopping", "handing"}, pc' = "listening", loopback' = loopback
  PROVE  Promise!Take(cur)
<1>1. loopback \in Seq(Message) /\ cur \in Message
  BY BlockedOnMessage DEF Concrete, TypeOK
<1>2. /\ <<cur>> \o loopback # <<>>
      /\ Head(<<cur>> \o loopback) = cur
      /\ Tail(<<cur>> \o loopback) = loopback
  BY <1>1
<1> QED BY <1>2 DEF Waiting, Promise!Take

-----------------------------------------------------------------------------
(* The steps. *)

(* The kinds of messages are the same in both modules. *)
LEMMA SameMessages ==
  /\ Promise!Job = Job
  /\ \A j \in Job : Promise!StartMessage(j) = StartMessage(j) /\ Promise!PollMessage(j) = PollMessage(j)
  /\ \A m \in Monitors : Promise!StopMessage(m) = StopMessage(m)
  /\ Promise!Message = Message
<1>1. Promise!Job = Job
  BY DEF Job, Promise!Job
<1>2. /\ \A j : Promise!StartMessage(j) = StartMessage(j) /\ Promise!PollMessage(j) = PollMessage(j)
      /\ \A m : Promise!StopMessage(m) = StopMessage(m)
  BY DEF StartMessage, PollMessage, StopMessage,
         Promise!StartMessage, Promise!PollMessage, Promise!StopMessage
<1>3. {StartMessage(j) : j \in Job} \cup {PollMessage(j) : j \in Job}
        \cup {StopMessage(m) : m \in Monitors} \subseteq Message
  BY MessageTypes
<1>4. Promise!Message = Message
  BY <1>1, <1>2, <1>3 DEF Promise!Message, Notice
<1> QED BY <1>1, <1>2, <1>4

(* Messages about connections, measurements and settings are notices. *)
LEMMA Notices ==
  /\ \A c \in Conns : SubscribeMessage(c) \in Notice /\ UnsubscribeMessage(c) \in Notice
  /\ \A m \in Monitors : MeasurementMessage(m) \in Notice
  /\ \A s \in Settings : SettingsMessage(s) \in Notice
BY MessageTypes DEF Notice, SubscribeMessage, UnsubscribeMessage, MeasurementMessage,
   SettingsMessage, StartMessage, StopMessage, PollMessage

(* A step that changes nothing the promise sees. *)
LEMMA Stutters ==
  ASSUME UNCHANGED <<loopback, pc, cur, polling, job, inflight>>
  PROVE  UNCHANGED Promise!regVars
BY DEF Promise!regVars, Waiting, Captured

(* So is one that moves the distributor between steps of a distribution. *)
LEMMA StuttersUnblocked ==
  ASSUME UNCHANGED <<loopback, polling, job, inflight>>,
         pc \notin {"stopping", "handing"}, pc' \notin {"stopping", "handing"}
  PROVE  UNCHANGED Promise!regVars
BY DEF Promise!regVars, Waiting, Captured

(* A message about nothing the promise keeps. *)
LEMMA NoticeTaken ==
  ASSUME Concrete, NEW msg \in Notice, Receive(msg), pc' \notin {"stopping", "handing"},
         UNCHANGED <<polling, job, inflight>>
  PROVE  Promise!RegNext
BY ReceiveTakes DEF Promise!RegNext, Promise!RegApply, Promise!ApplyNotice, Captured

(* A message sent by anyone. *)
LEMMA Accepted ==
  ASSUME Concrete, NEW msg \in Message, Send(msg), UNCHANGED <<pc, cur, polling, job, inflight>>
  PROVE  Promise!RegNext
BY SendPuts, SameMessages DEF Promise!RegNext, Promise!Accept, Promise!Put, Captured

(* The monitor of a live worker counts as started, with what it captured. *)
LEMMA LiveIsStarted ==
  ASSUME Concrete, NEW w \in Workers, phase[w] # "none"
  PROVE  /\ job[w].mon \in Monitors /\ job[w] \in Job
         /\ Captured[job[w].mon] = job[w].cfg /\ Captured[job[w].mon] # None
         /\ job[w] = [mon |-> job[w].mon, cfg |-> Captured[job[w].mon]]
<1>1. job[w] \in Job /\ polling[job[w].mon] = w
  BY DEF Concrete, WorkerInv, WorkersMatchPolling
<1>2. job[w].mon \in Monitors /\ job[w].cfg \in Configs
  BY <1>1 DEF Job
<1>3. Captured[job[w].mon] = job[w].cfg
  BY <1>1, <1>2, NoneAssumption DEF Captured
<1>4. job[w] = [mon |-> job[w].mon, cfg |-> job[w].cfg]
  BY <1>1 DEF Job
<1> QED BY <1>1, <1>2, <1>3, <1>4, NoneAssumption

(* A start. *)
LEMMA StartImplements ==
  ASSUME Concrete, NEW j \in Job, StartWorker(j) \/ DropStart(j)
  PROVE  Promise!RegNext
<1>1. j.mon \in Monitors /\ j.cfg \in Configs
  BY DEF Job
<1>2. Promise!Take(StartMessage(j)) /\ inflight' = inflight
  BY ReceiveTakes DEF StartWorker, DropStart, Receive, listenVars
<1>3. CASE StartWorker(j)
  <2>1. PICK w \in Workers :
          /\ phase[w] = "none"
          /\ polling' = [polling EXCEPT ![j.mon] = w]
          /\ job' = [job EXCEPT ![w] = j]
    BY <1>3 DEF StartWorker
  <2>2. polling[j.mon] = None /\ Captured[j.mon] = None
    BY <1>1, <1>3 DEF StartWorker, Captured
  <2>3. \A m \in Monitors : m # j.mon =>
          (IF polling'[m] = None THEN None ELSE job'[polling'[m]].cfg) = Captured[m]
    <3> SUFFICES ASSUME NEW m \in Monitors, m # j.mon
                 PROVE  (IF polling'[m] = None THEN None ELSE job'[polling'[m]].cfg) = Captured[m]
      OBVIOUS
    <3>1. polling'[m] = polling[m]
      BY <2>1 DEF Concrete, TypeOK
    <3>2. polling[m] # None => polling[m] \in Workers /\ polling[m] # w
      BY <2>1 DEF Concrete, TypeOK, WorkerInv, WorkersMatchPolling
    <3> QED BY <2>1, <3>1, <3>2 DEF Concrete, TypeOK, Captured
  <2>4. (IF polling'[j.mon] = None THEN None ELSE job'[polling'[j.mon]].cfg) = j.cfg
    BY <1>1, <2>1, NoneAssumption DEF Concrete, TypeOK
  <2>5. Captured' = [Captured EXCEPT ![j.mon] = j.cfg]
    BY <1>1, <2>3, <2>4 DEF Captured
  <2> QED BY <1>2, <2>2, <2>5, SameMessages
          DEF Promise!RegNext, Promise!RegApply, Promise!ApplyStart
<1>4. CASE DropStart(j)
  <2>1. polling[j.mon] \in Workers /\ phase[polling[j.mon]] # "none"
    BY <1>1, <1>4 DEF DropStart, Concrete, TypeOK, WorkerInv, WorkersMatchPolling
  <2>2. job[polling[j.mon]].mon = j.mon
    BY <1>1, <1>4 DEF DropStart, Concrete, WorkerInv, WorkersMatchPolling
  <2>3. Captured[j.mon] # None
    BY <2>1, <2>2, LiveIsStarted
  <2>4. Captured' = Captured
    BY <1>4 DEF DropStart, workerVars, Captured
  <2> QED BY <1>2, <2>3, <2>4, SameMessages
          DEF Promise!RegNext, Promise!RegApply, Promise!ApplyStart
<1> QED BY <1>3, <1>4

(* A stop, when the worker takes it or when there is none. *)
LEMMA StopImplements ==
  ASSUME Concrete, NEW m \in Monitors, StopHandshake(m) \/ DropStop(m)
  PROVE  Promise!RegNext
<1>1. CASE StopHandshake(m)
  <2>1. Promise!Take(StopMessage(m)) /\ inflight' = inflight
    BY <1>1, HandshakeTakes DEF StopHandshake
  <2>2. polling[m] \in Workers /\ job[polling[m]].mon = m
    BY <1>1, MessagesDiffer, NoneAssumption
       DEF StopHandshake, Concrete, TypeOK, WorkerInv, WorkersMatchPolling, HandshakeHasPartner, WillTake
  <2>3. \A n \in Monitors : n # m =>
          (IF polling'[n] = None THEN None ELSE job'[polling'[n]].cfg) = Captured[n]
    <3> SUFFICES ASSUME NEW n \in Monitors, n # m
                 PROVE  (IF polling'[n] = None THEN None ELSE job'[polling'[n]].cfg) = Captured[n]
      OBVIOUS
    <3>1. polling'[n] = polling[n]
      BY <1>1 DEF StopHandshake, Concrete, TypeOK
    <3>2. polling[n] # None => polling[n] \in Workers /\ polling[n] # polling[m]
      BY <2>2 DEF Concrete, TypeOK, WorkerInv, WorkersMatchPolling
    <3> QED BY <1>1, <3>1, <3>2 DEF StopHandshake, Concrete, TypeOK, Captured
  <2>4. polling'[m] = None
    BY <1>1 DEF StopHandshake, Concrete, TypeOK
  <2>5. Captured' = [Captured EXCEPT ![m] = None]
    BY <2>3, <2>4 DEF Captured
  <2> QED BY <2>1, <2>5, SameMessages DEF Promise!RegNext, Promise!RegApply, Promise!ApplyStop
<1>2. CASE DropStop(m)
  <2>1. Promise!Take(StopMessage(m)) /\ inflight' = inflight
    BY <1>2, ReceiveTakes DEF DropStop, Receive, listenVars
  <2>2. Captured[m] = None /\ Captured' = Captured
    BY <1>2 DEF DropStop, workerVars, Captured
  <2>3. Captured' = [Captured EXCEPT ![m] = None]
    BY <2>2 DEF Captured
  <2> QED BY <2>1, <2>3, SameMessages DEF Promise!RegNext, Promise!RegApply, Promise!ApplyStop
<1> QED BY <1>1, <1>2

(* A poll request, when the worker takes it or when there is none. *)
LEMMA PollImplements ==
  ASSUME Concrete, NEW j \in Job, PollHandshake(j) \/ PollInactive(j)
  PROVE  Promise!RegNext
<1>1. j.mon \in Monitors
  BY DEF Job
<1>2. Promise!Take(PollMessage(j)) /\ Captured' = Captured
  <2>1. CASE PollHandshake(j)
    BY <2>1, HandshakeTakes DEF PollHandshake, workerVars, Captured
  <2>2. CASE PollInactive(j)
    BY <2>2, ReceiveTakes DEF PollInactive, Receive, listenVars, workerVars, Captured
  <2> QED BY <2>1, <2>2
<1>3. inflight' = [inflight EXCEPT ![Promise!Polled(j)] = @ + 1]
  <2>1. CASE PollHandshake(j)
    <3>1. phase[polling[j.mon]] = "selecting" /\ polling[j.mon] \in Workers
          /\ job[polling[j.mon]].mon = j.mon
      BY <1>1, <2>1, MessagesDiffer, NoneAssumption
         DEF PollHandshake, Concrete, TypeOK, WorkerInv, WorkersMatchPolling, HandshakeHasPartner, WillTake
    <3>2. Promise!Polled(j) = job[polling[j.mon]]
      BY <3>1, LiveIsStarted DEF Promise!Polled
    <3> QED BY <2>1, <3>2 DEF PollHandshake
  <2>2. CASE PollInactive(j)
    <3>1. Promise!Polled(j) = j
      BY <1>1, <2>2 DEF PollInactive, Promise!Polled, Captured
    <3> QED BY <2>2, <3>1 DEF PollInactive
  <2> QED BY <2>1, <2>2
<1> QED BY <1>2, <1>3, SameMessages DEF Promise!RegNext, Promise!RegApply, Promise!ApplyPoll

(* The timer of a worker, and the end of a poll. *)
LEMMA TickImplements ==
  ASSUME Concrete, NEW w \in Workers, Tick(w)
  PROVE  Promise!RegNext
<1>1. UNCHANGED <<loopback, pc, cur, polling, job>> /\ phase[w] = "selecting"
  BY DEF Tick, listenVars, workerVars
<1>2. Waiting' = Waiting /\ Captured' = Captured
  BY <1>1 DEF Waiting, Captured
<1>3. inflight' = [inflight EXCEPT ![[mon |-> job[w].mon, cfg |-> Captured[job[w].mon]]] = @ + 1]
  BY <1>1, LiveIsStarted DEF Tick
<1> QED BY <1>1, <1>2, <1>3, LiveIsStarted DEF Promise!RegNext, Promise!Fire

(* A poll that reports is a poll in progress that ends: its measurement is
   accepted, and nothing is taken from what waits. *)
LEMMA ReportImplements ==
  ASSUME Concrete, NEW j \in Job, Report(j)
  PROVE  Promise!RegNext
<1>1. j.mon \in Monitors /\ UNCHANGED <<pc, cur, polling, job>>
  BY DEF Report, Job, listenVars, workerVars
<1>2. Waiting' = Append(Waiting, MeasurementMessage(j.mon)) /\ Captured' = Captured
  BY <1>1, SendPuts, MessageTypes DEF Report, Captured
<1>3. MeasurementMessage(j.mon) \in Notice
  BY <1>1, Notices
<1> QED BY <1>2, <1>3, SameMessages DEF Report, Promise!RegNext, Promise!Finish, Promise!Put

-----------------------------------------------------------------------------
(* Every step is a step of the promise or changes nothing of it. *)
LEMMA StepImplements ==
  ASSUME Concrete, [Next]_vars
  PROVE  [Promise!RegNext]_Promise!regVars
<1>1. ASSUME NEW c \in Conns, Subscribe(c) \/ Unsubscribe(c) PROVE Promise!RegNext
  BY <1>1, NoticeTaken, Notices DEF Subscribe, Unsubscribe, Receive, listenVars, workerVars
<1>2. ASSUME NEW s \in Settings, ApplySettings(s) PROVE Promise!RegNext
  BY <1>2, NoticeTaken, Notices DEF ApplySettings, Receive, listenVars, workerVars
<1>3. ASSUME NEW m \in Monitors, StoreBegin(m) PROVE Promise!RegNext
  BY <1>3, NoticeTaken, Notices DEF StoreBegin, Receive, workerVars
<1>4. ASSUME NEW m \in Monitors, StopBegin(m) PROVE UNCHANGED Promise!regVars
  BY <1>4, ReceiveHolds DEF StopBegin, workerVars, Promise!regVars, Captured
<1>5. ASSUME NEW j \in Job, PollBegin(j) PROVE UNCHANGED Promise!regVars
  BY <1>5, ReceiveHolds DEF PollBegin, workerVars, Promise!regVars, Captured
<1>6. CASE StoreDone \/ StoreFails \/ WritesOver \/ DiscardsOver
  BY <1>6, StuttersUnblocked DEF StoreDone, StoreFails, WritesOver, DiscardsOver, workerVars
<1>7. ASSUME NEW c \in Conns, WriteDone(c) \/ WriteFails(c) PROVE UNCHANGED Promise!regVars
  BY <1>7, Stutters DEF WriteDone, WriteFails, workerVars
<1>8. ASSUME NEW c \in Conns, DiscardOne(c) \/ ReaderExits(c) \/ Connect(c) PROVE Promise!RegNext
  BY <1>8, Accepted, MessageTypes DEF DiscardOne, ReaderExits, Connect, listenVars, workerVars
<1>9. ASSUME NEW w \in Workers, Wake(w) PROVE UNCHANGED Promise!regVars
  BY <1>9, Stutters DEF Wake, listenVars
<1>10. ASSUME NEW c \in Conns, Break(c) \/ Stall(c) \/ Resume(c) PROVE UNCHANGED Promise!regVars
  BY <1>10, Stutters DEF Break, Stall, Resume, Peer, listenVars, workerVars
<1>11. CASE Request
  BY <1>11, Accepted, MessageTypes DEF Request, listenVars, workerVars
<1>12. CASE UNCHANGED vars
  BY <1>12, Stutters DEF vars, listenVars, workerVars
<1> QED
  BY <1>1, <1>2, <1>3, <1>4, <1>5, <1>6, <1>7, <1>8, <1>9, <1>10, <1>11, <1>12,
     StartImplements, StopImplements, PollImplements, TickImplements, ReportImplements
     DEF Next, ListenStep

(* Initially nothing waits and nothing is started. *)
LEMMA InitImplements == Init => Promise!RegInit
BY SameMessages DEF Init, Promise!RegInit, Waiting, Captured

(* The distributor keeps its promise: its goroutines, the handshakes with the
   workers and its loops cannot be told from a mailbox whose messages take
   effect one at a time (distributor.go:38-174). *)
THEOREM DistributorImplementsRegistry == Spec => ImplementsRegistry
<1>1. TypeOK /\ WorkerInv /\ [Next]_vars => WorkerInv'
  BY WorkerStep
<1>2. TypeOK /\ WorkerInv /\ [Next]_vars => [Promise!RegNext]_Promise!regVars
  BY StepImplements DEF Concrete
<1> QED
  BY <1>1, <1>2, WorkerInit, InitImplements, TypeCorrect, PTL
     DEF Spec, ImplementsRegistry, Promise!RegSpec
=============================================================================
