----------------------------- MODULE ProbeProofs -----------------------------
(* Proofs about the form of Editor and the polls of Probe, for any plugins, any
   ports, any timeouts, numbers of packets and requests, and any bounds. *)
EXTENDS Probe, TLAPS

-----------------------------------------------------------------------------
(* Monitors, field by field. *)

(* What a field can hold. *)
Holds(f, v) ==
  CASE f \in {"name", "address"} -> v \in {None, "a"}
    [] f = "kind" -> v \in Kinds
    [] f = "active" -> v \in BOOLEAN
    [] f \in NumberFields -> v \in Numbers
    [] f = "loss" -> v \in {None, 0, 1}
    [] f = "port" -> v \in Ports \cup {None, 0}
    [] f = "plugin" -> v \in Plugins \cup {None}
    [] f \in {"args", "headers"} -> v \in RowLists
    [] f = "method" -> v \in {None, "GET", "OPTIONS"}
    [] f = "range" -> v \in {None, "2xx", "4xx"}
    [] f = "protocol" -> v \in {None, "ICMP", "UDP"}
    [] OTHER -> v \in Seq(EventSet) /\ Len(v) <= 1

(* The fields of a draft are those of any monitor. *)
LEMMA FieldsAre ==
  Fields = {"name", "kind", "active", "interval", "timeout", "address", "port", "plugin", "args",
            "method", "range", "headers", "size", "wait", "count", "ttl", "protocol", "loss", "events"}
BY DEF Fields, Defaults

(* A monitor is a record of these fields. *)
LEMMA MonitorIs ==
  ASSUME NEW m
  PROVE  m \in MonitorSet <=> m = [f \in Fields |-> m[f]] /\ \A f \in Fields : Holds(f, m[f])
<1>1. ASSUME m \in MonitorSet PROVE m = [f \in Fields |-> m[f]]
  BY <1>1, FieldsAre DEF MonitorSet
<1>2. ASSUME m \in MonitorSet, NEW f \in Fields PROVE Holds(f, m[f])
  BY <1>2, FieldsAre DEF MonitorSet, Holds, NumberFields, EchoFields
<1>3. ASSUME m = [f \in Fields |-> m[f]], \A f \in Fields : Holds(f, m[f])
      PROVE  m \in MonitorSet
  <2>1. /\ m.name \in {None, "a"} /\ m.kind \in Kinds /\ m.active \in BOOLEAN /\ m.interval \in Numbers
        /\ m.timeout \in Numbers /\ m.address \in {None, "a"} /\ m.port \in Ports \cup {None, 0}
        /\ m.plugin \in Plugins \cup {None} /\ m.args \in RowLists
        /\ m.method \in {None, "GET", "OPTIONS"} /\ m.range \in {None, "2xx", "4xx"}
        /\ m.headers \in RowLists /\ m.size \in Numbers /\ m.wait \in Numbers
        /\ m.count \in Numbers /\ m.ttl \in Numbers /\ m.protocol \in {None, "ICMP", "UDP"}
        /\ m.loss \in {None, 0, 1} /\ m.events \in {list \in Seq(EventSet) : Len(list) <= 1}
    BY <1>3, FieldsAre DEF Holds, NumberFields, EchoFields
  <2> QED BY <1>3, <2>1, FieldsAre DEF MonitorSet
<1> QED BY <1>1, <1>2, <1>3

(* A monitor with one field changed. *)
LEMMA ExceptMonitor ==
  ASSUME NEW m \in MonitorSet, NEW f \in Fields, NEW v, Holds(f, v)
  PROVE  /\ [m EXCEPT ![f] = v] \in MonitorSet /\ [m EXCEPT ![f] = v][f] = v
         /\ \A g \in Fields \ {f} : [m EXCEPT ![f] = v][g] = m[g]
<1> DEFINE n == [m EXCEPT ![f] = v]
<1>1. m = [g \in Fields |-> m[g]] /\ \A g \in Fields : Holds(g, m[g])
  BY MonitorIs
<1>2. n[f] = v /\ \A g \in Fields \ {f} : n[g] = m[g]
  BY <1>1
<1>3. n = [g \in Fields |-> n[g]]
  BY <1>1
<1> HIDE DEF n
<1>4. \A g \in Fields : Holds(g, n[g])
  BY <1>1, <1>2
<1>5. n \in MonitorSet
  BY <1>3, <1>4, MonitorIs
<1> QED BY <1>2, <1>5 DEF n

(* A function that holds what it may in every field is a monitor. *)
LEMMA MonitorOf ==
  ASSUME NEW m, m = [f \in Fields |-> m[f]], \A f \in Fields : Holds(f, m[f])
  PROVE  m \in MonitorSet
BY MonitorIs

(* What a monitor has in a field. *)
LEMMA MonitorHas ==
  ASSUME NEW m \in MonitorSet
  PROVE  \A f \in Fields : Holds(f, m[f])
BY MonitorIs

(* The fields of a monitor, one by one. *)
LEMMA MonitorFacts ==
  ASSUME NEW m \in MonitorSet
  PROVE  /\ m.name \in {None, "a"} /\ m.kind \in Kinds /\ m.active \in BOOLEAN /\ m.interval \in Numbers
         /\ m.timeout \in Numbers /\ m.address \in {None, "a"} /\ m.port \in Ports \cup {None, 0}
         /\ m.plugin \in Plugins \cup {None} /\ m.args \in RowLists
         /\ m.method \in {None, "GET", "OPTIONS"} /\ m.range \in {None, "2xx", "4xx"}
         /\ m.headers \in RowLists /\ m.size \in Numbers /\ m.wait \in Numbers
         /\ m.count \in Numbers /\ m.ttl \in Numbers /\ m.protocol \in {None, "ICMP", "UDP"}
         /\ m.loss \in {None, 0, 1} /\ m.events \in Seq(EventSet) /\ Len(m.events) <= 1
BY DEF MonitorSet

(* The fields that may be null, and what is in the others by default. *)
LEMMA NullHolds ==
  \A f \in Fields : Holds(f, None) \/ f \in {"kind", "active", "args", "headers", "events"}
BY FieldsAre DEF Holds, NumberFields, EchoFields, Numbers

(* The first plugin of the list, if there is one. *)
LEMMA FirstIsPlugin == FirstPlugin \in Plugins \cup {None} /\ (Plugins # {} => FirstPlugin \in Plugins)
BY DEF FirstPlugin

(* A draft begins with what its fields can hold. *)
LEMMA DefaultsHold == \A f \in Fields : Holds(f, Defaults[f])
<1> SUFFICES ASSUME NEW f \in Fields PROVE Holds(f, Defaults[f])
  OBVIOUS
<1>0. /\ Defaults["name"] = None /\ Defaults["kind"] = "PLUGIN" /\ Defaults["active"] = FALSE
      /\ Defaults["interval"] = 1 /\ Defaults["timeout"] = 1 /\ Defaults["address"] = None
      /\ Defaults["port"] = None /\ Defaults["plugin"] = FirstPlugin /\ Defaults["args"] = <<>>
      /\ Defaults["method"] = "GET" /\ Defaults["range"] = "2xx" /\ Defaults["headers"] = <<>>
      /\ Defaults["size"] = 1 /\ Defaults["wait"] = 1 /\ Defaults["count"] = 1 /\ Defaults["ttl"] = 1
      /\ Defaults["protocol"] = "ICMP" /\ Defaults["loss"] = 0 /\ Defaults["events"] = <<>>
  BY DEF Defaults
<1>1. CASE f \in {"name", "kind", "active", "address", "port", "plugin"}
  BY <1>0, <1>1, FirstIsPlugin DEF Holds, NumberFields, EchoFields, Kinds
<1>2. CASE f \in {"interval", "timeout", "size", "wait", "count", "ttl", "loss"}
  BY <1>0, <1>2 DEF Holds, NumberFields, EchoFields, Numbers
<1>3. CASE f \in {"args", "headers", "method", "range", "protocol"}
  BY <1>0, <1>3 DEF Holds, NumberFields, EchoFields, RowLists
<1>4. <<>> \in Seq(EventSet) /\ Len(<<>>) <= 1
  OBVIOUS
<1>5. CASE f = "events"
  BY <1>0, <1>4, <1>5 DEF Holds, NumberFields, EchoFields
<1> QED BY <1>1, <1>2, <1>3, <1>5, FieldsAre

(* So a new draft is a monitor. *)
LEMMA DefaultsAreMonitor == Defaults \in MonitorSet
<1>1. Defaults = [f \in Fields |-> Defaults[f]]
  BY DEF Fields, Defaults
<1> QED BY <1>1, DefaultsHold, MonitorOf

(* No default of a method, a protocol, a number or a range is null. *)
LEMMA DefaultsAreSome ==
  \A f \in Fields : Defaults[f] = None => f \in {"name", "address", "port", "plugin", "active", "events", "args", "headers", "kind"}
BY FieldsAre, NoneAssumption DEF Defaults

(* Resetting gives a monitor in which few fields are null. *)
LEMMA ResetFacts ==
  ASSUME NEW m \in MonitorSet \cup {None}
  PROVE  /\ reset(m) \in MonitorSet
         /\ m # None => \A f \in Fields : reset(m)[f] = IF m[f] = None THEN Defaults[f] ELSE m[f]
         /\ reset(m).method # None /\ reset(m).protocol # None
<1>1. CASE m = None
  <2>1. reset(m) = Defaults
    BY <1>1 DEF reset
  <2>2. Defaults.method # None /\ Defaults.protocol # None
    BY NoneAssumption DEF Defaults
  <2> QED BY <1>1, <2>1, <2>2, DefaultsAreMonitor
<1>2. CASE m # None
  <2> DEFINE n == [f \in Fields |-> IF m[f] = None THEN Defaults[f] ELSE m[f]]
  <2>1. reset(m) = n
    BY <1>2 DEF reset
  <2>2. n = [f \in Fields |-> n[f]] /\ \A f \in Fields : n[f] = IF m[f] = None THEN Defaults[f] ELSE m[f]
    OBVIOUS
  <2> HIDE DEF n
  <2>3. \A f \in Fields : Holds(f, n[f])
    BY <1>2, <2>2, MonitorHas, DefaultsHold
  <2>4. n \in MonitorSet
    BY <2>2, <2>3, MonitorOf
  <2>5. n.method # None /\ n.protocol # None
    BY <2>2, FieldsAre, NoneAssumption DEF Defaults
  <2> QED BY <2>1, <2>2, <2>4, <2>5
<1> QED BY <1>1, <1>2

(* What is cleared may be null, or is a list of rows. *)
LEMMA ClearedFacts ==
  ASSUME NEW kind \in Kinds
  PROVE  /\ Cleared(kind) \subseteq Fields
         /\ \A f \in Cleared(kind) : Holds(f, None) \/ f \in {"args", "headers"}
         /\ Dereferenced(kind) \subseteq Fields \ Cleared(kind)
BY FieldsAre DEF Kinds, Cleared, Dereferenced, Holds, NumberFields, HttpFields, EchoFields, IcmpFields, PluginFields, Numbers

(* What is sent is a monitor; what its probe reads is what the draft had. *)
LEMMA SanitizeFacts ==
  ASSUME NEW m \in MonitorSet
  PROVE  /\ sanitize(m) \in MonitorSet
         /\ \A f \in Fields \ Cleared(m.kind) : sanitize(m)[f] = m[f]
         /\ \A f \in Cleared(m.kind) \ {"args", "headers"} : sanitize(m)[f] = None
         /\ sanitize(m).kind = m.kind
<1>1. m.kind \in Kinds
  BY MonitorFacts
<1> DEFINE n == sanitize(m)
<1>2. n = [f \in Fields |-> n[f]]
      /\ \A f \in Fields : n[f] = IF f \notin Cleared(m.kind) THEN m[f]
                                  ELSE IF f \in {"args", "headers"} THEN <<>> ELSE None
  BY DEF sanitize
<1> HIDE DEF n
<1>3. Holds("args", <<>>) /\ Holds("headers", <<>>)
  BY DEF Holds, RowLists, NumberFields, EchoFields
<1>4. \A f \in Fields : Holds(f, n[f])
  BY <1>1, <1>2, <1>3, MonitorHas, ClearedFacts
<1>5. n \in MonitorSet
  BY <1>2, <1>4, MonitorOf
<1>6. "kind" \in Fields /\ "kind" \notin Cleared(m.kind)
  BY <1>1, FieldsAre DEF Kinds, Cleared, HttpFields, EchoFields, IcmpFields, PluginFields
<1> QED BY <1>1, <1>2, <1>5, <1>6, ClearedFacts DEF n

(* What is stored is a monitor, with the fields of what was sent but for the lists of
   its events. *)
LEMMA ScannedFacts ==
  ASSUME NEW m \in MonitorSet
  PROVE  /\ Scanned(m) \in MonitorSet
         /\ \A f \in Fields \ {"events"} : Scanned(m)[f] = m[f]
<1> DEFINE list == [i \in DOMAIN m.events |-> Filled(m.events[i])]
<1>1. m.events \in Seq(EventSet) /\ Len(m.events) <= 1
  BY MonitorFacts
<1>2. \A i \in DOMAIN m.events : Filled(m.events[i]) \in EventSet
  <2>1. \A event \in EventSet : Filled(event) \in EventSet
    BY DEF EventSet, RowLists, Filled
  <2> QED BY <1>1, <2>1
<1>3. list \in Seq(EventSet) /\ Len(list) <= 1
  BY <1>1, <1>2
<1>4. Scanned(m) = [m EXCEPT !.events = list]
  BY DEF Scanned
<1> HIDE DEF list
<1>5. "events" \in Fields /\ Holds("events", list)
  BY <1>3, FieldsAre DEF Holds, NumberFields, EchoFields
<1>6. [m EXCEPT !["events"] = list] \in MonitorSet
      /\ \A g \in Fields \ {"events"} : [m EXCEPT !["events"] = list][g] = m[g]
  BY <1>5, ExceptMonitor
<1> QED BY <1>4, <1>6

-----------------------------------------------------------------------------
(* The poll and its runs. *)

PollPhases ==
  {"idle", "resolving", "requesting", "reading", "dialing", "pinging", "plugin", "over"}
States == {"OK", "WARN", "DEAD"}
Reasons ==
  {"none", "unresolved", "in range", "out of range", "no body", "connected", "failed", "answered",
   "network timeout", "deadline", "plugin"}
RunPhases == {"none", "starting", "stdout", "stderr", "over"}

PollSet(monitor) ==
  [phase : PollPhases, monitor : {monitor}, captures : BOOLEAN, threshold : {None, "WARN", "DEAD"},
   age : Nat, late : BOOLEAN, state : States, told : BOOLEAN, why : Reasons, sent : Nat, got : Nat,
   gap : Nat]
RunSet ==
  [phase : RunPhases, plugin : Plugins \cup {None}, age : Nat, late : BOOLEAN, timed : BOOLEAN,
   alive : BOOLEAN, held : BOOLEAN, left : BOOLEAN, wants : {"none", "stdout", "stderr"},
   code : {None} \cup -1 .. 2, pipe : [Streams -> 0 .. PipeSize], wrote : Nat]

(* What a poll counts on of its monitor. *)
Polled(m) ==
  /\ m.kind \in Kinds /\ m.timeout \in Nat /\ m.events \in Seq(EventSet)
  /\ m.plugin \in Plugins \cup {None}
  /\ m.kind = "ICMP" => /\ m.count \in Nat \ {0} /\ m.wait \in Nat \ {0}
                        /\ m.loss \in {None} \cup 1 .. 100

PollTyped ==
  /\ poll \in PollSet(poll.monitor) /\ runs \in [Jobs -> RunSet]
  /\ poll.phase # "idle" => Polled(poll.monitor)

(* A run that is not at a stream has no process, and only one that has ended is said to have
   timed out; its streams are held by what was left behind when the process went. *)
RunInv(run) ==
  /\ run.phase \notin Streams => ~ run.alive /\ ~ run.held
  /\ ~ run.alive => run.wants = "none"
  /\ run.phase \in {"none", "starting"} => ~ run.late /\ ~ run.left
  /\ run.phase # "over" => ~ run.timed
  /\ run.held => run.left
  /\ run.left => ~ run.alive
  /\ run.late => run.plugin \in Shells \/ run.left

(* What a poll has while it waits, by what it waits for. *)
PhaseInv ==
  LET m == poll.monitor
  IN /\ poll.phase = "idle" => runs["probe"].phase = "none"
     /\ poll.phase = "resolving" => m.kind # "PLUGIN" /\ poll.sent = 0
     /\ poll.phase = "requesting" => m.kind = "HTTP"
     /\ poll.phase = "reading" =>
          /\ m.kind = "HTTP"
          /\ \/ poll.why = "in range" /\ poll.state = "OK"
             \/ poll.why = "out of range" /\ poll.state = "DEAD"
     /\ poll.phase = "dialing" => m.kind = "TCP"
     /\ poll.phase = "pinging" => m.kind = "ICMP" /\ poll.sent <= m.count
     /\ poll.phase = "plugin" => m.kind = "PLUGIN"
     /\ poll.phase # "over" => runs["event"].phase = "none" /\ ~ poll.told
     /\ poll.phase = "over" /\ m.kind = "PLUGIN" => runs["probe"].phase = "over"
     /\ poll.got <= poll.sent /\ (poll.phase # "idle" => poll.age <= Limit + 1)
     /\ runs["probe"].timed => poll.phase # "idle" /\ runs["probe"].age >= Limit

PollInv ==
  /\ PollTyped /\ ~ poll.late
  /\ \A r \in Jobs : RunInv(runs[r])
  /\ PhaseInv /\ StateJustified

(* What every poll has, whatever it waits for. *)
LEMMA PollFacts ==
  ASSUME PollTyped
  PROVE  /\ poll.phase \in PollPhases /\ poll.state \in States /\ poll.why \in Reasons
         /\ poll.age \in Nat /\ poll.sent \in Nat /\ poll.got \in Nat /\ poll.gap \in Nat
         /\ poll.told \in BOOLEAN /\ poll.late \in BOOLEAN
         /\ poll.threshold \in {None, "WARN", "DEAD"}
         /\ runs["probe"] \in RunSet /\ runs["event"] \in RunSet
         /\ poll.phase # "idle" => Limit \in Nat
<1>1. poll \in PollSet(poll.monitor) /\ runs \in [Jobs -> RunSet]
  BY DEF PollTyped
<1>2. poll.phase # "idle" => Limit \in Nat
  <2>1. Second \in Nat
    BY ProbeAssumption
  <2>2. poll.phase # "idle" => poll.monitor.timeout \in Nat
    BY DEF PollTyped, Polled
  <2>3. \A t \in Nat : t * Second \in Nat
    BY <2>1
  <2> QED BY <2>2, <2>3 DEF Limit
<1> QED BY <1>1, <1>2 DEF PollSet, Jobs

(* What every run has. *)
LEMMA RunFacts ==
  ASSUME NEW run \in RunSet
  PROVE  /\ run.phase \in RunPhases /\ run.plugin \in Plugins \cup {None} /\ run.age \in Nat
         /\ run.late \in BOOLEAN /\ run.timed \in BOOLEAN /\ run.alive \in BOOLEAN
         /\ run.held \in BOOLEAN /\ run.left \in BOOLEAN /\ run.wants \in {"none", "stdout", "stderr"}
         /\ run.code \in {None} \cup -1 .. 2 /\ run.pipe \in [Streams -> 0 .. PipeSize]
         /\ run.wrote \in Nat
BY DEF RunSet

(* A plugin that has not been started, and one that is about to be. *)
LEMMA NewRun ==
  ASSUME NEW plugin \in Plugins \cup {None}
  PROVE  /\ NoRun \in RunSet /\ RunInv(NoRun) /\ NoRun.phase = "none" /\ ~ NoRun.timed
         /\ Run(plugin) \in RunSet /\ RunInv(Run(plugin)) /\ Run(plugin).phase = "starting"
         /\ ~ Run(plugin).timed
<1>1. 0 \in 0 .. PipeSize
  BY ProbeAssumption
<1>2. NoRun \in RunSet
  BY <1>1 DEF NoRun, RunSet, RunPhases
<1>3. Run(plugin) \in RunSet
  BY <1>1 DEF NoRun, Run, RunSet, RunPhases
<1>4. RunInv(NoRun) /\ NoRun.phase = "none" /\ ~ NoRun.timed
  BY DEF NoRun, RunInv, Streams
<1>5. RunInv(Run(plugin)) /\ Run(plugin).phase = "starting" /\ ~ Run(plugin).timed
  BY DEF Run, NoRun, RunInv, Streams
<1> QED BY <1>2, <1>3, <1>4, <1>5

(* A run that has begun and is not over may change, as long as it stays one. *)
LEMMA RunChange ==
  ASSUME PollInv, NEW r \in Jobs, NEW new \in RunSet, RunInv(new),
         runs[r].phase \notin {"none", "over"}, new.phase # "none",
         new.timed => new.age >= Limit,
         runs' = [runs EXCEPT ![r] = new], poll' = poll
  PROVE  PollInv'
<1>1. /\ runs \in [Jobs -> RunSet] /\ runs' \in [Jobs -> RunSet]
      /\ runs'[r] = new /\ \A s \in Jobs \ {r} : runs'[s] = runs[s]
  BY DEF PollInv, PollTyped
<1>2. PollTyped'
  BY <1>1 DEF PollInv, PollTyped, Polled, PollSet
<1>3. \A s \in Jobs : RunInv(runs'[s])
  BY <1>1 DEF PollInv
<1>4. r = "probe" => /\ poll.phase # "idle" /\ ~ (Over /\ poll.monitor.kind = "PLUGIN")
                     /\ runs'["event"] = runs["event"]
  BY <1>1 DEF PollInv, PhaseInv, Over, Jobs
<1>5. r # "probe" => runs'["probe"] = runs["probe"] /\ runs["event"].phase # "none" /\ runs'["event"].phase # "none"
  BY <1>1 DEF Jobs
<1>6. PhaseInv'
  BY <1>1, <1>4, <1>5 DEF PollInv, PhaseInv, Limit, Over
<1>7. StateJustified'
  <2>1. Over' = Over /\ Limit' = Limit
    BY DEF Over, Limit
  <2>2. Over => (Answered' <=> Answered) /\ (Satisfied' <=> Satisfied)
    BY <1>4, <1>5 DEF Answered, Satisfied, Over
  <2> QED BY <1>4, <1>5, <2>1, <2>2 DEF PollInv, StateJustified, Over
<1> QED BY <1>2, <1>3, <1>6, <1>7 DEF PollInv

-----------------------------------------------------------------------------
(* What a plugin and its executor do. *)

(* The process is started, or is not. *)
LEMMA StartStep ==
  ASSUME PollInv, NEW r \in Jobs, Start(r) \/ StartFails(r)
  PROVE  PollInv'
<1>1. runs[r] \in RunSet /\ RunInv(runs[r]) /\ runs[r].phase = "starting"
  BY DEF PollInv, PollTyped, Start, StartFails, Starting
<1>2. CASE Start(r)
  <2> DEFINE new == [runs[r] EXCEPT !.phase = "stdout", !.alive = TRUE]
  <2>1. new \in RunSet /\ RunInv(new) /\ new.phase # "none" /\ ~ new.timed
    BY <1>1 DEF RunSet, RunPhases, RunInv, Streams
  <2>2. runs' = [runs EXCEPT ![r] = new] /\ poll' = poll
    BY <1>2 DEF Start
  <2> HIDE DEF new
  <2> QED BY <1>1, <2>1, <2>2, RunChange
<1>3. CASE StartFails(r)
  <2> DEFINE new == [runs[r] EXCEPT !.phase = "over"]
  <2>1. new \in RunSet /\ RunInv(new) /\ new.phase # "none" /\ ~ new.timed
    BY <1>1 DEF RunSet, RunPhases, RunInv, Streams
  <2>2. runs' = [runs EXCEPT ![r] = new] /\ poll' = poll
    BY <1>3 DEF StartFails
  <2> HIDE DEF new
  <2> QED BY <1>1, <2>1, <2>2, RunChange
<1> QED BY <1>2, <1>3

(* Reading takes what is in the pipe. *)
LEMMA ReadStep ==
  ASSUME PollInv, NEW r \in Jobs, Read(r)
  PROVE  PollInv'
<1>1. runs[r] \in RunSet /\ RunInv(runs[r]) /\ runs[r].phase \in Streams
  BY DEF PollInv, PollTyped, Read, CanRead
<1> DEFINE new == [runs[r] EXCEPT !.pipe[runs[r].phase] = 0]
<1>2. 0 \in 0 .. PipeSize
  BY ProbeAssumption
<1>3. new \in RunSet /\ RunInv(new) /\ new.phase # "none" /\ ~ new.timed
  BY <1>1, <1>2 DEF RunSet, RunPhases, RunInv, Streams
<1>4. runs' = [runs EXCEPT ![r] = new] /\ poll' = poll
  BY DEF Read
<1>5. runs[r].phase \notin {"none", "over"}
  BY <1>1 DEF Streams
<1> HIDE DEF new
<1> QED BY <1>3, <1>4, <1>5, RunChange

(* A plugin that has ended. *)
LEMMA EndedFacts ==
  ASSUME NEW run \in RunSet, RunInv(run), NEW ended \in Ended(run)
  PROVE  /\ ended \in RunSet /\ RunInv(ended) /\ ended.phase = "over"
         /\ ended.timed => ended.age >= Limit
<1> DEFINE Made(timed) == [NoRun EXCEPT !.phase = "over", !.plugin = run.plugin, !.code = run.code,
                                        !.late = run.late, !.left = run.left /\ run.late,
                                        !.timed = timed, !.age = IF timed THEN run.age ELSE 0]
<1>1. PICK timed \in BOOLEAN : ended = Made(timed) /\ (timed => run.age >= Limit)
  BY DEF Ended
<1>2. 0 \in 0 .. PipeSize
  BY ProbeAssumption
<1>3. ended \in RunSet
  <2>1. /\ run.plugin \in Plugins \cup {None} /\ run.code \in {None} \cup -1 .. 2
        /\ run.late \in BOOLEAN /\ (IF timed THEN run.age ELSE 0) \in Nat
    BY RunFacts
  <2>2. ended = [phase |-> "over", plugin |-> run.plugin, age |-> IF timed THEN run.age ELSE 0,
                 late |-> run.late, timed |-> timed, alive |-> FALSE, held |-> FALSE,
                 left |-> run.left /\ run.late, wants |-> "none", code |-> run.code,
                 pipe |-> [s \in Streams |-> 0], wrote |-> 0]
    BY <1>1 DEF NoRun
  <2>3. (run.left /\ run.late) \in BOOLEAN /\ [s \in Streams |-> 0] \in [Streams -> 0 .. PipeSize]
    BY <1>2
  <2> QED BY <2>1, <2>2, <2>3 DEF RunSet, RunPhases
<1>4. RunInv(ended) /\ ended.phase = "over"
  BY <1>1 DEF NoRun, RunInv, Streams
<1>5. ended.timed => ended.age >= Limit
  BY <1>1 DEF NoRun
<1> QED BY <1>3, <1>4, <1>5

(* At the end of a stream the next is read, or the process is waited for. *)
LEMMA ReadEndStep ==
  ASSUME PollInv, NEW r \in Jobs, ReadEnd(r)
  PROVE  PollInv'
<1>1. /\ runs[r] \in RunSet /\ RunInv(runs[r]) /\ runs[r].phase \in Streams
      /\ runs[r].phase \notin {"none", "over"} /\ poll' = poll
  BY DEF PollInv, PollTyped, ReadEnd, AtEnd, Streams
<1>2. CASE runs[r].phase = "stdout"
  <2> DEFINE new == [runs[r] EXCEPT !.phase = "stderr"]
  <2>1. new \in RunSet /\ RunInv(new) /\ new.phase # "none" /\ ~ new.timed
    BY <1>1 DEF RunSet, RunPhases, RunInv, Streams
  <2>2. runs' = [runs EXCEPT ![r] = new]
    BY <1>2 DEF ReadEnd
  <2> HIDE DEF new
  <2> QED BY <1>1, <2>1, <2>2, RunChange
<1>3. CASE runs[r].phase # "stdout"
  <2>1. PICK ended \in Ended(runs[r]) : runs' = [runs EXCEPT ![r] = ended]
    BY <1>3 DEF ReadEnd
  <2>2. /\ ended \in RunSet /\ RunInv(ended) /\ ended.phase = "over"
        /\ ended.timed => ended.age >= Limit
    BY <1>1, EndedFacts
  <2> QED BY <1>1, <2>1, <2>2, RunChange
<1> QED BY <1>2, <1>3

(* The process goes, and may leave something behind that holds its streams. *)
LEMMA GoneStep ==
  ASSUME PollInv, NEW r \in Jobs, runs[r].alive, NEW code \in -1 .. 2, Gone(r, code)
  PROVE  PollInv'
<1>1. /\ runs[r] \in RunSet /\ RunInv(runs[r]) /\ runs[r].phase \in Streams
      /\ runs[r].phase \notin {"none", "over"} /\ poll' = poll
  BY DEF PollInv, PollTyped, RunInv, Gone, Streams
<1>2. PICK left \in BOOLEAN :
        runs' = [runs EXCEPT ![r] = [@ EXCEPT !.alive = FALSE, !.wants = "none", !.code = code,
                                              !.held = left, !.left = left]]
  BY DEF Gone
<1> DEFINE new == [runs[r] EXCEPT !.alive = FALSE, !.wants = "none", !.code = code,
                                  !.held = left, !.left = left]
<1>3. new \in RunSet
  BY <1>1 DEF RunSet
<1>4. RunInv(new) /\ new.phase # "none" /\ ~ new.timed
  BY <1>1 DEF RunSet, RunInv, Streams
<1>5. runs' = [runs EXCEPT ![r] = new]
  BY <1>2
<1> HIDE DEF new
<1> QED BY <1>1, <1>3, <1>4, <1>5, RunChange

(* The process is killed, or ends. *)
LEMMA GoesStep ==
  ASSUME PollInv, NEW r \in Jobs, Kill(r) \/ Exit(r)
  PROVE  PollInv'
<1>1. runs[r].alive
  BY DEF Kill, Kills, Exit
<1>2. \E code \in -1 .. 2 : Gone(r, code)
  BY DEF Kill, Exit
<1> QED BY <1>1, <1>2, GoneStep

(* The process writes, when there is room. *)
LEMMA WriteStep ==
  ASSUME PollInv, NEW r \in Jobs, WantWrite(r) \/ Write(r)
  PROVE  PollInv'
<1>1. runs[r] \in RunSet /\ RunInv(runs[r]) /\ poll' = poll
  BY DEF PollInv, PollTyped, WantWrite, Write
<1>2. runs[r].alive
  BY <1>1 DEF WantWrite, Write, RunInv, Streams
<1>3. runs[r].phase \in Streams /\ runs[r].phase \notin {"none", "over"}
  BY <1>1, <1>2 DEF RunInv, Streams
<1>4. CASE WantWrite(r)
  <2>1. PICK s \in Streams : runs' = [runs EXCEPT ![r].wants = s]
    BY <1>4 DEF WantWrite
  <2> DEFINE new == [runs[r] EXCEPT !.wants = s]
  <2>2. new \in RunSet /\ RunInv(new) /\ new.phase # "none" /\ ~ new.timed
    BY <1>1, <1>2, <1>3 DEF RunSet, RunInv, Streams
  <2>3. runs' = [runs EXCEPT ![r] = new]
    BY <2>1
  <2> HIDE DEF new
  <2> QED BY <1>1, <1>3, <2>2, <2>3, RunChange
<1>5. CASE Write(r)
  <2>1. PICK s \in Streams :
          /\ runs[r].wants = s /\ runs[r].pipe[s] < PipeSize
          /\ runs' = [runs EXCEPT ![r] = Written(@, s)]
    BY <1>5 DEF Write
  <2> DEFINE new == Written(runs[r], s)
  <2>2. new \in RunSet
    <3>1. /\ runs[r].pipe \in [Streams -> 0 .. PipeSize] /\ runs[r].wrote + 1 \in Nat
          /\ runs[r].pipe[s] + 1 \in 0 .. PipeSize
      BY <1>1, <2>1, RunFacts, ProbeAssumption
    <3>2. [runs[r].pipe EXCEPT ![s] = @ + 1] \in [Streams -> 0 .. PipeSize]
      BY <3>1
    <3>3. new = [runs[r] EXCEPT !.wants = "none", !.pipe = [runs[r].pipe EXCEPT ![s] = @ + 1],
                                !.wrote = runs[r].wrote + 1]
      BY <1>1 DEF RunSet, Written
    <3> QED BY <1>1, <3>1, <3>2, <3>3 DEF RunSet
  <2>4. runs' = [runs EXCEPT ![r] = new]
    BY <2>1
  <2>3. RunInv(new) /\ new.phase # "none" /\ ~ new.timed
    BY <1>1, <1>2, <1>3 DEF RunSet, RunInv, Streams, Written
  <2> HIDE DEF new
  <2> QED BY <1>1, <1>3, <2>2, <2>3, <2>4, RunChange
<1> QED BY <1>4, <1>5

(* What was left behind lets the streams go. *)
LEMMA LetGoStep ==
  ASSUME PollInv, NEW r \in Jobs, LetGo(r)
  PROVE  PollInv'
<1>1. /\ runs[r] \in RunSet /\ RunInv(runs[r]) /\ runs[r].phase \in Streams
      /\ runs[r].phase \notin {"none", "over"} /\ poll' = poll
  BY DEF PollInv, PollTyped, RunInv, LetGo, Streams
<1> DEFINE new == [runs[r] EXCEPT !.held = FALSE]
<1>2. new \in RunSet /\ RunInv(new) /\ new.phase # "none" /\ ~ new.timed
  BY <1>1 DEF RunSet, RunInv, Streams
<1>3. runs' = [runs EXCEPT ![r] = new]
  BY DEF LetGo
<1> HIDE DEF new
<1> QED BY <1>1, <1>2, <1>3, RunChange

-----------------------------------------------------------------------------
(* The end of a poll. *)

(* This state, for this reason, is what the poll as it is now has to say. *)
Justifies(state, why, told) ==
  LET m == poll.monitor
      run == runs["probe"]
  IN /\ m.kind = "HTTP" => /\ state = "DEAD" <=> why \notin {"in range", "no body"}
                           /\ state = "OK" => why = "in range"
     /\ m.kind = "TCP" => /\ state = "DEAD" <=> why # "connected"
                          /\ state = "OK" => why = "connected"
     /\ m.kind = "ICMP" =>
          /\ state = "DEAD" <=> ~ (poll.got > 0)
          /\ state = "OK" =>
               /\ 100 * (poll.sent - poll.got) <= (IF m.loss = None THEN 0 ELSE m.loss) * poll.sent
               /\ \/ poll.sent = m.count \/ why = "failed"
                  \/ why = "deadline" /\ (m.count * m.wait) \div Second <= m.timeout
     /\ m.kind = "PLUGIN" => /\ state = "DEAD" <=> run.code \notin {0, 1} \/ run.timed
                             /\ state = "OK" => run.code = 0
                             /\ run.phase = "over"
     /\ told => \/ (IF m.kind = "PLUGIN" THEN run.age ELSE poll.age) >= Limit
                \/ m.kind \in {"HTTP", "TCP"} /\ why = "network timeout"

(* What the end of a poll leaves alone, and which plugin it starts. *)
LEMMA EndPollFacts ==
  ASSUME PollInv, poll.phase \notin {"idle", "over"},
         NEW state \in States, NEW why \in Reasons, NEW told \in BOOLEAN,
         EndPoll(state, why, told)
  PROVE  /\ poll' \in PollSet(poll.monitor) /\ poll'.monitor = poll.monitor
         /\ poll'.phase = "over" /\ poll'.state = state /\ poll'.why = why /\ poll'.told = told
         /\ poll'.sent = poll.sent /\ poll'.got = poll.got /\ poll'.age = poll.age
         /\ poll'.threshold = poll.threshold /\ poll'.late = poll.late
         /\ runs' \in [Jobs -> RunSet] /\ runs'["probe"] = runs["probe"]
         /\ RunInv(runs'["event"]) /\ ~ runs'["event"].timed
         /\ runs'["event"].phase # "none" <=>
              poll.monitor.events # <<>> /\ IsEligible(poll.threshold, state)
<1>1. /\ poll \in PollSet(poll.monitor) /\ runs \in [Jobs -> RunSet] /\ Polled(poll.monitor)
      /\ runs["event"].phase = "none" /\ RunInv(runs["event"])
      /\ "event" \in Jobs /\ "probe" \in Jobs /\ ~ runs["event"].timed
  BY DEF PollInv, PollTyped, PhaseInv, Jobs, RunInv
<1>2. poll' = [poll EXCEPT !.phase = "over", !.state = state, !.why = why, !.told = told]
  BY DEF EndPoll
<1>3. /\ poll' \in PollSet(poll.monitor) /\ poll'.monitor = poll.monitor
      /\ poll'.phase = "over" /\ poll'.state = state /\ poll'.why = why /\ poll'.told = told
      /\ poll'.sent = poll.sent /\ poll'.got = poll.got /\ poll'.age = poll.age
      /\ poll'.threshold = poll.threshold /\ poll'.late = poll.late
  BY <1>1, <1>2 DEF PollSet, PollPhases
<1> DEFINE starts == poll.monitor.events # <<>> /\ IsEligible(poll.threshold, state)
           plugin == poll.monitor.events[1].plugin
<1>4. CASE starts
  <2>1. runs' = [runs EXCEPT !["event"] = Run(plugin)]
    BY <1>4 DEF EndPoll
  <2>2. plugin \in Plugins \cup {None}
    <3>1. poll.monitor.events \in Seq(EventSet) /\ poll.monitor.events # <<>>
      BY <1>1, <1>4 DEF Polled
    <3>2. poll.monitor.events[1] \in EventSet
      BY <3>1
    <3> QED BY <3>2 DEF EventSet
  <2> HIDE DEF plugin
  <2>3. /\ Run(plugin) \in RunSet /\ RunInv(Run(plugin)) /\ Run(plugin).phase = "starting"
        /\ ~ Run(plugin).timed
    BY <2>2, NewRun
  <2>4. runs'["event"] = Run(plugin) /\ runs'["probe"] = runs["probe"] /\ runs' \in [Jobs -> RunSet]
    BY <1>1, <2>1, <2>3
  <2> QED BY <1>3, <1>4, <2>3, <2>4
<1>5. CASE ~ starts
  <2>1. runs' = runs
    BY <1>5 DEF EndPoll
  <2> QED BY <1>1, <1>3, <1>5, <2>1
<1> QED BY <1>4, <1>5

(* A poll may end with what it has to say. *)
LEMMA EndPollStep ==
  ASSUME PollInv, poll.phase \notin {"idle", "over"},
         NEW state \in States, NEW why \in Reasons, NEW told \in BOOLEAN,
         EndPoll(state, why, told), Justifies(state, why, told)
  PROVE  PollInv'
<1>1. /\ poll' \in PollSet(poll.monitor) /\ poll'.monitor = poll.monitor
      /\ poll'.phase = "over" /\ poll'.state = state /\ poll'.why = why /\ poll'.told = told
      /\ poll'.sent = poll.sent /\ poll'.got = poll.got /\ poll'.age = poll.age
      /\ poll'.threshold = poll.threshold /\ poll'.late = poll.late
      /\ runs' \in [Jobs -> RunSet] /\ runs'["probe"] = runs["probe"]
      /\ RunInv(runs'["event"]) /\ ~ runs'["event"].timed
      /\ runs'["event"].phase # "none" <=>
           poll.monitor.events # <<>> /\ IsEligible(poll.threshold, state)
  BY EndPollFacts
<1>2. PollTyped' /\ ~ poll'.late
  BY <1>1 DEF PollInv, PollTyped, Polled
<1>3. \A r \in Jobs : RunInv(runs'[r])
  BY <1>1 DEF PollInv, Jobs
<1>4. Limit' = Limit
  BY <1>1 DEF Limit
<1>5. PhaseInv'
  BY <1>1, <1>4 DEF PollInv, PhaseInv, Justifies
<1>6. poll.monitor.kind \in Kinds
  BY DEF PollInv, PollTyped, Polled
<1>7. (Over /\ (poll.state = "DEAD" <=> ~ Answered) /\ (poll.state = "OK" => Satisfied))'
  <2>1. CASE poll.monitor.kind = "HTTP"
    BY <1>1, <2>1 DEF Justifies, Over, Answered, Satisfied
  <2>2. CASE poll.monitor.kind = "TCP"
    BY <1>1, <2>2 DEF Justifies, Over, Answered, Satisfied
  <2>3. CASE poll.monitor.kind = "ICMP"
    BY <1>1, <2>3 DEF Justifies, Over, Answered, Satisfied
  <2>4. CASE poll.monitor.kind = "PLUGIN"
    BY <1>1, <2>4 DEF Justifies, Over, Answered, Satisfied
  <2> QED BY <1>6, <2>1, <2>2, <2>3, <2>4 DEF Kinds
<1>8. poll'.told =>
        \/ (IF poll'.monitor.kind = "PLUGIN" THEN runs'["probe"].age ELSE poll'.age) >= Limit'
        \/ poll'.monitor.kind \in {"HTTP", "TCP"} /\ poll'.why = "network timeout"
  BY <1>1, <1>4 DEF Justifies
<1>9. IsEligible(poll.threshold, state)
        <=> (poll.threshold # None => Badness[poll.threshold] <= Badness[state])
  <2>1. poll.threshold \in {None, "WARN", "DEAD"}
    BY PollFacts DEF PollInv
  <2> QED BY <2>1, NoneAssumption DEF IsEligible, Badness, States
<1>10. StateJustified'
  BY <1>1, <1>7, <1>8, <1>9 DEF StateJustified
<1> QED BY <1>2, <1>3, <1>5, <1>10 DEF PollInv

-----------------------------------------------------------------------------
(* The probes. *)

(* A poll that goes on, with its runs as they are. *)
LEMMA GoesOn ==
  ASSUME PollInv, poll.phase \notin {"idle", "over"},
         poll' \in PollSet(poll.monitor), poll'.monitor = poll.monitor, runs' = runs,
         poll'.phase \notin {"idle", "over"}, ~ poll'.late, ~ poll'.told,
         poll'.age = poll.age, PhaseInv'
  PROVE  PollInv'
<1>1. PollTyped'
  BY DEF PollInv, PollTyped, Polled
<1>2. StateJustified'
  BY DEF PollInv, StateJustified, PhaseInv, Over
<1> QED BY <1>1, <1>2 DEF PollInv

(* The name is resolved, and the probe of the kind begins. *)
LEMMA ResolveStep ==
  ASSUME PollInv, Resolve
  PROVE  PollInv'
<1>1. /\ poll \in PollSet(poll.monitor) /\ poll.monitor.kind \in Kinds /\ poll.phase = "resolving"
      /\ poll.monitor.kind # "PLUGIN" /\ ~ poll.late /\ ~ poll.told /\ runs' = runs
  BY DEF PollInv, PollTyped, Polled, PhaseInv, Resolve
<1>2. PICK phase \in {"requesting", "dialing", "pinging"} :
        /\ poll' = [poll EXCEPT !.phase = phase]
        /\ phase = "requesting" => poll.monitor.kind = "HTTP"
        /\ phase = "dialing" => poll.monitor.kind = "TCP"
        /\ phase = "pinging" => poll.monitor.kind = "ICMP"
  BY <1>1 DEF Resolve, Kinds
<1>3. /\ poll' \in PollSet(poll.monitor) /\ poll'.monitor = poll.monitor /\ poll'.phase = phase
      /\ poll'.late = poll.late /\ poll'.told = poll.told /\ poll'.age = poll.age
      /\ poll'.sent = poll.sent /\ poll'.got = poll.got
  BY <1>1, <1>2 DEF PollSet, PollPhases
<1>4. poll.sent = 0 /\ (phase = "pinging" => poll.sent <= poll.monitor.count)
  BY <1>1, <1>2 DEF PollInv, PollTyped, Polled, PhaseInv
<1>6. Limit' = Limit
  BY <1>3 DEF Limit
<1>5. PhaseInv'
  BY <1>1, <1>2, <1>3, <1>4, <1>6 DEF PollInv, PhaseInv
<1> QED BY <1>1, <1>2, <1>3, <1>5, GoesOn

(* No answer comes of a name that is not resolved. *)
LEMMA NotResolvedStep ==
  ASSUME PollInv, NotResolved
  PROVE  PollInv'
<1>1. /\ poll.phase = "resolving" /\ poll.monitor.kind # "PLUGIN"
      /\ poll.got \in Nat /\ poll.sent = 0 /\ poll.got <= poll.sent
  BY PollFacts DEF PollInv, PhaseInv, NotResolved
<1>2. Justifies("DEAD", "unresolved", FALSE)
  BY <1>1 DEF Justifies
<1>3. "DEAD" \in States /\ "unresolved" \in Reasons
  BY DEF States, Reasons
<1>4. EndPoll("DEAD", "unresolved", FALSE)
  BY DEF NotResolved
<1> QED BY <1>1, <1>2, <1>3, <1>4, EndPollStep

(* An answer comes, in time. *)
LEMMA RespondStep ==
  ASSUME PollInv, Respond
  PROVE  PollInv'
<1>1. /\ poll \in PollSet(poll.monitor) /\ poll.monitor.kind = "HTTP" /\ poll.phase = "requesting"
      /\ ~ poll.late /\ ~ poll.told
  BY DEF PollInv, PollTyped, PhaseInv, Respond
<1>2. PICK why \in {"in range", "out of range"}, state \in {"OK", "DEAD"} :
        /\ state = "OK" <=> why = "in range"
        /\ IF poll.captures
           THEN poll' = [poll EXCEPT !.phase = "reading", !.state = state, !.why = why] /\ UNCHANGED runs
           ELSE EndPoll(state, why, FALSE)
  BY DEF Respond, DowngradeIf, Downgrade
<1>3. why \in Reasons /\ state \in States
  BY DEF Reasons, States
<1>4. CASE ~ poll.captures
  <2>1. Justifies(state, why, FALSE)
    BY <1>1, <1>2 DEF Justifies
  <2>2. EndPoll(state, why, FALSE)
    BY <1>2, <1>4
  <2> QED BY <1>1, <1>3, <2>1, <2>2, EndPollStep
<1>5. CASE poll.captures
  <2>1. poll' = [poll EXCEPT !.phase = "reading", !.state = state, !.why = why] /\ runs' = runs
    BY <1>2, <1>5
  <2>2. /\ poll' \in PollSet(poll.monitor) /\ poll'.monitor = poll.monitor /\ poll'.phase = "reading"
        /\ poll'.late = poll.late /\ poll'.told = poll.told /\ poll'.age = poll.age
        /\ poll'.sent = poll.sent /\ poll'.got = poll.got /\ poll'.state = state /\ poll'.why = why
    BY <1>1, <1>3, <2>1 DEF PollSet, PollPhases
  <2>3. PhaseInv'
    BY <1>1, <1>2, <2>1, <2>2 DEF PollInv, PhaseInv, Limit
  <2> QED BY <1>1, <2>1, <2>2, <2>3, GoesOn
<1> QED BY <1>4, <1>5

(* The body comes, or does not. *)
LEMMA BodyStep ==
  ASSUME PollInv, poll.phase = "reading", EndPoll(poll.state, poll.why, FALSE) \/ NoBody
  PROVE  PollInv'
<1>1. /\ poll.monitor.kind = "HTTP" /\ poll.phase \notin {"idle", "over"}
      /\ \/ poll.why = "in range" /\ poll.state = "OK"
         \/ poll.why = "out of range" /\ poll.state = "DEAD"
  BY DEF PollInv, PhaseInv
<1>2. PICK state \in {"OK", "WARN", "DEAD"}, why \in {"in range", "out of range", "no body"} :
        /\ EndPoll(state, why, FALSE)
        /\ state = "DEAD" <=> why = "out of range"
        /\ state = "OK" <=> why = "in range"
  BY <1>1 DEF NoBody, Downgrade
<1>3. Justifies(state, why, FALSE) /\ state \in States /\ why \in Reasons
  BY <1>1, <1>2 DEF Justifies, States, Reasons
<1> QED BY <1>1, <1>2, <1>3, EndPollStep

(* A connection is made, or none is. *)
LEMMA ConnectStep ==
  ASSUME PollInv, Connect \/ Fails
  PROVE  PollInv'
<1>1. poll.phase \in {"requesting", "dialing"} /\ poll.phase \notin {"idle", "over"}
  BY DEF Connect, Fails
<1>2. poll.phase = "dialing" => poll.monitor.kind = "TCP"
  BY DEF PollInv, PhaseInv
<1>3. poll.phase = "requesting" => poll.monitor.kind = "HTTP"
  BY DEF PollInv, PhaseInv
<1>4. /\ "OK" \in States /\ "DEAD" \in States
      /\ "connected" \in Reasons /\ "failed" \in Reasons /\ "network timeout" \in Reasons
  BY DEF States, Reasons
<1>5. CASE Connect
  <2>1. Justifies("OK", "connected", FALSE) /\ EndPoll("OK", "connected", FALSE)
    BY <1>2, <1>5 DEF Connect, Justifies
  <2> QED BY <1>1, <1>4, <2>1, EndPollStep
<1>6. CASE Fails
  <2>1. Justifies("DEAD", "failed", FALSE) /\ Justifies("DEAD", "network timeout", TRUE)
    BY <1>1, <1>2, <1>3 DEF Justifies
  <2>2. EndPoll("DEAD", "failed", FALSE) \/ EndPoll("DEAD", "network timeout", TRUE)
    BY <1>6 DEF Fails
  <2> QED BY <1>1, <1>4, <2>1, <2>2, EndPollStep
<1> QED BY <1>5, <1>6

(* A packet goes out, or comes back. *)
LEMMA PacketStep ==
  ASSUME PollInv, Send \/ Receive
  PROVE  PollInv'
<1>1. /\ poll \in PollSet(poll.monitor) /\ poll.monitor.kind = "ICMP" /\ poll.phase = "pinging"
      /\ ~ poll.late /\ ~ poll.told /\ runs' = runs
      /\ poll.monitor.count \in Nat /\ poll.monitor.wait \in Nat
      /\ poll.sent \in Nat /\ poll.got \in Nat
      /\ poll.got <= poll.sent /\ poll.sent <= poll.monitor.count
  BY PollFacts DEF PollInv, PollTyped, Polled, PhaseInv, Send, Receive, MoreToSend
<1>2. PICK sent \in Nat, got \in Nat, gap \in Nat :
        /\ poll' = [poll EXCEPT !.sent = sent, !.got = got, !.gap = gap]
        /\ got <= sent /\ sent <= poll.monitor.count
  <2>1. CASE Send
    <3>1. poll.sent + 1 \in Nat /\ poll.got <= poll.sent + 1 /\ poll.sent + 1 <= poll.monitor.count
      BY <1>1, <2>1 DEF Send, MoreToSend
    <3>2. poll' = [poll EXCEPT !.sent = poll.sent + 1, !.got = poll.got, !.gap = poll.monitor.wait]
      BY <1>1, <2>1 DEF Send, PollSet
    <3> QED BY <1>1, <3>1, <3>2
  <2>2. CASE Receive
    <3>1. poll.got + 1 \in Nat /\ poll.got + 1 <= poll.sent
      BY <1>1, <2>2 DEF Receive
    <3>2. poll' = [poll EXCEPT !.sent = poll.sent, !.got = poll.got + 1, !.gap = poll.gap]
      BY <1>1, <2>2 DEF Receive, PollSet
    <3>3. poll.gap \in Nat
      BY PollFacts DEF PollInv
    <3> QED BY <1>1, <3>1, <3>2, <3>3
  <2> QED BY <2>1, <2>2
<1>3. /\ poll' \in PollSet(poll.monitor) /\ poll'.monitor = poll.monitor /\ poll'.phase = "pinging"
      /\ poll'.late = poll.late /\ poll'.told = poll.told /\ poll'.age = poll.age
      /\ poll'.sent = sent /\ poll'.got = got
  BY <1>1, <1>2 DEF PollSet
<1>4. PhaseInv'
  BY <1>1, <1>2, <1>3 DEF PollInv, PhaseInv, Limit
<1> QED BY <1>1, <1>3, <1>4, GoesOn

(* The span of a ping says what came back, and what did not. *)
LEMMA PingStateFacts ==
  ASSUME PollInv, poll.phase = "pinging", NEW err \in BOOLEAN, NEW why, NEW told,
         err \/ poll.got = poll.monitor.count,
         why \in {"answered", "failed", "deadline"}, why = "answered" => ~ err,
         told => poll.age >= Limit
  PROVE  /\ PingState(poll.sent, poll.got, err) \in States
         /\ Justifies(PingState(poll.sent, poll.got, err), why, told)
<1> DEFINE m == poll.monitor
           sent == poll.sent
           got == poll.got
           state == PingState(sent, got, err)
           slow == (m.count * m.wait) \div Second > m.timeout
           beyond == m.loss = None \/ 100 * (sent - got) > m.loss * sent
<1>1. /\ m.kind = "ICMP" /\ m.count \in Nat \ {0} /\ m.wait \in Nat \ {0} /\ m.timeout \in Nat
      /\ m.loss \in {None} \cup 1 .. 100 /\ sent \in Nat /\ got \in Nat
      /\ got <= sent /\ sent <= m.count
  BY PollFacts DEF PollInv, PollTyped, Polled, PhaseInv
<1>2. (m.count * m.wait) \div Second \in Int
  <2>1. m.count * m.wait \in Nat /\ Second \in Nat \ {0}
    BY <1>1, ProbeAssumption
  <2> HIDE DEF m
  <2> QED BY <2>1
<1>3. state = "DEAD" <=> ~ (got > 0)
  BY <1>1 DEF PingState, DowngradeIf, Downgrade
<1>4. state \in {"OK", "WARN", "DEAD"}
  BY DEF PingState, DowngradeIf, Downgrade
<1>5. state = "OK" => ~ slow /\ (got = sent \/ ~ beyond)
  BY <1>1 DEF PingState, DowngradeIf, Downgrade
<1>6. state = "OK" => 100 * (sent - got) <= (IF m.loss = None THEN 0 ELSE m.loss) * sent
  <2>1. m.loss # None => m.loss * sent \in Nat
    BY <1>1
  <2>2. (IF m.loss = None THEN 0 ELSE m.loss) * sent = IF m.loss = None THEN 0 ELSE m.loss * sent
    BY <1>1
  <2> HIDE DEF m, sent, got, state
  <2> QED BY <1>1, <1>5, <2>1, <2>2
<1>7. ~ slow => (m.count * m.wait) \div Second <= m.timeout
  <2> HIDE DEF m
  <2> QED BY <1>1, <1>2
<1>8. ~ err => sent = m.count
  BY <1>1
<1>9. ~ err \/ why = "failed" \/ why = "deadline"
  OBVIOUS
<1> QED BY <1>1, <1>3, <1>4, <1>5, <1>6, <1>7, <1>8, <1>9 DEF Justifies, States

(* The client of ICMP is done, or gives up. *)
LEMMA PingEndStep ==
  ASSUME PollInv, PingEnds \/ PingFails
  PROVE  PollInv'
<1>1. poll.phase = "pinging" /\ poll.phase \notin {"idle", "over"}
  BY DEF PingEnds, PingFails, AllBack
<1>2. "answered" \in Reasons /\ "failed" \in Reasons
  BY DEF Reasons
<1>3. CASE PingEnds
  <2> DEFINE state == PingState(poll.sent, poll.got, FALSE)
  <2>1. poll.got = poll.monitor.count /\ EndPoll(state, "answered", FALSE)
    BY <1>3 DEF PingEnds, AllBack
  <2>2. state \in States /\ Justifies(state, "answered", FALSE)
    BY <1>1, <2>1, PingStateFacts
  <2> HIDE DEF state
  <2> QED BY <1>1, <1>2, <2>1, <2>2, EndPollStep
<1>4. CASE PingFails
  <2> DEFINE state == PingState(poll.sent, poll.got, TRUE)
  <2>1. EndPoll(state, "failed", FALSE)
    BY <1>4 DEF PingFails
  <2>2. state \in States /\ Justifies(state, "failed", FALSE)
    BY <1>1, PingStateFacts
  <2> HIDE DEF state
  <2> QED BY <1>1, <1>2, <2>1, <2>2, EndPollStep
<1> QED BY <1>3, <1>4

(* Time ends the wait. *)
LEMMA ExpireStep ==
  ASSUME PollInv, Expire
  PROVE  PollInv'
<1>1. /\ poll.phase \in {"requesting", "reading", "dialing", "pinging"} /\ poll.age >= Limit
      /\ poll.phase \notin {"idle", "over"}
  BY DEF Expire, Expires
<1>2. "deadline" \in Reasons /\ "DEAD" \in States
  BY DEF Reasons, States
<1>3. CASE poll.phase = "reading"
  BY <1>3, BodyStep DEF Expire
<1>4. CASE poll.phase = "pinging"
  <2> DEFINE state == PingState(poll.sent, poll.got, TRUE)
  <2>1. EndPoll(state, "deadline", TRUE)
    BY <1>4 DEF Expire
  <2>2. state \in States /\ Justifies(state, "deadline", TRUE)
    BY <1>1, <1>4, PingStateFacts
  <2> HIDE DEF state
  <2> QED BY <1>1, <1>2, <2>1, <2>2, EndPollStep
<1>5. CASE poll.phase \in {"requesting", "dialing"}
  <2>1. EndPoll("DEAD", "deadline", TRUE)
    BY <1>5 DEF Expire
  <2>2. poll.monitor.kind \in {"HTTP", "TCP"}
    BY <1>5 DEF PollInv, PhaseInv
  <2>3. Justifies("DEAD", "deadline", TRUE)
    BY <1>1, <2>2 DEF Justifies
  <2> QED BY <1>1, <1>2, <2>1, <2>3, EndPollStep
<1> QED BY <1>1, <1>3, <1>4, <1>5

(* The plugin of the probe has ended. *)
LEMMA PluginPolledStep ==
  ASSUME PollInv, PluginPolled
  PROVE  PollInv'
<1>1. /\ poll.phase = "plugin" /\ poll.monitor.kind = "PLUGIN" /\ runs["probe"].phase = "over"
      /\ poll.phase \notin {"idle", "over"}
  BY DEF PollInv, PhaseInv, PluginPolled, Probed
<1> DEFINE run == runs["probe"]
           warned == DowngradeIf(run.code = 1, "OK", "WARN")
           state == DowngradeIf(run.timed \/ run.code \notin {0, 1}, warned, "DEAD")
<1>2. EndPoll(state, "plugin", run.timed)
  BY DEF PluginPolled
<1>3. /\ state \in States /\ (state = "DEAD" <=> run.code \notin {0, 1} \/ run.timed)
      /\ state = "OK" => run.code = 0
  BY DEF DowngradeIf, Downgrade, States
<1>4. run.timed \in BOOLEAN /\ (run.timed => run.age >= Limit)
  BY PollFacts, RunFacts DEF PollInv, PhaseInv
<1>5. Justifies(state, "plugin", run.timed)
  BY <1>1, <1>3, <1>4 DEF Justifies
<1>6. "plugin" \in Reasons
  BY DEF Reasons
<1> HIDE DEF run, state
<1> QED BY <1>1, <1>2, <1>3, <1>4, <1>5, <1>6, EndPollStep

-----------------------------------------------------------------------------
(* The clock. *)

(* A run ages, and is late only if nothing can be done about it. *)
LEMMA RunAges ==
  ASSUME PollInv, poll.phase # "idle", NEW r \in Jobs,
         ~ Starting(r), ~ CanRead(r), ~ AtEnd(r), ~ Kills(r),
         runs[r].phase \notin {"none", "over"}, NEW new,
         new = [runs[r] EXCEPT !.age = Later(@), !.late = @ \/ runs[r].age >= Limit]
  PROVE  new \in RunSet /\ RunInv(new) /\ new.phase = runs[r].phase /\ ~ new.timed
<1>1. runs[r] \in RunSet /\ RunInv(runs[r]) /\ Limit \in Nat
  BY PollFacts DEF PollInv, PollTyped
<1>2. /\ runs[r].phase \in Streams /\ runs[r].age \in Nat /\ runs[r].late \in BOOLEAN
      /\ runs[r].pipe \in [Streams -> 0 .. PipeSize] /\ PipeSize \in Nat
  BY <1>1, RunFacts, ProbeAssumption DEF Starting, RunPhases, Streams
<1>3. Later(runs[r].age) \in Nat
  BY <1>1, <1>2 DEF Later
<1>4. (runs[r].late \/ runs[r].age >= Limit) \in BOOLEAN
  OBVIOUS
<1>5. new \in RunSet /\ new.phase = runs[r].phase /\ ~ new.timed
  BY <1>1, <1>2, <1>3, <1>4 DEF RunSet, RunInv, Streams
<1>6. runs[r].age >= Limit => runs[r].plugin \in Shells \/ runs[r].left
  <2>1. runs[r].pipe[runs[r].phase] = 0
    <3>1. runs[r].pipe[runs[r].phase] \in 0 .. PipeSize
      BY <1>2
    <3>2. ~ (runs[r].pipe[runs[r].phase] > 0)
      BY <1>2 DEF CanRead
    <3> QED BY <1>2, <3>1, <3>2
  <2>2. runs[r].alive \/ runs[r].held
    BY <1>2, <2>1 DEF AtEnd
  <2> QED BY <1>1, <2>2 DEF Kills, RunInv
<1>7. RunInv(new)
  BY <1>1, <1>2, <1>6 DEF RunSet, RunInv, Streams
<1> QED BY <1>5, <1>7

(* Time passes only while nothing is due, so nothing becomes late. *)
LEMMA TickStep ==
  ASSUME PollInv, Tick
  PROVE  PollInv'
<1>1. /\ poll.phase # "idle" /\ ~ Expires
      /\ \A r \in Jobs : ~ Starting(r) /\ ~ CanRead(r) /\ ~ AtEnd(r) /\ ~ Kills(r)
  BY DEF Tick, Urgent
<1>2. /\ poll \in PollSet(poll.monitor) /\ runs \in [Jobs -> RunSet]
      /\ poll.age \in Nat /\ poll.gap \in Nat /\ Limit \in Nat /\ poll.phase \in PollPhases
      /\ poll.late = FALSE /\ poll.age <= Limit + 1
  BY <1>1, PollFacts DEF PollInv, PollTyped, PhaseInv
<1>3. PICK age \in Nat, gap \in Nat, late \in BOOLEAN :
        /\ poll' = [poll EXCEPT !.age = age, !.gap = gap, !.late = late]
        /\ ~ late /\ age <= Limit + 1 /\ (poll.phase \in {"plugin", "over"} => age = poll.age)
  <2>1. CASE poll.phase \in {"plugin", "over"}
    <3>1. poll' = poll
      BY <2>1 DEF Tick
    <3>2. poll' = [poll EXCEPT !.age = poll.age, !.gap = poll.gap, !.late = FALSE]
      BY <1>2, <3>1 DEF PollSet
    <3> QED BY <1>2, <3>2
  <2>2. CASE poll.phase \notin {"plugin", "over"}
    <3> DEFINE gap == IF poll.gap > 0 THEN poll.gap - 1 ELSE 0
               late == poll.late \/ (poll.phase # "resolving" /\ poll.age >= Limit)
    <3>1. poll' = [poll EXCEPT !.age = Later(poll.age), !.gap = gap, !.late = late]
      BY <2>2 DEF Tick
    <3>2. late = FALSE
      BY <1>1, <1>2, <2>2 DEF Expires, PollPhases
    <3>3. gap \in Nat /\ Later(poll.age) \in Nat /\ Later(poll.age) <= Limit + 1
      BY <1>2 DEF Later
    <3> HIDE DEF gap, late
    <3> QED BY <2>2, <3>1, <3>2, <3>3
  <2> QED BY <2>1, <2>2
<1>4. /\ poll' \in PollSet(poll.monitor) /\ poll'.monitor = poll.monitor /\ poll'.phase = poll.phase
      /\ poll'.state = poll.state /\ poll'.why = poll.why /\ poll'.told = poll.told
      /\ poll'.sent = poll.sent /\ poll'.got = poll.got /\ poll'.threshold = poll.threshold
      /\ ~ poll'.late /\ poll'.age = age
  BY <1>2, <1>3 DEF PollSet
<1>5. \A r \in Jobs : /\ runs'[r] \in RunSet /\ RunInv(runs'[r]) /\ runs'[r].phase = runs[r].phase
                      /\ runs[r].phase \in {"none", "over"} => runs'[r] = runs[r]
                      /\ runs[r].phase \notin {"none", "over"} => ~ runs'[r].timed
  <2> SUFFICES ASSUME NEW r \in Jobs
               PROVE  /\ runs'[r] \in RunSet /\ RunInv(runs'[r]) /\ runs'[r].phase = runs[r].phase
                      /\ runs[r].phase \in {"none", "over"} => runs'[r] = runs[r]
                      /\ runs[r].phase \notin {"none", "over"} => ~ runs'[r].timed
    OBVIOUS
  <2>1. CASE runs[r].phase \in {"none", "over"}
    <3>1. runs'[r] = runs[r]
      BY <2>1 DEF Tick
    <3> QED BY <1>2, <2>1, <3>1 DEF PollInv
  <2>2. CASE runs[r].phase \notin {"none", "over"}
    <3>1. runs'[r] = [runs[r] EXCEPT !.age = Later(@), !.late = @ \/ runs[r].age >= Limit]
      BY <2>2 DEF Tick
    <3> QED BY <1>1, <2>2, <3>1, RunAges
  <2> QED BY <2>1, <2>2
<1>6. runs' \in [Jobs -> RunSet]
  <2>1. runs' = [r \in Jobs |-> runs'[r]]
    BY DEF Tick
  <2> QED BY <1>5, <2>1
<1>7. Limit' = Limit
  BY <1>4 DEF Limit
<1>8. PollTyped'
  BY <1>4, <1>6 DEF PollInv, PollTyped, Polled
<1>9. "probe" \in Jobs /\ "event" \in Jobs
  BY DEF Jobs
<1>10. PhaseInv'
  BY <1>1, <1>3, <1>4, <1>5, <1>7, <1>9 DEF PollInv, PhaseInv
<1>11. Over => (Answered' <=> Answered) /\ (Satisfied' <=> Satisfied) /\ poll'.age = poll.age
  <2> SUFFICES ASSUME Over PROVE (Answered' <=> Answered) /\ (Satisfied' <=> Satisfied) /\ poll'.age = poll.age
    OBVIOUS
  <2>1. poll'.age = poll.age /\ poll.phase = "over"
    BY <1>3, <1>4 DEF Over
  <2>2. poll.monitor.kind = "PLUGIN" => runs'["probe"] = runs["probe"]
    BY <1>5, <1>9, <2>1 DEF PollInv, PhaseInv
  <2>3. poll.monitor.kind \in Kinds
    BY <1>1 DEF PollInv, PollTyped, Polled
  <2>4. CASE poll.monitor.kind = "HTTP"
    BY <1>4, <2>1, <2>4 DEF Answered, Satisfied
  <2>5. CASE poll.monitor.kind = "TCP"
    BY <1>4, <2>1, <2>5 DEF Answered, Satisfied
  <2>6. CASE poll.monitor.kind = "ICMP"
    BY <1>4, <2>1, <2>6 DEF Answered, Satisfied
  <2>7. CASE poll.monitor.kind = "PLUGIN"
    BY <1>4, <2>1, <2>2, <2>7 DEF Answered, Satisfied
  <2> QED BY <2>1, <2>3, <2>4, <2>5, <2>6, <2>7 DEF Kinds
<1>12. StateJustified'
  BY <1>4, <1>5, <1>7, <1>9, <1>11 DEF PollInv, StateJustified, Over, PhaseInv
<1> QED BY <1>4, <1>5, <1>8, <1>10, <1>12 DEF PollInv

-----------------------------------------------------------------------------
(* The form, the requests and the two copies of a monitor. *)

(* What can be polled. *)
Ready(m) == m.timeout \in Nat /\ \A f \in Dereferenced(m.kind) : m[f] # None

(* A draft always has a method and a protocol: reset gives it one, and no input takes it
   away.  So what the client lets through can be polled, in a request and in the store. *)
ReadyInv ==
  /\ form.open => form.draft.method # None /\ form.draft.protocol # None
  /\ \A c \in Slots : ~ Free(c) /\ calls[c].kind = "save" => Ready(calls[c].value)
  /\ \A i \in Ids : store[i] # None => Ready(store[i])

(* Whatever has an id is stored; a toggle is of a monitor the client has. *)
IdInv ==
  /\ \A i \in Ids : inventory[i] # None => store[i] # None
  /\ \A i \in Ids : form.open /\ form.id = i => inventory[i] # None
  /\ \A c \in Slots : ~ Free(c) =>
       /\ \A i \in Ids : calls[c].id = i => store[i] # None
       /\ calls[c].kind = "toggle" => calls[c].id \in Ids /\ inventory[calls[c].id] # None
       /\ calls[c].status = "ok" => calls[c].id \in Ids

(* The two copies of a monitor are the same, and what the form was opened with is too, but
   for these fields. *)
Kept(i) == IF store[i] = None THEN inventory[i] = None ELSE Scanned(inventory[i]) = store[i]
Shows(i, but) ==
  form.open /\ form.id = i =>
    \A f \in Fields \ but : Scanned(form.original)[f] = reset(store[i])[f]
MayDiffer == IF form.toggled THEN {"active"} ELSE {}

(* Of a monitor the client is not in doubt about: one request at most is under way.  Until it
   has been served the copies are the same.  Then the store is ahead by what it asked for. *)
InStep(i) ==
  /\ \A c, d \in Slots :
       ~ Free(c) /\ ~ Free(d) /\ calls[c].id = i /\ calls[d].id = i => c = d
  /\ (\A c \in Slots : Waits(c, "ok") => calls[c].id # i) => Kept(i) /\ Shows(i, MayDiffer)
  /\ \A c \in Slots : Waits(c, "ok") /\ calls[c].id = i =>
       IF calls[c].kind = "save" THEN store[i] = Stored(c)
       ELSE /\ store[i] = [Scanned(inventory[i]) EXCEPT !.active = calls[c].value.active]
            /\ Shows(i, {"active"})

FormInv == TypeOK /\ ReadyInv /\ IdInv /\ \A i \in Ids \ doubt : InStep(i)

-----------------------------------------------------------------------------
(* What a request is made of. *)
LEMMA CallFacts ==
  ASSUME NEW call \in CallSet
  PROVE  /\ call.kind \in {"save", "toggle"} /\ call.status \in {"asked", "ok", "refused", "failed"}
         /\ call.id \in 0 .. MaxId /\ call.value \in MonitorSet /\ call.sent \in RowLists
         /\ call.shared \in BOOLEAN /\ call.here \in BOOLEAN /\ call # None
BY NoneAssumption DEF CallSet

(* What the form is made of. *)
LEMMA FormFacts ==
  ASSUME TypeOK
  PROVE  /\ form.open \in BOOLEAN /\ form.id \in 0 .. MaxId
         /\ form.draft \in MonitorSet \cup {None} /\ form.original \in MonitorSet \cup {None}
         /\ form.errors \in BOOLEAN /\ form.toggled \in BOOLEAN
         /\ form.open => form.draft \in MonitorSet /\ form.original \in MonitorSet
         /\ \A i \in Ids : /\ store[i] \in MonitorSet \cup {None}
                           /\ inventory[i] \in MonitorSet \cup {None}
         /\ \A c \in Slots : /\ calls[c] \in CallSet \cup {None}
                             /\ Free(c) <=> calls[c] \notin CallSet
<1>1. form \in FormSet /\ (form.open => form.draft # None /\ form.original # None)
  BY DEF TypeOK
<1>2. \A c \in Slots : calls[c] \in CallSet \cup {None} /\ (Free(c) <=> calls[c] \notin CallSet)
  BY NoneAssumption DEF TypeOK, Free
<1>3. \A i \in Ids : store[i] \in MonitorSet \cup {None} /\ inventory[i] \in MonitorSet \cup {None}
  BY DEF TypeOK
<1> QED BY <1>1, <1>2, <1>3 DEF FormSet

(* What is shown is reset, whatever it is. *)
LEMMA ShowFacts ==
  ASSUME NEW id \in 0 .. MaxId, NEW m \in MonitorSet \cup {None}, form.errors \in BOOLEAN
  PROVE  /\ Show(id, m) \in FormSet /\ Show(id, m).open /\ Show(id, m).id = id
         /\ Show(id, m).draft = reset(m) /\ Show(id, m).original = reset(m)
         /\ Show(id, m).draft # None /\ Show(id, m).original # None
         /\ Show(id, m).toggled = FALSE
         /\ Show(id, m).draft.method # None /\ Show(id, m).draft.protocol # None
<1>1. reset(m) \in MonitorSet /\ reset(m).method # None /\ reset(m).protocol # None /\ reset(m) # None
  BY ResetFacts, NoneAssumption
<1> QED BY <1>1 DEF Show, FormSet

(* A closed pane. *)
LEMMA ClosedFacts == Closed \in FormSet /\ ~ Closed.open
<1>1. MaxId \in Nat
  BY EditorAssumption
<1> QED BY <1>1 DEF Closed, FormSet

(* Storing and resetting do not depend on each other. *)
LEMMA ResetScanned ==
  ASSUME NEW m \in MonitorSet
  PROVE  \A f \in Fields : Scanned(reset(m))[f] = reset(Scanned(m))[f]
<1>1. /\ reset(m) \in MonitorSet /\ Scanned(m) \in MonitorSet /\ m # None /\ Scanned(m) # None
      /\ \A f \in Fields : reset(m)[f] = IF m[f] = None THEN Defaults[f] ELSE m[f]
      /\ \A f \in Fields : reset(Scanned(m))[f] = IF Scanned(m)[f] = None THEN Defaults[f] ELSE Scanned(m)[f]
  BY ResetFacts, ScannedFacts, NoneAssumption
<1>2. \A f \in Fields \ {"events"} : /\ Scanned(m)[f] = m[f] /\ Scanned(reset(m))[f] = reset(m)[f]
  BY <1>1, ScannedFacts
<1>3. "events" \in Fields /\ m.events # None /\ Scanned(m).events # None
  BY <1>1, FieldsAre, MonitorFacts, NoneAssumption
<1>4. reset(m).events = m.events
  BY <1>1, <1>3
<1>5. Scanned(reset(m)).events = Scanned(m).events
  <2>1. /\ m = [f \in Fields |-> m[f]] /\ reset(m) = [f \in Fields |-> reset(m)[f]]
    BY <1>1, MonitorIs
  <2> DEFINE list == [i \in DOMAIN m.events |-> Filled(m.events[i])]
  <2>2. Scanned(m) = [m EXCEPT !.events = list] /\ Scanned(reset(m)) = [reset(m) EXCEPT !.events = list]
    BY <1>4 DEF Scanned
  <2> HIDE DEF list
  <2> QED BY <1>3, <2>1, <2>2
<1> QED BY <1>1, <1>2, <1>3, <1>5

(* Nor do they depend on whether the monitor is active. *)
LEMMA ActiveFacts ==
  ASSUME NEW m \in MonitorSet, NEW b \in BOOLEAN
  PROVE  /\ [m EXCEPT !.active = b] \in MonitorSet
         /\ Scanned([m EXCEPT !.active = b]) = [Scanned(m) EXCEPT !.active = b]
         /\ \A f \in Fields \ {"active"} : reset([m EXCEPT !.active = b])[f] = reset(m)[f]
         /\ Ready(m) => Ready([m EXCEPT !.active = b])
         /\ \A f \in Fields \ {"active"} : [m EXCEPT !.active = b][f] = m[f]
<1> DEFINE n == [m EXCEPT !.active = b]
<1>1. "active" \in Fields /\ Holds("active", b)
  BY FieldsAre DEF Holds, NumberFields, EchoFields
<1>2. n \in MonitorSet /\ n.active = b /\ \A f \in Fields \ {"active"} : n[f] = m[f]
  <2>1. [m EXCEPT !["active"] = b] \in MonitorSet /\ [m EXCEPT !["active"] = b]["active"] = b
        /\ \A g \in Fields \ {"active"} : [m EXCEPT !["active"] = b][g] = m[g]
    BY <1>1, ExceptMonitor
  <2> QED BY <2>1
<1>3. Scanned(n) = [Scanned(m) EXCEPT !.active = b]
  <2> DEFINE list == [i \in DOMAIN m.events |-> Filled(m.events[i])]
  <2>1. n.events = m.events
    BY <1>2, FieldsAre
  <2>2. Scanned(n) = [n EXCEPT !.events = list] /\ Scanned(m) = [m EXCEPT !.events = list]
    BY <2>1 DEF Scanned
  <2>3. m = [f \in Fields |-> m[f]]
    BY MonitorIs
  <2> HIDE DEF list
  <2> QED BY <2>2, <2>3, <1>1, FieldsAre
<1>4. \A f \in Fields \ {"active"} : reset(n)[f] = reset(m)[f]
  BY <1>2, ResetFacts, NoneAssumption
<1>5. Ready(m) => Ready(n)
  <2>1. n.timeout = m.timeout /\ n.kind = m.kind /\ m.kind \in Kinds
    BY <1>2, FieldsAre, MonitorFacts
  <2>2. "active" \notin Dereferenced(m.kind) /\ Dereferenced(m.kind) \subseteq Fields
    BY <2>1, ClearedFacts DEF Kinds, Dereferenced, EchoFields
  <2> QED BY <1>2, <2>1, <2>2 DEF Ready
<1> HIDE DEF n
<1> QED BY <1>2, <1>3, <1>4, <1>5 DEF n

(* Nothing about a monitor changes when its copies, its requests and the form that shows it
   do not. *)
LEMMA InStepKept ==
  ASSUME NEW i \in Ids, InStep(i),
         store'[i] = store[i], inventory'[i] = inventory[i],
         \A c \in Slots : ~ Free(c)' /\ calls'[c].id = i => ~ Free(c) /\ calls[c].id = i,
         \A c \in Slots : Waits(c, "ok") /\ calls[c].id = i =>
           /\ Waits(c, "ok")' /\ calls'[c].id = i /\ calls'[c].kind = calls[c].kind
           /\ Stored(c)' = Stored(c) /\ calls'[c].value.active = calls[c].value.active,
         \A c \in Slots : Waits(c, "ok")' /\ calls'[c].id = i => Waits(c, "ok"),
         (form.open /\ form.id = i)' =>
           /\ form.open /\ form.id = i
           /\ form'.original = form.original /\ form'.toggled = form.toggled
  PROVE  InStep(i)'
<1>1. \A but : Shows(i, but) => Shows(i, but)'
  BY DEF Shows
<1>2. Kept(i)' <=> Kept(i)
  BY DEF Kept
<1>3. (form.open /\ form.id = i)' => MayDiffer' = MayDiffer
  BY DEF MayDiffer
<1>4. Shows(i, MayDiffer) => Shows(i, MayDiffer)'
  BY <1>1, <1>3 DEF Shows
<1>5. (\A c, d \in Slots :
         ~ Free(c) /\ ~ Free(d) /\ calls[c].id = i /\ calls[d].id = i => c = d)'
  BY DEF InStep
<1>6. ((\A c \in Slots : Waits(c, "ok") => calls[c].id # i) => Kept(i) /\ Shows(i, MayDiffer))'
  BY <1>2, <1>4 DEF InStep
<1>7. ASSUME NEW c \in Slots, Waits(c, "ok")', calls'[c].id = i
      PROVE  IF calls'[c].kind = "save" THEN store'[i] = Stored(c)'
             ELSE /\ store'[i] = [Scanned(inventory'[i]) EXCEPT !.active = calls'[c].value.active]
                  /\ Shows(i, {"active"})'
  <2>1. Waits(c, "ok") /\ calls[c].id = i
    BY <1>7 DEF Waits
  <2>2. /\ calls'[c].kind = calls[c].kind
        /\ Stored(c)' = Stored(c) /\ calls'[c].value.active = calls[c].value.active
    BY <2>1
  <2> QED BY <1>1, <2>1, <2>2 DEF InStep
<1> QED BY <1>5, <1>6, <1>7 DEF InStep

(* What a request keeps when the form changes: all but the headers that they share. *)
Alike(c) ==
  IF Free(c) THEN Free(c)'
  ELSE /\ calls'[c] \in CallSet /\ calls'[c].kind = calls[c].kind
       /\ calls'[c].status = calls[c].status /\ calls'[c].id = calls[c].id
       /\ \A f \in Fields \ {"headers"} : calls'[c].value[f] = calls[c].value[f]
       /\ Stored(c)' = Stored(c)

(* A draft that is split anew leaves its requests as they are, but for what they share. *)
LEMMA PartedFacts ==
  ASSUME TypeOK, NEW here \in BOOLEAN, NEW c \in Slots, NEW call, call = Parted(here)[c]
  PROVE  IF Free(c) THEN call = None
         ELSE /\ call \in CallSet /\ call.kind = calls[c].kind
              /\ call.status = calls[c].status /\ call.id = calls[c].id
              /\ call.value = calls[c].value /\ call.sent = calls[c].sent
<1>1. /\ calls[c] \in CallSet \cup {None}
      /\ call = IF Free(c) THEN None ELSE [calls[c] EXCEPT !.shared = FALSE, !.here = @ /\ here]
  BY FormFacts DEF Parted
<1>2. CASE ~ Free(c)
  <2>1. calls[c] \in CallSet
    BY <1>1, <1>2 DEF Free
  <2>2. (calls[c].here /\ here) \in BOOLEAN
    OBVIOUS
  <2> QED BY <1>1, <1>2, <2>1, <2>2 DEF CallSet
<1> QED BY <1>1, <1>2

(* A pane that moves on leaves every request as it was, but for what it shares. *)
LEMMA PartedAlike ==
  ASSUME TypeOK, NEW here \in BOOLEAN, NEW c \in Slots, calls'[c] = Parted(here)[c]
  PROVE  Alike(c) /\ calls'[c] \in CallSet \cup {None}
<1>1. CASE Free(c)
  BY <1>1, PartedFacts DEF Alike, Free
<1>2. CASE ~ Free(c)
  <2>1. /\ calls'[c] \in CallSet /\ calls'[c].kind = calls[c].kind
        /\ calls'[c].status = calls[c].status /\ calls'[c].id = calls[c].id
        /\ calls'[c].value = calls[c].value /\ calls'[c].sent = calls[c].sent
    BY <1>2, PartedFacts
  <2> QED BY <1>2, <2>1 DEF Alike, Stored
<1> QED BY <1>1, <1>2

(* What alike requests have in common. *)
LEMMA AlikeFacts ==
  ASSUME TypeOK, NEW c \in Slots, Alike(c)
  PROVE  /\ Free(c)' <=> Free(c)
         /\ ~ Free(c) => /\ calls'[c].kind = calls[c].kind /\ calls'[c].status = calls[c].status
                         /\ calls'[c].id = calls[c].id /\ Stored(c)' = Stored(c)
                         /\ calls'[c].value.active = calls[c].value.active
                         /\ Ready(calls'[c].value) <=> Ready(calls[c].value)
<1>1. Free(c)' <=> Free(c)
  BY NoneAssumption DEF Alike, Free
<1>2. ASSUME ~ Free(c)
      PROVE  /\ calls'[c].value.active = calls[c].value.active
             /\ Ready(calls'[c].value) <=> Ready(calls[c].value)
  <2>1. \A f \in Fields \ {"headers"} : calls'[c].value[f] = calls[c].value[f]
    BY <1>2 DEF Alike
  <2>2. calls[c].value.kind \in Kinds
    BY <1>2, FormFacts, CallFacts, MonitorFacts
  <2>3. \A f \in Dereferenced(calls[c].value.kind) : f \in Fields \ {"headers"}
    BY <2>2, FieldsAre DEF Kinds, Dereferenced, EchoFields
  <2> QED BY <2>1, <2>3, FieldsAre DEF Ready
<1> QED BY <1>1, <1>2 DEF Alike

(* The user moves in the form; nothing else is touched. *)
LEMMA FormChange ==
  ASSUME FormInv, UNCHANGED <<store, inventory, doubt>>, edits' \in 0 .. MaxEdits,
         calls' \in [Slots -> CallSet \cup {None}], \A c \in Slots : Alike(c),
         form' \in FormSet, form'.open => form'.draft # None /\ form'.original # None,
         form'.open => form'.draft.method # None /\ form'.draft.protocol # None,
         \/ ~ form'.open \/ form'.id = 0
         \/ /\ form.open /\ form'.id = form.id
            /\ form'.original = form.original /\ form'.toggled = form.toggled
         \/ \E i \in Ids : inventory[i] # None /\ form' = Show(i, inventory[i])
  PROVE  FormInv'
<1>1. \A c \in Slots :
        /\ Free(c)' <=> Free(c)
        /\ ~ Free(c) => /\ calls'[c].kind = calls[c].kind /\ calls'[c].status = calls[c].status
                        /\ calls'[c].id = calls[c].id /\ Stored(c)' = Stored(c)
                        /\ calls'[c].value.active = calls[c].value.active
                        /\ Ready(calls'[c].value) <=> Ready(calls[c].value)
  BY AlikeFacts DEF FormInv
<1>2. TypeOK'
  BY DEF FormInv, TypeOK
<1>3. ReadyInv'
  BY <1>1 DEF FormInv, ReadyInv
<1>4. \A i \in Ids : form'.open /\ form'.id = i =>
        \/ /\ form.open /\ form.id = i
           /\ form'.original = form.original /\ form'.toggled = form.toggled
        \/ inventory[i] # None /\ form' = Show(i, inventory[i])
  <2>1. 0 \notin Ids
    BY DEF Ids
  <2> QED BY <2>1 DEF Show
<1>5. IdInv'
  BY <1>1, <1>4 DEF FormInv, IdInv
<1>6. ASSUME NEW i \in Ids \ doubt
      PROVE  InStep(i)'
  <2>1. InStep(i) /\ i \in Ids
    BY <1>6 DEF FormInv
  <2>2. CASE form'.open /\ form'.id = i => /\ form.open /\ form.id = i
                                           /\ form'.original = form.original
                                           /\ form'.toggled = form.toggled
    BY <1>1, <2>1, <2>2, InStepKept DEF Waits
  <2>3. CASE inventory[i] # None /\ form' = Show(i, inventory[i])
    <3> DEFINE m == inventory[i]
    <3>1. m \in MonitorSet /\ store[i] \in MonitorSet /\ store[i] # None
      BY <2>1, <2>3, FormFacts DEF FormInv, IdInv
    <3>2. form'.original = reset(m) /\ form'.toggled = FALSE
      BY <2>3 DEF Show
    <3>3. Kept(i) => Shows(i, MayDiffer)'
      BY <3>1, <3>2, ResetScanned DEF Kept, Shows
    <3>4. ASSUME NEW b \in BOOLEAN, store[i] = [Scanned(m) EXCEPT !.active = b]
          PROVE  Shows(i, {"active"})'
      <4>1. Scanned(m) \in MonitorSet
        BY <3>1, ScannedFacts
      <4>2. \A f \in Fields \ {"active"} : reset(store[i])[f] = reset(Scanned(m))[f]
        <5> DEFINE n == Scanned(m)
        <5> HIDE DEF n
        <5>1. \A f \in Fields \ {"active"} : reset([n EXCEPT !.active = b])[f] = reset(n)[f]
          BY <3>4, <4>1, ActiveFacts DEF n
        <5> QED BY <3>4, <5>1 DEF n
      <4>3. \A f \in Fields : Scanned(reset(m))[f] = reset(Scanned(m))[f]
        BY <3>1, ResetScanned
      <4> HIDE DEF m
      <4> QED BY <3>2, <4>2, <4>3 DEF Shows
    <3>5. Kept(i)' <=> Kept(i)
      BY DEF Kept
    <3>6. \A c \in Slots : ~ Free(c) => calls[c].value.active \in BOOLEAN
      BY FormFacts, CallFacts, MonitorFacts DEF FormInv
    <3>7. \A c \in Slots : Waits(c, "ok")' <=> Waits(c, "ok")
      BY <1>1 DEF Waits
    <3> HIDE DEF m
    <3>8. (\A c, d \in Slots :
             ~ Free(c) /\ ~ Free(d) /\ calls[c].id = i /\ calls[d].id = i => c = d)'
      BY <1>1, <2>1 DEF InStep
    <3>9. ((\A c \in Slots : Waits(c, "ok") => calls[c].id # i) => Kept(i) /\ Shows(i, MayDiffer))'
      BY <1>1, <2>1, <3>3, <3>5, <3>7 DEF InStep, Waits
    <3>10. ASSUME NEW c \in Slots, Waits(c, "ok")', calls'[c].id = i
           PROVE  IF calls'[c].kind = "save" THEN store'[i] = Stored(c)'
                  ELSE /\ store'[i] = [Scanned(inventory'[i]) EXCEPT !.active = calls'[c].value.active]
                       /\ Shows(i, {"active"})'
      <4>1. /\ Waits(c, "ok") /\ calls[c].id = i /\ ~ Free(c)
            /\ calls'[c].kind = calls[c].kind /\ Stored(c)' = Stored(c)
            /\ calls'[c].value.active = calls[c].value.active
        BY <1>1, <3>7, <3>10 DEF Waits
      <4>2. IF calls[c].kind = "save" THEN store[i] = Stored(c)
            ELSE store[i] = [Scanned(inventory[i]) EXCEPT !.active = calls[c].value.active]
        BY <2>1, <4>1 DEF InStep
      <4> QED BY <3>4, <3>6, <4>1, <4>2 DEF m
    <3> QED BY <3>8, <3>9, <3>10 DEF InStep
  <2> QED BY <1>4, <2>1, <2>2, <2>3
<1> QED BY <1>2, <1>3, <1>5, <1>6 DEF FormInv

-----------------------------------------------------------------------------
(* The user opens, edits and closes the form. *)

(* The pane shows a monitor, a new draft, or nothing; no request is of it any more. *)
LEMMA OpenStep ==
  ASSUME FormInv, (\E i \in Ids : OpenMonitor(i)) \/ OpenDraft \/ Close
  PROVE  FormInv'
<1>1. /\ UNCHANGED <<store, inventory, doubt>> /\ edits' = edits
      /\ \E here \in BOOLEAN : calls' = Parted(here)
      /\ \/ form' = Closed \/ form' = Show(0, None)
         \/ \E i \in Ids : inventory[i] # None /\ form' = Show(i, inventory[i])
  BY DEF OpenMonitor, OpenDraft, Close
<1>2. calls' \in [Slots -> CallSet \cup {None}] /\ \A c \in Slots : Alike(c)
  <2>1. PICK here \in BOOLEAN : calls' = Parted(here)
    BY <1>1
  <2>2. \A c \in Slots : Alike(c) /\ calls'[c] \in CallSet \cup {None}
    BY <2>1, PartedAlike DEF FormInv
  <2>3. calls' = [c \in Slots |-> calls'[c]]
    BY <2>1 DEF Parted
  <2> QED BY <2>2, <2>3
<1>3. /\ form' \in FormSet /\ (form'.open => form'.draft # None /\ form'.original # None)
      /\ form'.open => form'.draft.method # None /\ form'.draft.protocol # None
  <2>1. CASE form' = Closed
    BY <2>1, ClosedFacts
  <2>2. CASE form' = Show(0, None)
    <3>1. 0 \in 0 .. MaxId /\ None \in MonitorSet \cup {None} /\ form.errors \in BOOLEAN
      BY FormFacts, EditorAssumption DEF FormInv
    <3> QED BY <2>2, <3>1, ShowFacts
  <2>3. ASSUME NEW i \in Ids, form' = Show(i, inventory[i])
        PROVE  /\ form' \in FormSet /\ (form'.open => form'.draft # None /\ form'.original # None)
               /\ form'.open => form'.draft.method # None /\ form'.draft.protocol # None
    <3>1. i \in 0 .. MaxId /\ inventory[i] \in MonitorSet \cup {None} /\ form.errors \in BOOLEAN
      BY FormFacts DEF FormInv, Ids
    <3> QED BY <2>3, <3>1, ShowFacts
  <2> QED BY <1>1, <2>1, <2>2, <2>3
<1>4. \/ ~ form'.open \/ form'.id = 0
      \/ \E i \in Ids : inventory[i] # None /\ form' = Show(i, inventory[i])
  BY <1>1, ClosedFacts DEF Show
<1>5. edits' \in 0 .. MaxEdits
  BY <1>1 DEF FormInv, TypeOK
<1> QED BY <1>1, <1>2, <1>3, <1>4, <1>5, FormChange

(* What is typed stays in the types, and leaves a method and a protocol. *)
LEMMA RowsFacts ==
  /\ \A rows \in RowLists : Rows(rows) \subseteq RowLists
  /\ \A args \in RowLists \cup {None} : EventArgs(args) \subseteq RowLists \cup {None}
<1>1. \A rows \in RowLists : Rows(rows) \subseteq RowLists
  BY DEF Rows, RowLists
<1>2. <<>> \in RowLists
  BY DEF RowLists
<1> QED BY <1>1, <1>2 DEF EventArgs

(* One field of a draft is changed. *)
LEMMA ChangedField ==
  ASSUME NEW m \in MonitorSet, m.method # None, m.protocol # None,
         NEW f \in Fields, NEW v, Holds(f, v), f \in {"method", "protocol"} => v # None
  PROVE  /\ [m EXCEPT ![f] = v] \in MonitorSet
         /\ [m EXCEPT ![f] = v].method # None /\ [m EXCEPT ![f] = v].protocol # None
<1> DEFINE n == [m EXCEPT ![f] = v]
<1>1. n \in MonitorSet /\ n[f] = v /\ \A g \in Fields \ {f} : n[g] = m[g]
  BY ExceptMonitor
<1> HIDE DEF n
<1>2. n.method # None /\ n.protocol # None
  BY <1>1, FieldsAre
<1> QED BY <1>1, <1>2 DEF n

(* What can be typed into a field, it can hold. *)
LEMMA TypedFacts ==
  ASSUME NEW m \in MonitorSet, NEW f \in DOMAIN Typed(m), NEW v \in Typed(m)[f]
  PROVE  /\ f \in Fields /\ Holds(f, v)
         /\ f \in {"method", "protocol"} => v # None
<1>1. m.kind \in Kinds /\ m.args \in RowLists
  BY MonitorFacts
<1>2. CASE m.kind = "HTTP"
  <2>1. DOMAIN Typed(m) = {"address", "method", "range"}
        /\ Typed(m)["address"] = {None, "a"} /\ Typed(m)["method"] = {"GET", "OPTIONS"}
        /\ Typed(m)["range"] = {"2xx", "4xx"}
    BY <1>2 DEF Typed
  <2> QED BY <2>1, FieldsAre, NoneAssumption DEF Holds, NumberFields, EchoFields
<1>3. CASE m.kind = "TCP"
  <2>1. DOMAIN Typed(m) = {"address", "port"}
        /\ Typed(m)["address"] = {None, "a"} /\ Typed(m)["port"] = Ports \cup {None}
    BY <1>3 DEF Typed
  <2> QED BY <2>1, FieldsAre DEF Holds, NumberFields, EchoFields
<1>4. CASE m.kind = "ICMP"
  <2>1. DOMAIN Typed(m) = {"address", "protocol", "size", "wait", "count", "ttl", "loss"}
        /\ Typed(m)["address"] = {None, "a"} /\ Typed(m)["protocol"] = {"ICMP", "UDP"}
        /\ Typed(m)["size"] = Numbers /\ Typed(m)["wait"] = Numbers /\ Typed(m)["count"] = Numbers
        /\ Typed(m)["ttl"] = Numbers /\ Typed(m)["loss"] = {None, 1}
    BY <1>4 DEF Typed
  <2>2. 1 \in Numbers /\ None \in Numbers
    BY DEF Numbers
  <2> QED BY <2>1, <2>2, FieldsAre, NoneAssumption DEF Holds, NumberFields, EchoFields
<1>5. CASE m.kind = "PLUGIN"
  <2>1. DOMAIN Typed(m) = {"plugin", "args"}
        /\ Typed(m)["plugin"] = Plugins /\ Typed(m)["args"] = Rows(m.args)
    BY <1>5 DEF Typed
  <2>2. Rows(m.args) \subseteq RowLists
    BY <1>1, RowsFacts
  <2> QED BY <2>1, <2>2, FieldsAre DEF Holds, NumberFields, EchoFields
<1> QED BY <1>1, <1>2, <1>3, <1>4, <1>5 DEF Kinds

(* A draft stays a monitor, with a method and a protocol, whatever is typed. *)
LEMMA EditedMonitorFacts ==
  ASSUME NEW m \in MonitorSet, m.method # None, m.protocol # None, NEW n \in EditedMonitor(m)
  PROVE  n \in MonitorSet /\ n.method # None /\ n.protocol # None
<1>1. CASE \E f \in Fields : \E v :
                Holds(f, v) /\ (f \in {"method", "protocol"} => v # None) /\ n = [m EXCEPT ![f] = v]
  BY <1>1, ChangedField
<1>2. CASE \E kind \in Kinds \ {m.kind} : n = WithKind(m, kind)
  <2>1. PICK kind \in Kinds : n = WithKind(m, kind)
    BY <1>2
  <2> DEFINE plugin == IF kind # "PLUGIN" THEN None
                       ELSE IF m.plugin # None THEN m.plugin ELSE FirstPlugin
             one == [m EXCEPT !["kind"] = kind]
  <2>2. Holds("kind", kind) /\ Holds("plugin", plugin) /\ "kind" \in Fields /\ "plugin" \in Fields
    BY MonitorFacts, FirstIsPlugin, FieldsAre DEF Holds, NumberFields, EchoFields
  <2>3. one \in MonitorSet /\ one.method # None /\ one.protocol # None
    BY <2>2, ChangedField
  <2>4. n = [one EXCEPT !["plugin"] = plugin]
    BY <2>1 DEF WithKind
  <2> HIDE DEF one, plugin
  <2> QED BY <2>2, <2>3, <2>4, ChangedField
<1>3. "name" \in Fields /\ "active" \in Fields /\ "interval" \in Fields /\ "timeout" \in Fields
  BY FieldsAre
<1>4. CASE \E name \in {None, "a"} : n = [m EXCEPT !.name = name]
  <2>1. PICK v \in {None, "a"} : n = [m EXCEPT !["name"] = v]
    BY <1>4
  <2>2. Holds("name", v)
    BY DEF Holds, NumberFields, EchoFields
  <2> QED BY <1>1, <1>3, <2>1, <2>2
<1>5. CASE \E v \in BOOLEAN : n = [m EXCEPT !.active = v]
  <2>1. PICK v \in BOOLEAN : n = [m EXCEPT !["active"] = v]
    BY <1>5
  <2>2. Holds("active", v)
    BY DEF Holds, NumberFields, EchoFields
  <2> QED BY <1>1, <1>3, <2>1, <2>2
<1>6. CASE \E v \in Numbers : n = [m EXCEPT !.interval = v]
  <2>1. PICK v \in Numbers : n = [m EXCEPT !["interval"] = v]
    BY <1>6
  <2>2. Holds("interval", v)
    BY DEF Holds, NumberFields, EchoFields
  <2> QED BY <1>1, <1>3, <2>1, <2>2
<1>7. CASE \E v \in Numbers : n = [m EXCEPT !.timeout = v]
  <2>1. PICK v \in Numbers : n = [m EXCEPT !["timeout"] = v]
    BY <1>7
  <2>2. Holds("timeout", v)
    BY DEF Holds, NumberFields, EchoFields
  <2> QED BY <1>1, <1>3, <2>1, <2>2
<1>8. CASE \E f \in DOMAIN Typed(m) : \E v \in Typed(m)[f] : n = [m EXCEPT ![f] = v]
  <2>1. PICK f \in DOMAIN Typed(m) : \E v \in Typed(m)[f] : n = [m EXCEPT ![f] = v]
    BY <1>8
  <2>2. PICK v \in Typed(m)[f] : n = [m EXCEPT ![f] = v]
    BY <2>1
  <2>3. f \in Fields /\ Holds(f, v) /\ (f \in {"method", "protocol"} => v # None)
    BY TypedFacts
  <2> QED BY <2>2, <2>3, ChangedField
<1> DEFINE typed == UNION {{[m EXCEPT ![f] = v] : v \in Typed(m)[f]} : f \in DOMAIN Typed(m)}
<1>9. n \in typed => \E f \in DOMAIN Typed(m) : \E v \in Typed(m)[f] : n = [m EXCEPT ![f] = v]
  OBVIOUS
<1>10. \/ \E name \in {None, "a"} : n = [m EXCEPT !.name = name]
       \/ \E v \in BOOLEAN : n = [m EXCEPT !.active = v]
       \/ \E v \in Numbers : n = [m EXCEPT !.interval = v]
       \/ \E v \in Numbers : n = [m EXCEPT !.timeout = v]
       \/ \E kind \in Kinds \ {m.kind} : n = WithKind(m, kind)
       \/ n \in typed
  BY DEF EditedMonitor
<1> HIDE DEF typed
<1>11. CASE n \in typed
  BY <1>8, <1>9, <1>11
<1> QED BY <1>2, <1>4, <1>5, <1>6, <1>7, <1>10, <1>11, Zenon

(* A list of one event with the event changed. *)
LEMMA ChangedEvent ==
  ASSUME NEW m \in MonitorSet, m.method # None, m.protocol # None, m.events # <<>>,
         NEW event \in EventSet
  PROVE  LET n == [m EXCEPT !.events = [m.events EXCEPT ![1] = event]]
         IN n \in MonitorSet /\ n.method # None /\ n.protocol # None
<1> DEFINE list == [m.events EXCEPT ![1] = event]
<1>1. m.events \in Seq(EventSet) /\ Len(m.events) <= 1
  BY MonitorFacts
<1>2. list \in Seq(EventSet) /\ Len(list) <= 1
  BY <1>1
<1> HIDE DEF list
<1>3. Holds("events", list) /\ "events" \in Fields
  BY <1>2, FieldsAre DEF Holds, NumberFields, EchoFields
<1> DEFINE n == [m EXCEPT !["events"] = list]
<1>4. n \in MonitorSet /\ n.method # None /\ n.protocol # None
  BY <1>3, ChangedField
<1> QED BY <1>4 DEF list

(* The same of its events. *)
LEMMA EditedEventsFacts ==
  ASSUME NEW m \in MonitorSet, m.method # None, m.protocol # None, NEW n \in EditedEvents(m)
  PROVE  n \in MonitorSet /\ n.method # None /\ n.protocol # None
<1>0. /\ m.events \in Seq(EventSet) /\ "events" \in Fields
      /\ m = [f \in Fields |-> m[f]]
  BY MonitorFacts, MonitorIs, FieldsAre
<1>1. CASE m.events = <<>>
  <2> DEFINE event == [plugin |-> FirstPlugin, args |-> <<>>]
             list == <<event>>
  <2>1. event \in EventSet
    BY FirstIsPlugin DEF EventSet, RowLists
  <2>2. list \in Seq(EventSet) /\ Len(list) <= 1
    BY <2>1
  <2>3. n = [m EXCEPT !["events"] = list]
    BY <1>1 DEF EditedEvents
  <2> HIDE DEF list
  <2>4. Holds("events", list)
    BY <2>2 DEF Holds, NumberFields, EchoFields
  <2> QED BY <1>0, <2>3, <2>4, ChangedField
<1>2. CASE m.events # <<>> /\ n = [m EXCEPT !.events = <<>>]
  <2>1. Holds("events", <<>>)
    <3>1. <<>> \in Seq(EventSet) /\ Len(<<>>) <= 1
      OBVIOUS
    <3> QED BY <3>1 DEF Holds, NumberFields, EchoFields
  <2>2. n = [m EXCEPT !["events"] = <<>>]
    BY <1>2
  <2> QED BY <1>0, <2>1, <2>2, ChangedField
<1>3. ASSUME m.events # <<>>
      PROVE  m.events[1] \in EventSet /\ m.events[1].args \in RowLists \cup {None}
  <2>1. m.events[1] \in EventSet
    BY <1>0, <1>3
  <2> QED BY <2>1 DEF EventSet
<1>4. ASSUME m.events # <<>>, NEW p \in Plugins, n = [m EXCEPT !.events[1].plugin = p]
      PROVE  n \in MonitorSet /\ n.method # None /\ n.protocol # None
  <2> DEFINE event == [m.events[1] EXCEPT !.plugin = p]
  <2>1. event \in EventSet
    BY <1>3, <1>4 DEF EventSet
  <2>2. n = [m EXCEPT !.events = [m.events EXCEPT ![1] = event]]
    BY <1>4
  <2> HIDE DEF event
  <2> QED BY <1>4, <2>1, <2>2, ChangedEvent
<1>5. ASSUME m.events # <<>>, NEW args \in EventArgs(m.events[1].args),
             n = [m EXCEPT !.events[1].args = args]
      PROVE  n \in MonitorSet /\ n.method # None /\ n.protocol # None
  <2> DEFINE event == [m.events[1] EXCEPT !.args = args]
  <2>0. args \in RowLists \cup {None}
    BY <1>3, <1>5, RowsFacts
  <2>1. event \in EventSet
    BY <1>3, <1>5, <2>0 DEF EventSet
  <2>2. n = [m EXCEPT !.events = [m.events EXCEPT ![1] = event]]
    BY <1>5
  <2> HIDE DEF event
  <2> QED BY <1>5, <2>1, <2>2, ChangedEvent
<1> QED BY <1>1, <1>2, <1>4, <1>5 DEF EditedEvents

(* An edit changes the draft only. *)
LEMMA EditStep ==
  ASSUME FormInv, Edit
  PROVE  FormInv'
<1>1. /\ form.open /\ form.draft \in MonitorSet /\ form \in FormSet
      /\ form.draft.method # None /\ form.draft.protocol # None
      /\ form.original # None /\ edits' \in 0 .. MaxEdits
  BY FormFacts, EditorAssumption DEF FormInv, TypeOK, ReadyInv, Edit, CanWork
<1>2. PICK draft \in EditedMonitor(form.draft) \cup EditedEvents(form.draft) :
        form' = [form EXCEPT !.draft = draft]
  BY DEF Edit
<1>3. draft \in MonitorSet /\ draft.method # None /\ draft.protocol # None /\ draft # None
  BY <1>1, <1>2, EditedMonitorFacts, EditedEventsFacts, NoneAssumption
<1>4. /\ form' \in FormSet /\ form'.open = form.open /\ form'.id = form.id /\ form'.draft = draft
      /\ form'.original = form.original /\ form'.toggled = form.toggled
  BY <1>1, <1>2, <1>3 DEF FormSet
<1>5. UNCHANGED <<store, inventory, doubt, calls>>
  BY DEF Edit
<1>6. calls' \in [Slots -> CallSet \cup {None}]
  BY <1>5 DEF FormInv, TypeOK
<1>7. \A c \in Slots : Alike(c)
  BY <1>5, FormFacts DEF FormInv, Alike, Stored, Free
<1> QED BY <1>1, <1>3, <1>4, <1>5, <1>6, <1>7, FormChange

(* What was sent is not changed by what is typed into the headers meanwhile. *)
LEMMA HeadersFacts ==
  ASSUME NEW m \in MonitorSet, NEW headers \in RowLists, NEW sent \in RowLists
  PROVE  LET n == [m EXCEPT !.headers = headers]
         IN /\ n \in MonitorSet /\ \A f \in Fields \ {"headers"} : n[f] = m[f]
            /\ [n EXCEPT !.headers = sent] = [m EXCEPT !.headers = sent]
<1> DEFINE n == [m EXCEPT !["headers"] = headers]
<1>1. Holds("headers", headers) /\ "headers" \in Fields
  BY FieldsAre DEF Holds, NumberFields, EchoFields
<1>2. n \in MonitorSet /\ \A f \in Fields \ {"headers"} : n[f] = m[f]
  BY <1>1, ExceptMonitor
<1>3. [n EXCEPT !.headers = sent] = [m EXCEPT !.headers = sent]
  BY <1>1, MonitorIs
<1> QED BY <1>2, <1>3

(* A header is typed, which a request may share. *)
LEMMA EditHeadersStep ==
  ASSUME FormInv, EditHeaders
  PROVE  FormInv'
<1>1. /\ form.open /\ form.draft \in MonitorSet /\ form \in FormSet
      /\ form.draft.method # None /\ form.draft.protocol # None
      /\ form.original # None /\ edits' \in 0 .. MaxEdits
  BY FormFacts, EditorAssumption DEF FormInv, TypeOK, ReadyInv, EditHeaders, CanWork
<1>2. PICK headers \in Rows(form.draft.headers) :
        /\ form' = [form EXCEPT !.draft.headers = headers]
        /\ calls' = [c \in Slots |->
                       IF Free(c) \/ ~ calls[c].shared THEN calls[c]
                       ELSE IF headers = <<>> THEN [calls[c] EXCEPT !.shared = FALSE]
                       ELSE [calls[c] EXCEPT !.value.headers = headers]]
  BY DEF EditHeaders
<1>3. headers \in RowLists
  BY <1>1, MonitorFacts, RowsFacts
<1> DEFINE draft == [form.draft EXCEPT !.headers = headers]
<1>4. draft \in MonitorSet /\ draft.method # None /\ draft.protocol # None /\ draft # None
  <2>1. draft \in MonitorSet /\ \A f \in Fields \ {"headers"} : draft[f] = form.draft[f]
    BY <1>1, <1>3, HeadersFacts
  <2> HIDE DEF draft
  <2> QED BY <1>1, <2>1, FieldsAre, NoneAssumption
<1>5. form' = [form EXCEPT !.draft = draft]
  BY <1>2
<1> HIDE DEF draft
<1>6. /\ form' \in FormSet /\ form'.open = form.open /\ form'.id = form.id /\ form'.draft = draft
      /\ form'.original = form.original /\ form'.toggled = form.toggled
  BY <1>1, <1>4, <1>5 DEF FormSet
<1>7. UNCHANGED <<store, inventory, doubt>>
  BY DEF EditHeaders
<1>8. ASSUME NEW c \in Slots
      PROVE  Alike(c) /\ calls'[c] \in CallSet \cup {None}
  <2>1. CASE Free(c) \/ ~ calls[c].shared
    <3>1. calls'[c] = calls[c]
      BY <1>2, <2>1
    <3> QED BY <3>1, FormFacts DEF FormInv, Alike, Stored, Free
  <2>2. CASE ~ Free(c) /\ calls[c].shared
    <3>1. calls[c] \in CallSet /\ calls[c].value \in MonitorSet /\ calls[c].sent \in RowLists
      BY <2>2, FormFacts, CallFacts DEF FormInv
    <3>2. CASE headers = <<>>
      <4>1. calls'[c] = [calls[c] EXCEPT !.shared = FALSE]
        BY <1>2, <2>2, <3>2
      <4>2. /\ calls'[c] \in CallSet /\ calls'[c].kind = calls[c].kind
            /\ calls'[c].status = calls[c].status /\ calls'[c].id = calls[c].id
            /\ calls'[c].value = calls[c].value /\ calls'[c].sent = calls[c].sent
        BY <3>1, <4>1 DEF CallSet
      <4> QED BY <2>2, <4>2 DEF Alike, Stored
    <3>3. CASE headers # <<>>
      <4> DEFINE value == [calls[c].value EXCEPT !.headers = headers]
      <4>1. calls'[c] = [calls[c] EXCEPT !.value = value]
        BY <1>2, <2>2, <3>3
      <4>2. /\ value \in MonitorSet /\ \A f \in Fields \ {"headers"} : value[f] = calls[c].value[f]
            /\ [value EXCEPT !.headers = calls[c].sent] = [calls[c].value EXCEPT !.headers = calls[c].sent]
        BY <1>3, <3>1, HeadersFacts
      <4> HIDE DEF value
      <4>3. /\ calls'[c] \in CallSet /\ calls'[c].kind = calls[c].kind
            /\ calls'[c].status = calls[c].status /\ calls'[c].id = calls[c].id
            /\ calls'[c].value = value /\ calls'[c].sent = calls[c].sent
        BY <3>1, <4>1, <4>2 DEF CallSet
      <4> QED BY <2>2, <4>2, <4>3 DEF Alike, Stored
    <3> QED BY <3>2, <3>3
  <2> QED BY <2>1, <2>2
<1>9. calls' \in [Slots -> CallSet \cup {None}]
  <2>1. calls' = [c \in Slots |-> calls'[c]]
    BY <1>2
  <2> QED BY <1>8, <2>1
<1> QED BY <1>1, <1>4, <1>6, <1>7, <1>8, <1>9, FormChange

-----------------------------------------------------------------------------
(* Requests are made. *)

(* What a probe reads without looking, the form has looked at, or always has. *)
LEMMA ValidFacts ==
  ASSUME NEW m \in MonitorSet, isValidMonitor(m), m.method # None, m.protocol # None
  PROVE  m.timeout # None /\ \A f \in Dereferenced(m.kind) : m[f] # None
<1>1. isValidProbe(m) /\ m.timeout # None
  BY NoneAssumption DEF isValidMonitor, isValidTimeout
<1>2. CASE m.kind = "HTTP"
  <2>1. m.address # None /\ m.range # None
    BY <1>1, <1>2 DEF isValidProbe
  <2>2. Dereferenced(m.kind) = {"address", "method", "range"}
    BY <1>2 DEF Dereferenced
  <2> QED BY <1>1, <2>1, <2>2
<1>3. CASE m.kind = "TCP"
  <2>1. m.address # None /\ m.port # None
    <3>1. \A n : isValidRemotePort(n) => n # None
      BY NoneAssumption DEF isValidRemotePort
    <3> QED BY <1>1, <1>3, <3>1 DEF isValidProbe
  <2>2. Dereferenced(m.kind) = {"address", "port"}
    BY <1>3 DEF Dereferenced
  <2> QED BY <1>1, <2>1, <2>2
<1>4. CASE m.kind = "ICMP"
  <2>1. m.address # None /\ \A f \in EchoFields : m[f] # None
    <3>1. \A n : isValidNonZeroWholeNumber(n) => n # None
      BY NoneAssumption DEF isValidNonZeroWholeNumber
    <3> QED BY <1>1, <1>4, <3>1 DEF isValidProbe
  <2>2. Dereferenced(m.kind) = EchoFields \cup {"address", "protocol"}
    BY <1>4 DEF Dereferenced
  <2> QED BY <1>1, <2>1, <2>2
<1>5. CASE m.kind = "PLUGIN"
  <2>1. m.plugin # None
    BY <1>1, <1>5 DEF isValidProbe
  <2>2. Dereferenced(m.kind) = {"plugin"}
    BY <1>5 DEF Dereferenced
  <2> QED BY <1>1, <2>1, <2>2
<1>6. m.kind \in Kinds
  BY MonitorFacts
<1> QED BY <1>2, <1>3, <1>4, <1>5, <1>6 DEF Kinds

(* What the client lets through can be polled. *)
LEMMA SavedIsReady ==
  ASSUME FormInv, form.open, canSave
  PROVE  sanitize(form.draft) \in MonitorSet /\ Ready(sanitize(form.draft))
<1> DEFINE m == form.draft
           n == sanitize(m)
<1>1. m \in MonitorSet /\ m.method # None /\ m.protocol # None
  BY FormFacts DEF FormInv, ReadyInv
<1>2. m.kind \in Kinds /\ m.timeout \in Numbers
  BY <1>1, MonitorFacts
<1>3. /\ n \in MonitorSet /\ n.kind = m.kind
      /\ \A f \in Fields \ Cleared(m.kind) : n[f] = m[f]
  BY <1>1, SanitizeFacts
<1>4. isValidMonitor(m)
  BY DEF canSave
<1>5. \A f \in Dereferenced(m.kind) : m[f] # None
  BY <1>1, <1>4, ValidFacts
<1>6. \A f \in Dereferenced(m.kind) : n[f] # None
  BY <1>2, <1>3, <1>5, ClearedFacts
<1>7. n.timeout \in Nat
  <2>1. "timeout" \in Fields \ Cleared(m.kind)
    BY <1>2, FieldsAre
       DEF Kinds, Cleared, HttpFields, EchoFields, IcmpFields, PluginFields
  <2> QED BY <1>2, <1>3, <1>4, <2>1 DEF isValidMonitor, isValidTimeout, Numbers
<1> HIDE DEF m, n
<1>8. n \in MonitorSet /\ Ready(n)
  BY <1>3, <1>6, <1>7 DEF Ready
<1> QED BY <1>8 DEF m, n

(* A new request, and what is known of it. *)
LEMMA CallIs ==
  ASSUME NEW kind \in {"save", "toggle"}, NEW id \in 0 .. MaxId, NEW m \in MonitorSet
  PROVE  /\ Call(kind, id, m) \in CallSet /\ Call(kind, id, m).kind = kind
         /\ Call(kind, id, m).status = "asked" /\ Call(kind, id, m).id = id
         /\ Call(kind, id, m).value = m
BY MonitorFacts DEF Call, CallSet

(* A request takes the first slot that is free; two for one monitor are a doubt. *)
LEMMA AskStep ==
  ASSUME FormInv, NEW call \in CallSet, Ask(call), call.status = "asked", edits' \in 0 .. MaxEdits,
         call.kind = "save" => Ready(call.value),
         \A i \in Ids : call.id = i => store[i] # None,
         call.kind = "toggle" => call.id \in Ids /\ inventory[call.id] # None
  PROVE  FormInv'
<1>1. PICK c \in Slots : Free(c) /\ calls' = [calls EXCEPT ![c] = call]
  BY DEF Ask
<1>2. /\ UNCHANGED <<store, inventory, form>>
      /\ doubt' = IF call.id # 0 /\ \E d \in InFlight : calls[d].id = call.id
                  THEN doubt \cup {call.id} ELSE doubt
  BY DEF Ask
<1>3. /\ calls \in [Slots -> CallSet \cup {None}] /\ calls' \in [Slots -> CallSet \cup {None}]
      /\ calls'[c] = call /\ \A d \in Slots \ {c} : calls'[d] = calls[d]
  BY <1>1 DEF FormInv, TypeOK
<1>4. ~ Free(c)' /\ \A d \in Slots \ {c} : Free(d)' <=> Free(d)
  BY <1>3, CallFacts DEF Free
<1>5. call.id # 0 => call.id \in Ids
  BY CallFacts DEF Ids
<1>6. TypeOK'
  BY <1>2, <1>3, <1>5 DEF FormInv, TypeOK
<1>7. ReadyInv'
  BY <1>2, <1>3, <1>4 DEF FormInv, ReadyInv
<1>8. IdInv'
  BY <1>2, <1>3, <1>4 DEF FormInv, IdInv
<1>9. ASSUME NEW i \in Ids \ doubt'
      PROVE  InStep(i)'
  <2>1. i \in Ids \ doubt /\ InStep(i) /\ i # 0
    BY <1>2, <1>9 DEF FormInv, Ids
  <2>2. \A d \in Slots : Waits(d, "ok")' => d # c /\ Waits(d, "ok")
    BY <1>3, <1>4 DEF Waits
  <2>3. \A d \in Slots : Waits(d, "ok") => d # c /\ Waits(d, "ok")' /\ calls'[d] = calls[d]
    BY <1>1, <1>3, <1>4 DEF Waits
  <2>4. CASE call.id # i
    <3>1. \A d \in Slots : ~ Free(d)' /\ calls'[d].id = i => ~ Free(d) /\ calls[d].id = i
      BY <1>3, <1>4, <2>4
    <3>2. \A d \in Slots : Waits(d, "ok") => Stored(d)' = Stored(d)
      BY <2>3 DEF Stored
    <3> QED BY <1>2, <2>1, <2>2, <2>3, <3>1, <3>2, InStepKept
  <2>5. CASE call.id = i
    <3>1. \A d \in Slots : ~ Free(d) => calls[d].id # i
      BY <1>2, <1>9, <2>1, <2>5 DEF InFlight
    <3>2. Kept(i) /\ Shows(i, MayDiffer)
      BY <2>1, <3>1 DEF InStep, Waits
    <3>3. Kept(i)' /\ Shows(i, MayDiffer)'
      BY <1>2, <3>2 DEF Kept, Shows, MayDiffer
    <3>4. \A d \in Slots : ~ Free(d)' /\ calls'[d].id = i => d = c
      BY <1>3, <1>4, <3>1
    <3>5. \A d \in Slots : Waits(d, "ok")' => calls'[d].id # i
      BY <2>2, <2>3, <3>1 DEF Waits
    <3> QED BY <3>3, <3>4, <3>5 DEF InStep
  <2> QED BY <2>4, <2>5
<1> QED BY <1>6, <1>7, <1>8, <1>9 DEF FormInv

(* What is sent can be polled. *)
LEMMA SaveStep ==
  ASSUME FormInv, Save
  PROVE  FormInv'
<1> DEFINE m == sanitize(form.draft)
           call == Call("save", form.id, m)
<1>1. form.open /\ Ask(call) /\ edits' = edits
  BY DEF Save
<1>2. m \in MonitorSet /\ Ready(m)
  BY SavedIsReady DEF Save
<1>3. form.id \in 0 .. MaxId
  BY FormFacts DEF FormInv
<1> HIDE DEF m
<1>4. call \in CallSet /\ call.kind = "save" /\ call.status = "asked" /\ call.id = form.id /\ call.value = m
  BY <1>2, <1>3, CallIs
<1>5. \A i \in Ids : form.id = i => store[i] # None
  BY <1>1 DEF FormInv, IdInv
<1>6. edits' \in 0 .. MaxEdits
  BY <1>1 DEF FormInv, TypeOK
<1> HIDE DEF call
<1> QED BY <1>1, <1>2, <1>4, <1>5, <1>6, AskStep

(* A toggle sends a monitor that the client has. *)
LEMMA ToggleStep ==
  ASSUME FormInv, NEW i \in Ids, Toggle(i)
  PROVE  FormInv'
<1> DEFINE m == [inventory[i] EXCEPT !.active = ~ @]
           call == Call("toggle", i, m)
<1>1. inventory[i] # None /\ Ask(call) /\ edits' \in 0 .. MaxEdits
  BY EditorAssumption DEF FormInv, TypeOK, Toggle, CanWork
<1>2. inventory[i] \in MonitorSet /\ store[i] # None
  BY <1>1, FormFacts DEF FormInv, IdInv
<1>3. m \in MonitorSet
  <2>1. PICK b \in BOOLEAN : b = ~ inventory[i].active
    OBVIOUS
  <2>2. m = [inventory[i] EXCEPT !.active = b]
    BY <2>1, Zenon
  <2> HIDE DEF m
  <2> QED BY <1>2, <2>2, ActiveFacts
<1>4. i \in 0 .. MaxId
  BY DEF Ids
<1> HIDE DEF m
<1>5. call \in CallSet /\ call.kind = "toggle" /\ call.status = "asked" /\ call.id = i
  BY <1>3, <1>4, CallIs
<1> HIDE DEF call
<1> QED BY <1>1, <1>2, <1>5, AskStep

-----------------------------------------------------------------------------
(* The server answers. *)

(* What is stored of a request is a monitor, and can be polled if what it asked for can. *)
LEMMA StoredFacts ==
  ASSUME TypeOK, NEW c \in Slots, ~ Free(c)
  PROVE  /\ Stored(c) \in MonitorSet /\ Stored(c) # None
         /\ Ready(calls[c].value) => Ready(Stored(c))
<1>1. calls[c].value \in MonitorSet /\ calls[c].sent \in RowLists
  BY FormFacts, CallFacts
<1> DEFINE m == calls[c].value
           n == [m EXCEPT !.headers = calls[c].sent]
<1>2. n \in MonitorSet /\ \A f \in Fields \ {"headers"} : n[f] = m[f]
  BY <1>1, HeadersFacts
<1>3. Stored(c) = Scanned(n)
  BY DEF Stored
<1> HIDE DEF n
<1>4. Scanned(n) \in MonitorSet /\ \A f \in Fields \ {"events"} : Scanned(n)[f] = n[f]
  BY <1>2, ScannedFacts
<1>5. m.kind \in Kinds
  BY <1>1, MonitorFacts
<1>6. Dereferenced(m.kind) \subseteq Fields \ {"headers", "events"}
  BY <1>5, FieldsAre DEF Kinds, Dereferenced, EchoFields
<1> HIDE DEF m
<1>7. Ready(m) => Ready(Scanned(n))
  BY <1>2, <1>4, <1>6, FieldsAre DEF Ready
<1> QED BY <1>3, <1>4, <1>7, NoneAssumption DEF m

(* An answer changes the status of its request, and may give it an id. *)
LEMMA ReplyFacts ==
  ASSUME TypeOK, NEW c \in Slots, ~ Free(c), NEW status \in {"ok", "refused", "failed"},
         NEW id \in 0 .. MaxId, Reply(c, status, id)
  PROVE  /\ calls' \in [Slots -> CallSet \cup {None}]
         /\ calls'[c].status = status /\ calls'[c].id = id /\ calls'[c].kind = calls[c].kind
         /\ calls'[c].value = calls[c].value /\ Stored(c)' = Stored(c)
         /\ \A d \in Slots \ {c} : calls'[d] = calls[d] /\ Stored(d)' = Stored(d)
         /\ \A d \in Slots : Free(d)' <=> Free(d)
<1>1. calls \in [Slots -> CallSet \cup {None}] /\ calls[c] \in CallSet
  BY FormFacts DEF TypeOK
<1> DEFINE new == [calls[c] EXCEPT !.status = status, !.id = id]
<1>2. calls' = [calls EXCEPT ![c] = new]
  BY DEF Reply
<1>3. /\ new \in CallSet /\ new.status = status /\ new.id = id /\ new.kind = calls[c].kind
      /\ new.value = calls[c].value /\ new.sent = calls[c].sent
  BY <1>1 DEF CallSet
<1> HIDE DEF new
<1>4. /\ calls' \in [Slots -> CallSet \cup {None}] /\ calls'[c] = new
      /\ \A d \in Slots \ {c} : calls'[d] = calls[d]
  BY <1>1, <1>2, <1>3
<1> QED BY <1>1, <1>3, <1>4, CallFacts DEF Stored, Free

(* What is stored can be polled, and the answer tells where it is. *)
LEMMA ServeSaveStep ==
  ASSUME FormInv, NEW c \in Slots, ServeSave(c)
  PROVE  FormInv'
<1>1. /\ ~ Free(c) /\ calls[c].status = "asked" /\ calls[c].kind = "save"
      /\ UNCHANGED <<inventory, form, edits>>
  BY DEF ServeSave, Asked
<1>2. PICK i \in Ids :
        /\ IF calls[c].id # 0 THEN i = calls[c].id
           ELSE store[i] = None /\ \A j \in 1 .. i - 1 : store[j] # None
        /\ store' = [store EXCEPT ![i] = Stored(c)]
        /\ \/ Reply(c, "ok", i) /\ UNCHANGED doubt
           \/ Reply(c, "failed", i) /\ doubt' = doubt \cup {i}
  BY DEF ServeSave
<1>3. PICK status \in {"ok", "failed"} :
        /\ Reply(c, status, i) /\ doubt \subseteq doubt' /\ doubt' \subseteq doubt \cup {i}
        /\ status = "failed" => i \in doubt'
  BY <1>2
<1>4. i \in 0 .. MaxId /\ calls[c].id \in {0, i} /\ 0 \notin Ids
  BY <1>2 DEF Ids
<1>5. /\ calls' \in [Slots -> CallSet \cup {None}]
      /\ calls'[c].status = status /\ calls'[c].id = i /\ calls'[c].kind = calls[c].kind
      /\ calls'[c].value = calls[c].value /\ Stored(c)' = Stored(c)
      /\ \A d \in Slots \ {c} : calls'[d] = calls[d] /\ Stored(d)' = Stored(d)
      /\ \A d \in Slots : Free(d)' <=> Free(d)
  BY <1>1, <1>3, <1>4, ReplyFacts DEF FormInv
<1>6. /\ Stored(c) \in MonitorSet /\ Stored(c) # None /\ Ready(Stored(c))
  BY <1>1, StoredFacts DEF FormInv, ReadyInv
<1>7. /\ store \in [Ids -> MonitorSet \cup {None}] /\ store' \in [Ids -> MonitorSet \cup {None}]
      /\ store'[i] = Stored(c) /\ \A j \in Ids \ {i} : store'[j] = store[j]
  BY <1>2, <1>6 DEF FormInv, TypeOK
<1>8. TypeOK'
  BY <1>1, <1>3, <1>5, <1>7 DEF FormInv, TypeOK
<1>9. ReadyInv'
  BY <1>1, <1>5, <1>6, <1>7 DEF FormInv, ReadyInv
<1>10. IdInv'
  BY <1>1, <1>5, <1>6, <1>7 DEF FormInv, IdInv
<1>11. \A d \in Slots : ~ Free(d) /\ calls[d].id = i => d = c \/ i \in doubt
  <2>1. calls[c].id = 0 => \A d \in Slots : ~ Free(d) => calls[d].id # i
    BY <1>2 DEF FormInv, IdInv
  <2>2. calls[c].id = i /\ i \notin doubt =>
          \A d \in Slots : ~ Free(d) /\ calls[d].id = i => d = c
    BY <1>1 DEF FormInv, InStep
  <2> QED BY <1>4, <2>1, <2>2
<1>12. ASSUME NEW j \in Ids \ doubt'
       PROVE  InStep(j)'
  <2>1. j \in Ids \ doubt /\ InStep(j) /\ j # 0
    BY <1>3, <1>4, <1>12 DEF FormInv
  <2>2. CASE j # i
    <3>1. \A d \in Slots : (Waits(d, "ok")' /\ calls'[d].id = j) <=> (Waits(d, "ok") /\ calls[d].id = j)
      BY <1>1, <1>4, <1>5, <2>1, <2>2 DEF Waits
    <3>2. \A d \in Slots : Waits(d, "ok") /\ calls[d].id = j => calls'[d] = calls[d] /\ Stored(d)' = Stored(d)
      BY <1>1, <1>5 DEF Waits
    <3>3. \A d \in Slots : ~ Free(d)' /\ calls'[d].id = j => ~ Free(d) /\ calls[d].id = j
      BY <1>5, <2>2
    <3> QED BY <1>1, <1>7, <2>1, <2>2, <3>1, <3>2, <3>3, InStepKept
  <2>3. CASE j = i
    <3>1. \A d \in Slots : ~ Free(d)' /\ calls'[d].id = i => d = c
      BY <1>5, <1>11, <2>1, <2>3
    <3>2. Waits(c, "ok")' /\ calls'[c].id = i /\ calls'[c].kind = "save" /\ store'[i] = Stored(c)'
      BY <1>1, <1>3, <1>5, <1>7, <1>12, <2>3 DEF Waits
    <3> QED BY <2>3, <3>1, <3>2 DEF InStep, Waits
  <2> QED BY <2>2, <2>3
<1> QED BY <1>8, <1>9, <1>10, <1>12 DEF FormInv

(* The active state is stored, and nothing else; where it is not, or the answer does not
   say that it was, the client is in doubt. *)
LEMMA ServeToggleStep ==
  ASSUME FormInv, NEW c \in Slots, ServeToggle(c)
  PROVE  FormInv'
<1>0. calls[c].kind = "toggle" /\ calls[c].id \in Ids /\ calls[c].value.active \in BOOLEAN
  BY FormFacts, CallFacts, MonitorFacts DEF FormInv, IdInv, ServeToggle, Asked
<1>9. PICK i \in Ids, b \in BOOLEAN : calls[c].id = i /\ calls[c].value.active = b
  BY <1>0
<1>1. /\ ~ Free(c) /\ calls[c].status = "asked" /\ calls[c].kind = "toggle"
      /\ UNCHANGED <<inventory, form, edits>>
  BY DEF ServeToggle, Asked
<1>2. /\ i \in Ids /\ i \in 0 .. MaxId /\ inventory[i] \in MonitorSet /\ store[i] \in MonitorSet
      /\ store[i] # None /\ b \in BOOLEAN
  BY <1>1, <1>9, FormFacts DEF FormInv, IdInv, Ids
<1> DEFINE toggled == [store[i] EXCEPT !.active = b]
<1>5. PICK m \in {toggled, store[i]}, status \in {"ok", "failed"} :
        /\ store' = [store EXCEPT ![i] = m] /\ Reply(c, status, i)
        /\ doubt \subseteq doubt' /\ doubt' \subseteq doubt \cup {i}
        /\ i \notin doubt' => m = toggled /\ status = "ok"
  <2>1. store = [store EXCEPT ![i] = store[i]]
    BY <1>2 DEF FormInv, TypeOK
  <2>2. \/ store' = [store EXCEPT ![i].active = b] /\ Reply(c, "ok", i) /\ UNCHANGED doubt
        \/ UNCHANGED store /\ Reply(c, "ok", i) /\ doubt' = doubt \cup {i}
        \/ store' = [store EXCEPT ![i].active = b] /\ Reply(c, "failed", i) /\ doubt' = doubt \cup {i}
    BY <1>9 DEF ServeToggle
  <2> QED BY <2>1, <2>2
<1>3. /\ calls' \in [Slots -> CallSet \cup {None}]
      /\ calls'[c].status = status /\ calls'[c].id = i /\ calls'[c].kind = calls[c].kind
      /\ calls'[c].value = calls[c].value /\ Stored(c)' = Stored(c)
      /\ \A d \in Slots \ {c} : calls'[d] = calls[d] /\ Stored(d)' = Stored(d)
      /\ \A d \in Slots : Free(d)' <=> Free(d)
  BY <1>1, <1>2, <1>5, ReplyFacts DEF FormInv
<1>4. /\ m \in MonitorSet /\ m # None /\ (Ready(store[i]) => Ready(m))
      /\ \A f \in Fields \ {"active"} : reset(m)[f] = reset(store[i])[f]
  <2> DEFINE old == store[i]
  <2>1. old \in MonitorSet
    BY <1>2
  <2> HIDE DEF old
  <2>2. /\ [old EXCEPT !.active = b] \in MonitorSet
        /\ Ready(old) => Ready([old EXCEPT !.active = b])
        /\ \A f \in Fields \ {"active"} : reset([old EXCEPT !.active = b])[f] = reset(old)[f]
    BY <1>2, <2>1, ActiveFacts
  <2> QED BY <1>5, <2>1, <2>2, NoneAssumption DEF old
<1>6. /\ store' \in [Ids -> MonitorSet \cup {None}]
      /\ store'[i] = m /\ \A j \in Ids \ {i} : store'[j] = store[j]
  BY <1>2, <1>4, <1>5 DEF FormInv, TypeOK
<1>7. TypeOK'
  BY <1>1, <1>2, <1>3, <1>5, <1>6 DEF FormInv, TypeOK
<1>8. ReadyInv'
  BY <1>1, <1>2, <1>3, <1>4, <1>6 DEF FormInv, ReadyInv
<1>10. IdInv'
  BY <1>1, <1>2, <1>3, <1>4, <1>6, <1>9 DEF FormInv, IdInv
<1>11. ASSUME NEW j \in Ids \ doubt'
       PROVE  InStep(j)'
  <2>1. j \in Ids \ doubt /\ InStep(j)
    BY <1>5, <1>11 DEF FormInv
  <2>2. CASE j # i
    <3>1. \A d \in Slots : (Waits(d, "ok")' /\ calls'[d].id = j) <=> (Waits(d, "ok") /\ calls[d].id = j)
      BY <1>1, <1>3, <1>9, <2>2 DEF Waits
    <3>2. \A d \in Slots : Waits(d, "ok") /\ calls[d].id = j => calls'[d] = calls[d] /\ Stored(d)' = Stored(d)
      BY <1>1, <1>3 DEF Waits
    <3>3. \A d \in Slots : ~ Free(d)' /\ calls'[d].id = j => ~ Free(d) /\ calls[d].id = j
      BY <1>3, <2>2
    <3> QED BY <1>1, <1>6, <2>1, <2>2, <3>1, <3>2, <3>3, InStepKept
  <2>3. CASE j = i
    <3>1. \A d \in Slots : ~ Free(d) /\ calls[d].id = i => d = c
      BY <1>1, <1>9, <2>1, <2>3 DEF InStep
    <3>2. Kept(i) /\ Shows(i, MayDiffer)
      BY <1>1, <2>1, <2>3, <3>1 DEF InStep, Waits
    <3>3. store[i] = Scanned(inventory[i])
      BY <1>2, <3>2 DEF Kept
    <3>4. store'[i] = [Scanned(inventory'[i]) EXCEPT !.active = b]
      BY <1>1, <1>5, <1>6, <1>11, <2>3, <3>3
    <3>5. Shows(i, {"active"})'
      <4>1. form.open /\ form.id = i =>
              \A f \in Fields \ {"active"} : Scanned(form.original)[f] = reset(store[i])[f]
        BY <3>2 DEF Shows, MayDiffer
      <4>2. form' = form /\ store'[i] = m
        BY <1>1, <1>6
      <4> QED BY <1>4, <4>1, <4>2 DEF Shows
    <3>6. \A d \in Slots : ~ Free(d)' /\ calls'[d].id = i => d = c
      BY <1>3, <3>1
    <3>7. Waits(c, "ok")' /\ calls'[c].id = i /\ calls'[c].kind # "save" /\ calls'[c].value.active = b
      BY <1>1, <1>3, <1>5, <1>9, <1>11, <2>3 DEF Waits
    <3>8. (\A d, e \in Slots :
             ~ Free(d) /\ ~ Free(e) /\ calls[d].id = i /\ calls[e].id = i => d = e)'
      BY <3>6
    <3>9. ((\A d \in Slots : Waits(d, "ok") => calls[d].id # i) => Kept(i) /\ Shows(i, MayDiffer))'
      BY <3>7
    <3>10. \A d \in Slots : Waits(d, "ok")' /\ calls'[d].id = i => d = c
      BY <3>6 DEF Waits
    <3>11. (\A d \in Slots : Waits(d, "ok") /\ calls[d].id = i =>
              IF calls[d].kind = "save" THEN store[i] = Stored(d)
              ELSE /\ store[i] = [Scanned(inventory[i]) EXCEPT !.active = calls[d].value.active]
                   /\ Shows(i, {"active"}))'
      BY <3>4, <3>5, <3>7, <3>10
    <3> QED BY <2>3, <3>8, <3>9, <3>11 DEF InStep
  <2> QED BY <2>2, <2>3
<1> QED BY <1>7, <1>8, <1>10, <1>11 DEF FormInv

(* Nothing is stored. *)
LEMMA RefuseStep ==
  ASSUME FormInv, NEW c \in Slots, Refuse(c)
  PROVE  FormInv'
<1>1. /\ ~ Free(c) /\ calls[c].status = "asked" /\ UNCHANGED <<store, inventory, form, edits, doubt>>
      /\ \E status \in {"refused", "failed"} : Reply(c, status, calls[c].id)
  BY DEF Refuse, Asked
<1>2. calls[c].id \in 0 .. MaxId
  BY <1>1, FormFacts, CallFacts DEF FormInv
<1>3. PICK status \in {"refused", "failed"} : Reply(c, status, calls[c].id)
  BY <1>1
<1>4. /\ calls' \in [Slots -> CallSet \cup {None}]
      /\ calls'[c].status = status /\ calls'[c].id = calls[c].id /\ calls'[c].kind = calls[c].kind
      /\ calls'[c].value = calls[c].value /\ Stored(c)' = Stored(c)
      /\ \A d \in Slots \ {c} : calls'[d] = calls[d] /\ Stored(d)' = Stored(d)
      /\ \A d \in Slots : Free(d)' <=> Free(d)
  BY <1>1, <1>2, <1>3, ReplyFacts DEF FormInv
<1>5. TypeOK' /\ ReadyInv' /\ IdInv'
  BY <1>1, <1>4 DEF FormInv, TypeOK, ReadyInv, IdInv
<1>6. \A d \in Slots : (Waits(d, "ok")' <=> Waits(d, "ok")) /\ (Waits(d, "ok") => d # c)
  BY <1>1, <1>4 DEF Waits
<1>7. ASSUME NEW j \in Ids \ doubt'
      PROVE  InStep(j)'
  BY <1>1, <1>4, <1>6, <1>7, InStepKept DEF FormInv
<1> QED BY <1>5, <1>7 DEF FormInv

-----------------------------------------------------------------------------
(* The client learns of the answer, or does not. *)

(* A request that is over frees its slot. *)
LEMMA FreedFacts ==
  ASSUME TypeOK, NEW c \in Slots, calls' = [calls EXCEPT ![c] = None]
  PROVE  /\ calls' \in [Slots -> CallSet \cup {None}] /\ Free(c)'
         /\ \A d \in Slots \ {c} : /\ calls'[d] = calls[d] /\ Stored(d)' = Stored(d)
                                   /\ Free(d)' <=> Free(d)
BY DEF TypeOK, Free, Stored

(* The monitors whose copies, forms and answers a freed request leaves alone are in step as
   before. *)
LEMMA OthersKept ==
  ASSUME FormInv, NEW j \in Ids \ doubt, NEW c \in Slots, Free(c)',
         \A d \in Slots \ {c} : Alike(d), Waits(c, "ok") => calls[c].id # j,
         store'[j] = store[j], inventory'[j] = inventory[j],
         (form.open /\ form.id = j)' =>
           /\ form.open /\ form.id = j
           /\ form'.original = form.original /\ form'.toggled = form.toggled
  PROVE  InStep(j)'
<1>1. \A d \in Slots \ {c} :
        /\ Free(d)' <=> Free(d)
        /\ ~ Free(d) => /\ calls'[d].kind = calls[d].kind /\ calls'[d].status = calls[d].status
                        /\ calls'[d].id = calls[d].id /\ Stored(d)' = Stored(d)
                        /\ calls'[d].value.active = calls[d].value.active
  BY AlikeFacts DEF FormInv
<1>2. \A d \in Slots : ~ Free(d)' /\ calls'[d].id = j => ~ Free(d) /\ calls[d].id = j
  BY <1>1
<1>3. \A d \in Slots : Waits(d, "ok") /\ calls[d].id = j =>
        /\ Waits(d, "ok")' /\ calls'[d].id = j /\ calls'[d].kind = calls[d].kind
        /\ Stored(d)' = Stored(d) /\ calls'[d].value.active = calls[d].value.active
  BY <1>1 DEF Waits
<1>4. \A d \in Slots : Waits(d, "ok")' /\ calls'[d].id = j => Waits(d, "ok")
  BY <1>1 DEF Waits
<1>5. InStep(j) /\ j \in Ids
  BY DEF FormInv
<1> QED BY <1>2, <1>3, <1>4, <1>5, InStepKept

(* What is known of the requests that are left. *)
LEMMA CallsLeft ==
  ASSUME FormInv, NEW c \in Slots, Free(c)', \A d \in Slots \ {c} : Alike(d)
  PROVE  \A d \in Slots : ~ Free(d)' =>
           /\ d # c /\ ~ Free(d) /\ calls'[d].kind = calls[d].kind
           /\ calls'[d].status = calls[d].status /\ calls'[d].id = calls[d].id
           /\ Ready(calls'[d].value) <=> Ready(calls[d].value)
BY AlikeFacts DEF FormInv

(* The answer to a save: the client has what was stored, and shows it. *)
LEMMA AnswerSaveStep ==
  ASSUME FormInv, NEW c \in Slots, AnswerSave(c)
  PROVE  FormInv'
<1>0. /\ ~ Free(c) /\ Waits(c, "ok") /\ calls[c].kind = "save" /\ calls[c].id \in Ids
      /\ calls[c].value \in MonitorSet /\ calls[c].sent \in RowLists
  BY FormFacts, CallFacts DEF FormInv, IdInv, AnswerSave, Waits
<1>1. PICK i \in Ids, m \in MonitorSet : calls[c].id = i /\ calls[c].value = m
  BY <1>0
<1>2. /\ inventory' = [inventory EXCEPT ![i] = m] /\ form' = Show(i, m)
      /\ doubt' = IF m.headers # calls[c].sent THEN doubt \cup {i} ELSE doubt
      /\ calls' = [Parted(TRUE) EXCEPT ![c] = None] /\ UNCHANGED <<store, edits>>
  BY <1>1 DEF AnswerSave
<1>3. /\ inventory' \in [Ids -> MonitorSet \cup {None}] /\ inventory'[i] = m /\ m # None
      /\ \A j \in Ids \ {i} : inventory'[j] = inventory[j]
  BY <1>2, NoneAssumption DEF FormInv, TypeOK
<1>4. i \in 0 .. MaxId /\ form.errors \in BOOLEAN /\ store[i] # None /\ store[i] \in MonitorSet
  BY <1>0, <1>1, FormFacts DEF FormInv, IdInv, Ids
<1>5. /\ form' \in FormSet /\ form'.open /\ form'.id = i /\ form'.draft # None
      /\ form'.original = reset(m) /\ form'.original # None /\ form'.toggled = FALSE
      /\ form'.draft.method # None /\ form'.draft.protocol # None
  BY <1>2, <1>4, ShowFacts
<1>6. /\ calls' \in [Slots -> CallSet \cup {None}] /\ Free(c)'
      /\ \A d \in Slots \ {c} : Alike(d)
  <2>2. /\ Free(c)' /\ \A d \in Slots \ {c} : calls'[d] = Parted(TRUE)[d]
        /\ calls' = [d \in Slots |-> calls'[d]]
    BY <1>2 DEF Parted, Free
  <2>3. \A d \in Slots \ {c} : Alike(d) /\ calls'[d] \in CallSet \cup {None}
    BY <2>2, PartedAlike DEF FormInv
  <2>4. \A d \in Slots : calls'[d] \in CallSet \cup {None}
    BY <2>2, <2>3 DEF Free
  <2> QED BY <2>2, <2>3, <2>4
<1>7. \A d \in Slots : ~ Free(d)' =>
        /\ d # c /\ ~ Free(d) /\ calls'[d].kind = calls[d].kind
        /\ calls'[d].status = calls[d].status /\ calls'[d].id = calls[d].id
        /\ Ready(calls'[d].value) <=> Ready(calls[d].value)
  BY <1>6, CallsLeft
<1>8. TypeOK'
  BY <1>2, <1>3, <1>5, <1>6 DEF FormInv, TypeOK
<1>9. ReadyInv'
  BY <1>2, <1>5, <1>7 DEF FormInv, ReadyInv
<1>10. IdInv'
  <2>1. \A j \in Ids : inventory[j] # None => inventory'[j] # None
    BY <1>3
  <2>2. \A j \in Ids : inventory'[j] # None => store'[j] # None
    BY <1>2, <1>3, <1>4 DEF FormInv, IdInv
  <2>3. \A j \in Ids : form'.open /\ form'.id = j => inventory'[j] # None
    BY <1>3, <1>5
  <2>4. ASSUME NEW d \in Slots, ~ Free(d)'
        PROVE  /\ \A j \in Ids : calls'[d].id = j => store'[j] # None
               /\ calls'[d].kind = "toggle" => calls'[d].id \in Ids /\ inventory'[calls'[d].id] # None
               /\ calls'[d].status = "ok" => calls'[d].id \in Ids
    BY <1>2, <1>7, <2>1, <2>4 DEF FormInv, IdInv
  <2> QED BY <2>2, <2>3, <2>4 DEF IdInv
<1>11. ASSUME NEW j \in Ids \ doubt'
       PROVE  InStep(j)'
  <2>1. j \in Ids \ doubt /\ InStep(j)
    BY <1>2, <1>11 DEF FormInv
  <2>2. CASE j # i
    BY <1>1, <1>2, <1>3, <1>5, <1>6, <2>1, <2>2, OthersKept
  <2>3. CASE j = i
    <3>1. m.headers = calls[c].sent /\ i \notin doubt
      BY <1>2, <1>11, <2>3
    <3>2. store[i] = Scanned(m)
      <4>1. store[i] = Stored(c)
        BY <1>0, <1>1, <2>1, <2>3 DEF InStep
      <4>2. [m EXCEPT !.headers = calls[c].sent] = m
        BY <3>1, MonitorIs
      <4> QED BY <1>1, <4>1, <4>2 DEF Stored
    <3>3. Kept(i)'
      BY <1>2, <1>3, <1>4, <3>2 DEF Kept
    <3>4. \A f \in Fields : Scanned(reset(m))[f] = reset(store'[i])[f]
      BY <1>2, <3>2, ResetScanned
    <3>5. Shows(i, MayDiffer)'
      BY <1>5, <3>4 DEF Shows
    <3>6. \A d \in Slots : ~ Free(d)' => calls'[d].id # i
      BY <1>0, <1>1, <1>7, <2>1, <2>3 DEF InStep
    <3> QED BY <2>3, <3>3, <3>5, <3>6 DEF InStep, Waits
  <2> QED BY <2>2, <2>3
<1> QED BY <1>8, <1>9, <1>10, <1>11 DEF FormInv

(* The answer to a toggle: the client has what was stored; the form does not notice. *)
LEMMA AnswerToggleStep ==
  ASSUME FormInv, NEW c \in Slots, AnswerToggle(c)
  PROVE  FormInv'
<1>0. /\ ~ Free(c) /\ Waits(c, "ok") /\ calls[c].kind = "toggle" /\ calls[c].id \in Ids
      /\ calls[c].value.active \in BOOLEAN
  BY FormFacts, CallFacts, MonitorFacts DEF FormInv, IdInv, AnswerToggle, Waits
<1>1. PICK i \in Ids, b \in BOOLEAN : calls[c].id = i /\ calls[c].value.active = b
  BY <1>0
<1>2. /\ inventory' = [inventory EXCEPT ![i].active = b]
      /\ form' = IF form.open /\ form.id = i THEN [form EXCEPT !.toggled = TRUE] ELSE form
      /\ calls' = [calls EXCEPT ![c] = None] /\ UNCHANGED <<store, edits, doubt>>
  BY <1>1 DEF AnswerToggle
<1>3. PICK old \in MonitorSet : old = inventory[i]
  BY <1>0, <1>1, FormFacts DEF FormInv, IdInv
<1> DEFINE m == [old EXCEPT !.active = b]
<1>4. m \in MonitorSet /\ m # None /\ Scanned(m) = [Scanned(old) EXCEPT !.active = b]
  BY ActiveFacts, NoneAssumption
<1>5. inventory' = [inventory EXCEPT ![i] = m]
  BY <1>2, <1>3
<1> HIDE DEF m
<1>6. /\ inventory' \in [Ids -> MonitorSet \cup {None}] /\ inventory'[i] = m
      /\ \A j \in Ids \ {i} : inventory'[j] = inventory[j]
  BY <1>4, <1>5 DEF FormInv, TypeOK
<1>7. /\ form' \in FormSet /\ form'.open = form.open /\ form'.id = form.id
      /\ form'.draft = form.draft /\ form'.original = form.original
      /\ ~ (form.open /\ form.id = i) => form' = form
      /\ form.open /\ form.id = i => form'.toggled
  BY <1>2 DEF FormInv, TypeOK, FormSet
<1>8. /\ calls' \in [Slots -> CallSet \cup {None}] /\ Free(c)'
      /\ \A d \in Slots \ {c} : /\ calls'[d] = calls[d] /\ Stored(d)' = Stored(d)
                                /\ Free(d)' <=> Free(d)
  BY <1>2, FreedFacts DEF FormInv
<1>9. \A d \in Slots \ {c} : Alike(d)
  BY <1>8, FormFacts DEF FormInv, Alike
<1>10. store[i] # None
  BY <1>3, NoneAssumption DEF FormInv, IdInv
<1>11. TypeOK'
  BY <1>2, <1>6, <1>7, <1>8 DEF FormInv, TypeOK
<1>12. ReadyInv'
  BY <1>2, <1>7, <1>8 DEF FormInv, ReadyInv
<1>13. IdInv'
  BY <1>2, <1>4, <1>6, <1>7, <1>8, <1>10 DEF FormInv, IdInv
<1>14. ASSUME NEW j \in Ids \ doubt'
       PROVE  InStep(j)'
  <2>1. j \in Ids \ doubt /\ InStep(j)
    BY <1>2, <1>14 DEF FormInv
  <2>2. CASE j # i
    BY <1>1, <1>2, <1>6, <1>7, <1>8, <1>9, <2>1, <2>2, OthersKept
  <2>3. CASE j = i
    <3>1. /\ store[i] = [Scanned(inventory[i]) EXCEPT !.active = calls[c].value.active]
          /\ Shows(i, {"active"})
      BY <1>0, <1>1, <2>1, <2>3 DEF InStep
    <3>2. store[i] = Scanned(m)
      BY <1>1, <1>3, <1>4, <3>1
    <3>3. Kept(i)'
      BY <1>2, <1>6, <1>10, <3>2 DEF Kept
    <3>4. form.open /\ form.id = i =>
            \A f \in Fields \ {"active"} : Scanned(form.original)[f] = reset(store[i])[f]
      BY <3>1 DEF Shows
    <3>5. Shows(i, MayDiffer)'
      BY <1>2, <1>7, <3>4 DEF Shows, MayDiffer
    <3>6. \A d \in Slots : ~ Free(d)' => calls'[d].id # i
      BY <1>0, <1>1, <1>8, <2>1, <2>3 DEF InStep
    <3> QED BY <2>3, <3>3, <3>5, <3>6 DEF InStep, Waits
  <2> QED BY <2>2, <2>3
<1> QED BY <1>11, <1>12, <1>13, <1>14 DEF FormInv

(* A request that was refused, or whose answer is lost. *)
LEMMA NoAnswerStep ==
  ASSUME FormInv, NEW c \in Slots, AnswerRefused(c) \/ Lose(c)
  PROVE  FormInv'
<1>1. /\ ~ Free(c) /\ UNCHANGED <<store, inventory, edits>> /\ calls' = [calls EXCEPT ![c] = None]
      /\ doubt \subseteq doubt' /\ doubt' \subseteq doubt \cup {calls[c].id}
      /\ Waits(c, "ok") => calls[c].id \in Ids /\ calls[c].id \in doubt'
      /\ doubt' # doubt => Waits(c, "ok")
  BY DEF AnswerRefused, Lose, Waits, FormInv, IdInv
<1>2. form' = form \/ form' = [form EXCEPT !.errors = TRUE]
  BY DEF AnswerRefused, Lose
<1>3. /\ form' \in FormSet /\ form'.open = form.open /\ form'.id = form.id
      /\ form'.draft = form.draft /\ form'.original = form.original /\ form'.toggled = form.toggled
  BY <1>2 DEF FormInv, TypeOK, FormSet
<1>4. /\ calls' \in [Slots -> CallSet \cup {None}] /\ Free(c)'
      /\ \A d \in Slots \ {c} : /\ calls'[d] = calls[d] /\ Stored(d)' = Stored(d)
                                /\ Free(d)' <=> Free(d)
  BY <1>1, FreedFacts DEF FormInv
<1>5. \A d \in Slots \ {c} : Alike(d)
  BY <1>4, FormFacts DEF FormInv, Alike
<1>6. TypeOK'
  BY <1>1, <1>3, <1>4 DEF FormInv, TypeOK
<1>7. ReadyInv' /\ IdInv'
  BY <1>1, <1>3, <1>4 DEF FormInv, ReadyInv, IdInv
<1>8. ASSUME NEW j \in Ids \ doubt'
      PROVE  InStep(j)'
  <2>1. j \in Ids \ doubt /\ (Waits(c, "ok") => calls[c].id # j)
    BY <1>1, <1>8
  <2> QED BY <1>1, <1>3, <1>4, <1>5, <2>1, OthersKept
<1> QED BY <1>6, <1>7, <1>8 DEF FormInv

-----------------------------------------------------------------------------
(* Whatever happens to the form and to the requests. *)

(* What is there at first can be polled, and is stored as it is. *)
LEMMA FirstMonitor ==
  ASSUME NEW kind \in Kinds, kind = "PLUGIN" => Plugins # {}, NEW m,
         m = sanitize([Defaults EXCEPT !.kind = kind, !.name = "a", !.address = "a", !.port = 0,
                                       !.headers = <<"a">>])
  PROVE  m \in MonitorSet /\ Ready(m) /\ Scanned(m) = m
<1> DEFINE d == [Defaults EXCEPT !.kind = kind, !.name = "a", !.address = "a", !.port = 0,
                                 !.headers = <<"a">>]
<1>1. d \in MonitorSet
  BY DefaultsAreMonitor DEF MonitorSet, RowLists
<1>2. /\ d.kind = kind /\ d.address = "a" /\ d.port = 0 /\ d.method = "GET" /\ d.range = "2xx"
      /\ d.protocol = "ICMP" /\ d.size = 1 /\ d.wait = 1 /\ d.count = 1 /\ d.ttl = 1
      /\ d.plugin = FirstPlugin /\ d.timeout = 1 /\ d.events = <<>>
  BY DEF Defaults
<1> HIDE DEF d
<1>3. /\ m \in MonitorSet /\ m.kind = kind /\ \A f \in Fields \ Cleared(kind) : m[f] = d[f]
  BY <1>1, <1>2, SanitizeFacts DEF d
<1>4. kind = "PLUGIN" => d.plugin # None
  BY <1>2, FirstIsPlugin, NoneAssumption
<1>5. \A f \in Dereferenced(kind) : d[f] # None
  <2>1. CASE kind = "HTTP"
    BY <1>2, <2>1, NoneAssumption DEF Dereferenced
  <2>2. CASE kind = "TCP"
    BY <1>2, <2>2, NoneAssumption DEF Dereferenced
  <2>3. CASE kind = "ICMP"
    BY <1>2, <2>3, NoneAssumption DEF Dereferenced, EchoFields
  <2>4. CASE kind = "PLUGIN"
    BY <1>2, <1>4, <2>4 DEF Dereferenced
  <2> QED BY <2>1, <2>2, <2>3, <2>4 DEF Kinds
<1>6. {"timeout", "events"} \subseteq Fields \ Cleared(kind)
  BY FieldsAre DEF Kinds, Cleared, HttpFields, EchoFields, IcmpFields, PluginFields
<1>7. Ready(m)
  BY <1>2, <1>3, <1>5, <1>6, ClearedFacts DEF Ready
<1>8. Scanned(m) = m
  <2>1. m.events = <<>>
    BY <1>2, <1>3, <1>6
  <2>2. [i \in DOMAIN m.events |-> Filled(m.events[i])] = m.events
    BY <2>1
  <2>3. [m EXCEPT !.events = m.events] = m
    BY <1>3, MonitorIs
  <2> QED BY <2>2, <2>3 DEF Scanned
<1> QED BY <1>3, <1>7, <1>8

(* At first the client has what is stored, and asks nothing. *)
LEMMA FormInitially == Init => FormInv
<1> SUFFICES ASSUME Init PROVE FormInv
  OBVIOUS
<1>1. PICK kind \in Kinds, m \in MonitorSet :
        /\ Ready(m) /\ Scanned(m) = m
        /\ store = [i \in Ids |-> IF i = 1 THEN m ELSE None]
  <2>1. PICK kind \in Kinds \cap (IF Plugins = {} THEN {"HTTP", "TCP", "ICMP"} ELSE Kinds) :
          store = [i \in Ids |->
                     IF i = 1 THEN sanitize([Defaults EXCEPT !.kind = kind, !.name = "a",
                                                             !.address = "a", !.port = 0,
                                                             !.headers = <<"a">>])
                     ELSE None]
    BY DEF Init
  <2>2. kind \in Kinds /\ (kind = "PLUGIN" => Plugins # {})
    BY DEF Kinds
  <2> DEFINE m == sanitize([Defaults EXCEPT !.kind = kind, !.name = "a", !.address = "a", !.port = 0,
                                            !.headers = <<"a">>])
  <2>3. store = [i \in Ids |-> IF i = 1 THEN m ELSE None]
    BY <2>1
  <2>4. m \in MonitorSet /\ Ready(m) /\ Scanned(m) = m
    BY <2>2, FirstMonitor
  <2> HIDE DEF m
  <2> QED BY <2>2, <2>3, <2>4
<1>2. /\ inventory = store /\ form = Closed /\ calls = [c \in Slots |-> None]
      /\ edits = 0 /\ doubt = {}
  BY DEF Init
<1>3. \A c \in Slots : Free(c)
  BY <1>2 DEF Free
<1>4. TypeOK
  <2>1. 0 \in 0 .. MaxEdits
    BY EditorAssumption
  <2>2. store \in [Ids -> MonitorSet \cup {None}]
    BY <1>1
  <2> QED BY <1>2, <2>1, <2>2, ClosedFacts DEF TypeOK
<1>5. ReadyInv /\ IdInv
  BY <1>1, <1>2, <1>3, ClosedFacts DEF ReadyInv, IdInv
<1>6. \A i \in Ids : InStep(i)
  BY <1>1, <1>2, <1>3, ClosedFacts DEF InStep, Kept, Shows, Waits
<1> QED BY <1>4, <1>5, <1>6 DEF FormInv

(* No step of the form, of a request or of an answer breaks it. *)
LEMMA FormStep == FormInv /\ [Next]_vars => FormInv'
<1> SUFFICES ASSUME FormInv, [Next]_vars PROVE FormInv'
  OBVIOUS
<1>1. CASE OpenDraft \/ Close \/ \E i \in Ids : OpenMonitor(i)
  BY <1>1, OpenStep
<1>2. CASE Edit
  BY <1>2, EditStep
<1>3. CASE EditHeaders
  BY <1>3, EditHeadersStep
<1>4. CASE Save
  BY <1>4, SaveStep
<1>5. CASE \E i \in Ids : Toggle(i)
  BY <1>5, ToggleStep
<1>6. ASSUME NEW c \in Slots, ServeSave(c) PROVE FormInv'
  BY <1>6, ServeSaveStep
<1>7. ASSUME NEW c \in Slots, ServeToggle(c) PROVE FormInv'
  BY <1>7, ServeToggleStep
<1>8. ASSUME NEW c \in Slots, Refuse(c) PROVE FormInv'
  BY <1>8, RefuseStep
<1>9. ASSUME NEW c \in Slots, AnswerSave(c) PROVE FormInv'
  BY <1>9, AnswerSaveStep
<1>10. ASSUME NEW c \in Slots, AnswerToggle(c) PROVE FormInv'
  BY <1>10, AnswerToggleStep
<1>11. ASSUME NEW c \in Slots, AnswerRefused(c) \/ Lose(c) PROVE FormInv'
  BY <1>11, NoAnswerStep
<1>12. CASE UNCHANGED vars
  <2>1. /\ store' = store /\ inventory' = inventory /\ form' = form /\ calls' = calls
        /\ edits' = edits /\ doubt' = doubt
    BY <1>12 DEF vars
  <2> QED BY <2>1 DEF FormInv, TypeOK, ReadyInv, IdInv, InStep, Kept, Shows, MayDiffer, Waits, Free, Stored
<1> QED BY <1>1, <1>2, <1>3, <1>4, <1>5, <1>6, <1>7, <1>8, <1>9, <1>10, <1>11, <1>12 DEF Next

-----------------------------------------------------------------------------
(* Whatever happens to the poll. *)

(* A poll begins with a monitor it can count on. *)
LEMMA BeginStep ==
  ASSUME PollInv, NEW m \in MonitorSet, Ready(m), BeginPoll(m)
  PROVE  PollInv'
<1>1. PICK monitor \in Instances(m), captures \in BOOLEAN, threshold \in {None, "WARN", "DEAD"} :
        poll' = [NoPoll EXCEPT !.phase = IF m.kind = "PLUGIN" THEN "plugin" ELSE "resolving",
                               !.monitor = monitor, !.captures = captures, !.threshold = threshold]
  BY DEF BeginPoll
<1>2. /\ m.kind \in Kinds /\ m.timeout \in Nat /\ m.events \in Seq(EventSet)
      /\ m.plugin \in Plugins \cup {None} /\ m = [f \in Fields |-> m[f]]
      /\ m.loss \in {None, 0, 1}
  BY MonitorFacts, MonitorIs DEF Ready
<1>3. /\ monitor.kind = m.kind /\ monitor.timeout = m.timeout /\ monitor.events = m.events
      /\ monitor.plugin = m.plugin
      /\ m.kind = "ICMP" => /\ monitor.count \in Nat \ {0} /\ monitor.wait \in Nat \ {0}
                            /\ monitor.loss \in {None} \cup 1 .. 100
  <2>1. CASE m.kind # "ICMP"
    BY <2>1 DEF Instances
  <2>2. CASE m.kind = "ICMP"
    <3>1. PICK e \in Echoes(m) :
            monitor = [m EXCEPT !.count = e.count, !.wait = e.wait, !.loss = e.loss]
      BY <1>1, <2>2 DEF Instances
    <3>2. e.count \in Nat \ {0} /\ e.wait \in Nat \ {0} /\ e.loss \in {None} \cup 1 .. 100
      <4>1. /\ e.count \in Counts /\ e.wait \in Gaps
            /\ e.loss \in IF m.loss = None THEN {None} ELSE Thresholds
        BY DEF Echoes
      <4> QED BY <4>1, ProbeAssumption
    <3> QED BY <1>2, <2>2, <3>1, <3>2, FieldsAre
  <2> QED BY <2>1, <2>2
<1>4. Polled(monitor)
  BY <1>2, <1>3 DEF Polled
<1>5. /\ poll' \in PollSet(monitor) /\ poll'.monitor = monitor /\ poll'.sent = 0 /\ poll'.got = 0
      /\ poll'.phase = IF m.kind = "PLUGIN" THEN "plugin" ELSE "resolving"
      /\ poll'.age = 0 /\ ~ poll'.late /\ ~ poll'.told
  BY <1>1 DEF NoPoll, PollSet, PollPhases, States, Reasons
<1>6. /\ runs \in [Jobs -> RunSet] /\ \A r \in Jobs : RunInv(runs[r]) /\ runs[r].phase = "none"
      /\ "probe" \in Jobs /\ "event" \in Jobs
  BY DEF PollInv, PollTyped, PhaseInv, BeginPoll, Jobs
<1>7. /\ runs' \in [Jobs -> RunSet] /\ \A r \in Jobs : RunInv(runs'[r]) /\ ~ runs'[r].timed
      /\ runs'["event"].phase = "none"
  <2>1. CASE m.kind # "PLUGIN"
    <3>1. runs' = runs
      BY <2>1 DEF BeginPoll
    <3> QED BY <1>6, <3>1 DEF RunInv
  <2>2. CASE m.kind = "PLUGIN"
    <3>1. runs' = [runs EXCEPT !["probe"] = Run(m.plugin)]
      BY <2>2 DEF BeginPoll
    <3>2. Run(m.plugin) \in RunSet /\ RunInv(Run(m.plugin)) /\ ~ Run(m.plugin).timed
      BY <1>2, NewRun
    <3>3. /\ runs' \in [Jobs -> RunSet] /\ runs'["probe"] = Run(m.plugin)
          /\ \A r \in Jobs \ {"probe"} : runs'[r] = runs[r]
      BY <1>6, <3>1, <3>2
    <3> QED BY <1>6, <3>2, <3>3 DEF RunInv
  <2> QED BY <2>1, <2>2
<1>8. PollTyped'
  BY <1>4, <1>5, <1>7 DEF PollTyped, Polled
<1>9. Limit' \in Nat
  <2>1. m.timeout * Second \in Nat
    BY <1>2, ProbeAssumption
  <2> QED BY <1>3, <1>5, <2>1 DEF Limit
<1>10. PhaseInv'
  <2>1. poll'.phase \in {"plugin", "resolving"} /\ poll'.monitor.kind = m.kind
    BY <1>3, <1>5
  <2>2. poll'.age <= Limit' + 1
    <3>1. \A n \in Nat : 0 <= n + 1
      OBVIOUS
    <3> QED BY <1>5, <1>9, <3>1
  <2> QED BY <1>2, <1>3, <1>5, <1>6, <1>7, <1>9, <2>1, <2>2 DEF PhaseInv
<1>11. StateJustified'
  BY <1>5, <1>7 DEF StateJustified, Over
<1> QED BY <1>5, <1>7, <1>8, <1>10, <1>11 DEF PollInv

(* At first nothing is polled. *)
LEMMA PollInitially == PollInit => PollInv
<1> SUFFICES ASSUME PollInit PROVE PollInv
  OBVIOUS
<1>1. poll = NoPoll /\ runs = [r \in Jobs |-> NoRun]
  BY DEF PollInit
<1>2. /\ poll \in PollSet(poll.monitor) /\ poll.phase = "idle" /\ poll.late = FALSE
      /\ poll.told = FALSE /\ poll.sent = 0 /\ poll.got = 0
  BY <1>1 DEF NoPoll, PollSet, PollPhases, States, Reasons
<1>3. NoRun \in RunSet /\ RunInv(NoRun) /\ NoRun.phase = "none" /\ ~ NoRun.timed
  BY NewRun
<1>4. /\ runs \in [Jobs -> RunSet] /\ \A r \in Jobs : runs[r] = NoRun
      /\ "probe" \in Jobs /\ "event" \in Jobs
  BY <1>1, <1>3 DEF Jobs
<1>5. PollTyped
  BY <1>2, <1>4 DEF PollTyped
<1>6. PhaseInv
  BY <1>2, <1>3, <1>4 DEF PhaseInv
<1>7. StateJustified
  BY <1>2, <1>3, <1>4 DEF StateJustified, Over
<1> QED BY <1>2, <1>3, <1>4, <1>5, <1>6, <1>7 DEF PollInv

(* No step of a poll or of a plugin breaks it. *)
LEMMA WaitStep == PollInv /\ Wait => PollInv'
<1> SUFFICES ASSUME PollInv, Wait PROVE PollInv'
  OBVIOUS
<1>1. CASE Resolve
  BY <1>1, ResolveStep
<1>2. CASE NotResolved
  BY <1>2, NotResolvedStep
<1>3. CASE Respond
  BY <1>3, RespondStep
<1>4. CASE ReadBody \/ BodyBreaks
  BY <1>4, BodyStep DEF ReadBody, BodyBreaks
<1>5. CASE Connect \/ Fails
  BY <1>5, ConnectStep
<1>6. CASE Send \/ Receive
  BY <1>6, PacketStep
<1>7. CASE PingEnds \/ PingFails
  BY <1>7, PingEndStep
<1>8. CASE Expire
  BY <1>8, ExpireStep
<1>9. CASE PluginPolled
  BY <1>9, PluginPolledStep
<1>10. ASSUME NEW r \in Jobs, Start(r) \/ StartFails(r) PROVE PollInv'
  BY <1>10, StartStep
<1>11. ASSUME NEW r \in Jobs, Read(r) PROVE PollInv'
  BY <1>11, ReadStep
<1>12. ASSUME NEW r \in Jobs, ReadEnd(r) PROVE PollInv'
  BY <1>12, ReadEndStep
<1>13. ASSUME NEW r \in Jobs, Kill(r) \/ Exit(r) PROVE PollInv'
  BY <1>13, GoesStep
<1>14. ASSUME NEW r \in Jobs, WantWrite(r) \/ Write(r) PROVE PollInv'
  BY <1>14, WriteStep
<1>15. ASSUME NEW r \in Jobs, LetGo(r) PROVE PollInv'
  BY <1>15, LetGoStep
<1>16. CASE Tick
  BY <1>16, TickStep
<1> QED BY <1>1, <1>2, <1>3, <1>4, <1>5, <1>6, <1>7, <1>8, <1>9, <1>10, <1>11, <1>12, <1>13, <1>14,
           <1>15, <1>16 DEF Wait

(* A poll that stands still. *)
LEMMA PollStands ==
  ASSUME PollInv, UNCHANGED pollVars
  PROVE  PollInv'
<1>1. poll' = poll /\ runs' = runs
  BY DEF pollVars
<1> QED BY <1>1 DEF PollInv, PollTyped, PhaseInv, StateJustified, Over, Answered, Satisfied, Limit

(* The inductive invariant of the form and the poll. *)
ProbeInv == FormInv /\ PollInv

(* The form, the requests, the poll and its runs are as described above, always. *)
LEMMA ProbeAlways == ProbeSpec => []ProbeInv
<1>1. ProbeInit => ProbeInv
  BY FormInitially, PollInitially DEF ProbeInit, ProbeInv
<1>2. ProbeInv /\ [ProbeNext]_<<vars, pollVars>> => ProbeInv'
  <2> SUFFICES ASSUME ProbeInv, [ProbeNext]_<<vars, pollVars>> PROVE ProbeInv'
    OBVIOUS
  <2>1. CASE Next /\ UNCHANGED pollVars
    BY <2>1, FormStep, PollStands DEF ProbeInv
  <2>2. CASE Poll /\ UNCHANGED vars
    <3>1. FormInv'
      BY <2>2, FormStep DEF ProbeInv
    <3>2. ASSUME NEW i \in Ids, store[i] # None, BeginPoll(store[i])
          PROVE  PollInv'
      <4>1. store[i] \in MonitorSet /\ Ready(store[i])
        BY <3>2, FormFacts DEF ProbeInv, FormInv, ReadyInv
      <4> QED BY <3>2, <4>1, BeginStep DEF ProbeInv
    <3>3. PollInv'
      BY <2>2, <3>2, WaitStep DEF ProbeInv, Poll
    <3> QED BY <3>1, <3>3 DEF ProbeInv
  <2>3. CASE UNCHANGED <<vars, pollVars>>
    BY <2>3, FormStep, PollStands DEF ProbeInv
  <2> QED BY <2>1, <2>2, <2>3 DEF ProbeNext
<1> QED BY <1>1, <1>2, PTL DEF ProbeSpec

-----------------------------------------------------------------------------
(* The properties of Editor and Probe. *)

(* Every variable has its type, and a poll counts no further than its limit. *)
THEOREM TypeCorrect == ProbeSpec => []ProbeTypeOK
<1>1. ProbeInv => ProbeTypeOK
  <2> SUFFICES ASSUME ProbeInv PROVE ProbeTypeOK
    OBVIOUS
  <2>1. TypeOK
    BY DEF ProbeInv, FormInv
  <2>2. PollTyped /\ PhaseInv /\ \A r \in Jobs : RunInv(runs[r]) /\ runs[r] \in RunSet
    BY DEF ProbeInv, PollInv, PollTyped
  <2>3. poll.phase \in PollPhases /\ poll.state \in States /\ poll.told \in BOOLEAN
    BY <2>2, PollFacts
  <2>4. DOMAIN Badness = States
    BY DEF Badness, States
  <2>5. ASSUME poll.phase # "idle" PROVE poll.age \in 0 .. Limit + 1
    <3>1. Limit \in Nat /\ poll.age \in Nat
      BY <2>2, <2>5, PollFacts
    <3>2. poll.age <= Limit + 1
      BY <2>2, <2>5 DEF PhaseInv
    <3> HIDE DEF Limit
    <3> QED BY <3>1, <3>2
  <2>6. poll.got <= poll.sent
    BY <2>2 DEF PhaseInv
  <2>7. ASSUME NEW r \in Jobs
        PROVE  /\ runs[r].phase \in {"none", "starting", "over"} \cup Streams
               /\ runs[r].alive => runs[r].phase \in Streams
               /\ runs[r].pipe \in [Streams -> 0 .. PipeSize]
               /\ runs[r].code \in {None} \cup -1 .. 2
    <3>1. /\ runs[r].phase \in RunPhases /\ runs[r].code \in {None} \cup -1 .. 2
          /\ runs[r].pipe \in [Streams -> 0 .. PipeSize]
      BY <2>2, RunFacts
    <3>2. runs[r].alive => runs[r].phase \in Streams
      BY <2>2 DEF RunInv
    <3>3. RunPhases = {"none", "starting", "over"} \cup Streams
      BY DEF RunPhases, Streams
    <3> QED BY <3>1, <3>2, <3>3
  <2> QED BY <2>1, <2>3, <2>4, <2>5, <2>6, <2>7 DEF ProbeTypeOK, PollPhases
<1> QED BY <1>1, ProbeAlways, PTL

(* No probe dereferences nil: what is stored has every field that the poll of
   its kind reads, for any history of edits, saves and answers. *)
THEOREM NoNilInPolls == ProbeSpec => []ProbeReady
<1>1. ProbeInv => ProbeReady
  BY DEF ProbeInv, FormInv, ReadyInv, Ready, ProbeReady
<1> QED BY <1>1, ProbeAlways, PTL

(* The measurement says what happened, and its event runs if it should. *)
THEOREM StatesJustified == ProbeSpec => []StateJustified
<1>1. ProbeInv => StateJustified
  BY DEF ProbeInv, PollInv
<1> QED BY <1>1, ProbeAlways, PTL

(* No probe and no plugin that can be bounded waits past the monitor's timeout. *)
THEOREM PollsEndInTime == ProbeSpec => []WaitsInTime
<1>1. ProbeInv => WaitsInTime
  BY DEF ProbeInv, PollInv, RunInv, WaitsInTime
<1> QED BY <1>1, ProbeAlways, PTL

(* Of a monitor with no request under way, and no answer lost, the client's copy
   is the stored one, and the form calls nothing else a change. *)
THEOREM FormFollows == ProbeSpec => []FormAgrees
<1>1. ProbeInv => FormAgrees
  <2> SUFFICES ASSUME ProbeInv, NEW i \in Ids, Quiet(i)
               PROVE  /\ IF store[i] = None THEN inventory[i] = None ELSE Scanned(inventory[i]) = store[i]
                      /\ form.open /\ form.id = i =>
                           \A f \in Fields \ (IF form.toggled THEN {"active"} ELSE {}) :
                             Scanned(form.original)[f] = reset(store[i])[f]
    BY DEF FormAgrees
  <2>1. InStep(i)
    BY DEF ProbeInv, FormInv, Quiet
  <2>2. \A c \in Slots : Waits(c, "ok") => calls[c].id # i
    BY DEF Quiet, Waits, InFlight
  <2>3. Kept(i) /\ Shows(i, MayDiffer)
    BY <2>1, <2>2 DEF InStep
  <2> QED BY <2>3 DEF Kept, Shows, MayDiffer
<1> QED BY <1>1, ProbeAlways, PTL

(* What is sent of a valid draft has a port that the server keeps, or one that is known. *)
LEMMA PortIsAccepted ==
  ASSUME NEW d \in MonitorSet, isValidMonitor(d), NEW m, m = sanitize(d), ~ BadPort(m)
  PROVE  m.port # None => m.port \in Int16 /\ m.port \in 0 .. MaxPort
<1>1. d.kind \in Kinds
  BY MonitorFacts
<1>2. /\ m \in MonitorSet /\ m.kind = d.kind
      /\ d.kind = "TCP" => m.port = d.port
      /\ d.kind \in {"ICMP", "PLUGIN"} => m.port = None
  BY <1>1, SanitizeFacts, FieldsAre
     DEF Kinds, Cleared, HttpFields, EchoFields, IcmpFields, PluginFields
<1>3. m.port \in Ports \cup {None, 0}
  BY <1>2, MonitorFacts
<1>4. 0 \in Int16 /\ 0 \in 0 .. MaxPort
  BY DEF Int16, MaxPort
<1>5. CASE d.kind = "HTTP"
  BY <1>2, <1>3, <1>4, <1>5 DEF BadPort
<1>6. CASE d.kind = "TCP"
  <2>1. isValidRemotePort(m.port)
    BY <1>2, <1>6 DEF isValidMonitor, isValidProbe
  <2> QED BY <1>2, <1>6, <2>1 DEF isValidRemotePort, BadPort
<1> QED BY <1>1, <1>2, <1>5, <1>6 DEF Kinds

(* A valid draft has what the server asks for, where it keeps it. *)
LEMMA DraftIsAccepted ==
  ASSUME NEW d \in MonitorSet, isValidMonitor(d), NEW m, m = sanitize(d)
  PROVE  \/ Decodes(m) /\ Validate(m) /\ Columns(m)
         \/ m.timeout = 0 \/ (\E f \in NumberFields : m[f] = Huge)
         \/ m.method = "OPTIONS" \/ BadPort(m)
<1>1. d.kind \in Kinds
  BY MonitorFacts
<1>2. /\ m \in MonitorSet /\ m.kind = d.kind
      /\ \A f \in Fields \ Cleared(d.kind) : m[f] = d[f]
      /\ \A f \in Cleared(d.kind) \ {"args", "headers"} : m[f] = None
  BY SanitizeFacts
<1>3. /\ m.name = d.name /\ m.interval = d.interval /\ m.timeout = d.timeout /\ m.events = d.events
      /\ d.kind # "PLUGIN" => m.address = d.address
      /\ d.kind = "HTTP" => m.range = d.range
      /\ d.kind = "PLUGIN" => m.plugin = d.plugin
      /\ \A f \in EchoFields : m[f] = IF d.kind = "ICMP" THEN d[f] ELSE None
  BY <1>1, <1>2, FieldsAre DEF Kinds, Cleared, HttpFields, EchoFields, IcmpFields, PluginFields
<1>4. /\ d.name # None /\ d.interval \in Int /\ d.interval > 0 /\ d.timeout \in Int
      /\ \A i \in DOMAIN d.events : d.events[i].plugin # None /\ isValidArgs(d.events[i].args)
      /\ isValidProbe(d)
  BY DEF isValidMonitor, isValidNonZeroWholeNumber, isValidTimeout, isValidEvent
<1>5. /\ d.kind # "PLUGIN" => d.address # None
      /\ d.kind = "HTTP" => d.range # None
      /\ d.kind = "PLUGIN" => d.plugin # None
  BY <1>1, <1>4 DEF isValidProbe, Kinds
<1>6. d.kind = "ICMP" => \A f \in EchoFields : d[f] \in Int /\ d[f] > 0
  BY <1>4 DEF isValidProbe, isValidNonZeroWholeNumber
<1>7. \A f \in EchoFields : m[f] \in Int \cup {None} /\ (m[f] # None => m[f] > 0)
  BY <1>3, <1>6
<1>8. m.interval \in Int /\ m.interval > 0 /\ m.timeout \in Int /\ None \notin Int
  BY <1>3, <1>4, NoneAssumption
<1>9. m.timeout = 0 \/ Validate(m)
  <2>1. m.interval \notin {None, 0} /\ (m.timeout # 0 => m.timeout \notin {None, 0})
    BY <1>8
  <2> QED BY <1>2, <1>3, <1>4, <1>5, <2>1 DEF Validate
<1>10. \A f \in NumberFields : m[f] \in Int \cup {None}
  BY <1>7, <1>8 DEF NumberFields
<1>11. ASSUME ~ BadPort(m)
       PROVE  m.port # None => m.port \in Int16 /\ m.port \in 0 .. MaxPort
  BY <1>11, PortIsAccepted
<1>12. Decodes(m) \/ BadPort(m)
  BY <1>10, <1>11 DEF Decodes
<1>13. \/ Columns(m) \/ BadPort(m) \/ m.method = "OPTIONS"
       \/ \E f \in NumberFields : m[f] = Huge
  BY <1>7, <1>8, <1>11 DEF Columns
<1> QED BY <1>9, <1>12, <1>13

(* What the form lets be saved, the server accepts, but for what SaveAccepted says that it
   is known to send in vain. *)
THEOREM SavesAreAccepted == ProbeSpec => []SaveAccepted
<1>1. ProbeInv => SaveAccepted
  <2> SUFFICES ASSUME ProbeInv, form.open, canSave PROVE SaveAccepted
    BY DEF SaveAccepted
  <2>1. form.draft \in MonitorSet /\ isValidMonitor(form.draft)
    BY FormFacts DEF ProbeInv, FormInv, canSave
  <2> QED BY <2>1, DraftIsAccepted DEF SaveAccepted
<1> QED BY <1>1, ProbeAlways, PTL
=============================================================================
