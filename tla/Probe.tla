------------------------------- MODULE Probe -------------------------------
(***************************************************************************)
(* A poll of a monitor, from the start of its goroutine to the             *)
(* measurement it sends and the plugin it runs because of that             *)
(* measurement: Monitor.Poll, the four probes, PluginExecutor, and the     *)
(* outside world they wait for.                                            *)
(*                                                                         *)
(* A poll has a copy of the monitor, so the form and the requests that     *)
(* made the monitor, in Editor, stand still while it is looked at.         *)
(*                                                                         *)
(* Time passes in ticks, and never while the process has something to do:  *)
(* what it waits for may take as long as it likes.                         *)
(***************************************************************************)
EXTENDS Editor

CONSTANTS
  Shells,      \* the plugins that a shell runs
  Second,      \* ticks in a second
  Counts,      \* numbers of packets
  Gaps,        \* ticks between two packets
  Thresholds,  \* percentages of packets that may be lost
  PipeSize,    \* what a pipe holds
  MaxOutput    \* bound: what a plugin writes

ASSUME ProbeAssumption ==
  /\ Shells \subseteq Plugins
  /\ Second \in Nat \ {0} /\ Counts \subseteq Nat \ {0} /\ Gaps \subseteq Nat \ {0}
  /\ Thresholds \subseteq 1 .. 100
  /\ PipeSize \in Nat \ {0} /\ MaxOutput \in Nat

VARIABLES
  poll,  \* the poll: its monitor, what it waits for and since when, its span
  runs   \* the plugins it runs, as a probe and for an event

pollVars == <<poll, runs>>

Jobs == {"probe", "event"}
Streams == {"stdout", "stderr"}

(* Span.Downgrade. *)
Downgrade(state, to) ==
  IF state = "OK" \/ (state = "WARN" /\ to = "DEAD") THEN to ELSE state

DowngradeIf(condition, state, to) == IF condition THEN Downgrade(state, to) ELSE state

IsEligible(threshold, state) ==
  \/ threshold = None
  \/ threshold = "WARN" /\ state # "OK"
  \/ threshold = "DEAD" /\ state = "DEAD"

(* age: ticks since it began; late, a history: it was waited for past its time;
   left, a history: it left a process behind, which holds its streams; timed:
   it is reported as timed out. *)
NoRun == [phase |-> "none", plugin |-> None, age |-> 0, late |-> FALSE, timed |-> FALSE,
          alive |-> FALSE, held |-> FALSE, left |-> FALSE, wants |-> "none", code |-> None,
          pipe |-> [s \in Streams |-> 0], wrote |-> 0]
Run(plugin) == [NoRun EXCEPT !.phase = "starting", !.plugin = plugin]

(* why, a history: what ended the wait for the monitor's answer. *)
NoPoll == [phase |-> "idle", monitor |-> None, captures |-> FALSE, threshold |-> None, age |-> 0, late |-> FALSE, state |-> "OK",
           told |-> FALSE, why |-> "none", sent |-> 0, got |-> 0, gap |-> 0]

PollInit == poll = NoPoll /\ runs = [r \in Jobs |-> NoRun]

Limit == poll.monitor.timeout * Second

(* What is known of a plugin that has ended.  One that ended well is timed out
   all the same if the deadline came before it was waited for. *)
Ended(run) ==
  LET bounded == run.code = 0 /\ run.plugin \notin Shells
      Timed == {b \in BOOLEAN : b => bounded /\ run.age >= Limit}
               \ (IF bounded /\ run.age > Limit THEN {FALSE} ELSE {})
  IN {[NoRun EXCEPT !.phase = "over", !.plugin = run.plugin, !.code = run.code,
                    !.late = run.late, !.left = run.left /\ run.late,
                    !.timed = timed, !.age = IF timed THEN run.age ELSE 0] : timed \in Timed}

-----------------------------------------------------------------------------
(* The monitors that a monitor of the form stands for. *)

Echoes(m) ==
  [count : Counts, wait : Gaps, loss : IF m.loss = None THEN {None} ELSE Thresholds]
Instances(m) ==
  IF m.kind # "ICMP" THEN {m}
  ELSE {[m EXCEPT !.count = e.count, !.wait = e.wait, !.loss = e.loss] : e \in Echoes(m)}

(* A poll that reads nil is a panic: ProbeReady says that it does not happen.
   What the form has and Editor leaves out may be anything here. *)
BeginPoll(m) ==
  /\ poll.phase = "idle"
  /\ \A f \in Dereferenced(m.kind) : m[f] # None
  /\ \E monitor \in Instances(m),
        captures \in {b \in BOOLEAN : b => m.kind = "HTTP"},
        threshold \in IF m.events = <<>> THEN {None} ELSE {None, "WARN", "DEAD"} :
       poll' = [NoPoll EXCEPT !.phase = IF m.kind = "PLUGIN" THEN "plugin" ELSE "resolving",
                              !.monitor = monitor, !.captures = captures, !.threshold = threshold]
  /\ runs' = IF m.kind = "PLUGIN" THEN [runs EXCEPT !["probe"] = Run(m.plugin)] ELSE runs

(* The measurement is made and sent, and its events are started. *)
EndPoll(state, why, told) ==
  LET events == poll.monitor.events
  IN /\ poll' = [poll EXCEPT !.phase = "over", !.state = state, !.why = why, !.told = told]
     /\ runs' = IF events # <<>> /\ IsEligible(poll.threshold, state)
                THEN [runs EXCEPT !["event"] = Run(events[1].plugin)]
                ELSE runs

-----------------------------------------------------------------------------
(* The probes.  None gives a resolver the context of the poll. *)

Resolve ==
  /\ poll.phase = "resolving"
  /\ poll' = [poll EXCEPT !.phase = CASE poll.monitor.kind = "HTTP" -> "requesting"
                                      [] poll.monitor.kind = "TCP" -> "dialing"
                                      [] poll.monitor.kind = "ICMP" -> "pinging"]
  /\ UNCHANGED runs

(* The address is not one, or has no host. *)
NotResolved == poll.phase = "resolving" /\ EndPoll("DEAD", "unresolved", FALSE)

Early == poll.age <= Limit

Respond ==
  /\ poll.phase = "requesting" /\ Early
  /\ \E range \in {"2xx", "4xx", "5xx"} :
       LET why == IF range = poll.monitor.range THEN "in range" ELSE "out of range"
           state == DowngradeIf(why = "out of range", "OK", "DEAD")
       IN IF poll.captures
          THEN poll' = [poll EXCEPT !.phase = "reading", !.state = state, !.why = why] /\ UNCHANGED runs
          ELSE EndPoll(state, why, FALSE)

ReadBody == poll.phase = "reading" /\ EndPoll(poll.state, poll.why, FALSE)

(* The state of the answer stays if it is worse. *)
NoBody ==
  EndPoll(Downgrade(poll.state, "WARN"),
          IF poll.why = "in range" THEN "no body" ELSE poll.why, FALSE)
BodyBreaks == poll.phase = "reading" /\ NoBody

Connect == poll.phase = "dialing" /\ Early /\ EndPoll("OK", "connected", FALSE)

(* No request can be made of it, or no connection.  The error of a dial that the
   system or the transport has given up, of itself and before the deadline, is
   reported as a timeout like that of the deadline. *)
Fails ==
  /\ poll.phase \in {"requesting", "dialing"}
  /\ EndPoll("DEAD", "failed", FALSE) \/ EndPoll("DEAD", "network timeout", TRUE)

(* Packets go out one gap apart, whether others came back or not. *)
MoreToSend == poll.phase = "pinging" /\ poll.sent < poll.monitor.count /\ poll.gap = 0

Send ==
  /\ MoreToSend
  /\ poll' = [poll EXCEPT !.sent = @ + 1, !.gap = poll.monitor.wait]
  /\ UNCHANGED runs

(* Seeded bug: all that is lost is a loss like any other. *)
PingStateTolerant(sent, got, err) ==
  LET m == poll.monitor
      failed == DowngradeIf(err /\ sent = 0, "OK", "DEAD")
      timed == DowngradeIf((m.count * m.wait) \div Second > m.timeout, failed, "WARN")
  IN DowngradeIf(got < sent /\ (m.loss = None \/ 100 * (sent - got) > m.loss * sent), timed, "WARN")

(* The span of what was sent and came back; err: the client gave up. *)
PingState(sent, got, err) ==
  LET m == poll.monitor
      failed == DowngradeIf(err /\ sent = 0, "OK", "DEAD")
      timed == DowngradeIf((m.count * m.wait) \div Second > m.timeout, failed, "WARN")
      lost == sent > 0 /\ got < sent
      beyond == m.loss = None \/ 100 * (sent - got) > m.loss * sent
  IN IF lost /\ got = 0 THEN Downgrade(timed, "DEAD")
     ELSE DowngradeIf(lost /\ beyond, timed, "WARN")

Receive ==
  /\ poll.phase = "pinging" /\ poll.got < poll.sent
  /\ poll' = [poll EXCEPT !.got = @ + 1]
  /\ UNCHANGED runs

(* The client is done when as many came back as were to be sent. *)
AllBack == poll.phase = "pinging" /\ poll.got = poll.monitor.count

PingEnds == AllBack /\ EndPoll(PingState(poll.sent, poll.got, FALSE), "answered", FALSE)

PingFails == poll.phase = "pinging" /\ EndPoll(PingState(poll.sent, poll.got, TRUE), "failed", FALSE)

(* The context ends the wait. *)
Expires == poll.phase \in {"requesting", "reading", "dialing", "pinging"} /\ poll.age >= Limit

Expire ==
  /\ Expires
  /\ CASE poll.phase = "reading" -> NoBody
       [] poll.phase = "pinging" -> EndPoll(PingState(poll.sent, poll.got, TRUE), "deadline", TRUE)
       [] OTHER -> EndPoll("DEAD", "deadline", TRUE)

-----------------------------------------------------------------------------
(* PluginExecutor: its stdout is read to the end, and then its stderr. *)

Starting(r) == runs[r].phase = "starting"

Start(r) ==
  /\ Starting(r)
  /\ runs' = [runs EXCEPT ![r] = [@ EXCEPT !.phase = "stdout", !.alive = TRUE]]
  /\ UNCHANGED poll

(* There is no such file, no shell, or an argument cannot be rendered. *)
StartFails(r) ==
  /\ Starting(r)
  /\ runs' = [runs EXCEPT ![r].phase = "over"]
  /\ UNCHANGED poll

CanRead(r) == runs[r].phase \in Streams /\ runs[r].pipe[runs[r].phase] > 0

Read(r) ==
  /\ CanRead(r)
  /\ runs' = [runs EXCEPT ![r].pipe[runs[r].phase] = 0]
  /\ UNCHANGED poll

AtEnd(r) ==
  /\ runs[r].phase \in Streams /\ runs[r].pipe[runs[r].phase] = 0
  /\ ~ runs[r].alive /\ ~ runs[r].held

(* At the end of stderr the process is gone, and is not waited for any more. *)
ReadEnd(r) ==
  /\ AtEnd(r)
  /\ IF runs[r].phase = "stdout"
     THEN runs' = [runs EXCEPT ![r].phase = "stderr"]
     ELSE \E ended \in Ended(runs[r]) : runs' = [runs EXCEPT ![r] = ended]
  /\ UNCHANGED poll

(* Seeded bug: the plugin of an event has no time limit. *)
KillsProbe(r) ==
  r = "probe" /\ runs[r].alive /\ runs[r].plugin \notin Shells /\ runs[r].age >= Limit

(* The context kills the process; a plugin of a shell is started without it. *)
Kills(r) ==
  runs[r].alive /\ runs[r].plugin \notin Shells /\ runs[r].age >= Limit

Gone(r, code) ==
  /\ \E left \in BOOLEAN :
       runs' = [runs EXCEPT ![r] = [@ EXCEPT !.alive = FALSE, !.wants = "none", !.code = code,
                                             !.held = left, !.left = left]]
  /\ UNCHANGED poll

Kill(r) == Kills(r) /\ Gone(r, -1)

(* The process writes, and waits for room; it ends when it likes, and keeps its
   streams until then. *)
WantWrite(r) ==
  /\ runs[r].alive /\ runs[r].wants = "none"
  /\ runs[r].wrote < MaxOutput
  /\ \E s \in Streams : runs' = [runs EXCEPT ![r].wants = s]
  /\ UNCHANGED poll

Written(run, s) == [run EXCEPT !.wants = "none", !.pipe[s] = @ + 1, !.wrote = @ + 1]

Write(r) ==
  /\ \E s \in Streams : /\ runs[r].wants = s /\ runs[r].pipe[s] < PipeSize
                        /\ runs' = [runs EXCEPT ![r] = Written(@, s)]
  /\ UNCHANGED poll

Exit(r) ==
  /\ runs[r].alive /\ runs[r].wants = "none"
  /\ \E code \in 0 .. 2 : Gone(r, code)

(* The process that was left behind ends. *)
LetGo(r) ==
  /\ runs[r].held
  /\ runs' = [runs EXCEPT ![r].held = FALSE]
  /\ UNCHANGED poll

Probed == poll.phase = "plugin" /\ runs["probe"].phase = "over"

(* Where the process was killed, its exit code is what is reported. *)
PluginPolled ==
  /\ Probed
  /\ LET run == runs["probe"]
         warned == DowngradeIf(run.code = 1, "OK", "WARN")
     IN EndPoll(DowngradeIf(run.timed \/ run.code \notin {0, 1}, warned, "DEAD"), "plugin", run.timed)

-----------------------------------------------------------------------------
(* The clock; it stops counting past a limit. *)

Urgent ==
  \/ Expires \/ MoreToSend \/ AllBack \/ Probed
  \/ \E r \in Jobs : Starting(r) \/ CanRead(r) \/ AtEnd(r) \/ Kills(r)

Later(age) == IF age > Limit THEN age ELSE age + 1

Tick ==
  /\ poll.phase # "idle" /\ ~ Urgent
  /\ poll' = IF poll.phase \in {"plugin", "over"} THEN poll
             ELSE [poll EXCEPT !.age = Later(@), !.gap = IF @ > 0 THEN @ - 1 ELSE 0,
                               !.late = @ \/ (poll.phase # "resolving" /\ poll.age >= Limit)]
  /\ runs' = [r \in Jobs |->
                IF runs[r].phase \in {"none", "over"} THEN runs[r]
                ELSE [runs[r] EXCEPT !.age = Later(@), !.late = @ \/ runs[r].age >= Limit]]

Wait ==
  \/ Resolve \/ NotResolved \/ Respond \/ ReadBody \/ BodyBreaks \/ Connect \/ Fails
  \/ Send \/ Receive \/ PingEnds \/ PingFails \/ Expire
  \/ PluginPolled
  \/ \E r \in Jobs : \/ Start(r) \/ StartFails(r) \/ Read(r) \/ ReadEnd(r) \/ Kill(r)
                     \/ WantWrite(r) \/ Write(r) \/ Exit(r) \/ LetGo(r)
  \/ Tick

(* Bound: a poll begins when the form is closed and the client is sure of what
   is stored; what is stored at other times is stored then too. *)
Poll ==
  \/ /\ ~ form.open /\ InFlight = {} /\ doubt = {}
     /\ \E i \in Ids : store[i] # None /\ BeginPoll(store[i])
  \/ Wait

ProbeNext ==
  \/ poll.phase = "idle" /\ Next /\ UNCHANGED pollVars
  \/ Poll /\ UNCHANGED vars

ProbeInit == Init /\ PollInit

ProbeSpec == ProbeInit /\ [][ProbeNext]_<<vars, pollVars>>

-----------------------------------------------------------------------------
(* Properties. *)

Over == poll.phase = "over"

(* The answer that the monitor asks for came, if not all of it. *)
Answered ==
  CASE poll.monitor.kind = "HTTP" -> poll.why \in {"in range", "no body"}
    [] poll.monitor.kind = "TCP" -> poll.why = "connected"
    [] poll.monitor.kind = "ICMP" -> poll.got > 0
    [] poll.monitor.kind = "PLUGIN" -> runs["probe"].code \in {0, 1} /\ ~ runs["probe"].timed

(* All of it came.  Of packets, as many as may be; those that were not sent are
   not missed when the client gave up, or ran out of a time that is as long as
   the pauses between them, in whole seconds. *)
Satisfied ==
  CASE poll.monitor.kind = "ICMP" ->
         LET m == poll.monitor
         IN /\ 100 * (poll.sent - poll.got) <= (IF m.loss = None THEN 0 ELSE m.loss) * poll.sent
            /\ \/ poll.sent = m.count \/ poll.why = "failed"
               \/ poll.why = "deadline" /\ (m.count * m.wait) \div Second <= m.timeout
    [] poll.monitor.kind = "PLUGIN" -> runs["probe"].code = 0
    [] OTHER -> poll.why \in {"in range", "connected"}

Badness == [OK |-> 0, WARN |-> 1, DEAD |-> 2]

(* Whatever the order in which a probe downgrades its span, the measurement is
   dead if and only if the monitor was not answered as it asks, OK only if it
   was in full, and it says that time ran out only when the monitor's had, or
   when the network did not wait for as long; the event runs if and only if that
   state is as bad as its threshold, and only then (measurement.go:79,
   event.go:118, tcp.go:36, http.go:66). *)
StateJustified ==
  /\ Over => /\ poll.state = "DEAD" <=> ~ Answered
             /\ poll.state = "OK" => Satisfied
             /\ poll.told =>
                  \/ (IF poll.monitor.kind = "PLUGIN" THEN runs["probe"].age ELSE poll.age) >= Limit
                  \/ poll.monitor.kind \in {"HTTP", "TCP"} /\ poll.why = "network timeout"
  /\ runs["event"].phase # "none" <=>
       /\ Over /\ poll.monitor.events # <<>>
       /\ poll.threshold # None => Badness[poll.threshold] <= Badness[poll.state]

(* The seconds of a monitor are what they say: once its name is resolved, no
   probe and no plugin waits any longer for an answer, a pipe or a process,
   however the plugin and the pipes behave; but for a plugin of a shell, and
   for one that leaves a process behind (monitor.go:119, plugin.go:130). *)
WaitsInTime ==
  /\ ~ poll.late
  /\ \A r \in Jobs : runs[r].late => runs[r].plugin \in Shells \/ runs[r].left

(* The types of the form and of the poll. *)
ProbeTypeOK ==
  /\ TypeOK
  /\ poll.phase \in {"idle", "resolving", "requesting", "reading", "dialing", "pinging",
                     "plugin", "over"}
  /\ poll.state \in DOMAIN Badness /\ poll.told \in BOOLEAN
  /\ poll.phase # "idle" => poll.age \in 0 .. Limit + 1 /\ poll.got <= poll.sent
  /\ \A r \in Jobs : /\ runs[r].phase \in {"none", "starting", "over"} \cup Streams
                      /\ runs[r].alive => runs[r].phase \in Streams
                      /\ runs[r].pipe \in [Streams -> 0 .. PipeSize]
                      /\ runs[r].code \in {None} \cup -1 .. 2
=============================================================================
