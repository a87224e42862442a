--------------------------- MODULE MonitorService ---------------------------
(***************************************************************************)
(* The life of monitors: the monitor table, the request handlers of        *)
(* server/monitor.go that change it, and main, which restores the          *)
(* distributor's state from it when the process starts.  Each of them      *)
(* writes the table first and tells the distributor afterwards, in steps   *)
(* that interleave with those of the others; the process may crash between *)
(* any two.  The distributor is the promise of Registry.tla, which         *)
(* Distributor.tla implements.                                             *)
(***************************************************************************)
EXTENDS Registry, FiniteSets, SequencesExt

CONSTANTS
  Handlers,  \* requests that may be in progress at the same time
  Room,      \* messages the channel and the blocked distributor hold together
  Failing,   \* steps of handlers whose query may fail: "write", "select"
  MaxDue     \* bound: polls of a monitor in progress

ASSUME MonitorsAssumption == IsFiniteSet(Monitors)
ASSUME NoticesAssumption ==
  /\ \A j \in Job : StartMessage(j) \notin Notices
  /\ \A m \in Monitors : StopMessage(m) \notin Notices
ASSUME RoomAssumption == Room \in Nat \ {0}
ASSUME MaxDueAssumption == MaxDue \in Nat

VARIABLES
  table,     \* the monitor table
  issued,    \* ids that have been issued: SQLite never issues one again
  stage,     \* where main is
  task,      \* what every handler is doing
  strayed    \* history: monitors whose last requests overlapped or failed halfway

svcVars == <<table, issued, stage, task, strayed>>
vars == <<regVars, svcVars>>

Row == [cfg : Configs, active : BOOLEAN]

(* What a handler is doing: the step it is at, the monitors and the row of its
   request, and the messages it has still to send. *)
Task ==
  [kind : {"create", "update", "enable", "any"}, step : {"check", "select", "send"},
   ids : SUBSET Monitors, row : Row \cup {None}, out : Seq(Message)]

ASSUME NoneAssumption == None \notin Configs \cup Row /\ None \notin Task

Rows == {m \in Monitors : table[m] # None}
JobOf(m) == [mon |-> m, cfg |-> table[m].cfg]

(* Every order in which the monitors of a set can be gone through. *)
Orders(S) == SetToSeqs(S)
Starts(ms) == [i \in DOMAIN ms |-> StartMessage(JobOf(ms[i]))]
Stops(ms)  == [i \in DOMAIN ms |-> StopMessage(ms[i])]

Init ==
  /\ RegInit
  /\ table = [m \in Monitors |-> None]
  /\ issued = {}
  /\ stage = [at |-> "loading", out |-> <<>>]
  /\ task = [h \in Handlers |-> None]
  /\ strayed = {}

-----------------------------------------------------------------------------
(* Steps that handlers share. *)

Arrives(h) == stage.at = "serving" /\ task[h] = None

(* The monitors that handler h has written and may still send messages about. *)
Holds(h) == IF task[h] = None \/ task[h].step = "check" THEN {} ELSE task[h].ids
Contended(h, ids) == {m \in ids : \E g \in Handlers \ {h} : m \in Holds(g)}

(* Handler h goes on to look up what it has written, row if it wrote a row. *)
ThenSelect(h, kind, ids, row) ==
  task' = [task EXCEPT ![h] =
             [kind |-> kind, step |-> "select", ids |-> ids, row |-> row, out |-> <<>>]]

(* Handler h goes on to send out, and is done when there is nothing to send. *)
ThenSend(h, ids, out) ==
  task' = [task EXCEPT ![h] =
             IF out = <<>> THEN None
             ELSE [kind |-> "any", step |-> "send", ids |-> ids, row |-> None, out |-> out]]

(* The messages that start a monitor, if row is to be active and it is found. *)
Restarts(ids, row) == IF row.active THEN Starts(SetToSeq(ids \cap Rows)) ELSE <<>>

(* Handler h is at a step of a request. *)
Doing(h, kind, step) == task[h] # None /\ task[h].kind = kind /\ task[h].step = step

(* Handler h answers its client; nothing else happens. *)
Ends(h) == task' = [task EXCEPT ![h] = None]

(* A write of ids by h: if another handler is still busy with a monitor, the
   order of their messages need not be that of their writes.  One that starts
   or stops the monitor by itself brings it back in step. *)
Strays(h, ids, settles) ==
  strayed' = (IF settles THEN strayed \ ids ELSE strayed) \cup Contended(h, ids)

(* The lookup after the write failed: the distributor is never told. *)
SelectFails(h) ==
  /\ task[h] # None /\ task[h].step = "select" /\ "select" \in Failing
  /\ Ends(h)
  /\ strayed' = strayed \cup task[h].ids
  /\ UNCHANGED <<regVars, table, issued, stage>>

(* Seeded bug: a handler sends one message and answers. *)
SendNextOnly(h) ==
  /\ task[h] # None /\ task[h].step = "send"
  /\ Len(mailbox) < Room
  /\ Accept(Head(task[h].out))
  /\ Ends(h)
  /\ UNCHANGED <<table, issued, stage, strayed>>

(* Seeded bug: a handler does not wait for room. *)
SendNextUnbounded(h) ==
  /\ task[h] # None /\ task[h].step = "send"
  /\ Accept(Head(task[h].out))
  /\ ThenSend(h, task[h].ids, Tail(task[h].out))
  /\ UNCHANGED <<table, issued, stage, strayed>>

(* The next message of a handler is accepted, once there is room for it. *)
SendNext(h) ==
  /\ task[h] # None /\ task[h].step = "send"
  /\ Len(mailbox) < Room
  /\ Accept(Head(task[h].out))
  /\ ThenSend(h, task[h].ids, Tail(task[h].out))
  /\ UNCHANGED <<table, issued, stage, strayed>>

-----------------------------------------------------------------------------
(* Create. *)

CreateInsert(h, m, row) ==
  /\ Arrives(h)
  /\ m \notin issued
  /\ issued' = issued \cup {m}
  /\ table' = [table EXCEPT ![m] = row]
  /\ ThenSelect(h, "create", {m}, row)
  /\ Strays(h, {m}, TRUE)
  /\ UNCHANGED <<regVars, stage>>

(* The row is loaded back and, if the monitor is to be active, started with
   what was loaded.  A row deleted meanwhile leaves an active monitor's handler
   indexing an empty slice: it panics, and nothing is sent. *)
CreateSelect(h) ==
  /\ Doing(h, "create", "select")
  /\ ThenSend(h, task[h].ids, Restarts(task[h].ids, task[h].row))
  /\ UNCHANGED <<regVars, table, issued, stage, strayed>>

-----------------------------------------------------------------------------
(* Update. *)

(* The monitor of the URL must exist; the one of the body, m, is the one that
   is updated. *)
UpdateCheck(h, url, m, row) ==
  /\ Arrives(h)
  /\ url \in Rows
  /\ task' = [task EXCEPT ![h] = [kind |-> "update", step |-> "check",
                                  ids |-> {m}, row |-> row, out |-> <<>>]]
  /\ UNCHANGED <<regVars, table, issued, stage, strayed>>

(* Seeded bug: the row is written whether or not it is still there. *)
UpdateWriteUpserts(h) ==
  /\ Doing(h, "update", "check")
  /\ table' = [m \in Monitors |-> IF m \in task[h].ids \cap issued THEN task[h].row ELSE table[m]]
  /\ ThenSelect(h, "update", task[h].ids, task[h].row)
  /\ Strays(h, task[h].ids, TRUE)
  /\ UNCHANGED <<regVars, issued, stage>>

(* The update is one transaction, and updates nothing when the row is gone. *)
UpdateWrite(h) ==
  /\ Doing(h, "update", "check")
  /\ table' = [m \in Monitors |-> IF m \in task[h].ids \cap Rows THEN task[h].row ELSE table[m]]
  /\ ThenSelect(h, "update", task[h].ids, task[h].row)
  /\ Strays(h, task[h].ids, TRUE)
  /\ UNCHANGED <<regVars, issued, stage>>

(* It is rolled back, and the handler is done. *)
UpdateFails(h) ==
  /\ Doing(h, "update", "check") /\ "write" \in Failing
  /\ Ends(h)
  /\ UNCHANGED <<regVars, table, issued, stage, strayed>>

(* Seeded bug: the worker is not stopped first. *)
UpdateSelectNoStop(h) ==
  /\ Doing(h, "update", "select")
  /\ ThenSend(h, task[h].ids,
              IF task[h].row.active THEN Restarts(task[h].ids, task[h].row)
                                    ELSE Stops(SetToSeq(task[h].ids)))
  /\ UNCHANGED <<regVars, table, issued, stage, strayed>>

(* The monitor is stopped, and started again as it was loaded if it is to be
   active; the handler of an active monitor that is gone panics after the stop. *)
UpdateSelect(h) ==
  /\ Doing(h, "update", "select")
  /\ ThenSend(h, task[h].ids,
              Stops(SetToSeq(task[h].ids)) \o Restarts(task[h].ids, task[h].row))
  /\ UNCHANGED <<regVars, table, issued, stage, strayed>>

-----------------------------------------------------------------------------
(* Toggle: the write of the table, then a start for every monitor found, in the
   order of a Go map, or a stop for every id of the request. *)

ToggleOn(h, ids) ==
  /\ Arrives(h)
  /\ table' = [m \in Monitors |-> IF m \in ids \cap Rows
                                  THEN [table[m] EXCEPT !.active = TRUE] ELSE table[m]]
  /\ ThenSelect(h, "enable", ids, None)
  /\ Strays(h, ids, FALSE)
  /\ UNCHANGED <<regVars, issued, stage>>

EnableSelect(h) ==
  /\ Doing(h, "enable", "select")
  /\ \E ms \in Orders(task[h].ids \cap Rows) : ThenSend(h, task[h].ids, Starts(ms))
  /\ UNCHANGED <<regVars, table, issued, stage, strayed>>

ToggleOff(h, ids) ==
  /\ Arrives(h)
  /\ table' = [m \in Monitors |-> IF m \in ids \cap Rows
                                  THEN [table[m] EXCEPT !.active = FALSE] ELSE table[m]]
  /\ \E ms \in Orders(ids) : ThenSend(h, ids, Stops(ms))
  /\ Strays(h, ids, TRUE)
  /\ UNCHANGED <<regVars, issued, stage>>

(* The error of the write is dropped: the distributor is told all the same. *)
ToggleFails(h, ids) ==
  /\ Arrives(h) /\ "write" \in Failing
  /\ \/ ThenSelect(h, "enable", ids, None)
     \/ \E ms \in Orders(ids) : ThenSend(h, ids, Stops(ms))
  /\ strayed' = strayed \cup ids
  /\ UNCHANGED <<regVars, table, issued, stage>>

-----------------------------------------------------------------------------
(* Delete and poll. *)

(* The rows are deleted and their monitors stopped. *)
Delete(h, ids) ==
  /\ Arrives(h)
  /\ table' = [m \in Monitors |-> IF m \in ids THEN None ELSE table[m]]
  /\ \E ms \in Orders(ids) : ThenSend(h, ids, Stops(ms))
  /\ Strays(h, ids, TRUE)
  /\ UNCHANGED <<regVars, issued, stage>>

(* A poll is requested for what the table holds. *)
MayPoll(m) == \A j \in Job : j.mon = m => due[j] < MaxDue

PollSelect(h, m) ==
  /\ Arrives(h) /\ MayPoll(m)
  /\ m \in Rows
  /\ ThenSend(h, {}, <<PollMessage(JobOf(m))>>)
  /\ UNCHANGED <<regVars, table, issued, stage, strayed>>

-----------------------------------------------------------------------------
(* Start and crash. *)

(* main loads the active monitors, in the order of a Go map. *)
Restore ==
  /\ stage.at = "loading"
  /\ \E ms \in Orders({m \in Rows : table[m].active}) :
       stage' = [at |-> "restoring", out |-> Starts(ms)]
  /\ UNCHANGED <<regVars, table, issued, task, strayed>>

(* It starts one after the other, and serves requests when it has started all. *)
RestoreNext ==
  /\ stage.at = "restoring" /\ stage.out # <<>>
  /\ Len(mailbox) < Room
  /\ Accept(Head(stage.out))
  /\ stage' = [stage EXCEPT !.out = Tail(@)]
  /\ UNCHANGED <<table, issued, task, strayed>>

Serve ==
  /\ stage.at = "restoring" /\ stage.out = <<>>
  /\ stage' = [at |-> "serving", out |-> <<>>]
  /\ UNCHANGED <<regVars, table, issued, task, strayed>>

(* The process ends at any moment, and a new one begins: the channel, the
   distributor and the requests in progress are gone, the table is not. *)
Crash ==
  /\ stage.at # "loading"
  /\ stage' = [at |-> "loading", out |-> <<>>]
  /\ mailbox' = <<>>
  /\ started' = [m \in Monitors |-> None]
  /\ due' = [j \in Job |-> 0]
  /\ task' = [h \in Handlers |-> None]
  /\ strayed' = {}
  /\ UNCHANGED <<table, issued>>

-----------------------------------------------------------------------------

(* A step of the distributor, or of a poll. *)
Distribute ==
  /\ \/ RegApply
     \/ \E m \in Monitors : MayPoll(m) /\ Fire(m)
     \/ \E j \in Job, msg \in Notices : Len(mailbox) < Room /\ Finish(j, msg)
  /\ UNCHANGED svcVars

Handle(h) ==
  \/ \E m \in Monitors, row \in Row : CreateInsert(h, m, row)
  \/ CreateSelect(h) \/ UpdateWrite(h) \/ UpdateFails(h) \/ UpdateSelect(h)
  \/ \E url, m \in Monitors, row \in Row : UpdateCheck(h, url, m, row)
  \/ \E ids \in SUBSET Monitors \ {{}} :
       ToggleOn(h, ids) \/ ToggleOff(h, ids) \/ ToggleFails(h, ids) \/ Delete(h, ids)
  \/ EnableSelect(h)
  \/ \E m \in Monitors : PollSelect(h, m)
  \/ SelectFails(h) \/ SendNext(h)

Next ==
  \/ \E h \in Handlers : Handle(h)
  \/ Restore \/ RestoreNext \/ Serve \/ Crash
  \/ Distribute

Spec == Init /\ [][Next]_vars

(* Handlers and main go on; a sender waiting for room gets its turn.  Nothing is
   assumed of requests, of timers or of crashes, and nothing of the distributor,
   which may stop listening for good (distributor.go:193 and 200). *)
Fairness ==
  /\ \A h \in Handlers : /\ WF_vars(CreateSelect(h) \/ UpdateWrite(h) \/ UpdateSelect(h) \/ EnableSelect(h))
                        /\ SF_vars(SendNext(h))
  /\ WF_vars(Restore) /\ SF_vars(RestoreNext) /\ WF_vars(Serve)

FairSpec == Spec /\ Fairness

-----------------------------------------------------------------------------
(* Properties. *)

(* Every variable has its type. *)
TypeOK ==
  /\ mailbox \in Seq(Message) /\ Len(mailbox) <= Room
  /\ started \in [Monitors -> Configs \cup {None}]
  /\ due \in [Job -> Nat]
  /\ table \in [Monitors -> Row \cup {None}]
  /\ issued \subseteq Monitors /\ strayed \subseteq Monitors
  /\ stage \in [at : {"loading", "restoring", "serving"}, out : Seq(Message)]
  /\ task \in [Handlers -> Task \cup {None}]

(* What monitor m is to be started with. *)
Wanted(m) == IF m \in Rows /\ table[m].active THEN table[m].cfg ELSE None

(* No request is busy with m, and none left a message about it. *)
Quiet(m) ==
  /\ stage.at = "serving"
  /\ \A h \in Handlers : m \notin Holds(h)
  /\ \A i \in 1 .. Len(mailbox) :
       mailbox[i] # StopMessage(m) /\ \A j \in Job : j.mon = m => mailbox[i] # StartMessage(j)

(* When nothing about a monitor is under way, it is polled with the
   configuration of its row if that row is active, and not at all otherwise:
   after any sequence of creates, updates, toggles and deletes, after failed
   queries and after a restart in the middle of any of them - except for
   the monitors whose last requests overlapped, or told the distributor
   something else than they wrote. *)
InStep == \A m \in Monitors : Quiet(m) /\ m \notin strayed => started[m] = Wanted(m)

(* The same, without the exception: "Controls the polling state of the
   monitor", the editor says of a monitor's state (Editor.tsx:198). *)
ActiveControlsPolling == \A m \in Monitors : Quiet(m) => started[m] = Wanted(m)

(* A deleted monitor never comes back, whatever requests were in progress when
   it was deleted: no update recreates its row, no id is issued twice. *)
DeletedForGood ==
  [][\A m \in issued : table[m] = None => table'[m] = None]_vars

(* While the process serves, nothing overlaps or fails and the distributor goes
   on taking messages, it comes to do what the table says.  That it goes on is a
   condition, because it may not: TakesMessages of Distributor derives it from
   KeepsListening, which the run of DistributorSelfBlock.cfg refutes. *)
TakesEffect ==
  KeepsTaking => \A m \in Monitors, w \in Configs \cup {None} :
    <>[](stage.at = "serving" /\ Wanted(m) = w /\ m \notin strayed) => []<>(started[m] = w)

=============================================================================
