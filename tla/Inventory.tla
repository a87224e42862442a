----------------------------- MODULE Inventory -----------------------------
(***************************************************************************)
(* The monitors a browser tab shows: the state of monitorReducer, the      *)
(* requests the components of the dashboard have under way, and the feed.  *)
(* A component changes the state when a request is answered, with values   *)
(* its closure captured when the request was made; other answers, the feed *)
(* and the user come in between.                                           *)
(*                                                                         *)
(* The reducer compares monitors as objects.  An object is [id, live]: the *)
(* one the inventory holds for that id is live, one that was overwritten,  *)
(* deleted or copied is not.                                               *)
(***************************************************************************)
EXTENDS Naturals, Sequences, FiniteSets, SequencesExt

CONSTANTS
  Monitors,         \* the ids of monitors
  Requests,         \* requests that can be under way at once
  MaxMeasurements,  \* inventoryMaxMeasurements
  BatchSize,        \* inventoryBatchSize
  Late,             \* ids of measurements stored after one whose poll began later
  FirstActive,      \* the active states stored before the tab is opened
  FirstRows,        \* measurements stored before the tab is opened
  MaxWork,          \* bound on the requests and measurements after that
  Backlog,          \* bound on the measurements on their way to the tab
  None              \* not stored

ASSUME InventoryAssumption ==
  /\ BatchSize \in Nat \ {0} /\ MaxMeasurements \in Nat
  /\ BatchSize < MaxMeasurements
  /\ Backlog \in 1..BatchSize
  /\ FirstActive \subseteq BOOLEAN /\ FirstRows \in Nat
  /\ MaxWork \in Nat /\ Late \subseteq 1..(FirstRows + MaxWork)
  /\ None \notin BOOLEAN

VARIABLES
  state,    \* MonitorState: monitors, selected, deleting, pane (its split)
  flight,   \* the closure of each request under way, NoRequest if there is none
  loaded,   \* what the answer to the first load holds
  store,    \* the active flag of each stored monitor, None if not stored
  issued,   \* ids the server has used
  measured, \* the measurements stored for each monitor
  rows,     \* the last measurement id
  asked,    \* the requests made so far
  feed,     \* the measurements on their way to the tab
  socket,   \* "connecting", "open" or "lost"
  doubt,    \* monitors the tab may be wrong about: a request about them failed,
            \* was not answered, or met another one
  missed    \* measurements the feed did not bring, or that came too early

clientVars == <<state, flight, loaded, asked, doubt>>
serverVars == <<store, issued, measured, rows>>
feedVars == <<feed, socket, missed>>
vars == <<clientVars, serverVars, feedVars>>

Object(m, live) == [id |-> m, live |-> live]
Objects == [id : Monitors, live : BOOLEAN]
Ids(objects) == {o.id : o \in objects}
Least(a, b) == IF a < b THEN a ELSE b

(* The elements of a finite set of numbers, from the least to the greatest. *)
Increases(f) == \A i, j \in DOMAIN f : i < j => f[i] < f[j]
InOrder(S) == CHOOSE f \in [1..Cardinality(S) -> S] : Increases(f)

(* inventoryChunkSize *)
ChunkSize == IF MaxMeasurements - BatchSize > 1 THEN MaxMeasurements - BatchSize ELSE 1

(* The panes of a split.  Drafting is an editor of null; a pane that shows no
   monitor, the settings or the accounts, does the same as no pane here. *)
Pane(kind) == [kind |-> kind]
PaneOf(kind, o) == [kind |-> kind, monitor |-> o]
Shows(pane, ids) == pane.kind \in {"view", "editor"} /\ pane.monitor.id \in ids

-----------------------------------------------------------------------------
(* The reducer. *)

Known == DOMAIN state.monitors

(* An object that stops being the one in the inventory. *)
Aged(o, ids) == IF o.id \in ids THEN Object(o.id, FALSE) ELSE o

resetAction(batch) ==
  [monitors |-> batch, selected |-> {}, deleting |-> {}, pane |-> Pane("none")]

(* Only the ids of the monitors to delete are used. *)
queueMonitorDeleteAction(objects) == [state EXCEPT !.deleting = Ids(objects)]

(* Seeded bug: what is selected stays selected. *)
deleteKeepsSelected(ids) ==
  [state EXCEPT !.monitors = [m \in Known \ ids |-> state.monitors[m]], !.deleting = {},
                !.pane = IF Shows(@, ids) THEN Pane("none") ELSE @]

deleteMonitorAction(ids) ==
  [monitors |-> [m \in Known \ ids |-> state.monitors[m]],
   selected |-> {},
   deleting |-> {},
   pane     |-> IF Shows(state.pane, ids) THEN Pane("none") ELSE state.pane]

toggleMonitorAction(ids, active) ==
  [monitors |-> [m \in Known |->
                   IF m \in ids THEN [state.monitors[m] EXCEPT !.active = active]
                   ELSE state.monitors[m]],
   selected |-> {},
   deleting |-> {},
   pane     |-> state.pane]

(* Seeded bug: the measurements are not recycled; those sent are none. *)
overwriteForgets(m, active) ==
  [monitors |-> [n \in Known \cup {m} |->
                   IF n = m THEN [active |-> active, list |-> <<>>] ELSE state.monitors[n]],
   selected |-> {Aged(o, {m}) : o \in state.selected},
   deleting |-> state.deleting,
   pane     |-> PaneOf("editor", Object(m, TRUE))]

overwriteMonitorAction(m, active) ==
  LET list == IF m \in Known THEN state.monitors[m].list ELSE <<>>
  IN [monitors |-> [n \in Known \cup {m} |->
                      IF n = m THEN [active |-> active, list |-> list]
                      ELSE state.monitors[n]],
      selected |-> {Aged(o, {m}) : o \in state.selected},
      deleting |-> state.deleting,
      pane     |-> PaneOf("editor", Object(m, TRUE))]

(* Seeded bug: a list is trimmed one measurement late. *)
TrimLate(list) ==
  IF Len(list) > MaxMeasurements THEN SubSeq(list, ChunkSize + 1, Len(list)) ELSE list

Trim(list) ==
  IF Len(list) >= MaxMeasurements THEN SubSeq(list, ChunkSize + 1, Len(list)) ELSE list

WithList(m, list) == [state EXCEPT !.monitors[m].list = list]

(* Seeded bug: a list that is full is trimmed instead of extended. *)
pollOrTrim(m, row) ==
  IF m \notin Known THEN state
  ELSE [state EXCEPT !.monitors[m].list =
          IF row \in ToSet(@) \/ Len(@) >= MaxMeasurements THEN Trim(@) ELSE Append(@, row)]

pollAction(m, row) ==
  IF m \notin Known THEN state
  ELSE LET kept == Trim(state.monitors[m].list)
       IN WithList(m, IF row \in ToSet(kept) THEN kept ELSE Append(kept, row))

selectAction(m) ==
  LET o == Object(m, TRUE)
  IN [state EXCEPT !.selected = IF o \in @ THEN @ \ {o} ELSE @ \cup {o}]

Without(list, ids) ==
  LET kept == InOrder({i \in DOMAIN list : list[i] \notin ids})
  IN [j \in DOMAIN kept |-> list[kept[j]]]
addMeasurementAction(m, ids) ==
  IF m \notin Known THEN state
  ELSE WithList(m, Without(state.monitors[m].list, ids))

SetPane(pane) == [state EXCEPT !.pane = pane]

viewPaneAction(o, disableToggle) ==
  IF ~disableToggle /\ state.pane = PaneOf("view", o) THEN SetPane(Pane("none"))
  ELSE SetPane(PaneOf("view", o))

editorPaneAction(o) ==
  IF state.pane = PaneOf("editor", o) THEN SetPane(Pane("none"))
  ELSE SetPane(PaneOf("editor", o))

-----------------------------------------------------------------------------
(* Requests. *)

(* monitor, ids and shown are what a request to prune a list captured. *)
Closure(op, about) ==
  [op |-> op, at |-> "asked", about |-> about, active |-> FALSE,
   monitor |-> None, ids |-> {}, shown |-> FALSE]

NoRequest == Closure("none", {})

Reads == {"history", "prune"}
Pending(q) == flight[q].op # "none"
Asked(q, op) == Pending(q) /\ flight[q].op = op
loading == \E q \in Requests : Asked(q, "load")

(* Two requests that must not be under way at once for the tab to be sure. *)
Conflict(f, g) == "delete" \in {f.op, g.op} \/ {f.op, g.op} \cap Reads = {}
Contended(f) ==
  UNION {f.about \cap flight[q].about : q \in {p \in Requests : Pending(p) /\ Conflict(f, flight[p])}}

HasWork == asked + rows < FirstRows + MaxWork

Ask(f) ==
  /\ HasWork /\ asked' = asked + 1
  /\ \E q \in Requests : ~Pending(q) /\ flight' = [flight EXCEPT ![q] = f]
  /\ doubt' = doubt \cup Contended(f)
  /\ UNCHANGED <<state, loaded, serverVars, feedVars>>

Init ==
  /\ state = resetAction(<<>>)
  /\ \E q \in Requests :
       flight = [p \in Requests |-> IF p = q THEN Closure("load", Monitors) ELSE NoRequest]
  /\ loaded = <<>>
  /\ store \in [Monitors -> FirstActive \cup {None}]
  /\ issued = {m \in Monitors : store[m] # None}
  /\ \E owner \in SUBSET issued :
       /\ Cardinality(owner) = Least(1, Cardinality(issued))
       /\ measured = [m \in Monitors |-> IF m \in owner THEN 1..FirstRows ELSE {}]
  /\ rows = FirstRows /\ asked = 0
  /\ feed = <<>> /\ socket = "connecting" /\ missed = {}
  /\ doubt = {}

-----------------------------------------------------------------------------
(* The user.  The loading screen and the dialog that confirms a deletion block
   everything below them. *)

Free == ~loading /\ state.deleting = {}

Dispatch(next) ==
  /\ state' = next
  /\ UNCHANGED <<flight, loaded, asked, doubt, serverVars, feedVars>>

(* The buttons of a monitor's card. *)
OnCard(m) ==
  /\ Free /\ m \in Known
  /\ \/ Dispatch(selectAction(m))
     \/ \E disableToggle \in BOOLEAN : Dispatch(viewPaneAction(Object(m, TRUE), disableToggle))
     \/ Dispatch(editorPaneAction(Object(m, TRUE)))
     \/ Dispatch(queueMonitorDeleteAction({Object(m, TRUE)}))

(* The buttons of the two menus. *)
OnMenu ==
  /\ Free
  /\ \/ Dispatch([state EXCEPT !.selected = {Object(m, TRUE) : m \in Known}])
     \/ Dispatch([state EXCEPT !.selected = {}])
     \/ Dispatch(queueMonitorDeleteAction(state.selected))
     \/ Dispatch(SetPane(Pane("draft")))
     \/ Dispatch(SetPane(Pane("none")))

(* The buttons of a pane that shows a monitor. *)
OnPane ==
  /\ Free /\ state.pane.kind \in {"view", "editor", "draft"}
  /\ \/ Dispatch(SetPane(Pane("none")))
     \/ state.pane.kind = "view" /\ Dispatch(editorPaneAction(state.pane.monitor))
     \/ state.pane.kind = "view" /\ Dispatch(queueMonitorDeleteAction({state.pane.monitor}))

(* changeDateRange back to the newest measurements. *)
AttachHead ==
  /\ Free /\ state.pane.kind = "view" /\ state.pane.monitor.id \in Known
  /\ Dispatch(viewPaneAction(Object(state.pane.monitor.id, TRUE), TRUE))

CancelDelete == state.deleting # {} /\ Dispatch(queueMonitorDeleteAction({}))

AskDelete == state.deleting # {} /\ Ask(Closure("delete", state.deleting))

(* A card toggles its monitor; the menu sets the selected ones when it sees one
   that differs.  What an object out of the inventory says is not known. *)
AskToggle(active) ==
  /\ Free
  /\ \E ids \in SUBSET Known :
       /\ \/ \E m \in Known : ids = {m} /\ state.monitors[m].active # active
          \/ /\ ids = Ids(state.selected)
             /\ \E o \in state.selected : o.live => state.monitors[o.id].active # active
       /\ Ask([Closure("toggle", ids) EXCEPT !.active = active])

AskUpdate(active) ==
  /\ Free /\ state.pane.kind = "editor"
  /\ Ask([Closure("update", {state.pane.monitor.id}) EXCEPT !.active = active])

AskCreate(active) ==
  /\ Free /\ state.pane.kind = "draft"
  /\ Ask([Closure("create", {}) EXCEPT !.active = active])

AskHistory ==
  /\ Free /\ state.pane.kind = "view"
  /\ Ask(Closure("history", {state.pane.monitor.id}))

(* shown: the measurement that is displayed is among those to delete. *)
AskPrune(shown) ==
  /\ Free /\ state.pane.kind = "view"
  /\ LET o == state.pane.monitor
         visible == IF o.live THEN ToSet(state.monitors[o.id].list) ELSE measured[o.id]
     IN \E ids \in SUBSET visible \ {{}} :
          Ask([op |-> "prune", at |-> "asked", about |-> {o.id}, active |-> FALSE,
               monitor |-> o, ids |-> ids, shown |-> shown])

-----------------------------------------------------------------------------
(* The server: its handlers execute a request in one step each here, and may
   fail before, after or, in one case, without saying so. *)

Arrived(q, op) == Asked(q, op) /\ flight[q].at = "asked"
Replies(q, at) == flight' = [flight EXCEPT ![q].at = at]
Stored == {m \in Monitors : store[m] # None}
Put(ids, active) == store' = [m \in Monitors |-> IF m \in ids THEN active ELSE store[m]]

(* What one query may rank as the newest measurements of m: by the time their
   polls began, not by their ids. *)
Batches(m) ==
  {b \in SUBSET measured[m] :
     /\ Cardinality(b) = Least(BatchSize, Cardinality(measured[m]))
     /\ \A r \in measured[m] \ b : r \in Late \/ \A n \in b : r < n}

RunLoad(q) ==
  /\ Arrived(q, "load")
  /\ \E batch \in [Stored -> SUBSET (1..rows)] :
       /\ \A m \in Stored : batch[m] \in Batches(m)
       /\ loaded' = [m \in Stored |->
                       [active |-> store[m], list |-> InOrder(batch[m])]]
  /\ Replies(q, "ok")
  /\ UNCHANGED <<state, asked, doubt, serverVars, feedVars>>

RunDelete(q) ==
  /\ Arrived(q, "delete")
  /\ Put(flight[q].about, None)
  /\ measured' = [m \in Monitors |-> IF m \in flight[q].about THEN {} ELSE measured[m]]
  /\ Replies(q, "ok")
  /\ UNCHANGED <<state, loaded, asked, doubt, issued, rows, feedVars>>

(* Of the two queries the first fails unnoticed, the second after the write. *)
RunToggle(q) ==
  /\ Arrived(q, "toggle")
  /\ \/ /\ Put(flight[q].about \cap Stored, flight[q].active)
        /\ Replies(q, "ok") /\ doubt' = doubt
     \/ /\ Put({}, None)
        /\ Replies(q, "ok") /\ doubt' = doubt \cup flight[q].about
     \/ /\ flight[q].active /\ Put(flight[q].about \cap Stored, TRUE)
        /\ Replies(q, "error") /\ doubt' = doubt \cup flight[q].about
  /\ UNCHANGED <<state, loaded, asked, issued, measured, rows, feedVars>>

RunUpdate(q) ==
  /\ Arrived(q, "update") /\ flight[q].about \subseteq Stored
  /\ Put(flight[q].about, flight[q].active)
  /\ \/ Replies(q, "ok") /\ doubt' = doubt
     \/ Replies(q, "error") /\ doubt' = doubt \cup flight[q].about
  /\ UNCHANGED <<state, loaded, asked, issued, measured, rows, feedVars>>

(* From then on the request is about the monitor that it made. *)
Creates(q, at, m) == flight' = [flight EXCEPT ![q] = [@ EXCEPT !.at = at, !.about = {m}]]

RunCreate(q) ==
  /\ Arrived(q, "create")
  /\ \E m \in Monitors \ issued :
       /\ Put({m}, flight[q].active)
       /\ issued' = issued \cup {m}
       /\ \/ Creates(q, "ok", m) /\ doubt' = doubt
          \/ Creates(q, "error", m) /\ doubt' = doubt \cup {m}
  /\ UNCHANGED <<state, loaded, asked, measured, rows, feedVars>>

RunHistory(q) ==
  /\ Arrived(q, "history")
  /\ Replies(q, "ok")
  /\ UNCHANGED <<state, loaded, asked, doubt, serverVars, feedVars>>

RunPrune(q) ==
  /\ Arrived(q, "prune")
  /\ measured' = [m \in Monitors |-> measured[m] \ flight[q].ids]
  /\ Replies(q, "ok")
  /\ UNCHANGED <<state, loaded, asked, doubt, store, issued, rows, feedVars>>

(* Rejected, or failed before anything was written. *)
Refuse(q) ==
  /\ Pending(q) /\ flight[q].at = "asked"
  /\ Replies(q, "error")
  /\ UNCHANGED <<state, loaded, asked, doubt, serverVars, feedVars>>

(* A measurement of m is stored and sent to every subscriber. *)
Measure(m) ==
  /\ store[m] # None /\ HasWork
  /\ socket = "open" => Len(feed) < Backlog
  /\ rows' = rows + 1
  /\ measured' = [measured EXCEPT ![m] = @ \cup {rows + 1}]
  /\ IF socket = "open"
     THEN feed' = Append(feed, [monitor |-> m, row |-> rows + 1]) /\ missed' = missed
     ELSE feed' = feed /\ missed' = missed \cup {rows + 1}
  /\ UNCHANGED <<store, issued, socket, clientVars>>

-----------------------------------------------------------------------------
(* The feed.  What is lost is not connected again before the next login. *)

Subscribe ==
  /\ socket = "connecting"
  /\ socket' = "open"
  /\ UNCHANGED <<feed, missed, clientVars, serverVars>>

LoseFeed ==
  /\ socket # "lost"
  /\ socket' = "lost" /\ feed' = <<>>
  /\ missed' = missed \cup {feed[i].row : i \in DOMAIN feed}
  /\ UNCHANGED <<clientVars, serverVars>>

Deliver ==
  /\ feed # <<>>
  /\ LET x == Head(feed)
     IN /\ state' = pollAction(x.monitor, x.row)
        /\ missed' = IF x.monitor \in Known THEN missed ELSE missed \cup {x.row}
  /\ feed' = Tail(feed)
  /\ UNCHANGED <<flight, loaded, asked, doubt, socket, serverVars>>

-----------------------------------------------------------------------------
(* Answers: what a component does after the await. *)

Answered(q, op) == Asked(q, op) /\ flight[q].at = "ok"

(* Request q ends; the objects of ids that others captured have been replaced. *)
Finish(q, ids) ==
  /\ flight' = [p \in Requests |->
                  IF p = q THEN NoRequest
                  ELSE IF Asked(p, "prune")
                       THEN [flight[p] EXCEPT !.monitor = Aged(@, ids)]
                       ELSE flight[p]]
  /\ UNCHANGED <<serverVars, feedVars>>

AnswerLoad(q) ==
  /\ Answered(q, "load")
  /\ state' = resetAction(loaded)
  /\ loaded' = <<>>
  /\ Finish(q, {}) /\ UNCHANGED <<asked, doubt>>

(* Seeded bug: the answer is not looked at. *)
AnswerDeleteUnread(q) ==
  /\ Asked(q, "delete") /\ flight[q].at # "asked"
  /\ state' = deleteMonitorAction(flight[q].about)
  /\ Finish(q, flight[q].about) /\ UNCHANGED <<loaded, asked, doubt>>

AnswerDelete(q) ==
  /\ Answered(q, "delete")
  /\ state' = deleteMonitorAction(flight[q].about)
  /\ Finish(q, flight[q].about) /\ UNCHANGED <<loaded, asked, doubt>>

AnswerToggle(q) ==
  /\ Answered(q, "toggle")
  /\ state' = toggleMonitorAction(flight[q].about, flight[q].active)
  /\ Finish(q, {}) /\ UNCHANGED <<loaded, asked, doubt>>

AnswerSave(q) ==
  /\ Answered(q, "update") \/ Answered(q, "create")
  /\ \E m \in flight[q].about : state' = overwriteMonitorAction(m, flight[q].active)
  /\ Finish(q, flight[q].about) /\ UNCHANGED <<loaded, asked, doubt>>

(* The answer is shown as a copy of the monitor. *)
AnswerHistory(q) ==
  /\ Answered(q, "history")
  /\ \E m \in flight[q].about : state' = viewPaneAction(Object(m, FALSE), TRUE)
  /\ Finish(q, {}) /\ UNCHANGED <<loaded, asked, doubt>>

AnswerPrune(q) ==
  /\ Answered(q, "prune")
  /\ LET f == flight[q]
         pruned == addMeasurementAction(f.monitor.id, f.ids)
     IN state' = IF f.shown THEN [pruned EXCEPT !.pane = PaneOf("view", f.monitor)]
                 ELSE pruned
  /\ Finish(q, {}) /\ UNCHANGED <<loaded, asked, doubt>>

(* An error is shown, and that is all. *)
AnswerError(q) ==
  /\ Pending(q) /\ flight[q].at = "error"
  /\ doubt' = IF flight[q].op = "load" THEN Monitors ELSE doubt
  /\ Finish(q, {}) /\ UNCHANGED <<state, loaded, asked>>

(* The network fails: fetch rejects, executed or not. *)
Lose(q) ==
  /\ Pending(q)
  /\ state' = IF flight[q].op = "delete" THEN queueMonitorDeleteAction({}) ELSE state
  /\ doubt' = IF flight[q].op \in Reads THEN doubt ELSE doubt \cup flight[q].about
  /\ loaded' = IF flight[q].op = "load" THEN <<>> ELSE loaded
  /\ Finish(q, {}) /\ UNCHANGED asked

User ==
  \/ \E m \in Monitors : OnCard(m)
  \/ OnMenu \/ OnPane \/ AttachHead \/ CancelDelete \/ AskDelete
  \/ \E active \in BOOLEAN : AskToggle(active) \/ AskUpdate(active) \/ AskCreate(active)
  \/ AskHistory
  \/ \E shown \in BOOLEAN : AskPrune(shown)

Server ==
  \/ \E m \in Monitors : Measure(m)
  \/ \E q \in Requests :
       \/ RunLoad(q) \/ RunDelete(q) \/ RunToggle(q) \/ RunUpdate(q)
       \/ RunCreate(q) \/ RunHistory(q) \/ RunPrune(q) \/ Refuse(q)

Arrival ==
  \/ Subscribe \/ LoseFeed \/ Deliver
  \/ \E q \in Requests :
       \/ AnswerLoad(q) \/ AnswerDelete(q) \/ AnswerToggle(q) \/ AnswerSave(q)
       \/ AnswerHistory(q) \/ AnswerPrune(q) \/ AnswerError(q) \/ Lose(q)

Next == User \/ Server \/ Arrival

Spec == Init /\ [][Next]_vars

-----------------------------------------------------------------------------
(* Properties. *)

Rows == 1..(FirstRows + MaxWork)

(* The types of the variables; no list grows over inventoryMaxMeasurements. *)
TypeOK ==
  /\ Known \subseteq Monitors
  /\ \A m \in Known :
       /\ state.monitors[m].active \in BOOLEAN
       /\ ToSet(state.monitors[m].list) \subseteq Rows
       /\ Len(state.monitors[m].list) <= MaxMeasurements
  /\ state.selected \subseteq Objects /\ state.deleting \subseteq Monitors
  /\ state.pane \in {Pane("none"), Pane("draft")} \cup {PaneOf("view", o) : o \in Objects}
                    \cup {PaneOf("editor", o) : o \in Objects}
  /\ \A q \in Requests : Pending(q) =>
       flight[q].at \in {"asked", "ok", "error"} /\ flight[q].about \subseteq Monitors
  /\ store \in [Monitors -> BOOLEAN \cup {None}] /\ issued \subseteq Monitors
  /\ measured \in [Monitors -> SUBSET Rows] /\ rows + asked \in 0..(FirstRows + MaxWork)
  /\ \A i \in DOMAIN feed : feed[i] \in [monitor : Monitors, row : Rows]
  /\ socket \in {"connecting", "open", "lost"}
  /\ doubt \subseteq Monitors /\ missed \subseteq Rows

(* The measurements of m that exist, but for those that were late. *)
Timely(m) == measured[m] \ Late

(* However the answer to the first load, the feed, deletions and edits are
   interleaved, the measurements that still exist are listed once each and from
   the oldest to the newest, as resetAction and pollAction mean them to be; one
   whose poll began before that of its predecessor may be anywhere. *)
Ordered ==
  \A m \in Known :
    LET list == state.monitors[m].list
        Listed == {i \in DOMAIN list : list[i] \in Timely(m)}
    IN \A i, j \in Listed : i < j => list[i] < list[j]

(* Of two measurements that are listed none in between is missing that still
   exists, except for those the feed could not bring and those still on their
   way. *)
NothingMissed ==
  \A m \in Known : \A r \in Timely(m) :
    LET listed == ToSet(state.monitors[m].list)
    IN \/ r \in listed \cup missed
       \/ \E i \in DOMAIN feed : feed[i].row = r
       \/ \A n \in listed \cap Timely(m) : n > r

(* A list is the newest of what the feed brought and still exists, in order,
   with nothing left out in between. *)
ListsRight == Ordered /\ NothingMissed

(* A step may drop measurements that exist from a list only to make room, and
   then never one of the newest inventoryBatchSize: an answered edit, a
   toggled monitor and a deletion of other measurements keep them. *)
KeepsNewest ==
  [][\A m \in Known \cap DOMAIN state'.monitors :
       LET list == state.monitors[m].list
       IN \A i \in DOMAIN list :
            \/ list[i] \in ToSet(state'.monitors[m].list)
            \/ list[i] \notin measured[m]
            \/ Len(list) = MaxMeasurements /\ i <= Len(list) - BatchSize]_vars

(* Whatever is selected or queued for deletion is in the inventory, so the menu
   never counts, toggles or deletes a monitor that the dashboard does not show. *)
SelectionKnown ==
  /\ Ids(state.selected) \subseteq Known
  /\ state.deleting \subseteq Known \cup doubt

(* "If the split is related to a monitor that was just deleted, it should
   close", and it stays closed, unless requests about that monitor met. *)
SplitInInventory == Shows(state.pane, Monitors \ doubt) => state.pane.monitor.id \in Known

(* No part of the tab's state refers to a monitor it does not have. *)
ReferencesKnown == SelectionKnown /\ SplitInInventory

(* When no request about a monitor is under way, the dashboard shows it if and
   only if it is stored, with the active state it is stored with. *)
InventoryAgrees ==
  \A m \in Monitors \ doubt :
    \/ \E q \in Requests : Pending(q) /\ flight[q].op \notin Reads /\ m \in flight[q].about
    \/ /\ m \in Known <=> store[m] # None
       /\ m \in Known => state.monitors[m].active = store[m]
=============================================================================
