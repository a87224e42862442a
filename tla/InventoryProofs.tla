--------------------------- MODULE InventoryProofs ---------------------------
(* Proofs about the inventory of a browser tab, for any monitors, any number of
   requests at once, any lists and any bounds. *)
EXTENDS Inventory, FiniteSetTheorems, WellFoundedInduction, TLAPS

-----------------------------------------------------------------------------
(* The inductive invariant. *)

(* What the inventory has of a monitor; its list is whatever it is. *)
IsEntry(e) == e = [active |-> e.active, list |-> e.list] /\ e.active \in BOOLEAN
IsTable(t) == t = [m \in DOMAIN t |-> t[m]] /\ \A m \in DOMAIN t : IsEntry(t[m])

Ops == {"none", "load", "create", "update", "toggle", "delete", "history", "prune"}

IsRequest(f) ==
  /\ f = [op |-> f.op, at |-> f.at, about |-> f.about, active |-> f.active,
          monitor |-> f.monitor, ids |-> f.ids, shown |-> f.shown]
  /\ f.op \in Ops /\ f.at \in {"asked", "ok", "error"} /\ f.about \subseteq Monitors
  /\ f.active \in BOOLEAN
  /\ f.op = "prune" => f.monitor \in Objects /\ f.about = {f.monitor.id}

IsPane(pane) ==
  \/ \E k \in {"none", "draft"} : pane = Pane(k)
  \/ \E k \in {"view", "editor"} : \E o \in Objects : pane = PaneOf(k, o)

(* The state of the tab: what is selected, queued or shown refers to monitors it has, or has
   had and is in doubt about. *)
IsState(s) ==
  /\ s = [monitors |-> s.monitors, selected |-> s.selected, deleting |-> s.deleting, pane |-> s.pane]
  /\ IsTable(s.monitors) /\ DOMAIN s.monitors \subseteq Monitors
  /\ s.selected \subseteq Objects /\ s.deleting \subseteq Monitors /\ IsPane(s.pane)

ServerTyped ==
  /\ store \in [Monitors -> BOOLEAN \cup {None}] /\ issued \subseteq Monitors /\ Stored \subseteq issued
  /\ doubt \subseteq Monitors
  /\ IsTable(loaded) /\ DOMAIN loaded \subseteq issued

(* What the tab may refer to. *)
Familiar == issued \cap (Known \cup doubt)

Refers ==
  /\ Known \subseteq issued
  /\ Ids(state.selected) \subseteq Known /\ state.deleting \subseteq Familiar
  /\ Shows(state.pane, Monitors) => state.pane.monitor.id \in Familiar

(* A request is about what the tab refers to; one that creates, about what it has created;
   one that saves, about one monitor. *)
IsAbout(q) ==
  Pending(q) =>
    /\ flight[q].op # "load" => flight[q].about \subseteq issued
    /\ flight[q].op \notin {"load", "create"} => flight[q].about \subseteq Familiar
    /\ flight[q].op \in {"update", "create"} => \A a, b \in flight[q].about : a = b
    /\ flight[q].op = "create" /\ flight[q].at = "asked" => flight[q].about = {}

(* While the first load is under way there is nothing else. *)
Loading(q) ==
  Asked(q, "load") =>
    /\ \A p \in Requests : Pending(p) => p = q
    /\ flight[q].about = Monitors
    /\ Known = {} /\ state.selected = {} /\ state.deleting = {} /\ state.pane = Pane("none")
    /\ flight[q].at = "ok" => DOMAIN loaded = Stored /\ \A m \in Stored : loaded[m].active = store[m]

(* Requests that should not meet have no monitor in common that is not in doubt. *)
Apart ==
  \A p, q \in Requests :
    p # q /\ Pending(p) /\ Pending(q) /\ Conflict(flight[p], flight[q])
      => flight[p].about \cap flight[q].about \subseteq doubt

Agree(m) ==
  /\ m \in Known <=> store[m] # None
  /\ m \in Known => state.monitors[m].active = store[m]

(* The store is ahead of the tab by the writes whose answers are on their way. *)
Ahead(m, f) ==
  /\ f.op = "delete" => store[m] = None
  /\ f.op = "toggle" => /\ m \in Known <=> store[m] # None
                        /\ store[m] # None => store[m] = f.active
  /\ f.op \in {"update", "create"} => store[m] = f.active

Done(q, m) == Pending(q) /\ flight[q].op \notin Reads /\ flight[q].at = "ok" /\ m \in flight[q].about
InStep(m) ==
  /\ (\A q \in Requests : ~ Done(q, m)) => Agree(m)
  /\ \A q \in Requests : Done(q, m) => Ahead(m, flight[q])

TabInv ==
  /\ IsState(state) /\ flight = [q \in Requests |-> flight[q]] /\ \A q \in Requests : IsRequest(flight[q])
  /\ ServerTyped /\ Refers
  /\ \A q \in Requests : IsAbout(q) /\ Loading(q)
  /\ Apart
  /\ ~ loading => \A m \in Monitors \ doubt : InStep(m)

-----------------------------------------------------------------------------
(* The state of the tab. *)

(* A pane shows nothing, or a monitor. *)
LEMMA PaneFacts ==
  ASSUME NEW pane, IsPane(pane)
  PROVE  /\ pane.kind \in {"none", "draft", "view", "editor"}
         /\ pane.kind \in {"view", "editor"} =>
              pane.monitor \in Objects /\ pane.monitor.id \in Monitors
         /\ Shows(pane, Monitors) <=> pane.kind \in {"view", "editor"}
<1>1. CASE \E k \in {"none", "draft"} : pane = Pane(k)
  BY <1>1 DEF Pane, Shows
<1>2. CASE \E k \in {"view", "editor"} : \E o \in Objects : pane = PaneOf(k, o)
  <2>1. PICK k \in {"view", "editor"}, o \in Objects : pane = PaneOf(k, o)
    BY <1>2
  <2>2. o.id \in Monitors
    BY DEF Objects
  <2>3. pane.kind = k /\ pane.monitor = o
    BY <2>1 DEF PaneOf
  <2> QED BY <2>2, <2>3 DEF Shows
<1> QED BY <1>1, <1>2 DEF IsPane

(* The panes there are. *)
LEMMA PanesAre ==
  /\ \A k \in {"none", "draft"} : IsPane(Pane(k)) /\ ~ Shows(Pane(k), Monitors)
  /\ \A k \in {"view", "editor"}, o \in Objects :
       IsPane(PaneOf(k, o)) /\ PaneOf(k, o).monitor = o /\ PaneOf(k, o).kind = k
  /\ \A m \in Monitors, live \in BOOLEAN : Object(m, live) \in Objects /\ Object(m, live).id = m
BY DEF IsPane, Pane, PaneOf, Shows, Object, Objects

(* A state of four parts. *)
LEMMA StateOf ==
  ASSUME NEW s, NEW t, NEW selected \in SUBSET Objects, NEW deleting \in SUBSET Monitors, NEW pane,
         s = [monitors |-> t, selected |-> selected, deleting |-> deleting, pane |-> pane],
         IsTable(t), DOMAIN t \subseteq Monitors, IsPane(pane)
  PROVE  /\ IsState(s) /\ s.monitors = t /\ s.selected = selected /\ s.deleting = deleting
         /\ s.pane = pane
BY DEF IsState

(* One part of a state is changed. *)
LEMMA StateExcept ==
  ASSUME NEW s, IsState(s)
  PROVE  /\ \A v : [s EXCEPT !.pane = v] =
                     [monitors |-> s.monitors, selected |-> s.selected, deleting |-> s.deleting, pane |-> v]
         /\ \A v : [s EXCEPT !.selected = v] =
                     [monitors |-> s.monitors, selected |-> v, deleting |-> s.deleting, pane |-> s.pane]
         /\ \A v : [s EXCEPT !.deleting = v] =
                     [monitors |-> s.monitors, selected |-> s.selected, deleting |-> v, pane |-> s.pane]
BY DEF IsState

(* A function of monitors to entries is a table. *)
LEMMA TableOf ==
  ASSUME NEW S, NEW t, t = [m \in S |-> t[m]], \A m \in S : IsEntry(t[m])
  PROVE  IsTable(t) /\ DOMAIN t = S
BY DEF IsTable

(* One part of what the inventory has of a monitor is changed. *)
LEMMA EntryExcept ==
  ASSUME NEW e, IsEntry(e)
  PROVE  /\ \A v : [e EXCEPT !.list = v] = [active |-> e.active, list |-> v]
         /\ \A v : [e EXCEPT !.active = v] = [active |-> v, list |-> e.list]
<1>1. PICK a, l : e = [active |-> a, list |-> l]
  BY DEF IsEntry
<1>2. e.active = a /\ e.list = l
  BY <1>1
<1> QED BY <1>1, <1>2

(* A list is changed, and nothing else. *)
LEMMA WithListFacts ==
  ASSUME IsState(state), NEW m \in Known, NEW list, NEW s, s = WithList(m, list)
  PROVE  /\ IsState(s) /\ DOMAIN s.monitors = Known
         /\ \A n \in Known : s.monitors[n].active = state.monitors[n].active
         /\ \A n \in Known \ {m} : s.monitors[n].list = state.monitors[n].list
         /\ s.monitors[m].list = list
         /\ s.selected = state.selected /\ s.deleting = state.deleting /\ s.pane = state.pane
<1> DEFINE t == [state.monitors EXCEPT ![m] = [active |-> state.monitors[m].active, list |-> list]]
<1>1. IsTable(state.monitors) /\ Known \subseteq Monitors /\ IsPane(state.pane)
      /\ state.selected \in SUBSET Objects /\ state.deleting \in SUBSET Monitors
  BY DEF IsState, Known
<1>2. [state.monitors[m] EXCEPT !.list = list] = [active |-> state.monitors[m].active, list |-> list]
  BY <1>1, EntryExcept DEF IsTable, Known
<1>3. s = [monitors |-> t, selected |-> state.selected, deleting |-> state.deleting,
           pane |-> state.pane]
  BY <1>2 DEF WithList, IsState
<1>4. /\ t = [n \in Known |-> t[n]] /\ t[m].active = state.monitors[m].active /\ t[m].list = list
      /\ \A n \in Known \ {m} : t[n] = state.monitors[n]
      /\ \A n \in Known : IsEntry(t[n])
  BY <1>1 DEF IsTable, IsEntry, Known
<1> HIDE DEF t
<1>5. IsTable(t) /\ DOMAIN t = Known
  BY <1>4, TableOf
<1>6. /\ IsState(s) /\ s.monitors = t /\ s.selected = state.selected
      /\ s.deleting = state.deleting /\ s.pane = state.pane
  BY <1>1, <1>3, <1>5, StateOf
<1> QED BY <1>4, <1>5, <1>6

-----------------------------------------------------------------------------
(* Requests that meet. *)

(* What a request is made of. *)
LEMMA RequestFacts ==
  ASSUME NEW f, IsRequest(f)
  PROVE  /\ f.op \in Ops /\ f.at \in {"asked", "ok", "error"} /\ f.about \subseteq Monitors
         /\ f.active \in BOOLEAN
         /\ f.op = "prune" => f.monitor \in Objects /\ f.about = {f.monitor.id}
BY DEF IsRequest

(* A request of seven parts. *)
LEMMA RequestOf ==
  ASSUME NEW f, NEW op \in Ops, NEW at \in {"asked", "ok", "error"}, NEW about \in SUBSET Monitors,
         NEW active \in BOOLEAN, NEW monitor, NEW ids, NEW shown,
         f = [op |-> op, at |-> at, about |-> about, active |-> active, monitor |-> monitor,
              ids |-> ids, shown |-> shown],
         op = "prune" => monitor \in Objects /\ about = {monitor.id}
  PROVE  /\ IsRequest(f) /\ f.op = op /\ f.at = at /\ f.about = about /\ f.active = active
         /\ f.monitor = monitor /\ f.ids = ids /\ f.shown = shown
BY DEF IsRequest

(* No request. *)
LEMMA NoRequestIs == IsRequest(NoRequest) /\ NoRequest.op = "none"
BY RequestOf DEF NoRequest, Closure, Ops

(* What the invariant says of a request. *)
LEMMA PendingFacts ==
  ASSUME TabInv, NEW q \in Requests
  PROVE  /\ IsRequest(flight[q]) /\ IsAbout(q) /\ Loading(q)
         /\ flight[q].op # "load" /\ Pending(q) => ~ loading
         /\ \A p \in Requests \ {q} : Asked(p, "load") => ~ Pending(q)
<1>1. \A p \in Requests : Asked(p, "load") /\ Pending(q) => p = q
  BY DEF TabInv, Loading
<1> QED BY <1>1 DEF TabInv, loading, Asked

(* Requests about a monitor that is not in doubt do not conflict. *)
LEMMA NoConflict ==
  ASSUME TabInv, NEW p \in Requests, NEW q \in Requests, p # q, Pending(p), Pending(q),
         NEW m \in Monitors \ doubt, m \in flight[p].about, m \in flight[q].about
  PROVE  /\ flight[p].op # "delete" /\ flight[q].op # "delete"
         /\ flight[p].op \in Reads \/ flight[q].op \in Reads
BY DEF TabInv, Apart, Conflict

(* The user does something that asks for nothing. *)
LEMMA MoveStep ==
  ASSUME TabInv, ~ loading, IsState(state'), Known' = Known,
         \A m \in Known : state'.monitors[m].active = state.monitors[m].active,
         Ids(state'.selected) \subseteq Known, state'.deleting \subseteq Familiar,
         Shows(state'.pane, Monitors) => state'.pane.monitor.id \in Familiar,
         flight' = flight, loaded' = loaded, doubt' = doubt, store' = store, issued' = issued
  PROVE  TabInv'
<1>1. ServerTyped' /\ Apart' /\ ~ loading' /\ Familiar' = Familiar
  BY DEF TabInv, ServerTyped, Stored, Apart, loading, Asked, Pending, Conflict, Familiar
<1>2. Refers'
  BY <1>1 DEF TabInv, Refers
<1>3. \A q \in Requests : IsAbout(q)' /\ Loading(q)'
  BY <1>1 DEF TabInv, IsAbout, Loading, loading, Asked, Pending
<1>4. \A m \in Monitors \ doubt : InStep(m)'
  <2> SUFFICES ASSUME NEW m \in Monitors \ doubt PROVE InStep(m)'
    OBVIOUS
  <2>1. InStep(m)
    BY DEF TabInv
  <2>2. Agree(m)' <=> Agree(m)
    BY DEF Agree
  <2>3. \A q \in Requests : (Done(q, m)' <=> Done(q, m)) /\ (Ahead(m, flight[q])' <=> Ahead(m, flight[q]))
    BY DEF Done, Pending, Ahead
  <2> QED BY <2>1, <2>2, <2>3 DEF InStep
<1> QED BY <1>1, <1>2, <1>3, <1>4 DEF TabInv

-----------------------------------------------------------------------------
(* The user. *)

(* What the invariant says of the state. *)
LEMMA StateFacts ==
  ASSUME TabInv
  PROVE  /\ IsState(state) /\ IsTable(state.monitors) /\ DOMAIN state.monitors \subseteq Monitors
         /\ state.selected \in SUBSET Objects /\ state.deleting \in SUBSET Monitors /\ IsPane(state.pane)
         /\ Known \subseteq Familiar /\ Familiar \subseteq Monitors /\ issued \subseteq Monitors
         /\ Ids(state.selected) \subseteq Known /\ state.deleting \subseteq Familiar
         /\ Shows(state.pane, Monitors) => state.pane.monitor.id \in Familiar
         /\ Free => ~ loading
         /\ state.deleting # {} => ~ loading
BY DEF TabInv, IsState, Refers, Familiar, ServerTyped, Known, Free, Loading, loading

(* A button that changes one part of the state. *)
LEMMA DispatchStep ==
  ASSUME TabInv, ~ loading, NEW selected \in SUBSET Objects, NEW deleting \in SUBSET Monitors, NEW pane,
         IsPane(pane), Ids(selected) \subseteq Known, deleting \subseteq Familiar,
         Shows(pane, Monitors) => pane.monitor.id \in Familiar,
         Dispatch([monitors |-> state.monitors, selected |-> selected, deleting |-> deleting,
                   pane |-> pane])
  PROVE  TabInv'
<1>1. /\ state' = [monitors |-> state.monitors, selected |-> selected, deleting |-> deleting,
                   pane |-> pane]
      /\ flight' = flight /\ loaded' = loaded /\ doubt' = doubt /\ store' = store /\ issued' = issued
  BY DEF Dispatch, serverVars
<1>2. /\ IsState(state') /\ state'.monitors = state.monitors /\ state'.selected = selected
      /\ state'.deleting = deleting /\ state'.pane = pane
  BY <1>1, StateFacts, StateOf
<1>3. Known' = Known /\ \A m \in Known : state'.monitors[m].active = state.monitors[m].active
  BY <1>2 DEF Known
<1> QED BY <1>1, <1>2, <1>3, MoveStep

(* The pane is changed. *)
LEMMA PaneStep ==
  ASSUME TabInv, Free, NEW pane, IsPane(pane),
         Shows(pane, Monitors) => pane.monitor.id \in Familiar, Dispatch(SetPane(pane))
  PROVE  TabInv'
<1>1. SetPane(pane) = [monitors |-> state.monitors, selected |-> state.selected,
                       deleting |-> state.deleting, pane |-> pane]
  BY StateFacts, StateExcept DEF SetPane
<1> QED BY <1>1, StateFacts, DispatchStep

(* Monitors are selected. *)
LEMMA SelectStep ==
  ASSUME TabInv, Free, NEW selected \in SUBSET Objects, Ids(selected) \subseteq Known,
         Dispatch([state EXCEPT !.selected = selected])
  PROVE  TabInv'
<1>1. [state EXCEPT !.selected = selected] =
        [monitors |-> state.monitors, selected |-> selected, deleting |-> state.deleting,
         pane |-> state.pane]
  BY StateFacts, StateExcept
<1> QED BY <1>1, StateFacts, DispatchStep

(* Monitors are queued for deletion. *)
LEMMA QueueStep ==
  ASSUME TabInv, ~ loading, NEW objects \in SUBSET Objects, Ids(objects) \subseteq Familiar,
         Dispatch(queueMonitorDeleteAction(objects))
  PROVE  TabInv'
<1>1. queueMonitorDeleteAction(objects) =
        [monitors |-> state.monitors, selected |-> state.selected, deleting |-> Ids(objects),
         pane |-> state.pane]
  BY StateFacts, StateExcept DEF queueMonitorDeleteAction
<1>2. Ids(objects) \in SUBSET Monitors
  BY StateFacts
<1> HIDE DEF Ids
<1> QED BY <1>1, <1>2, StateFacts, DispatchStep

(* The editor or the view of a monitor is shown, or closed. *)
LEMMA ShowStep ==
  ASSUME TabInv, Free, NEW o \in Objects, o.id \in Familiar,
         \/ \E disableToggle \in BOOLEAN : Dispatch(viewPaneAction(o, disableToggle))
         \/ Dispatch(editorPaneAction(o))
  PROVE  TabInv'
<1>1. \E pane \in {Pane("none"), PaneOf("view", o), PaneOf("editor", o)} : Dispatch(SetPane(pane))
  BY DEF viewPaneAction, editorPaneAction
<1>2. PICK pane \in {Pane("none"), PaneOf("view", o), PaneOf("editor", o)} : Dispatch(SetPane(pane))
  BY <1>1
<1>3. IsPane(pane) /\ (Shows(pane, Monitors) => pane.monitor.id \in Familiar)
  BY <1>2, PanesAre
<1> QED BY <1>2, <1>3, PaneStep

(* The buttons refer to what the tab refers to. *)
LEMMA UserStep ==
  ASSUME TabInv, (\E m \in Monitors : OnCard(m)) \/ OnMenu \/ OnPane \/ AttachHead \/ CancelDelete
  PROVE  TabInv'
<1>1. ASSUME NEW m \in Monitors, OnCard(m) PROVE TabInv'
  <2>1. /\ Free /\ ~ loading /\ m \in Known /\ m \in Familiar
        /\ Object(m, TRUE) \in Objects /\ Object(m, TRUE).id = m
    BY <1>1, StateFacts, PanesAre DEF OnCard
  <2>2. CASE Dispatch(selectAction(m))
    <3> DEFINE selected == IF Object(m, TRUE) \in state.selected
                           THEN state.selected \ {Object(m, TRUE)}
                           ELSE state.selected \cup {Object(m, TRUE)}
    <3>1. selected \in SUBSET Objects /\ Ids(selected) \subseteq Known
      BY <2>1, StateFacts DEF Ids
    <3>2. Dispatch([state EXCEPT !.selected = selected])
      BY <2>2 DEF selectAction
    <3> HIDE DEF selected
    <3> QED BY <2>1, <3>1, <3>2, SelectStep
  <2>3. CASE \/ \E disableToggle \in BOOLEAN : Dispatch(viewPaneAction(Object(m, TRUE), disableToggle))
             \/ Dispatch(editorPaneAction(Object(m, TRUE)))
    BY <2>1, <2>3, ShowStep
  <2>4. CASE Dispatch(queueMonitorDeleteAction({Object(m, TRUE)}))
    <3>1. {Object(m, TRUE)} \in SUBSET Objects /\ Ids({Object(m, TRUE)}) \subseteq Familiar
      BY <2>1 DEF Ids
    <3> QED BY <2>1, <2>4, <3>1, QueueStep
  <2> QED BY <1>1, <2>2, <2>3, <2>4 DEF OnCard
<1>2. CASE OnMenu
  <2>1. Free /\ ~ loading
    BY <1>2, StateFacts DEF OnMenu
  <2>2. CASE Dispatch([state EXCEPT !.selected = {Object(m, TRUE) : m \in Known}])
    <3> DEFINE all == {Object(m, TRUE) : m \in Known}
    <3>1. all \in SUBSET Objects /\ Ids(all) \subseteq Known
      <4>1. \A m \in Known : Object(m, TRUE) \in Objects /\ Object(m, TRUE).id = m
        BY StateFacts, PanesAre
      <4> QED BY <4>1 DEF Ids
    <3> HIDE DEF all
    <3>2. Dispatch([state EXCEPT !.selected = all])
      BY <2>2 DEF all
    <3> QED BY <2>1, <3>1, <3>2, SelectStep
  <2>3. CASE Dispatch([state EXCEPT !.selected = {}])
    <3>1. Ids({}) \subseteq Known /\ {} \in SUBSET Objects
      BY DEF Ids
    <3> QED BY <2>1, <2>3, <3>1, SelectStep
  <2>4. CASE Dispatch(queueMonitorDeleteAction(state.selected))
    <3>1. state.selected \in SUBSET Objects /\ Ids(state.selected) \subseteq Familiar
      BY StateFacts
    <3> QED BY <2>1, <2>4, <3>1, QueueStep
  <2>5. CASE Dispatch(SetPane(Pane("draft"))) \/ Dispatch(SetPane(Pane("none")))
    BY <2>1, <2>5, PanesAre, PaneStep
  <2> QED BY <1>2, <2>2, <2>3, <2>4, <2>5 DEF OnMenu
<1>3. CASE OnPane
  <2>1. Free /\ ~ loading
    BY <1>3, StateFacts DEF OnPane
  <2>2. CASE Dispatch(SetPane(Pane("none")))
    BY <2>1, <2>2, PanesAre, PaneStep
  <2>3. ASSUME state.pane.kind = "view"
        PROVE  state.pane.monitor \in Objects /\ state.pane.monitor.id \in Familiar
    BY <2>3, StateFacts, PaneFacts
  <2>4. CASE state.pane.kind = "view" /\ Dispatch(editorPaneAction(state.pane.monitor))
    BY <2>1, <2>3, <2>4, ShowStep
  <2>5. CASE state.pane.kind = "view" /\ Dispatch(queueMonitorDeleteAction({state.pane.monitor}))
    <3>1. {state.pane.monitor} \in SUBSET Objects /\ Ids({state.pane.monitor}) \subseteq Familiar
      BY <2>3, <2>5 DEF Ids
    <3> QED BY <2>1, <2>5, <3>1, QueueStep
  <2> QED BY <1>3, <2>2, <2>4, <2>5 DEF OnPane
<1>4. CASE AttachHead
  <2>1. /\ Free /\ state.pane.monitor.id \in Known
        /\ Dispatch(viewPaneAction(Object(state.pane.monitor.id, TRUE), TRUE))
    BY <1>4 DEF AttachHead
  <2>2. PICK m \in Known : m = state.pane.monitor.id
    BY <2>1
  <2>3. m \in Familiar /\ Object(m, TRUE) \in Objects /\ Object(m, TRUE).id = m
    BY <2>2, StateFacts, PanesAre
  <2> QED BY <2>1, <2>2, <2>3, ShowStep
<1>5. CASE CancelDelete
  <2>1. ~ loading /\ Dispatch(queueMonitorDeleteAction({}))
    BY <1>5, StateFacts DEF CancelDelete
  <2>2. {} \in SUBSET Objects /\ Ids({}) \subseteq Familiar
    BY DEF Ids
  <2> QED BY <2>1, <2>2, QueueStep
<1> QED BY <1>1, <1>2, <1>3, <1>4, <1>5

-----------------------------------------------------------------------------
(* The user asks. *)

(* A request is made about monitors the tab refers to. *)
LEMMA AskStep ==
  ASSUME TabInv, ~ loading, NEW f, IsRequest(f), f.op \notin {"none", "load"}, f.at = "asked",
         f.about \subseteq Familiar, f.op = "create" => f.about = {},
         f.op = "update" => \A a, b \in f.about : a = b,
         Ask(f)
  PROVE  TabInv'
<1>1. PICK q \in Requests : ~ Pending(q) /\ flight' = [flight EXCEPT ![q] = f]
  BY DEF Ask
<1>2. /\ state' = state /\ loaded' = loaded /\ store' = store /\ issued' = issued
      /\ doubt' = doubt \cup Contended(f)
  BY DEF Ask, serverVars
<1>3. /\ flight' = [p \in Requests |-> flight'[p]] /\ flight'[q] = f
      /\ \A p \in Requests \ {q} : flight'[p] = flight[p]
  BY <1>1 DEF TabInv
<1>4. Contended(f) \subseteq f.about
  BY DEF Contended
<1>5. /\ \A p \in Requests : IsRequest(flight'[p])
      /\ f.about \subseteq Monitors /\ f.about \subseteq issued
  BY <1>3, RequestFacts DEF TabInv, Familiar
<1>6. ServerTyped' /\ Refers' /\ Familiar \subseteq Familiar'
  BY <1>2, <1>4, <1>5 DEF TabInv, ServerTyped, Stored, Refers, Familiar, Known
<1>7. \A p \in Requests : IsAbout(p)'
  <2>1. IsAbout(q)'
    BY <1>2, <1>3, <1>5, <1>6 DEF IsAbout
  <2>2. \A p \in Requests \ {q} : IsAbout(p)'
    BY <1>2, <1>3, <1>6 DEF TabInv, IsAbout, Pending
  <2> QED BY <2>1, <2>2
<1>8. ~ loading' /\ \A p \in Requests : Loading(p)'
  BY <1>3 DEF loading, Asked, Pending, Loading
<1>9. Apart'
  <2> SUFFICES ASSUME NEW p \in Requests, NEW r \in Requests, p # r, Pending(p)', Pending(r)',
                      Conflict(flight'[p], flight'[r])
               PROVE  flight'[p].about \cap flight'[r].about \subseteq doubt'
    BY DEF Apart
  <2>1. CASE p # q /\ r # q
    BY <1>2, <1>3, <2>1 DEF TabInv, Apart, Pending
  <2>2. ASSUME NEW s \in Requests \ {q}, Pending(s), Conflict(f, flight[s])
        PROVE  f.about \cap flight[s].about \subseteq doubt'
    BY <1>2, <2>2 DEF Contended
  <2>3. CASE p = q
    BY <1>3, <2>2, <2>3 DEF Pending
  <2>4. CASE r = q
    BY <1>3, <2>2, <2>4 DEF Pending, Conflict
  <2> QED BY <2>1, <2>3, <2>4
<1>10. \A m \in Monitors \ doubt' : InStep(m)'
  <2> SUFFICES ASSUME NEW m \in Monitors \ doubt' PROVE InStep(m)'
    OBVIOUS
  <2>1. InStep(m)
    BY <1>2 DEF TabInv
  <2>2. Agree(m)' <=> Agree(m)
    BY <1>2 DEF Agree, Known
  <2>3. \A p \in Requests \ {q} : /\ Done(p, m)' <=> Done(p, m)
                                  /\ Ahead(m, flight[p])' <=> Ahead(m, flight[p])
    BY <1>2, <1>3 DEF Done, Pending, Ahead, Known
  <2>4. ~ Done(q, m) /\ ~ Done(q, m)'
    BY <1>1, <1>3 DEF Done
  <2> QED BY <2>1, <2>2, <2>3, <2>4 DEF InStep
<1> QED BY <1>2, <1>3, <1>5, <1>6, <1>7, <1>8, <1>9, <1>10 DEF TabInv

-----------------------------------------------------------------------------
(* The server answers. *)

(* A request is executed, or fails: what it does to the store it does to the monitors that it
   is about, and only the one that creates is about more from then on. *)
LEMMA ServeStep ==
  ASSUME TabInv, NEW q \in Requests, Pending(q), flight[q].at = "asked",
         NEW f, IsRequest(f), f.op = flight[q].op, f.at \in {"ok", "error"},
         flight[q].about \subseteq f.about, f.about \ flight[q].about \subseteq issued' \ issued,
         f.op \in {"update", "create"} => \A a, b \in f.about : a = b,
         f.op # "create" => f.about = flight[q].about,
         flight' = [flight EXCEPT ![q] = f], state' = state,
         doubt \subseteq doubt', issued \subseteq issued', ServerTyped',
         f.op # "load" => loaded' = loaded,
         f.op = "load" /\ f.at = "ok" =>
           DOMAIN loaded' = Stored' /\ \A m \in Stored' : loaded'[m].active = store'[m],
         \A m \in Monitors \ doubt' :
           IF m \in f.about /\ f.op \notin Reads /\ f.at = "ok" /\ f.op # "load"
           THEN Agree(m) => Ahead(m, f)'
           ELSE store'[m] = store[m]
  PROVE  TabInv'
<1>1. /\ flight' = [p \in Requests |-> flight'[p]] /\ flight'[q] = f
      /\ \A p \in Requests \ {q} : flight'[p] = flight[p]
      /\ \A p \in Requests : IsRequest(flight'[p])
  BY DEF TabInv
<1>2. /\ IsRequest(flight[q]) /\ IsAbout(q) /\ Loading(q)
      /\ f.op # "load" => ~ loading
      /\ \A p \in Requests \ {q} : ~ Asked(p, "load")
  BY PendingFacts DEF Asked
<1>3. Known' = Known /\ Refers' /\ Familiar \subseteq Familiar'
  BY DEF TabInv, Refers, Familiar, Known
<1>4. \A p \in Requests : IsAbout(p)'
  <2>1. f.about \subseteq issued' \/ f.op = "load"
    BY <1>2 DEF IsAbout
  <2>2. f.op \notin {"load", "create"} => f.about \subseteq Familiar'
    BY <1>2, <1>3 DEF IsAbout
  <2>3. IsAbout(q)'
    BY <1>1, <2>1, <2>2 DEF IsAbout
  <2>4. \A p \in Requests \ {q} : IsAbout(p)'
    BY <1>1, <1>3 DEF TabInv, IsAbout, Pending
  <2> QED BY <2>3, <2>4
<1>5. \A p \in Requests : Loading(p)'
  <2>1. \A p \in Requests \ {q} : ~ Asked(p, "load")'
    BY <1>1, <1>2 DEF Asked, Pending
  <2>2. Loading(q)'
    <3> SUFFICES ASSUME f.op = "load" PROVE Loading(q)'
      BY <1>1 DEF Loading, Asked
    <3>1. Asked(q, "load")
      BY DEF Asked
    <3>2. /\ \A p \in Requests : Pending(p)' <=> Pending(p)
          /\ f.about = Monitors
      BY <1>1, <1>2, <3>1 DEF Pending, Loading
    <3> QED BY <1>1, <1>2, <1>3, <3>1, <3>2 DEF Loading
  <2> QED BY <2>1, <2>2 DEF Loading
<1>6. Apart'
  <2> SUFFICES ASSUME NEW p \in Requests, NEW r \in Requests, p # r, Pending(p)', Pending(r)',
                      Conflict(flight'[p], flight'[r])
               PROVE  flight'[p].about \cap flight'[r].about \subseteq doubt'
    BY DEF Apart
  <2>1. /\ Pending(p) /\ Pending(r) /\ Conflict(flight[p], flight[r])
    BY <1>1 DEF Pending, Conflict
  <2>2. flight[p].about \cap flight[r].about \subseteq doubt'
    BY <2>1 DEF TabInv, Apart
  <2>3. \A s \in Requests \ {q} : Pending(s) => flight[s].about \subseteq issued
    BY <1>2 DEF TabInv, IsAbout, Asked
  <2>4. CASE p # q /\ r # q
    BY <1>1, <2>2, <2>4
  <2>5. CASE p = q
    BY <1>1, <2>1, <2>2, <2>3, <2>5
  <2>6. CASE r = q
    BY <1>1, <2>1, <2>2, <2>3, <2>6
  <2> QED BY <2>4, <2>5, <2>6
<1>7. ASSUME ~ loading', NEW m \in Monitors \ doubt' PROVE InStep(m)'
  <2>1. f.op # "load" /\ ~ loading
    BY <1>1, <1>2, <1>7 DEF loading, Asked, Pending
  <2>2. InStep(m) /\ m \in Monitors \ doubt
    BY <2>1 DEF TabInv
  <2>3. \A p \in Requests \ {q} : Done(p, m)' <=> Done(p, m)
    BY <1>1 DEF Done, Pending
  <2>4. CASE m \in f.about /\ f.op \notin Reads /\ f.at = "ok"
    <3>1. Done(q, m)'
      BY <1>1, <2>4 DEF Done, Pending
    <3>2. ASSUME NEW p \in Requests \ {q} PROVE ~ Done(p, m)
      <4>1. CASE m \in flight[q].about
        <5> SUFFICES ASSUME Done(p, m) PROVE FALSE
          OBVIOUS
        <5>1. Pending(p) /\ m \in flight[p].about /\ flight[p].op \notin Reads
          BY DEF Done
        <5> QED BY <2>2, <2>4, <4>1, <5>1, NoConflict
      <4>2. CASE m \notin flight[q].about
        <5>1. m \notin issued
          BY <2>4, <4>2
        <5>2. Pending(p) => flight[p].about \subseteq issued
          BY <1>2 DEF TabInv, IsAbout, Asked
        <5> QED BY <5>1, <5>2 DEF Done
      <4> QED BY <4>1, <4>2
    <3>3. ~ Done(q, m)
      BY DEF Done
    <3>4. Agree(m)
      BY <2>2, <3>2, <3>3 DEF InStep
    <3>5. Ahead(m, f)'
      BY <2>1, <2>4, <3>4
    <3>6. Ahead(m, flight[q])'
      BY <1>1, <3>5 DEF Ahead
    <3> QED BY <2>3, <3>1, <3>2, <3>6 DEF InStep
  <2>5. CASE ~ (m \in f.about /\ f.op \notin Reads /\ f.at = "ok")
    <3>1. store'[m] = store[m]
      BY <2>1, <2>5
    <3>2. (Agree(m)' <=> Agree(m)) /\ \A p \in Requests \ {q} : Ahead(m, flight[p])' <=> Ahead(m, flight[p])
      BY <1>1, <1>3, <3>1 DEF Agree, Ahead
    <3>3. ~ Done(q, m) /\ ~ Done(q, m)'
      BY <1>1, <2>5 DEF Done
    <3> QED BY <2>2, <2>3, <3>2, <3>3 DEF InStep
  <2> QED BY <2>4, <2>5
<1> QED BY <1>1, <1>3, <1>4, <1>5, <1>6, <1>7 DEF TabInv

(* One part of a request, or where it is and what it is about, are changed. *)
LEMMA RequestExcept ==
  ASSUME NEW g, IsRequest(g), NEW at, NEW about
  PROVE  /\ [g EXCEPT !.monitor = about] =
              [op |-> g.op, at |-> g.at, about |-> g.about, active |-> g.active, monitor |-> about,
               ids |-> g.ids, shown |-> g.shown]
         /\ [g EXCEPT !.at = at] =
              [op |-> g.op, at |-> at, about |-> g.about, active |-> g.active, monitor |-> g.monitor,
               ids |-> g.ids, shown |-> g.shown]
         /\ [g EXCEPT !.at = at, !.about = about] =
              [op |-> g.op, at |-> at, about |-> about, active |-> g.active, monitor |-> g.monitor,
               ids |-> g.ids, shown |-> g.shown]
<1>1. PICK o, t, b, a, m, i, s :
        g = [op |-> o, at |-> t, about |-> b, active |-> a, monitor |-> m, ids |-> i, shown |-> s]
  BY DEF IsRequest
<1>2. g.op = o /\ g.at = t /\ g.about = b /\ g.active = a /\ g.monitor = m /\ g.ids = i /\ g.shown = s
  BY <1>1
<1>3. [g EXCEPT !.at = at] =
        [op |-> o, at |-> at, about |-> b, active |-> a, monitor |-> m, ids |-> i, shown |-> s]
  BY <1>1
<1>4. PICK h : h = [g EXCEPT !.at = at]
  OBVIOUS
<1>5. h = [op |-> o, at |-> at, about |-> b, active |-> a, monitor |-> m, ids |-> i, shown |-> s]
  BY <1>3, <1>4
<1>6. [h EXCEPT !.about = about] =
        [op |-> o, at |-> at, about |-> about, active |-> a, monitor |-> m, ids |-> i, shown |-> s]
  BY <1>5
<1>7. [g EXCEPT !.at = at, !.about = about] = [[g EXCEPT !.at = at] EXCEPT !.about = about]
  BY <1>1
<1>8. [g EXCEPT !.monitor = about] =
        [op |-> o, at |-> t, about |-> b, active |-> a, monitor |-> about, ids |-> i, shown |-> s]
  BY <1>1
<1> QED BY <1>2, <1>3, <1>4, <1>6, <1>7, <1>8

(* A request that is elsewhere, or about something else, is a request. *)
LEMMA RequestMoved ==
  ASSUME NEW g, IsRequest(g), NEW at \in {"ok", "error"}, NEW about \in SUBSET Monitors, NEW f,
         g.op = "prune" => about = g.about,
         f = [op |-> g.op, at |-> at, about |-> about, active |-> g.active, monitor |-> g.monitor,
              ids |-> g.ids, shown |-> g.shown]
  PROVE  /\ IsRequest(f) /\ f.op = g.op /\ f.at = at /\ f.about = about /\ f.active = g.active
         /\ f.monitor = g.monitor /\ f.ids = g.ids
<1>1. /\ g.op \in Ops /\ g.active \in BOOLEAN
      /\ g.op = "prune" => g.monitor \in Objects /\ about = {g.monitor.id}
  BY RequestFacts
<1> QED BY <1>1, RequestOf

(* The answer to a request is on its way. *)
LEMMA RepliesFacts ==
  ASSUME TabInv, NEW q \in Requests, NEW at \in {"ok", "error"}, Replies(q, at)
  PROVE  \E f : /\ IsRequest(f) /\ f.op = flight[q].op /\ f.at = at /\ f.about = flight[q].about
                /\ f.active = flight[q].active /\ flight' = [flight EXCEPT ![q] = f]
                /\ f.monitor = flight[q].monitor /\ f.ids = flight[q].ids
<1>1. IsRequest(flight[q]) /\ flight = [p \in Requests |-> flight[p]]
  BY DEF TabInv
<1>2. PICK g : g = flight[q]
  OBVIOUS
<1>3. PICK about \in SUBSET Monitors : about = g.about
  BY <1>1, <1>2, RequestFacts
<1>4. PICK f : f = [op |-> g.op, at |-> at, about |-> about, active |-> g.active, monitor |-> g.monitor,
                    ids |-> g.ids, shown |-> g.shown]
  OBVIOUS
<1>5. /\ IsRequest(f) /\ f.op = g.op /\ f.at = at /\ f.about = about /\ f.active = g.active
      /\ f.monitor = g.monitor /\ f.ids = g.ids
  BY <1>1, <1>2, <1>3, <1>4, RequestMoved
<1>6. [g EXCEPT !.at = at] = f
  BY <1>1, <1>2, <1>3, <1>4, RequestExcept
<1>7. flight' = [flight EXCEPT ![q] = f]
  BY <1>1, <1>2, <1>6 DEF Replies
<1> QED BY <1>2, <1>3, <1>5, <1>7

(* The answer to a request that created is on its way. *)
LEMMA CreatesFacts ==
  ASSUME TabInv, NEW q \in Requests, NEW at \in {"ok", "error"}, NEW m \in Monitors,
         flight[q].op # "prune", Creates(q, at, m)
  PROVE  \E f : /\ IsRequest(f) /\ f.op = flight[q].op /\ f.at = at /\ f.about = {m}
                /\ f.active = flight[q].active /\ flight' = [flight EXCEPT ![q] = f]
<1>1. IsRequest(flight[q]) /\ flight = [p \in Requests |-> flight[p]]
  BY DEF TabInv
<1>2. PICK g : g = flight[q]
  OBVIOUS
<1>3. PICK about \in SUBSET Monitors : about = {m}
  OBVIOUS
<1>4. PICK f : f = [op |-> g.op, at |-> at, about |-> about, active |-> g.active, monitor |-> g.monitor,
                    ids |-> g.ids, shown |-> g.shown]
  OBVIOUS
<1>5. IsRequest(f) /\ f.op = g.op /\ f.at = at /\ f.about = about /\ f.active = g.active
  BY <1>1, <1>2, <1>4, RequestMoved
<1>6. [g EXCEPT !.at = at, !.about = about] = f
  BY <1>1, <1>2, <1>4, RequestExcept
<1>7. flight' = [flight EXCEPT ![q] = [g EXCEPT !.at = at, !.about = {m}]]
  BY <1>1, <1>2 DEF Creates
<1>8. flight' = [flight EXCEPT ![q] = f]
  BY <1>3, <1>6, <1>7
<1> QED BY <1>2, <1>3, <1>5, <1>8

(* What is stored, after some of it was changed. *)
LEMMA PutFacts ==
  ASSUME TabInv, NEW ids \in SUBSET Monitors, NEW active \in BOOLEAN \cup {None}, Put(ids, active)
  PROVE  /\ store' \in [Monitors -> BOOLEAN \cup {None}]
         /\ \A m \in Monitors : store'[m] = IF m \in ids THEN active ELSE store[m]
         /\ Stored' \subseteq Stored \cup ids
BY InventoryAssumption DEF TabInv, ServerTyped, Put, Stored

(* What is stored and known is changed as the request asks. *)
LEMMA RunStep ==
  ASSUME TabInv, NEW q \in Requests, Pending(q), flight[q].at = "asked", flight[q].op \notin {"load", "create"},
         NEW at \in {"ok", "error"}, Replies(q, at), NEW ids \in SUBSET Monitors,
         NEW active \in BOOLEAN \cup {None}, Put(ids, active), ids \subseteq issued,
         doubt \subseteq doubt', doubt' \subseteq Monitors,
         state' = state, loaded' = loaded, issued' = issued,
         active # None => ids \subseteq Stored,
         \A m \in Monitors \ doubt' :
           IF m \in flight[q].about /\ flight[q].op \notin Reads /\ at = "ok"
           THEN /\ flight[q].op = "delete" => m \in ids /\ active = None
                /\ flight[q].op = "toggle" => (m \in ids <=> m \in Stored) /\ active = flight[q].active
                /\ flight[q].op = "update" => m \in ids /\ active = flight[q].active
           ELSE m \notin ids
  PROVE  TabInv'
<1>1. /\ IsRequest(flight[q]) /\ IsAbout(q)
  BY PendingFacts
<1>2. flight[q].about \in SUBSET Monitors
  BY <1>1, RequestFacts
<1>3. PICK f : /\ IsRequest(f) /\ f.op = flight[q].op /\ f.at = at /\ f.about = flight[q].about
               /\ f.active = flight[q].active /\ flight' = [flight EXCEPT ![q] = f]
  BY RepliesFacts
<1>4. /\ store' \in [Monitors -> BOOLEAN \cup {None}]
      /\ \A m \in Monitors : store'[m] = IF m \in ids THEN active ELSE store[m]
      /\ Stored' \subseteq Stored \cup ids
  BY PutFacts
<1>5. ServerTyped'
  BY <1>4 DEF TabInv, ServerTyped
<1>6. ASSUME NEW m \in Monitors \ doubt',
             m \in f.about /\ f.op \notin Reads /\ f.at = "ok" /\ f.op # "load", Agree(m)
      PROVE  Ahead(m, f)'
  <2>1. Known' = Known
    BY DEF Known
  <2>2. store'[m] = IF m \in ids THEN active ELSE store[m]
    BY <1>4
  <2>3. (m \in Known <=> store[m] # None) /\ (m \in Stored <=> store[m] # None)
    BY <1>6 DEF Agree, Stored
  <2>4. f.active # None /\ f.active \in BOOLEAN
    BY <1>3, RequestFacts, InventoryAssumption
  <2>5. CASE f.op = "delete"
    BY <1>3, <1>6, <2>2, <2>5 DEF Ahead
  <2>6. CASE f.op = "toggle"
    BY <1>3, <1>6, <2>1, <2>2, <2>3, <2>4, <2>6 DEF Ahead
  <2>7. CASE f.op = "update"
    BY <1>3, <1>6, <2>2, <2>7 DEF Ahead
  <2> QED BY <1>3, <1>6, <2>5, <2>6, <2>7 DEF Ahead
<1>7. \A m \in Monitors \ doubt' :
        ~ (m \in f.about /\ f.op \notin Reads /\ f.at = "ok" /\ f.op # "load") => store'[m] = store[m]
  BY <1>3, <1>4
<1>8. /\ f.op \in {"update", "create"} => \A a, b \in f.about : a = b
      /\ flight[q].about \subseteq f.about /\ f.about \ flight[q].about \subseteq issued' \ issued
      /\ f.op # "create" => f.about = flight[q].about
  BY <1>1, <1>3 DEF IsAbout
<1>9. f.op # "load" /\ f.at \in {"ok", "error"}
  BY <1>3
<1>10. ASSUME NEW m \in Monitors \ doubt'
       PROVE  IF m \in f.about /\ f.op \notin Reads /\ f.at = "ok" /\ f.op # "load"
              THEN Agree(m) => Ahead(m, f)'
              ELSE store'[m] = store[m]
  BY <1>6, <1>7
<1> QED BY <1>3, <1>5, <1>8, <1>9, <1>10, ServeStep

(* No server step makes the tab wrong about a monitor it is sure of. *)
LEMMA HandlerStep ==
  ASSUME TabInv, NEW q \in Requests,
         \/ RunLoad(q) \/ RunDelete(q) \/ RunToggle(q) \/ RunUpdate(q)
         \/ RunCreate(q) \/ RunHistory(q) \/ RunPrune(q) \/ Refuse(q)
  PROVE  TabInv'
<1>1. /\ IsRequest(flight[q]) /\ IsAbout(q) /\ Loading(q) /\ flight[q].about \in SUBSET Monitors
      /\ flight[q].active \in BOOLEAN
  BY PendingFacts, RequestFacts
<1>2. CASE RunDelete(q)
  <2>1. /\ Pending(q) /\ flight[q].at = "asked" /\ flight[q].op = "delete"
        /\ Put(flight[q].about, None) /\ Replies(q, "ok")
        /\ state' = state /\ loaded' = loaded /\ issued' = issued /\ doubt' = doubt
    BY <1>2 DEF RunDelete, Arrived, Asked
  <2>2. flight[q].about \subseteq issued /\ doubt \subseteq Monitors
    BY <1>1, <2>1 DEF IsAbout, TabInv, ServerTyped
  <2>3. \A m \in Monitors \ doubt' :
          IF m \in flight[q].about /\ flight[q].op \notin Reads
          THEN flight[q].op = "delete"
          ELSE m \notin flight[q].about
    BY <2>1 DEF Reads
  <2> QED BY <1>1, <2>1, <2>2, <2>3, RunStep
<1>3. CASE RunHistory(q) \/ RunPrune(q)
  <2>1. /\ Pending(q) /\ flight[q].at = "asked" /\ flight[q].op \in Reads /\ Replies(q, "ok")
        /\ state' = state /\ loaded' = loaded /\ issued' = issued /\ doubt' = doubt /\ store' = store
    BY <1>3 DEF RunHistory, RunPrune, Arrived, Asked, Reads, serverVars
  <2>2. Put({}, None)
    BY <2>1 DEF Put, TabInv, ServerTyped
  <2>3. doubt \subseteq Monitors /\ flight[q].op \notin {"load", "create"}
    BY <2>1 DEF TabInv, ServerTyped, Reads
  <2> QED BY <1>1, <2>1, <2>2, <2>3, RunStep
<1>4. CASE RunToggle(q)
  <2>1. /\ Pending(q) /\ flight[q].at = "asked" /\ flight[q].op = "toggle"
        /\ state' = state /\ loaded' = loaded /\ issued' = issued
        /\ flight[q].op \notin Reads
    BY <1>4 DEF RunToggle, Arrived, Asked, Reads
  <2>2. /\ flight[q].about \subseteq issued /\ doubt \subseteq Monitors
        /\ flight[q].about \cap Stored \in SUBSET Monitors /\ flight[q].about \cap Stored \subseteq issued
    BY <1>1, <2>1 DEF IsAbout, TabInv, ServerTyped
  <2>3. CASE /\ Put(flight[q].about \cap Stored, flight[q].active)
             /\ Replies(q, "ok") /\ doubt' = doubt
    <3> DEFINE ids == flight[q].about \cap Stored
    <3>1. \A m \in Monitors \ doubt' :
            /\ m \in flight[q].about => (m \in ids <=> m \in Stored)
            /\ m \notin flight[q].about => m \notin ids
      OBVIOUS
    <3>2. ids \subseteq Stored
      OBVIOUS
    <3> HIDE DEF ids
    <3>3. Put(ids, flight[q].active) /\ ids \in SUBSET Monitors /\ ids \subseteq issued
      BY <2>2, <2>3 DEF ids
    <3> QED BY <1>1, <2>1, <2>2, <2>3, <3>1, <3>2, <3>3, RunStep
  <2>4. CASE Put({}, None) /\ Replies(q, "ok") /\ doubt' = doubt \cup flight[q].about
    <3>1. doubt' \subseteq Monitors /\ \A m \in Monitors \ doubt' : m \notin flight[q].about
      BY <1>1, <2>2, <2>4
    <3> QED BY <2>1, <2>4, <3>1, RunStep
  <2>5. CASE /\ flight[q].active /\ Put(flight[q].about \cap Stored, TRUE)
             /\ Replies(q, "error") /\ doubt' = doubt \cup flight[q].about
    <3> DEFINE ids == flight[q].about \cap Stored
    <3>1. doubt' \subseteq Monitors /\ \A m \in Monitors \ doubt' : m \notin flight[q].about /\ m \notin ids
      BY <1>1, <2>2, <2>5
    <3>2. ids \subseteq Stored /\ Put(ids, TRUE) /\ ids \in SUBSET Monitors /\ ids \subseteq issued
      BY <2>2, <2>5
    <3> HIDE DEF ids
    <3> QED BY <2>1, <2>5, <3>1, <3>2, RunStep
  <2> QED BY <1>4, <2>3, <2>4, <2>5 DEF RunToggle
<1>5. CASE RunUpdate(q)
  <2>1. /\ Pending(q) /\ flight[q].at = "asked" /\ flight[q].op = "update"
        /\ state' = state /\ loaded' = loaded /\ issued' = issued
        /\ flight[q].op \notin Reads /\ Put(flight[q].about, flight[q].active)
        /\ flight[q].about \subseteq Stored
    BY <1>5 DEF RunUpdate, Arrived, Asked, Reads
  <2>2. flight[q].about \subseteq issued /\ doubt \subseteq Monitors
    BY <1>1, <2>1 DEF IsAbout, TabInv, ServerTyped
  <2>3. CASE Replies(q, "ok") /\ doubt' = doubt
    BY <1>1, <2>1, <2>2, <2>3, RunStep
  <2>4. CASE Replies(q, "error") /\ doubt' = doubt \cup flight[q].about
    <3>1. doubt' \subseteq Monitors /\ \A m \in Monitors \ doubt' : m \notin flight[q].about
      BY <1>1, <2>2, <2>4
    <3> QED BY <1>1, <2>1, <2>2, <2>4, <3>1, RunStep
  <2> QED BY <1>5, <2>3, <2>4 DEF RunUpdate
<1>6. CASE Refuse(q)
  <2>1. /\ Pending(q) /\ flight[q].at = "asked" /\ Replies(q, "error")
        /\ state' = state /\ loaded' = loaded /\ issued' = issued /\ doubt' = doubt /\ store' = store
    BY <1>6 DEF Refuse, serverVars
  <2>2. PICK f : /\ IsRequest(f) /\ f.op = flight[q].op /\ f.at = "error" /\ f.about = flight[q].about
                 /\ f.active = flight[q].active /\ flight' = [flight EXCEPT ![q] = f]
    BY <1>1, <2>1, RepliesFacts
  <2>3. ServerTyped'
    BY <2>1 DEF TabInv, ServerTyped, Stored
  <2>4. f.op \in {"update", "create"} => \A a, b \in f.about : a = b
    BY <1>1, <2>1, <2>2 DEF IsAbout
  <2>5. f.at # "ok"
    BY <2>2
  <2> QED BY <2>1, <2>2, <2>3, <2>4, <2>5, ServeStep
<1>7. CASE RunCreate(q)
  <2>1. /\ Pending(q) /\ flight[q].at = "asked" /\ flight[q].op = "create"
        /\ state' = state /\ loaded' = loaded
    BY <1>7 DEF RunCreate, Arrived, Asked
  <2>2. PICK m \in Monitors \ issued :
          /\ Put({m}, flight[q].active) /\ issued' = issued \cup {m}
          /\ \/ Creates(q, "ok", m) /\ doubt' = doubt
             \/ Creates(q, "error", m) /\ doubt' = doubt \cup {m}
    BY <1>7 DEF RunCreate
  <2>3. /\ store' \in [Monitors -> BOOLEAN \cup {None}]
        /\ \A n \in Monitors : store'[n] = IF n = m THEN flight[q].active ELSE store[n]
        /\ Stored' \subseteq Stored \cup {m}
    <3>1. {m} \in SUBSET Monitors /\ flight[q].active \in BOOLEAN \cup {None}
      BY <1>1
    <3> QED BY <2>2, <3>1, PutFacts
  <2>4. ServerTyped' /\ doubt \subseteq doubt'
    BY <2>1, <2>2, <2>3 DEF TabInv, ServerTyped
  <2>5. ASSUME NEW at \in {"ok", "error"}, Creates(q, at, m), at = "error" => m \in doubt'
        PROVE  TabInv'
    <3>1. PICK f : /\ IsRequest(f) /\ f.op = flight[q].op /\ f.at = at /\ f.about = {m}
                   /\ f.active = flight[q].active /\ flight' = [flight EXCEPT ![q] = f]
      BY <2>1, <2>5, CreatesFacts
    <3>2. /\ flight[q].about \subseteq f.about /\ f.about \ flight[q].about \subseteq issued' \ issued
          /\ issued \subseteq issued'
      BY <1>1, <2>1, <2>2, <3>1 DEF IsAbout
    <3>3. \A n \in Monitors \ doubt' :
            IF n \in f.about /\ f.op \notin Reads /\ f.at = "ok" /\ f.op # "load"
            THEN Agree(n) => Ahead(n, f)'
            ELSE store'[n] = store[n]
      BY <2>1, <2>3, <2>5, <3>1 DEF Ahead, Reads
    <3>4. /\ f.op = "create" /\ f.at \in {"ok", "error"}
          /\ \A a, b \in f.about : a = b
      BY <2>1, <3>1
    <3> QED BY <2>1, <2>4, <3>1, <3>2, <3>3, <3>4, ServeStep
  <2> QED BY <2>2, <2>5
<1>8. CASE RunLoad(q)
  <2>1. /\ Pending(q) /\ flight[q].at = "asked" /\ flight[q].op = "load" /\ Replies(q, "ok")
        /\ state' = state /\ issued' = issued /\ doubt' = doubt /\ store' = store
    BY <1>8 DEF RunLoad, serverVars, Arrived, Asked
  <2>2. PICK batch \in [Stored -> SUBSET (1 .. rows)] :
          loaded' = [m \in Stored |-> [active |-> store[m], list |-> InOrder(batch[m])]]
    BY <1>8 DEF RunLoad
  <2>3. \A m \in Stored : store[m] \in BOOLEAN /\ loaded'[m] = [active |-> store[m], list |-> InOrder(batch[m])]
    BY <2>2 DEF TabInv, ServerTyped, Stored
  <2>4. IsTable(loaded') /\ DOMAIN loaded' = Stored
    <3>1. ASSUME NEW m \in Stored PROVE IsEntry(loaded'[m])
      <4>1. PICK a \in BOOLEAN : a = store[m]
        BY <2>3
      <4>2. loaded'[m] = [active |-> a, list |-> InOrder(batch[m])]
        BY <2>3, <4>1
      <4> QED BY <4>2 DEF IsEntry
    <3>2. loaded' = [m \in Stored |-> loaded'[m]]
      BY <2>2
    <3> QED BY <3>1, <3>2, TableOf
  <2>5. Stored' = Stored /\ ServerTyped'
    BY <2>1, <2>4 DEF TabInv, ServerTyped, Stored
  <2>6. PICK f : /\ IsRequest(f) /\ f.op = flight[q].op /\ f.at = "ok" /\ f.about = flight[q].about
                 /\ f.active = flight[q].active /\ flight' = [flight EXCEPT ![q] = f]
    BY <1>1, <2>1, RepliesFacts
  <2>7. \A m \in Stored' : loaded'[m].active = store'[m]
    <3>1. ASSUME NEW m \in Stored PROVE loaded'[m].active = store[m]
      <4>1. loaded'[m] = [active |-> store[m], list |-> InOrder(batch[m])]
        BY <2>3
      <4> QED BY <4>1
    <3> QED BY <2>1, <2>5, <3>1
  <2>8. /\ f.op = "load" /\ f.at \in {"ok", "error"}
        /\ flight[q].about \subseteq f.about /\ f.about \ flight[q].about \subseteq issued' \ issued
        /\ f.op # "create" => f.about = flight[q].about
        /\ \A m \in Monitors \ doubt' : store'[m] = store[m]
    BY <2>1, <2>6
  <2> QED BY <2>1, <2>4, <2>5, <2>6, <2>7, <2>8, ServeStep
<1> QED BY <1>2, <1>3, <1>4, <1>5, <1>6, <1>7, <1>8

(* A request to do something about some monitors. *)
LEMMA ClosureFacts ==
  ASSUME NEW op \in Ops \ {"prune"}, NEW about \in SUBSET Monitors, NEW active \in BOOLEAN, NEW f,
         \/ f = Closure(op, about)
         \/ f = [Closure(op, about) EXCEPT !.active = active]
  PROVE  IsRequest(f) /\ f.op = op /\ f.at = "asked" /\ f.about = about
<1>1. PICK g : g = Closure(op, about)
  OBVIOUS
<1>2. g = [op |-> op, at |-> "asked", about |-> about, active |-> FALSE, monitor |-> None, ids |-> {},
           shown |-> FALSE]
  BY <1>1 DEF Closure
<1>3. CASE f = g
  <2>1. PICK no \in BOOLEAN : no = FALSE
    OBVIOUS
  <2>2. f = [op |-> op, at |-> "asked", about |-> about, active |-> no, monitor |-> None, ids |-> {},
             shown |-> FALSE]
    BY <1>2, <1>3, <2>1
  <2> QED BY <2>2, RequestOf
<1>4. CASE f = [g EXCEPT !.active = active]
  <2>1. f = [op |-> op, at |-> "asked", about |-> about, active |-> active, monitor |-> None, ids |-> {},
             shown |-> FALSE]
    BY <1>2, <1>4
  <2> QED BY <2>1, RequestOf
<1> QED BY <1>1, <1>3, <1>4

(* A request to delete some measurements of a monitor. *)
LEMMA PruneFacts ==
  ASSUME NEW o \in Objects, NEW ids, NEW shown, NEW f,
         f = [op |-> "prune", at |-> "asked", about |-> {o.id}, active |-> FALSE, monitor |-> o,
              ids |-> ids, shown |-> shown]
  PROVE  /\ IsRequest(f) /\ f.op = "prune" /\ f.at = "asked" /\ f.about = {o.id}
         /\ f.monitor = o /\ f.ids = ids
<1>1. PICK about \in SUBSET Monitors : about = {o.id}
  BY DEF Objects
<1>2. PICK no \in BOOLEAN : no = FALSE
  OBVIOUS
<1>3. f = [op |-> "prune", at |-> "asked", about |-> about, active |-> no, monitor |-> o, ids |-> ids,
           shown |-> shown]
  BY <1>1, <1>2
<1>4. "prune" \in Ops /\ "asked" \in {"asked", "ok", "error"}
  BY DEF Ops
<1>5. /\ f.op = "prune" /\ f.at = "asked" /\ f.about = about /\ f.active = no /\ f.monitor = o
      /\ f.ids = ids /\ f.shown = shown
  BY ONLY <1>3
<1>6. f = [op |-> f.op, at |-> f.at, about |-> f.about, active |-> f.active,
           monitor |-> f.monitor, ids |-> f.ids, shown |-> f.shown]
  BY <1>3, <1>5
<1>7. IsRequest(f)
  BY <1>1, <1>4, <1>5, <1>6 DEF IsRequest
<1> QED BY <1>1, <1>5, <1>7

(* Whatever the user asks for is about what the tab refers to. *)
LEMMA AsksStep ==
  ASSUME TabInv,
         \/ AskDelete \/ AskHistory
         \/ \E active \in BOOLEAN : AskToggle(active) \/ AskUpdate(active) \/ AskCreate(active)
         \/ \E shown \in BOOLEAN : AskPrune(shown)
  PROVE  TabInv'
<1>1. ASSUME NEW op \in Ops \ {"none", "load", "prune"}, NEW about \in SUBSET Familiar,
             op = "create" => about = {}, op = "update" => \A a, b \in about : a = b,
             NEW active \in BOOLEAN, NEW f,
             \/ f = Closure(op, about)
             \/ f = [Closure(op, about) EXCEPT !.active = active],
             ~ loading, Ask(f)
      PROVE  TabInv'
  <2>1. about \in SUBSET Monitors
    BY StateFacts
  <2>2. IsRequest(f) /\ f.op = op /\ f.at = "asked" /\ f.about = about
    BY <1>1, <2>1, ClosureFacts
  <2>3. f.op \notin {"none", "load"}
    BY <2>2
  <2> QED BY <1>1, <2>2, <2>3, AskStep
<1>2. CASE AskDelete
  <2>1. ~ loading /\ state.deleting \in SUBSET Familiar /\ Ask(Closure("delete", state.deleting))
    BY <1>2, StateFacts DEF AskDelete
  <2>2. "delete" \in Ops \ {"none", "load", "prune"} /\ TRUE \in BOOLEAN
    BY DEF Ops
  <2>3. PICK f : f = Closure("delete", state.deleting)
    OBVIOUS
  <2> QED BY <1>1, <2>1, <2>2, <2>3
<1>3. ASSUME state.pane.kind \in {"view", "editor"}
      PROVE  /\ state.pane.monitor \in Objects /\ state.pane.monitor.id \in Familiar
             /\ {state.pane.monitor.id} \in SUBSET Familiar
  BY <1>3, StateFacts, PaneFacts
<1>4. CASE AskHistory
  <2>1. ~ loading /\ state.pane.kind = "view" /\ Ask(Closure("history", {state.pane.monitor.id}))
    BY <1>4, StateFacts DEF AskHistory
  <2>2. "history" \in Ops \ {"none", "load", "prune"} /\ TRUE \in BOOLEAN
    BY DEF Ops
  <2>3. PICK about \in SUBSET Familiar : about = {state.pane.monitor.id}
    BY <1>3, <2>1
  <2>4. PICK f : f = Closure("history", about)
    OBVIOUS
  <2>5. Ask(f)
    BY <2>1, <2>3, <2>4
  <2> QED BY <1>1, <2>1, <2>2, <2>4, <2>5
<1>5. ASSUME NEW active \in BOOLEAN, AskToggle(active) PROVE TabInv'
  <2>1. PICK ids \in SUBSET Known : Ask([Closure("toggle", ids) EXCEPT !.active = active])
    BY <1>5 DEF AskToggle
  <2>2. ~ loading /\ ids \in SUBSET Familiar
    BY <1>5, StateFacts DEF AskToggle
  <2>3. "toggle" \in Ops \ {"none", "load", "prune"}
    BY DEF Ops
  <2>4. PICK f : f = [Closure("toggle", ids) EXCEPT !.active = active]
    OBVIOUS
  <2> QED BY <1>1, <2>1, <2>2, <2>3, <2>4
<1>6. ASSUME NEW active \in BOOLEAN, AskUpdate(active) PROVE TabInv'
  <2>1. /\ ~ loading /\ state.pane.kind = "editor"
        /\ Ask([Closure("update", {state.pane.monitor.id}) EXCEPT !.active = active])
    BY <1>6, StateFacts DEF AskUpdate
  <2>2. "update" \in Ops \ {"none", "load", "prune"}
    BY DEF Ops
  <2>3. PICK about \in SUBSET Familiar : about = {state.pane.monitor.id}
    BY <1>3, <2>1
  <2>4. PICK f : f = [Closure("update", about) EXCEPT !.active = active]
    OBVIOUS
  <2>5. Ask(f) /\ \A a, b \in about : a = b
    BY <2>1, <2>3, <2>4
  <2> QED BY <1>1, <2>1, <2>2, <2>4, <2>5
<1>7. ASSUME NEW active \in BOOLEAN, AskCreate(active) PROVE TabInv'
  <2>1. ~ loading /\ Ask([Closure("create", {}) EXCEPT !.active = active])
    BY <1>7, StateFacts DEF AskCreate
  <2>2. "create" \in Ops \ {"none", "load", "prune"} /\ {} \in SUBSET Familiar
    BY DEF Ops
  <2>3. PICK f : f = [Closure("create", {}) EXCEPT !.active = active]
    OBVIOUS
  <2> QED BY <1>1, <2>1, <2>2, <2>3
<1>8. ASSUME NEW shown \in BOOLEAN, AskPrune(shown) PROVE TabInv'
  <2>1. ~ loading /\ state.pane.kind = "view"
    BY <1>8, StateFacts DEF AskPrune
  <2>2. PICK o \in Objects : o = state.pane.monitor /\ o.id \in Familiar
    BY <1>3, <2>1
  <2>3. PICK ids : Ask([op |-> "prune", at |-> "asked", about |-> {o.id}, active |-> FALSE, monitor |-> o,
                   ids |-> ids, shown |-> shown])
    BY <1>8, <2>2 DEF AskPrune
  <2>4. PICK f : f = [op |-> "prune", at |-> "asked", about |-> {o.id}, active |-> FALSE, monitor |-> o,
                   ids |-> ids, shown |-> shown]
    OBVIOUS
  <2>5. IsRequest(f) /\ f.op = "prune" /\ f.at = "asked" /\ f.about = {o.id}
    BY ONLY <2>4, PruneFacts
  <2>6. Ask(f) /\ f.about \subseteq Familiar /\ f.op \notin {"none", "load"}
    BY <2>2, <2>3, <2>4, <2>5
  <2> QED BY <2>1, <2>5, <2>6, AskStep
<1> QED BY <1>2, <1>4, <1>5, <1>6, <1>7, <1>8

-----------------------------------------------------------------------------
(* The answers. *)

(* A request that has ended is no more; the others are about what they were. *)
LEMMA FinishFacts ==
  ASSUME TabInv, NEW q \in Requests, NEW ids, Finish(q, ids)
  PROVE  /\ flight' = [p \in Requests |-> flight'[p]] /\ flight'[q] = NoRequest
         /\ \A p \in Requests : IsRequest(flight'[p])
         /\ \A p \in Requests \ {q} :
              /\ flight'[p].op = flight[p].op /\ flight'[p].at = flight[p].at
              /\ flight'[p].about = flight[p].about /\ flight'[p].active = flight[p].active
              /\ flight'[p].ids = flight[p].ids
              /\ Asked(p, "prune") => flight'[p].monitor = Aged(flight[p].monitor, ids)
         /\ store' = store /\ issued' = issued
<1>1. /\ flight' = [p \in Requests |->
                      IF p = q THEN NoRequest
                      ELSE IF Asked(p, "prune")
                           THEN [flight[p] EXCEPT !.monitor = Aged(@, ids)]
                           ELSE flight[p]]
      /\ store' = store /\ issued' = issued
  BY DEF Finish, serverVars
<1>2. flight' = [p \in Requests |-> flight'[p]] /\ flight'[q] = NoRequest /\ IsRequest(NoRequest)
  BY <1>1, NoRequestIs
<1>3. ASSUME NEW p \in Requests \ {q}
      PROVE  /\ IsRequest(flight'[p]) /\ flight'[p].op = flight[p].op /\ flight'[p].at = flight[p].at
             /\ flight'[p].about = flight[p].about /\ flight'[p].active = flight[p].active
             /\ flight'[p].ids = flight[p].ids
             /\ Asked(p, "prune") => flight'[p].monitor = Aged(flight[p].monitor, ids)
  <2>1. IsRequest(flight[p])
    BY DEF TabInv
  <2>2. CASE ~ Asked(p, "prune")
    BY <1>1, <2>1, <2>2
  <2>3. CASE Asked(p, "prune")
    <3>1. PICK g : g = flight[p]
      OBVIOUS
    <3>2. PICK o : o = Aged(g.monitor, ids)
      OBVIOUS
    <3>3. flight'[p] = [g EXCEPT !.monitor = o]
      BY <1>1, <2>3, <3>1, <3>2
    <3>4. /\ IsRequest(g) /\ g.op \in Ops /\ g.at \in {"asked", "ok", "error"} /\ g.about \subseteq Monitors
          /\ g.active \in BOOLEAN
          /\ g.monitor \in Objects /\ g.about = {g.monitor.id}
      BY <2>1, <2>3, <3>1, RequestFacts DEF Asked
    <3>5. o \in Objects /\ o.id = g.monitor.id
      BY <3>2, <3>4 DEF Aged, Object, Objects
    <3>6. PICK f : f = [op |-> g.op, at |-> g.at, about |-> g.about, active |-> g.active, monitor |-> o,
                        ids |-> g.ids, shown |-> g.shown]
      OBVIOUS
    <3>7. [g EXCEPT !.monitor = o] = f
      BY <3>4, <3>6, RequestExcept
    <3>8. g.about = {o.id}
      BY <3>4, <3>5
    <3>9. /\ IsRequest(f) /\ f.op = g.op /\ f.at = g.at /\ f.about = g.about /\ f.active = g.active
          /\ f.monitor = o /\ f.ids = g.ids
      BY <3>4, <3>5, <3>6, <3>8, RequestOf
    <3> QED BY <3>1, <3>2, <3>3, <3>7, <3>9
  <2> QED BY <2>2, <2>3
<1> QED BY <1>1, <1>2, <1>3

(* A request that is answered, or given up, ends: the state changes as the store did. *)
LEMMA AnswerStep ==
  ASSUME TabInv, NEW q \in Requests, Pending(q), flight[q].op # "load", NEW ids, Finish(q, ids),
         IsState(state'), loaded' = loaded, doubt \subseteq doubt', doubt' \subseteq Monitors,
         Known' \subseteq issued, Ids(state'.selected) \subseteq Known', state'.deleting \subseteq Familiar',
         Shows(state'.pane, Monitors) => state'.pane.monitor.id \in Familiar',
         Known \ Known' \subseteq flight[q].about, flight[q].op # "delete" => Known \subseteq Known',
         \A m \in Monitors \ doubt' :
           IF m \in flight[q].about /\ flight[q].op \notin Reads /\ flight[q].at = "ok"
           THEN Ahead(m, flight[q]) => Agree(m)'
           ELSE /\ m \in Known' <=> m \in Known
                /\ m \in Known => state'.monitors[m].active = state.monitors[m].active
  PROVE  TabInv'
<1>1. /\ flight' = [p \in Requests |-> flight'[p]] /\ ~ Pending(q)'
      /\ \A p \in Requests : IsRequest(flight'[p])
      /\ \A p \in Requests \ {q} :
           /\ flight'[p].op = flight[p].op /\ flight'[p].at = flight[p].at
           /\ flight'[p].about = flight[p].about /\ flight'[p].active = flight[p].active
      /\ store' = store /\ issued' = issued
  BY FinishFacts, NoRequestIs DEF Pending
<1>2. ~ loading /\ ~ loading'
  <2>1. ~ loading
    BY PendingFacts
  <2> QED BY <1>1, <2>1 DEF loading, Asked, Pending
<1>3. ServerTyped' /\ Refers'
  BY <1>1 DEF TabInv, ServerTyped, Stored, Refers
<1>4. \A p \in Requests : IsAbout(p)' /\ Loading(p)'
  <2>1. ASSUME NEW p \in Requests \ {q}, Pending(p) PROVE IsAbout(p)'
    <3>1. IsAbout(p) /\ (flight[q].op = "delete" => flight[p].about \cap flight[q].about \subseteq doubt)
      BY <2>1 DEF TabInv, Apart, Conflict
    <3>2. flight[p].about \subseteq Familiar => flight[p].about \subseteq Familiar'
      BY <1>1, <3>1 DEF Familiar
    <3> QED BY <1>1, <2>1, <3>1, <3>2 DEF IsAbout
  <2>2. ASSUME NEW p \in Requests, ~ Pending(p)' PROVE IsAbout(p)'
    BY <2>2 DEF IsAbout
  <2>3. \A p \in Requests \ {q} : Pending(p)' <=> Pending(p)
    BY <1>1 DEF Pending
  <2>4. \A p \in Requests : Loading(p)'
    BY <1>2 DEF loading, Loading
  <2> QED BY <1>1, <2>1, <2>2, <2>3, <2>4
<1>5. Apart'
  <2> SUFFICES ASSUME NEW p \in Requests, NEW r \in Requests, p # r, Pending(p)', Pending(r)',
                      Conflict(flight'[p], flight'[r])
               PROVE  flight'[p].about \cap flight'[r].about \subseteq doubt'
    BY DEF Apart
  <2>1. p # q /\ r # q /\ Pending(p) /\ Pending(r) /\ Conflict(flight[p], flight[r])
    BY <1>1 DEF Pending, Conflict
  <2> QED BY <1>1, <2>1 DEF TabInv, Apart
<1>6. ASSUME NEW m \in Monitors \ doubt' PROVE InStep(m)'
  <2>1. InStep(m) /\ m \in Monitors \ doubt
    BY <1>2 DEF TabInv
  <2>2. \A p \in Requests \ {q} : Done(p, m)' <=> Done(p, m)
    BY <1>1 DEF Done, Pending
  <2>3. ~ Done(q, m)'
    BY <1>1 DEF Done
  <2>4. CASE Done(q, m)
    <3>1. Pending(q) /\ m \in flight[q].about /\ flight[q].op \notin Reads /\ flight[q].at = "ok"
      BY <2>4 DEF Done
    <3>2. Agree(m)'
      BY <2>1, <2>4, <3>1 DEF InStep
    <3>3. \A p \in Requests \ {q} : ~ Done(p, m)
      <4> SUFFICES ASSUME NEW p \in Requests \ {q}, Done(p, m) PROVE FALSE
        OBVIOUS
      <4>1. Pending(p) /\ m \in flight[p].about /\ flight[p].op \notin Reads
        BY DEF Done
      <4> QED BY <2>1, <3>1, <4>1, NoConflict
    <3> QED BY <2>2, <2>3, <3>2, <3>3 DEF InStep
  <2>5. CASE ~ Done(q, m)
    <3>1. /\ m \in Known' <=> m \in Known
          /\ m \in Known => state'.monitors[m].active = state.monitors[m].active
      BY <2>5 DEF Done
    <3>2. /\ Agree(m)' <=> Agree(m)
          /\ \A p \in Requests \ {q} : Ahead(m, flight[p])' <=> Ahead(m, flight[p])
      BY <1>1, <3>1 DEF Agree, Ahead
    <3> QED BY <2>1, <2>2, <2>3, <2>5, <3>2 DEF InStep
  <2> QED BY <2>4, <2>5
<1> QED BY <1>1, <1>3, <1>4, <1>5, <1>6 DEF TabInv

(* What a request that is answered says, and what the tab knows of what it is about. *)
LEMMA AnswerFacts ==
  ASSUME TabInv, NEW q \in Requests, Pending(q), flight[q].op # "load"
  PROVE  /\ IsRequest(flight[q]) /\ flight[q].about \subseteq issued /\ flight[q].about \subseteq Monitors
         /\ flight[q].active \in BOOLEAN /\ doubt \subseteq Monitors
         /\ flight[q].op # "create" => flight[q].about \subseteq Familiar
         /\ flight[q].op \in {"update", "create"} => \A a, b \in flight[q].about : a = b
         /\ flight[q].op = "prune" => flight[q].monitor \in Objects /\ flight[q].monitor.id \in Familiar
         /\ Known \subseteq issued /\ Known \subseteq Monitors
<1>1. IsRequest(flight[q]) /\ IsAbout(q)
  BY PendingFacts
<1>2. /\ flight[q].about \subseteq Monitors /\ flight[q].active \in BOOLEAN
      /\ flight[q].op = "prune" => flight[q].monitor \in Objects /\ flight[q].about = {flight[q].monitor.id}
  BY <1>1, RequestFacts
<1>3. doubt \subseteq Monitors /\ Known \subseteq issued /\ Known \subseteq Monitors
  BY DEF TabInv, ServerTyped, Refers
<1> QED BY <1>1, <1>2, <1>3 DEF IsAbout

(* An answered deletion: nothing refers to what is deleted. *)
LEMMA DeletedStep ==
  ASSUME TabInv, NEW q \in Requests, AnswerDelete(q)
  PROVE  TabInv'
<1> DEFINE t == [m \in Known \ flight[q].about |-> state.monitors[m]]
           pane == IF Shows(state.pane, flight[q].about) THEN Pane("none") ELSE state.pane
<1>1. /\ Pending(q) /\ flight[q].op = "delete" /\ flight[q].at = "ok"
      /\ Finish(q, flight[q].about) /\ loaded' = loaded /\ doubt' = doubt
      /\ state' = [monitors |-> t, selected |-> {}, deleting |-> {}, pane |-> pane]
  BY DEF AnswerDelete, Answered, Asked, deleteMonitorAction
<1>2. flight[q].about \subseteq Monitors /\ doubt \subseteq Monitors /\ flight[q].op # "load"
      /\ Known \subseteq issued /\ issued' = issued /\ store' = store
  BY <1>1, AnswerFacts, FinishFacts
<1>3. IsTable(t) /\ DOMAIN t = Known \ flight[q].about
  BY StateFacts, TableOf DEF IsTable, Known
<1>4. IsPane(pane) /\ (Shows(pane, Monitors) => /\ pane = state.pane
                                                /\ pane.monitor.id \in Familiar \ flight[q].about)
  BY <1>2, StateFacts, PaneFacts, PanesAre DEF Shows
<1>5. \A m \in DOMAIN t : t[m] = state.monitors[m]
  OBVIOUS
<1> HIDE DEF t, pane
<1>6. DOMAIN t \subseteq Monitors /\ {} \in SUBSET Objects /\ {} \in SUBSET Monitors
  BY <1>3, StateFacts DEF Known
<1>7. /\ IsState(state') /\ state'.monitors = t /\ state'.selected = {} /\ state'.deleting = {}
      /\ state'.pane = pane
  BY <1>1, <1>3, <1>4, <1>6, StateOf
<1>8. /\ Known' = Known \ flight[q].about /\ Ids(state'.selected) \subseteq Known'
      /\ state'.deleting \subseteq Familiar'
  BY <1>3, <1>7 DEF Known, Ids
<1>9. Shows(state'.pane, Monitors) => state'.pane.monitor.id \in Familiar'
  BY <1>1, <1>2, <1>4, <1>7, <1>8 DEF Familiar
<1>10. ASSUME NEW m \in Monitors \ doubt'
       PROVE  IF m \in flight[q].about /\ flight[q].op \notin Reads /\ flight[q].at = "ok"
              THEN Ahead(m, flight[q]) => Agree(m)'
              ELSE /\ m \in Known' <=> m \in Known
                   /\ m \in Known => state'.monitors[m].active = state.monitors[m].active
  BY <1>1, <1>2, <1>3, <1>5, <1>7, <1>8 DEF Ahead, Agree, Reads
<1>11. Known' \subseteq issued /\ Known \ Known' \subseteq flight[q].about /\ doubt' \subseteq Monitors
  BY <1>1, <1>2, <1>8
<1> QED BY <1>1, <1>2, <1>7, <1>8, <1>9, <1>10, <1>11, AnswerStep

(* An answered toggle: those it was about have the active state that the request set. *)
LEMMA ToggledStep ==
  ASSUME TabInv, NEW q \in Requests, AnswerToggle(q)
  PROVE  TabInv'
<1> DEFINE t == [m \in Known |-> IF m \in flight[q].about
                                 THEN [state.monitors[m] EXCEPT !.active = flight[q].active]
                                 ELSE state.monitors[m]]
<1>1. /\ Pending(q) /\ flight[q].op = "toggle" /\ flight[q].at = "ok"
      /\ Finish(q, {}) /\ loaded' = loaded /\ doubt' = doubt
      /\ state' = [monitors |-> t, selected |-> {}, deleting |-> {}, pane |-> state.pane]
  BY DEF AnswerToggle, Answered, Asked, toggleMonitorAction
<1>2. flight[q].about \subseteq Monitors /\ doubt \subseteq Monitors /\ flight[q].op # "load"
      /\ flight[q].active \in BOOLEAN /\ Known \subseteq issued /\ issued' = issued /\ store' = store
  BY <1>1, AnswerFacts, FinishFacts
<1>3. ASSUME NEW m \in Known
      PROVE  /\ IsEntry(t[m])
             /\ t[m].active = IF m \in flight[q].about THEN flight[q].active ELSE state.monitors[m].active
  <2>1. PICK e : e = state.monitors[m] /\ IsEntry(e)
    BY StateFacts DEF IsTable, Known
  <2>2. [e EXCEPT !.active = flight[q].active] = [active |-> flight[q].active, list |-> e.list]
    BY <2>1, EntryExcept
  <2>3. PICK v : v = [active |-> flight[q].active, list |-> e.list]
    OBVIOUS
  <2>4. IsEntry(v) /\ v.active = flight[q].active
    BY <1>2, <2>3 DEF IsEntry
  <2>5. t[m] = IF m \in flight[q].about THEN v ELSE e
    BY <2>1, <2>2, <2>3
  <2> QED BY <2>1, <2>4, <2>5
<1>4. t = [m \in Known |-> t[m]]
  OBVIOUS
<1> HIDE DEF t
<1>5. IsTable(t) /\ DOMAIN t = Known
  BY <1>3, <1>4, TableOf
<1>6. Known \subseteq Monitors /\ {} \in SUBSET Objects /\ {} \in SUBSET Monitors /\ IsPane(state.pane)
  BY StateFacts DEF Known
<1>7. /\ IsState(state') /\ state'.monitors = t /\ state'.selected = {} /\ state'.deleting = {}
      /\ state'.pane = state.pane
  BY <1>1, <1>5, <1>6, StateOf
<1>8. /\ Known' = Known /\ Ids(state'.selected) \subseteq Known' /\ state'.deleting \subseteq Familiar'
      /\ Familiar' = Familiar
  BY <1>1, <1>2, <1>5, <1>7 DEF Known, Ids, Familiar
<1>9. Shows(state'.pane, Monitors) => state'.pane.monitor.id \in Familiar'
  BY <1>7, <1>8, StateFacts
<1>10. ASSUME NEW m \in Monitors \ doubt'
       PROVE  IF m \in flight[q].about /\ flight[q].op \notin Reads /\ flight[q].at = "ok"
              THEN Ahead(m, flight[q]) => Agree(m)'
              ELSE /\ m \in Known' <=> m \in Known
                   /\ m \in Known => state'.monitors[m].active = state.monitors[m].active
  BY <1>1, <1>2, <1>3, <1>7, <1>8 DEF Ahead, Agree, Reads
<1>11. /\ Known' \subseteq issued /\ Known \subseteq Known' /\ Known \ Known' \subseteq flight[q].about
       /\ doubt' \subseteq Monitors
  BY <1>1, <1>2, <1>8
<1> QED BY <1>1, <1>2, <1>7, <1>8, <1>9, <1>10, <1>11, AnswerStep

(* An answered edit: the monitor is in the inventory as it was sent. *)
LEMMA SavedStep ==
  ASSUME TabInv, NEW q \in Requests, AnswerSave(q)
  PROVE  TabInv'
<1>1. /\ Pending(q) /\ flight[q].op \in {"update", "create"} /\ flight[q].at = "ok"
      /\ Finish(q, flight[q].about) /\ loaded' = loaded /\ doubt' = doubt
  BY DEF AnswerSave, Answered, Asked
<1>2. PICK m \in flight[q].about : state' = overwriteMonitorAction(m, flight[q].active)
  BY DEF AnswerSave
<1>3. /\ flight[q].about \subseteq Monitors /\ doubt \subseteq Monitors /\ flight[q].op # "load"
      /\ flight[q].active \in BOOLEAN /\ Known \subseteq issued /\ issued' = issued /\ store' = store
      /\ m \in issued /\ m \in Monitors /\ flight[q].about = {m}
  <2>1. flight[q].op # "load"
    BY <1>1
  <2>2. /\ flight[q].about \subseteq Monitors /\ doubt \subseteq Monitors /\ flight[q].active \in BOOLEAN
        /\ Known \subseteq issued /\ flight[q].about \subseteq issued
        /\ \A a, b \in flight[q].about : a = b
    BY <1>1, <2>1, AnswerFacts
  <2>3. issued' = issued /\ store' = store
    BY <1>1, FinishFacts
  <2> QED BY <1>2, <2>1, <2>2, <2>3
<1>4. PICK list : list = IF m \in Known THEN state.monitors[m].list ELSE <<>>
  OBVIOUS
<1> DEFINE t == [n \in Known \cup {m} |->
                   IF n = m THEN [active |-> flight[q].active, list |-> list] ELSE state.monitors[n]]
           selected == {Aged(o, {m}) : o \in state.selected}
           pane == PaneOf("editor", Object(m, TRUE))
<1>5. state' = [monitors |-> t, selected |-> selected, deleting |-> state.deleting, pane |-> pane]
  BY <1>2, <1>4 DEF overwriteMonitorAction
<1>6. ASSUME NEW n \in Known \cup {m}
      PROVE  /\ IsEntry(t[n])
             /\ t[n].active = IF n = m THEN flight[q].active ELSE state.monitors[n].active
  <2>1. PICK v : v = [active |-> flight[q].active, list |-> list]
    OBVIOUS
  <2>2. IsEntry(v) /\ v.active = flight[q].active
    BY <1>3, <2>1 DEF IsEntry
  <2>3. n \in Known => IsEntry(state.monitors[n])
    BY StateFacts DEF IsTable, Known
  <2>4. t[n] = IF n = m THEN v ELSE state.monitors[n]
    BY <2>1
  <2> QED BY <2>2, <2>3, <2>4
<1>7. t = [n \in Known \cup {m} |-> t[n]]
  OBVIOUS
<1>8. selected \in SUBSET Objects /\ Ids(selected) \subseteq Known
  <2>1. \A o \in state.selected : Aged(o, {m}) \in Objects /\ Aged(o, {m}).id = o.id
    BY StateFacts DEF Aged, Object, Objects
  <2>2. \A o \in state.selected : o.id \in Known
    BY StateFacts DEF Ids
  <2> QED BY <2>1, <2>2 DEF Ids
<1>9. IsPane(pane) /\ pane.monitor.id = m
  BY <1>3, PanesAre
<1> HIDE DEF t, selected, pane
<1>10. IsTable(t) /\ DOMAIN t = Known \cup {m}
  BY <1>6, <1>7, TableOf
<1>11. DOMAIN t \subseteq Monitors /\ state.deleting \in SUBSET Monitors
  BY <1>3, <1>10, StateFacts DEF Known
<1>12. /\ IsState(state') /\ state'.monitors = t /\ state'.selected = selected
       /\ state'.deleting = state.deleting /\ state'.pane = pane
  BY <1>5, <1>8, <1>9, <1>10, <1>11, StateOf
<1>13. Known' = Known \cup {m} /\ Familiar \subseteq Familiar' /\ m \in Familiar'
  BY <1>1, <1>3, <1>10, <1>12 DEF Known, Familiar
<1>14. /\ Ids(state'.selected) \subseteq Known' /\ state'.deleting \subseteq Familiar'
       /\ Shows(state'.pane, Monitors) => state'.pane.monitor.id \in Familiar'
  BY <1>8, <1>9, <1>12, <1>13, StateFacts
<1>15. ASSUME NEW n \in Monitors \ doubt'
       PROVE  IF n \in flight[q].about /\ flight[q].op \notin Reads /\ flight[q].at = "ok"
              THEN Ahead(n, flight[q]) => Agree(n)'
              ELSE /\ n \in Known' <=> n \in Known
                   /\ n \in Known => state'.monitors[n].active = state.monitors[n].active
  <2>1. flight[q].active # None /\ flight[q].op \notin Reads
    BY <1>1, <1>3, InventoryAssumption DEF Reads
  <2>2. CASE n = m
    <3>1. Ahead(n, flight[q]) => store'[n] = flight[q].active
      BY <1>1, <1>3 DEF Ahead
    <3>2. n \in Known' /\ state'.monitors[n].active = flight[q].active
      BY <1>6, <1>12, <1>13, <2>2
    <3> QED BY <1>1, <1>3, <2>1, <2>2, <3>1, <3>2 DEF Agree
  <2>3. CASE n # m
    BY <1>3, <1>6, <1>12, <1>13, <2>3
  <2> QED BY <2>2, <2>3
<1>16. /\ Known' \subseteq issued /\ Known \subseteq Known' /\ Known \ Known' \subseteq flight[q].about
       /\ doubt' \subseteq Monitors
  BY <1>1, <1>3, <1>13
<1> QED BY <1>1, <1>3, <1>12, <1>14, <1>15, <1>16, AnswerStep

(* An answer to a read changes a list, or what the pane shows. *)
LEMMA ReadStep ==
  ASSUME TabInv, NEW q \in Requests, Pending(q), flight[q].op \in Reads, Finish(q, {}),
         loaded' = loaded, doubt' = doubt,
         NEW s, IsState(s), DOMAIN s.monitors = Known,
         \A m \in Known : s.monitors[m].active = state.monitors[m].active,
         s.selected = state.selected, s.deleting = state.deleting, s.pane = state.pane,
         \/ state' = s
         \/ \E o \in Objects : o.id \in Familiar /\ state' = [s EXCEPT !.pane = PaneOf("view", o)]
  PROVE  TabInv'
<1>1. /\ Known \subseteq issued /\ doubt \subseteq Monitors /\ issued' = issued /\ store' = store
      /\ flight[q].op # "load" /\ flight[q].op # "delete"
  <2>1. flight[q].op # "load" /\ flight[q].op # "delete"
    BY DEF Reads
  <2> QED BY <2>1, AnswerFacts, FinishFacts
<1>2. /\ IsState(state') /\ state'.monitors = s.monitors /\ state'.selected = s.selected
      /\ state'.deleting = s.deleting
      /\ state'.pane = s.pane \/ \E o \in Objects : o.id \in Familiar /\ state'.pane = PaneOf("view", o)
  <2>1. CASE state' = s
    BY <2>1
  <2>2. CASE \E o \in Objects : o.id \in Familiar /\ state' = [s EXCEPT !.pane = PaneOf("view", o)]
    <3>1. PICK o \in Objects : o.id \in Familiar /\ state' = [s EXCEPT !.pane = PaneOf("view", o)]
      BY <2>2
    <3>2. state' = [monitors |-> s.monitors, selected |-> s.selected, deleting |-> s.deleting,
                    pane |-> PaneOf("view", o)]
      BY <3>1, StateExcept
    <3>3. /\ IsTable(s.monitors) /\ DOMAIN s.monitors \subseteq Monitors
          /\ s.selected \in SUBSET Objects /\ s.deleting \in SUBSET Monitors /\ IsPane(PaneOf("view", o))
      BY PanesAre DEF IsState
    <3>4. /\ IsState(state') /\ state'.monitors = s.monitors /\ state'.selected = s.selected
          /\ state'.deleting = s.deleting /\ state'.pane = PaneOf("view", o)
      BY <3>2, <3>3, StateOf
    <3> QED BY <3>1, <3>4
  <2> QED BY <2>1, <2>2
<1>3. Known' = Known /\ Familiar' = Familiar
  BY <1>1, <1>2 DEF Known, Familiar
<1>4. /\ Ids(state'.selected) \subseteq Known' /\ state'.deleting \subseteq Familiar'
      /\ Shows(state'.pane, Monitors) => state'.pane.monitor.id \in Familiar'
  BY <1>2, <1>3, StateFacts, PanesAre
<1>5. ASSUME NEW m \in Monitors \ doubt'
      PROVE  IF m \in flight[q].about /\ flight[q].op \notin Reads /\ flight[q].at = "ok"
             THEN Ahead(m, flight[q]) => Agree(m)'
             ELSE /\ m \in Known' <=> m \in Known
                  /\ m \in Known => state'.monitors[m].active = state.monitors[m].active
  BY <1>2, <1>3
<1>6. /\ Known' \subseteq issued /\ Known \subseteq Known' /\ Known \ Known' \subseteq flight[q].about
      /\ doubt' \subseteq Monitors
  BY <1>1, <1>3
<1> QED BY <1>1, <1>2, <1>4, <1>5, <1>6, AnswerStep

(* An answered read. *)
LEMMA ReadsStep ==
  ASSUME TabInv, NEW q \in Requests, AnswerHistory(q) \/ AnswerPrune(q)
  PROVE  TabInv'
<1>1. /\ Pending(q) /\ flight[q].op \in Reads /\ Finish(q, {}) /\ loaded' = loaded /\ doubt' = doubt
      /\ flight[q].op # "load"
  BY DEF AnswerHistory, AnswerPrune, Answered, Asked, Reads
<1>2. /\ flight[q].about \subseteq Familiar /\ flight[q].about \subseteq Monitors
      /\ flight[q].op = "prune" => flight[q].monitor \in Objects /\ flight[q].monitor.id \in Familiar
  BY <1>1, AnswerFacts DEF Reads
<1>3. CASE AnswerHistory(q)
  <2>1. PICK m \in flight[q].about : state' = viewPaneAction(Object(m, FALSE), TRUE)
    BY <1>3 DEF AnswerHistory
  <2>2. Object(m, FALSE) \in Objects /\ Object(m, FALSE).id = m
    BY <1>2, <2>1, PanesAre
  <2>3. PICK o \in Objects : o.id \in Familiar /\ state' = [state EXCEPT !.pane = PaneOf("view", o)]
    BY <1>2, <2>1, <2>2 DEF viewPaneAction, SetPane
  <2>4. IsState(state) /\ DOMAIN state.monitors = Known
    BY StateFacts DEF Known
  <2> QED BY <1>1, <2>3, <2>4, ReadStep
<1>4. CASE AnswerPrune(q)
  <2>1. flight[q].op = "prune"
    BY <1>4 DEF AnswerPrune, Answered, Asked
  <2>2. PICK o \in Objects : o = flight[q].monitor /\ o.id \in Familiar
    BY <1>2, <2>1
  <2>3. PICK s : s = addMeasurementAction(o.id, flight[q].ids)
    OBVIOUS
  <2>4. state' = s \/ state' = [s EXCEPT !.pane = PaneOf("view", o)]
    BY <1>4, <2>2, <2>3 DEF AnswerPrune
  <2>5. /\ IsState(s) /\ DOMAIN s.monitors = Known
        /\ \A n \in Known : s.monitors[n].active = state.monitors[n].active
        /\ s.selected = state.selected /\ s.deleting = state.deleting /\ s.pane = state.pane
    <3>1. CASE o.id \notin Known
      BY <2>3, <3>1, StateFacts DEF addMeasurementAction, Known
    <3>2. CASE o.id \in Known
      <4>1. PICK m \in Known : m = o.id
        BY <3>2
      <4>2. PICK list : list = Without(state.monitors[m].list, flight[q].ids)
        OBVIOUS
      <4>3. s = WithList(m, list)
        BY <2>3, <4>1, <4>2 DEF addMeasurementAction
      <4> QED BY <4>3, StateFacts, WithListFacts
    <3> QED BY <3>1, <3>2
  <2>6. \/ state' = s
        \/ \E x \in Objects : x.id \in Familiar /\ state' = [s EXCEPT !.pane = PaneOf("view", x)]
    BY <2>2, <2>4
  <2> QED BY <1>1, <2>5, <2>6, ReadStep
<1> QED BY <1>3, <1>4

(* A request that failed leaves the state as it is, but for the deletion that was lost; the tab
   is in doubt about what a lost write was about. *)
LEMMA FailedStep ==
  ASSUME TabInv, NEW q \in Requests, flight[q].op # "load", AnswerError(q) \/ Lose(q)
  PROVE  TabInv'
<1>1. /\ Pending(q) /\ Finish(q, {}) /\ loaded' = loaded
      /\ state' = state \/ state' = queueMonitorDeleteAction({})
      /\ doubt' = doubt \/ doubt' = doubt \cup flight[q].about
      /\ flight[q].at = "ok" /\ flight[q].op \notin Reads => doubt' = doubt \cup flight[q].about
  BY DEF AnswerError, Lose
<1>2. Known \subseteq issued /\ doubt \subseteq Monitors /\ flight[q].about \subseteq Monitors
      /\ issued' = issued /\ store' = store
  BY <1>1, AnswerFacts, FinishFacts
<1>3. /\ IsState(state') /\ state'.monitors = state.monitors /\ state'.selected = state.selected
      /\ state'.deleting \subseteq state.deleting /\ state'.pane = state.pane
  <2>1. CASE state' = state
    BY <2>1, StateFacts
  <2>2. CASE state' = queueMonitorDeleteAction({})
    <3>1. state' = [monitors |-> state.monitors, selected |-> state.selected, deleting |-> {},
                    pane |-> state.pane]
      <4>1. Ids({}) = {}
        BY DEF Ids
      <4> QED BY <2>2, <4>1, StateFacts, StateExcept DEF queueMonitorDeleteAction
    <3>2. {} \in SUBSET Monitors
      OBVIOUS
    <3>3. /\ IsState(state') /\ state'.monitors = state.monitors /\ state'.selected = state.selected
          /\ state'.deleting = {} /\ state'.pane = state.pane
      BY <3>1, <3>2, StateFacts, StateOf
    <3> QED BY <3>3
  <2> QED BY <1>1, <2>1, <2>2
<1>4. Known' = Known /\ Familiar \subseteq Familiar' /\ doubt \subseteq doubt' /\ doubt' \subseteq Monitors
  BY <1>1, <1>2, <1>3 DEF Known, Familiar
<1>5. /\ Ids(state'.selected) \subseteq Known' /\ state'.deleting \subseteq Familiar'
      /\ Shows(state'.pane, Monitors) => state'.pane.monitor.id \in Familiar'
  BY <1>3, <1>4, StateFacts
<1>6. ASSUME NEW m \in Monitors \ doubt'
      PROVE  IF m \in flight[q].about /\ flight[q].op \notin Reads /\ flight[q].at = "ok"
             THEN Ahead(m, flight[q]) => Agree(m)'
             ELSE /\ m \in Known' <=> m \in Known
                  /\ m \in Known => state'.monitors[m].active = state.monitors[m].active
  BY <1>1, <1>3, <1>4
<1>7. Known' \subseteq issued /\ Known \subseteq Known' /\ Known \ Known' \subseteq flight[q].about
  BY <1>2, <1>4
<1> QED BY <1>1, <1>3, <1>4, <1>5, <1>6, <1>7, AnswerStep

(* An empty table. *)
LEMMA EmptyTable == IsTable(<<>>) /\ DOMAIN <<>> = {}
<1>1. DOMAIN <<>> = {} /\ <<>> = [m \in {} |-> m]
  OBVIOUS
<1> QED BY <1>1 DEF IsTable

(* The first load ends: the tab has what is stored, or knows that it has nothing. *)
LEMMA LoadedStep ==
  ASSUME TabInv, NEW q \in Requests, flight[q].op = "load", AnswerLoad(q) \/ AnswerError(q) \/ Lose(q)
  PROVE  TabInv'
<1>1. Pending(q) /\ Finish(q, {}) /\ Asked(q, "load")
  BY DEF AnswerLoad, AnswerError, Lose, Answered, Asked, Pending
<1>2. /\ flight' = [p \in Requests |-> flight'[p]] /\ \A p \in Requests : IsRequest(flight'[p])
      /\ store' = store /\ issued' = issued
      /\ \A p \in Requests : ~ Pending(p)'
  <2>1. \A p \in Requests \ {q} : ~ Pending(p)
    BY <1>1 DEF TabInv, Loading
  <2> QED BY <1>1, <2>1, FinishFacts, NoRequestIs DEF Pending
<1>3. /\ \A p \in Requests : IsAbout(p)' /\ Loading(p)'
      /\ Apart'
      /\ \A p \in Requests, m \in Monitors : ~ Done(p, m)'
  BY <1>2 DEF IsAbout, Loading, Apart, Asked, Done
<1>4. /\ doubt' \subseteq Monitors
      /\ IsTable(loaded') /\ DOMAIN loaded' \subseteq issued
  BY <1>1, EmptyTable, RequestFacts DEF TabInv, ServerTyped, AnswerLoad, AnswerError, Lose
<1>5. ServerTyped'
  BY <1>2, <1>4 DEF TabInv, ServerTyped, Stored
<1>6. CASE AnswerLoad(q)
  <2>1. /\ state' = [monitors |-> loaded, selected |-> {}, deleting |-> {}, pane |-> Pane("none")]
        /\ DOMAIN loaded = Stored /\ \A m \in Stored : loaded[m].active = store[m]
    BY <1>1, <1>6 DEF AnswerLoad, Answered, resetAction, TabInv, Loading
  <2>2. /\ IsTable(loaded) /\ DOMAIN loaded \subseteq Monitors /\ DOMAIN loaded \subseteq issued
        /\ IsPane(Pane("none")) /\ ~ Shows(Pane("none"), Monitors)
        /\ {} \in SUBSET Objects /\ {} \in SUBSET Monitors
    BY PanesAre DEF TabInv, ServerTyped
  <2>3. /\ IsState(state') /\ state'.monitors = loaded /\ state'.selected = {} /\ state'.deleting = {}
        /\ state'.pane = Pane("none")
    BY <2>1, <2>2, StateOf
  <2>4. Known' = Stored /\ Refers'
    BY <1>2, <2>1, <2>2, <2>3 DEF Known, Refers, Ids
  <2>5. \A m \in Monitors : Agree(m)'
    BY <1>2, <2>1, <2>3, <2>4 DEF Agree, Stored
  <2> QED BY <1>2, <1>3, <1>5, <2>3, <2>4, <2>5 DEF TabInv, InStep
<1>7. CASE AnswerError(q) \/ Lose(q)
  <2>1. state' = state /\ doubt' = Monitors
    BY <1>1, <1>7 DEF AnswerError, Lose, Reads, TabInv, Loading, ServerTyped
  <2>2. IsState(state') /\ Refers'
    BY <1>2, <2>1 DEF TabInv, Refers, Known, Familiar, ServerTyped
  <2> QED BY <1>2, <1>3, <1>5, <2>1, <2>2 DEF TabInv
<1> QED BY <1>6, <1>7

-----------------------------------------------------------------------------
(* Every step. *)

(* Nothing of the tab or of the store changes that the invariant is about. *)
LEMMA StillStep ==
  ASSUME TabInv, state' = state, flight' = flight, loaded' = loaded, doubt' = doubt, store' = store,
         issued' = issued
  PROVE  TabInv'
<1>1. /\ ServerTyped' <=> ServerTyped
      /\ Apart' <=> Apart
      /\ loading' <=> loading
      /\ Refers' <=> Refers
      /\ \A q \in Requests : /\ IsAbout(q)' <=> IsAbout(q)
                             /\ Loading(q)' <=> Loading(q)
  BY DEF ServerTyped, Stored, Apart, loading, Asked, Pending, Conflict, Familiar, Refers, IsAbout,
         Loading, Known
<1>2. \A m \in Monitors : InStep(m)' <=> InStep(m)
  BY DEF InStep, Done, Ahead, Agree, Pending, Known
<1> QED BY <1>1, <1>2 DEF TabInv

(* A measurement that arrives changes a list, if its monitor is there. *)
LEMMA DeliverStep ==
  ASSUME TabInv, Deliver
  PROVE  TabInv'
<1>1. /\ \E m, row : state' = pollAction(m, row)
      /\ flight' = flight /\ loaded' = loaded /\ doubt' = doubt /\ store' = store /\ issued' = issued
  BY DEF Deliver, serverVars
<1>2. PICK m, row : state' = pollAction(m, row)
  BY <1>1
<1>3. CASE m \notin Known
  BY <1>1, <1>2, <1>3, StillStep DEF pollAction
<1>4. CASE m \in Known
  <2>1. \E list : state' = WithList(m, list)
    BY <1>2, <1>4 DEF pollAction
  <2>2. PICK list : state' = WithList(m, list)
    BY <2>1
  <2>3. PICK s : s = state'
    OBVIOUS
  <2>4. /\ IsState(s) /\ DOMAIN s.monitors = Known
        /\ \A n \in Known : s.monitors[n].active = state.monitors[n].active
        /\ s.selected = state.selected /\ s.deleting = state.deleting /\ s.pane = state.pane
    BY <1>4, <2>2, <2>3, StateFacts, WithListFacts
  <2>5. ~ loading
    BY <1>4 DEF TabInv, Loading, loading
  <2>6. Known' = Known
    BY <2>3, <2>4 DEF Known
  <2> QED BY <1>1, <2>3, <2>4, <2>5, <2>6, StateFacts, MoveStep
<1> QED BY <1>3, <1>4

(* When the tab is opened it loads what is stored. *)
LEMMA TabInitially == Init => TabInv
<1> SUFFICES ASSUME Init PROVE TabInv
  OBVIOUS
<1>1. PICK q \in Requests :
        flight = [p \in Requests |-> IF p = q THEN Closure("load", Monitors) ELSE NoRequest]
  BY DEF Init
<1>2. /\ state = [monitors |-> <<>>, selected |-> {}, deleting |-> {}, pane |-> Pane("none")]
      /\ loaded = <<>> /\ doubt = {} /\ store \in [Monitors -> FirstActive \cup {None}]
      /\ issued = {m \in Monitors : store[m] # None}
  BY DEF Init, resetAction
<1>3. PICK f : f = Closure("load", Monitors)
  OBVIOUS
<1>4. IsRequest(f) /\ f.op = "load" /\ f.at = "asked" /\ f.about = Monitors
  <2>1. "load" \in Ops \ {"prune"} /\ Monitors \in SUBSET Monitors
    BY DEF Ops
  <2>2. PICK active \in BOOLEAN : active = TRUE
    OBVIOUS
  <2>3. f = Closure("load", Monitors) \/ f = [Closure("load", Monitors) EXCEPT !.active = active]
    BY <1>3
  <2> HIDE DEF Closure
  <2> QED BY <2>1, <2>3, ClosureFacts
<1>5. /\ flight = [p \in Requests |-> flight[p]] /\ flight[q] = f
      /\ \A p \in Requests \ {q} : flight[p] = NoRequest
      /\ \A p \in Requests : IsRequest(flight[p])
  BY <1>1, <1>3, <1>4, NoRequestIs
<1>6. /\ \A p \in Requests : Pending(p) <=> p = q
      /\ loading
  BY <1>4, <1>5, NoRequestIs DEF Pending, loading, Asked
<1>7. /\ IsPane(Pane("none")) /\ ~ Shows(Pane("none"), Monitors)
      /\ {} \in SUBSET Objects /\ {} \in SUBSET Monitors /\ {} \subseteq Monitors
  BY PanesAre
<1>8. /\ IsState(state) /\ state.monitors = <<>> /\ state.selected = {} /\ state.deleting = {}
      /\ state.pane = Pane("none")
  BY <1>2, <1>7, EmptyTable, StateOf
<1>9. Known = {} /\ Refers
  BY <1>7, <1>8, EmptyTable DEF Known, Refers, Ids
<1>10. ServerTyped
  BY <1>2, EmptyTable, InventoryAssumption DEF ServerTyped, Stored
<1>11. \A p \in Requests : IsAbout(p) /\ Loading(p)
  BY <1>4, <1>5, <1>6, <1>8, <1>9 DEF IsAbout, Loading, Asked
<1>12. Apart
  BY <1>6 DEF Apart
<1> QED BY <1>5, <1>6, <1>8, <1>9, <1>10, <1>11, <1>12 DEF TabInv

(* Every step keeps the invariant. *)
LEMMA TabStep == TabInv /\ [Next]_vars => TabInv'
<1> SUFFICES ASSUME TabInv, [Next]_vars PROVE TabInv'
  OBVIOUS
<1>1. CASE UNCHANGED vars
  BY <1>1, StillStep DEF vars, clientVars, serverVars
<1>2. CASE User
  BY <1>2, UserStep, AsksStep DEF User
<1>3. CASE Server
  <2>1. ASSUME NEW m \in Monitors, Measure(m) PROVE TabInv'
    BY <2>1, StillStep DEF Measure, clientVars
  <2> QED BY <1>3, <2>1, HandlerStep DEF Server
<1>4. CASE Arrival
  <2>1. CASE Subscribe \/ LoseFeed
    BY <2>1, StillStep DEF Subscribe, LoseFeed, clientVars, serverVars
  <2>2. CASE Deliver
    BY <2>2, DeliverStep
  <2>3. ASSUME NEW q \in Requests, AnswerLoad(q) PROVE TabInv'
    <3>1. flight[q].op = "load"
      BY <2>3 DEF AnswerLoad, Answered, Asked
    <3> QED BY <2>3, <3>1, LoadedStep
  <2>4. ASSUME NEW q \in Requests, AnswerError(q) \/ Lose(q) PROVE TabInv'
    BY <2>4, LoadedStep, FailedStep
  <2> QED BY <1>4, <2>1, <2>2, <2>3, <2>4, DeletedStep, ToggledStep, SavedStep, ReadsStep DEF Arrival
<1> QED BY <1>1, <1>2, <1>3, <1>4 DEF Next

(* The invariant always holds. *)
THEOREM TabAlways == Spec => []TabInv
BY TabInitially, TabStep, PTL DEF Spec

(* Whatever the user does, and whatever is answered, lost or fed in between, nothing in the tab
   refers to a monitor that it does not have, unless requests about that monitor met or failed. *)
THEOREM ReferencesAlwaysKnown == Spec => []ReferencesKnown
<1>1. TabInv => ReferencesKnown
  <2> SUFFICES ASSUME TabInv PROVE ReferencesKnown
    OBVIOUS
  <2>1. SelectionKnown
    BY StateFacts DEF SelectionKnown, Familiar
  <2>2. SplitInInventory
    BY StateFacts, PaneFacts DEF SplitInInventory, Shows, Familiar
  <2> QED BY <2>1, <2>2 DEF ReferencesKnown
<1> QED BY <1>1, TabAlways, PTL

(* However requests, answers and failures are interleaved, a monitor that no request is about is
   shown if and only if it is stored, with the active state it is stored with. *)
THEOREM InventoryAlwaysAgrees == Spec => []InventoryAgrees
<1>1. TabInv => InventoryAgrees
  <2> SUFFICES ASSUME TabInv, NEW m \in Monitors \ doubt,
                      \A q \in Requests : ~ (Pending(q) /\ flight[q].op \notin Reads /\ m \in flight[q].about)
               PROVE  Agree(m)
    BY DEF InventoryAgrees, Agree
  <2>1. ~ loading
    BY DEF TabInv, Loading, loading, Asked, Reads
  <2>2. InStep(m)
    BY <2>1 DEF TabInv
  <2> QED BY <2>2 DEF InStep, Done
<1> QED BY <1>1, TabAlways, PTL

(* A set of numbers that is not empty has a least one. *)
LEMMA LeastOf ==
  ASSUME NEW T \in SUBSET Nat, T # {}
  PROVE  \E x \in T : \A y \in T : x <= y
<1>1. PICK R : R = OpToRel(<, Nat)
  OBVIOUS
<1>2. \A x, y \in Nat : y < x => <<y, x>> \in R
  BY <1>1 DEF OpToRel
<1>3. IsWellFoundedOn(R, Nat)
  BY <1>1, NatLessThanWellFounded
<1>4. \E x \in T : \A y \in T : ~ (<<y, x>> \in R)
  BY <1>3, WFMin
<1>5. PICK x \in T : \A y \in T : ~ (<<y, x>> \in R)
  BY <1>4
<1>6. \A y \in T : x \in Nat /\ y \in Nat
  OBVIOUS
<1>7. \A y \in T : ~ (y < x)
  BY <1>2, <1>5, <1>6
<1>8. \A y \in T : x <= y
  BY <1>6, <1>7
<1> QED BY <1>8

Numbering(S, f) == f \in [1 .. Cardinality(S) -> S] /\ Increases(f)

(* The elements of a finite set of numbers can be put in order. *)
LEMMA OrderExists ==
  ASSUME NEW S \in SUBSET Nat, IsFiniteSet(S)
  PROVE  \E f : Numbering(S, f)
<1> DEFINE Fails(n) == \E T \in SUBSET Nat : IsFiniteSet(T) /\ Cardinality(T) = n /\ ~ \E f : Numbering(T, f)
           Bad == {n \in Nat : Fails(n)}
<1>1. ASSUME Bad # {} PROVE FALSE
  <2>1. PICK n \in Bad : \A k \in Bad : n <= k
    BY <1>1, LeastOf
  <2>2. PICK T \in SUBSET Nat : IsFiniteSet(T) /\ Cardinality(T) = n /\ ~ \E f : Numbering(T, f)
    BY <2>1
  <2>3. T # {}
    <3>1. SUFFICES ASSUME T = {} PROVE FALSE
      OBVIOUS
    <3>2. Cardinality(T) = 0
      BY <3>1, FS_EmptySet
    <3>3. [i \in 1 .. 0 |-> i] \in [1 .. 0 -> T] /\ Increases([i \in 1 .. 0 |-> i])
      BY DEF Increases
    <3>4. Numbering(T, [i \in 1 .. 0 |-> i])
      BY <3>2, <3>3 DEF Numbering
    <3> QED BY <2>2, <3>4
  <2>4. PICK x \in T : \A y \in T : x <= y
    BY <2>3, LeastOf
  <2>5. PICK U : U = T \ {x}
    OBVIOUS
  <2>6. IsFiniteSet(U) /\ Cardinality(U) = n - 1
    BY <2>2, <2>5, FS_RemoveElement
  <2>7. n \in Nat /\ n - 1 \in Nat /\ n - 1 < n
    BY <2>6, FS_CardinalityType, <2>1
  <2>8. n - 1 \notin Bad
    BY <2>1, <2>7
  <2>9. PICK f : Numbering(U, f)
    BY <2>2, <2>5, <2>6, <2>7, <2>8
  <2>10. f \in [1 .. n - 1 -> U] /\ Increases(f)
    BY <2>6, <2>9 DEF Numbering
  <2>11. PICK g : g = [i \in 1 .. n |-> IF i = 1 THEN x ELSE f[i - 1]]
    OBVIOUS
  <2>12. \A i \in 1 .. n : i # 1 => i - 1 \in 1 .. n - 1 /\ f[i - 1] \in U
    BY <2>7, <2>10
  <2>13. g \in [1 .. n -> T]
    BY <2>4, <2>5, <2>11, <2>12
  <2>14. ASSUME NEW i \in 1 .. n, NEW j \in 1 .. n, i < j PROVE g[i] < g[j]
    <3>1. j # 1 /\ g[j] = f[j - 1] /\ f[j - 1] \in T \ {x}
      BY <2>5, <2>7, <2>11, <2>12, <2>14
    <3>2. CASE i = 1
      <4>1. g[i] = x /\ x \in Nat /\ f[j - 1] \in Nat /\ x <= f[j - 1] /\ f[j - 1] # x
        BY <2>2, <2>4, <2>11, <3>1, <3>2
      <4> QED BY <3>1, <4>1
    <3>3. CASE i # 1
      <4>1. i - 1 \in DOMAIN f /\ j - 1 \in DOMAIN f /\ i - 1 < j - 1
        BY <2>7, <2>10, <2>14, <3>1, <3>3
      <4>2. f[i - 1] < f[j - 1]
        BY <2>10, <4>1 DEF Increases
      <4> QED BY <2>11, <3>1, <3>3, <4>2
    <3> QED BY <3>2, <3>3
  <2>15. Increases(g)
    BY <2>13, <2>14 DEF Increases
  <2> QED BY <2>2, <2>13, <2>15 DEF Numbering
<1>2. Cardinality(S) \in Nat
  BY FS_CardinalityType
<1> QED BY <1>1, <1>2

(* InOrder lists the elements of a finite set of numbers, each of them once. *)
LEMMA InOrderFacts ==
  ASSUME NEW S \in SUBSET Nat, IsFiniteSet(S)
  PROVE  /\ InOrder(S) \in [1 .. Cardinality(S) -> S] /\ Cardinality(S) \in Nat
         /\ Increases(InOrder(S))
         /\ \A x \in S : \E i \in 1 .. Cardinality(S) : InOrder(S)[i] = x
<1>1. \E f \in [1 .. Cardinality(S) -> S] : Increases(f)
  BY OrderExists DEF Numbering
<1>2. PICK f : f = InOrder(S)
  OBVIOUS
<1>3. f \in [1 .. Cardinality(S) -> S] /\ Increases(f)
  BY <1>1, <1>2 DEF InOrder
<1>4. Cardinality(S) \in Nat
  BY FS_CardinalityType
<1>6. f \in Injection(1 .. Cardinality(S), S)
  <2>1. \A i, j \in 1 .. Cardinality(S) : f[i] \in Nat /\ f[j] \in Nat
    BY <1>3
  <2>2. \A i, j \in 1 .. Cardinality(S) : f[i] = f[j] => i = j
    BY <1>3, <1>4, <2>1 DEF Increases
  <2> QED BY <1>3, <2>2 DEF Injection, IsInjective
<1>7. Cardinality(1 .. Cardinality(S)) = Cardinality(S)
  BY <1>4, FS_Interval
<1>8. f \in Surjection(1 .. Cardinality(S), S)
  BY <1>6, <1>7, FS_Injection
<1>9. \A x \in S : \E i \in 1 .. Cardinality(S) : f[i] = x
  BY <1>8 DEF Surjection
<1> QED BY <1>2, <1>3, <1>4, <1>9

(* What increases step by step increases by as much as the steps there are. *)
LEMMA Spread ==
  ASSUME NEW n \in Nat, NEW f \in [1 .. n -> Nat], Increases(f),
         NEW i \in 1 .. n, NEW j \in 1 .. n, i <= j
  PROVE  f[i] + (j - i) <= f[j]
<1> DEFINE Bad == {k \in Nat : i + k <= n /\ f[i + k] < f[i] + k}
<1>1. ASSUME Bad # {} PROVE FALSE
  <2>1. PICK k \in Bad : \A l \in Bad : k <= l
    BY <1>1, LeastOf
  <2>2. k \in Nat /\ i + k <= n /\ f[i + k] < f[i] + k /\ i \in Nat
    BY <2>1
  <2>3. k # 0
    BY <2>2
  <2>4. k - 1 \notin Bad
    BY <2>1, <2>2, <2>3
  <2>5. k - 1 \in Nat /\ i + k \in 1 .. n /\ i + (k - 1) \in 1 .. n /\ i + (k - 1) < i + k
    BY <2>2, <2>3
  <2>6. f[i + (k - 1)] < f[i + k]
    BY <2>5 DEF Increases
  <2>7. ~ (f[i + (k - 1)] < f[i] + (k - 1))
    BY <2>4, <2>5
  <2>8. f[i] \in Nat /\ f[i + k] \in Nat /\ f[i + (k - 1)] \in Nat
    BY <2>5
  <2> QED BY <2>2, <2>5, <2>6, <2>7, <2>8
<1>2. j - i \in Nat /\ i + (j - i) = j /\ j - i \notin Bad
  BY <1>1
<1>3. f[i] \in Nat /\ f[j] \in Nat
  OBVIOUS
<1> QED BY <1>2, <1>3
-----------------------------------------------------------------------------
(* The lists. *)

(* A list of a monitor of whose measurements those of exist are there, when the last one of all
   is last, the last n of all are on their way, and lost is what the feed did not bring.  It is in
   order; it lacks what is lost, what comes, and what is older than all that it has; what comes
   is there or newer than all that it has; and what it has of what comes it has at its end. *)
Right(list, exist, lost, n, last) ==
  /\ list \in Seq(1 .. last) /\ Len(list) <= MaxMeasurements
  /\ \A i, j \in 1 .. Len(list) : i < j /\ list[i] \in exist /\ list[j] \in exist => list[i] < list[j]
  /\ \A r \in exist :
       \/ (\E i \in 1 .. Len(list) : list[i] = r) \/ r \in lost
       \/ r > last - n
       \/ \A i \in 1 .. Len(list) : list[i] \in exist => r < list[i]
  /\ \A r \in exist : r > last - n =>
       \/ \E i \in 1 .. Len(list) : list[i] = r
       \/ \A i \in 1 .. Len(list) : list[i] \in exist => list[i] < r
  /\ \A i \in 1 .. Len(list) :
       list[i] > last - n => (Len(list) - i) + (list[i] - (last - n)) <= Backlog

(* Measurements are deleted. *)
LEMMA RightWithFewer ==
  ASSUME NEW list, NEW exist, NEW lost, NEW n, NEW last, Right(list, exist, lost, n, last),
         NEW fewer \in SUBSET exist
  PROVE  Right(list, fewer, lost, n, last)
BY DEF Right

(* A list of nothing. *)
LEMMA RightEmpty ==
  ASSUME NEW exist, NEW lost, NEW n, NEW last \in Nat
  PROVE  Right(<<>>, exist, lost, n, last)
<1>1. <<>> \in Seq(1 .. last)
  OBVIOUS
<1>2. Len(<<>>) = 0 /\ 0 <= MaxMeasurements
  BY InventoryAssumption
<1> QED BY <1>1, <1>2 DEF Right

(* A measurement comes that is of another monitor, or too early. *)
LEMMA RightAfterOther ==
  ASSUME NEW list, NEW last \in Nat, NEW exist \in SUBSET (1 .. last), NEW lost, NEW n \in 1 .. last,
         Right(list, exist, lost, n, last), NEW more, lost \subseteq more,
         last - n + 1 \in exist => last - n + 1 \in more
  PROVE  Right(list, exist, more, n - 1, last)
<1>1. \A i \in 1 .. Len(list) : list[i] \in 1 .. last
  BY DEF Right
<1>2. \A r \in exist : r \in Nat
  OBVIOUS
<1>3. Len(list) \in Nat
  BY DEF Right
<1>4. ASSUME NEW r \in exist
      PROVE  \/ (\E i \in 1 .. Len(list) : list[i] = r) \/ r \in more
             \/ r > last - (n - 1)
             \/ \A i \in 1 .. Len(list) : list[i] \in exist => r < list[i]
  <2>1. CASE r > last - n
    BY <1>2, <2>1
  <2>2. CASE ~ (r > last - n)
    BY <2>2 DEF Right
  <2> QED BY <2>1, <2>2
<1>5. \A r \in exist : r > last - (n - 1) => r > last - n
  BY <1>2
<1>6. ASSUME NEW i \in 1 .. Len(list), list[i] > last - (n - 1)
      PROVE  (Len(list) - i) + (list[i] - (last - (n - 1))) <= Backlog
  <2>1. list[i] > last - n
    BY <1>1, <1>6
  <2>2. (Len(list) - i) + (list[i] - (last - n)) <= Backlog
    BY <2>1 DEF Right
  <2> QED BY <1>1, <1>3, <2>2, InventoryAssumption
<1> QED BY <1>4, <1>5, <1>6 DEF Right

(* A measurement is stored, and sent or lost. *)
LEMMA RightAfterNew ==
  ASSUME NEW list, NEW last \in Nat, NEW exist \in SUBSET (1 .. last), NEW lost, NEW n \in 0 .. last,
         Right(list, exist, lost, n, last), NEW exist2 \in SUBSET (exist \cup {last + 1}),
         NEW lost2, NEW n2,
         \/ n2 = n + 1 /\ lost2 = lost
         \/ n2 = 0 /\ n = 0 /\ lost2 = lost \cup {last + 1}
  PROVE  Right(list, exist2, lost2, n2, last + 1)
<1>1. /\ Len(list) \in Nat /\ list \in Seq(1 .. last)
      /\ \A i \in 1 .. Len(list) : list[i] \in 1 .. last
  BY DEF Right
<1>2. list \in Seq(1 .. (last + 1))
  BY <1>1
<1>3. \A i \in 1 .. Len(list) : list[i] < last + 1 /\ (list[i] \in exist2 => list[i] \in exist)
  BY <1>1
<1>4. (last + 1) - n2 = last - n \/ (n = 0 /\ n2 = 0)
  OBVIOUS
<1>5. ASSUME NEW r \in exist2
      PROVE  \/ (\E i \in 1 .. Len(list) : list[i] = r) \/ r \in lost2
             \/ r > (last + 1) - n2
             \/ \A i \in 1 .. Len(list) : list[i] \in exist2 => r < list[i]
  <2>1. CASE r = last + 1
    BY <2>1
  <2>2. CASE r \in exist
    <3>1. r <= last
      BY <2>2
    <3>2. r > last - n => r > (last + 1) - n2
      BY <1>4, <3>1
    <3> QED BY <1>3, <2>2, <3>2 DEF Right
  <2> QED BY <2>1, <2>2
<1>6. ASSUME NEW r \in exist2, r > (last + 1) - n2
      PROVE  \/ \E i \in 1 .. Len(list) : list[i] = r
             \/ \A i \in 1 .. Len(list) : list[i] \in exist2 => list[i] < r
  <2>1. CASE r = last + 1
    BY <1>3, <2>1
  <2>2. CASE r \in exist
    <3>1. r > last - n
      BY <1>4, <1>6, <2>2
    <3> QED BY <1>3, <2>2, <3>1 DEF Right
  <2> QED BY <2>1, <2>2
<1>7. ASSUME NEW i \in 1 .. Len(list), list[i] > (last + 1) - n2
      PROVE  (Len(list) - i) + (list[i] - ((last + 1) - n2)) <= Backlog
  <2>1. n2 = n + 1
    BY <1>3, <1>7, <1>1
  <2> QED BY <1>4, <1>7, <2>1 DEF Right
<1> QED BY <1>2, <1>3, <1>5, <1>6, <1>7 DEF Right

(* What is on its way is lost. *)
LEMMA RightAfterLoss ==
  ASSUME NEW list, NEW last \in Nat, NEW exist \in SUBSET (1 .. last), NEW lost, NEW n \in 0 .. last,
         Right(list, exist, lost, n, last), NEW more, lost \subseteq more,
         \A r \in 1 .. last : r > last - n => r \in more
  PROVE  Right(list, exist, more, 0, last)
<1>1. \A i \in 1 .. Len(list) : list[i] \in 1 .. last
  BY DEF Right
<1>2. ASSUME NEW r \in exist
      PROVE  \/ (\E i \in 1 .. Len(list) : list[i] = r) \/ r \in more
             \/ r > last - 0
             \/ \A i \in 1 .. Len(list) : list[i] \in exist => r < list[i]
  <2>1. r > last - n => r \in more
    OBVIOUS
  <2> QED BY <2>1 DEF Right
<1>3. \A r \in 1 .. last : ~ (r > last - 0)
  OBVIOUS
<1> QED BY <1>1, <1>2, <1>3 DEF Right

(* What is in a sequence is at one of its places. *)
LEMMA PlacesOf ==
  ASSUME NEW S, NEW s \in Seq(S)
  PROVE  /\ Len(s) \in Nat /\ \A i \in 1 .. Len(s) : s[i] \in S
         /\ DOMAIN s = 1 .. Len(s)
         /\ \A x : x \in ToSet(s) <=> \E i \in 1 .. Len(s) : s[i] = x
<1>1. Len(s) \in Nat /\ DOMAIN s = 1 .. Len(s) /\ \A i \in 1 .. Len(s) : s[i] \in S
  OBVIOUS
<1>2. ToSet(s) = {s[i] : i \in DOMAIN s}
  BY DEF ToSet
<1> QED BY <1>1, <1>2

(* A list that is full is cut to its newest inventoryBatchSize measurements. *)
LEMMA TrimFacts ==
  ASSUME NEW last \in Nat, NEW list \in Seq(1 .. last), Len(list) <= MaxMeasurements
  PROVE  \E d \in Nat :
           /\ d = 0 \/ (Len(list) = MaxMeasurements /\ d = Len(list) - BatchSize)
           /\ Trim(list) \in Seq(1 .. last) /\ Len(Trim(list)) = Len(list) - d
           /\ Len(Trim(list)) < MaxMeasurements
           /\ \A i \in 1 .. Len(list) - d : Trim(list)[i] = list[i + d]
<1>1. /\ BatchSize \in Nat /\ BatchSize > 0 /\ MaxMeasurements \in Nat /\ BatchSize < MaxMeasurements
      /\ Len(list) \in Nat
  BY InventoryAssumption
<1>2. CASE Len(list) < MaxMeasurements
  <2>1. Trim(list) = list
    BY <1>1, <1>2 DEF Trim
  <2>2. PICK d \in Nat : d = 0
    OBVIOUS
  <2>3. Len(list) - d = Len(list) /\ \A i \in 1 .. Len(list) : list[i + d] = list[i]
    BY <1>1, <2>2
  <2> QED BY <1>1, <1>2, <2>1, <2>2, <2>3
<1>3. CASE Len(list) = MaxMeasurements
  <2>1. ChunkSize = MaxMeasurements - BatchSize
    BY <1>1 DEF ChunkSize
  <2>2. Trim(list) = SubSeq(list, (MaxMeasurements - BatchSize) + 1, Len(list))
    BY <1>1, <1>3, <2>1 DEF Trim
  <2>3. PICK d \in Nat : d = MaxMeasurements - BatchSize
    BY <1>1
  <2>4. Trim(list) = SubSeq(list, d + 1, Len(list)) /\ d + 1 \in 1 .. Len(list)
    BY <1>1, <1>3, <2>2, <2>3
  <2>5. Trim(list) \in Seq(1 .. last) /\ Len(Trim(list)) = Len(list) - d
        /\ \A i \in 1 .. Len(list) - d : Trim(list)[i] = list[i + d]
    BY <1>1, <2>4
  <2>6. d = Len(list) - BatchSize /\ Len(list) - d < MaxMeasurements
    BY <1>1, <1>3, <2>3
  <2> QED BY <1>3, <2>5, <2>6
<1>4. Len(list) < MaxMeasurements \/ Len(list) = MaxMeasurements
  BY <1>1
<1> QED BY <1>2, <1>3, <1>4

(* A measurement of the monitor comes. *)
LEMMA RightAfterRow ==
  ASSUME NEW list, NEW last \in Nat, NEW exist \in SUBSET (1 .. last), NEW lost, NEW n \in 1 .. last,
         Right(list, exist, lost, n, last), NEW row, row = last - n + 1, NEW next,
         next = IF row \in ToSet(Trim(list)) THEN Trim(list) ELSE Append(Trim(list), row)
  PROVE  /\ Right(next, exist, lost, n - 1, last)
         /\ \A i \in 1 .. Len(list) :
              \/ list[i] \in ToSet(next)
              \/ Len(list) = MaxMeasurements /\ i <= Len(list) - BatchSize
<1>1. list \in Seq(1 .. last) /\ Len(list) <= MaxMeasurements /\ Len(list) \in Nat
      /\ \A i \in 1 .. Len(list) : list[i] \in 1 .. last
  BY DEF Right
<1>2. PICK d \in Nat :
        /\ d = 0 \/ (Len(list) = MaxMeasurements /\ d = Len(list) - BatchSize)
        /\ Trim(list) \in Seq(1 .. last) /\ Len(Trim(list)) = Len(list) - d
        /\ Len(Trim(list)) < MaxMeasurements
        /\ \A i \in 1 .. Len(list) - d : Trim(list)[i] = list[i + d]
  BY <1>1, TrimFacts
<1>3. PICK kept : kept = Trim(list)
  OBVIOUS
<1>4. PICK k \in Nat : k = Len(kept)
  BY <1>1, <1>2, <1>3
<1>5. /\ kept \in Seq(1 .. last) /\ k = Len(list) - d /\ k < MaxMeasurements
      /\ \A i \in 1 .. k : kept[i] = list[i + d]
      /\ row \in 1 .. last
  BY <1>2, <1>3, <1>4
<1>6. \A i \in 1 .. k : i + d \in 1 .. Len(list)
  BY <1>1, <1>5
<1>7. \A i \in 1 .. Len(list) : i > d => i - d \in 1 .. k /\ kept[i - d] = list[i]
  <2> SUFFICES ASSUME NEW i \in 1 .. Len(list), i > d
               PROVE  i - d \in 1 .. k /\ kept[i - d] = list[i]
    OBVIOUS
  <2>1. i - d \in 1 .. k /\ (i - d) + d = i
    BY <1>1, <1>5
  <2> QED BY <1>5, <2>1
<1>8. \E l \in Nat :
        /\ next \in Seq(1 .. last) /\ l = Len(next) /\ l <= MaxMeasurements /\ l \in {k, k + 1}
        /\ \A i \in 1 .. k : next[i] = list[i + d]
        /\ \E i \in 1 .. l : next[i] = row
        /\ l = k + 1 => next[l] = row /\ \A i \in 1 .. k : list[i + d] # row
  <2> kept \in Seq(1 .. last) /\ row \in 1 .. last
    BY <1>5
  <2>1. row \in ToSet(kept) <=> \E i \in 1 .. k : kept[i] = row
    <3>1. \A x : x \in ToSet(kept) <=> \E i \in 1 .. Len(kept) : kept[i] = x
      BY PlacesOf
    <3> QED BY <1>4, <3>1
  <2>2. CASE row \in ToSet(kept)
    <3>1. next = kept /\ \E i \in 1 .. k : next[i] = row
      BY <1>3, <2>1, <2>2
    <3>2. k <= MaxMeasurements /\ k # k + 1
      BY <1>5, InventoryAssumption
    <3> QED BY <1>4, <1>5, <3>1, <3>2
  <2>3. CASE row \notin ToSet(kept)
    <3>1. next = Append(kept, row)
      BY <1>3, <2>3
    <3>2. /\ next \in Seq(1 .. last) /\ Len(next) = k + 1 /\ next[k + 1] = row
          /\ \A i \in 1 .. k : next[i] = kept[i]
      BY ONLY <1>4, <3>1, kept \in Seq(1 .. last), row \in 1 .. last
    <3>3. k + 1 \in Nat /\ k + 1 <= MaxMeasurements /\ k + 1 \in 1 .. k + 1
      BY <1>5, InventoryAssumption
    <3> QED BY <1>5, <2>1, <2>3, <3>2, <3>3
  <2> QED BY <2>2, <2>3
<1>9. PICK l \in Nat :
        /\ next \in Seq(1 .. last) /\ l = Len(next) /\ l <= MaxMeasurements /\ l \in {k, k + 1}
        /\ \A i \in 1 .. k : next[i] = list[i + d]
        /\ \E i \in 1 .. l : next[i] = row
        /\ l = k + 1 => next[l] = row /\ \A i \in 1 .. k : list[i + d] # row
  BY <1>8
<1>10. \A i \in 1 .. Len(list) : i > d => i - d \in 1 .. l /\ next[i - d] = list[i]
  <2> SUFFICES ASSUME NEW i \in 1 .. Len(list), i > d
               PROVE  i - d \in 1 .. l /\ next[i - d] = list[i]
    OBVIOUS
  <2>1. i - d \in 1 .. k /\ (i - d) + d = i
    BY <1>1, <1>5
  <2>2. i - d \in 1 .. l
    BY <1>9, <2>1
  <2> QED BY <1>9, <2>1, <2>2
(* What is still to come is not cut off. *)
<1>11. ASSUME NEW i \in 1 .. Len(list), list[i] > last - n
       PROVE  i > d
  <2>1. (Len(list) - i) + (list[i] - (last - n)) <= Backlog
    BY <1>11 DEF Right
  <2>2. Backlog <= BatchSize /\ Backlog \in Nat /\ BatchSize \in Nat
    BY InventoryAssumption
  <2> QED BY <1>1, <1>2, <1>11, <2>1, <2>2
<1>12. ASSUME l = k + 1, row \in exist
       PROVE  \A i \in 1 .. Len(list) : list[i] \in exist => list[i] < row
  <2>1. row > last - n
    OBVIOUS
  <2>2. ASSUME NEW i \in 1 .. Len(list), list[i] = row PROVE FALSE
    <3>1. i > d
      BY <1>11, <2>1, <2>2
    <3>2. i - d \in 1 .. k /\ (i - d) + d = i
      BY <1>1, <1>5, <3>1
    <3> QED BY <1>9, <1>12, <2>2, <3>2
  <2> QED BY <1>12, <2>1, <2>2 DEF Right
<1>13. \A i \in 1 .. l : next[i] \in exist =>
         \/ i \in 1 .. k /\ next[i] = list[i + d] /\ i + d \in 1 .. Len(list)
         \/ i = l /\ l = k + 1 /\ next[i] = row /\ row \in exist
  <2> SUFFICES ASSUME NEW i \in 1 .. l, next[i] \in exist
               PROVE  \/ i \in 1 .. k /\ next[i] = list[i + d] /\ i + d \in 1 .. Len(list)
                      \/ i = l /\ l = k + 1 /\ next[i] = row /\ row \in exist
    OBVIOUS
  <2>1. i \in 1 .. k \/ (i = l /\ l = k + 1)
    <3>1. l = k \/ l = k + 1
      BY <1>9
    <3> QED BY <3>1
  <2>2. CASE i \in 1 .. k
    BY <1>6, <1>9, <2>2
  <2>3. CASE i = l /\ l = k + 1
    BY <1>9, <2>3
  <2> QED BY <2>1, <2>2, <2>3
<1>14. ASSUME NEW i \in 1 .. l, NEW j \in 1 .. l, i < j, next[i] \in exist, next[j] \in exist
       PROVE  next[i] < next[j]
  <2>1. i \in 1 .. k /\ next[i] = list[i + d] /\ i + d \in 1 .. Len(list)
    BY <1>9, <1>13, <1>14
  <2>2. CASE j \in 1 .. k
    <3>1. next[j] = list[j + d] /\ j + d \in 1 .. Len(list) /\ i + d < j + d
      BY <1>6, <1>9, <1>14, <2>2
    <3> QED BY <1>14, <2>1, <3>1 DEF Right
  <2>3. CASE j \notin 1 .. k
    <3>1. l = k + 1 /\ next[j] = row /\ row \in exist
      BY <1>13, <1>14, <2>3
    <3> QED BY <1>12, <1>14, <2>1, <3>1
  <2> QED BY <2>2, <2>3
<1>15. ASSUME NEW r \in exist, NEW i \in 1 .. Len(list), list[i] = r
       PROVE  (\E j \in 1 .. l : next[j] = r) \/ ~ (i > d)
  BY <1>10, <1>15
<1>16. ASSUME NEW r \in exist
       PROVE  \/ (\E i \in 1 .. l : next[i] = r) \/ r \in lost
              \/ r > last - (n - 1)
              \/ \A i \in 1 .. l : next[i] \in exist => r < next[i]
  <2>1. r \in Nat
    OBVIOUS
  <2>2. CASE r = row
    BY <1>9, <2>2
  <2>3. CASE r > last - n /\ r # row
    BY <2>1, <2>3
  <2>4. CASE ~ (r > last - n)
    <3>1. \/ (\E i \in 1 .. Len(list) : list[i] = r) \/ r \in lost
          \/ \A i \in 1 .. Len(list) : list[i] \in exist => r < list[i]
      BY <2>4 DEF Right
    <3>2. r < row
      BY <2>1, <2>4
    <3>3. CASE \A i \in 1 .. Len(list) : list[i] \in exist => r < list[i]
      BY <1>13, <3>2, <3>3
    <3>4. ASSUME NEW i \in 1 .. Len(list), list[i] = r, ~ (i > d)
          PROVE  \A j \in 1 .. l : next[j] \in exist => r < next[j]
      <4>1. \A j \in 1 .. k : i < j + d
        BY <3>4
      <4>2. \A j \in 1 .. k : list[j + d] \in exist => r < list[j + d]
        BY <1>6, <3>4, <4>1 DEF Right
      <4> QED BY <1>13, <3>2, <4>2
    <3> QED BY <1>15, <3>1, <3>3, <3>4
  <2> QED BY <2>2, <2>3, <2>4
<1>17. ASSUME NEW r \in exist, r > last - (n - 1)
       PROVE  \/ \E i \in 1 .. l : next[i] = r
              \/ \A i \in 1 .. l : next[i] \in exist => next[i] < r
  <2>1. r > last - n /\ row < r
    BY <1>17
  <2>2. \/ \E i \in 1 .. Len(list) : list[i] = r
        \/ \A i \in 1 .. Len(list) : list[i] \in exist => list[i] < r
    BY <2>1 DEF Right
  <2>3. ASSUME NEW i \in 1 .. Len(list), list[i] = r
        PROVE  \E j \in 1 .. l : next[j] = r
    BY <1>11, <1>15, <2>1, <2>3
  <2>4. CASE \A i \in 1 .. Len(list) : list[i] \in exist => list[i] < r
    BY <1>13, <2>1, <2>4
  <2> QED BY <2>2, <2>3, <2>4
<1>18. ASSUME NEW i \in 1 .. l, next[i] > last - (n - 1)
       PROVE  (l - i) + (next[i] - (last - (n - 1))) <= Backlog
  <2>1. l <= k + 1 /\ k = Len(list) - d /\ Len(list) \in Nat /\ (i \in 1 .. k \/ (i = k + 1 /\ l = k + 1))
    <3>1. l = k \/ l = k + 1
      BY <1>9
    <3>2. k = Len(list) - d /\ Len(list) \in Nat
      BY <1>1, <1>5
    <3> QED BY ONLY <3>1, <3>2, k \in Nat, l \in Nat, i \in 1 .. l
  <2>2. PICK v : v = next[i]
    OBVIOUS
  <2>3. n \in Nat /\ v > last - (n - 1) /\ Backlog \in Nat
    <3>1. Backlog \in Nat
      BY InventoryAssumption
    <3> QED BY ONLY <1>18, <2>2, <3>1, n \in 1 .. last, last \in Nat
  <2>4. CASE i \in 1 .. k
    <3>1. v = list[i + d] /\ i + d \in 1 .. Len(list)
      BY <1>6, <1>9, <2>2, <2>4
    <3>2. v \in 1 .. last
      BY <1>1, <3>1
    <3>3. v > last - n
      BY ONLY <2>3, <3>2, last \in Nat
    <3>4. (Len(list) - (i + d)) + (v - (last - n)) <= Backlog
      BY <3>1, <3>3 DEF Right
    <3>5. (l - i) + (v - (last - (n - 1))) <= Backlog
      BY ONLY <2>1, <2>3, <3>2, <3>4, last \in Nat, d \in Nat, l \in Nat, k \in Nat, i \in 1 .. l
    <3> QED BY <2>2, <3>5
  <2>5. CASE i \notin 1 .. k
    <3>1. v = row
      BY <1>9, <2>1, <2>2, <2>5
    <3> QED BY ONLY <2>3, <3>1, row = last - n + 1, last \in Nat
  <2> QED BY <2>4, <2>5
<1>19. ASSUME NEW i \in 1 .. Len(list)
       PROVE  \/ list[i] \in ToSet(next)
              \/ Len(list) = MaxMeasurements /\ i <= Len(list) - BatchSize
  <2>1. CASE i > d
    <3>1. \E j \in 1 .. l : next[j] = list[i]
      BY <1>10, <2>1
    <3> QED BY <1>9, <3>1, PlacesOf
  <2>2. CASE ~ (i > d)
    BY <1>1, <1>2, <2>2, InventoryAssumption
  <2> QED BY <2>1, <2>2
<1>20. l = Len(next) /\ next \in Seq(1 .. last) /\ l <= MaxMeasurements
  BY <1>9
<1> QED BY <1>14, <1>16, <1>17, <1>18, <1>19, <1>20 DEF Right

(* The newest measurements are loaded: none of those on their way is among the rest. *)
LEMMA RightAfterLoad ==
  ASSUME NEW last \in Nat, NEW all \in SUBSET (1 .. last), NEW lost, NEW n \in Nat, n <= Backlog, n <= last,
         NEW b \in SUBSET all, Cardinality(b) = Least(BatchSize, Cardinality(all)),
         \A r \in all \ b : r \in Late \/ \A k \in b : r < k
  PROVE  Right(InOrder(b), all \ Late, lost, n, last)
<1>1. /\ BatchSize \in Nat /\ BatchSize > 0 /\ MaxMeasurements \in Nat /\ BatchSize < MaxMeasurements
      /\ Backlog \in Nat /\ Backlog <= BatchSize
  BY InventoryAssumption
<1>2. /\ IsFiniteSet(all) /\ IsFiniteSet(b) /\ b \in SUBSET Nat
      /\ Cardinality(all) \in Nat /\ Cardinality(b) \in Nat
  <2>1. 1 \in Int /\ last \in Int
    OBVIOUS
  <2>2. IsFiniteSet(1 .. last)
    BY <2>1, FS_Interval
  <2>3. IsFiniteSet(all) /\ IsFiniteSet(b)
    BY <2>2, FS_Subset
  <2> QED BY <2>3, FS_CardinalityType
<1>3. PICK f : f = InOrder(b)
  OBVIOUS
<1>4. PICK k \in Nat : k = Cardinality(b)
  BY <1>2
<1>5. f \in [1 .. k -> b] /\ Increases(f) /\ \A x \in b : \E i \in 1 .. k : f[i] = x
  BY <1>2, <1>3, <1>4, InOrderFacts
<1>6. f \in [1 .. k -> 1 .. last] /\ f \in [1 .. k -> Nat]
  <2>1. b \subseteq 1 .. last /\ b \subseteq Nat
    BY <1>2
  <2> QED BY ONLY <1>5, <2>1
<1>7. f \in Seq(1 .. last) /\ Len(f) = k
  BY <1>6
<1>8. k <= BatchSize /\ (k < BatchSize => b = all)
  <2>1. CASE BatchSize < Cardinality(all)
    BY <1>1, <1>4, <2>1 DEF Least
  <2>2. CASE ~ (BatchSize < Cardinality(all))
    <3>1. Cardinality(b) = Cardinality(all)
      BY <2>2 DEF Least
    <3>2. b = all
      BY <1>2, <3>1, FS_Subset
    <3> QED BY <1>1, <1>2, <1>4, <2>2, <3>1, <3>2
  <2> QED BY <2>1, <2>2
<1>9. ASSUME NEW r \in all \ Late, r \notin b PROVE \A i \in 1 .. k : r < f[i]
  BY <1>5, <1>9
<1>10. ASSUME NEW r \in all \ Late, r > last - n PROVE r \in b
  <2> SUFFICES ASSUME r \notin b PROVE FALSE
    OBVIOUS
  <2>1. k = BatchSize
    BY <1>1, <1>8
  <2>2. k \in 1 .. k /\ 1 \in 1 .. k /\ 1 <= k
    BY <1>1, <2>1
  <2>3. f[1] + (k - 1) <= f[k]
    BY <1>5, <1>6, <2>2, Spread
  <2>4. r < f[1] /\ f[k] <= last /\ f[1] \in Nat /\ f[k] \in Nat /\ r \in Nat
    BY <1>6, <1>9, <2>2
  <2> QED BY <1>1, <1>10, <2>1, <2>3, <2>4
<1>11. ASSUME NEW i \in 1 .. k PROVE (k - i) + (f[i] - (last - n)) <= Backlog
  <2>1. k \in 1 .. k /\ i <= k
    OBVIOUS
  <2>2. f[i] + (k - i) <= f[k]
    BY <1>5, <1>6, <2>1, Spread
  <2>3. f[k] <= last /\ f[i] \in Nat /\ f[k] \in Nat
    BY <1>6, <2>1
  <2> QED BY <1>1, <2>2, <2>3
<1>12. \A i, j \in 1 .. k : i < j => f[i] < f[j]
  BY <1>5 DEF Increases
<1>13. Len(f) <= MaxMeasurements
  BY <1>1, <1>7, <1>8
<1>14. \A r \in all \ Late : (\E i \in 1 .. k : f[i] = r) \/ \A i \in 1 .. k : r < f[i]
  BY <1>5, <1>9
<1>15. \A r \in all \ Late : r > last - n => \E i \in 1 .. k : f[i] = r
  BY <1>5, <1>10
<1>16. Right(f, all \ Late, lost, n, last)
  BY <1>7, <1>11, <1>12, <1>13, <1>14, <1>15 DEF Right
<1> QED BY <1>3, <1>16

(* Measurements that are gone are taken from a list. *)
LEMMA RightAfterPrune ==
  ASSUME NEW list, NEW last \in Nat, NEW exist \in SUBSET (1 .. last), NEW lost, NEW n \in 0 .. last,
         Right(list, exist, lost, n, last), NEW ids, ids \cap exist = {}
  PROVE  /\ Right(Without(list, ids), exist, lost, n, last)
         /\ \A i \in 1 .. Len(list) : list[i] \in ids \/ list[i] \in ToSet(Without(list, ids))
<1>1. list \in Seq(1 .. last) /\ Len(list) <= MaxMeasurements
  BY DEF Right
<1>2. PICK l \in Nat : l = Len(list)
  BY <1>1
<1>3. DOMAIN list = 1 .. l /\ \A i \in 1 .. l : list[i] \in 1 .. last
  BY <1>1, <1>2, PlacesOf
<1>4. PICK S : S = {i \in 1 .. l : list[i] \notin ids}
  OBVIOUS
<1>5. S \in SUBSET (1 .. l) /\ S \in SUBSET Nat /\ IsFiniteSet(S)
  <2>1. S \in SUBSET (1 .. l) /\ S \in SUBSET Nat /\ 1 \in Int /\ l \in Int
    BY <1>4
  <2>2. IsFiniteSet(1 .. l)
    BY <2>1, FS_Interval
  <2> QED BY <2>1, <2>2, FS_Subset
<1>6. PICK kept : kept = InOrder(S)
  OBVIOUS
<1>7. PICK k \in Nat : k = Cardinality(S)
  BY <1>5, FS_CardinalityType
<1>8. kept \in [1 .. k -> S] /\ Increases(kept) /\ \A x \in S : \E i \in 1 .. k : kept[i] = x
  BY <1>5, <1>6, <1>7, InOrderFacts
<1>9. kept \in [1 .. k -> Nat] /\ \A i \in 1 .. k : kept[i] \in 1 .. l /\ list[kept[i]] \notin ids
  BY <1>4, <1>5, <1>8
<1>10. PICK new : new = [j \in 1 .. k |-> list[kept[j]]]
  OBVIOUS
<1>11. Without(list, ids) = new
  BY <1>3, <1>4, <1>6, <1>8, <1>10 DEF Without
<1>12. new \in [1 .. k -> 1 .. last] /\ \A j \in 1 .. k : new[j] = list[kept[j]]
  BY <1>3, <1>9, <1>10
<1>13. new \in Seq(1 .. last) /\ Len(new) = k
  BY <1>12
<1>14. ASSUME NEW i \in 1 .. k PROVE kept[i] + (k - i) <= l
  <2>1. k \in 1 .. k /\ i <= k
    OBVIOUS
  <2>2. kept[i] + (k - i) <= kept[k]
    BY <1>8, <1>9, <2>1, Spread
  <2>3. kept[k] <= l /\ kept[i] \in Nat /\ kept[k] \in Nat
    BY <1>9, <2>1
  <2> QED BY <2>2, <2>3
<1>15. k <= MaxMeasurements
  <2>1. CASE k = 0
    BY <2>1, InventoryAssumption
  <2>2. CASE k # 0
    <3>1. 1 \in 1 .. k
      BY <2>2
    <3>2. kept[1] + (k - 1) <= l /\ kept[1] \in 1 .. l
      BY <1>9, <1>14, <3>1
    <3> QED BY <1>1, <1>2, <3>2, InventoryAssumption
  <2> QED BY <2>1, <2>2
<1>16. \A i \in 1 .. l : list[i] \in ids \/ \E j \in 1 .. k : new[j] = list[i]
  BY <1>4, <1>8, <1>12
<1>17. ASSUME NEW i \in 1 .. k, NEW j \in 1 .. k, i < j, new[i] \in exist, new[j] \in exist
       PROVE  new[i] < new[j]
  <2>1. kept[i] < kept[j] /\ kept[i] \in 1 .. l /\ kept[j] \in 1 .. l
    BY <1>8, <1>9, <1>17 DEF Increases
  <2>2. new[i] = list[kept[i]] /\ new[j] = list[kept[j]]
    BY <1>12
  <2> QED BY <1>2, <1>17, <2>1, <2>2 DEF Right
<1>18. ASSUME NEW i \in 1 .. k, new[i] > last - n
       PROVE  (k - i) + (new[i] - (last - n)) <= Backlog
  <2>1. PICK p \in 1 .. l : p = kept[i] /\ new[i] = list[p]
    BY <1>9, <1>12
  <2>2. (l - p) + (list[p] - (last - n)) <= Backlog
    BY <1>2, <1>18, <2>1 DEF Right
  <2>3. p + (k - i) <= l /\ list[p] \in 1 .. last
    BY <1>3, <1>14, <2>1
  <2>4. Backlog \in Nat
    BY InventoryAssumption
  <2> QED BY <2>1, <2>2, <2>3, <2>4
<1>19. ASSUME NEW r \in exist
       PROVE  \/ (\E i \in 1 .. k : new[i] = r) \/ r \in lost
              \/ r > last - n
              \/ \A i \in 1 .. k : new[i] \in exist => r < new[i]
  <2>1. \/ (\E i \in 1 .. l : list[i] = r) \/ r \in lost
        \/ r > last - n
        \/ \A i \in 1 .. l : list[i] \in exist => r < list[i]
    BY <1>2 DEF Right
  <2> QED BY <1>9, <1>12, <1>16, <2>1
<1>20. ASSUME NEW r \in exist, r > last - n
       PROVE  \/ \E i \in 1 .. k : new[i] = r
              \/ \A i \in 1 .. k : new[i] \in exist => new[i] < r
  <2>1. \/ \E i \in 1 .. l : list[i] = r
        \/ \A i \in 1 .. l : list[i] \in exist => list[i] < r
    BY <1>2, <1>20 DEF Right
  <2> QED BY <1>9, <1>12, <1>16, <2>1
<1>21. Right(new, exist, lost, n, last)
  BY <1>13, <1>15, <1>17, <1>18, <1>19, <1>20 DEF Right
<1>22. \A x : x \in ToSet(new) <=> \E j \in 1 .. k : new[j] = x
  BY <1>13, PlacesOf
<1> QED BY <1>2, <1>11, <1>16, <1>21, <1>22

(* The measurements are numbered as they are stored; those on their way are the last ones. *)
Numbers ==
  /\ rows \in Nat /\ asked \in Nat /\ rows + asked <= FirstRows + MaxWork
  /\ measured \in [Monitors -> SUBSET (1 .. rows)] /\ missed \subseteq 1 .. rows

FeedInv ==
  /\ socket \in {"connecting", "open", "lost"} /\ (socket # "open" => feed = <<>>)
  /\ feed \in Seq([monitor : Monitors, row : Nat]) /\ Len(feed) <= Backlog /\ Len(feed) <= rows
  /\ \A i \in 1 .. Len(feed) :
       /\ feed[i].row = (rows - Len(feed)) + i
       /\ \A m \in Monitors \ {feed[i].monitor} : feed[i].row \notin measured[m]

IsRight(m, list) == Right(list, Timely(m), missed, Len(feed), rows)

ListInv ==
  /\ Numbers /\ FeedInv
  /\ \A m \in Known : IsRight(m, state.monitors[m].list)
  /\ \A m \in DOMAIN loaded : IsRight(m, loaded[m].list)

(* What was loaded is there until it is answered. *)
LoadInv == loaded = <<>> \/ \E q \in Requests : Answered(q, "load")

(* A live object is the one that the tab has for its monitor. *)
IsLive(o) == o.live => o.id \in Known

(* What a request is to delete has been stored, and does not exist after it. *)
Prunes(q) ==
  Asked(q, "prune") =>
    /\ IsLive(flight[q].monitor) /\ flight[q].ids \subseteq 1 .. rows
    /\ flight[q].at = "ok" => \A m \in Monitors : flight[q].ids \cap measured[m] = {}

PaneLive == Shows(state.pane, Monitors) => IsLive(state.pane.monitor)

LiveInv ==
  /\ PaneLive
  /\ \A q \in Requests : Prunes(q)

(* A step that leaves the lists as they are. *)
ListsKept ==
  \A m \in Known' : state'.monitors[m].list = IF m \in Known THEN state.monitors[m].list ELSE <<>>

(* A step drops what exists only to make room, and none of the newest. *)
Keeps ==
  \A m \in Known \cap Known' :
    LET list == state.monitors[m].list
    IN \A i \in DOMAIN list :
         \/ list[i] \in ToSet(state'.monitors[m].list)
         \/ list[i] \notin measured[m]
         \/ Len(list) = MaxMeasurements /\ i <= Len(list) - BatchSize

(* What the invariant says of the numbers. *)
LEMMA NumberFacts ==
  ASSUME TabInv, ListInv
  PROVE  /\ rows \in Nat /\ Len(feed) \in 0 .. rows /\ Len(feed) <= Backlog
         /\ Known \subseteq Monitors /\ DOMAIN loaded \subseteq Monitors
         /\ \A m \in Monitors : Timely(m) \in SUBSET (1 .. rows) /\ Timely(m) \subseteq measured[m]
                                /\ measured[m] \in SUBSET (1 .. rows)
<1>1. feed \in Seq([monitor : Monitors, row : Nat])
  BY DEF ListInv, FeedInv
<1>2. Len(feed) \in Nat
  BY <1>1
<1>3. rows \in Nat /\ Len(feed) <= rows /\ Len(feed) <= Backlog
  BY DEF ListInv, FeedInv, Numbers
<1>4. \A m \in Monitors : measured[m] \in SUBSET (1 .. rows)
  BY DEF ListInv, Numbers
<1>5. Known \subseteq Monitors /\ DOMAIN loaded \subseteq Monitors
  BY StateFacts DEF TabInv, ServerTyped, Known
<1> QED BY <1>2, <1>3, <1>4, <1>5 DEF Timely

(* While something is loaded there are no lists. *)
LEMMA LoadedFirst ==
  ASSUME TabInv, LoadInv, loaded # <<>>
  PROVE  Known = {}
BY DEF LoadInv, TabInv, Loading, Answered

(* Where lists are kept, nothing is dropped. *)
LEMMA KeptIsKept ==
  ASSUME TabInv, ListInv, ListsKept
  PROVE  Keeps
<1> SUFFICES ASSUME NEW m \in Known \cap Known', NEW i \in DOMAIN state.monitors[m].list
             PROVE  state.monitors[m].list[i] \in ToSet(state'.monitors[m].list)
  BY DEF Keeps
<1>1. state'.monitors[m].list = state.monitors[m].list
  BY DEF ListsKept
<1> QED BY <1>1 DEF ToSet

(* The lists are what they were or what was loaded, and measurements may have been deleted. *)
LEMMA QuietStep ==
  ASSUME TabInv, ListInv, TabInv',
         rows' = rows, feed' = feed, missed' = missed, socket' \in {socket, "open"},
         asked' \in {asked, asked + 1}, rows + asked' <= FirstRows + MaxWork,
         measured' \in [Monitors -> SUBSET (1 .. rows)],
         \A m \in Monitors : measured'[m] \subseteq measured[m],
         \/ ListsKept
         \/ state'.monitors = loaded,
         loaded' = loaded \/ loaded' = <<>>
  PROVE  ListInv'
<1>1. Numbers'
  BY DEF ListInv, Numbers
<1>2. FeedInv'
  <2>1. FeedInv /\ rows \in Nat
    BY DEF ListInv, Numbers
  <2>2. \A i \in 1 .. Len(feed) :
          /\ feed[i].row = (rows - Len(feed)) + i
          /\ \A m \in Monitors \ {feed[i].monitor} : feed[i].row \notin measured'[m]
    BY <2>1 DEF FeedInv
  <2> QED BY <2>1, <2>2 DEF FeedInv
<1>3. ASSUME NEW m \in Monitors, NEW list, IsRight(m, list)
      PROVE  Right(list, Timely(m)', missed', Len(feed'), rows')
  <2>1. Timely(m)' \in SUBSET Timely(m)
    BY DEF Timely
  <2>2. Right(list, Timely(m), missed, Len(feed), rows)
    BY <1>3 DEF IsRight
  <2>3. Right(list, Timely(m)', missed, Len(feed), rows)
    BY <2>1, <2>2, RightWithFewer
  <2> QED BY <2>3
<1>4. \A m \in Monitors : Right(<<>>, Timely(m)', missed', Len(feed'), rows')
  BY NumberFacts, RightEmpty
<1>5. Known' \subseteq Monitors /\ DOMAIN loaded' \subseteq Monitors
  BY DEF TabInv, ServerTyped, IsState, Known
<1>6. ASSUME NEW m \in Known' PROVE IsRight(m, state.monitors[m].list)'
  <2>1. m \in Monitors
    BY <1>5
  <2>2. CASE ListsKept /\ m \in Known
    <3>1. state'.monitors[m].list = state.monitors[m].list /\ IsRight(m, state.monitors[m].list)
      BY <2>2 DEF ListsKept, ListInv
    <3> QED BY <1>3, <2>1, <3>1 DEF IsRight
  <2>3. CASE ListsKept /\ m \notin Known
    <3>1. state'.monitors[m].list = <<>>
      BY <2>3 DEF ListsKept
    <3> QED BY <1>4, <2>1, <3>1 DEF IsRight
  <2>4. CASE state'.monitors = loaded
    <3>1. m \in DOMAIN loaded /\ state'.monitors[m].list = loaded[m].list
      BY <2>4 DEF Known
    <3>2. IsRight(m, loaded[m].list)
      BY <3>1 DEF ListInv
    <3> QED BY <1>3, <2>1, <3>1, <3>2 DEF IsRight
  <2> QED BY <2>2, <2>3, <2>4
<1>7. ASSUME NEW m \in DOMAIN loaded' PROVE IsRight(m, loaded[m].list)'
  <2>1. m \in Monitors /\ loaded' = loaded
    BY <1>5, <1>7, EmptyTable
  <2>2. IsRight(m, loaded[m].list)
    BY <2>1 DEF ListInv
  <2> QED BY <1>3, <2>1, <2>2 DEF IsRight
<1> QED BY <1>1, <1>2, <1>6, <1>7 DEF ListInv

(* A measurement is stored: it is the last one that comes, or the feed does not bring it. *)
LEMMA MeasureLists ==
  ASSUME TabInv, ListInv, NEW m \in Monitors, Measure(m)
  PROVE  ListInv'
<1>1. /\ HasWork /\ (socket = "open" => Len(feed) < Backlog) /\ rows' = rows + 1
      /\ measured' = [measured EXCEPT ![m] = measured[m] \cup {rows + 1}]
      /\ IF socket = "open"
         THEN feed' = Append(feed, [monitor |-> m, row |-> rows + 1]) /\ missed' = missed
         ELSE feed' = feed /\ missed' = missed \cup {rows + 1}
      /\ socket' = socket /\ state' = state /\ loaded' = loaded /\ asked' = asked
  BY DEF Measure, clientVars
<1>2. /\ rows \in Nat /\ Len(feed) \in 0 .. rows /\ Len(feed) <= Backlog
      /\ Known \subseteq Monitors /\ DOMAIN loaded \subseteq Monitors
  BY NumberFacts
<1>3. Numbers /\ FeedInv
  BY DEF ListInv
<1>4. measured \in [Monitors -> SUBSET (1 .. rows)]
  BY <1>3 DEF Numbers
<1>5. \A k \in Monitors : measured'[k] \subseteq measured[k] \cup {rows + 1}
                          /\ (k # m => measured'[k] = measured[k])
  BY <1>1, <1>4
<1>6. Numbers'
  <2>1. \A k \in Monitors : measured'[k] \in SUBSET (1 .. (rows + 1))
    BY <1>2, <1>4, <1>5
  <2>2. measured' \in [Monitors -> SUBSET (1 .. (rows + 1))]
    BY <1>1, <1>4, <2>1
  <2>3. missed' \subseteq 1 .. (rows + 1)
    <3>1. missed' = missed \/ missed' = missed \cup {rows + 1}
      BY <1>1
    <3>2. missed \subseteq 1 .. rows
      BY <1>3 DEF Numbers
    <3>3. 1 .. rows \subseteq 1 .. (rows + 1) /\ rows + 1 \in 1 .. (rows + 1)
      BY <1>2
    <3> QED BY ONLY <3>1, <3>2, <3>3
  <2>4. (rows + 1) + asked <= FirstRows + MaxWork /\ asked \in Nat /\ rows + 1 \in Nat
    BY <1>1, <1>2, <1>3, InventoryAssumption DEF HasWork, Numbers
  <2> QED BY <1>1, <2>2, <2>3, <2>4 DEF Numbers
<1>7. feed \in Seq([monitor : Monitors, row : Nat])
  BY <1>3 DEF FeedInv
<1>8. CASE socket = "open"
  <2>1. PICK x \in [monitor : Monitors, row : Nat] :
          x = [monitor |-> m, row |-> rows + 1] /\ x.monitor = m /\ x.row = rows + 1
    <3>1. [monitor |-> m, row |-> rows + 1] \in [monitor : Monitors, row : Nat]
      BY <1>2
    <3> QED BY <3>1
  <2>2. PICK n \in Nat : n = Len(feed)
    BY <1>2
  <2>3. feed' = Append(feed, x)
    BY <1>1, <1>8, <2>1
  <2>4. /\ feed' \in Seq([monitor : Monitors, row : Nat]) /\ Len(feed') = n + 1
        /\ feed'[n + 1] = x /\ \A i \in 1 .. n : feed'[i] = feed[i]
    BY <1>7, <2>2, <2>3
  <2>5. n + 1 <= Backlog /\ n + 1 <= rows + 1
    BY <1>1, <1>2, <1>8, <2>2, InventoryAssumption
  <2>6. ASSUME NEW i \in 1 .. n + 1
        PROVE  /\ feed'[i].row = (rows' - Len(feed')) + i
               /\ \A k \in Monitors \ {feed'[i].monitor} : feed'[i].row \notin measured'[k]
    <3>1. CASE i = n + 1
      <4>1. feed'[i].monitor = m /\ feed'[i].row = rows + 1
        BY <2>1, <2>4, <3>1
      <4>2. \A k \in Monitors \ {m} : rows + 1 \notin measured'[k]
        BY <1>2, <1>4, <1>5
      <4> QED BY <1>1, <1>2, <2>2, <2>4, <3>1, <4>1, <4>2
    <3>2. CASE i \in 1 .. n
      <4>1. /\ feed'[i] = feed[i] /\ feed[i].row = (rows - n) + i
            /\ \A k \in Monitors \ {feed[i].monitor} : feed[i].row \notin measured[k]
        BY <1>3, <2>2, <2>4, <3>2 DEF FeedInv
      <4>2. feed[i].row \in 1 .. rows
        BY <1>2, <2>2, <3>2, <4>1
      <4>3. \A k \in Monitors \ {feed[i].monitor} : feed[i].row \notin measured'[k]
        BY <1>2, <1>5, <4>1, <4>2
      <4> QED BY <1>1, <1>2, <2>2, <2>4, <4>1, <4>3
    <3> QED BY <2>2, <3>1, <3>2
  <2>7. FeedInv'
    BY <1>1, <1>8, <2>4, <2>5, <2>6 DEF FeedInv
  <2>8. missed' = missed /\ Len(feed') = Len(feed) + 1
    BY <1>1, <1>8, <2>2, <2>4
  <2>9. ASSUME NEW k \in Monitors, NEW list, IsRight(k, list)
        PROVE  Right(list, Timely(k)', missed', Len(feed'), rows')
    <3>1. Timely(k) \in SUBSET (1 .. rows)
      BY NumberFacts
    <3>2. Timely(k)' \in SUBSET (Timely(k) \cup {rows + 1})
      BY <1>5 DEF Timely
    <3>3. Right(list, Timely(k), missed, Len(feed), rows)
      BY <2>9 DEF IsRight
    <3>4. Right(list, Timely(k)', missed', Len(feed'), rows + 1)
      BY <1>2, <2>8, <3>1, <3>2, <3>3, RightAfterNew
    <3> QED BY <1>1, <3>4
  <2> QED BY <1>1, <1>2, <1>6, <2>7, <2>9 DEF ListInv, IsRight, Known
<1>9. CASE socket # "open"
  <2>1. feed = <<>> /\ feed' = feed /\ missed' = missed \cup {rows + 1}
    BY <1>1, <1>3, <1>9 DEF FeedInv
  <2>2. Len(feed) = 0 /\ Len(feed') = 0
    BY <2>1
  <2>3. FeedInv'
    BY <1>1, <1>2, <1>3, <1>9, <2>1, <2>2 DEF FeedInv
  <2>4. ASSUME NEW k \in Monitors, NEW list, IsRight(k, list)
        PROVE  Right(list, Timely(k)', missed', Len(feed'), rows')
    <3>1. Timely(k) \in SUBSET (1 .. rows)
      BY NumberFacts
    <3>2. Timely(k)' \in SUBSET (Timely(k) \cup {rows + 1})
      BY <1>5 DEF Timely
    <3>3. Right(list, Timely(k), missed, Len(feed), rows)
      BY <2>4 DEF IsRight
    <3>4. Right(list, Timely(k)', missed', Len(feed'), rows + 1)
      BY <1>2, <2>1, <2>2, <3>1, <3>2, <3>3, RightAfterNew
    <3> QED BY <1>1, <3>4
  <2> QED BY <1>1, <1>2, <1>6, <2>3, <2>4 DEF ListInv, IsRight, Known
<1> QED BY <1>8, <1>9

(* The feed is lost, and what it was to bring. *)
LEMMA LoseFeedLists ==
  ASSUME TabInv, ListInv, LoseFeed
  PROVE  ListInv'
<1>1. /\ socket' = "lost" /\ feed' = <<>> /\ missed' = missed \cup {feed[i].row : i \in DOMAIN feed}
      /\ state' = state /\ loaded' = loaded /\ asked' = asked /\ rows' = rows /\ measured' = measured
  BY DEF LoseFeed, clientVars, serverVars
<1>2. /\ rows \in Nat /\ Len(feed) \in 0 .. rows /\ Known \subseteq Monitors /\ DOMAIN loaded \subseteq Monitors
  BY NumberFacts
<1>3. Numbers /\ feed \in Seq([monitor : Monitors, row : Nat])
      /\ \A i \in 1 .. Len(feed) : feed[i].row = (rows - Len(feed)) + i
  BY DEF ListInv, FeedInv
<1>4. PICK n \in Nat : n = Len(feed)
  BY <1>2
<1>5. DOMAIN feed = 1 .. n
  BY <1>3, <1>4
<1>6. ASSUME NEW r \in 1 .. rows, r > rows - n PROVE r \in missed'
  <2>1. r - (rows - n) \in 1 .. n
    BY <1>2, <1>4, <1>6
  <2>2. feed[r - (rows - n)].row = (rows - n) + (r - (rows - n))
    BY <1>3, <1>4, <2>1
  <2>3. (rows - n) + (r - (rows - n)) = r
    BY <1>2
  <2> QED BY <1>1, <1>5, <2>1, <2>2, <2>3
<1>7. missed' \subseteq 1 .. rows
  <2>1. \A i \in 1 .. n : (rows - n) + i \in 1 .. rows
    BY <1>2, <1>4
  <2> QED BY <1>1, <1>3, <1>4, <1>5, <2>1 DEF Numbers
<1>8. Numbers'
  BY <1>1, <1>3, <1>7 DEF Numbers
<1>9. Len(feed') = 0
  BY <1>1
<1>10. FeedInv'
  <2>1. <<>> \in Seq([monitor : Monitors, row : Nat])
    OBVIOUS
  <2>2. Backlog \in Nat
    BY InventoryAssumption
  <2> QED BY <1>1, <1>2, <1>9, <2>1, <2>2 DEF FeedInv
<1>11. ASSUME NEW k \in Monitors, NEW list, IsRight(k, list)
       PROVE  Right(list, Timely(k)', missed', Len(feed'), rows')
  <2>1. Timely(k) \in SUBSET (1 .. rows) /\ Timely(k)' = Timely(k)
    BY <1>1, NumberFacts DEF Timely
  <2>2. Right(list, Timely(k), missed, Len(feed), rows)
    BY <1>11 DEF IsRight
  <2>3. missed \subseteq missed' /\ \A r \in 1 .. rows : r > rows - Len(feed) => r \in missed'
    BY <1>1, <1>4, <1>6
  <2>4. Right(list, Timely(k), missed', 0, rows)
    BY <1>2, <2>1, <2>2, <2>3, RightAfterLoss
  <2> QED BY <1>1, <1>9, <2>1, <2>4
<1> QED BY <1>1, <1>2, <1>8, <1>10, <1>11 DEF ListInv, IsRight, Known

(* A measurement comes: its list has it, and lacks the oldest if it was full. *)
LEMMA DeliverLists ==
  ASSUME TabInv, ListInv, LoadInv, Deliver
  PROVE  ListInv' /\ Keeps
<1>1. PICK x : x = Head(feed)
  OBVIOUS
<1>2. /\ feed # <<>> /\ state' = pollAction(x.monitor, x.row)
      /\ missed' = IF x.monitor \in Known THEN missed ELSE missed \cup {x.row}
      /\ feed' = Tail(feed) /\ socket' = socket /\ loaded' = loaded /\ asked' = asked /\ rows' = rows
      /\ measured' = measured
  BY <1>1 DEF Deliver, serverVars
<1>3. /\ rows \in Nat /\ Len(feed) \in 0 .. rows /\ Len(feed) <= Backlog
      /\ Known \subseteq Monitors /\ DOMAIN loaded \subseteq Monitors
  BY NumberFacts
<1>4. Numbers /\ FeedInv /\ feed \in Seq([monitor : Monitors, row : Nat])
  BY DEF ListInv, FeedInv
<1>5. PICK n \in Nat : n = Len(feed)
  BY <1>3
<1>6. /\ n \in 1 .. rows /\ n \in 1 .. n /\ x = feed[1] /\ 1 \in 1 .. n
      /\ feed' \in Seq([monitor : Monitors, row : Nat]) /\ Len(feed') = n - 1
      /\ \A i \in 1 .. n - 1 : feed'[i] = feed[i + 1]
  BY <1>1, <1>2, <1>3, <1>4, <1>5
<1>7. /\ x.row = rows - n + 1 /\ x.row \in 1 .. rows
      /\ \A m \in Monitors \ {x.monitor} : x.row \notin measured[m]
  BY <1>3, <1>4, <1>5, <1>6 DEF FeedInv
<1>8. Numbers'
  BY <1>2, <1>4, <1>7 DEF Numbers
<1>9. FeedInv'
  <2>1. ASSUME NEW i \in 1 .. n - 1
        PROVE  /\ feed'[i].row = (rows - (n - 1)) + i
               /\ \A m \in Monitors \ {feed'[i].monitor} : feed'[i].row \notin measured[m]
    <3>1. i + 1 \in 1 .. n /\ feed'[i] = feed[i + 1]
      BY <1>6
    <3>2. /\ feed[i + 1].row = (rows - n) + (i + 1)
          /\ \A m \in Monitors \ {feed[i + 1].monitor} : feed[i + 1].row \notin measured[m]
      BY <1>4, <1>5, <3>1 DEF FeedInv
    <3>3. (rows - n) + (i + 1) = (rows - (n - 1)) + i
      BY <1>3
    <3> QED BY <3>1, <3>2, <3>3
  <2>2. n - 1 <= Backlog /\ n - 1 <= rows
    BY <1>3, <1>5, InventoryAssumption
  <2>3. socket = "open"
    BY <1>2, <1>4 DEF FeedInv
  <2> QED BY <1>2, <1>5, <1>6, <2>1, <2>2, <2>3 DEF FeedInv
<1>10. missed \subseteq missed'
  BY <1>2
<1>11. ASSUME NEW m \in Monitors, NEW list, IsRight(m, list), m # x.monitor \/ x.monitor \notin Known
       PROVE  Right(list, Timely(m)', missed', Len(feed'), rows')
  <2>1. Timely(m) \in SUBSET (1 .. rows) /\ Timely(m) \subseteq measured[m] /\ Timely(m)' = Timely(m)
    BY <1>2, NumberFacts DEF Timely
  <2>2. Right(list, Timely(m), missed, n, rows)
    BY <1>5, <1>11 DEF IsRight
  <2>3. rows - n + 1 \in Timely(m) => rows - n + 1 \in missed'
    BY <1>2, <1>7, <1>11, <2>1
  <2>4. Right(list, Timely(m), missed', n - 1, rows)
    BY <1>3, <1>6, <1>10, <2>1, <2>2, <2>3, RightAfterOther
  <2> QED BY <1>2, <1>6, <2>1, <2>4
<1>12. CASE x.monitor \notin Known
  <2>1. state' = state
    BY <1>2, <1>12 DEF pollAction
  <2>2. ListInv'
    BY <1>2, <1>3, <1>8, <1>9, <1>11, <1>12, <2>1 DEF ListInv, IsRight, Known
  <2>3. ListsKept
    BY <2>1 DEF ListsKept, Known
  <2> QED BY <2>2, <2>3, KeptIsKept
<1>13. CASE x.monitor \in Known
  <2>1. PICK m \in Known : m = x.monitor
    BY <1>13
  <2>2. PICK list : list = state.monitors[m].list
    OBVIOUS
  <2>3. PICK next : next = IF x.row \in ToSet(Trim(list)) THEN Trim(list) ELSE Append(Trim(list), x.row)
    OBVIOUS
  <2>4. state' = WithList(m, next)
    BY <1>2, <2>1, <2>2, <2>3 DEF pollAction
  <2>5. PICK s : s = WithList(m, next)
    OBVIOUS
  <2>6. /\ DOMAIN s.monitors = Known /\ s.monitors[m].list = next
        /\ \A k \in Known \ {m} : s.monitors[k].list = state.monitors[k].list
    BY <2>5, StateFacts, WithListFacts
  <2>7. /\ Known' = Known /\ state'.monitors[m].list = next
        /\ \A k \in Known \ {m} : state'.monitors[k].list = state.monitors[k].list
    BY <2>4, <2>5, <2>6 DEF Known
  <2>8. loaded = <<>> /\ missed' = missed
    BY <1>2, <1>13, LoadedFirst
  <2>9. /\ Right(next, Timely(m), missed, n - 1, rows)
        /\ \A i \in 1 .. Len(list) :
             \/ list[i] \in ToSet(next)
             \/ Len(list) = MaxMeasurements /\ i <= Len(list) - BatchSize
    <3>1. Timely(m) \in SUBSET (1 .. rows)
      BY <1>3, NumberFacts
    <3>2. Right(list, Timely(m), missed, n, rows)
      BY <1>5, <2>2 DEF ListInv, IsRight
    <3> QED BY <1>3, <1>6, <1>7, <2>3, <3>1, <3>2, RightAfterRow
  <2>10. Right(next, Timely(m)', missed', Len(feed'), rows')
    <3>1. Timely(m)' = Timely(m)
      BY <1>2 DEF Timely
    <3> QED BY <1>2, <1>6, <2>8, <2>9, <3>1
  <2>11. ASSUME NEW k \in Known' PROVE IsRight(k, state.monitors[k].list)'
    <3>1. CASE k = m
      BY <2>7, <2>10, <3>1 DEF IsRight
    <3>2. CASE k # m
      <4>1. k \in Known /\ k \in Monitors /\ state'.monitors[k].list = state.monitors[k].list
        BY <1>3, <2>7, <3>2
      <4>2. IsRight(k, state.monitors[k].list)
        BY <4>1 DEF ListInv
      <4> QED BY <1>11, <2>1, <3>2, <4>1, <4>2 DEF IsRight
    <3> QED BY <3>1, <3>2
  <2>12. ListInv'
    BY <1>2, <1>8, <1>9, <2>8, <2>11, EmptyTable DEF ListInv
  <2>13. Keeps
    <3> SUFFICES ASSUME NEW k \in Known, NEW i \in DOMAIN state.monitors[k].list
                 PROVE  \/ state.monitors[k].list[i] \in ToSet(state'.monitors[k].list)
                        \/ /\ Len(state.monitors[k].list) = MaxMeasurements
                           /\ i <= Len(state.monitors[k].list) - BatchSize
      BY DEF Keeps
    <3>1. CASE k = m
      <4>1. DOMAIN list = 1 .. Len(list)
        BY <2>2 DEF ListInv, IsRight, Right
      <4> QED BY <2>2, <2>7, <2>9, <3>1, <4>1
    <3>2. CASE k # m
      BY <2>7, <3>2 DEF ToSet
    <3> QED BY <3>1, <3>2
  <2> QED BY <2>12, <2>13
<1> QED BY <1>12, <1>13

(* The newest measurements of each monitor are on their way. *)
LEMMA LoadLists ==
  ASSUME TabInv, ListInv, NEW q \in Requests, RunLoad(q)
  PROVE  ListInv'
<1>1. PICK batch \in [Stored -> SUBSET (1 .. rows)] :
        /\ \A m \in Stored : batch[m] \in Batches(m)
        /\ loaded' = [m \in Stored |-> [active |-> store[m], list |-> InOrder(batch[m])]]
  BY DEF RunLoad
<1>2. /\ state' = state /\ asked' = asked /\ rows' = rows /\ measured' = measured /\ feed' = feed
      /\ socket' = socket /\ missed' = missed
  BY DEF RunLoad, serverVars, feedVars
<1>3. /\ rows \in Nat /\ Len(feed) \in Nat /\ Len(feed) <= rows /\ Len(feed) <= Backlog
  BY NumberFacts
<1>4. DOMAIN loaded' = Stored /\ \A m \in Stored : loaded'[m].list = InOrder(batch[m])
  BY <1>1
<1>5. ASSUME NEW m \in Stored PROVE IsRight(m, InOrder(batch[m]))
  <2>1. m \in Monitors
    BY DEF Stored
  <2>2. measured[m] \in SUBSET (1 .. rows)
    BY <2>1, NumberFacts
  <2>3. PICK b : b = batch[m]
    OBVIOUS
  <2>4. /\ b \in SUBSET measured[m]
        /\ Cardinality(b) = Least(BatchSize, Cardinality(measured[m]))
        /\ \A r \in measured[m] \ b : r \in Late \/ \A k \in b : r < k
    BY <1>1, <2>3 DEF Batches
  <2>5. Right(InOrder(b), measured[m] \ Late, missed, Len(feed), rows)
    BY <1>3, <2>2, <2>4, RightAfterLoad
  <2> QED BY <2>3, <2>5 DEF IsRight, Timely
<1>6. /\ Numbers' /\ FeedInv'
      /\ \A m \in Known' : IsRight(m, state.monitors[m].list)'
  BY <1>2 DEF ListInv, Numbers, FeedInv, IsRight, Timely, Known
<1>7. \A m \in DOMAIN loaded' : IsRight(m, loaded[m].list)'
  BY <1>2, <1>4, <1>5 DEF IsRight, Timely
<1> QED BY <1>6, <1>7 DEF ListInv

(* What was deleted is taken from a list. *)
LEMMA PruneLists ==
  ASSUME TabInv, ListInv, LoadInv, LiveInv, NEW q \in Requests, AnswerPrune(q)
  PROVE  ListInv' /\ Keeps
<1>1. /\ Asked(q, "prune") /\ flight[q].at = "ok" /\ loaded' = loaded /\ asked' = asked
      /\ rows' = rows /\ measured' = measured /\ feed' = feed /\ socket' = socket /\ missed' = missed
  BY DEF AnswerPrune, Answered, Finish, serverVars, feedVars
<1>2. PICK ids : ids = flight[q].ids
  OBVIOUS
<1>3. \A m \in Monitors : ids \cap measured[m] = {}
  BY <1>1, <1>2 DEF LiveInv, Prunes
<1>4. PICK o : o = flight[q].monitor
  OBVIOUS
<1>5. PICK s : s = addMeasurementAction(o.id, ids)
  OBVIOUS
<1>6. state' = s \/ state' = [s EXCEPT !.pane = PaneOf("view", o)]
  BY <1>2, <1>4, <1>5 DEF AnswerPrune
<1>7. /\ rows \in Nat /\ Len(feed) \in 0 .. rows /\ Known \subseteq Monitors
  BY NumberFacts
<1>8. ASSUME NEW m \in Known
      PROVE  /\ IsRight(m, Without(state.monitors[m].list, ids))
             /\ \A i \in DOMAIN state.monitors[m].list :
                  \/ state.monitors[m].list[i] \in ToSet(Without(state.monitors[m].list, ids))
                  \/ state.monitors[m].list[i] \notin measured[m]
  <2>1. PICK list : list = state.monitors[m].list
    OBVIOUS
  <2>2. Right(list, Timely(m), missed, Len(feed), rows)
    BY <2>1 DEF ListInv, IsRight
  <2>3. Timely(m) \in SUBSET (1 .. rows) /\ ids \cap measured[m] = {} /\ ids \cap Timely(m) = {}
    BY <1>3, <1>7, NumberFacts
  <2>4. /\ Right(Without(list, ids), Timely(m), missed, Len(feed), rows)
        /\ \A i \in 1 .. Len(list) : list[i] \in ids \/ list[i] \in ToSet(Without(list, ids))
    BY <1>7, <2>2, <2>3, RightAfterPrune
  <2>5. DOMAIN list = 1 .. Len(list)
    BY <2>2 DEF Right
  <2> QED BY <2>1, <2>3, <2>4, <2>5 DEF IsRight
<1>9. /\ IsState(s) /\ DOMAIN s.monitors = Known
      /\ \A m \in Known : \/ s.monitors[m].list = state.monitors[m].list
                          \/ s.monitors[m].list = Without(state.monitors[m].list, ids)
  <2>1. CASE o.id \notin Known
    <3>1. s = state
      BY <1>5, <2>1 DEF addMeasurementAction
    <3> QED BY <3>1, StateFacts DEF Known
  <2>2. CASE o.id \in Known
    <3>1. PICK m \in Known : m = o.id
      BY <2>2
    <3>2. PICK list : list = Without(state.monitors[m].list, ids)
      OBVIOUS
    <3>3. s = WithList(m, list)
      BY <1>5, <3>1, <3>2 DEF addMeasurementAction
    <3>4. /\ IsState(s) /\ DOMAIN s.monitors = Known /\ s.monitors[m].list = list
          /\ \A k \in Known \ {m} : s.monitors[k].list = state.monitors[k].list
      BY <3>3, StateFacts, WithListFacts
    <3> QED BY <3>2, <3>4
  <2> QED BY <2>1, <2>2
<1>10. state'.monitors = s.monitors
  <2>1. CASE state' = s
    BY <2>1
  <2>2. CASE state' = [s EXCEPT !.pane = PaneOf("view", o)]
    <3>1. state' = [monitors |-> s.monitors, selected |-> s.selected, deleting |-> s.deleting,
                    pane |-> PaneOf("view", o)]
      BY <1>9, <2>2, StateExcept
    <3> QED BY <3>1
  <2> QED BY <1>6, <2>1, <2>2
<1>11. Known' = Known
  BY <1>9, <1>10 DEF Known
<1>12. ASSUME NEW m \in Known
       PROVE  /\ IsRight(m, state'.monitors[m].list)
              /\ \A i \in DOMAIN state.monitors[m].list :
                   \/ state.monitors[m].list[i] \in ToSet(state'.monitors[m].list)
                   \/ state.monitors[m].list[i] \notin measured[m]
  <2>1. CASE state'.monitors[m].list = state.monitors[m].list
    <3>1. \A i \in DOMAIN state.monitors[m].list :
            state.monitors[m].list[i] \in ToSet(state.monitors[m].list)
      BY DEF ToSet
    <3> QED BY <2>1, <3>1 DEF ListInv
  <2>2. CASE state'.monitors[m].list = Without(state.monitors[m].list, ids)
    BY <1>8, <2>2
  <2> QED BY <1>9, <1>10, <2>1, <2>2
<1>13. /\ Numbers' /\ FeedInv'
       /\ \A m \in DOMAIN loaded' : IsRight(m, loaded[m].list)'
  BY <1>1 DEF ListInv, Numbers, FeedInv, IsRight, Timely
<1>14. \A m \in Known' : IsRight(m, state.monitors[m].list)'
  BY <1>1, <1>11, <1>12 DEF IsRight, Timely
<1>15. Keeps
  BY <1>11, <1>12 DEF Keeps
<1> QED BY <1>13, <1>14, <1>15 DEF ListInv

-----------------------------------------------------------------------------
(* What requests and panes refer to. *)

(* No request moves, and no monitor goes. *)
LEMMA LiveStep ==
  ASSUME LiveInv, rows \in Nat, rows' \in {rows, rows + 1}, flight' = flight, Known \subseteq Known', PaneLive',
         \A m \in Monitors : measured'[m] \subseteq measured[m] \cup {rows + 1}
  PROVE  LiveInv'
<1> SUFFICES ASSUME NEW q \in Requests, Asked(q, "prune") PROVE Prunes(q)'
  BY DEF LiveInv, Prunes, Asked, Pending
<1>1. Prunes(q)
  BY DEF LiveInv
<1>2. IsLive(flight[q].monitor)'
  BY <1>1 DEF Prunes, IsLive
<1>3. flight[q].ids \subseteq 1 .. rows /\ rows + 1 \notin flight[q].ids
  BY <1>1 DEF Prunes
<1>4. 1 .. rows \subseteq 1 .. rows'
  OBVIOUS
<1>5. flight[q].at = "ok" => \A m \in Monitors : flight[q].ids \cap measured'[m] = {}
  BY <1>1, <1>3 DEF Prunes
<1> QED BY <1>2, <1>3, <1>4, <1>5 DEF Prunes, Asked, Pending

(* While no load is under way nothing is loaded. *)
LEMMA NothingLoaded ==
  ASSUME LoadInv, ~ loading
  PROVE  loaded = <<>>
BY DEF LoadInv, loading, Answered

(* One part of the state is changed: the monitors are as they were. *)
LEMMA ExceptKeeps ==
  ASSUME NEW s, IsState(s), NEW v
  PROVE  /\ [s EXCEPT !.pane = v].monitors = s.monitors /\ [s EXCEPT !.pane = v].pane = v
         /\ [s EXCEPT !.selected = v].monitors = s.monitors /\ [s EXCEPT !.selected = v].pane = s.pane
         /\ [s EXCEPT !.deleting = v].monitors = s.monitors /\ [s EXCEPT !.deleting = v].pane = s.pane
BY DEF IsState

(* A button changes no list, and shows no live object that is not there. *)
LEMMA ButtonLists ==
  ASSUME TabInv, TabInv', ListInv, LoadInv, LiveInv, NEW next, Dispatch(next),
         next.monitors = state.monitors,
         Shows(next.pane, Monitors) => IsLive(next.pane.monitor)
  PROVE  ListInv' /\ LoadInv' /\ LiveInv' /\ Keeps
<1>1. /\ state' = next /\ flight' = flight /\ loaded' = loaded /\ asked' = asked
      /\ measured' = measured /\ rows' = rows /\ feed' = feed /\ socket' = socket /\ missed' = missed
  BY DEF Dispatch, serverVars, feedVars
<1>2. Known' = Known /\ ListsKept
  BY <1>1 DEF ListsKept, Known
<1>3. Numbers
  BY DEF ListInv
<1>4. ListInv'
  BY <1>1, <1>2, <1>3, QuietStep DEF Numbers
<1>5. LoadInv'
  BY <1>1 DEF LoadInv, Answered, Asked, Pending
<1>6. PaneLive'
  BY <1>1, <1>2 DEF PaneLive, IsLive
<1>7. LiveInv'
  BY <1>1, <1>2, <1>3, <1>6, LiveStep DEF Numbers
<1> QED BY <1>2, <1>4, <1>5, <1>7, KeptIsKept

(* A pane that is shown. *)
LEMMA PaneLists ==
  ASSUME TabInv, TabInv', ListInv, LoadInv, LiveInv, NEW pane, Dispatch(SetPane(pane)),
         Shows(pane, Monitors) => IsLive(pane.monitor)
  PROVE  ListInv' /\ LoadInv' /\ LiveInv' /\ Keeps
<1>1. PICK next : next = SetPane(pane)
  OBVIOUS
<1>2. next.monitors = state.monitors /\ next.pane = pane
  BY <1>1, StateFacts, ExceptKeeps DEF SetPane
<1> QED BY <1>1, <1>2, ButtonLists

(* The editor or the view of a monitor is shown, or closed. *)
LEMMA ShowLists ==
  ASSUME TabInv, TabInv', ListInv, LoadInv, LiveInv, NEW o \in Objects, IsLive(o),
         \/ \E disableToggle \in BOOLEAN : Dispatch(viewPaneAction(o, disableToggle))
         \/ Dispatch(editorPaneAction(o))
  PROVE  ListInv' /\ LoadInv' /\ LiveInv' /\ Keeps
<1>1. PICK pane \in {Pane("none"), PaneOf("view", o), PaneOf("editor", o)} : Dispatch(SetPane(pane))
  BY DEF viewPaneAction, editorPaneAction
<1>2. Shows(pane, Monitors) => IsLive(pane.monitor)
  BY <1>1, PanesAre
<1> QED BY <1>1, <1>2, PaneLists

(* The user changes no list. *)
LEMMA UserLists ==
  ASSUME TabInv, TabInv', ListInv, LoadInv, LiveInv,
         (\E m \in Monitors : OnCard(m)) \/ OnMenu \/ OnPane \/ AttachHead \/ CancelDelete
  PROVE  ListInv' /\ LoadInv' /\ LiveInv' /\ Keeps
<1>1. Shows(state.pane, Monitors) => IsLive(state.pane.monitor)
  BY DEF LiveInv, PaneLive
<1>2. ASSUME NEW v, Dispatch([state EXCEPT !.selected = v]) \/ Dispatch([state EXCEPT !.deleting = v])
      PROVE  ListInv' /\ LoadInv' /\ LiveInv' /\ Keeps
  <2>1. PICK next : /\ Dispatch(next) /\ next \in {[state EXCEPT !.selected = v], [state EXCEPT !.deleting = v]}
    BY <1>2
  <2>2. next.monitors = state.monitors /\ next.pane = state.pane
    <3>1. IsState(state)
      BY StateFacts
    <3>2. /\ [state EXCEPT !.selected = v].monitors = state.monitors
          /\ [state EXCEPT !.selected = v].pane = state.pane
          /\ [state EXCEPT !.deleting = v].monitors = state.monitors
          /\ [state EXCEPT !.deleting = v].pane = state.pane
      BY <3>1, ExceptKeeps
    <3> QED BY <2>1, <3>2
  <2> QED BY <1>1, <2>1, <2>2, ButtonLists
<1>3. ASSUME NEW objects, Dispatch(queueMonitorDeleteAction(objects))
      PROVE  ListInv' /\ LoadInv' /\ LiveInv' /\ Keeps
  BY <1>2, <1>3 DEF queueMonitorDeleteAction
<1>4. \A m \in Known : Object(m, TRUE) \in Objects /\ IsLive(Object(m, TRUE))
  BY StateFacts, PanesAre DEF IsLive
<1>5. ASSUME NEW m \in Monitors, OnCard(m) PROVE ListInv' /\ LoadInv' /\ LiveInv' /\ Keeps
  <2>1. m \in Known
    BY <1>5 DEF OnCard
  <2>2. CASE Dispatch(selectAction(m))
    <3>1. \E v : Dispatch([state EXCEPT !.selected = v])
      BY <2>2 DEF selectAction
    <3> QED BY <1>2, <3>1
  <2> QED BY <1>3, <1>4, <1>5, <2>1, <2>2, ShowLists DEF OnCard
<1>6. CASE OnMenu
  <2>1. CASE Dispatch(SetPane(Pane("draft"))) \/ Dispatch(SetPane(Pane("none")))
    BY <2>1, PanesAre, PaneLists
  <2> QED BY <1>2, <1>3, <1>6, <2>1 DEF OnMenu
<1>7. CASE OnPane
  <2>1. CASE Dispatch(SetPane(Pane("none")))
    BY <2>1, PanesAre, PaneLists
  <2>2. CASE state.pane.kind = "view" /\ Dispatch(editorPaneAction(state.pane.monitor))
    <3>1. state.pane.monitor \in Objects /\ IsLive(state.pane.monitor)
      BY <1>1, <2>2, StateFacts, PaneFacts
    <3> QED BY <2>2, <3>1, ShowLists
  <2> QED BY <1>3, <1>7, <2>1, <2>2 DEF OnPane
<1>8. CASE AttachHead
  BY <1>4, <1>8, ShowLists DEF AttachHead
<1>9. CASE CancelDelete
  BY <1>3, <1>9 DEF CancelDelete
<1> QED BY <1>5, <1>6, <1>7, <1>8, <1>9

(* The elements of a sequence are of the set it is over. *)
LEMMA ElementsIn ==
  ASSUME NEW S, NEW s \in Seq(S)
  PROVE  ToSet(s) \subseteq S
<1>1. \A i \in 1 .. Len(s) : s[i] \in S
  OBVIOUS
<1>2. \A x : x \in ToSet(s) <=> \E i \in 1 .. Len(s) : s[i] = x
  BY PlacesOf
<1> QED BY ONLY <1>1, <1>2

(* What the user asks for is not about a list, or it is to delete measurements that have been
   stored. *)
LEMMA AsksFacts ==
  ASSUME TabInv, ListInv, LiveInv,
         \/ AskDelete \/ AskHistory
         \/ \E active \in BOOLEAN : AskToggle(active) \/ AskUpdate(active) \/ AskCreate(active)
         \/ \E shown \in BOOLEAN : AskPrune(shown)
  PROVE  /\ ~ loading
         /\ \E f : /\ Ask(f)
                   /\ f.op = "prune" => IsLive(f.monitor) /\ f.ids \subseteq 1 .. rows /\ f.at = "asked"
<1>1. ASSUME NEW op, op # "prune", NEW about, NEW active, NEW f,
             \/ f = Closure(op, about)
             \/ f = [Closure(op, about) EXCEPT !.active = active]
      PROVE  f.op # "prune"
  BY <1>1 DEF Closure
<1>2. CASE AskDelete
  <2>1. ~ loading /\ Ask(Closure("delete", state.deleting))
    BY <1>2, StateFacts DEF AskDelete
  <2>2. Closure("delete", state.deleting).op # "prune"
    BY <1>1
  <2> QED BY <2>1, <2>2
<1>3. CASE AskHistory
  <2>1. ~ loading /\ Ask(Closure("history", {state.pane.monitor.id}))
    BY <1>3, StateFacts DEF AskHistory
  <2>2. Closure("history", {state.pane.monitor.id}).op # "prune"
    BY <1>1
  <2> QED BY <2>1, <2>2
<1>4. ASSUME NEW active \in BOOLEAN, AskToggle(active)
      PROVE  ~ loading /\ \E f : Ask(f) /\ f.op # "prune"
  <2>1. ~ loading /\ \E ids \in SUBSET Known : Ask([Closure("toggle", ids) EXCEPT !.active = active])
    BY <1>4, StateFacts DEF AskToggle
  <2>2. PICK ids \in SUBSET Known : Ask([Closure("toggle", ids) EXCEPT !.active = active])
    BY <2>1
  <2> QED BY <1>1, <2>1, <2>2
<1>5. ASSUME NEW active \in BOOLEAN, AskUpdate(active) \/ AskCreate(active)
      PROVE  ~ loading /\ \E f : Ask(f) /\ f.op # "prune"
  <2>1. /\ ~ loading
        /\ \E op \in {"update", "create"} : \E about : Ask([Closure(op, about) EXCEPT !.active = active])
    BY <1>5, StateFacts DEF AskUpdate, AskCreate
  <2>2. PICK op \in {"update", "create"} : \E about : Ask([Closure(op, about) EXCEPT !.active = active])
    BY <2>1
  <2>3. PICK about : Ask([Closure(op, about) EXCEPT !.active = active])
    BY <2>2
  <2> QED BY <1>1, <2>1, <2>3
<1>6. ASSUME NEW shown \in BOOLEAN, AskPrune(shown)
      PROVE  /\ ~ loading
             /\ \E f : /\ Ask(f) /\ IsLive(f.monitor) /\ f.ids \subseteq 1 .. rows /\ f.at = "asked"
  <2>1. ~ loading /\ state.pane.kind = "view"
    BY <1>6, StateFacts DEF AskPrune
  <2>2. PICK o \in Objects : o = state.pane.monitor
    BY <2>1, StateFacts, PaneFacts
  <2>3. o.id \in Monitors /\ IsLive(o)
    BY <2>1, <2>2, StateFacts, PaneFacts DEF LiveInv, PaneLive, Objects
  <2>4. PICK visible : visible = IF o.live THEN ToSet(state.monitors[o.id].list) ELSE measured[o.id]
    OBVIOUS
  <2>5. visible \subseteq 1 .. rows
    <3>1. CASE o.live
      <4>1. IsRight(o.id, state.monitors[o.id].list)
        BY <2>3, <3>1 DEF IsLive, ListInv
      <4>2. state.monitors[o.id].list \in Seq(1 .. rows)
        BY <4>1 DEF IsRight, Right
      <4>3. PICK list \in Seq(1 .. rows) : list = state.monitors[o.id].list
        BY <4>2
      <4>4. PICK S : S = 1 .. rows
        OBVIOUS
      <4>5. ToSet(list) \subseteq S
        BY <4>3, <4>4, ElementsIn
      <4> QED BY <2>4, <3>1, <4>3, <4>4, <4>5
    <3>2. CASE ~ o.live
      BY <2>3, <2>4, <3>2 DEF ListInv, Numbers
    <3> QED BY <3>1, <3>2
  <2>6. PICK ids \in SUBSET visible :
          Ask([op |-> "prune", at |-> "asked", about |-> {o.id}, active |-> FALSE,
               monitor |-> o, ids |-> ids, shown |-> shown])
    BY <1>6, <2>2, <2>4 DEF AskPrune
  <2>7. PICK f : f = [op |-> "prune", at |-> "asked", about |-> {o.id}, active |-> FALSE,
                      monitor |-> o, ids |-> ids, shown |-> shown]
    OBVIOUS
  <2>8. f.monitor = o /\ f.ids = ids /\ f.at = "asked"
    BY ONLY <2>7, PruneFacts
  <2> QED BY <2>1, <2>3, <2>5, <2>6, <2>7, <2>8
<1> QED BY <1>2, <1>3, <1>4, <1>5, <1>6

(* A request that is made changes no list. *)
LEMMA AsksLists ==
  ASSUME TabInv, TabInv', ListInv, LoadInv, LiveInv,
         \/ AskDelete \/ AskHistory
         \/ \E active \in BOOLEAN : AskToggle(active) \/ AskUpdate(active) \/ AskCreate(active)
         \/ \E shown \in BOOLEAN : AskPrune(shown)
  PROVE  ListInv' /\ LoadInv' /\ LiveInv' /\ Keeps
<1>1. ~ loading
  BY AsksFacts
<1>2. PICK f : /\ Ask(f)
               /\ f.op = "prune" => IsLive(f.monitor) /\ f.ids \subseteq 1 .. rows /\ f.at = "asked"
  BY AsksFacts
<1>3. PICK q \in Requests : ~ Pending(q) /\ flight' = [flight EXCEPT ![q] = f]
  BY <1>2 DEF Ask
<1>4. /\ HasWork /\ asked' = asked + 1 /\ state' = state /\ loaded' = loaded
      /\ measured' = measured /\ rows' = rows /\ feed' = feed /\ socket' = socket /\ missed' = missed
  BY <1>2 DEF Ask, serverVars, feedVars
<1>5. /\ flight'[q] = f /\ \A p \in Requests \ {q} : flight'[p] = flight[p]
      /\ Known' = Known /\ ListsKept /\ Numbers
  BY <1>3, <1>4 DEF TabInv, ListsKept, Known, ListInv
<1>6. rows + asked' <= FirstRows + MaxWork
  BY <1>4, <1>5, InventoryAssumption DEF HasWork, Numbers
<1>7. ListInv'
  BY <1>4, <1>5, <1>6, QuietStep DEF Numbers
<1>8. LoadInv'
  BY <1>1, <1>4, NothingLoaded DEF LoadInv
<1>9. PaneLive'
  BY <1>4, <1>5 DEF LiveInv, PaneLive, IsLive
<1>10. Prunes(q)'
  BY <1>2, <1>4, <1>5 DEF Prunes, Asked, IsLive
<1>11. \A p \in Requests \ {q} : Prunes(p)'
  BY <1>4, <1>5 DEF LiveInv, Prunes, Asked, Pending, IsLive
<1> QED BY <1>5, <1>7, <1>8, <1>9, <1>10, <1>11, KeptIsKept DEF LiveInv

(* The server answers a request: what the request is, and that it is to delete, stays. *)
LEMMA ServesFacts ==
  ASSUME TabInv, NEW q \in Requests,
         \/ RunLoad(q) \/ RunDelete(q) \/ RunToggle(q) \/ RunUpdate(q)
         \/ RunCreate(q) \/ RunHistory(q) \/ RunPrune(q) \/ Refuse(q)
  PROVE  /\ Pending(q) /\ flight[q].at = "asked"
         /\ \E f : /\ flight' = [flight EXCEPT ![q] = f] /\ f.op = flight[q].op
                   /\ f.op = "prune" => f.monitor = flight[q].monitor /\ f.ids = flight[q].ids
                   /\ f.op = "prune" /\ f.at = "ok" => RunPrune(q)
                   /\ RunLoad(q) => f.op = "load" /\ f.at = "ok"
<1>1. /\ Pending(q) /\ flight[q].at = "asked"
      /\ flight[q].op = "prune" => RunPrune(q) \/ Refuse(q)
      /\ RunLoad(q) => flight[q].op = "load"
  BY DEF RunLoad, RunDelete, RunToggle, RunUpdate, RunCreate, RunHistory, RunPrune, Refuse, Arrived,
         Asked
<1>2. ASSUME NEW at \in {"ok", "error"}, Replies(q, at)
      PROVE  \E f : /\ flight' = [flight EXCEPT ![q] = f] /\ f.op = flight[q].op /\ f.at = at
                    /\ f.monitor = flight[q].monitor /\ f.ids = flight[q].ids
  BY <1>2, RepliesFacts
<1>3. CASE Refuse(q) /\ ~ RunPrune(q) /\ ~ RunLoad(q)
  <2>1. Replies(q, "error")
    BY <1>3 DEF Refuse
  <2>2. PICK f : /\ flight' = [flight EXCEPT ![q] = f] /\ f.op = flight[q].op /\ f.at = "error"
                 /\ f.monitor = flight[q].monitor /\ f.ids = flight[q].ids
    BY <1>2, <2>1
  <2>3. f.at # "ok"
    BY <2>2
  <2> QED BY <1>1, <1>3, <2>2, <2>3
<1>4. CASE RunLoad(q) \/ RunPrune(q)
  <2>1. Replies(q, "ok") /\ flight[q].op \in {"load", "prune"} /\ (flight[q].op = "prune" => RunPrune(q))
    BY <1>4 DEF RunLoad, RunPrune, Arrived, Asked
  <2>2. PICK f : /\ flight' = [flight EXCEPT ![q] = f] /\ f.op = flight[q].op /\ f.at = "ok"
                 /\ f.monitor = flight[q].monitor /\ f.ids = flight[q].ids
    BY <1>2, <2>1
  <2> QED BY <1>1, <2>1, <2>2
<1>5. CASE RunDelete(q) \/ RunToggle(q) \/ RunUpdate(q) \/ RunHistory(q)
  <2>1. /\ flight[q].op \notin {"prune", "load"}
        /\ Replies(q, "ok") \/ Replies(q, "error")
    BY <1>5 DEF RunDelete, RunToggle, RunUpdate, RunHistory, Arrived, Asked
  <2>2. PICK f : flight' = [flight EXCEPT ![q] = f] /\ f.op = flight[q].op
    BY <1>2, <2>1
  <2> QED BY <1>1, <2>1, <2>2
<1>6. CASE RunCreate(q)
  <2>1. flight[q].op = "create" /\ flight[q].op \notin {"prune", "load"}
    BY <1>6 DEF RunCreate, Arrived, Asked
  <2>2. \E at \in {"ok", "error"} : \E m \in Monitors : Creates(q, at, m)
    BY <1>6 DEF RunCreate
  <2>3. PICK at \in {"ok", "error"} : \E m \in Monitors : Creates(q, at, m)
    BY <2>2
  <2>4. PICK m \in Monitors : Creates(q, at, m)
    BY <2>3
  <2>5. PICK f : flight' = [flight EXCEPT ![q] = f] /\ f.op = flight[q].op
    BY <2>1, <2>4, CreatesFacts
  <2> QED BY <1>1, <2>1, <2>5
<1> QED BY <1>3, <1>4, <1>5, <1>6

(* A handler changes no list; measurements may be deleted, and something may be loaded. *)
LEMMA ServesLists ==
  ASSUME TabInv, TabInv', ListInv, LoadInv, LiveInv, NEW q \in Requests,
         \/ RunLoad(q) \/ RunDelete(q) \/ RunToggle(q) \/ RunUpdate(q)
         \/ RunCreate(q) \/ RunHistory(q) \/ RunPrune(q) \/ Refuse(q)
  PROVE  ListInv' /\ LoadInv' /\ LiveInv' /\ Keeps
<1>1. Pending(q) /\ flight[q].at = "asked"
  BY ServesFacts
<1>2. PICK f : /\ flight' = [flight EXCEPT ![q] = f] /\ f.op = flight[q].op
               /\ f.op = "prune" => f.monitor = flight[q].monitor /\ f.ids = flight[q].ids
               /\ f.op = "prune" /\ f.at = "ok" => RunPrune(q)
               /\ RunLoad(q) => f.op = "load" /\ f.at = "ok"
  BY ServesFacts
<1>3. flight'[q] = f /\ \A p \in Requests \ {q} : flight'[p] = flight[p]
  BY <1>2 DEF TabInv
<1>4. /\ state' = state /\ asked' = asked /\ rows' = rows /\ feed' = feed /\ socket' = socket
      /\ missed' = missed
      /\ ~ RunLoad(q) => loaded' = loaded
  BY DEF RunLoad, RunDelete, RunToggle, RunUpdate, RunCreate, RunHistory, RunPrune, Refuse, serverVars,
         feedVars
<1>5. Numbers /\ measured \in [Monitors -> SUBSET (1 .. rows)]
  BY DEF ListInv, Numbers
<1>6. /\ measured' \in [Monitors -> SUBSET (1 .. rows)]
      /\ \A m \in Monitors : measured'[m] \subseteq measured[m]
      /\ RunPrune(q) => \A m \in Monitors : measured'[m] = measured[m] \ flight[q].ids
  <2>1. CASE RunDelete(q) /\ ~ RunPrune(q)
    BY <1>5, <2>1 DEF RunDelete
  <2>2. CASE RunPrune(q)
    BY <1>5, <2>2 DEF RunPrune
  <2>3. CASE ~ RunDelete(q) /\ ~ RunPrune(q)
    <3>1. measured' = measured
      BY <2>3 DEF RunLoad, RunToggle, RunUpdate, RunCreate, RunHistory, Refuse, serverVars
    <3> QED BY <1>5, <2>3, <3>1
  <2> QED BY <2>1, <2>2, <2>3
<1>7. Known' = Known /\ ListsKept
  BY <1>4 DEF ListsKept, Known
<1>8. ListInv'
  <2>1. CASE RunLoad(q)
    BY <2>1, LoadLists
  <2>2. CASE ~ RunLoad(q)
    BY <1>4, <1>5, <1>6, <1>7, <2>2, QuietStep DEF Numbers
  <2> QED BY <2>1, <2>2
<1>9. LoadInv'
  <2>1. CASE RunLoad(q)
    BY <1>2, <1>3, <2>1 DEF LoadInv, Answered, Asked, Pending
  <2>2. CASE ~ RunLoad(q)
    <3>1. loaded = <<>>
      <4> SUFFICES ASSUME NEW p \in Requests, Answered(p, "load") PROVE FALSE
        BY DEF LoadInv
      <4>1. Asked(p, "load") /\ flight[p].at = "ok"
        BY DEF Answered
      <4>2. p # q
        BY <1>1, <4>1
      <4> QED BY <1>1, <4>1, <4>2, PendingFacts
    <3> QED BY <1>4, <2>2, <3>1 DEF LoadInv
  <2> QED BY <2>1, <2>2
<1>10. PaneLive'
  BY <1>4, <1>7 DEF LiveInv, PaneLive, IsLive
<1>11. Prunes(q)'
  <2> SUFFICES ASSUME f.op = "prune" PROVE Prunes(q)'
    BY <1>3 DEF Prunes, Asked
  <2>1. /\ IsLive(flight[q].monitor) /\ flight[q].ids \subseteq 1 .. rows
    BY <1>1, <1>2 DEF LiveInv, Prunes, Asked
  <2>2. f.at = "ok" => \A m \in Monitors : f.ids \cap measured'[m] = {}
    BY <1>2, <1>6
  <2> QED BY <1>2, <1>3, <1>4, <1>7, <2>1, <2>2 DEF Prunes, IsLive
<1>12. ASSUME NEW p \in Requests \ {q} PROVE Prunes(p)'
  <2>1. Prunes(p)
    BY DEF LiveInv
  <2> QED BY <1>3, <1>4, <1>6, <1>7, <2>1 DEF Prunes, Asked, Pending, IsLive
<1> QED BY <1>7, <1>8, <1>9, <1>10, <1>11, <1>12, KeptIsKept DEF LiveInv

(* A request ends: the objects of monitors that go or are replaced are live no more. *)
LEMMA AnswerLive ==
  ASSUME TabInv, LiveInv, NEW q \in Requests, NEW ids, Finish(q, ids), Known \subseteq Known' \cup ids,
         PaneLive'
  PROVE  LiveInv'
<1>1. /\ flight'[q] = NoRequest
      /\ \A p \in Requests \ {q} :
           /\ flight'[p].op = flight[p].op /\ flight'[p].at = flight[p].at
           /\ flight'[p].ids = flight[p].ids
           /\ Asked(p, "prune") => flight'[p].monitor = Aged(flight[p].monitor, ids)
  BY FinishFacts
<1>2. rows' = rows /\ measured' = measured
  BY DEF Finish, serverVars
<1>3. ~ Asked(q, "prune")'
  BY <1>1, NoRequestIs DEF Asked, Pending
<1>4. ASSUME NEW p \in Requests \ {q}, Asked(p, "prune")' PROVE Prunes(p)'
  <2>1. Asked(p, "prune") /\ Prunes(p)
    BY <1>1, <1>4 DEF LiveInv, Asked, Pending
  <2>2. PICK o : o = flight[p].monitor
    OBVIOUS
  <2>3. flight'[p].monitor = Aged(o, ids) /\ IsLive(o)
    BY <1>1, <2>1, <2>2 DEF Prunes
  <2>4. Aged(o, ids).live => Aged(o, ids).id \in Known'
    <3>1. CASE o.id \in ids
      BY <3>1 DEF Aged, Object
    <3>2. CASE o.id \notin ids
      BY <2>3, <3>2 DEF Aged, IsLive
    <3> QED BY <3>1, <3>2
  <2>5. IsLive(flight[p].monitor)'
    BY <2>3, <2>4 DEF IsLive
  <2> QED BY <1>1, <1>2, <2>1, <2>5 DEF Prunes
<1> QED BY <1>3, <1>4 DEF LiveInv, Prunes

(* What was loaded is dropped or kept when a request ends. *)
LEMMA AnswerLoaded ==
  ASSUME TabInv, LoadInv, NEW q \in Requests, Pending(q), loaded' = loaded,
         ~ Answered(q, "load")
  PROVE  LoadInv'
<1>1. loaded = <<>>
  <2> SUFFICES ASSUME NEW p \in Requests, Answered(p, "load") PROVE FALSE
    BY DEF LoadInv
  <2>1. Asked(p, "load") /\ p # q
    BY DEF Answered
  <2> QED BY <2>1, PendingFacts
<1> QED BY <1>1 DEF LoadInv

(* An answered request changes no list but the one it is to prune. *)
LEMMA AnswerLists ==
  ASSUME TabInv, TabInv', ListInv, LoadInv, LiveInv, NEW q \in Requests, NEW ids, Finish(q, ids),
         ListsKept, Known \subseteq Known' \cup ids, PaneLive', asked' = asked,
         Pending(q), ~ Answered(q, "load"), loaded' = loaded
  PROVE  ListInv' /\ LoadInv' /\ LiveInv' /\ Keeps
<1>1. /\ measured' = measured /\ rows' = rows /\ feed' = feed /\ socket' = socket /\ missed' = missed
  BY DEF Finish, serverVars, feedVars
<1>2. Numbers
  BY DEF ListInv
<1>3. ListInv'
  BY <1>1, <1>2, QuietStep DEF Numbers
<1> QED BY <1>3, AnswerLive, AnswerLoaded, KeptIsKept

(* What is deleted has no list. *)
LEMMA DeletedLists ==
  ASSUME TabInv, TabInv', ListInv, LoadInv, LiveInv, NEW q \in Requests, AnswerDelete(q)
  PROVE  ListInv' /\ LoadInv' /\ LiveInv' /\ Keeps
<1>1. PICK ids : ids = flight[q].about
  OBVIOUS
<1>2. /\ Pending(q) /\ ~ Answered(q, "load") /\ Finish(q, ids) /\ loaded' = loaded /\ asked' = asked
      /\ state' = [monitors |-> [m \in Known \ ids |-> state.monitors[m]], selected |-> {}, deleting |-> {},
                   pane |-> IF Shows(state.pane, ids) THEN Pane("none") ELSE state.pane]
  BY <1>1 DEF AnswerDelete, Answered, Asked, deleteMonitorAction
<1>3. /\ Known' = Known \ ids /\ ListsKept
      /\ state'.pane = IF Shows(state.pane, ids) THEN Pane("none") ELSE state.pane
  BY <1>2 DEF Known, ListsKept
<1>4. PaneLive'
  BY <1>3, PanesAre DEF LiveInv, PaneLive, IsLive, Shows
<1> QED BY <1>2, <1>3, <1>4, AnswerLists

(* A toggled monitor has its list. *)
LEMMA ToggledLists ==
  ASSUME TabInv, TabInv', ListInv, LoadInv, LiveInv, NEW q \in Requests, AnswerToggle(q)
  PROVE  ListInv' /\ LoadInv' /\ LiveInv' /\ Keeps
<1> DEFINE t == [m \in Known |-> IF m \in flight[q].about
                                 THEN [state.monitors[m] EXCEPT !.active = flight[q].active]
                                 ELSE state.monitors[m]]
<1>1. /\ Pending(q) /\ ~ Answered(q, "load") /\ Finish(q, {}) /\ loaded' = loaded /\ asked' = asked
      /\ state' = [monitors |-> t, selected |-> {}, deleting |-> {}, pane |-> state.pane]
  BY DEF AnswerToggle, Answered, Asked, toggleMonitorAction
<1>2. ASSUME NEW m \in Known PROVE t[m].list = state.monitors[m].list
  <2>1. PICK e : e = state.monitors[m] /\ IsEntry(e)
    BY StateFacts DEF IsTable, Known
  <2>2. [e EXCEPT !.active = flight[q].active] = [active |-> flight[q].active, list |-> e.list]
    BY <2>1, EntryExcept
  <2>3. t[m] \in {e, [active |-> flight[q].active, list |-> e.list]}
    BY <2>1, <2>2
  <2> QED BY <2>1, <2>3
<1>3. DOMAIN t = Known
  OBVIOUS
<1> HIDE DEF t
<1>4. Known' = Known /\ ListsKept /\ state'.pane = state.pane
  BY <1>1, <1>2, <1>3 DEF Known, ListsKept
<1>5. PaneLive'
  BY <1>4 DEF LiveInv, PaneLive, IsLive
<1> QED BY <1>1, <1>4, <1>5, AnswerLists

(* A saved monitor has the list it had, or none. *)
LEMMA SavedLists ==
  ASSUME TabInv, TabInv', ListInv, LoadInv, LiveInv, NEW q \in Requests, AnswerSave(q)
  PROVE  ListInv' /\ LoadInv' /\ LiveInv' /\ Keeps
<1>1. /\ Pending(q) /\ ~ Answered(q, "load") /\ Finish(q, flight[q].about) /\ loaded' = loaded
      /\ asked' = asked
  BY DEF AnswerSave, Answered, Asked
<1>2. PICK m \in flight[q].about : state' = overwriteMonitorAction(m, flight[q].active)
  BY DEF AnswerSave
<1>3. PICK list : list = IF m \in Known THEN state.monitors[m].list ELSE <<>>
  OBVIOUS
<1> DEFINE t == [n \in Known \cup {m} |->
                   IF n = m THEN [active |-> flight[q].active, list |-> list] ELSE state.monitors[n]]
<1>4. \E selected : state' = [monitors |-> t, selected |-> selected, deleting |-> state.deleting,
                               pane |-> PaneOf("editor", Object(m, TRUE))]
  BY <1>2, <1>3 DEF overwriteMonitorAction
<1>5. /\ DOMAIN t = Known \cup {m} /\ t[m].list = list
      /\ \A n \in Known \ {m} : t[n] = state.monitors[n]
  OBVIOUS
<1> HIDE DEF t
<1>6. state'.monitors = t /\ state'.pane = PaneOf("editor", Object(m, TRUE))
  BY <1>4
<1>7. Known' = Known \cup {m} /\ ListsKept
  BY <1>3, <1>5, <1>6 DEF Known, ListsKept
<1>8. PaneLive'
  BY <1>6, <1>7 DEF PaneLive, IsLive, PaneOf, Object
<1> QED BY <1>1, <1>7, <1>8, AnswerLists

(* What is shown of the past is not live. *)
LEMMA HistoryLists ==
  ASSUME TabInv, TabInv', ListInv, LoadInv, LiveInv, NEW q \in Requests, AnswerHistory(q)
  PROVE  ListInv' /\ LoadInv' /\ LiveInv' /\ Keeps
<1>1. /\ Pending(q) /\ ~ Answered(q, "load") /\ Finish(q, {}) /\ loaded' = loaded /\ asked' = asked
  BY DEF AnswerHistory, Answered, Asked
<1>2. PICK m \in flight[q].about : state' = viewPaneAction(Object(m, FALSE), TRUE)
  BY DEF AnswerHistory
<1>3. PICK o : o = Object(m, FALSE)
  OBVIOUS
<1>4. state' = [state EXCEPT !.pane = PaneOf("view", o)]
  BY <1>2, <1>3 DEF viewPaneAction, SetPane
<1>5. state'.monitors = state.monitors /\ state'.pane = PaneOf("view", o)
  BY <1>4, StateFacts, ExceptKeeps
<1>6. Known' = Known /\ ListsKept
  BY <1>5 DEF Known, ListsKept
<1>7. PaneLive'
  BY <1>3, <1>5 DEF PaneLive, IsLive, PaneOf, Object
<1> QED BY <1>1, <1>6, <1>7, AnswerLists

(* A list that was pruned. *)
LEMMA PrunedLists ==
  ASSUME TabInv, TabInv', ListInv, LoadInv, LiveInv, NEW q \in Requests, AnswerPrune(q)
  PROVE  ListInv' /\ LoadInv' /\ LiveInv' /\ Keeps
<1>1. /\ Pending(q) /\ Asked(q, "prune") /\ ~ Answered(q, "load") /\ Finish(q, {}) /\ loaded' = loaded
  BY DEF AnswerPrune, Answered, Asked
<1>2. PICK o : o = flight[q].monitor
  OBVIOUS
<1>3. PICK s : s = addMeasurementAction(o.id, flight[q].ids)
  OBVIOUS
<1>4. IsState(s) /\ DOMAIN s.monitors = Known /\ s.pane = state.pane
  <2>1. CASE o.id \notin Known
    <3>1. s = state
      BY <1>3, <2>1 DEF addMeasurementAction
    <3> QED BY <3>1, StateFacts DEF Known
  <2>2. CASE o.id \in Known
    <3>1. PICK m \in Known : m = o.id
      BY <2>2
    <3>2. PICK list : list = Without(state.monitors[m].list, flight[q].ids)
      OBVIOUS
    <3>3. s = WithList(m, list)
      BY <1>3, <3>1, <3>2 DEF addMeasurementAction
    <3> QED BY <3>3, StateFacts, WithListFacts
  <2> QED BY <2>1, <2>2
<1>5. /\ DOMAIN state'.monitors = Known
      /\ state'.pane = state.pane \/ state'.pane = PaneOf("view", o)
  <2>1. CASE state' = s
    BY <1>4, <2>1
  <2>2. CASE state' = [s EXCEPT !.pane = PaneOf("view", o)]
    BY <1>4, <2>2, ExceptKeeps
  <2> QED BY <1>2, <1>3, <2>1, <2>2 DEF AnswerPrune
<1>6. IsLive(o) /\ Known' = Known
  BY <1>1, <1>2, <1>5 DEF LiveInv, Prunes, Known
<1>7. PaneLive'
  BY <1>5, <1>6 DEF LiveInv, PaneLive, IsLive, PaneOf
<1>8. LiveInv'
  BY <1>1, <1>6, <1>7, AnswerLive
<1> QED BY <1>1, <1>8, PruneLists, AnswerLoaded

(* The tab has the lists that were loaded. *)
LEMMA LoadedLists ==
  ASSUME TabInv, TabInv', ListInv, LoadInv, LiveInv, NEW q \in Requests, AnswerLoad(q)
  PROVE  ListInv' /\ LoadInv' /\ LiveInv' /\ Keeps
<1>1. /\ Asked(q, "load") /\ Finish(q, {}) /\ loaded' = <<>> /\ asked' = asked
      /\ state' = [monitors |-> loaded, selected |-> {}, deleting |-> {}, pane |-> Pane("none")]
  BY DEF AnswerLoad, Answered, resetAction
<1>2. state'.monitors = loaded /\ state'.pane = Pane("none") /\ Known = {}
  BY <1>1 DEF TabInv, Loading
<1>3. /\ measured' = measured /\ rows' = rows /\ feed' = feed /\ socket' = socket /\ missed' = missed
  BY <1>1 DEF Finish, serverVars, feedVars
<1>4. Numbers
  BY DEF ListInv
<1>5. ListInv'
  BY <1>1, <1>2, <1>3, <1>4, QuietStep DEF Numbers
<1>6. PaneLive'
  BY <1>2, PanesAre DEF PaneLive
<1>7. LiveInv'
  BY <1>1, <1>2, <1>6, AnswerLive
<1> QED BY <1>1, <1>2, <1>5, <1>7 DEF LoadInv, Keeps

(* A request that failed changes no list. *)
LEMMA FailedLists ==
  ASSUME TabInv, TabInv', ListInv, LoadInv, LiveInv, NEW q \in Requests, AnswerError(q) \/ Lose(q)
  PROVE  ListInv' /\ LoadInv' /\ LiveInv' /\ Keeps
<1>1. /\ Pending(q) /\ Finish(q, {}) /\ asked' = asked
      /\ state' = state \/ state' = queueMonitorDeleteAction({})
      /\ \/ loaded' = loaded /\ ~ Answered(q, "load")
         \/ loaded' = <<>>
  BY DEF AnswerError, Lose, Answered, Asked
<1>2. state'.monitors = state.monitors /\ state'.pane = state.pane
  <2>1. CASE state' = state
    BY <2>1
  <2>2. CASE state' = queueMonitorDeleteAction({})
    <3>1. PICK v : state' = [state EXCEPT !.deleting = v]
      BY <2>2 DEF queueMonitorDeleteAction
    <3> QED BY <3>1, StateFacts, ExceptKeeps
  <2> QED BY <1>1, <2>1, <2>2
<1>3. /\ measured' = measured /\ rows' = rows /\ feed' = feed /\ socket' = socket /\ missed' = missed
  BY <1>1 DEF Finish, serverVars, feedVars
<1>4. Known' = Known /\ ListsKept /\ Numbers
  BY <1>2 DEF Known, ListsKept, ListInv
<1>5. ListInv'
  BY <1>1, <1>3, <1>4, QuietStep DEF Numbers
<1>6. PaneLive'
  BY <1>2, <1>4 DEF LiveInv, PaneLive, IsLive
<1>7. LiveInv'
  BY <1>1, <1>4, <1>6, AnswerLive
<1>8. LoadInv'
  BY <1>1, AnswerLoaded DEF LoadInv
<1> QED BY <1>4, <1>5, <1>7, <1>8, KeptIsKept

-----------------------------------------------------------------------------
(* Every step. *)

Lists == ListInv /\ LoadInv /\ LiveInv

(* At first there are no lists, and nothing is on its way. *)
LEMMA ListsInitially == Init => Lists
<1> SUFFICES ASSUME Init PROVE Lists
  OBVIOUS
<1>1. /\ state = [monitors |-> <<>>, selected |-> {}, deleting |-> {}, pane |-> Pane("none")]
      /\ loaded = <<>> /\ rows = FirstRows /\ asked = 0 /\ feed = <<>> /\ socket = "connecting" /\ missed = {}
  BY DEF Init, resetAction
<1>2. Known = {} /\ DOMAIN loaded = {}
  BY <1>1, EmptyTable DEF Known
<1>3. measured \in [Monitors -> SUBSET (1 .. rows)]
  BY <1>1 DEF Init
<1>4. Numbers
  BY <1>1, <1>3, InventoryAssumption DEF Numbers
<1>5. FeedInv
  <2>1. feed \in Seq([monitor : Monitors, row : Nat]) /\ Len(feed) = 0
    BY <1>1
  <2>2. rows \in Nat /\ Backlog \in Nat
    BY <1>1, InventoryAssumption
  <2> QED BY <1>1, <2>1, <2>2 DEF FeedInv
<1>6. LoadInv
  BY <1>1 DEF LoadInv
<1>7. PaneLive
  BY <1>1, PanesAre DEF PaneLive
<1>8. ASSUME NEW q \in Requests PROVE Prunes(q)
  <2>1. flight[q] \in {Closure("load", Monitors), NoRequest}
    BY DEF Init
  <2>2. flight[q].op # "prune"
    BY <2>1 DEF Closure, NoRequest
  <2> QED BY <2>2 DEF Prunes, Asked
<1>9. ListInv
  BY <1>2, <1>4, <1>5 DEF ListInv
<1> QED BY <1>6, <1>7, <1>8, <1>9 DEF Lists, LiveInv

(* The state, the requests and what was loaded are as they were. *)
LEMMA CalmStep ==
  ASSUME TabInv, ListInv, LoadInv, LiveInv, ListInv', state' = state, flight' = flight, loaded' = loaded,
         rows' \in {rows, rows + 1},
         \A m \in Monitors : measured'[m] \subseteq measured[m] \cup {rows + 1}
  PROVE  Lists' /\ Keeps
<1>1. Known' = Known /\ ListsKept
  BY DEF Known, ListsKept
<1>2. PaneLive'
  BY <1>1 DEF LiveInv, PaneLive, IsLive
<1>3. rows \in Nat
  BY NumberFacts
<1>4. LiveInv'
  BY <1>1, <1>2, <1>3, LiveStep
<1>5. LoadInv'
  BY DEF LoadInv, Answered, Asked, Pending
<1> QED BY <1>1, <1>4, <1>5, KeptIsKept DEF Lists

(* Nothing happens, or the tab is subscribed to the feed. *)
LEMMA IdleLists ==
  ASSUME TabInv, TabInv', ListInv, LoadInv, LiveInv, (UNCHANGED vars) \/ Subscribe
  PROVE  Lists' /\ Keeps
<1>1. /\ state' = state /\ flight' = flight /\ loaded' = loaded /\ asked' = asked
      /\ measured' = measured /\ rows' = rows /\ feed' = feed /\ missed' = missed
      /\ socket' \in {socket, "open"}
  BY DEF vars, clientVars, serverVars, feedVars, Subscribe
<1>2. Numbers
  BY DEF ListInv
<1>3. ListsKept
  BY <1>1 DEF Known, ListsKept
<1>4. ListInv'
  BY <1>1, <1>2, <1>3, QuietStep DEF Numbers
<1> QED BY <1>1, <1>4, CalmStep

(* A measurement is stored, or the feed is lost. *)
LEMMA ServerLists ==
  ASSUME TabInv, ListInv, LoadInv, LiveInv, LoseFeed \/ \E m \in Monitors : Measure(m)
  PROVE  Lists' /\ Keeps
<1>1. CASE LoseFeed
  <2>1. state' = state /\ flight' = flight /\ loaded' = loaded /\ rows' = rows /\ measured' = measured
    BY <1>1 DEF LoseFeed, clientVars, serverVars
  <2>2. ListInv'
    BY <1>1, LoseFeedLists
  <2> QED BY <2>1, <2>2, CalmStep
<1>2. ASSUME NEW m \in Monitors, Measure(m) PROVE Lists' /\ Keeps
  <2>1. /\ state' = state /\ flight' = flight /\ loaded' = loaded /\ rows' = rows + 1
        /\ measured' = [measured EXCEPT ![m] = measured[m] \cup {rows + 1}]
    BY <1>2 DEF Measure, clientVars
  <2>2. measured = [n \in Monitors |-> measured[n]]
    BY DEF ListInv, Numbers
  <2>3. \A n \in Monitors : measured'[n] \subseteq measured[n] \cup {rows + 1}
    BY <2>1, <2>2
  <2>4. ListInv'
    BY <1>2, MeasureLists
  <2> QED BY <2>1, <2>3, <2>4, CalmStep
<1> QED BY <1>1, <1>2

(* The feed brings a measurement. *)
LEMMA BroughtLists ==
  ASSUME TabInv, ListInv, LoadInv, LiveInv, Deliver
  PROVE  Lists' /\ Keeps
<1>1. /\ \E m, row : state' = pollAction(m, row)
      /\ flight' = flight /\ loaded' = loaded /\ rows' = rows /\ measured' = measured
  BY DEF Deliver, serverVars
<1>2. Known' = Known /\ state'.pane = state.pane
  <2>1. PICK m, row : state' = pollAction(m, row)
    BY <1>1
  <2>2. CASE m \notin Known
    BY <2>1, <2>2 DEF pollAction, Known
  <2>3. CASE m \in Known
    <3>1. PICK list : state' = WithList(m, list)
      BY <2>1, <2>3 DEF pollAction
    <3> QED BY <2>3, <3>1, StateFacts, WithListFacts DEF Known
  <2> QED BY <2>2, <2>3
<1>3. ListInv' /\ Keeps
  BY DeliverLists
<1>4. PaneLive'
  BY <1>2 DEF LiveInv, PaneLive, IsLive
<1>5. rows \in Nat
  BY NumberFacts
<1>6. LiveInv'
  BY <1>1, <1>2, <1>4, <1>5, LiveStep
<1>7. LoadInv'
  BY <1>1 DEF LoadInv, Answered, Asked, Pending
<1> QED BY <1>3, <1>6, <1>7 DEF Lists

(* Every step keeps the lists as they should be, and drops only to make room. *)
LEMMA ListsStep == TabInv /\ Lists /\ [Next]_vars => Lists' /\ Keeps
<1> SUFFICES ASSUME TabInv, Lists, [Next]_vars PROVE Lists' /\ Keeps
  OBVIOUS
<1>1. TabInv'
  BY TabStep
<1>2. ListInv /\ LoadInv /\ LiveInv
  BY DEF Lists
<1>3. CASE UNCHANGED vars
  BY <1>1, <1>2, <1>3, IdleLists
<1>4. CASE User
  BY <1>1, <1>2, <1>4, UserLists, AsksLists DEF User, Lists
<1>5. CASE Server
  <2>1. CASE \E m \in Monitors : Measure(m)
    BY <1>2, <2>1, ServerLists
  <2>2. ASSUME NEW q \in Requests,
               \/ RunLoad(q) \/ RunDelete(q) \/ RunToggle(q) \/ RunUpdate(q)
               \/ RunCreate(q) \/ RunHistory(q) \/ RunPrune(q) \/ Refuse(q)
        PROVE  Lists' /\ Keeps
    BY <1>1, <1>2, <2>2, ServesLists DEF Lists
  <2> QED BY <1>5, <2>1, <2>2 DEF Server
<1>6. CASE Arrival
  <2>1. CASE Subscribe
    BY <1>1, <1>2, <2>1, IdleLists
  <2>2. CASE LoseFeed
    BY <1>2, <2>2, ServerLists
  <2>3. CASE Deliver
    BY <1>2, <2>3, BroughtLists
  <2>4. ASSUME NEW q \in Requests, AnswerLoad(q) \/ AnswerError(q) \/ Lose(q) PROVE Lists' /\ Keeps
    BY <1>1, <1>2, <2>4, LoadedLists, FailedLists DEF Lists
  <2>5. ASSUME NEW q \in Requests, AnswerDelete(q) \/ AnswerToggle(q) \/ AnswerSave(q)
        PROVE  Lists' /\ Keeps
    BY <1>1, <1>2, <2>5, DeletedLists, ToggledLists, SavedLists DEF Lists
  <2>6. ASSUME NEW q \in Requests, AnswerHistory(q) \/ AnswerPrune(q) PROVE Lists' /\ Keeps
    BY <1>1, <1>2, <2>6, HistoryLists, PrunedLists DEF Lists
  <2> QED BY <1>6, <2>1, <2>2, <2>3, <2>4, <2>5, <2>6 DEF Arrival
<1> QED BY <1>3, <1>4, <1>5, <1>6 DEF Next

(* The lists are always as they should be. *)
THEOREM ListsAlways == Spec => [](TabInv /\ Lists)
<1>1. Init => TabInv /\ Lists
  BY TabInitially, ListsInitially
<1>2. TabInv /\ Lists /\ [Next]_vars => TabInv' /\ Lists'
  BY TabStep, ListsStep
<1> QED BY <1>1, <1>2, PTL DEF Spec

(* However the answer to the first load, the feed, deletions and edits are interleaved, a list holds
   the newest of what the feed brought and still exists, in order, with nothing left out between. *)
THEOREM ListsAlwaysRight == Spec => []ListsRight
<1>1. TabInv /\ Lists => ListsRight
  <2> SUFFICES ASSUME TabInv, ListInv PROVE ListsRight
    BY DEF Lists
  <2>1. ASSUME NEW m \in Known PROVE IsRight(m, state.monitors[m].list)
    BY DEF ListInv
  <2>2. ASSUME NEW m \in Known, NEW list, list = state.monitors[m].list
        PROVE  /\ DOMAIN list = 1 .. Len(list) /\ \A i \in 1 .. Len(list) : list[i] \in 1 .. rows
               /\ \A x : x \in ToSet(list) <=> \E i \in 1 .. Len(list) : list[i] = x
    <3>1. PICK S : S = 1 .. rows
      OBVIOUS
    <3>2. list \in Seq(S)
      BY <2>1, <2>2, <3>1 DEF IsRight, Right
    <3> QED BY <3>1, <3>2, PlacesOf
  <2>3. Ordered
    <3> SUFFICES ASSUME NEW m \in Known, NEW list, list = state.monitors[m].list,
                        NEW i \in DOMAIN list, NEW j \in DOMAIN list,
                        list[i] \in Timely(m), list[j] \in Timely(m), i < j
                 PROVE  list[i] < list[j]
      BY DEF Ordered
    <3>1. DOMAIN list = 1 .. Len(list)
      BY <2>2
    <3> QED BY <2>1, <3>1 DEF IsRight, Right
  <2>4. NothingMissed
    <3> SUFFICES ASSUME NEW m \in Known, NEW r \in Timely(m), NEW list, list = state.monitors[m].list,
                        r \notin missed, r \notin ToSet(list), ~ \E i \in DOMAIN feed : feed[i].row = r
                 PROVE  \A n \in ToSet(list) \cap Timely(m) : n > r
      BY DEF NothingMissed
    <3>1. rows \in Nat /\ Len(feed) \in 0 .. rows /\ r \in 1 .. rows
      BY NumberFacts
    <3>2. ~ (r > rows - Len(feed))
      <4>1. DOMAIN feed = 1 .. Len(feed)
        BY DEF ListInv, FeedInv
      <4>2. PICK n \in 0 .. rows : n = Len(feed)
        BY <3>1
      <4>3. ASSUME r > rows - n PROVE r - (rows - n) \in 1 .. n /\ r = (rows - n) + (r - (rows - n))
        BY ONLY <3>1, <4>3, n \in 0 .. rows
      <4>4. ASSUME NEW i \in 1 .. n PROVE feed[i].row = (rows - n) + i
        BY <4>2 DEF ListInv, FeedInv
      <4>5. ASSUME NEW i \in 1 .. n, r = (rows - n) + i PROVE FALSE
        BY <4>1, <4>2, <4>4, <4>5
      <4> QED BY <4>2, <4>3, <4>5
    <3>3. \A i \in 1 .. Len(list) : list[i] \in Timely(m) => r < list[i]
      BY <2>1, <2>2, <3>2 DEF IsRight, Right
    <3> SUFFICES ASSUME NEW n \in ToSet(list) \cap Timely(m) PROVE n > r
      OBVIOUS
    <3>4. PICK i \in 1 .. Len(list) : list[i] = n
      BY <2>2
    <3>5. r < n /\ n \in Nat /\ r \in Nat
      BY <2>2, <3>1, <3>3, <3>4
    <3> QED BY ONLY <3>5
  <2> QED BY <2>3, <2>4 DEF ListsRight
<1> QED BY <1>1, ListsAlways, PTL

(* A step drops measurements that exist only from a full list, and never one of the newest
   inventoryBatchSize. *)
THEOREM NewestAreKept == Spec => KeepsNewest
<1> DEFINE Kept == \A m \in Known \cap DOMAIN state'.monitors :
                     LET list == state.monitors[m].list
                     IN \A i \in DOMAIN list :
                          \/ list[i] \in ToSet(state'.monitors[m].list)
                          \/ list[i] \notin measured[m]
                          \/ Len(list) = MaxMeasurements /\ i <= Len(list) - BatchSize
<1>1. TabInv /\ Lists /\ [Next]_vars => [Kept]_vars
  <2>1. Keeps => Kept
    BY DEF Keeps, Known
  <2> QED BY <2>1, ListsStep
<1> HIDE DEF Kept
<1>2. Spec => [][Kept]_vars
  BY <1>1, ListsAlways, PTL DEF Spec
<1> QED BY <1>2 DEF KeepsNewest, Kept

(* The types of all variables. *)
THEOREM TypeCorrect == Spec => []TypeOK
<1>1. TabInv /\ Lists => TypeOK
  <2> SUFFICES ASSUME TabInv, ListInv PROVE TypeOK
    BY DEF Lists
  <2>1. Numbers /\ FeedInv
    BY DEF ListInv
  <2>2. FirstRows + MaxWork \in Nat /\ rows \in Nat /\ asked \in Nat /\ rows + asked <= FirstRows + MaxWork
    BY <2>1, InventoryAssumption DEF Numbers
  <2>3. 1 .. rows \subseteq Rows
    BY <2>2 DEF Rows
  <2>4. ASSUME NEW m \in Known
        PROVE  /\ state.monitors[m].active \in BOOLEAN
               /\ ToSet(state.monitors[m].list) \subseteq Rows
               /\ Len(state.monitors[m].list) <= MaxMeasurements
    <3>1. PICK S, list : S = 1 .. rows /\ list = state.monitors[m].list
      OBVIOUS
    <3>2. list \in Seq(S) /\ Len(list) <= MaxMeasurements
      BY <3>1 DEF ListInv, IsRight, Right
    <3>3. ToSet(list) \subseteq S
      BY <3>2, ElementsIn
    <3>4. state.monitors[m].active \in BOOLEAN
      BY StateFacts DEF IsTable, IsEntry, Known
    <3> QED BY <2>3, <3>1, <3>2, <3>3, <3>4
  <2>5. state.pane \in {Pane("none"), Pane("draft")} \cup {PaneOf("view", o) : o \in Objects}
                       \cup {PaneOf("editor", o) : o \in Objects}
    BY StateFacts DEF IsPane
  <2>6. ASSUME NEW q \in Requests, Pending(q)
        PROVE  flight[q].at \in {"asked", "ok", "error"} /\ flight[q].about \subseteq Monitors
    BY <2>6 DEF TabInv, IsRequest, Pending
  <2>7. ASSUME NEW i \in DOMAIN feed PROVE feed[i] \in [monitor : Monitors, row : Rows]
    <3>1. DOMAIN feed = 1 .. Len(feed) /\ Len(feed) \in 0 .. rows
      BY <2>1, NumberFacts DEF FeedInv
    <3>2. feed[i] \in [monitor : Monitors, row : Nat]
      <4>1. PICK S : S = [monitor : Monitors, row : Nat]
        OBVIOUS
      <4>2. feed \in Seq(S)
        BY <2>1, <4>1 DEF FeedInv
      <4> QED BY <2>7, <3>1, <4>1, <4>2, PlacesOf
    <3>3. feed[i].row = (rows - Len(feed)) + i
      BY <2>1, <2>7, <3>1 DEF FeedInv
    <3>4. feed[i].row \in 1 .. rows
      BY <2>2, <2>7, <3>1, <3>3
    <3> QED BY <2>3, <3>2, <3>4
  <2>8. measured \in [Monitors -> SUBSET Rows] /\ missed \subseteq Rows /\ rows + asked \in 0 .. (FirstRows + MaxWork)
    BY <2>1, <2>2, <2>3 DEF Numbers
  <2>9. /\ Known \subseteq Monitors /\ state.selected \subseteq Objects /\ state.deleting \subseteq Monitors
        /\ store \in [Monitors -> BOOLEAN \cup {None}] /\ issued \subseteq Monitors /\ doubt \subseteq Monitors
    BY StateFacts DEF TabInv, ServerTyped, Known
  <2>10. socket \in {"connecting", "open", "lost"}
    BY <2>1 DEF FeedInv
  <2> QED BY <2>4, <2>5, <2>6, <2>7, <2>8, <2>9, <2>10 DEF TypeOK
<1> QED BY <1>1, ListsAlways, PTL
=============================================================================
