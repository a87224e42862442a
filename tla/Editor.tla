------------------------------- MODULE Editor -------------------------------
(***************************************************************************)
(* The form in which monitors are made and changed: the component Editor,  *)
(* what it lets the user save, what a save sends, what the server makes of *)
(* it, and what the answer does to the inventory and to the form, which    *)
(* the user may have changed or left by then.                              *)
(*                                                                         *)
(* A monitor is a record of the fields that validation, the probes or the  *)
(* form tell apart.  Numbers stand for ranges: -1 for any negative one,    *)
(* 0, 1 for any positive one that a column holds, Huge for those that none *)
(* does, and Fraction for what is no whole number.                         *)
(* A list of arguments or of headers has at most one row, and a monitor    *)
(* has at most one event.                                                  *)
(***************************************************************************)
EXTENDS Integers, Sequences, FiniteSets

CONSTANTS
  Plugins,    \* the plugins the server has
  Ports,      \* what is typed for a port
  Fraction,   \* a number that is not whole
  MaxId,      \* bound: ids of monitors
  MaxCalls,   \* bound: requests in flight
  MaxEdits,   \* bound: edits of the form and monitors toggled
  None        \* null

ASSUME EditorAssumption ==
  /\ Ports \subseteq Int \cup {Fraction} /\ Fraction \notin Int /\ MaxId \in Nat \ {0}
  /\ MaxCalls \in Nat /\ MaxEdits \in Nat

VARIABLES
  store,      \* the monitors on the server, by id
  inventory,  \* the monitors of the client
  form,       \* the pane: which monitor it shows, its draft and its original
  calls,      \* the requests in flight and their answers, by slot
  edits,      \* edits and toggles so far
  doubt       \* monitors the client may be wrong about: an answer was lost, did not
              \* tell what the server had done or was refused after it was done, two
              \* requests met, or a header was typed while it was being saved

vars == <<store, inventory, form, calls, edits, doubt>>

Ids == 1 .. MaxId
Slots == 1 .. MaxCalls
Kinds == {"HTTP", "TCP", "ICMP", "PLUGIN"}

(* What belongs to one kind of probe; the other HTTP fields go with method. *)
HttpFields == {"method", "range", "headers"}
EchoFields == {"size", "wait", "count", "ttl"}
IcmpFields == EchoFields \cup {"protocol", "loss"}
PluginFields == {"plugin", "args"}
NumberFields == EchoFields \cup {"interval", "timeout"}

FirstPlugin == IF Plugins = {} THEN None ELSE CHOOSE p \in Plugins : TRUE

(* The defaults of a draft. *)
Defaults ==
  [name |-> None, kind |-> "PLUGIN", active |-> FALSE, interval |-> 1, timeout |-> 1,
   address |-> None, port |-> None, plugin |-> FirstPlugin, args |-> <<>>,
   method |-> "GET", range |-> "2xx", headers |-> <<>>,
   size |-> 1, wait |-> 1, count |-> 1, ttl |-> 1, protocol |-> "ICMP", loss |-> 0,
   events |-> <<>>]
Fields == DOMAIN Defaults

(* What monitors, requests and the pane are. *)
Huge == 2
Numbers == {None, Fraction, -1, 0, 1, Huge}
RowLists == {<<>>, <<"">>, <<"a">>}
EventSet == [plugin : Plugins \cup {None}, args : RowLists \cup {None}]
MonitorSet ==
  [name : {None, "a"}, kind : Kinds, active : BOOLEAN, interval : Numbers, timeout : Numbers,
   address : {None, "a"}, port : Ports \cup {None, 0}, plugin : Plugins \cup {None}, args : RowLists,
   method : {None, "GET", "OPTIONS"}, range : {None, "2xx", "4xx"}, headers : RowLists,
   size : Numbers, wait : Numbers, count : Numbers, ttl : Numbers,
   protocol : {None, "ICMP", "UDP"}, loss : {None, 0, 1},
   events : {list \in Seq(EventSet) : Len(list) <= 1}]
CallSet ==
  [kind : {"save", "toggle"}, status : {"asked", "ok", "refused", "failed"}, id : 0 .. MaxId,
   value : MonitorSet, sent : RowLists, shared : BOOLEAN, here : BOOLEAN]
FormSet ==
  [open : BOOLEAN, id : 0 .. MaxId, draft : MonitorSet \cup {None}, original : MonitorSet \cup {None},
   errors : BOOLEAN, toggled : BOOLEAN]

ASSUME NoneAssumption ==
  /\ None \notin Plugins /\ None \notin Int \cup {Fraction} /\ None \notin RowLists
  /\ None \notin {"a", "GET", "OPTIONS", "2xx", "4xx", "ICMP", "UDP"}
  /\ None \notin Seq(EventSet) /\ None \notin MonitorSet /\ None \notin CallSet

reset(m) ==
  IF m = None THEN Defaults
  ELSE [f \in Fields |-> IF m[f] = None THEN Defaults[f] ELSE m[f]]

(* What a monitor of this kind is sent without. *)
Cleared(kind) ==
  CASE kind = "HTTP" -> IcmpFields \cup PluginFields
    [] kind = "TCP" -> HttpFields \cup IcmpFields \cup PluginFields
    [] kind = "ICMP" -> HttpFields \cup {"port", "plugin"}
    [] kind = "PLUGIN" -> HttpFields \cup IcmpFields \cup {"address", "port"}

(* Seeded bug: the lists are cleared like the rest. *)
sanitizeToNull(draft) ==
  [f \in Fields |-> IF f \notin Cleared(draft.kind) THEN draft[f] ELSE None]

sanitize(draft) ==
  [f \in Fields |-> IF f \notin Cleared(draft.kind) THEN draft[f]
                    ELSE IF f \in {"args", "headers"} THEN <<>> ELSE None]

-----------------------------------------------------------------------------
(* Validation by the client. *)

(* What the form and the tables take for a port. *)
MaxPort == 65535

(* None of them takes null or what is not whole. *)
isValidNonZeroWholeNumber(n) == n \in Int /\ n > 0
isValidTimeout(n) == n \in Int /\ n >= 0
isValidRemotePort(n) == n \in 0 .. MaxPort

(* No row is blank. *)
isValidArgs(args) == args # None => \A i \in DOMAIN args : args[i] # ""
isValidEvent(event) == event.plugin # None /\ isValidArgs(event.args)

(* Seeded bug: the port is optional, as it is to the server. *)
isValidWithoutPort(draft) ==
  CASE draft.kind = "HTTP" -> draft.address # None /\ draft.range # None
    [] draft.kind = "ICMP" -> /\ draft.address # None
                              /\ \A f \in EchoFields : isValidNonZeroWholeNumber(draft[f])
    [] draft.kind = "TCP" -> draft.address # None
    [] draft.kind = "PLUGIN" -> draft.plugin # None /\ isValidArgs(draft.args)

isValidProbe(draft) ==
  CASE draft.kind = "HTTP" -> draft.address # None /\ draft.range # None
    [] draft.kind = "ICMP" -> /\ draft.address # None
                              /\ \A f \in EchoFields : isValidNonZeroWholeNumber(draft[f])
    [] draft.kind = "TCP" -> draft.address # None /\ isValidRemotePort(draft.port)
    [] draft.kind = "PLUGIN" -> draft.plugin # None /\ isValidArgs(draft.args)

(* Seeded bug: events are not looked at. *)
isValidIgnoringEvents(draft) ==
  /\ draft.name # None
  /\ isValidNonZeroWholeNumber(draft.interval) /\ isValidTimeout(draft.timeout)
  /\ isValidProbe(draft)

isValidMonitor(draft) ==
  /\ draft.name # None
  /\ isValidNonZeroWholeNumber(draft.interval) /\ isValidTimeout(draft.timeout)
  /\ \A i \in DOMAIN draft.events : isValidEvent(draft.events[i])
  /\ isValidProbe(draft)

-----------------------------------------------------------------------------
(* Decoding and validation by the server: null is 0 in a field that is no
   pointer, numbers are whole, and a port is a signed number of 16 bits. *)

Int16 == -(2^15) .. 2^15 - 1

Decodes(m) ==
  /\ \A f \in NumberFields : m[f] \in Int \cup {None}
  /\ m.port # None => m.port \in Int16

Validate(m) ==
  /\ m.name # None
  /\ m.interval \notin {None, 0} /\ m.timeout \notin {None, 0}
  /\ m.kind # "PLUGIN" => m.address # None
  /\ m.kind = "HTTP" => m.range # None
  /\ m.kind = "PLUGIN" => m.plugin # None
  /\ \A i \in DOMAIN m.events :
       m.events[i].plugin # None /\ isValidArgs(m.events[i].args)

(* What the table checks: it has no method OPTIONS, and no room for some numbers. *)
Columns(m) ==
  /\ \A f \in NumberFields : m[f] # Huge
  /\ m.interval > 0 /\ m.method # "OPTIONS"
  /\ m.port # None => m.port \in 0 .. MaxPort
  /\ \A f \in EchoFields : m[f] # None => m[f] > 0

(* What the probe of a monitor reads without looking for nil. *)
Dereferenced(kind) ==
  CASE kind = "HTTP" -> {"address", "method", "range"}
    [] kind = "TCP" -> {"address", "port"}
    [] kind = "ICMP" -> EchoFields \cup {"address", "protocol"}
    [] kind = "PLUGIN" -> {"plugin"}

-----------------------------------------------------------------------------
(* The form.  toggled: the active state it started from has changed since. *)

Closed == [open |-> FALSE, id |-> 0, draft |-> None, original |-> None,
           errors |-> FALSE, toggled |-> FALSE]

(* A pane on another object: errors stay while the component does. *)
Show(id, m) == [open |-> TRUE, id |-> id, draft |-> reset(m), original |-> reset(m),
                errors |-> form.errors, toggled |-> FALSE]

canSave == form.draft # form.original /\ isValidMonitor(form.draft)

Free(c) == calls[c] = None
Asked(c) == ~ Free(c) /\ calls[c].status = "asked"
Waits(c, status) == ~ Free(c) /\ calls[c].status = status
InFlight == {c \in Slots : ~ Free(c)}

(* Its draft is split anew, so no request shares headers with it; if it is
   unmounted, no answer reaches it. *)
Parted(here) ==
  [c \in Slots |-> IF Free(c) THEN None
                   ELSE [calls[c] EXCEPT !.shared = FALSE, !.here = @ /\ here]]

Init ==
  /\ \E kind \in Kinds \cap (IF Plugins = {} THEN {"HTTP", "TCP", "ICMP"} ELSE Kinds) :
       store = [i \in Ids |->
                  IF i = 1 THEN sanitize([Defaults EXCEPT !.kind = kind, !.name = "a",
                                                          !.address = "a", !.port = 0,
                                                          !.headers = <<"a">>])
                  ELSE None]
  /\ inventory = store
  /\ form = Closed
  /\ calls = [c \in Slots |-> None]
  /\ edits = 0 /\ doubt = {}

(* The card of a monitor opens its form or closes it. *)
OpenMonitor(i) ==
  /\ inventory[i] # None
  /\ IF form.open /\ form.id = i THEN form' = Closed /\ calls' = Parted(FALSE)
     ELSE form' = Show(i, inventory[i]) /\ calls' = Parted(TRUE)
  /\ UNCHANGED <<store, inventory, edits, doubt>>

(* A draft that is open already stays as it is. *)
OpenDraft ==
  /\ ~ (form.open /\ form.id = 0)
  /\ form' = Show(0, None) /\ calls' = Parted(TRUE)
  /\ UNCHANGED <<store, inventory, edits, doubt>>

Close ==
  /\ form.open /\ form' = Closed /\ calls' = Parted(FALSE)
  /\ UNCHANGED <<store, inventory, edits, doubt>>

-----------------------------------------------------------------------------
(* The inputs.  An empty box is null; the slider's 0 is null; the last row to
   go leaves an event's arguments null, and those of the monitor empty. *)

Rows(rows) == IF rows = <<>> THEN {<<"">>} ELSE {<<>>, <<"">>, <<"a">>}
EventArgs(args) ==
  {IF rows = <<>> THEN None ELSE rows : rows \in Rows(IF args = None THEN <<>> ELSE args)}

(* Leaving PLUGIN forgets the plugin. *)
WithKind(draft, kind) ==
  [draft EXCEPT !.kind = kind,
                !.plugin = IF kind # "PLUGIN" THEN None
                           ELSE IF draft.plugin # None THEN draft.plugin ELSE FirstPlugin]

(* What the tab of the monitor shows in this kind, and what may be put there. *)
Typed(draft) ==
  CASE draft.kind = "HTTP" -> [address |-> {None, "a"}, method |-> {"GET", "OPTIONS"},
                               range |-> {"2xx", "4xx"}]
    [] draft.kind = "TCP" -> [address |-> {None, "a"}, port |-> Ports \cup {None}]
    [] draft.kind = "ICMP" -> [address |-> {None, "a"}, protocol |-> {"ICMP", "UDP"},
                               size |-> Numbers, wait |-> Numbers, count |-> Numbers,
                               ttl |-> Numbers, loss |-> {None, 1}]
    [] draft.kind = "PLUGIN" -> [plugin |-> Plugins, args |-> Rows(draft.args)]

EditedMonitor(draft) ==
  {[draft EXCEPT !.name = name] : name \in {None, "a"}}
  \cup {[draft EXCEPT !.active = active] : active \in BOOLEAN}
  \cup {[draft EXCEPT !.interval = n] : n \in Numbers}
  \cup {[draft EXCEPT !.timeout = n] : n \in Numbers}
  \cup {WithKind(draft, kind) : kind \in Kinds \ {draft.kind}}
  \cup UNION {{[draft EXCEPT ![f] = v] : v \in Typed(draft)[f]} : f \in DOMAIN Typed(draft)}

EditedEvents(draft) ==
  IF draft.events = <<>>
  THEN {[draft EXCEPT !.events = <<[plugin |-> FirstPlugin, args |-> <<>>]>>]}
  ELSE {[draft EXCEPT !.events = <<>>]}
       \cup {[draft EXCEPT !.events[1].plugin = p] : p \in Plugins}
       \cup {[draft EXCEPT !.events[1].args = args] : args \in EventArgs(draft.events[1].args)}

CanWork == edits < MaxEdits /\ edits' = edits + 1

Edit ==
  /\ CanWork /\ form.open
  /\ \E draft \in (EditedMonitor(form.draft) \cup EditedEvents(form.draft)) \ {form.draft} :
       form' = [form EXCEPT !.draft = draft]
  /\ UNCHANGED <<store, inventory, calls, doubt>>

(* A row that is typed into is changed in place, in every request that has it. *)
EditHeaders ==
  /\ CanWork /\ form.open /\ form.draft.kind = "HTTP"
  /\ \E headers \in Rows(form.draft.headers) \ {form.draft.headers} :
       /\ form' = [form EXCEPT !.draft.headers = headers]
       /\ calls' = [c \in Slots |->
                      IF Free(c) \/ ~ calls[c].shared THEN calls[c]
                      ELSE IF headers = <<>> THEN [calls[c] EXCEPT !.shared = FALSE]
                      ELSE [calls[c] EXCEPT !.value.headers = headers]]
  /\ UNCHANGED <<store, inventory, doubt>>

-----------------------------------------------------------------------------
(* Requests.  value: the monitor the closure holds; sent: the headers as they
   went out; shared: value's headers are those of the draft. *)

Call(kind, id, value) ==
  [kind |-> kind, status |-> "asked", id |-> id, value |-> value, sent |-> value.headers,
   shared |-> kind = "save" /\ value.headers # <<>>, here |-> TRUE]

Ask(call) ==
  /\ \E c \in Slots : /\ Free(c) /\ \A d \in Slots : d < c => ~ Free(d)
                      /\ calls' = [calls EXCEPT ![c] = call]
  /\ doubt' = IF call.id # 0 /\ \E c \in InFlight : calls[c].id = call.id
              THEN doubt \cup {call.id} ELSE doubt
  /\ UNCHANGED <<store, inventory, form>>

(* A monitor without an id is created.  The button stays enabled. *)
Save == form.open /\ canSave /\ Ask(Call("save", form.id, sanitize(form.draft))) /\ UNCHANGED edits

Toggle(i) ==
  /\ inventory[i] # None
  /\ CanWork
  /\ Ask(Call("toggle", i, [inventory[i] EXCEPT !.active = ~ @]))

Reply(c, status, id) == calls' = [calls EXCEPT ![c] = [@ EXCEPT !.status = status, !.id = id]]

Valid(c) == Decodes(calls[c].value) /\ Validate(calls[c].value)

(* A null list is stored like an empty one. *)
Filled(event) == [event EXCEPT !.args = IF @ = None THEN <<>> ELSE @]
Scanned(m) == [m EXCEPT !.events = [i \in DOMAIN @ |-> Filled(@[i])]]
Stored(c) == Scanned([calls[c].value EXCEPT !.headers = calls[c].sent])

(* The answer may be a failure although the monitor is stored. *)
ServeSave(c) ==
  /\ Asked(c) /\ calls[c].kind = "save" /\ Valid(c) /\ Columns(calls[c].value)
  /\ \E i \in Ids :
       /\ IF calls[c].id # 0 THEN i = calls[c].id
          ELSE store[i] = None /\ \A j \in 1 .. i - 1 : store[j] # None
       /\ store' = [store EXCEPT ![i] = Stored(c)]
       /\ \/ Reply(c, "ok", i) /\ UNCHANGED doubt
          \/ Reply(c, "failed", i) /\ doubt' = doubt \cup {i}
  /\ UNCHANGED <<inventory, form, edits>>

(* An error of the write is dropped, and the answer is that it was done; and
   when the monitors that were activated cannot be looked up afterwards, the
   answer is a failure although it was done. *)
ServeToggle(c) ==
  LET i == calls[c].id
      Done == store' = [store EXCEPT ![i].active = calls[c].value.active]
  IN /\ Asked(c) /\ calls[c].kind = "toggle"
     /\ \/ Done /\ Reply(c, "ok", i) /\ UNCHANGED doubt
        \/ UNCHANGED store /\ Reply(c, "ok", i) /\ doubt' = doubt \cup {i}
        \/ /\ calls[c].value.active
           /\ Done /\ Reply(c, "failed", i) /\ doubt' = doubt \cup {i}
     /\ UNCHANGED <<inventory, form, edits>>

(* Rejected with a list of errors, or failed without a word. *)
Refuse(c) ==
  /\ Asked(c)
  /\ Reply(c, IF calls[c].kind = "toggle" \/ Valid(c) THEN "failed" ELSE "refused", calls[c].id)
  /\ UNCHANGED <<store, inventory, form, edits, doubt>>

(* Seeded bug: the inventory learns, the pane does not. *)
AnswerSaveElsewhere(c) ==
  /\ Waits(c, "ok") /\ calls[c].kind = "save"
  /\ inventory' = [inventory EXCEPT ![calls[c].id] = calls[c].value]
  /\ doubt' = IF calls[c].value.headers # calls[c].sent THEN doubt \cup {calls[c].id} ELSE doubt
  /\ calls' = [calls EXCEPT ![c] = None]
  /\ UNCHANGED <<store, form, edits>>

(* The pane moves to the monitor that was saved, wherever the user is. *)
AnswerSave(c) ==
  /\ Waits(c, "ok") /\ calls[c].kind = "save"
  /\ inventory' = [inventory EXCEPT ![calls[c].id] = calls[c].value]
  /\ form' = Show(calls[c].id, calls[c].value)
  /\ doubt' = IF calls[c].value.headers # calls[c].sent THEN doubt \cup {calls[c].id} ELSE doubt
  /\ calls' = [Parted(TRUE) EXCEPT ![c] = None]
  /\ UNCHANGED <<store, edits>>

(* The object in the inventory changes; the form does not notice. *)
AnswerToggle(c) ==
  /\ Waits(c, "ok") /\ calls[c].kind = "toggle"
  /\ inventory' = [inventory EXCEPT ![calls[c].id].active = calls[c].value.active]
  /\ form' = IF form.open /\ form.id = calls[c].id THEN [form EXCEPT !.toggled = TRUE] ELSE form
  /\ calls' = [calls EXCEPT ![c] = None]
  /\ UNCHANGED <<store, edits, doubt>>

(* The errors, if there are any, are shown by the form that asked, and from
   then on. *)
AnswerRefused(c) ==
  /\ Waits(c, "refused") \/ Waits(c, "failed")
  /\ form' = IF calls[c].status = "refused" /\ calls[c].here
             THEN [form EXCEPT !.errors = TRUE] ELSE form
  /\ calls' = [calls EXCEPT ![c] = None]
  /\ UNCHANGED <<store, inventory, edits, doubt>>

(* The network fails, before the server or after. *)
Lose(c) ==
  /\ ~ Free(c)
  /\ doubt' = IF calls[c].status = "ok" THEN doubt \cup {calls[c].id} ELSE doubt
  /\ calls' = [calls EXCEPT ![c] = None]
  /\ UNCHANGED <<store, inventory, form, edits>>

Next ==
  \/ OpenDraft \/ Close \/ Edit \/ EditHeaders \/ Save
  \/ \E i \in Ids : OpenMonitor(i) \/ Toggle(i)
  \/ \E c \in Slots : \/ ServeSave(c) \/ ServeToggle(c) \/ Refuse(c)
                      \/ AnswerSave(c) \/ AnswerToggle(c) \/ AnswerRefused(c) \/ Lose(c)

Spec == Init /\ [][Next]_vars

-----------------------------------------------------------------------------
(* Properties. *)

(* Every variable has its type. *)
TypeOK ==
  /\ store \in [Ids -> MonitorSet \cup {None}] /\ inventory \in [Ids -> MonitorSet \cup {None}]
  /\ form \in FormSet
  /\ form.open => form.draft # None /\ form.original # None
  /\ calls \in [Slots -> CallSet \cup {None}]
  /\ edits \in 0 .. MaxEdits /\ doubt \subseteq Ids

(* Whatever kinds a monitor has been changed through, and whatever was typed
   while another kind was shown, what is stored has every field its probe
   dereferences: Validate (monitor.go:187) does not ask for all of them, and a
   probe that meets nil takes the server down. *)
ProbeReady ==
  \A i \in Ids : store[i] # None =>
    \A f \in Dereferenced(store[i].kind) : store[i][f] # None

(* What the form lets the user save, the server stores, but for a timeout of 0,
   a number that no column holds, the method OPTIONS, a port of a TCP monitor
   that needs 16 bits, and whatever was typed for a port before a TCP monitor
   was made an HTTP monitor: it is sent along, and nobody has looked at it
   (Editor.tsx:667-774). *)
BadPort(m) ==
  IF m.kind = "TCP" THEN m.port \in (0 .. MaxPort) \ Int16
  ELSE m.kind = "HTTP" /\ m.port \in Ports \ (Int16 \cap 0 .. MaxPort)

SaveAccepted ==
  form.open /\ canSave =>
    LET m == sanitize(form.draft)
    IN \/ Decodes(m) /\ Validate(m) /\ Columns(m)
       \/ m.timeout = 0 \/ (\E f \in NumberFields : m[f] = Huge)
       \/ m.method = "OPTIONS" \/ BadPort(m)

Quiet(i) == i \notin doubt /\ \A c \in InFlight : calls[c].id # i

(* When nothing about a monitor is under way, the inventory has what is
   stored, and the form that shows the monitor calls nothing a change but what
   differs from that; only the active state is not followed. *)
FormAgrees ==
  \A i \in Ids : Quiet(i) =>
    /\ IF store[i] = None THEN inventory[i] = None ELSE Scanned(inventory[i]) = store[i]
    /\ form.open /\ form.id = i =>
         \A f \in Fields \ (IF form.toggled THEN {"active"} ELSE {}) :
           Scanned(form.original)[f] = reset(store[i])[f]
=============================================================================
