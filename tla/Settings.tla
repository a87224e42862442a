------------------------------ MODULE Settings ------------------------------
(***************************************************************************)
(* The settings: the row of the server, the copy the distributor hands to  *)
(* events, and one tab of the client, with its copy, its pane and the      *)
(* theme it shows, which is a file of the server.  Other clients change    *)
(* the settings too, the files come and go, and the process may crash.     *)
(*                                                                         *)
(* A request is served in the steps of its handler.  The tab's answers     *)
(* arrive in any order, and a save goes on to fetch the theme it chose.    *)
(***************************************************************************)
EXTENDS Naturals, Sequences, FiniteSets

CONSTANTS
  Themes,      \* names of files in the directory of themes
  Builtin,     \* the names of the themes the client comes with
  Delimiters,  \* pairs of delimiters the pane accepts
  Defaults,    \* those of a server that has none stored, one of Delimiters
  Blank,       \* a pair the server refuses
  MaxCalls,    \* bound: requests in progress
  Room,        \* messages the channel of the distributor holds
  MaxWork,     \* bound: requests of users and changes of the files
  None         \* null

ASSUME SettingsAssumption ==
  /\ Defaults \in Delimiters /\ {Blank, None} \cap Delimiters = {} /\ Blank # None
  /\ Themes \cap Builtin = {} /\ None \notin Themes \cup Builtin
  /\ Room \in Nat \ {0} /\ MaxWork \in Nat
  /\ MaxCalls \in Nat /\ MaxCalls >= 3  \* a page makes three requests at once

VARIABLES
  stored,   \* the rows of the table settings
  files,    \* the themes there are
  queue,    \* SettingsMessages in the channel of the distributor
  copy,     \* the settings the distributor has
  calls,    \* the requests in progress, of this tab and of others
  tab,      \* the tab
  crossed,  \* history: the last update was written while another was not queued
  doubt,    \* history: an answer was lost, somebody else changed the settings,
            \* or the user did not wait for the requests of the tab
  work      \* requests and changes of files so far

vars == <<stored, files, queue, copy, calls, tab, crossed, doubt, work>>

Slots == 1 .. MaxCalls
Names == Themes \cup Builtin \cup {None}

(* What settings are, and what a request in progress is: its kind and status, the
   settings it asks for or answers with, and a theme. *)
SettingSet == [theme : Names, delimiters : Delimiters \cup {Blank, None}]
CallSet ==
  [kind : {"link", "name", "load", "save", "theme", "other"},
   status : {"asked", "written", "ok", "refused"},
   value : SettingSet \cup {None}, themes : SUBSET Themes, data : Names]

ASSUME NoneAssumption == None \notin SettingSet /\ None \notin CallSet

isDefaultTheme(name) == name \notin Themes
Setting(theme, delimiters) == [theme |-> theme, delimiters |-> delimiters]

GetSettings ==
  IF stored.delimiters = None THEN [stored EXCEPT !.delimiters = Defaults] ELSE stored
Validate(s) == s.delimiters # Blank

-----------------------------------------------------------------------------
(* The tab.  attr: the theme the page's attribute names; sheet: the file whose
   rules it has; failed, a history, whether the last fetch of a file did. *)

settingsDefault == Setting(None, None)
Fresh == [settings |-> settingsDefault, themes |-> {}, attr |-> None, sheet |-> None,
          failed |-> FALSE]

Call(kind, value) == [kind |-> kind, status |-> "asked", value |-> value,
                      themes |-> tab.themes, data |-> None]
Free == {c \in Slots : calls[c] = None}
Mine == {c \in Slots \ Free : calls[c].kind # "other"}
Is(c, kind, status) == c \notin Free /\ calls[c].kind = kind /\ calls[c].status = status

(* The page is gone; what it asked to have changed may still be. *)
Abandoned ==
  [c \in Slots |-> IF c \in Mine /\ calls[c].kind = "save" /\ calls[c].status \in {"asked", "written"}
                   THEN [calls[c] EXCEPT !.kind = "other"]
                   ELSE IF c \in Mine THEN None ELSE calls[c]]

(* A request takes a slot that is free. *)
FreeIn(cs) == {c \in Slots : cs[c] = None}
Add(cs, call) == [cs EXCEPT ![CHOOSE c \in FreeIn(cs) : TRUE] = call]
Ask(call) == Free # {} /\ calls' = Add(calls, call)

(* The requests of a page: index.html's link, Initialize's, the dashboard's. *)
PageCall(kind) == [Call(kind, None) EXCEPT !.themes = {}]
Opened(cs) == Add(Add(Add(cs, PageCall("link")), PageCall("name")), PageCall("load"))

Init ==
  /\ files \in SUBSET Themes
  /\ stored \in {Setting(t, d) : t \in {None} \cup files, d \in {None, Defaults}}
  /\ queue = <<>> /\ copy = GetSettings
  /\ tab = Fresh
  /\ calls = Opened([c \in Slots |-> None])
  /\ crossed = FALSE /\ doubt = FALSE /\ work = 0

-----------------------------------------------------------------------------
(* The users. *)

Working == work < MaxWork /\ work' = work + 1

(* The loading screen is down and the dashboard is shown. *)
AtDashboard == tab.settings # settingsDefault /\ \A c \in Mine : calls[c].kind # "load"
Hasty == doubt' = (doubt \/ Mine # {})

(* The page is loaded from its address, and has waited for its requests before. *)
Visit ==
  /\ Cardinality(FreeIn(Abandoned)) >= 3
  /\ calls' = Opened(Abandoned)
  /\ tab' = Fresh
  /\ doubt' = FALSE
  /\ UNCHANGED <<stored, files, queue, copy, crossed, work>>

(* Logged out and in again: the page stays, the dashboard is loaded anew. *)
Return ==
  /\ AtDashboard /\ Working
  /\ Ask(Call("load", None)) /\ Hasty
  /\ UNCHANGED <<stored, files, queue, copy, tab, crossed>>

(* What the pane offers; its draft begins as the settings of the tab. *)
Options == {None, tab.settings.theme} \cup Builtin \cup tab.themes
isValidDelimiters(d) == d \in Delimiters

(* A draft, edited into anything that differs, is saved.  Nothing disables the
   button while a request is under way. *)
Save ==
  /\ AtDashboard /\ Working
  /\ \E t \in Options, d \in Delimiters \cup {Blank} :
       /\ Setting(t, d) # tab.settings /\ isValidDelimiters(d)
       /\ Ask(Call("save", Setting(t, d)))
  /\ Hasty
  /\ UNCHANGED <<stored, files, queue, copy, tab, crossed>>

(* A client of any kind: it may send what the pane would not. *)
OtherSaves ==
  /\ Working
  /\ \E t \in {None} \cup Themes, d \in Delimiters \cup {Blank} :
       Ask(Call("other", Setting(t, d)))
  /\ UNCHANGED <<stored, files, queue, copy, tab, crossed, doubt>>

(* The administrator adds a file or removes one. *)
ChangeFiles ==
  /\ Working
  /\ \E t \in Themes : files' = IF t \in files THEN files \ {t} ELSE files \cup {t}
  /\ UNCHANGED <<stored, queue, copy, calls, tab, crossed, doubt>>

-----------------------------------------------------------------------------
(* The server. *)

Reply(c, status, data) == calls' = [calls EXCEPT ![c].status = status, ![c].data = data]
Update(c) == Is(c, "save", "asked") \/ Is(c, "other", "asked")
Unqueued == {c \in Slots \ Free : calls[c].status = "written"}

(* Seeded bug: only rows that exist are written. *)
WriteUpdatesOnly(c) ==
  /\ Update(c) /\ Validate(calls[c].value)
  /\ stored' = [calls[c].value EXCEPT !.delimiters = IF stored.delimiters = None THEN None ELSE @]
  /\ Reply(c, "written", None)
  /\ crossed' = (Unqueued # {})
  /\ doubt' = (doubt \/ calls[c].kind = "other")
  /\ UNCHANGED <<files, queue, copy, tab, work>>

(* Both rows in one statement. *)
Write(c) ==
  /\ Update(c) /\ Validate(calls[c].value)
  /\ stored' = calls[c].value
  /\ Reply(c, "written", None)
  /\ crossed' = (Unqueued # {})
  /\ doubt' = (doubt \/ calls[c].kind = "other")
  /\ UNCHANGED <<files, queue, copy, tab, work>>

(* The handler waits for room in the channel, then answers. *)
Queue(c) ==
  /\ c \in Unqueued /\ Len(queue) < Room
  /\ queue' = Append(queue, calls[c].value)
  /\ IF calls[c].kind = "other" THEN calls' = [calls EXCEPT ![c] = None] ELSE Reply(c, "ok", None)
  /\ UNCHANGED <<stored, files, copy, tab, crossed, doubt, work>>

(* What the theme that is stored is served as. *)
ServeTheme(c) ==
  /\ Is(c, "link", "asked") \/ Is(c, "theme", "asked")
  /\ IF stored.theme = None \/ stored.theme \in files THEN Reply(c, "ok", stored.theme)
     ELSE Reply(c, "refused", None)
  /\ UNCHANGED <<stored, files, queue, copy, tab, crossed, doubt, work>>

(* Asked for leniently, the name is served without its file. *)
ServeName(c) ==
  /\ Is(c, "name", "asked")
  /\ Reply(c, "ok", stored.theme)
  /\ UNCHANGED <<stored, files, queue, copy, tab, crossed, doubt, work>>

ServeLoad(c) ==
  /\ Is(c, "load", "asked")
  /\ calls' = [calls EXCEPT ![c].status = "ok", ![c].value = GetSettings, ![c].themes = files]
  /\ UNCHANGED <<stored, files, queue, copy, tab, crossed, doubt, work>>

(* The settings are refused, or a query or a file fails. *)
Refuse(c) ==
  /\ c \notin Free /\ calls[c].status = "asked"
  /\ IF calls[c].kind = "other" THEN calls' = [calls EXCEPT ![c] = None]
     ELSE Reply(c, "refused", None)
  /\ UNCHANGED <<stored, files, queue, copy, tab, crossed, doubt, work>>

(* The distributor takes a message. *)
ApplySettings ==
  /\ queue # <<>>
  /\ copy' = Head(queue) /\ queue' = Tail(queue)
  /\ UNCHANGED <<stored, files, calls, tab, crossed, doubt, work>>

Broken(c) == c \notin Free /\ calls[c].status \in {"asked", "written"}

(* The process ends and another begins: main reads the settings. *)
Restart ==
  /\ queue' = <<>> /\ copy' = GetSettings
  /\ calls' = [c \in Slots |-> IF Broken(c) THEN None ELSE calls[c]]
  /\ doubt' = (doubt \/ \E c \in Mine : Broken(c))
  /\ crossed' = FALSE
  /\ UNCHANGED <<stored, files, tab, work>>

-----------------------------------------------------------------------------
(* Answers. *)

Answered(c, kind) == Is(c, kind, "ok") \/ Is(c, kind, "refused")
Ok(c) == calls[c].status = "ok"
Without(c) == [calls EXCEPT ![c] = None]

(* The rules of the page, whatever they came from, make way for those of t; the
   link is removed, fetched or not. *)
Clean(cs) == [d \in Slots |-> IF cs[d] # None /\ cs[d].kind = "link" THEN None ELSE cs[d]]

AnswerLink(c) ==
  /\ Answered(c, "link")
  /\ tab' = [tab EXCEPT !.sheet = calls[c].data, !.failed = ~ Ok(c)]
  /\ calls' = Without(c)
  /\ UNCHANGED <<stored, files, queue, copy, crossed, doubt, work>>

(* No name leaves the attribute as it is. *)
Named(t) == IF t = None THEN tab.attr ELSE t

AnswerName(c) ==
  /\ Answered(c, "name")
  /\ tab' = [tab EXCEPT !.attr = Named(calls[c].data)]
  /\ calls' = Without(c)
  /\ UNCHANGED <<stored, files, queue, copy, crossed, doubt, work>>

(* Loading the dashboard does not fetch the theme. *)
AnswerLoad(c) ==
  /\ Answered(c, "load")
  /\ IF Ok(c) THEN /\ tab' = [tab EXCEPT !.settings = calls[c].value, !.themes = calls[c].themes,
                                         !.attr = Named(calls[c].value.theme)]
                   /\ UNCHANGED doubt
              ELSE doubt' = TRUE /\ UNCHANGED tab
  /\ calls' = Without(c)
  /\ UNCHANGED <<stored, files, queue, copy, crossed, work>>

(* tryLoadTheme, up to the answer it waits for; s: what is to become of the
   settings, at once if nothing need be fetched. *)
TryLoad(c, name, s, themes) ==
  IF isDefaultTheme(name)
  THEN /\ tab' = [tab EXCEPT !.attr = name, !.sheet = None, !.failed = FALSE,
                             !.settings = s, !.themes = themes]
       /\ calls' = Clean(Without(c))
  ELSE /\ tab' = [tab EXCEPT !.attr = name]
       /\ calls' = [calls EXCEPT ![c] = [Call("theme", s) EXCEPT !.themes = themes]]

AnswerSave(c) ==
  /\ Answered(c, "save")
  /\ IF Ok(c) THEN TryLoad(c, calls[c].value.theme, calls[c].value, calls[c].themes)
     ELSE calls' = Without(c) /\ UNCHANGED tab
  /\ UNCHANGED <<stored, files, queue, copy, crossed, doubt, work>>

(* The button Reload Theme. *)
Reload ==
  /\ AtDashboard /\ ~ isDefaultTheme(tab.settings.theme) /\ Working
  /\ Ask(Call("theme", None)) /\ Hasty
  /\ tab' = [tab EXCEPT !.attr = tab.settings.theme]
  /\ UNCHANGED <<stored, files, queue, copy, crossed>>

(* Seeded bug: a theme that cannot be fetched leaves the rules of the last. *)
AnswerThemeKeepsSheet(c) ==
  /\ Answered(c, "theme")
  /\ tab' = [tab EXCEPT !.sheet = IF Ok(c) THEN calls[c].data ELSE @, !.failed = ~ Ok(c),
                        !.settings = IF calls[c].value = None THEN @ ELSE calls[c].value,
                        !.themes = IF calls[c].value = None THEN @ ELSE calls[c].themes]
  /\ calls' = Clean(Without(c))
  /\ UNCHANGED <<stored, files, queue, copy, crossed, doubt, work>>

(* What is served is shown, under the name that was chosen; a theme that
   cannot be fetched becomes the active one all the same. *)
AnswerTheme(c) ==
  /\ Answered(c, "theme")
  /\ tab' = [tab EXCEPT !.sheet = calls[c].data, !.failed = ~ Ok(c),
                        !.settings = IF calls[c].value = None THEN @ ELSE calls[c].value,
                        !.themes = IF calls[c].value = None THEN @ ELSE calls[c].themes]
  /\ calls' = Clean(Without(c))
  /\ UNCHANGED <<stored, files, queue, copy, crossed, doubt, work>>

(* The network fails, before the request is served or after; nothing else that
   was to follow does. *)
Lose(c) ==
  /\ c \in Mine
  /\ calls' = IF calls[c].kind = "save" /\ calls[c].status \in {"asked", "written"}
              THEN [calls EXCEPT ![c].kind = "other"] ELSE Without(c)
  /\ doubt' = TRUE
  /\ UNCHANGED <<stored, files, queue, copy, tab, crossed, work>>

Next ==
  \/ Visit \/ ChangeFiles \/ ApplySettings \/ Restart
  \/ Return \/ Save \/ Reload \/ OtherSaves
  \/ \E c \in Slots :
       \/ Write(c) \/ Queue(c) \/ ServeTheme(c) \/ ServeName(c) \/ ServeLoad(c) \/ Refuse(c)
       \/ AnswerLink(c) \/ AnswerName(c) \/ AnswerLoad(c) \/ AnswerSave(c) \/ AnswerTheme(c)
       \/ Lose(c)

Spec == Init /\ [][Next]_vars

-----------------------------------------------------------------------------
(* Properties. *)

(* When no update is between its write and its message and the channel is
   empty, the distributor hands the settings that are stored to the events it
   runs, after restarts too, unless two updates crossed between the table and
   the channel (internal/settings/service.go:49, cmd/zenin.go:64). *)
DistributorFollows ==
  Unqueued = {} /\ queue = <<>> /\ ~ crossed => copy = GetSettings

(* A tab whose user waits for its requests, and whose settings nobody else has
   changed since it was loaded, has the settings that are stored, names their
   theme in the attribute of the page, and has the rules of that theme and no
   other: after any sequence of saves, refusals, reloads, and logins, with files that
   are missing.  A theme that could not be fetched has no rules. *)
ThemeShown ==
  ~ doubt /\ Mine = {} =>
    /\ tab.settings = GetSettings
    /\ tab.attr = tab.settings.theme
    /\ tab.sheet = IF tab.failed \/ isDefaultTheme(tab.attr) THEN None ELSE tab.attr
=============================================================================
