# Zenin in TLA+

Zenin is a monitoring server: it probes URLs, hosts and plugins on a schedule,
stores what it measures, and shows it to a web client as it happens.  The server
is one Go process over SQLite or PostgreSQL; the client is a React application
that keeps a copy of the monitors and their newest measurements.

This directory models the parts of Zenin whose difficulty is in the *order* of
things: goroutines that block on each other, handlers that write a row first and
tell somebody later, queries made of several statements, probes and processes that
race their deadline, and answers that arrive after the state they were asked about
has changed.  TLC checks every module on small instances; for every value of the
constants TLAPS proves every safety property that those runs check, and that the
distributor, the repository and the handlers of accounts implement what their users rely on.

Source paths below are relative to the root of the repository; `file.go:12` is
line 12 of a file of the part under discussion.

Contents: 1. the system - 2. the modules - 3. the runs - 4. the proofs -
5. assumptions and abstractions - 6. findings - 7. what is not modelled -
8. the plan.

---------------------------------------------------------------------------

## 1. The system

```
 web client (one tab)                       server process
 +------------------------+   HTTP    +--------------------------+
 | session, layout        |---------->| handlers (one goroutine  |
 | Inventory: dashboard's |           | per request)             |
 | copy of the monitors   |           |   |  |         |         |
 |    ^            ^      |           |   |  accounts  settings  |
 +----|------------|------+           |   v  v         v         |
      | answers    | feed             | repository (pool) --> database
      |            |  (websocket)     |   ^                      |
      |            +------------------|-- distributor <-- channel|
      |                               |   |  ^    (handlers,     |
      +-------------------------------|   v  |     polls, readers|
                                      | workers, polls, readers) |
                                      +--------------------------+
```

| Component | State | Operations | Talks to | What is hard | What makes it correct |
|---|---|---|---|---|---|
| **Distributor** `internal/monitor/distributor.go`, `server/feed.go` | workers by monitor, feed subscribers, settings | `Listen`: start, stop, poll, measurement, subscribe, unsubscribe, settings | receives from one bounded channel; sends to workers; writes to websockets | handshakes over unbuffered channels, sending to itself, connections that die while they are written to | one worker per started monitor; handshakes always complete; subscribers miss nothing and none is leaked; messages take effect in order |
| **Monitor lifecycle** `internal/monitor/service.go`, `server/monitor.go`, `cmd/zenin.go` | the monitor table, requests in progress | create, update, toggle, delete, poll; restore at the start | repository first, distributor afterwards | overlapping requests, half-failed requests, crash between the two | what is polled is what the table says |
| **Accounts and tokens** `internal/account`, `server/account.go` | accounts, issued tokens | claim, create, update, delete, authenticate | repository | look-up and write are two statements; tokens outlive accounts | unique names; always a root account; a token keeps the role it promised; one claim |
| **SQL builder** `pkg/sql` | query text, arguments, counter, joining word | push, spread, condition, inject, reset | used by every repository | reused after reset; marks written by hand | every mark is bound to its own argument; one WHERE |
| **Repository** `repository/*` | pool of connections, tables | validate, migrate, insert, update, select, delete | the database | several statements per operation, which interleave on PostgreSQL; a setting that is per connection; crash during migration | all or nothing; nothing orphaned; who serves has the schema |
| **Dashboard** `web/src/internal/monitor`, `components/Dashboard` | inventory, selection, split pane, dialog | load, create, update, toggle, delete, select, view; feed | requests and feed | late answers; bounded lists; objects replaced under a pane | lists ordered, complete and bounded; nothing shown that is gone; agreement with the server |
| **Probes, plugins, events** `internal/monitor/{monitor,http,tcp,icmp,plugin,event}.go` | one poll; a child process | poll; run events | the distributor (a measurement) | deadlines, pipes, killed processes | nothing outlasts its seconds; the measurement says what happened |
| **Settings** `internal/settings`, `server/settings.go`, `web/src/.../Settings.tsx`, `Initialize.tsx` | a key/value table, the distributor's copy, the tab's copy and its theme | get, update, theme; load, save, fetch a theme | repository first, distributor afterwards | the same order problem as monitors; a file fetched after the save that names it | the copies are the row; the page shows the theme it has |
| **Session and layout of the client** `web/src/internal/{account,layout,server}`, `components/{Login,Private,Hidden,Router}` | token and its copy, route, loading screen, notifications | login, claim, logout, 401, reload | requests | answers of an earlier session; errors that leave the screen up | token and copy agree; the loading screen comes down |
| **Accounts pane** `components/Dashboard/Accounts` | list, form, delete dialog | create, change, rename oneself, delete | requests, the session's token | answers after the form or the session has changed | list, form and token are what the table says |
| **Monitor form** `components/Dashboard/Editor`, `components/Input` | a draft, its original, its errors | edit, change kind, save, toggle | requests; `server/monitor.go`, `Monitor.Validate` | what fields are left from another kind; three validations that differ | what is stored can be probed; what can be saved is accepted; form, inventory and table agree |
| **Server routing** `server/{server,middleware,responder}.go` | none | route, authenticate, reply | everything | - | - |
| **Environment, validation, values** `internal/env`, `internal/debug` | read once at start | - | - | - | - |
| **Graphics, scripts, mocks, presentation** | none | - | - | - | - |

`PROJECT.json` lists the same components with their sources and state, the
hazards of the code at the lines where they bite, and for every definition that
models code the lines it stands for.

---------------------------------------------------------------------------

## 2. The modules

```
 Registry  <--implements--  Distributor  <-- DistributorProofs
    ^                           ^
    | EXTENDS                   | EXTENDS
 MonitorService <-- MonitorServiceProofs
    ^                           |
 MCMonitorService           MCDistributor

 Accounts  <--implements--  Account <-- AccountProofs
    ^                          ^
    | implements (its server)  MCAccount
    |
    +---------------+           Inventory <-- InventoryProofs    Settings <-- SettingsProofs
                    |              ^
 Session            |           MCInventory
    ^               |
    | EXTENDS       |
 AccountsPane ------+           Editor
    ^                              ^
 AccountsPaneProofs             Probe <-- ProbeProofs, MCProbe

 SqlBuilder    Repository  --implements--> Store
    ^             ^
    +-------------+-- MCRepository <-- RepositoryProofs
```

Definitions marked *Seeded bug* in a comment are not part of any specification:
each is a plausible slip in the definition after it, kept to show that the
property named with it in `PROJECT.json` ("mutants") notices.

### Registry - what the distributor promises

State: `mailbox` (messages accepted), `started` (what each monitor was started
with), `due` (polls in progress).  Messages take effect one at a time in the
order in which they were accepted; a start of a started monitor changes nothing;
a stop takes effect at once; a poll of a started monitor polls what it was
*started* with, of a stopped one what the request says; the timer of a started
monitor may fire.  No goroutines, no handshakes, no connections.  That messages go on
being carried out (`KeepsTaking`) is *not* part of the promise: a distributor that has
stopped listening keeps it too.

### Distributor - how it keeps it

One action per operation of a channel or a connection.

| State | Code |
|---|---|
| `loopback` | the channel of `NewDistributor`; its buffer holds `Capacity` (1, `cmd/zenin.go:56`) |
| `pc`, `cur`, `todo`, `discard` | where `Listen` is: receiving, blocked in a handshake (172, 54), storing, in the loop that writes to subscribers, in the loop that discards |
| `polling` | `d.polling`: monitor to worker channel |
| `phase`, `job` | a worker goroutine: in its first sleep, in its select, gone; the monitor it captured |
| `inflight` | goroutines polling |
| `subscribers`, `reader`, `net`, `closed` | `d.subscribers`, the reader goroutine of each connection, what its peer does, connections closed |
| `settings`, `rows`, `feed` | `d.settings`, measurement rows, the last row written to each connection |

A blocked sender is a sender whose step is not enabled; a rendezvous on an
unbuffered channel is one joint step.  `StartWorker`/`DropStart`, `StopBegin`/
`DropStop`/`StopHandshake`, `PollInactive`/`PollBegin`/`PollHandshake` are the
branches of `start`, `stop` and `poll`; `StoreBegin` to `DiscardsOver` is
`distributeMeasurement` with its two loops; `Wake`, `Tick` and `Report` are the
worker and its polls; `Connect` and `ReaderExits` are the feed handler and the
reader goroutine.

### MonitorService - the table and the distributor

Extends Registry with the table, `issued` ids, what main is doing (`stage`) and
what every handler is doing (`task`).  A handler's work is a sequence of steps
as in the code: the write, the selection that reads the row again, and one step
per message, each waiting for room.  `Crash` may happen at any time; `Restore`
loads the active monitors and starts them one after the other before `Serve`.
`strayed` is a history variable: the monitors whose last requests overlapped or
failed after the write.

### Probe - what happens inside a poll

Extends Editor: a poll takes a monitor from the table that the form and the
handlers of Editor filled, so that "the monitor has the fields its probe
dereferences" is a fact about the form and not an assumption.  `poll` is the poll
(which probe, how long it has waited, what it got, the state of its span), `runs`
the at most two executions of a plugin: the one that is the probe and the one that
is the event.

| Action | Code |
|---|---|
| `BeginPoll`, `EndPoll` | `Monitor.Poll` up to the probe, and from there to the measurement and the events it starts |
| `Resolve`, `Respond`, `ReadBody`, `BodyBreaks`, `Connect`, `Fails`, `Expire` | `HTTPProbe.Poll`, `TCPProbe.Poll` and what their client reports |
| `Send`, `Receive`, `PingEnds`, `PingFails`, `PingState` | `ICMPProbe.Poll`; packets in flight, the loss and the threshold |
| `Start`, `StartFails`, `Read`, `ReadEnd`, `PluginPolled` | `PluginExecutor.Run`: stdout to its end, then stderr, then `Wait` |
| `WantWrite`, `Write`, `Exit`, `Kill`, `LetGo` | the child process, which writes when there is room, ends when it likes, is killed at the deadline, and may leave a process behind that keeps the pipes open |
| `Tick` | time, which passes only when the server has nothing to do |

### Accounts - what the server promises

State: `accounts`, `nextId` and `tokens`.  A row is added, renamed or removed at once, by
the table as it is then: a name is taken by one account, the first account is root and is
never removed, an id is issued once and keeps its role, and a token is of an account that
is there when it is given.  A token may become invalid at any time, and outlives its account.
Which account the token at the end of an update is of is not promised: the handler selects it
by the new username (`server/account.go:279`), which another account may have by then.
Two models are held against it: Account, whose handlers check first and write later, and the
server behind the client in AccountsPane, which answers one request at a time.  It
does not promise that a second claim is rejected, for Account does not keep that (finding 3).

### Account

`Claim`, `Create`, `Update`, `Delete`, `Authenticate`, in the statements they
are made of: the check, then the write.  Tokens are a set of issued `[id, role]`
pairs that expire at any time; a restart may change the secret.

### SqlBuilder

`program` is what a caller does with a builder (one per function of the
repositories that builds a query), as a sequence of calls; `style`, `count`,
`marks`, `words`, `args` and `where` are the builder's fields.  `marks` are the markers
of the text, with the value each was written for, `words` the words that join its
conditions, and `args` what is bound; where a word stands among the markers is left out.
`Builders` is the builder after each call.  Every program is run to its end over every
list of identifiers up to `MaxIds`.  `Reset` is documented to bring back "the state
returned by `NewBuilder`" (`builder.go:83`) but leaves the joining word (`where`)
as it was: a condition pushed after it would be joined by AND with nothing before
it.  The model keeps that, and `QueriesRight` shows that no query of the
repositories is affected: the one caller that resets pushes no condition
afterwards.  The builder is used inside the functions of the repositories, so
`MCRepository` checks the two together.

### Store - what the repository promises

State: `db`, the rows, and `issued`, the keys.  Every function is a relation between the rows
it finds and the rows it leaves (`InsertMonitor` and so on), and takes effect at once or not
at all; nothing else changes a row.  Where references are not enforced a function may find
them enforced or not, at its own choice: that is how far SQLite with more than one
connection keeps its promise.  Where transactions overlap an update may leave events
behind (`left`): that is how far PostgreSQL does.

### Repository

`kind` is the database, `pool` says of each connection whether it enforces foreign keys, and
`db` holds the rows that are committed (of monitors, events, measurements, certificates).
`call` is what each caller does: its connection, its function, how many statements of it have
taken effect (`at`), and the rows its transaction has taken away (`del`) and added (`add`).

| Action | Code |
|---|---|
| `Open`, `Validate`, `Migrate`, `Crash` | `repository/builder.go` and the schemas; statement by statement for SQLite, as one implicit transaction for PostgreSQL |
| `Call` | a function takes a connection of the pool and begins |
| `Statement` | its next statement: what it finds (`Found`), takes away (`Gone`) and adds (`New`), unless it `Waits` for another transaction or the database `Refuses` a reference |
| `Commit`, `Fail` | the end of the transaction, or its rollback |

How transactions meet is the difference between the two databases.  In SQLite a statement
that writes waits for *every* other transaction that has written.  In PostgreSQL
`BeginTx(ctx, nil)` is READ COMMITTED: statements of several transactions interleave, each
sees what the others have committed, and one waits only for a row that another has changed or
deleted, or refers to.  The delete of events with which an update begins
(`repository/postgres/monitor.go:109`) does not see events that are committed while it
waits; `seen` holds those it does.  `crossed` and `mixed` are a history: the monitors whose
last update was overtaken by another.

### Inventory

The reducer's actions are operators with the names they have in `reducer.ts`,
each from the state to the next state.  Requests are records in `flight`: asked,
carried out by the server (`Run...`), answered, applied (`Answer...`) with the
closure of the moment they were asked.  Two histories delimit what the design
can promise at all: `doubt` (monitors whose requests overlapped, failed half-way
or were lost) and `missed` (measurements the feed did not bring, or brought
before the dashboard knew their monitor).

### Session and AccountsPane

Session is one tab: the token in the state and in localStorage, the route, the
loading screen, the kinds of notifications, and `calls`, the requests in flight
with the answers the server has given.  Each user event (`Submit`, `Logout`, `Back`,
`Visit`) is a handler *and* the redirects and effects of mounting that
follow from it in the same render (`Navigate`).  `Answer...` are the continuations
after `await`, and a request remembers whether the component that asked is still
mounted (`here`), because some of them go on all the same.  AccountsPane extends
it with the pane's list, form and dialog; `PaneAt` says what a change of page or
token does to a pane that outlives the dashboard.  `haste` is a history: whether the
user, since signing in, has always waited for the request in flight.

### Editor

`form` is the pane (draft, original, whether it was toggled meanwhile), `inventory`
the client's monitors, `store` the table, `calls` the requests.  `reset`,
`sanitize`, `canSave` and the `isValid...` functions have the names they have in
`Editor.tsx`; `Decodes`, `Validate` and `Columns` are the three filters of the
server: the types of the JSON decoder, `Monitor.Validate`, and the CHECKs and widths of the
schema.  What is typed into a field for a number may be negative, a fraction or larger than any
column.  A toggle has the three outcomes of `server/monitor.go:176`: done and said so, not done
and said to be done, done and said to have failed.  `Dereferenced` is what each probe reads through a pointer without looking.

### Settings

`stored`, `queue` and `copy` are the row, the channel and the distributor's copy;
`tab` is one tab (its settings, the `theme` attribute of the page, the style sheet
it has fetched).  A request is served in the steps of its handler - the settings are
read once to see whether a theme is chosen and once more to find its file.  A save
continues after its answer with a second request, for the theme.  `crossed` and
`doubt` are histories, explained with the properties.

---------------------------------------------------------------------------

## 3. The runs

Each question asked of the system is one run.  `MC...` modules add only the
symmetry sets (and `MCRepository` puts two modules together, and `MCProbe` gives the ports
that are typed, of which one is negative); constants are given
in the `.cfg` files.  States are distinct states.

| Run | Question | Bounds | States |
|---|---|---|---|
| `distributor` | Do starts, stops, polls, timers, settings and measurements, in every order through the channel, leave one worker per started monitor, never block a handshake for good, and implement `Registry`?  With peers that break and stall: is no row missed, no closed connection written to, no dead one left unreported?  Under fairness, and unless it stops listening: are messages taken, stops carried out, started monitors polled for ever, gone subscribers dropped? | 1 monitor, 1 configuration, 2 workers, 2 connections (both may break, one may stall), channel of 1, row counter saturating at 1 | 54 000 |
| `distributor_self_block` | Does `Listen` go on listening? **No**. | 1 connection that breaks | violation |
| `monitor_service` | With two overlapping handlers, failing queries and crashes: is a monitor polled as its row says, unless its last requests overlapped or failed after the write?  Does a deleted monitor stay deleted?  Does the distributor, under fairness and as long as it takes messages, come to do what the table says? | 1 monitor, 2 configurations, 2 handlers, a poll in progress | 310 000 |
| `monitor_service_overlap` | Does the stored state of a monitor control its polling when requests overlap? **No**. | 1 monitor, 2 handlers, nothing fails | violation |
| `account` | With two handlers between check and write: do accounts and tokens change as `Accounts` says, each time by the table as it is by then?  Unique names, always a root account, tokens that keep their role? | 2 handlers, 3 names, 3 ids | 112 000 |
| `account_claim` | Is a second claim rejected? **No**. | 2 handlers, 2 names, 2 ids | violation |
| `repository_pool` | With failures anywhere, a crash at any moment, and transactions that overlap as either database lets them: do the rows change as those of `Store`, is nothing orphaned or half-written, does nobody serve without the tables?  In every query the functions build: is each mark bound to its argument, and each condition joined by the right word? | SQLite and PostgreSQL; 3 connections, 3 callers, 1 monitor, 1 measurement, 4 versions; lists of up to 3 of 3 ids, both styles of marks | 248 000 |
| `repository_orphans` | Does deleting a monitor delete its measurements on SQLite? **No**. | SQLite; 2 connections, 2 clients | violation |
| `inventory` | Is what the dashboard shows ordered, complete, within bounds and the same as what is stored, with two requests and the feed under way? | 2 monitors, 2 requests at once, lists of 2, 2 units of work | 1 913 000 |
| `accounts_pane` | With logins, logouts, reloads, refusals and lost answers at any moment: do list, form and token say what the server says?  Does that server keep what `Accounts` promises, whatever the client asks and with whatever token?  Does the loading screen come down? | 1 tab, 2 accounts, 2 names, 2 tokens, 2 requests at once, 1 act of haste | 230 000 |
| `form_and_probe` | Can everything that is stored be probed, is everything that can be saved accepted, does the form agree with the store?  And a poll of each such monitor: does the measurement say what happened, and is everything over within the seconds of the form? | 1 or 2 monitors of any kind, 2 edits, 2 requests; ports of -1, 0, 40000, 65536 or a fraction, other numbers negative, 0, 1, a fraction or too large; timeouts of 0 or 1 s = 2 ticks, up to 3 packets, pipes of 1, 2 writes | 2 634 000 |
| `settings` | Do the row, the distributor's copy and the tab agree, whatever is saved, refused, lost or reloaded, with theme files that come and go? | 1 tab and other clients, 2 themes, 2 pairs of delimiters, 3 requests at once, channel of 1, 2 changes between reloads | 4 553 000 |

Why the bounds suffice.  The channel has room for one message in the code, and
one is the worst case (a larger one only delays blocking); the proofs cover any
capacity, any number of monitors and of configurations, which is why `distributor`
can afford one of each and spend its states on connections and liveness.  Two
configurations, in `monitor_service`, show whether a stale one is kept.  Overlap is
a matter of two requests: a third finds the table and the mailbox in a state that
two had already reached.  `MaxRows = 1` distinguishes "has been sent the newest row"
from "has not", as rows only grow.  In `inventory` a list of two is full after the
first stored rows, so every measurement exercises the bound; two units of work are
enough for a request and a measurement between its question and its answer, or two
requests that cross.  In `repository_pool` transactions meet at the rows of one monitor, its
measurement included: two updates and a third caller, who deletes, measures or updates between
them, and four versions, so that each may have its own and one has no events.  Callers,
connections and versions are symmetric, and the monitor and the measurement need not be.
Lists of three ids are long enough for a repeated, a shifted
and an off-by-one mark.  In `form_and_probe` a pipe of one and two writes fill one
stream while the other is still open, and one packet more than can be sent in time
is lost, late or unsent; two edits take a monitor through two kinds, or through a
kind and a field.  Three requests in `settings` are the two a page makes at its start
and one of the user, or two updates that cross and one that looks.  Every property
is violated within these bounds by a seeded bug of its own.

Larger instances, checked by hand and not kept as runs: AccountsPane with three
tokens (1.7 million states) and with three names and three accounts and no haste
(3.7 million); Editor alone with one request and three edits (1 million); Probe
with polls that also begin while the client is in doubt (12.8 million).

Deadlock is checked wherever the system is not expected to stop.  It is off in
the two runs with subscribers, where the distributor may block on itself (that
is the finding of `distributor_self_block`), and in `accounts_pane`, where the tokens
run out.  In the other bounded models the user may still close a pane, reload, or
begin anew.

### Properties worth an explanation

- `HandshakeHasPartner` (Distributor): whenever the distributor is blocked in a
  send to a worker, that worker is alive and on its way to its select.  This is
  what makes an unbuffered send in the middle of `Listen` safe.  It rests on the
  code polling in a goroutine of its own: the worker never sends to the channel
  of the distributor, so the two never wait for each other.
- `FeedFollowsStore`: every subscriber was sent the newest row, or is still in
  one of the two loops, or its removal is in the channel.
- `InStep` (MonitorService): when no request about a monitor is in progress and
  no message about it waits, it is polled exactly as its row says, unless it is
  in `strayed`.  `strayed` is as small as the code allows: the run
  `monitor_service_overlap` checks the same statement without it, and fails.
- `DeletedForGood`: an update that passed its check before the row was deleted
  must not bring it back.
- `TakesMessages` (Distributor): the condition under which MonitorService is live,
  `KeepsTaking` of Registry, follows from `KeepsListening`: what a distributor that goes on
  listening has received it carries out, whatever handshake that takes.
- `TakesEffect` (MonitorService): a monitor that nobody changes any more comes to be polled as
  its row says, *if* the distributor goes on taking messages.  Finding 1 and a stalled peer
  (`distributor.go:193`) are why that is a condition and not a fairness assumption.
- `ImplementsAccounts` (Account): a name that was free when the handler looked may be
  taken when it writes, and an account that was there may be gone.  Neither is seen: the
  constraint decides at the write, an update writes one column and not the row it
  read, and one that finds no row succeeds, whoever has the name by now
  (`repository/common/account.go:45`).  The token after an update is of the account that has
  the new username by then (section 6).
- `ServerKeepsPromise` (AccountsPane): the server that answers the pane in that model does
  nothing that `Accounts` rules out, so what is shown of the client is not owed to a server
  that is freer than the one whose handlers Account models.
- `TokensKeepRole`: ids are never reused, so a token of a deleted account never
  comes to stand for another account.
- `WrittenAsAWhole` (Repository): the rows of several statements belong together
  in every committed state.  The events of a monitor's version are there, and no others
  (`EventsMatchRow`), but on PostgreSQL after two updates of it that overlapped (`mixed`);
  a measurement has its certificates (`MeasuredAsAWhole`); a process that serves has all the
  tables, and one that refuses to is on SQLite and has met some of them (`SchemaWhole`).
- `ImplementsStore` (Repository): every change of the rows is one function of `Store`,
  carried out on the rows as they are at its commit: no statement is seen without the others,
  what it takes away is what is there by then, and neither a crash nor a failure between two of
  them is seen at all.  On SQLite the functions may be those that do not enforce references, and
  on PostgreSQL an update may leave events.
- `QueriesRight` (MCRepository): of every query of the repositories, for every list
  of identifiers and in both styles, each mark is bound to its own argument
  (`AllBound`) and conditions are introduced by one WHERE (`AllJoined`).
- `ListsRight` (Inventory): a list is in order (`Ordered`) and holds, without a gap,
  the newest rows of everything the feed brought (`NothingMissed`), whatever was loaded
  twice, deleted or trimmed in between.  Both are about measurements that were not
  `Late`: the place of one that was says nothing (section 5).
- `ReferencesKnown`: nothing is selected, queued for deletion or shown in the pane
  that is not in the inventory, unless requests about that monitor overlapped.
- `CopiesAgree` (AccountsPane): for a user who waits for the answers, the list is the
  table (`AccountsAgree`) and a form that shows nothing to save shows what is
  stored (`SavedIsStored`).  `reset()` marks as saved whatever the form holds when the
  answer arrives (`Accounts.tsx:82`), so without `haste` it does not hold.
- `TokenAgrees`: the token in localStorage is the one in the state, always; and the
  name it carries is the account's, although an account may rename itself.
- `LoadingEnds`: whatever put the loading screen up, something takes it down; the one
  exemption is a failed network, which shows a notification and leaves the
  screen as it was (`Login.tsx:61`).
- `ProbeReady` (Editor): a probe that dereferences nil takes the server down, and
  `Monitor.Validate` does not look at every field.  The property rests on `sanitize`
  and `isValidMonitor`, through every kind the form has been taken.
- `SaveAccepted`: the form's rules are at least as strict as those of the decoder,
  of `Validate` and of the schema, but for what the property names: a timeout of 0, numbers that
  no column holds, the method OPTIONS, ports of a TCP monitor from 2^15 on, and whatever is left
  for a port when a TCP monitor becomes an HTTP monitor (section 6).
- `FormAgrees`: with nothing in flight, inventory is table, and the form's original is
  what is stored; its active state is exempt once the monitor was toggled elsewhere, and
  the monitor is (`doubt`) when the answer did not tell what the server had done.
- `StateJustified` (Probe): DEAD exactly when the monitor was not answered as it asks,
  OK only if it was in full, "timed out" only after the deadline or when the network gave up a
  connection of itself (section 6), and the event runs
  exactly when the state is as bad as its threshold.  `Satisfied` states the one
  case where fewer packets than were asked for are OK (section 6).
- `WaitsInTime`: from the end of name resolution on, nothing waits past the deadline:
  no probe, and no plugin whatever it writes to which pipe.  It exempts plugins of a
  shell and those that leave a process behind, and is false without either.
- `DistributorFollows` (Settings): with nothing between table and channel the copy is
  the row, through crashes and restarts, unless two updates crossed.
- `ThemeShown`: attribute, style sheet and settings of the tab agree with each other and
  with the row, for a user who waits and whom nobody interferes with; a theme that could not be
  fetched has no rules, and leaves none of the one before.

### Fairness

`distributor`, `monitor_service` and `accounts_pane` state liveness.  Goroutines that
can run do run (weak fairness): the Go scheduler is preemptive.  Senders waiting
for room in a channel get strong fairness, because the runtime queues them
first-in first-out.  Timers fire and probes end; strong fairness of `Tick` also
covers the bound `MaxPolls`, which the code does not have.  Nothing is assumed of
requests, peers, the repository or crashes: the properties hold if none of them
ever happens again, and if they never stop.  Liveness of the distributor is
conditional on `KeepsListening`, which the code does not guarantee (finding 1),
and to that extent the four properties say what *else* could go wrong.  `monitor_service`
assumes nothing of the distributor at all: `TakesEffect` is conditional on `KeepsTaking`, which
`TakesMessages` gives for a distributor that keeps listening.  Both promise nothing while a peer
stalls for good.

In `accounts_pane` a request that was sent is served (`WF` of `ServeCall`) and an
answer that keeps arriving is applied (`SF` of `AnswerCall`: a logout or a reload may
come first, and then there is another request).  The user owes nothing; the network
may fail at any time.

---------------------------------------------------------------------------

## 4. The proofs

`tlapm` checks eight modules of theorems: everything they state holds for any number
of monitors, configurations, workers, connections, handlers, requests, accounts,
statements, themes, plugins or whatever else a module takes as a constant, where TLC
visits one small instance.  The assumptions are the ones named in the modules and
evaluated by TLC: bounds are natural numbers, positive where the code has one at
least (a channel has room for a message), `None` is none of the values it
stands beside, and a few that restate a fact of the code: a page asks for no more
requests at once than there are slots (`SettingsAssumption`), there is room for one
request (`SessionAssumption`), a history asks for no more
than a list may hold (`InventoryAssumption`), shells are plugins (`ProbeAssumption`).

Every proof has the same frame: an inductive invariant, first checked by TLC as an
invariant of a run; `Init` implies it; one lemma or step per action keeps it, with
"frame" lemmas for the actions that touch nothing of a conjunct; then the theorem,
by `PTL`.

| Module | Theorem | States |
|---|---|---|
| DistributorProofs | `TypeCorrect` | `Spec => []TypeOK`, the channel within its capacity |
| | `OneWorkerPerMonitor` | `Spec => []WorkersMatchPolling` |
| | `HandshakesComplete` | `Spec => []HandshakeHasPartner` |
| | `FeedCorrect` | `Spec => []FeedInv` |
| | `SubscribersStayOpen`, `GoneReadersAreReported`, `NoRowMissed` | the three parts of `FeedInv` a reader asks for |
| | `DistributorImplementsRegistry` | `Spec => ImplementsRegistry` |
| MonitorServiceProofs | `TypeCorrect` | `Spec => []TypeOK` |
| | `DistributorInStep` | `Spec => []InStep` |
| | `DeletedStayDeleted` | `Spec => DeletedForGood` (an action property) |
| AccountProofs | `TypeCorrect` | `Spec => []TypeOK` |
| | `UsernamesUnique`, `RootAccountStays`, `TokensTellRole` | `Spec => []NamesUnique`, `[]StaysClaimed`, `[]TokensKeepRole` |
| | `AccountImplementsAccounts` | `Spec => ImplementsAccounts`, with any number of handlers |
| RepositoryProofs | `RepositoryImplementsStore` | `Spec => ImplementsStore`, on both databases, with any pool |
| | `TypeCorrect` | `Spec => []TypeOK` |
| | `WholeInBothDatabases` | `Spec => []WrittenAsAWhole` |
| | `NoOrphansIfEnforced` | `Spec => []NoOrphans`, on PostgreSQL or with a pool of one connection |
| | `QueriesAlwaysRight` | `Spec => []QueriesRight`, for lists of any length |
| SettingsProofs | `SettingsReachEvents` | `Spec => []DistributorFollows` |
| | `ThemeIsShown` | `Spec => []ThemeShown` |
| ProbeProofs | `TypeCorrect` | `ProbeSpec => []ProbeTypeOK` |
| | `NoNilInPolls`, `SavesAreAccepted`, `FormFollows` | `ProbeSpec => []ProbeReady`, `[]SaveAccepted`, `[]FormAgrees` |
| | `StatesJustified`, `PollsEndInTime` | `ProbeSpec => []StateJustified`, `[]WaitsInTime` |
| InventoryProofs | `ReferencesAlwaysKnown` | `Spec => []ReferencesKnown` |
| | `InventoryAlwaysAgrees` | `Spec => []InventoryAgrees` |
| | `TypeCorrect` | `Spec => []TypeOK`, every list within its capacity |
| | `ListsAlwaysRight` | `Spec => []ListsRight` |
| | `NewestAreKept` | `Spec => KeepsNewest` (an action property) |
| AccountsPaneProofs | `TypeCorrect` | `PaneSpec => []PaneTypeOK` |
| | `CopiesAlwaysAgree` | `PaneSpec => []CopiesAgree` |
| | `TokenAlwaysAgrees` | `PaneSpec => []TokenAgrees` |
| | `ServerAlwaysKeepsPromise` | `PaneSpec => ServerKeepsPromise`, for a hasty user as well |

**Workers** (DistributorProofs). `WorkerInv` is `WorkersMatchPolling /\
HandshakeHasPartner`.  The two are inductive only together: a stop that completes
removes the entry of `polling` *and* ends its worker, which keeps the correspondence
only if the worker the distributor blocks on is the one of the entry; and the
partner of a handshake stays alive only because a worker ends in no other way.

**Subscribers** (DistributorProofs). None of the three feed properties is inductive.
`FeedInv` adds `AnnouncedOnce` (a connection's SubscribeMessage is in the channel
once, and only before its reader runs: otherwise a second subscription could
re-register a closed connection), `AcceptedIsKnown` (from then on the connection is
registered or closed) and `LoopsAreOver` (outside its loops the distributor has no
connections left over, so a message handled in between cannot remove one that a
loop still writes to).  The channel is handled by `SendFacts` and `ReceiveFacts`,
which say what the messages in the channel are after a send and a receive, so that
no step reasons about sequences again.

**Refinement** (DistributorProofs). `Waiting` maps the mailbox: while the
distributor is blocked in a handshake its message has been received but has not taken
effect, so it counts as the oldest one waiting.  `Captured` maps `started`: a monitor
is started with the configuration its *worker* captured.  A receive that begins a
handshake is then a stutter, and the handshake is the abstract step.  `Tick`, `Report`
and the sends map to `Fire`, `Finish` and `Accept`; the connections are invisible.
MonitorService builds on Registry alone, so what it is shown to do holds of
the real distributor.

**The table and the mailbox** (MonitorServiceProofs). `InStep` speaks of a mailbox that
has nothing about the monitor; the invariant has to say what a mailbox *will* do.  A
fold of its messages would need induction, so `Leads(q, r, x, m, w)` says it with
quantifiers: carrying out `q` and then `r` takes a monitor that is started with `x` to
one that is started with `w`, because every start after the last stop is with `w`, there is
one if it has to be started, and so forth.  `Follows` says that a monitor that has not
strayed is held by one handler at most, and that what it still has to send `Brings` it in
step, or, if nobody holds it, what is in the channel and in the hands of a restoring
main does.  `UnknownInv` keeps ids that were never issued out of everything, which is
what a create relies on; `TaskInv` says of which monitors a handler's messages are.

**Accounts** (AccountProofs). `NamesUnique` rests on the table's constraint, not on the
handler's check, and is inductive; `TokensKeepRole` needs `IssuedIds` (a token of
a deleted account never comes to mean another), and `StaysClaimed` needs
`CreatorsLate`: a handler about to insert an account that is not root was let in by a
token, so it is not the first.

**Refinement** (AccountProofs).  The writes of the handlers (`InsertAdds`, `UpdateRenames`,
the deletion) and the making of a token are the steps of `Accounts`; everything before them
stutters.  A write that comes late is a step all the same: an insertion is refused or
finds its name free, and is the first only if its account is root, which is
`CreatorsLate`; an update that finds no row changes none (`MayWrite`).  Looking up a username gives one token and not several, for by `NamesUnique` it is
that of one account (`LookUpGives`).

**Statements** (RepositoryProofs). What a transaction will commit has to be true of rows that
others change meanwhile.  `Shape` says of each call what it has taken away and added, by its
function and the statements that have taken effect (`Inserting`, `Updating`, `Measuring`,
`Deleting`): a delete that has taken effect holds *exactly* what is to go (`Doomed`), an update
holds the row of its monitor, and its events unless another update has crossed it.  `Apart` says of two calls
that neither has taken away what the other has, nor adds what would refer to a row the other
is about to leave behind; in SQLite, that only one has written.  Each follows from `Waits`
(`StatementShape`, `StatementApart`), and together they give what a commit does to the `Shape`
of the others (`CommitShape`, with `MonitorStays`, `EventsStay`, `MeasurementStays`,
`DoomedStays`): nothing, but that an update it overtakes is crossed.  `RowsInv` is
`WrittenAsAWhole` with what the above rests on: what is stored has been issued (`Known`), and a
measurement is stored once (`Single`).  `MigrationInv` and `PoolInv` are of the start and the pool.  `RefsInv`
adds, where every connection enforces foreign keys, that the monitor of a measurement that is
being stored stays; the finding `repository_orphans` is that not every connection does on
SQLite, and the theorem says that nothing else is wrong.

**Refinement** (RepositoryProofs). A commit is the step of `Store`, and everything else a
stutter (`CommitServes`).  With `Shape` a call that has finished has just the rows of its
function to take away and to add (`DoneFacts`), found in `db` as it is at the commit; its
connection decides whether it is `strict`, and the events it has not taken away are those `left`.

**Queries** (RepositoryProofs). `Good` is what every call must keep of a builder: as many
markers as arguments, the n-th for the n-th; the counter one past them where markers are
numbered; and, as long as conditions may follow, the next word is the right one.
`SpreadGood`, `ConditionGood` and `ExecuteGood` say so of one call; `ResetGood` gives the last
part up, for the joining word stays as it was; and between the arguments of `ToggleMonitor` and its
two markers written by hand it does not hold at all, so `ToggleGood` takes the three calls together.
`BuildersFacts` shows that the recursive function `Builders` exists, and `RunGood` that any
number of ordinary calls keeps a builder good, each by the least number for which it would not
(`LeastOf`).  What is left is which functions make ordinary calls only (`PlainPrograms`), and
the two that do not: `ToggleEnds`, and `RelatedEnds`, whose calls after the reset include no
condition.

**Settings** (SettingsProofs). `FollowsInv`: unless two updates crossed, at most one is
between its write and its message, it is the one stored last, and otherwise what is last
in the channel (`Coming`) is what is stored.  `TabInv`: a tab without doubt is `Loading`,
`Saving` or `Fetching` a theme - three situations with what each has shown so far - and
every request, answer and continuation leads from one to another.

**Form and polls** (ProbeProofs). `FormInv` follows a monitor through the form:
whatever was edited, `sanitize` or the store has a value for what its kind dereferences
(`ReadyInv`), what has an id is stored (`IdInv`), and a monitor without doubt has one
request at most, before which the copies agree and after which the store is ahead by
just what it asked for (`InStep`).  `PollInv` says what a poll has while it waits, by what
it waits for (`PhaseInv`, `RunInv`), which is what makes the state it ends with
justified and its age bounded.

**The dashboard's copy** (InventoryProofs). `TabInv` has the same shape with any number of
requests: those that conflict share no monitor but doubtful ones (`Apart`), the store is
`Ahead` of the tab by the write of the one that has been carried out and not yet answered,
and everything selected, queued or shown is of a monitor the tab has or doubts (`Refers`).

**The lists** (InventoryProofs). `ListsRight` says what a list is; the invariant `Lists` has
to say what the feed will do to it.  `Right` adds, of the measurements on their way (always the
last `Len(feed)` ones: `FeedInv`): one that the first load already brought is in the list
or is newer than all of it, so that `pollAction` recognises it or appends it; and it is
so near the end of the list that no trim reaches it before the feed has
repeated it.  The last clause is where `Backlog <= BatchSize` is needed: with more than a batch
under way a measurement could be loaded, trimmed and then appended again, out of order.
`LiveInv` says that a live object is of a monitor the tab has, and that what a
request to prune deleted exists no more once it succeeded, so an answer that removes it from a list
leaves no gap.  `InOrder` is a CHOOSE: `InOrderFacts` shows that what it chooses exists
(a least counterexample instead of an induction) and `Spread`
that the place in such an order bounds the distance of its values.  `NewestAreKept` follows from the same step
lemmas, which also show `Keeps`.

An attempt at this proof failed for a good reason: `NothingMissed` used to demand a timely
measurement that lies between a late one and the rest, and nothing keeps that one in a list.
With `BatchSize` 2, `MaxMeasurements` 3 and a first load of 3 and 5 where 3 was late, 4 is left
out and the list `<<3, 5, 6>>` is what the code means it to be.  The run's
sizes were too small to show it; the property now compares timely measurements only.

**The accounts pane** (AccountsPaneProofs). `CopiesAgree` and `TokenAgrees` speak of a
dashboard with nothing in flight; the invariant has to say what holds while a request
is.  `BaseInv` has the types and the places: who is signed in is not at the login, what
a request in flight asks for and what its answer holds, no account with an id the server
has yet to give (otherwise a create could meet the row of another account), and a page that
is not found without requests.  `Patient` is of the user who waits, page by page.  At the
login, a request to sign in is the only one (`Entering`).  At the dashboard (`InTurn`) there
is one request at most, and there is a table `old`, the server's before that request was carried
out, with which token, form and list agree, and `Made` says how the server's table and the
pane follow from `old` and the request: that a form with a request in flight still shows what it
asked for is what makes `reset()` of the form as it is *by now* right, and that an update that
is not a reissue is of another account is why the token stays right.  Between pages,
`NamedIn` is what a reload keeps.  The table lemmas (`CreatedList`, `UpdatedList`,
`DeletedList`) show of each reducer, and for any list, that it takes a copy of `old` to a
copy of the table after the request; `ListedFacts` and `CopyFacts` that a copy is what the
server lists, without repetition.  As soon as the user is hasty nothing of this holds:
`haste` is why the theorems can say exactly what the code keeps.

**The server behind the pane** (AccountsPaneProofs). The model keeps of an account its name,
and of a token a place in `issued`; `ServerRows` and `ServerTokens` map them to rows and
tokens with a role, which is root for the account 1 alone, the one a claim makes.
`RowAdded`, `RowRenamed`, `RowRemoved` and `GivenFacts` say what one answer does to
the mapped state, and every step of the client leaves it as it is.  Of the invariant only
`BaseInv` is needed, so the theorem has no condition on the user.

Only model-checked is liveness (`StopTakesEffect`, `StartedIsPolled`,
`GoneSubscriberDropped`, `TakesMessages`, `TakesEffect`, `LoadingEnds`): fairness and `ENABLED` are
beyond the prover.

---------------------------------------------------------------------------

## 5. Assumptions and abstractions

**Distributor.** Every connection has a key of its own (the code draws 63 random
bits).  A poll ends; Probe says when that is so.  Rows are counted up to
`MaxRows` and stay there.  `json.Marshal` of a measurement does not fail (186-190
is unreachable for these types).  Polls in progress are bounded before a
timer fires or a request is made, never when one ends.

**MonitorService.** The mailbox holds `Room` = capacity + 1 messages: one may be
in the hands of a distributor that is blocked on it.  Ids repeated in a query and
ids of no monitor change nothing that one occurrence, or none, would not.  A body
without an id makes the handler panic before it does anything.  A panic of a
handler ends that request only.

**Account.** A password is right or wrong; hashing takes time but no state.
Validation is a guard.  Names stand for usernames that are valid.

**Repository.** A pooled connection is not closed while the process lives.
SQLite has one writer at a time; others wait or fail (`Fail` may happen to any
call at any time, and is also how a deadlock of PostgreSQL is resolved).  PostgreSQL runs every
transaction at READ COMMITTED, its default, which no query of the repository changes; its row
locks are `Waits`: a row that two change, and a row that one leaves behind and the other
refers to.  Ids are chosen ahead but must not have been issued before.  `Validate` looks for tables only: a crash
after the last table and before the last trigger leaves the triggers missing, which
the model records (`made`) and no operation notices.  A monitor's row has
a version, and its events are those of a version, one row for all of them; `Plain` versions have
none, and every write has a version of its own (`Fresh`), so that rows tell who wrote them.

**Inventory.** One tab, and no other client changes the server.  While the
loading screen or the delete dialog is shown the user can do nothing else.  An
object is `[id, live]`: whether it is the one in the map or an earlier one that a
pane still holds.  `Late` are measurements whose poll began before that of one
stored earlier: the server ranks by the first time and lists by the second.
The settings and accounts panes count as no pane.  The filter, pages, checked
rows, the origin of a detached view and notifications are left out; the fields of
the form are in Editor.  A login begins another behaviour, and the session is in
Session.  A behaviour makes `MaxWork` requests and measurements; a page begins with any stored state, so a reload
is another behaviour.  The editor may save any `active` (it may hold an old one).
A torn read of a monitor and its measurements (two queries) is abstracted: a load
reads one moment.

**Session, AccountsPane.** React renders between two events, so a handler and the
redirects and effects that follow from it are one step.  A reload abandons the
requests in flight; what the server has not served by then it does not serve.  The
server answers one request at a time and within what `Accounts` promises, which is
proved; that it answers in every way it could is not, and it does not: there is one root account,
and handlers that race are in Account only.  The two or three requests
of a dashboard count as one.  Passwords are typed or not.

**Editor.** Values are ranges: a negative number, 0, a positive one, one that no column of the
schema holds and one that is not whole; ports as they are given; one of each
kind of text; a list has at most one row and a monitor at most one event.  The
description, the body, the certificate and capture switches are only carried, and
left out.  `doubt` holds the monitors of which the client cannot know: an answer was
lost or did not tell what the server had done, two requests met, or a header row, which the form shares with the request
(`Editor.tsx:580`), was typed while it was being saved.

**Probe.** Time is discrete, and does not pass while the server has something to do:
"in time" means "but for its own work".  Name resolution ends or fails when it
likes (no probe gives it the context).  What a host answers, which packets come back
and what a plugin writes are free.  A process keeps both its streams until it ends;
processes that close one early are left out.  Packets are not duplicated.  A killed
plugin reports the exit code -1; one that ended with 0 but whose streams were held
past the deadline is reported as timed out (`exec.Cmd.Wait` returns the error of the context
when there is no other).  Polls begin when the form is closed and no request is in
flight: the poll has a copy of the row, and any row that is stored at another time is
stored then too.  The distributor hands its settings to a poll by value; what a poll
reads of them are the delimiters.

**Settings.** The draft of the pane is chosen when it is saved.  Other clients save
too, and are what `doubt` is for.  `formatTheme` and the theme's text are the file's name.
There is one tab, and leaving the pane does not change what a save goes on to do.

---------------------------------------------------------------------------

## 6. Findings

1. **The distributor can block on itself** (`internal/monitor/distributor.go:200`,
   run `distributor_self_block`).  *"Listen will block and listen for incoming
   messages"* (37); after a write to a subscriber fails, its own loop sends an
   UnsubscribeMessage to the channel only it receives from.  With the buffer
   taken by anyone else, nothing is ever received again.
2. **Overlapping requests leave polling and table apart** (`server/monitor.go:176`,
   `internal/monitor/service.go`, run `monitor_service_overlap`).  The editor says the state
   *"Controls the polling state of the monitor."*
   (`Editor.tsx:198`).  Handlers write in one order and may send in the other.
3. **Two first visitors may both claim the server**
   (`internal/account/service.go:40`, run `account_claim`).  *"Attempts to claim an
   already claimed server must be rejected."* (38).
4. **Deleting a monitor may leave its measurements** (`repository/sqlite/sqlite.go:24`,
   run `repository_orphans`).  *"Deleting a monitor will also delete the
   measurements associated with that monitor."* (`DeleteDialogContent.tsx:20`).
   The pragma that makes SQLite cascade is set on one connection of the pool.

Met while modelling, kept by the models, and not stated as runs of their own
because no line of the repository says otherwise clearly enough, or because a
property above exempts exactly them:

- Plugins: a `.sh` plugin is started without the context (`plugin.go:130`), so the
  form's *"The seconds that the probe has to complete before timing out."*
  (`Editor.tsx:228`) does not hold for it; one that also fills stderr before it closes stdout
  (`plugin.go:150`) never ends.  A killed plugin is reported with the exit code -1 and
  no word of the timeout (`plugin.go:169`).
- Probes: "timed out" is also what a dial is reported with that the system or the transport
  gave up before a longer deadline (`tcp.go:36` asks for `net.Error.Timeout()`, `http.go:66` for
  `context.DeadlineExceeded`, both true of either).  No resolver is bounded by the timeout (`http.go:36`, `tcp.go:24`,
  `icmp.go:26`).  `http.go:36` looks up the host *with* its port, so an address with an
  explicit port never resolves.  `icmp.go:90` divides whole numbers before it compares:
  a timeout up to a second too short is not warned about, and as the loss is that of the
  packets that were sent, such a poll may run out of time and be OK with a hint
  that it timed out.
- The form: a timeout of 0 passes it (*"Requires a positive integer."*,
  `Editor.tsx:234`) and is refused by the server; ports from 32768 on pass the form
  and the schema and do not fit `monitor.go:73`; a port of -1 or 1.5 that was typed for a TCP
  monitor stays in the draft of the HTTP monitor it is made (`Editor.tsx:252`), where neither
  `isValidHTTP` (691) nor `sanitize` (765) looks at it, and the server refuses it; a number too
  large for its column passes the form as well; the method OPTIONS is offered
  (`Editor.tsx:329`) and refused by the schema.  `monitor.go:38` gives `Delete` the value
  "GET".  The "deep clone" of `Editor.tsx:580` shares its rows of headers.  Errors are
  not cleared by a save that succeeds, a second click creates a second monitor,
  and an open form does not follow a monitor that is toggled.
- Toggles: an error of the write is dropped and the answer is 200 (`server/monitor.go:176`), and
  one of the selection after it is answered with 500 although the row has changed (178).
- Accounts: an update of an account that is deleted between look-up and write changes no row and
  succeeds (`repository/common/account.go:45`); if another account has taken the username by then, the user who
  renames the own account is given the token of that other account (`server/account.go:279`).
- PostgreSQL: two updates of a monitor that overlap may leave the events of both
  (`repository/postgres/monitor.go:109`): the second clears what it saw before it waited.
- The session: a 401 to a request of the session before signs out the session
  after (`useDefaultInterceptors.ts:12`).  The message that a password needs a number is
  not what `account.go:99` checks.
- Settings: two updates may be stored in one order and queued in the other
  (`service.go:49`); an answer of the page's start overrides a theme saved meanwhile
  (`Initialize.tsx:31`); `reloadTheme` does not wait for the theme it asks for
  (`Settings.tsx:93`), and resetting the settings leaves attribute and sheet
  (`useDataFetch.ts:50`).  The distributor assigns its settings while a poll may
  read them (`distributor.go:60`, 156) - a data race in which a poll, which reads one pointer
  of them, sees the old delimiters or the new ones.

---------------------------------------------------------------------------

## 7. What is not modelled, and why

- Of the dashboard: the filter, pages, checked rows and the detached view (they
  choose what is displayed of lists that are modelled), and a logout while its
  requests are in flight (every login begins with a new load; what answers of an
  earlier session do is in Session and AccountsPane).
- Of probes: headers, certificates and hints; the branches for Windows.
- Server routing, responses and middleware: stateless.  What a 401 does is in Session.
- Environment, logging, diagnostics and values: read once or pure.  The decoding of
  the values that a monitor consists of is in Editor.
- Favicon graphics, presentation components, CSS, scripts, mocks and seed data.

---------------------------------------------------------------------------

## 8. The plan

Done, in this order: Registry and Distributor with proofs and refinement;
MonitorService over Registry; Account; SqlBuilder; Repository; Inventory; Session
and AccountsPane; Editor; Settings; Probe over Editor; Store and Accounts as
promises of the repository and of the accounts.  What is left of the code is listed in
section 7.

Every invariant and action property of a passing run is a theorem, but for those at the
end of section 4, and so are the refinements.  What would say more: in
Settings and Inventory, what a *hasty* user may rely on, as the properties are silent as
soon as requests meet.
