----------------------------- MODULE Repository -----------------------------
(***************************************************************************)
(* The repository: how it is opened, checked and migrated when the process *)
(* starts (repository/builder.go), and the functions that write monitors   *)
(* and measurements (repository/sqlite, repository/postgres,               *)
(* repository/common), over the connection pool of database/sql.  SQLite   *)
(* enforces foreign keys on a connection only after a PRAGMA on that same  *)
(* connection, and it has one writer at a time; PostgreSQL always enforces *)
(* them, and its transactions, READ COMMITTED, interleave by statements    *)
(* and wait for the rows that another has changed.  The process may crash  *)
(* between any two statements.  Callers see the store that Store.tla       *)
(* describes.                                                              *)
(***************************************************************************)
EXTENDS Naturals, Sequences

CONSTANTS
  Kinds,     \* "SQLite", "PostgreSQL", or either
  Conns,     \* connections the pool may open: ZENIN_REPO_MAX_CONN, unlimited by default
  Clients,   \* callers that use the repository at the same time
  Monitors, Measurements,  \* ids of rows
  Versions,  \* what a monitor row holds besides its id, with its events; told apart by
             \* who has written it
  Plain,     \* versions without events
  Tables, Triggers,        \* statements of the migration that create tables, and the rest
  None       \* no value

ASSUME KindAssumption == Kinds \subseteq {"SQLite", "PostgreSQL"}
ASSUME SchemaAssumption == Tables \in Nat \ {0} /\ Triggers \in Nat
ASSUME PlainAssumption == Plain \subseteq Versions

VARIABLES
  kind,   \* which of the two it is
  stage,  \* where the process is in its start
  made,   \* statements of the migration that have taken effect
  pool,   \* connections: closed, or open and enforcing foreign keys or not
  db,     \* the rows that have been committed
  issued, \* the keys of monitors and measurements: ids are never issued again
  call,   \* what every caller is doing: its connection, its function, its transaction
  mixed   \* a history: monitors last updated while another update of them was committed

rowVars == <<db, issued, mixed>>
vars == <<kind, stage, made, pool, db, issued, call, mixed>>

(* The rows, each in its table: a monitor has a version, a measurement is one of a
   monitor, and the events of a version, or the certificates of a measurement,
   count as one row. *)
Row(table, id, val) == [table |-> table, id |-> id, val |-> val]
MonitorRow(m, v) == Row("monitor", m, v)
EventRows(m, v) == IF v \in Plain THEN {} ELSE {Row("event", m, v)}
MeasurementRow(i, m) == Row("measurement", i, m)
CertificateRow(i) == Row("certificate", i, None)

(* The key of a row, and the one it refers to. *)
Key(r) == <<r.table, r.id>>
Keys(set) == {Key(r) : r \in set}
Parent(r) ==
  CASE r.table = "event" -> <<"monitor", r.id>>
    [] r.table = "measurement" -> <<"monitor", r.val>>
    [] r.table = "certificate" -> <<"measurement", r.id>>
    [] OTHER -> None

TableSet == {"monitor", "event", "measurement", "certificate"}
KeySet == TableSet \X (Monitors \cup Measurements)

ASSUME NoneAssumption == None \notin KeySet

Init ==
  /\ kind \in Kinds
  /\ stage = [at |-> "down", next |-> 0]
  /\ made = 0
  /\ pool = [c \in Conns |-> "closed"]
  /\ db = {} /\ issued = {}
  /\ call = [k \in Clients |-> None]
  /\ mixed = {}

-----------------------------------------------------------------------------
(* Start. *)

(* Does a connection enforce foreign keys?  In SQLite the first one does: it is
   the one that the PRAGMA is executed on. *)
Enforces(first) == kind = "PostgreSQL" \/ first

Opened(first) == IF Enforces(first) THEN "enforcing" ELSE "bare"

(* The pool opens its first connection. *)
Open ==
  /\ stage.at = "down"
  /\ stage' = [at |-> "validating", next |-> 0]
  /\ \E c \in Conns : pool' = [pool EXCEPT ![c] = Opened(TRUE)]
  /\ UNCHANGED <<kind, made, rowVars, call>>

(* Are all tables there?  Triggers are not asked for. *)
Validate ==
  /\ stage.at = "validating"
  /\ stage' = [stage EXCEPT !.at = IF made >= Tables THEN "serving" ELSE "migrating"]
  /\ UNCHANGED <<kind, made, pool, rowVars, call>>

(* SQLite executes the migration one statement after the other, each on its
   own; one that creates what is there already fails, and main exits. *)
MigrateStep ==
  /\ stage.at = "migrating"
  /\ IF stage.next < made
     THEN stage' = [stage EXCEPT !.at = "refused"] /\ UNCHANGED made
     ELSE /\ made' = made + 1
          /\ stage' = IF made' = Tables + Triggers THEN [stage EXCEPT !.at = "serving"]
                                                   ELSE [stage EXCEPT !.next = @ + 1]
  /\ UNCHANGED <<kind, pool, rowVars, call>>

(* PostgreSQL executes it as a whole. *)
MigrateAtOnce ==
  /\ stage.at = "migrating"
  /\ made' = Tables + Triggers
  /\ stage' = [stage EXCEPT !.at = "serving"]
  /\ UNCHANGED <<kind, pool, rowVars, call>>

Migrate == IF kind = "SQLite" THEN MigrateStep ELSE MigrateAtOnce

(* The process ends, at any moment: its connections close, and transactions that
   are open are rolled back. *)
Crash ==
  /\ stage.at # "down"
  /\ stage' = [at |-> "down", next |-> 0]
  /\ pool' = [c \in Conns |-> "closed"]
  /\ call' = [k \in Clients |-> None]
  /\ UNCHANGED <<kind, made, rowVars>>

-----------------------------------------------------------------------------
(* The functions, and how many statements each of them executes. *)

Fn(do, id, val) == [do |-> do, id |-> id, val |-> val]
Inserts == {"InsertMonitor", "InsertMeasurement"}
Deletes == {"DeleteMonitor", "DeleteMeasurement"}

(* The events are the last to be written, and there may be none. *)
Length(fn) ==
  CASE fn.do = "InsertMonitor" -> IF fn.val \in Plain THEN 1 ELSE 2
    [] fn.do = "UpdateMonitor" -> IF fn.val \in Plain THEN 2 ELSE 3
    [] fn.do = "InsertMeasurement" -> 2
    [] OTHER -> 1

(* The key of what a function inserts, updates or deletes. *)
Target(fn) ==
  IF fn.do \in {"InsertMeasurement", "DeleteMeasurement"} THEN <<"measurement", fn.id>>
  ELSE <<"monitor", fn.id>>

(* d, of the rows s, without what refers to it. *)
WithoutCascade(s, d) == d

(* d, of the rows s, and what refers to it, and to that. *)
Cascade(s, d) ==
  LET first == {r \in s : Parent(r) \in Keys(d)}
  IN d \cup first \cup {r \in s : Parent(r) \in Keys(first)}

-----------------------------------------------------------------------------
(* Callers. *)

Busy(c) == \E k \in Clients : call[k] # None /\ call[k].conn = c
Idle == {c \in Conns : pool[c] # "closed" /\ ~ Busy(c)}

Running(k) == call[k] # None
Updates(k, m) == Running(k) /\ call[k].fn.do = "UpdateMonitor" /\ call[k].fn.id = m

(* Every write has a version of its own. *)
Fresh(v) ==
  /\ \A r \in db : r.table \in {"monitor", "event"} => r.val # v
  /\ \A k \in Clients : Running(k) => /\ call[k].fn.val # v
                                     /\ \A r \in call[k].seen : r.val # v

EventsOf(m) == {r \in db : Key(r) = <<"event", m>>}

(* The pool gives an idle connection, or opens another one if none is idle; the
   first statement begins.  at: the statements that have taken effect; del, add:
   the rows they have taken away and added; seen: the events that PostgreSQL lets
   the first statement see; crossed, a history: another update of this monitor
   has been committed since. *)
Connect(k, fn) ==
  /\ stage.at = "serving" /\ ~ Running(k)
  /\ \E c \in Conns :
       /\ IF Idle # {} THEN c \in Idle /\ UNCHANGED pool
                       ELSE pool[c] = "closed" /\ pool' = [pool EXCEPT ![c] = Opened(FALSE)]
       /\ call' = [call EXCEPT ![k] =
            [conn |-> c, fn |-> fn, at |-> 0, del |-> {}, add |-> {},
             seen |-> IF kind = "PostgreSQL" /\ fn.do = "UpdateMonitor" THEN EventsOf(fn.id) ELSE {},
             crossed |-> FALSE]]
  /\ UNCHANGED <<kind, stage, made, rowVars>>

-----------------------------------------------------------------------------
(* Statements. *)

Enforcing(k) == pool[call[k].conn] = "enforcing"

(* What the next statement of a transaction finds, and takes away.  PostgreSQL
   clears the events that were there when the statement began; it finds any other
   row as it is when it has waited for it. *)
Found(k) == {r \in db : Key(r) = Target(call[k].fn)}
Gone(k) ==
  LET fn == call[k].fn
  IN CASE fn.do = "UpdateMonitor" /\ call[k].at = 0 ->
            IF kind = "SQLite" THEN EventsOf(fn.id) ELSE EventsOf(fn.id) \cap call[k].seen
       [] fn.do = "UpdateMonitor" /\ call[k].at = 1 -> Found(k)
       [] fn.do \in Deletes -> IF Enforcing(k) THEN Cascade(db, Found(k)) ELSE Found(k)
       [] OTHER -> {}

(* What it adds.  A monitor that is not there any more is not updated. *)
New(k) ==
  LET fn == call[k].fn
  IN CASE fn.do = "InsertMonitor" /\ call[k].at = 0 -> {MonitorRow(fn.id, fn.val)}
       [] fn.do = "UpdateMonitor" /\ call[k].at = 0 -> {}
       [] fn.do = "UpdateMonitor" /\ call[k].at = 1 ->
            IF Found(k) = {} THEN {} ELSE {MonitorRow(fn.id, fn.val)}
       [] fn.do = "InsertMeasurement" /\ call[k].at = 0 -> {MeasurementRow(fn.id, fn.val)}
       [] fn.do = "InsertMeasurement" /\ call[k].at = 1 -> {CertificateRow(fn.id)}
       [] fn.do \in Deletes -> {}
       [] OTHER -> EventRows(fn.id, fn.val)

(* The keys that are gone when these rows are, and those are there instead. *)
Left(del, add) == Keys(del) \ Keys(add)

(* Another transaction has written, and a write waits for it, or fails: in SQLite
   anything; in PostgreSQL the same row, or a row that this one would refer to,
   or would leave behind. *)
Waits(k) ==
  \E h \in Clients \ {k} :
    /\ Running(h)
    /\ \/ kind = "SQLite" /\ call[h].at > 0
       \/ Gone(k) \cap call[h].del # {}
       \/ \E r \in New(k) : Parent(r) \in Left(call[h].del, call[h].add)
       \/ \E r \in call[h].add : Parent(r) \in Left(Gone(k), New(k))

(* A reference to a row that is not there: an enforcing connection refuses it. *)
Refuses(k) ==
  /\ Enforcing(k)
  /\ \E r \in New(k) : /\ Parent(r) # None
                       /\ Parent(r) \notin Keys((db \ call[k].del) \cup call[k].add)

Executed(k) ==
  /\ call' = [call EXCEPT ![k].at = @ + 1, ![k].del = @ \cup Gone(k), ![k].add = @ \cup New(k)]
  /\ UNCHANGED <<kind, stage, made, pool, rowVars>>

MoreToDo(k) == Running(k) /\ call[k].at < Length(call[k].fn)

(* Seeded bug: no transaction waits for another. *)
StatementUnlocked(k) == MoreToDo(k) /\ ~ Refuses(k) /\ Executed(k)

(* One statement of a transaction. *)
Statement(k) == MoreToDo(k) /\ ~ Waits(k) /\ ~ Refuses(k) /\ Executed(k)

Committed(k) == (db \ call[k].del) \cup call[k].add

Commit(k) ==
  LET fn == call[k].fn
  IN /\ Running(k) /\ call[k].at = Length(fn)
     /\ db' = Committed(k)
     /\ issued' = IF fn.do \in Inserts THEN issued \cup {Target(fn)} ELSE issued
     /\ call' = [h \in Clients |->
                   IF h = k THEN None
                   ELSE IF fn.do = "UpdateMonitor" /\ Updates(h, fn.id)
                   THEN [call[h] EXCEPT !.crossed = TRUE] ELSE call[h]]
     /\ mixed' = IF fn.do # "UpdateMonitor" THEN mixed
                 ELSE IF call[k].crossed THEN mixed \cup {fn.id} ELSE mixed \ {fn.id}
     /\ UNCHANGED <<kind, stage, made, pool>>

(* Seeded bug: what has been written before a failure stays. *)
FailKeeps(k) ==
  /\ Running(k)
  /\ db' = Committed(k)
  /\ call' = [call EXCEPT ![k] = None]
  /\ UNCHANGED <<kind, stage, made, pool, issued, mixed>>

(* A statement is refused, the database is locked, two transactions wait for each
   other or the request is cancelled: the transaction is rolled back. *)
Fail(k) ==
  /\ Running(k)
  /\ call' = [call EXCEPT ![k] = None]
  /\ UNCHANGED <<kind, stage, made, pool, rowVars>>

(* The id of a row that is inserted is one that nobody has been given. *)
Insert(k, fn) ==
  /\ Target(fn) \notin issued
  /\ \A h \in Clients : Running(h) => Target(call[h].fn) # Target(fn)
  /\ Connect(k, fn)

(* A monitor is updated or measured, and anything is deleted, when it is, or has
   been, in its table. *)
Call(k) ==
  \/ \E m \in Monitors, v \in Versions :
       /\ Fresh(v)
       /\ \/ Insert(k, Fn("InsertMonitor", m, v))
          \/ <<"monitor", m>> \in issued /\ Connect(k, Fn("UpdateMonitor", m, v))
  \/ \E i \in Measurements, m \in Monitors :
       <<"monitor", m>> \in issued /\ Insert(k, Fn("InsertMeasurement", i, m))
  \/ \E m \in Monitors : <<"monitor", m>> \in issued /\ Connect(k, Fn("DeleteMonitor", m, None))
  \/ \E i \in Measurements :
       <<"measurement", i>> \in issued /\ Connect(k, Fn("DeleteMeasurement", i, None))

Next ==
  \/ Open \/ Validate \/ Migrate \/ Crash
  \/ \E k \in Clients : Call(k) \/ Statement(k) \/ Commit(k) \/ Fail(k)

Spec == Init /\ [][Next]_vars
-----------------------------------------------------------------------------
(* Properties. *)

(* Every variable has its type; what a transaction has taken away is there until it
   is committed. *)
RowSet ==
  [table : TableSet, id : Monitors \cup Measurements, val : Versions \cup Monitors \cup {None}]
FnSet ==
  [do : Inserts \cup Deletes \cup {"UpdateMonitor"}, id : Monitors \cup Measurements,
   val : Versions \cup Monitors \cup {None}]
CallSet ==
  [conn : Conns, fn : FnSet, at : 0 .. 3, del : SUBSET RowSet, add : SUBSET RowSet,
   seen : SUBSET RowSet, crossed : BOOLEAN]

TypeOK ==
  /\ kind \in Kinds
  /\ stage \in [at : {"down", "validating", "migrating", "serving", "refused"}, next : 0 .. Tables + Triggers]
  /\ made \in 0 .. Tables + Triggers
  /\ pool \in [Conns -> {"closed", "bare", "enforcing"}]
  /\ db \subseteq RowSet /\ issued \subseteq KeySet /\ mixed \subseteq Monitors
  /\ call \in [Clients -> {None} \cup CallSet]
  /\ \A k \in Clients : Running(k) => call[k].at <= Length(call[k].fn) /\ call[k].del \subseteq db

(* "Deleting a monitor will also delete the measurements associated with that
   monitor" (DeleteDialogContent.tsx:20), the one that a poll stores while the
   monitor is deleted included. *)
MeasurementsDeleted ==
  \A r \in db : r.table = "measurement" => Parent(r) \in Keys(db)

(* Every connection enforces foreign keys if the database does, or if there is
   no other connection than the first one. *)
AllEnforce == kind = "PostgreSQL" \/ \E c \in Conns : Conns = {c}

(* Where they do, no row refers to one that is not there: events and measurements
   go with their monitor, certificates with their measurement. *)
NoOrphans == AllEnforce => \A r \in db : Parent(r) = None \/ Parent(r) \in Keys(db)

(* The events of the version that the row of a monitor holds are there, whatever
   fails, crashes or overlaps between the statements that write the two; and no
   others are, but where PostgreSQL has let two updates of the monitor overlap:
   what the first one adds, the second does not see when it clears the events
   (repository/postgres/monitor.go:109). *)
EventsMatchRow ==
  \A r \in db : r.table = "monitor" =>
    /\ EventRows(r.id, r.val) \subseteq db
    /\ \/ EventsOf(r.id) = EventRows(r.id, r.val)
       \/ kind = "PostgreSQL" /\ r.id \in mixed

(* A measurement that is stored is stored with its certificates. *)
MeasuredAsAWhole == \A r \in db : r.table = "measurement" => CertificateRow(r.id) \in db

(* A process that serves has all the tables, and one that refuses to has met
   some of them, and not all, when it began to create them (builder.go:44). *)
SchemaWhole ==
  /\ stage.at = "serving" => made >= Tables
  /\ stage.at = "refused" => kind = "SQLite" /\ made \in 1 .. Tables - 1

(* What several statements write is there as a whole, or not at all. *)
WrittenAsAWhole == EventsMatchRow /\ MeasuredAsAWhole /\ SchemaWhole

-----------------------------------------------------------------------------
(* The promise of Store. *)

Promise == INSTANCE Store WITH enforced <- AllEnforce, isolated <- kind = "SQLite"

(* Callers cannot tell the repository from a store whose functions take effect
   one at a time, but for the events that an update of PostgreSQL leaves: no
   statement of a transaction is seen without the others, what it takes away is
   what is there when it is committed, and neither a crash nor a failure between
   two statements is seen (monitor.go, measurement.go of repository/sqlite and
   repository/postgres). *)
ImplementsStore == Promise!StoreSpec
=============================================================================
