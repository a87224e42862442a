-------------------------- MODULE RepositoryProofs --------------------------
(* Proofs of the safety properties of Repository, and that it implements Store,
   for any number of connections, callers, rows and versions, and any length of
   the migration, in both databases; and that the queries of SqlBuilder are right
   for lists of any length. *)
EXTENDS MCRepository, SequenceTheorems, WellFoundedInduction, TLAPS

-----------------------------------------------------------------------------
(* The rows of a table that have an id; and those that refer to a monitor, directly
   or over a measurement. *)
Of(d, table, id) == {r \in d : r.table = table /\ r.id = id}
Measured(d, m) == {r \in d : r.table = "measurement" /\ r.val = m}
Certified(d, m) == {r \in d : r.table = "certificate" /\ \E s \in Measured(d, m) : s.id = r.id}

(* What a delete of a row takes away on a connection, and what an update adds first. *)
Doomed(fn, d, conn) ==
  IF fn.do = "DeleteMonitor"
  THEN Of(d, "monitor", fn.id)
       \cup (IF conn = "enforcing" /\ Of(d, "monitor", fn.id) # {}
             THEN Of(d, "event", fn.id) \cup Measured(d, fn.id) \cup Certified(d, fn.id) ELSE {})
  ELSE Of(d, "measurement", fn.id)
       \cup (IF conn = "enforcing" /\ Of(d, "measurement", fn.id) # {}
             THEN Of(d, "certificate", fn.id) ELSE {})
Replaced(fn, d) == IF Of(d, "monitor", fn.id) = {} THEN {} ELSE {MonitorRow(fn.id, fn.val)}

(* How far each function has come, as its call c says: what it has taken away and
   added, with the rows d, the keys i, and the connection conn of a database of this
   kind. *)
Inserting(c, i) ==
  /\ c.fn.do = "InsertMonitor" /\ c.fn.id \in Monitors /\ c.fn.val \in Versions
  /\ <<"monitor", c.fn.id>> \notin i /\ c.del = {}
  /\ c.at = 0 => c.add = {}
  /\ c.at = 1 => c.add = {MonitorRow(c.fn.id, c.fn.val)}
  /\ c.at = 2 => c.add = {MonitorRow(c.fn.id, c.fn.val)} \cup EventRows(c.fn.id, c.fn.val)

Updating(c, d, i, conn, of) ==
  /\ c.fn.do = "UpdateMonitor" /\ c.fn.id \in Monitors /\ c.fn.val \in Versions
  /\ <<"monitor", c.fn.id>> \in i
  /\ \A r \in c.del : r.table \in {"monitor", "event"} /\ r.id = c.fn.id
  /\ c.at = 0 => /\ c.del = {}
                 /\ of = "PostgreSQL" /\ ~ c.crossed => Of(d, "event", c.fn.id) \subseteq c.seen
  /\ c.at # 0 /\ (of = "SQLite" \/ ~ c.crossed) => Of(d, "event", c.fn.id) \subseteq c.del
  /\ c.at \in {0, 1} => c.add = {}
  /\ c.at \in {2, 3} => Of(d, "monitor", c.fn.id) \subseteq c.del
  /\ c.at = 2 => c.add = Replaced(c.fn, d)
  /\ c.at = 3 => /\ c.add = Replaced(c.fn, d) \cup EventRows(c.fn.id, c.fn.val)
                 /\ conn = "enforcing" => Of(d, "monitor", c.fn.id) # {}

Measuring(c, i) ==
  /\ c.fn.do = "InsertMeasurement" /\ c.fn.id \in Measurements /\ c.fn.val \in Monitors
  /\ <<"measurement", c.fn.id>> \notin i /\ <<"monitor", c.fn.val>> \in i /\ c.del = {}
  /\ c.at = 0 => c.add = {}
  /\ c.at = 1 => c.add = {MeasurementRow(c.fn.id, c.fn.val)}
  /\ c.at = 2 => c.add = {MeasurementRow(c.fn.id, c.fn.val), CertificateRow(c.fn.id)}

Deleting(c, d, i, conn) ==
  /\ \/ c.fn.do = "DeleteMonitor" /\ c.fn.id \in Monitors /\ <<"monitor", c.fn.id>> \in i
     \/ c.fn.do = "DeleteMeasurement" /\ c.fn.id \in Measurements /\ <<"measurement", c.fn.id>> \in i
  /\ c.add = {}
  /\ c.at = 0 => c.del = {}
  /\ c.at = 1 => c.del = Doomed(c.fn, d, conn)

Shape(c, d, i, conn, of) ==
  Inserting(c, i) \/ Updating(c, d, i, conn, of) \/ Measuring(c, i) \/ Deleting(c, d, i, conn)

-----------------------------------------------------------------------------
(* The invariant. *)

(* The process serves with all the tables; in SQLite it has stopped at a migration that
   it has met half done. *)
MigrationInv ==
  /\ kind \in Kinds
  /\ stage.at = "validating" => stage.next = 0
  /\ stage.at = "migrating" => stage.next <= made /\ made < Tables + Triggers
                               /\ (stage.next < made => stage.next = 0 /\ made < Tables)
  /\ SchemaWhole
  /\ stage.at # "serving" => \A k \in Clients : ~ Running(k)

(* A caller keeps its connection; on PostgreSQL all of them enforce foreign keys, and
   on SQLite all do if the first one is the only one. *)
PoolInv ==
  /\ stage.at # "down" => \E c \in Conns : pool[c] # "closed"
  /\ \A k \in Clients : Running(k) => pool[call[k].conn] # "closed"
  /\ AllEnforce => \A c \in Conns : pool[c] # "bare"

(* What is stored has been issued, once; and is there as a whole, as WrittenAsAWhole
   says, of the rows d and the monitors x that two updates have mixed. *)
Home(r) == IF r.table \in {"monitor", "event"} THEN <<"monitor", r.id>> ELSE <<"measurement", r.id>>
Known(d, i) == \A r \in d : Home(r) \in i
Single(d) == \A r, s \in d : r.table = "measurement" /\ s.table = "measurement" /\ r.id = s.id => r = s
Matched(d, x, of) ==
  \A r \in d : r.table = "monitor" =>
    /\ EventRows(r.id, r.val) \subseteq d
    /\ Of(d, "event", r.id) = EventRows(r.id, r.val) \/ (of = "PostgreSQL" /\ r.id \in x)
Certificates(d) == \A r \in d : r.table = "measurement" => CertificateRow(r.id) \in d

RowsInv == Known(db, issued) /\ Single(db) /\ Matched(db, mixed, kind) /\ Certificates(db)

(* Two callers: what one has written, the other has not, and would not refer to. *)
Apart(c, e, of) ==
  /\ of = "SQLite" => c.at = 0 \/ e.at = 0
  /\ c.fn.do \in Inserts /\ e.fn.do \in Inserts => Target(c.fn) # Target(e.fn)
  /\ c.del \cap e.del = {}
  /\ \A r \in c.add : Parent(r) \notin Left(e.del, e.add)

CallsInv ==
  /\ \A k \in Clients : Running(k) => Shape(call[k], db, issued, pool[call[k].conn], kind)
  /\ \A h, k \in Clients : h # k /\ Running(h) /\ Running(k) => Apart(call[h], call[k], kind)

RepositoryInv == TypeOK /\ MigrationInv /\ PoolInv /\ RowsInv /\ CallsInv

(* References, where every connection enforces them: those of the rows, and those of
   the measurements that are being stored. *)
RefsInv == AllEnforce =>
  /\ \A r \in db : Parent(r) = None \/ Parent(r) \in Keys(db)
  /\ \A k \in Clients : Running(k) /\ call[k].fn.do = "InsertMeasurement" /\ call[k].at # 0 =>
       <<"monitor", call[k].fn.val>> \in Keys(db)

-----------------------------------------------------------------------------
(* Rows, keys and calls. *)

(* The fields of every kind of row. *)
LEMMA RowFacts ==
  /\ \A m, v : MonitorRow(m, v) = [table |-> "monitor", id |-> m, val |-> v]
  /\ \A m, v : v \in Plain => EventRows(m, v) = {}
  /\ \A m, v : v \notin Plain => EventRows(m, v) = {[table |-> "event", id |-> m, val |-> v]}
  /\ \A i, m : MeasurementRow(i, m) = [table |-> "measurement", id |-> i, val |-> m]
  /\ \A i : CertificateRow(i) = [table |-> "certificate", id |-> i, val |-> None]
BY DEF Row, MonitorRow, EventRows, MeasurementRow, CertificateRow

(* Two rows with the same fields are the same. *)
LEMMA SameRow ==
  ASSUME NEW r \in RowSet, NEW s \in RowSet, r.table = s.table, r.id = s.id, r.val = s.val
  PROVE  r = s
BY DEF RowSet

(* The rows with a key are those of its table that have its id. *)
LEMMA KeyFacts ==
  ASSUME NEW d, NEW table, NEW id
  PROVE  /\ {r \in d : Key(r) = <<table, id>>} = Of(d, table, id)
         /\ <<table, id>> \in Keys(d) <=> Of(d, table, id) # {}
<1>1. \A r : Key(r) = <<table, id>> <=> r.table = table /\ r.id = id
  BY DEF Key
<1>2. {r \in d : Key(r) = <<table, id>>} = Of(d, table, id)
  BY <1>1 DEF Of
<1>3. <<table, id>> \in Keys(d) <=> \E r \in d : Key(r) = <<table, id>>
  BY DEF Keys
<1> QED BY <1>1, <1>2, <1>3 DEF Of

(* What a row refers to. *)
LEMMA ParentFacts ==
  ASSUME NEW r \in RowSet
  PROVE  /\ r.table = "monitor" => Parent(r) = None
         /\ r.table = "event" => Parent(r) = <<"monitor", r.id>>
         /\ r.table = "measurement" => Parent(r) = <<"monitor", r.val>>
         /\ r.table = "certificate" => Parent(r) = <<"measurement", r.id>>
         /\ r.table \in {"monitor", "event", "measurement", "certificate"}
BY DEF RowSet, TableSet, Parent

(* The key that a function is about. *)
LEMMA TargetFacts ==
  ASSUME NEW fn
  PROVE  /\ fn.do \in {"InsertMeasurement", "DeleteMeasurement"} => Target(fn) = <<"measurement", fn.id>>
         /\ fn.do \in {"InsertMonitor", "UpdateMonitor", "DeleteMonitor"} => Target(fn) = <<"monitor", fn.id>>
BY DEF Target

(* A function is one of five, and has executed so many statements. *)
LEMMA CallFacts ==
  ASSUME TypeOK, NEW k \in Clients, Running(k)
  PROVE  /\ call[k] \in CallSet /\ call[k].conn \in Conns
         /\ call[k].fn.do \in {"InsertMonitor", "UpdateMonitor", "InsertMeasurement",
                               "DeleteMonitor", "DeleteMeasurement"}
         /\ call[k].at \in {0, 1, 2, 3} /\ call[k].at <= Length(call[k].fn)
         /\ call[k].del \subseteq db /\ call[k].del \subseteq RowSet
         /\ call[k].add \subseteq RowSet /\ db \subseteq RowSet
<1>1. call[k] \in CallSet
  BY DEF TypeOK, Running
<1>2. call[k].fn \in FnSet /\ call[k].at \in 0 .. 3 /\ call[k].conn \in Conns
      /\ call[k].del \subseteq RowSet /\ call[k].add \subseteq RowSet
  BY <1>1 DEF CallSet
<1>3. call[k].fn.do \in {"InsertMonitor", "UpdateMonitor", "InsertMeasurement",
                         "DeleteMonitor", "DeleteMeasurement"}
  BY <1>2 DEF FnSet, Inserts, Deletes
<1>4. call[k].at \in {0, 1, 2, 3}
  BY <1>2
<1> QED BY <1>1, <1>2, <1>3, <1>4 DEF TypeOK

(* How many statements a function has. *)
LEMMA LengthFacts ==
  ASSUME NEW fn
  PROVE  /\ fn.do = "InsertMonitor" => Length(fn) = IF fn.val \in Plain THEN 1 ELSE 2
         /\ fn.do = "UpdateMonitor" => Length(fn) = IF fn.val \in Plain THEN 2 ELSE 3
         /\ fn.do = "InsertMeasurement" => Length(fn) = 2
         /\ fn.do \in Deletes => Length(fn) = 1
BY DEF Length, Deletes

(* What a delete takes away is what Doomed says: a row, and on a connection that
   enforces what refers to it. *)
LEMMA CascadeFacts ==
  ASSUME NEW d \in SUBSET RowSet, NEW fn, NEW found, found = {r \in d : Key(r) = Target(fn)}
  PROVE  /\ fn.do \in Deletes => Cascade(d, found) = Doomed(fn, d, "enforcing")
         /\ fn.do \in Deletes => found = Doomed(fn, d, "bare")
<1>1. CASE fn.do = "DeleteMonitor"
  <2>1. found = Of(d, "monitor", fn.id)
    <3>1. Target(fn) = <<"monitor", fn.id>>
      BY <1>1, TargetFacts
    <3>2. {r \in d : Key(r) = <<"monitor", fn.id>>} = Of(d, "monitor", fn.id)
      BY KeyFacts
    <3> QED BY <3>1, <3>2
  <2>2. \A r \in d : Parent(r) \in Keys(found) <=>
          found # {} /\ (\/ r.table = "event" /\ r.id = fn.id
                         \/ r.table = "measurement" /\ r.val = fn.id)
    <3> SUFFICES ASSUME NEW r \in d
                 PROVE  Parent(r) \in Keys(found) <=>
                          found # {} /\ (\/ r.table = "event" /\ r.id = fn.id
                                         \/ r.table = "measurement" /\ r.val = fn.id)
      OBVIOUS
    <3>1. \A key : key \in Keys(found) <=> found # {} /\ key = <<"monitor", fn.id>>
      BY <2>1 DEF Keys, Key, Of
    <3>2. fn.id \in Monitors \cup Measurements \/ found = {}
      BY <2>1 DEF Of, RowSet
    <3>3. found # {} => None # <<"monitor", fn.id>>
      BY <3>2, NoneAssumption DEF KeySet, TableSet
    <3> QED BY <3>1, <3>3, ParentFacts
  <2> DEFINE first == {r \in d : Parent(r) \in Keys(found)}
  <2>3. first = IF found = {} THEN {} ELSE Of(d, "event", fn.id) \cup Measured(d, fn.id)
    BY <2>2 DEF Of, Measured
  <2> HIDE DEF first
  <2>4. found = {} => Keys(first) = {}
    BY <2>3 DEF Keys
  <2>5. ASSUME found # {}
        PROVE  {r \in d : Parent(r) \in Keys(first)} = Certified(d, fn.id)
    <3>1. \A key : key \in Keys(first) <=>
            \/ key = <<"event", fn.id>> /\ Of(d, "event", fn.id) # {}
            \/ \E s \in Measured(d, fn.id) : key = <<"measurement", s.id>>
      BY <2>3, <2>5 DEF Keys, Key, Of, Measured
    <3>2. \A s \in Measured(d, fn.id) : s.id \in Monitors \cup Measurements
      BY DEF Measured, RowSet
    <3>3. Of(d, "event", fn.id) # {} => fn.id \in Monitors \cup Measurements
      BY DEF Of, RowSet
    <3>4. None \notin Keys(first)
      BY <3>1, <3>2, <3>3, NoneAssumption DEF KeySet, TableSet
    <3>5. \A r \in d : Parent(r) \in Keys(first) <=>
            r.table = "certificate" /\ \E s \in Measured(d, fn.id) : s.id = r.id
      BY <3>1, <3>4, ParentFacts
    <3> QED BY <3>5 DEF Certified
  <2>6. Cascade(d, found) = found \cup first \cup {r \in d : Parent(r) \in Keys(first)}
    BY DEF Cascade, first
  <2>7. Cascade(d, found) = Doomed(fn, d, "enforcing")
    BY <1>1, <2>1, <2>3, <2>4, <2>5, <2>6 DEF Doomed
  <2> QED BY <1>1, <2>1, <2>7 DEF Doomed
<1>2. CASE fn.do = "DeleteMeasurement"
  <2>1. found = Of(d, "measurement", fn.id)
    <3>1. Target(fn) = <<"measurement", fn.id>>
      BY <1>2, TargetFacts
    <3>2. {r \in d : Key(r) = <<"measurement", fn.id>>} = Of(d, "measurement", fn.id)
      BY KeyFacts
    <3> QED BY <3>1, <3>2
  <2> DEFINE first == {r \in d : Parent(r) \in Keys(found)}
  <2>2. \A key : key \in Keys(found) <=> found # {} /\ key = <<"measurement", fn.id>>
    BY <2>1 DEF Keys, Key, Of
  <2>3. found # {} => None # <<"measurement", fn.id>>
    <3>1. found # {} => fn.id \in Monitors \cup Measurements
      BY <2>1 DEF Of, RowSet
    <3> QED BY <3>1, NoneAssumption DEF KeySet, TableSet
  <2>4. first = IF found = {} THEN {} ELSE Of(d, "certificate", fn.id)
    BY <2>2, <2>3, ParentFacts DEF Of
  <2> HIDE DEF first
  <2>5. \A key \in Keys(first) : key = <<"certificate", fn.id>> /\ fn.id \in Monitors \cup Measurements
    BY <2>4 DEF Keys, Key, Of, RowSet
  <2>6. None \notin Keys(first)
    BY <2>5, NoneAssumption DEF KeySet, TableSet
  <2>7. {r \in d : Parent(r) \in Keys(first)} = {}
    BY <2>5, <2>6, ParentFacts
  <2>8. Cascade(d, found) = found \cup first \cup {r \in d : Parent(r) \in Keys(first)}
    BY DEF Cascade, first
  <2>9. Cascade(d, found) = Doomed(fn, d, "enforcing")
    BY <1>2, <2>1, <2>4, <2>7, <2>8 DEF Doomed
  <2> QED BY <1>2, <2>1, <2>9 DEF Doomed
<1> QED BY <1>1, <1>2 DEF Deletes

-----------------------------------------------------------------------------
(* One statement. *)

(* What the next statement of each function takes away and adds. *)
LEMMA StatementOfMonitor ==
  ASSUME NEW k
  PROVE  /\ call[k].fn.do = "InsertMonitor" =>
              /\ Gone(k) = {}
              /\ call[k].at = 0 => New(k) = {MonitorRow(call[k].fn.id, call[k].fn.val)}
              /\ call[k].at = 1 => New(k) = EventRows(call[k].fn.id, call[k].fn.val)
         /\ call[k].fn.do = "UpdateMonitor" =>
              /\ call[k].at = 0 =>
                   /\ Gone(k) = IF kind = "SQLite" THEN Of(db, "event", call[k].fn.id)
                                ELSE Of(db, "event", call[k].fn.id) \cap call[k].seen
                   /\ New(k) = {}
              /\ call[k].at = 1 => Gone(k) = Of(db, "monitor", call[k].fn.id) /\ New(k) = Replaced(call[k].fn, db)
              /\ call[k].at = 2 => Gone(k) = {} /\ New(k) = EventRows(call[k].fn.id, call[k].fn.val)
<1>1. ASSUME call[k].fn.do = "InsertMonitor"
      PROVE  /\ Gone(k) = {}
             /\ call[k].at = 0 => New(k) = {MonitorRow(call[k].fn.id, call[k].fn.val)}
             /\ call[k].at = 1 => New(k) = EventRows(call[k].fn.id, call[k].fn.val)
  BY <1>1 DEF Gone, New, Deletes
<1>2. ASSUME call[k].fn.do = "UpdateMonitor"
      PROVE  /\ call[k].at = 0 =>
                  /\ Gone(k) = IF kind = "SQLite" THEN Of(db, "event", call[k].fn.id)
                               ELSE Of(db, "event", call[k].fn.id) \cap call[k].seen
                  /\ New(k) = {}
             /\ call[k].at = 1 => Gone(k) = Of(db, "monitor", call[k].fn.id) /\ New(k) = Replaced(call[k].fn, db)
             /\ call[k].at = 2 => Gone(k) = {} /\ New(k) = EventRows(call[k].fn.id, call[k].fn.val)
  <2>1. Target(call[k].fn) = <<"monitor", call[k].fn.id>>
    BY <1>2, TargetFacts
  <2>2. Found(k) = Of(db, "monitor", call[k].fn.id)
    BY <2>1, KeyFacts DEF Found
  <2>3. EventsOf(call[k].fn.id) = Of(db, "event", call[k].fn.id)
    BY KeyFacts DEF EventsOf
  <2> QED BY <1>2, <2>2, <2>3 DEF Gone, New, Deletes, Replaced
<1> QED BY <1>1, <1>2

LEMMA StatementOfOthers ==
  ASSUME NEW k, db \subseteq RowSet, pool[call[k].conn] \in {"bare", "enforcing"}
  PROVE  /\ call[k].fn.do = "InsertMeasurement" =>
              /\ Gone(k) = {}
              /\ call[k].at = 0 => New(k) = {MeasurementRow(call[k].fn.id, call[k].fn.val)}
              /\ call[k].at = 1 => New(k) = {CertificateRow(call[k].fn.id)}
         /\ call[k].fn.do \in Deletes =>
              Gone(k) = Doomed(call[k].fn, db, pool[call[k].conn]) /\ New(k) = {}
<1>1. ASSUME call[k].fn.do = "InsertMeasurement"
      PROVE  /\ Gone(k) = {}
             /\ call[k].at = 0 => New(k) = {MeasurementRow(call[k].fn.id, call[k].fn.val)}
             /\ call[k].at = 1 => New(k) = {CertificateRow(call[k].fn.id)}
  BY <1>1 DEF Gone, New, Deletes
<1>2. ASSUME call[k].fn.do \in Deletes
      PROVE  Gone(k) = Doomed(call[k].fn, db, pool[call[k].conn]) /\ New(k) = {}
  <2>1. Gone(k) = (IF pool[call[k].conn] = "enforcing" THEN Cascade(db, Found(k)) ELSE Found(k)) /\ New(k) = {}
    BY <1>2 DEF Gone, New, Deletes, Enforcing
  <2>2. Found(k) = {r \in db : Key(r) = Target(call[k].fn)}
    BY DEF Found
  <2> DEFINE fn == call[k].fn
             found == Found(k)
             d == db
  <2>3. d \in SUBSET RowSet /\ found = {r \in d : Key(r) = Target(fn)} /\ fn.do \in Deletes
    BY <1>2, <2>2
  <2> HIDE DEF fn, found, d
  <2>4. Cascade(d, found) = Doomed(fn, d, "enforcing") /\ found = Doomed(fn, d, "bare")
    BY <2>3, CascadeFacts
  <2> QED BY <2>1, <2>4 DEF fn, found, d
<1> QED BY <1>1, <1>2

(* What is doomed is there. *)
LEMMA DoomedFacts ==
  ASSUME NEW fn, NEW d, NEW conn
  PROVE  Doomed(fn, d, conn) \subseteq d
BY DEF Doomed, Of, Measured, Certified

(* The call after a statement. *)
LEMMA ExecutedFacts ==
  ASSUME TypeOK, NEW k \in Clients, Running(k), Executed(k)
  PROVE  /\ call'[k].conn = call[k].conn /\ call'[k].fn = call[k].fn
         /\ call'[k].at = call[k].at + 1
         /\ call'[k].del = call[k].del \cup Gone(k) /\ call'[k].add = call[k].add \cup New(k)
         /\ call'[k].seen = call[k].seen /\ call'[k].crossed = call[k].crossed
         /\ \A h \in Clients \ {k} : call'[h] = call[h]
<1>1. call[k] \in CallSet
  BY CallFacts
<1> DEFINE gone == Gone(k)
           new == New(k)
<1>2. call' = [call EXCEPT ![k].at = @ + 1, ![k].del = @ \cup gone, ![k].add = @ \cup new]
  BY DEF Executed
<1> HIDE DEF gone, new
<1>3. call \in [Clients -> {None} \cup CallSet]
  BY DEF TypeOK
<1>4. call'[k] = [call[k] EXCEPT !.at = @ + 1, !.del = @ \cup gone, !.add = @ \cup new]
  BY <1>2, <1>3
<1>5. \A h \in Clients \ {k} : call'[h] = call[h]
  BY <1>2, <1>3
<1>6. /\ call'[k].conn = call[k].conn /\ call'[k].fn = call[k].fn
      /\ call'[k].at = call[k].at + 1
      /\ call'[k].del = call[k].del \cup gone /\ call'[k].add = call[k].add \cup new
      /\ call'[k].seen = call[k].seen /\ call'[k].crossed = call[k].crossed
  BY <1>1, <1>4 DEF CallSet
<1> QED BY <1>5, <1>6 DEF gone, new

(* It has come one statement further: one step per function. *)
LEMMA StatementShape ==
  ASSUME RepositoryInv, NEW k \in Clients, Statement(k)
  PROVE  Shape(call'[k], db, issued, pool[call[k].conn], kind)
<1> DEFINE c == call[k]
           e == call'[k]
           conn == pool[call[k].conn]
<1>1. /\ Running(k) /\ Executed(k) /\ TypeOK
      /\ Shape(c, db, issued, conn, kind) /\ c.at < Length(c.fn)
  BY DEF Statement, MoreToDo, RepositoryInv, CallsInv
<1>2. /\ e.fn = c.fn /\ e.at = c.at + 1 /\ e.del = c.del \cup Gone(k) /\ e.add = c.add \cup New(k)
      /\ e.seen = c.seen /\ e.crossed = c.crossed
  BY <1>1, ExecutedFacts
<1>3. /\ c.at \in {0, 1, 2, 3} /\ c.del \subseteq db /\ db \subseteq RowSet
      /\ conn \in {"bare", "enforcing"} /\ kind \in {"SQLite", "PostgreSQL"}
  BY <1>1, CallFacts, KindAssumption DEF RepositoryInv, TypeOK, PoolInv
<1>4. CASE Inserting(c, issued)
  <2>1. /\ Gone(k) = {}
        /\ c.at = 0 => New(k) = {MonitorRow(c.fn.id, c.fn.val)}
        /\ c.at = 1 => New(k) = EventRows(c.fn.id, c.fn.val)
    BY <1>4, StatementOfMonitor DEF Inserting
  <2>2. c.at \in {0, 1}
    BY <1>1, <1>3, <1>4, LengthFacts DEF Inserting
  <2> HIDE DEF c, e, conn
  <2>3. Inserting(e, issued)
    BY <1>2, <1>4, <2>1, <2>2 DEF Inserting
  <2> QED BY <2>3 DEF Shape, e, conn
<1>5. CASE Updating(c, db, issued, conn, kind)
  <2>1. /\ c.at = 0 => /\ Gone(k) = IF kind = "SQLite" THEN Of(db, "event", c.fn.id)
                                    ELSE Of(db, "event", c.fn.id) \cap c.seen
                       /\ New(k) = {}
        /\ c.at = 1 => Gone(k) = Of(db, "monitor", c.fn.id) /\ New(k) = Replaced(c.fn, db)
        /\ c.at = 2 => Gone(k) = {} /\ New(k) = EventRows(c.fn.id, c.fn.val)
    BY <1>5, StatementOfMonitor DEF Updating
  <2>2. c.at \in {0, 1, 2} /\ (c.at = 2 => c.fn.val \notin Plain)
    BY <1>1, <1>3, <1>5, LengthFacts DEF Updating
  <2>3. c.at = 2 /\ conn = "enforcing" => Of(db, "monitor", c.fn.id) # {}
    <3> SUFFICES ASSUME c.at = 2, conn = "enforcing", Of(db, "monitor", c.fn.id) = {}
                 PROVE  FALSE
      OBVIOUS
    <3>1. c.fn.id \in Monitors /\ c.fn.val \in Versions /\ c.add = {}
      BY <1>5, RowFacts DEF Updating, Replaced
    <3> DEFINE r == [table |-> "event", id |-> c.fn.id, val |-> c.fn.val]
    <3>2. r \in New(k) /\ r \in RowSet /\ r.table = "event" /\ r.id = c.fn.id
      BY <2>1, <2>2, <3>1, RowFacts DEF RowSet, TableSet
    <3> HIDE DEF r
    <3>3. Parent(r) = <<"monitor", c.fn.id>>
      BY <3>2, ParentFacts
    <3>4. Parent(r) # None
      BY <3>1, <3>3, NoneAssumption DEF KeySet, TableSet
    <3>5. <<"monitor", c.fn.id>> \notin Keys((db \ c.del) \cup c.add)
      BY <3>1, KeyFacts DEF Of
    <3>6. Refuses(k)
      BY <3>2, <3>3, <3>4, <3>5 DEF Refuses, Enforcing
    <3> QED BY <3>6 DEF Statement
  <2> HIDE DEF c, e, conn
  <2>4. CASE c.at = 0
    <3>1. Updating(e, db, issued, conn, kind)
      BY <1>2, <1>3, <1>5, <2>1, <2>4 DEF Updating, Of
    <3> QED BY <3>1 DEF Shape, e, conn
  <2>5. CASE c.at = 1
    <3>1. Updating(e, db, issued, conn, kind)
      BY <1>2, <1>3, <1>5, <2>1, <2>5 DEF Updating, Of
    <3> QED BY <3>1 DEF Shape, e, conn
  <2>6. CASE c.at = 2
    <3>1. Updating(e, db, issued, conn, kind)
      BY <1>2, <1>3, <1>5, <2>1, <2>3, <2>6 DEF Updating
    <3> QED BY <3>1 DEF Shape, e, conn
  <2> QED BY <2>2, <2>4, <2>5, <2>6
<1>6. CASE Measuring(c, issued)
  <2>1. /\ Gone(k) = {}
        /\ c.at = 0 => New(k) = {MeasurementRow(c.fn.id, c.fn.val)}
        /\ c.at = 1 => New(k) = {CertificateRow(c.fn.id)}
    BY <1>3, <1>6, StatementOfOthers DEF Measuring
  <2>2. c.at \in {0, 1}
    BY <1>1, <1>3, <1>6, LengthFacts DEF Measuring
  <2> HIDE DEF c, e, conn
  <2>3. Measuring(e, issued)
    BY <1>2, <1>6, <2>1, <2>2 DEF Measuring
  <2> QED BY <2>3 DEF Shape, e, conn
<1>7. CASE Deleting(c, db, issued, conn)
  <2>1. c.fn.do \in Deletes
    BY <1>7 DEF Deleting, Deletes
  <2>2. c.at = 0 /\ Gone(k) = Doomed(c.fn, db, conn) /\ New(k) = {}
    BY <1>1, <1>3, <2>1, StatementOfOthers, LengthFacts
  <2> HIDE DEF c, e, conn
  <2>3. Deleting(e, db, issued, conn)
    BY <1>2, <1>7, <2>2 DEF Deleting
  <2> QED BY <2>3 DEF Shape, e, conn
<1> QED BY <1>1, <1>4, <1>5, <1>6, <1>7 DEF Shape

(* Its rows are rows, and what it takes away is there. *)
LEMMA StatementType ==
  ASSUME RepositoryInv, NEW k \in Clients, Statement(k)
  PROVE  TypeOK' /\ Gone(k) \subseteq db
<1>1. Running(k) /\ Executed(k) /\ TypeOK /\ call[k].at < Length(call[k].fn)
  BY DEF Statement, MoreToDo, RepositoryInv
<1>2. /\ call[k] \in CallSet /\ call[k].at \in {0, 1, 2, 3}
      /\ call[k].del \subseteq db /\ db \subseteq RowSet /\ pool[call[k].conn] \in {"bare", "enforcing"}
  BY <1>1, CallFacts DEF RepositoryInv, TypeOK, PoolInv
<1>3. Gone(k) \subseteq db
  <2>1. Found(k) \subseteq db /\ Cascade(db, Found(k)) \subseteq db
    BY DEF Found, Cascade
  <2>2. EventsOf(call[k].fn.id) \subseteq db
    BY DEF EventsOf
  <2> QED BY <2>1, <2>2 DEF Gone
<1>4. call'[k].add \subseteq RowSet
  <2>1. Shape(call'[k], db, issued, pool[call[k].conn], kind) /\ call'[k].at \in {1, 2, 3}
    <3>1. call'[k].at = call[k].at + 1 /\ Length(call[k].fn) \in {1, 2, 3}
      BY <1>1, ExecutedFacts DEF Length
    <3> QED BY <1>1, <1>2, <3>1, StatementShape
  <2> DEFINE e == call'[k]
             conn == pool[call[k].conn]
  <2> HIDE DEF e, conn
  <2>2. Shape(e, db, issued, conn, kind) /\ e.at \in {1, 2, 3}
    BY <2>1 DEF e, conn
  <2>3. \A m \in Monitors, v \in Versions : {MonitorRow(m, v)} \cup EventRows(m, v) \subseteq RowSet
    BY RowFacts DEF RowSet, TableSet
  <2>4. \A i \in Measurements, m \in Monitors : {MeasurementRow(i, m), CertificateRow(i)} \subseteq RowSet
    BY RowFacts DEF RowSet, TableSet
  <2>5. CASE Inserting(e, issued)
    <3>1. e.at \in {1, 2}
      <4>1. e.fn.do = "InsertMonitor" /\ e.at <= Length(e.fn)
        BY <1>1, <1>2, <2>5, ExecutedFacts DEF Inserting, e, Length
      <4> QED BY <2>2, <4>1, LengthFacts
    <3> QED BY <2>3, <2>5, <3>1 DEF Inserting, e
  <2>6. CASE Updating(e, db, issued, conn, kind)
    BY <2>2, <2>3, <2>6 DEF Updating, Replaced, e
  <2>7. CASE Measuring(e, issued)
    <3>1. e.at \in {1, 2}
      <4>1. e.fn.do = "InsertMeasurement" /\ e.at <= Length(e.fn)
        BY <1>1, <1>2, <2>7, ExecutedFacts DEF Measuring, e, Length
      <4> QED BY <2>2, <4>1, LengthFacts
    <3> QED BY <2>4, <2>7, <3>1 DEF Measuring, e
  <2>8. CASE Deleting(e, db, issued, conn)
    BY <2>8 DEF Deleting, e
  <2> QED BY <2>2, <2>5, <2>6, <2>7, <2>8 DEF Shape
<1>5. call'[k] \in CallSet /\ call'[k].at <= Length(call'[k].fn) /\ call'[k].del \subseteq db
  <2> DEFINE gone == Gone(k)
             new == New(k)
  <2>1. call' = [call EXCEPT ![k].at = @ + 1, ![k].del = @ \cup gone, ![k].add = @ \cup new]
    BY <1>1 DEF Executed
  <2>2. Length(call[k].fn) \in {1, 2, 3} /\ gone \subseteq RowSet
    BY <1>2, <1>3 DEF Length
  <2> HIDE DEF gone, new
  <2>3. call'[k] = [call[k] EXCEPT !.at = @ + 1, !.del = @ \cup gone, !.add = @ \cup new]
    BY <1>1, <2>1 DEF TypeOK
  <2>4. call[k].at + 1 \in 0 .. 3
    BY <1>1, <1>2, <2>2
  <2>5. call[k].del \cup gone \subseteq RowSet
    BY <1>2, <2>2
  <2>6. call'[k] \in CallSet
    BY <1>2, <1>4, <2>3, <2>4, <2>5 DEF CallSet
  <2> QED BY <1>1, <1>2, <1>3, <2>2, <2>6, ExecutedFacts
<1>6. UNCHANGED <<kind, stage, made, pool, rowVars>> /\ \A h \in Clients \ {k} : call'[h] = call[h]
  BY <1>1, ExecutedFacts DEF Executed
<1>7. call' \in [Clients -> {None} \cup CallSet]
  <2>1. DOMAIN call' = Clients /\ call' = [h \in Clients |-> call'[h]]
    BY <1>1 DEF Executed, TypeOK
  <2> QED BY <1>1, <1>5, <1>6, <2>1 DEF TypeOK
<1>8. \A h \in Clients : Running(h)' => call'[h].at <= Length(call'[h].fn) /\ call'[h].del \subseteq db
  BY <1>1, <1>5, <1>6 DEF TypeOK, Running
<1> QED BY <1>1, <1>3, <1>6, <1>7, <1>8 DEF TypeOK, rowVars

(* What is gone after two statements was gone after one of them. *)
LEMMA LeftFacts ==
  ASSUME NEW del, NEW add, NEW gone, NEW new
  PROVE  Left(del \cup gone, add \cup new) \subseteq Left(del, add) \cup Left(gone, new)
BY DEF Left, Keys

(* It has waited for what the others have written. *)
LEMMA StatementApart ==
  ASSUME RepositoryInv, NEW k \in Clients, NEW h \in Clients, h # k, Running(h), Statement(k)
  PROVE  Apart(call[h], call'[k], kind) /\ Apart(call'[k], call[h], kind)
<1> DEFINE c == call[k]
           e == call'[k]
           o == call[h]
           gone == Gone(k)
           new == New(k)
<1>1. /\ Running(k) /\ Executed(k) /\ TypeOK /\ ~ Waits(k)
      /\ Apart(o, c, kind) /\ Apart(c, o, kind)
  BY DEF Statement, MoreToDo, RepositoryInv, CallsInv
<1>2. e.fn = c.fn /\ e.del = c.del \cup gone /\ e.add = c.add \cup new
  BY <1>1, ExecutedFacts
<1>3. /\ ~ (kind = "SQLite" /\ o.at > 0) /\ gone \cap o.del = {}
      /\ \A r \in new : Parent(r) \notin Left(o.del, o.add)
      /\ \A r \in o.add : Parent(r) \notin Left(gone, new)
  BY <1>1 DEF Waits
<1>4. kind = "SQLite" => o.at = 0
  <2>1. o.at \in {0, 1, 2, 3}
    BY <1>1, CallFacts
  <2> QED BY <1>3, <2>1
<1> HIDE DEF c, e, o, gone, new
<1>5. Apart(e, o, kind)
  BY <1>1, <1>2, <1>3, <1>4 DEF Apart
<1>6. Apart(o, e, kind)
  <2>1. Left(e.del, e.add) \subseteq Left(c.del, c.add) \cup Left(gone, new)
    BY <1>2, LeftFacts
  <2>2. \A r \in o.add : Parent(r) \notin Left(e.del, e.add)
    BY <1>1, <1>3, <2>1 DEF Apart
  <2>3. o.del \cap e.del = {}
    BY <1>1, <1>2, <1>3 DEF Apart
  <2>4. o.fn.do \in Inserts /\ e.fn.do \in Inserts => Target(o.fn) # Target(e.fn)
    BY <1>1, <1>2 DEF Apart
  <2> QED BY <1>4, <2>2, <2>3, <2>4 DEF Apart
<1> QED BY <1>5, <1>6 DEF c, e, o

-----------------------------------------------------------------------------
(* What a call has written. *)

(* It adds rows of its function; an update adds a row only where there is one. *)
LEMMA AddFacts ==
  ASSUME NEW c, NEW d, NEW i, NEW conn, NEW of, Shape(c, d, i, conn, of),
         c.at \in {0, 1, 2, 3}, c.at <= Length(c.fn), NEW r \in c.add
  PROVE  \/ /\ r.table = "monitor" /\ r.id = c.fn.id /\ r.val = c.fn.val
            /\ \/ c.fn.do = "InsertMonitor"
               \/ c.fn.do = "UpdateMonitor" /\ Of(d, "monitor", c.fn.id) # {} /\ c.at \in {2, 3}
         \/ /\ r.table = "event" /\ r.id = c.fn.id /\ r.val = c.fn.val /\ c.fn.val \notin Plain
            /\ c.fn.do \in {"InsertMonitor", "UpdateMonitor"}
         \/ /\ r.table = "measurement" /\ r.id = c.fn.id /\ r.val = c.fn.val
            /\ c.fn.do = "InsertMeasurement"
         \/ r.table = "certificate" /\ r.id = c.fn.id /\ c.fn.do = "InsertMeasurement"
<1> DEFINE Event(x) == /\ x.table = "event" /\ x.id = c.fn.id /\ x.val = c.fn.val
                       /\ c.fn.val \notin Plain
<1>1. \A x \in EventRows(c.fn.id, c.fn.val) : Event(x)
  BY RowFacts
<1>2. MonitorRow(c.fn.id, c.fn.val).table = "monitor" /\ MonitorRow(c.fn.id, c.fn.val).id = c.fn.id
      /\ MonitorRow(c.fn.id, c.fn.val).val = c.fn.val
  BY RowFacts
<1>3. CASE Inserting(c, i)
  <2>1. c.at \in {0, 1, 2}
    BY <1>3, LengthFacts DEF Inserting
  <2>2. c.add \subseteq {MonitorRow(c.fn.id, c.fn.val)} \cup EventRows(c.fn.id, c.fn.val)
    BY <1>3, <2>1 DEF Inserting
  <2> QED BY <1>1, <1>2, <1>3, <2>2 DEF Inserting
<1>4. CASE Updating(c, d, i, conn, of)
  <2>1. r \in Replaced(c.fn, d) \/ r \in EventRows(c.fn.id, c.fn.val)
    BY <1>4 DEF Updating
  <2>2. c.at \in {2, 3}
    BY <1>4 DEF Updating
  <2> QED BY <1>1, <1>2, <1>4, <2>1, <2>2 DEF Updating, Replaced
<1>5. CASE Measuring(c, i)
  <2>1. c.at \in {0, 1, 2}
    BY <1>5, LengthFacts DEF Measuring
  <2>2. c.add \subseteq {MeasurementRow(c.fn.id, c.fn.val), CertificateRow(c.fn.id)}
    BY <1>5, <2>1 DEF Measuring
  <2> QED BY <1>5, <2>2, RowFacts DEF Measuring
<1>6. CASE Deleting(c, d, i, conn)
  BY <1>6 DEF Deleting
<1> QED BY <1>3, <1>4, <1>5, <1>6 DEF Shape

(* It takes away rows of what it updates or deletes, and what refers to that. *)
LEMMA DelFacts ==
  ASSUME NEW c, NEW d, NEW i, NEW conn, NEW of, Shape(c, d, i, conn, of),
         c.at \in {0, 1, 2, 3}, c.at <= Length(c.fn), NEW r \in c.del
  PROVE  \/ c.fn.do = "UpdateMonitor" /\ r.table \in {"monitor", "event"} /\ r.id = c.fn.id
         \/ /\ c.fn.do = "DeleteMonitor" /\ c.at = 1
            /\ \/ r.table \in {"monitor", "event"} /\ r.id = c.fn.id
               \/ r.table = "measurement" /\ r.val = c.fn.id
               \/ r.table = "certificate" /\ \E s \in Measured(d, c.fn.id) : s.id = r.id
         \/ /\ c.fn.do = "DeleteMeasurement" /\ c.at = 1
            /\ r.table \in {"measurement", "certificate"} /\ r.id = c.fn.id
<1>1. CASE Updating(c, d, i, conn, of)
  BY <1>1 DEF Updating
<1>2. CASE Deleting(c, d, i, conn)
  <2>1. c.at = 1 /\ r \in Doomed(c.fn, d, conn)
    <3>1. c.at <= 1
      BY <1>2, LengthFacts DEF Deleting, Deletes
    <3> QED BY <1>2, <3>1 DEF Deleting
  <2> QED BY <1>2, <2>1 DEF Deleting, Doomed, Of, Measured, Certified
<1> QED BY <1>1, <1>2 DEF Shape, Inserting, Measuring

(* A function that has finished has executed all that it has. *)
LEMMA DoneFacts ==
  ASSUME NEW c, NEW d, NEW i, NEW conn, NEW of, Shape(c, d, i, conn, of), c.at = Length(c.fn)
  PROVE  /\ c.fn.do = "InsertMonitor" =>
              /\ Inserting(c, i) /\ c.add = {MonitorRow(c.fn.id, c.fn.val)} \cup EventRows(c.fn.id, c.fn.val)
              /\ c.del = {} /\ c.at \in {1, 2}
         /\ c.fn.do = "UpdateMonitor" =>
              /\ Updating(c, d, i, conn, of) /\ c.add = Replaced(c.fn, d) \cup EventRows(c.fn.id, c.fn.val)
              /\ Of(d, "monitor", c.fn.id) \subseteq c.del /\ c.at \in {2, 3}
              /\ of = "SQLite" \/ ~ c.crossed => Of(d, "event", c.fn.id) \subseteq c.del
              /\ c.at = 2 => c.fn.val \in Plain
         /\ c.fn.do = "InsertMeasurement" =>
              /\ Measuring(c, i) /\ c.add = {MeasurementRow(c.fn.id, c.fn.val), CertificateRow(c.fn.id)}
              /\ c.del = {} /\ c.at = 2
         /\ c.fn.do \in Deletes =>
              Deleting(c, d, i, conn) /\ c.del = Doomed(c.fn, d, conn) /\ c.add = {} /\ c.at = 1
<1>1. CASE Inserting(c, i)
  <2>1. c.fn.do = "InsertMonitor" /\ c.at = IF c.fn.val \in Plain THEN 1 ELSE 2
    BY <1>1, LengthFacts DEF Inserting
  <2>2. c.add = {MonitorRow(c.fn.id, c.fn.val)} \cup EventRows(c.fn.id, c.fn.val) /\ c.del = {}
    BY <1>1, <2>1, RowFacts DEF Inserting
  <2> QED BY <1>1, <2>1, <2>2 DEF Deletes
<1>2. CASE Updating(c, d, i, conn, of)
  <2>1. c.fn.do = "UpdateMonitor" /\ c.at = IF c.fn.val \in Plain THEN 2 ELSE 3
    BY <1>2, LengthFacts DEF Updating
  <2>2. c.add = Replaced(c.fn, d) \cup EventRows(c.fn.id, c.fn.val)
    BY <1>2, <2>1, RowFacts DEF Updating
  <2>3. Of(d, "monitor", c.fn.id) \subseteq c.del /\ c.at # 0
        /\ (of = "SQLite" \/ ~ c.crossed => Of(d, "event", c.fn.id) \subseteq c.del)
    BY <1>2, <2>1 DEF Updating
  <2> QED BY <1>2, <2>1, <2>2, <2>3 DEF Deletes
<1>3. CASE Measuring(c, i)
  <2>1. c.fn.do = "InsertMeasurement" /\ c.at = 2
    BY <1>3, LengthFacts DEF Measuring
  <2> QED BY <1>3, <2>1 DEF Measuring, Deletes
<1>4. CASE Deleting(c, d, i, conn)
  <2>1. c.fn.do \in Deletes /\ c.fn.do \in {"DeleteMonitor", "DeleteMeasurement"}
    BY <1>4 DEF Deleting, Deletes
  <2>2. c.at = 1
    BY <2>1, LengthFacts
  <2> QED BY <1>4, <2>1, <2>2 DEF Deleting
<1> QED BY <1>1, <1>2, <1>3, <1>4 DEF Shape

-----------------------------------------------------------------------------
(* A commit, as another caller sees it: the call c commits, the call e goes on. *)

Committing(c, e, d, i, p, q, of) ==
  /\ Shape(c, d, i, p, of) /\ c.at = Length(c.fn) /\ c.at \in {0, 1, 2, 3} /\ c.del \subseteq d
  /\ Shape(e, d, i, q, of) /\ e.at <= Length(e.fn) /\ e.at \in {0, 1, 2, 3} /\ e.del \subseteq d
  /\ Apart(c, e, of) /\ Apart(e, c, of)
  /\ d \subseteq RowSet /\ c.add \subseteq RowSet /\ Known(d, i)
  /\ of \in {"SQLite", "PostgreSQL"} /\ (of = "PostgreSQL" => q = "enforcing")

After(c, d) == (d \ c.del) \cup c.add
Issued(c, i) == IF c.fn.do \in Inserts THEN i \cup {Target(c.fn)} ELSE i

(* The row of a monitor that e has taken away, or not found, is not changed. *)
LEMMA MonitorStays ==
  ASSUME NEW c, NEW e, NEW d, NEW i, NEW p, NEW q, NEW of, Committing(c, e, d, i, p, q, of),
         NEW m, <<"monitor", m>> \in i, Of(d, "monitor", m) \subseteq e.del
  PROVE  Of(After(c, d), "monitor", m) = Of(d, "monitor", m)
<1>1. c.del \cap e.del = {}
  BY DEF Committing, Apart
<1>2. ASSUME NEW r \in c.add, r.table = "monitor", r.id = m PROVE FALSE
  <2>1. c.fn.id = m /\ (\/ c.fn.do = "InsertMonitor"
                        \/ c.fn.do = "UpdateMonitor" /\ Of(d, "monitor", c.fn.id) # {})
    BY <1>2, AddFacts DEF Committing
  <2>2. CASE c.fn.do = "InsertMonitor"
    <3>1. <<"monitor", c.fn.id>> \notin i
      BY <2>2, DoneFacts DEF Committing, Inserting
    <3> QED BY <2>1, <3>1
  <2>3. CASE c.fn.do = "UpdateMonitor" /\ Of(d, "monitor", c.fn.id) # {}
    <3>1. Of(d, "monitor", m) \subseteq c.del
      BY <2>1, <2>3, DoneFacts DEF Committing
    <3> QED BY <1>1, <2>1, <2>3, <3>1
  <2> QED BY <2>1, <2>2, <2>3
<1>3. \A r \in After(c, d) : r.table = "monitor" /\ r.id = m => r \in d
  BY <1>2 DEF After
<1>4. Of(After(c, d), "monitor", m) \subseteq Of(d, "monitor", m)
  BY <1>3 DEF Of
<1>5. \A r \in Of(d, "monitor", m) : r \in d /\ r \notin c.del
  BY <1>1 DEF Of
<1>6. Of(d, "monitor", m) \subseteq Of(After(c, d), "monitor", m)
  BY <1>5 DEF After, Of
<1> QED BY <1>4, <1>6

(* No events are added to a monitor that the call does not update. *)
LEMMA EventsStay ==
  ASSUME NEW c, NEW e, NEW d, NEW i, NEW p, NEW q, NEW of, Committing(c, e, d, i, p, q, of),
         NEW m, <<"monitor", m>> \in i, ~ (c.fn.do = "UpdateMonitor" /\ c.fn.id = m)
  PROVE  Of(After(c, d), "event", m) \subseteq Of(d, "event", m)
<1>1. ASSUME NEW r \in c.add, r.table = "event", r.id = m PROVE FALSE
  <2>1. c.fn.id = m /\ c.fn.do = "InsertMonitor"
    BY <1>1, AddFacts DEF Committing
  <2>2. <<"monitor", c.fn.id>> \notin i
    BY <2>1, DoneFacts DEF Committing, Inserting
  <2> QED BY <2>1, <2>2
<1> QED BY <1>1 DEF After, Of

(* Measurements and certificates are added to what is new. *)
LEMMA MeasurementStays ==
  ASSUME NEW c, NEW e, NEW d, NEW i, NEW p, NEW q, NEW of, Committing(c, e, d, i, p, q, of),
         NEW table \in {"measurement", "certificate"}, NEW id, <<"measurement", id>> \in i
  PROVE  Of(After(c, d), table, id) \subseteq Of(d, table, id)
<1>1. ASSUME NEW r \in c.add, r.table = table, r.id = id PROVE FALSE
  <2>1. c.fn.id = id /\ c.fn.do = "InsertMeasurement"
    BY <1>1, AddFacts DEF Committing
  <2>2. <<"measurement", c.fn.id>> \notin i
    BY <2>1, DoneFacts DEF Committing, Measuring
  <2> QED BY <2>1, <2>2
<1> QED BY <1>1 DEF After, Of

(* What a delete has taken away is still what it is to take away. *)
LEMMA DoomedStays ==
  ASSUME NEW c, NEW e, NEW d, NEW i, NEW p, NEW q, NEW of, Committing(c, e, d, i, p, q, of),
         of = "PostgreSQL", Deleting(e, d, i, q), e.at = 1
  PROVE  Doomed(e.fn, After(c, d), q) = Doomed(e.fn, d, q)
<1> DEFINE n == After(c, d)
           m == e.fn.id
<1>1. /\ e.del = Doomed(e.fn, d, q) /\ e.add = {} /\ q = "enforcing" /\ c.del \cap e.del = {}
      /\ \A r \in d : r \in e.del => r \in n
  BY DEF Deleting, Committing, Apart, After
<1>2. CASE e.fn.do = "DeleteMonitor"
  <2>1. Of(n, "monitor", m) = Of(d, "monitor", m) /\ <<"monitor", m>> \in i
    <3>1. <<"monitor", m>> \in i
      BY <1>2 DEF Deleting
    <3>2. Of(d, "monitor", m) \subseteq e.del
      BY <1>1, <1>2 DEF Doomed
    <3> QED BY <3>1, <3>2, MonitorStays
  <2>2. CASE Of(d, "monitor", m) = {}
    BY <1>2, <2>1, <2>2 DEF Doomed
  <2>3. CASE Of(d, "monitor", m) # {}
    <3>1. /\ Of(d, "monitor", m) \subseteq e.del /\ Of(d, "event", m) \subseteq e.del
          /\ Measured(d, m) \subseteq e.del /\ Certified(d, m) \subseteq e.del
      BY <1>1, <1>2, <2>3 DEF Doomed
    <3>2. Of(n, "event", m) = Of(d, "event", m)
      <4>1. ~ (c.fn.do = "UpdateMonitor" /\ c.fn.id = m)
        <5> SUFFICES ASSUME c.fn.do = "UpdateMonitor", c.fn.id = m PROVE FALSE
          OBVIOUS
        <5>1. Of(d, "monitor", m) \subseteq c.del
          BY DoneFacts DEF Committing
        <5> QED BY <1>1, <2>3, <3>1, <5>1
      <4>2. Of(n, "event", m) \subseteq Of(d, "event", m)
        BY <2>1, <4>1, EventsStay
      <4>3. Of(d, "event", m) \subseteq Of(n, "event", m)
        BY <1>1, <3>1 DEF Of
      <4> QED BY <4>2, <4>3
    <3>3. Measured(n, m) = Measured(d, m)
      <4>1. ASSUME NEW r \in c.add, r.table = "measurement", r.val = m PROVE FALSE
        <5>1. r \in RowSet /\ Parent(r) = <<"monitor", m>>
          BY <4>1, ParentFacts DEF Committing
        <5>2. Parent(r) \notin Left(e.del, e.add)
          BY DEF Committing, Apart
        <5>3. <<"monitor", m>> \in Keys(e.del) /\ Keys(e.add) = {}
          <6>1. Of(e.del, "monitor", m) # {}
            BY <2>3, <3>1 DEF Of
          <6> QED BY <1>1, <6>1, KeyFacts DEF Keys
        <5> QED BY <5>1, <5>2, <5>3 DEF Left
      <4>2. Measured(n, m) \subseteq Measured(d, m)
        BY <4>1 DEF After, Measured
      <4>3. Measured(d, m) \subseteq Measured(n, m)
        BY <1>1, <3>1 DEF Measured
      <4> QED BY <4>2, <4>3
    <3>4. Certified(n, m) = Certified(d, m)
      <4>1. ASSUME NEW r \in Certified(n, m) PROVE r \in d
        <5>1. PICK s \in Measured(d, m) : s.id = r.id
          BY <3>3, <4>1 DEF Certified
        <5>2. <<"measurement", r.id>> \in i
          BY <5>1 DEF Committing, Known, Home, Measured
        <5>3. r \in Of(n, "certificate", r.id)
          BY <4>1 DEF Certified, Of
        <5>4. Of(n, "certificate", r.id) \subseteq Of(d, "certificate", r.id)
          BY <5>2, MeasurementStays
        <5> QED BY <5>3, <5>4 DEF Of
      <4>2. Certified(n, m) \subseteq Certified(d, m)
        BY <3>3, <4>1 DEF Certified
      <4>3. Certified(d, m) \subseteq Certified(n, m)
        BY <1>1, <3>1, <3>3 DEF Certified
      <4> QED BY <4>2, <4>3
    <3> QED BY <1>2, <2>1, <3>2, <3>3, <3>4 DEF Doomed
  <2> QED BY <2>2, <2>3
<1>3. CASE e.fn.do = "DeleteMeasurement"
  <2>1. <<"measurement", m>> \in i
    BY <1>3 DEF Deleting
  <2>2. Of(d, "measurement", m) \subseteq e.del
    BY <1>1, <1>3 DEF Doomed
  <2>3. Of(n, "measurement", m) = Of(d, "measurement", m)
    <3>1. Of(n, "measurement", m) \subseteq Of(d, "measurement", m)
      BY <2>1, MeasurementStays
    <3>2. Of(d, "measurement", m) \subseteq Of(n, "measurement", m)
      BY <1>1, <2>2 DEF Of
    <3> QED BY <3>1, <3>2
  <2>4. Of(d, "measurement", m) # {} => Of(n, "certificate", m) = Of(d, "certificate", m)
    <3>1. Of(n, "certificate", m) \subseteq Of(d, "certificate", m)
      BY <2>1, MeasurementStays
    <3>2. Of(d, "measurement", m) # {} => Of(d, "certificate", m) \subseteq e.del
      BY <1>1, <1>3 DEF Doomed
    <3>3. Of(d, "measurement", m) # {} => Of(d, "certificate", m) \subseteq Of(n, "certificate", m)
      BY <1>1, <3>2 DEF Of
    <3> QED BY <3>1, <3>3
  <2> QED BY <1>3, <2>3, <2>4 DEF Doomed
<1> QED BY <1>2, <1>3 DEF Deleting

(* A call is as far as it was when another has committed: one step per function. *)
LEMMA CommitShape ==
  ASSUME NEW c, NEW e, NEW d, NEW i, NEW p, NEW q, NEW of, Committing(c, e, d, i, p, q, of),
         NEW x, x.fn = e.fn, x.at = e.at, x.del = e.del, x.add = e.add, x.seen = e.seen,
         e.fn.do = "UpdateMonitor" /\ ~ x.crossed =>
           ~ e.crossed /\ ~ (c.fn.do = "UpdateMonitor" /\ c.fn.id = e.fn.id)
  PROVE  Shape(x, After(c, d), Issued(c, i), q, of) /\ x.del \subseteq After(c, d)
<1> DEFINE n == After(c, d)
           j == Issued(c, i)
<1>1. /\ i \subseteq j /\ \A key : key \in j => key \in i \/ (c.fn.do \in Inserts /\ key = Target(c.fn))
      /\ c.del \cap e.del = {} /\ e.del \subseteq d
  BY DEF Issued, Committing, Apart
<1>2. x.del \subseteq n
  BY <1>1 DEF After
<1>3. c.at # 0
  BY DEF Committing, Length
<1>4. of = "SQLite" => e.at = 0
  BY <1>3 DEF Committing, Apart
<1> HIDE DEF n, j
<1>5. CASE Inserting(e, i)
  <2>1. e.fn.do \in Inserts /\ Target(e.fn) = <<"monitor", e.fn.id>>
    BY <1>5, TargetFacts DEF Inserting, Inserts
  <2>2. <<"monitor", e.fn.id>> \notin j
    BY <1>1, <1>5, <2>1 DEF Inserting, Committing, Apart
  <2>3. Inserting(x, j)
    BY <1>5, <2>2 DEF Inserting
  <2> QED BY <1>2, <2>3 DEF Shape, n, j
<1>6. CASE Updating(e, d, i, q, of)
  <2>1. /\ e.fn.do = "UpdateMonitor" /\ e.fn.id \in Monitors /\ e.fn.val \in Versions
        /\ <<"monitor", e.fn.id>> \in i /\ <<"monitor", e.fn.id>> \in j
        /\ \A r \in e.del : r.table \in {"monitor", "event"} /\ r.id = e.fn.id
    BY <1>1, <1>6 DEF Updating
  <2>2. of = "PostgreSQL" /\ ~ x.crossed => Of(n, "event", e.fn.id) \subseteq Of(d, "event", e.fn.id) /\ ~ e.crossed
    BY <2>1, EventsStay DEF n
  <2>3. e.at \in {2, 3} => Of(n, "monitor", e.fn.id) = Of(d, "monitor", e.fn.id)
    <3>1. e.at \in {2, 3} => Of(d, "monitor", e.fn.id) \subseteq e.del
      BY <1>6 DEF Updating
    <3> QED BY <2>1, <3>1, MonitorStays DEF n
  <2>4. e.at = 0 => /\ x.del = {} /\ x.add = {}
                    /\ of = "PostgreSQL" /\ ~ x.crossed => Of(n, "event", x.fn.id) \subseteq x.seen
    <3>1. ASSUME e.at = 0
          PROVE  /\ e.del = {} /\ e.add = {}
                 /\ of = "PostgreSQL" /\ ~ e.crossed => Of(d, "event", e.fn.id) \subseteq e.seen
      BY <1>6, <3>1 DEF Updating
    <3> QED BY <2>2, <3>1
  <2>5. e.at # 0 /\ (of = "SQLite" \/ ~ x.crossed) => Of(n, "event", x.fn.id) \subseteq x.del
    <3>1. e.at # 0 /\ ~ e.crossed => Of(d, "event", e.fn.id) \subseteq e.del
      BY <1>6 DEF Updating
    <3>2. of \in {"SQLite", "PostgreSQL"}
      BY DEF Committing
    <3> QED BY <1>4, <2>2, <3>1, <3>2
  <2>6. e.at = 1 => x.add = {}
    BY <1>6 DEF Updating
  <2>7. e.at \in {2, 3} => Of(n, "monitor", x.fn.id) \subseteq x.del
    BY <1>6, <2>3 DEF Updating
  <2>8. e.at \in {2, 3} => Replaced(x.fn, n) = Replaced(e.fn, d)
    BY <2>3 DEF Replaced
  <2>9. e.at = 2 => x.add = Replaced(x.fn, n)
    BY <1>6, <2>8 DEF Updating
  <2>10. e.at = 3 => /\ x.add = Replaced(x.fn, n) \cup EventRows(x.fn.id, x.fn.val)
                     /\ q = "enforcing" => Of(n, "monitor", x.fn.id) # {}
    BY <1>6, <2>3, <2>8 DEF Updating
  <2>11. Updating(x, n, j, q, of)
    BY <2>1, <2>4, <2>5, <2>6, <2>7, <2>9, <2>10 DEF Updating
  <2> QED BY <1>2, <2>11 DEF Shape, n, j
<1>7. CASE Measuring(e, i)
  <2>1. e.fn.do \in Inserts /\ Target(e.fn) = <<"measurement", e.fn.id>>
    BY <1>7, TargetFacts DEF Measuring, Inserts
  <2>2. <<"measurement", e.fn.id>> \notin j
    BY <1>1, <1>7, <2>1 DEF Measuring, Committing, Apart
  <2>3. Measuring(x, j)
    BY <1>1, <1>7, <2>2 DEF Measuring
  <2> QED BY <1>2, <2>3 DEF Shape, n, j
<1>8. CASE Deleting(e, d, i, q)
  <2>1. e.at = 1 => of = "PostgreSQL"
    BY <1>4 DEF Committing
  <2>2. e.at = 1 => Doomed(e.fn, n, q) = Doomed(e.fn, d, q)
    BY <1>8, <2>1, DoomedStays DEF n
  <2>3. Deleting(x, n, j, q)
    BY <1>1, <1>8, <2>2 DEF Deleting
  <2> QED BY <1>2, <2>3 DEF Shape, n, j
<1> QED BY <1>5, <1>6, <1>7, <1>8 DEF Shape, Committing

-----------------------------------------------------------------------------
(* The rows that a commit leaves. *)

(* What is committed has been issued, and once. *)
LEMMA CommitKnown ==
  ASSUME NEW c, NEW d, NEW i, NEW conn, NEW of, Shape(c, d, i, conn, of),
         c.at = Length(c.fn), c.at \in {0, 1, 2, 3}, Known(d, i), Single(d),
         c.add \subseteq RowSet
  PROVE  Known(After(c, d), Issued(c, i)) /\ Single(After(c, d))
<1>1. ASSUME NEW r \in c.add PROVE Home(r) \in Issued(c, i)
  <2>1. CASE c.fn.do = "InsertMonitor"
    <3>1. Home(r) = <<"monitor", c.fn.id>>
      BY <1>1, <2>1, AddFacts DEF Home
    <3>2. Target(c.fn) = <<"monitor", c.fn.id>> /\ c.fn.do \in Inserts
      BY <2>1, TargetFacts DEF Inserts
    <3> QED BY <3>1, <3>2 DEF Issued
  <2>2. CASE c.fn.do = "UpdateMonitor"
    <3>1. Home(r) = <<"monitor", c.fn.id>>
      BY <1>1, <2>2, AddFacts DEF Home
    <3>2. <<"monitor", c.fn.id>> \in i
      BY <2>2, DoneFacts DEF Updating
    <3> QED BY <3>1, <3>2 DEF Issued
  <2>3. CASE c.fn.do = "InsertMeasurement"
    <3>1. Home(r) = <<"measurement", c.fn.id>>
      BY <1>1, <2>3, AddFacts DEF Home
    <3>2. Target(c.fn) = <<"measurement", c.fn.id>> /\ c.fn.do \in Inserts
      BY <2>3, TargetFacts DEF Inserts
    <3> QED BY <3>1, <3>2 DEF Issued
  <2> QED BY <1>1, <2>1, <2>2, <2>3, AddFacts
<1>2. Known(After(c, d), Issued(c, i))
  BY <1>1 DEF Known, After, Issued
<1>3. ASSUME NEW r \in After(c, d), NEW s \in After(c, d), r \in c.add,
             r.table = "measurement", s.table = "measurement", r.id = s.id
      PROVE  r = s
  <2>1. r.id = c.fn.id /\ c.fn.do = "InsertMeasurement"
    BY <1>3, AddFacts
  <2>2. <<"measurement", c.fn.id>> \notin i
    BY <2>1, DoneFacts DEF Measuring
  <2>3. s \in c.add
    <3>1. s \in d => <<"measurement", s.id>> \in i
      BY <1>3 DEF Known, Home
    <3> QED BY <1>3, <2>1, <2>2, <3>1 DEF After
  <2>4. r.val = c.fn.val /\ s.val = c.fn.val
    BY <1>3, <2>3, AddFacts
  <2> QED BY <1>3, <2>3, <2>4, SameRow
<1>4. Single(After(c, d))
  <2> SUFFICES ASSUME NEW r \in After(c, d), NEW s \in After(c, d),
                      r.table = "measurement", s.table = "measurement", r.id = s.id
               PROVE  r = s
    BY DEF Single
  <2>1. CASE r \in c.add \/ s \in c.add
    BY <1>3, <2>1
  <2>2. CASE r \in d /\ s \in d
    BY <2>2 DEF Single
  <2> QED BY <2>1, <2>2 DEF After
<1> QED BY <1>2, <1>4

(* The events are those of the row, but where an update has been crossed by another. *)
LEMMA CommitMatched ==
  ASSUME NEW c, NEW d, NEW i, NEW conn, NEW of, NEW x, Shape(c, d, i, conn, of),
         c.at = Length(c.fn), c.at \in {0, 1, 2, 3}, Known(d, i), Matched(d, x, of),
         of \in {"SQLite", "PostgreSQL"}, c.crossed \in BOOLEAN
  PROVE  Matched(After(c, d),
                 IF c.fn.do # "UpdateMonitor" THEN x
                 ELSE IF c.crossed THEN x \cup {c.fn.id} ELSE x \ {c.fn.id}, of)
<1> DEFINE n == After(c, d)
           y == IF c.fn.do # "UpdateMonitor" THEN x
                ELSE IF c.crossed THEN x \cup {c.fn.id} ELSE x \ {c.fn.id}
<1> SUFFICES ASSUME NEW r \in n, r.table = "monitor"
             PROVE  /\ EventRows(r.id, r.val) \subseteq n
                    /\ Of(n, "event", r.id) = EventRows(r.id, r.val) \/ (of = "PostgreSQL" /\ r.id \in y)
  BY DEF Matched
<1>1. \A m, v : \A s \in EventRows(m, v) : s.table = "event" /\ s.id = m
  BY RowFacts
<1>2. MonitorRow(c.fn.id, c.fn.val).table = "monitor"
  BY RowFacts
<1>3. CASE r \in c.add
  <2>1. /\ r.id = c.fn.id /\ r.val = c.fn.val
        /\ c.fn.do = "InsertMonitor" \/ c.fn.do = "UpdateMonitor"
    BY <1>3, AddFacts
  <2>2. EventRows(r.id, r.val) \subseteq c.add /\ Of(c.add, "event", r.id) = EventRows(r.id, r.val)
    <3>1. /\ EventRows(r.id, r.val) \subseteq c.add
          /\ c.add \subseteq {MonitorRow(c.fn.id, c.fn.val)} \cup EventRows(r.id, r.val)
      BY <2>1, DoneFacts DEF Replaced
    <3> QED BY <1>1, <1>2, <3>1 DEF Of
  <2>3. EventRows(r.id, r.val) \subseteq n
    BY <2>2 DEF After
  <2>4. CASE Of(d, "event", r.id) \subseteq c.del
    <3>1. Of(n, "event", r.id) = Of(c.add, "event", r.id)
      BY <2>4 DEF After, Of
    <3> QED BY <2>2, <2>3, <3>1
  <2>5. CASE c.fn.do = "InsertMonitor"
    <3>1. <<"monitor", c.fn.id>> \notin i
      BY <2>5, DoneFacts DEF Inserting
    <3>2. \A s \in Of(d, "event", r.id) : Home(s) = <<"monitor", c.fn.id>> /\ Home(s) \in i
      BY <2>1 DEF Of, Home, Known
    <3> QED BY <2>4, <3>1, <3>2
  <2>6. CASE c.fn.do = "UpdateMonitor"
    <3>1. of = "SQLite" \/ ~ c.crossed => Of(d, "event", r.id) \subseteq c.del
      BY <2>1, <2>6, DoneFacts
    <3>2. c.crossed => r.id \in y
      BY <2>1, <2>6
    <3> QED BY <2>3, <2>4, <3>1, <3>2
  <2> QED BY <2>1, <2>5, <2>6
<1>4. CASE r \notin c.add
  <2>1. r \in d /\ r \notin c.del /\ <<"monitor", r.id>> \in i
    BY <1>4 DEF After, Known, Home
  <2>2. ~ (c.fn.do = "UpdateMonitor" /\ c.fn.id = r.id)
    <3>1. c.fn.do = "UpdateMonitor" /\ c.fn.id = r.id => Of(d, "monitor", r.id) \subseteq c.del
      BY DoneFacts
    <3> QED BY <2>1, <3>1 DEF Of
  <2>3. ~ (c.fn.do = "DeleteMonitor" /\ c.fn.id = r.id)
    <3>1. c.fn.do = "DeleteMonitor" /\ c.fn.id = r.id => Of(d, "monitor", r.id) \subseteq c.del
      BY DoneFacts DEF Deletes, Doomed
    <3> QED BY <2>1, <3>1 DEF Of
  <2>4. ~ (c.fn.do = "InsertMonitor" /\ c.fn.id = r.id)
    BY <2>1, DoneFacts DEF Inserting
  <2>5. \A s \in c.add : ~ (s.table = "event" /\ s.id = r.id)
    BY <2>2, <2>4, AddFacts
  <2>6. \A s \in c.del : ~ (s.table = "event" /\ s.id = r.id)
    BY <2>2, <2>3, DelFacts
  <2>7. Of(n, "event", r.id) = Of(d, "event", r.id)
    BY <2>5, <2>6 DEF After, Of
  <2>8. EventRows(r.id, r.val) \subseteq d
    BY <1>4, <2>1 DEF Matched
  <2>9. Of(d, "event", r.id) = EventRows(r.id, r.val) \/ (of = "PostgreSQL" /\ r.id \in x)
    BY <1>4, <2>1 DEF Matched
  <2>10. EventRows(r.id, r.val) \subseteq n
    BY <1>1, <2>6, <2>8 DEF After
  <2>11. r.id \in x => r.id \in y
    BY <2>2
  <2> QED BY <2>7, <2>9, <2>10, <2>11
<1> QED BY <1>3, <1>4

(* A measurement keeps its certificates as long as it is there. *)
LEMMA CommitCertificates ==
  ASSUME NEW c, NEW d, NEW i, NEW conn, NEW of, Shape(c, d, i, conn, of),
         c.at = Length(c.fn), c.at \in {0, 1, 2, 3}, Single(d), Certificates(d)
  PROVE  Certificates(After(c, d))
<1> SUFFICES ASSUME NEW r \in After(c, d), r.table = "measurement"
             PROVE  CertificateRow(r.id) \in After(c, d)
  BY DEF Certificates
<1>1. CertificateRow(r.id).table = "certificate" /\ CertificateRow(r.id).id = r.id
  BY RowFacts
<1>2. CASE r \in c.add
  <2>1. r.id = c.fn.id /\ c.fn.do = "InsertMeasurement"
    BY <1>2, AddFacts
  <2>2. CertificateRow(r.id) \in c.add
    BY <2>1, DoneFacts
  <2> QED BY <2>2 DEF After
<1>3. CASE r \notin c.add
  <2>1. r \in d /\ r \notin c.del /\ CertificateRow(r.id) \in d
    BY <1>3 DEF After, Certificates
  <2>2. CASE CertificateRow(r.id) \in c.del
    <3>1. \/ /\ c.fn.do = "DeleteMonitor"
             /\ \E s \in Measured(d, c.fn.id) : s.id = r.id
          \/ c.fn.do = "DeleteMeasurement" /\ r.id = c.fn.id
      <4> DEFINE s == CertificateRow(r.id)
      <4>1. s \in c.del /\ s.table = "certificate" /\ s.id = r.id
        BY <1>1, <2>2
      <4> HIDE DEF s
      <4> QED BY <4>1, DelFacts
    <3>2. c.fn.do \in Deletes /\ c.del = Doomed(c.fn, d, conn)
      BY <3>1, DoneFacts DEF Deletes
    <3>3. CASE c.fn.do = "DeleteMeasurement" /\ r.id = c.fn.id
      <4>1. r \in Doomed(c.fn, d, conn)
        BY <2>1, <3>3 DEF Doomed, Of
      <4> QED BY <2>1, <3>2, <4>1
    <3>4. CASE c.fn.do = "DeleteMonitor" /\ \E s \in Measured(d, c.fn.id) : s.id = r.id
      <4>1. r \in Measured(d, c.fn.id)
        BY <2>1, <3>4 DEF Measured, Single
      <4>2. conn = "enforcing" /\ Of(d, "monitor", c.fn.id) # {}
        <5>1. CertificateRow(r.id) \notin Of(d, "monitor", c.fn.id)
          BY <1>1 DEF Of
        <5> QED BY <2>2, <3>2, <3>4, <5>1 DEF Doomed
      <4>3. r \in Doomed(c.fn, d, conn)
        BY <3>4, <4>1, <4>2 DEF Doomed
      <4> QED BY <2>1, <3>2, <4>3
    <3> QED BY <3>1, <3>3, <3>4
  <2> QED BY <2>1, <2>2 DEF After
<1> QED BY <1>2, <1>3

-----------------------------------------------------------------------------
(* Every step keeps the invariant. *)

(* The invariants of the rows are those that the runs check. *)
LEMMA RowsOfDb == RowsInv => EventsMatchRow /\ MeasuredAsAWhole
<1>1. \A m : EventsOf(m) = Of(db, "event", m)
  BY KeyFacts DEF EventsOf
<1> QED BY <1>1 DEF RowsInv, Matched, Certificates, EventsMatchRow, MeasuredAsAWhole

(* A connection of PostgreSQL that a caller has enforces foreign keys. *)
LEMMA ConnFacts ==
  ASSUME RepositoryInv, NEW k \in Clients, Running(k)
  PROVE  /\ pool[call[k].conn] \in {"bare", "enforcing"}
         /\ kind \in {"SQLite", "PostgreSQL"}
         /\ AllEnforce => pool[call[k].conn] = "enforcing"
         /\ kind = "PostgreSQL" => pool[call[k].conn] = "enforcing"
<1>1. call[k].conn \in Conns /\ pool[call[k].conn] # "closed"
  BY CallFacts DEF RepositoryInv, PoolInv
<1> QED BY <1>1, KindAssumption DEF RepositoryInv, TypeOK, PoolInv, AllEnforce

(* A commit, for each other caller. *)
LEMMA CommitFacts ==
  ASSUME RepositoryInv, NEW k \in Clients, Commit(k)
  PROVE  /\ Running(k) /\ call[k].at = Length(call[k].fn) /\ db' = After(call[k], db)
         /\ issued' = Issued(call[k], issued) /\ UNCHANGED <<kind, stage, made, pool>>
         /\ Shape(call[k], db, issued, pool[call[k].conn], kind) /\ call[k].crossed \in BOOLEAN
         /\ \A h \in Clients : Running(h)' =>
              /\ h # k /\ Running(h)
              /\ Committing(call[k], call[h], db, issued, pool[call[k].conn], pool[call[h].conn], kind)
              /\ \E b \in BOOLEAN :
                   /\ call'[h] = [call[h] EXCEPT !.crossed = b]
                   /\ ~ b => ~ call[h].crossed
                   /\ ~ b /\ call[h].fn.do = "UpdateMonitor" =>
                        ~ (call[k].fn.do = "UpdateMonitor" /\ call[k].fn.id = call[h].fn.id)
<1>1. /\ Running(k) /\ call[k].at = Length(call[k].fn) /\ db' = After(call[k], db)
      /\ issued' = Issued(call[k], issued) /\ UNCHANGED <<kind, stage, made, pool>>
  BY DEF Commit, Committed, After, Issued
<1>2. Shape(call[k], db, issued, pool[call[k].conn], kind) /\ call[k].crossed \in BOOLEAN
  <2>1. call[k] \in CallSet
    BY <1>1, CallFacts DEF RepositoryInv
  <2> QED BY <1>1, <2>1 DEF RepositoryInv, CallsInv, CallSet
<1>3. ASSUME NEW h \in Clients, Running(h)'
      PROVE  /\ h # k /\ Running(h)
             /\ Committing(call[k], call[h], db, issued, pool[call[k].conn], pool[call[h].conn], kind)
             /\ \E b \in BOOLEAN :
                  /\ call'[h] = [call[h] EXCEPT !.crossed = b]
                  /\ ~ b => ~ call[h].crossed
                  /\ ~ b /\ call[h].fn.do = "UpdateMonitor" =>
                       ~ (call[k].fn.do = "UpdateMonitor" /\ call[k].fn.id = call[h].fn.id)
  <2>1. call'[h] = IF h = k THEN None
                   ELSE IF call[k].fn.do = "UpdateMonitor" /\ Updates(h, call[k].fn.id)
                   THEN [call[h] EXCEPT !.crossed = TRUE] ELSE call[h]
    BY DEF Commit
  <2>2. h # k
    BY <1>3, <2>1 DEF Running
  <2>3. Running(h)
    BY <1>3, <2>1, <2>2 DEF Running, Updates
  <2>4. Committing(call[k], call[h], db, issued, pool[call[k].conn], pool[call[h].conn], kind)
    <3>1. /\ call[k].at \in {0, 1, 2, 3} /\ call[k].del \subseteq db /\ call[k].add \subseteq RowSet
          /\ call[h].at \in {0, 1, 2, 3} /\ call[h].del \subseteq db /\ call[h].at <= Length(call[h].fn)
          /\ db \subseteq RowSet
      BY <1>1, <2>3, CallFacts DEF RepositoryInv
    <3>2. /\ Shape(call[h], db, issued, pool[call[h].conn], kind)
          /\ Apart(call[k], call[h], kind) /\ Apart(call[h], call[k], kind) /\ Known(db, issued)
      BY <1>1, <2>2, <2>3 DEF RepositoryInv, CallsInv, RowsInv
    <3>3. kind \in {"SQLite", "PostgreSQL"} /\ (kind = "PostgreSQL" => pool[call[h].conn] = "enforcing")
      BY <2>3, ConnFacts
    <3> QED BY <1>1, <1>2, <3>1, <3>2, <3>3 DEF Committing
  <2>5. call[h] \in CallSet
    BY <2>3, CallFacts DEF RepositoryInv
  <2>6. CASE call[k].fn.do = "UpdateMonitor" /\ Updates(h, call[k].fn.id)
    <3>1. call'[h] = [call[h] EXCEPT !.crossed = TRUE]
      BY <2>1, <2>2, <2>6
    <3> QED BY <2>2, <2>3, <2>4, <3>1
  <2>7. CASE ~ (call[k].fn.do = "UpdateMonitor" /\ Updates(h, call[k].fn.id))
    <3>1. call'[h] = call[h]
      BY <2>1, <2>2, <2>7
    <3>2. call[h].crossed \in BOOLEAN /\ call[h] = [call[h] EXCEPT !.crossed = call[h].crossed]
      BY <2>5 DEF CallSet
    <3>3. call[h].fn.do = "UpdateMonitor" => ~ (call[k].fn.do = "UpdateMonitor" /\ call[k].fn.id = call[h].fn.id)
      BY <2>3, <2>7 DEF Updates
    <3> QED BY <2>2, <2>3, <2>4, <3>1, <3>2, <3>3
  <2> QED BY <2>6, <2>7
<1> QED BY <1>1, <1>2, <1>3

(* The fields of a call that another update may have crossed. *)
LEMMA CrossedFacts ==
  ASSUME NEW e \in CallSet, NEW b \in BOOLEAN
  PROVE  LET x == [e EXCEPT !.crossed = b]
         IN  /\ x \in CallSet /\ x.conn = e.conn /\ x.fn = e.fn /\ x.at = e.at /\ x.del = e.del
             /\ x.add = e.add /\ x.seen = e.seen /\ x.crossed = b
BY DEF CallSet

LEMMA CommitKeeps ==
  ASSUME RepositoryInv, NEW k \in Clients, Commit(k)
  PROVE  RepositoryInv'
<1> DEFINE c == call[k]
           p == pool[call[k].conn]
<1>1. /\ Running(k) /\ c.at = Length(c.fn) /\ db' = After(c, db) /\ issued' = Issued(c, issued)
      /\ UNCHANGED <<kind, stage, made, pool>> /\ Shape(c, db, issued, p, kind) /\ c.crossed \in BOOLEAN
  BY CommitFacts
<1>2. /\ c.at \in {0, 1, 2, 3} /\ c.add \subseteq RowSet /\ c.del \subseteq db /\ db \subseteq RowSet
      /\ kind \in {"SQLite", "PostgreSQL"}
  BY <1>1, CallFacts, ConnFacts DEF RepositoryInv
<1>3. mixed' = IF c.fn.do # "UpdateMonitor" THEN mixed
               ELSE IF c.crossed THEN mixed \cup {c.fn.id} ELSE mixed \ {c.fn.id}
  BY DEF Commit
<1>4. Known(db, issued) /\ Single(db) /\ Matched(db, mixed, kind) /\ Certificates(db)
  BY DEF RepositoryInv, RowsInv
<1> HIDE DEF c, p
<1>5. RowsInv'
  <2>1. Known(db', issued') /\ Single(db')
    BY <1>1, <1>2, <1>4, CommitKnown
  <2>2. Matched(db', mixed', kind')
    BY <1>1, <1>2, <1>3, <1>4, CommitMatched
  <2>3. Certificates(db')
    BY <1>1, <1>2, <1>4, CommitCertificates
  <2> QED BY <2>1, <2>2, <2>3 DEF RowsInv
<1>6. ASSUME NEW h \in Clients, Running(h)'
      PROVE  /\ h # k /\ Running(h) /\ call'[h] \in CallSet
             /\ call'[h].conn = call[h].conn /\ call'[h].fn = call[h].fn /\ call'[h].at = call[h].at
             /\ call'[h].del = call[h].del /\ call'[h].add = call[h].add
             /\ Shape(call'[h], db', issued', pool[call[h].conn], kind) /\ call'[h].del \subseteq db'
  <2>1. /\ h # k /\ Running(h)
        /\ Committing(c, call[h], db, issued, p, pool[call[h].conn], kind)
    BY <1>6, CommitFacts DEF c, p
  <2>2. PICK b \in BOOLEAN :
          /\ call'[h] = [call[h] EXCEPT !.crossed = b]
          /\ ~ b => ~ call[h].crossed
          /\ ~ b /\ call[h].fn.do = "UpdateMonitor" =>
               ~ (c.fn.do = "UpdateMonitor" /\ c.fn.id = call[h].fn.id)
    BY <1>6, CommitFacts DEF c
  <2>3. call[h] \in CallSet
    BY <2>1, CallFacts DEF RepositoryInv
  <2> DEFINE e == call[h]
             x == call'[h]
             q == pool[call[h].conn]
  <2>4. /\ x \in CallSet /\ x.conn = e.conn /\ x.fn = e.fn /\ x.at = e.at /\ x.del = e.del
        /\ x.add = e.add /\ x.seen = e.seen /\ x.crossed = b
    BY <2>2, <2>3, CrossedFacts
  <2>5. Committing(c, e, db, issued, p, q, kind)
    BY <2>1
  <2>6. e.fn.do = "UpdateMonitor" /\ ~ x.crossed =>
          ~ e.crossed /\ ~ (c.fn.do = "UpdateMonitor" /\ c.fn.id = e.fn.id)
    BY <2>2, <2>4
  <2> HIDE DEF e, x, q
  <2>7. Shape(x, After(c, db), Issued(c, issued), q, kind) /\ x.del \subseteq After(c, db)
    BY <2>4, <2>5, <2>6, CommitShape
  <2> QED BY <1>1, <2>1, <2>4, <2>7 DEF e, x, q
<1>7. TypeOK'
  <2>1. call' \in [Clients -> {None} \cup CallSet]
    <3>1. call' = [h \in Clients |-> call'[h]]
      BY DEF Commit
    <3>2. \A h \in Clients : call'[h] \in {None} \cup CallSet
      BY <1>6 DEF Running
    <3> QED BY <3>1, <3>2
  <2>2. \A h \in Clients : Running(h)' => call'[h].at <= Length(call'[h].fn) /\ call'[h].del \subseteq db'
    BY <1>6, CallFacts DEF RepositoryInv
  <2>3. db' \subseteq RowSet
    BY <1>1, <1>2 DEF After
  <2>4. c.fn \in FnSet
    BY <1>1, CallFacts DEF RepositoryInv, CallSet, c
  <2>5. Target(c.fn) \in KeySet
    BY <2>4, TargetFacts DEF FnSet, KeySet, TableSet, Inserts, Deletes
  <2>6. issued' \subseteq KeySet
    BY <1>1, <2>5 DEF Issued, RepositoryInv, TypeOK
  <2>7. c.fn.do = "UpdateMonitor" => c.fn.id \in Monitors
    BY <1>1, DoneFacts DEF Updating
  <2>8. mixed' \subseteq Monitors
    BY <1>3, <2>7 DEF RepositoryInv, TypeOK
  <2> QED BY <1>1, <2>1, <2>2, <2>3, <2>6, <2>8 DEF RepositoryInv, TypeOK
<1>8. MigrationInv' /\ PoolInv'
  <2>1. MigrationInv'
    BY <1>1, <1>6 DEF RepositoryInv, MigrationInv, SchemaWhole
  <2>2. PoolInv'
    BY <1>1, <1>6 DEF RepositoryInv, PoolInv, AllEnforce
  <2> QED BY <2>1, <2>2
<1>9. CallsInv'
  <2>1. \A h \in Clients : Running(h)' => Shape(call'[h], db', issued', pool'[call'[h].conn], kind')
    BY <1>1, <1>6
  <2>2. ASSUME NEW g \in Clients, NEW h \in Clients, g # h, Running(g)', Running(h)'
        PROVE  Apart(call'[g], call'[h], kind')
    <3>1. Apart(call[g], call[h], kind)
      BY <1>6, <2>2 DEF RepositoryInv, CallsInv
    <3>2. /\ call'[g].fn = call[g].fn /\ call'[g].at = call[g].at
          /\ call'[g].del = call[g].del /\ call'[g].add = call[g].add
      BY <1>6, <2>2
    <3>3. /\ call'[h].fn = call[h].fn /\ call'[h].at = call[h].at
          /\ call'[h].del = call[h].del /\ call'[h].add = call[h].add
      BY <1>6, <2>2
    <3>4. kind' = kind
      BY <1>1
    <3> QED BY <3>1, <3>2, <3>3, <3>4 DEF Apart
  <2> QED BY <2>1, <2>2 DEF CallsInv
<1> QED BY <1>5, <1>7, <1>8, <1>9 DEF RepositoryInv

(* A statement changes nothing but its call. *)
LEMMA StatementKeeps ==
  ASSUME RepositoryInv, NEW k \in Clients, Statement(k)
  PROVE  RepositoryInv'
<1>1. /\ Running(k) /\ Executed(k) /\ UNCHANGED <<kind, stage, made, pool, db, issued, mixed>>
  BY DEF Statement, MoreToDo, Executed, rowVars
<1>2. call'[k].conn = call[k].conn /\ \A h \in Clients \ {k} : call'[h] = call[h]
  BY <1>1, ExecutedFacts DEF RepositoryInv
<1>3. \A h \in Clients : Running(h)' => Running(h)
  BY <1>1, <1>2 DEF Running
<1>4. TypeOK'
  BY StatementType
<1>5. MigrationInv' /\ PoolInv' /\ RowsInv'
  <2>1. MigrationInv'
    BY <1>1, <1>3 DEF RepositoryInv, MigrationInv, SchemaWhole
  <2>2. PoolInv'
    BY <1>1, <1>2, <1>3 DEF RepositoryInv, PoolInv, AllEnforce, Running
  <2>3. RowsInv'
    BY <1>1 DEF RepositoryInv, RowsInv
  <2> QED BY <2>1, <2>2, <2>3
<1>6. \A h \in Clients : Running(h)' => Shape(call'[h], db', issued', pool'[call'[h].conn], kind')
  BY <1>1, <1>2, <1>3, StatementShape DEF RepositoryInv, CallsInv
<1>7. ASSUME NEW g \in Clients, NEW h \in Clients, g # h, Running(g)', Running(h)'
      PROVE  Apart(call'[g], call'[h], kind')
  <2>1. CASE g = k
    <3>1. call'[h] = call[h] /\ Running(h)
      BY <1>2, <1>3, <1>7, <2>1
    <3>2. Apart(call'[k], call[h], kind)
      BY <1>7, <2>1, <3>1, StatementApart
    <3> QED BY <1>1, <2>1, <3>1, <3>2
  <2>2. CASE h = k
    <3>1. call'[g] = call[g] /\ Running(g)
      BY <1>2, <1>3, <1>7, <2>2
    <3>2. Apart(call[g], call'[k], kind)
      BY <1>7, <2>2, <3>1, StatementApart
    <3> QED BY <1>1, <2>2, <3>1, <3>2
  <2>3. CASE g # k /\ h # k
    BY <1>1, <1>2, <1>3, <1>7, <2>3 DEF RepositoryInv, CallsInv
  <2> QED BY <2>1, <2>2, <2>3
<1> QED BY <1>4, <1>5, <1>6, <1>7 DEF RepositoryInv, CallsInv

(* What a caller may begin: a row that is new, or one that has been issued. *)
Begins(fn) ==
  \/ /\ \/ \E m \in Monitors, v \in Versions : fn = Fn("InsertMonitor", m, v)
        \/ \E j \in Measurements, m \in Monitors :
             fn = Fn("InsertMeasurement", j, m) /\ <<"monitor", m>> \in issued
     /\ Target(fn) \notin issued
     /\ \A h \in Clients : Running(h) => Target(call[h].fn) # Target(fn)
  \/ \E m \in Monitors, v \in Versions : fn = Fn("UpdateMonitor", m, v) /\ <<"monitor", m>> \in issued
  \/ \E m \in Monitors : fn = Fn("DeleteMonitor", m, None) /\ <<"monitor", m>> \in issued
  \/ \E j \in Measurements : fn = Fn("DeleteMeasurement", j, None) /\ <<"measurement", j>> \in issued

LEMMA BeginsFacts ==
  ASSUME NEW fn, Begins(fn)
  PROVE  /\ fn \in FnSet
         /\ fn.do \in Inserts => \A h \in Clients : Running(h) => Target(call[h].fn) # Target(fn)
<1>1. \A m \in Monitors, v \in Versions :
        /\ Fn("InsertMonitor", m, v) \in FnSet
        /\ Fn("UpdateMonitor", m, v) \in FnSet /\ Fn("UpdateMonitor", m, v).do \notin Inserts
  BY DEF Fn, FnSet, Inserts
<1>2. \A j \in Measurements, m \in Monitors : Fn("InsertMeasurement", j, m) \in FnSet
  BY DEF Fn, FnSet, Inserts
<1>3. \A m \in Monitors : Fn("DeleteMonitor", m, None) \in FnSet /\ Fn("DeleteMonitor", m, None).do \notin Inserts
  BY DEF Fn, FnSet, Inserts, Deletes
<1>4. \A j \in Measurements :
        Fn("DeleteMeasurement", j, None) \in FnSet /\ Fn("DeleteMeasurement", j, None).do \notin Inserts
  BY DEF Fn, FnSet, Inserts, Deletes
<1> QED BY <1>1, <1>2, <1>3, <1>4 DEF Begins

(* A call that has just begun: it has written nothing. *)
LEMMA BegunShape ==
  ASSUME NEW fn, Begins(fn), NEW c, c.fn = fn, c.at = 0, c.del = {}, c.add = {},
         fn.do = "UpdateMonitor" /\ kind = "PostgreSQL" => Of(db, "event", fn.id) \subseteq c.seen,
         NEW conn
  PROVE  Shape(c, db, issued, conn, kind)
<1> USE DEF Fn
<1>1. ASSUME NEW m \in Monitors, NEW v \in Versions, fn = Fn("InsertMonitor", m, v), Target(fn) \notin issued
      PROVE  Inserting(c, issued)
  BY <1>1, TargetFacts DEF Inserting
<1>2. ASSUME NEW j \in Measurements, NEW m \in Monitors, fn = Fn("InsertMeasurement", j, m),
             <<"monitor", m>> \in issued, Target(fn) \notin issued
      PROVE  Measuring(c, issued)
  BY <1>2, TargetFacts DEF Measuring
<1>3. ASSUME NEW m \in Monitors, NEW v \in Versions, fn = Fn("UpdateMonitor", m, v), <<"monitor", m>> \in issued
      PROVE  Updating(c, db, issued, conn, kind)
  BY <1>3 DEF Updating
<1>4. ASSUME NEW m \in Monitors, fn = Fn("DeleteMonitor", m, None), <<"monitor", m>> \in issued
      PROVE  Deleting(c, db, issued, conn)
  BY <1>4 DEF Deleting
<1>5. ASSUME NEW j \in Measurements, fn = Fn("DeleteMeasurement", j, None), <<"measurement", j>> \in issued
      PROVE  Deleting(c, db, issued, conn)
  BY <1>5 DEF Deleting
<1> QED BY <1>1, <1>2, <1>3, <1>4, <1>5 DEF Begins, Shape

(* A caller gets a connection that is open, and nothing has been written by it. *)
LEMMA CallKeeps ==
  ASSUME RepositoryInv, NEW k \in Clients, NEW fn, Connect(k, fn), Begins(fn)
  PROVE  RepositoryInv'
<1> DEFINE seen == IF kind = "PostgreSQL" /\ fn.do = "UpdateMonitor" THEN EventsOf(fn.id) ELSE {}
<1>1. PICK c \in Conns :
        /\ IF Idle # {} THEN c \in Idle /\ UNCHANGED pool
                        ELSE pool[c] = "closed" /\ pool' = [pool EXCEPT ![c] = Opened(FALSE)]
        /\ call' = [call EXCEPT ![k] =
             [conn |-> c, fn |-> fn, at |-> 0, del |-> {}, add |-> {}, seen |-> seen, crossed |-> FALSE]]
  BY DEF Connect
<1>2. UNCHANGED <<kind, stage, made, db, issued, mixed>> /\ stage.at = "serving" /\ ~ Running(k)
  BY DEF Connect, rowVars
<1> DEFINE r == [conn |-> c, fn |-> fn, at |-> 0, del |-> {}, add |-> {}, seen |-> seen, crossed |-> FALSE]
<1>3. call'[k] = r /\ \A h \in Clients \ {k} : call'[h] = call[h]
  BY <1>1 DEF RepositoryInv, TypeOK
<1>4. /\ r.conn = c /\ r.fn = fn /\ r.at = 0 /\ r.del = {} /\ r.add = {} /\ r.seen = seen
      /\ r.crossed = FALSE
  OBVIOUS
<1>5. fn \in FnSet
  BY BeginsFacts
<1>6. seen \subseteq RowSet /\ (fn.do = "UpdateMonitor" /\ kind = "PostgreSQL" => Of(db, "event", fn.id) \subseteq seen)
  <2>1. EventsOf(fn.id) = Of(db, "event", fn.id)
    BY KeyFacts DEF EventsOf
  <2>2. Of(db, "event", fn.id) \subseteq db
    BY DEF Of
  <2> QED BY <2>1, <2>2 DEF RepositoryInv, TypeOK
<1> HIDE DEF seen
<1>7. r \in CallSet /\ Length(fn) \in Nat
  BY <1>5, <1>6 DEF CallSet, Length
<1> HIDE DEF r
<1>8. pool' \in [Conns -> {"closed", "bare", "enforcing"}] /\ pool'[c] # "closed"
      /\ \A o \in Conns : pool[o] # "closed" => pool'[o] = pool[o]
  <2>1. CASE Idle # {}
    BY <1>1, <2>1 DEF Idle, RepositoryInv, TypeOK
  <2>2. CASE Idle = {}
    BY <1>1, <2>2 DEF RepositoryInv, TypeOK, Opened
  <2> QED BY <2>1, <2>2
<1>9. TypeOK'
  <2>1. call' \in [Clients -> {None} \cup CallSet]
    BY <1>1, <1>7 DEF RepositoryInv, TypeOK, r
  <2>2. \A h \in Clients : Running(h)' => call'[h].at <= Length(call'[h].fn) /\ call'[h].del \subseteq db'
    <3>1. r.at <= Length(r.fn) /\ r.del \subseteq db
      BY <1>4, <1>7
    <3> QED BY <1>2, <1>3, <3>1 DEF RepositoryInv, TypeOK, Running
  <2> QED BY <1>2, <1>8, <2>1, <2>2 DEF RepositoryInv, TypeOK
<1>10. MigrationInv' /\ RowsInv'
  BY <1>2 DEF RepositoryInv, MigrationInv, SchemaWhole, RowsInv
<1>11. \A h \in Clients : Running(h)' /\ h # k => Running(h) /\ call[h].conn \in Conns /\ pool'[call[h].conn] = pool[call[h].conn]
  <2> SUFFICES ASSUME NEW h \in Clients, Running(h)', h # k
               PROVE  Running(h) /\ call[h].conn \in Conns /\ pool'[call[h].conn] = pool[call[h].conn]
    OBVIOUS
  <2>1. Running(h)
    BY <1>3 DEF Running
  <2>2. call[h].conn \in Conns /\ pool[call[h].conn] # "closed"
    BY <2>1, CallFacts DEF RepositoryInv, PoolInv
  <2> QED BY <1>8, <2>1, <2>2
<1>12. PoolInv'
  <2>1. AllEnforce => \A o \in Conns : pool'[o] # "bare"
    <3>1. CASE Idle # {}
      BY <1>1, <3>1 DEF RepositoryInv, PoolInv
    <3>2. CASE Idle = {} /\ kind = "PostgreSQL"
      BY <1>1, <3>2 DEF Opened, Enforces, RepositoryInv, TypeOK, PoolInv, AllEnforce
    <3>3. CASE Idle = {} /\ \E o \in Conns : Conns = {o}
      BY <1>1, <1>2, <3>3 DEF RepositoryInv, PoolInv
    <3> QED BY <3>1, <3>2, <3>3 DEF AllEnforce
  <2>2. \E o \in Conns : pool'[o] # "closed"
    BY <1>8
  <2>3. \A h \in Clients : Running(h)' => pool'[call'[h].conn] # "closed"
    <3> SUFFICES ASSUME NEW h \in Clients, Running(h)' PROVE pool'[call'[h].conn] # "closed"
      OBVIOUS
    <3>1. CASE h = k
      BY <1>3, <1>4, <1>8, <3>1
    <3>2. CASE h # k
      BY <1>3, <1>11, <3>2 DEF RepositoryInv, PoolInv
    <3> QED BY <3>1, <3>2
  <2> QED BY <1>2, <2>1, <2>2, <2>3 DEF PoolInv, AllEnforce
<1>13. CallsInv'
  <2>1. Shape(r, db, issued, pool'[c], kind)
    BY <1>4, <1>6, BegunShape
  <2>2. ASSUME NEW h \in Clients, Running(h)'
        PROVE  Shape(call'[h], db', issued', pool'[call'[h].conn], kind')
    <3>1. CASE h = k
      BY <1>2, <1>3, <1>4, <2>1, <3>1
    <3>2. CASE h # k
      <4>1. call'[h] = call[h] /\ Running(h) /\ pool'[call[h].conn] = pool[call[h].conn]
        BY <1>3, <1>11, <2>2, <3>2
      <4>2. Shape(call[h], db, issued, pool[call[h].conn], kind)
        BY <4>1 DEF RepositoryInv, CallsInv
      <4> QED BY <1>2, <4>1, <4>2
    <3> QED BY <3>1, <3>2
  <2>3. ASSUME NEW h \in Clients, h # k, Running(h)
        PROVE  Apart(call[h], r, kind) /\ Apart(r, call[h], kind)
    <3>1. fn.do \in Inserts => Target(call[h].fn) # Target(fn)
      BY <2>3, BeginsFacts
    <3>2. Left(r.del, r.add) = {}
      BY <1>4 DEF Left, Keys
    <3> QED BY <1>4, <3>1, <3>2 DEF Apart
  <2>4. ASSUME NEW g \in Clients, NEW h \in Clients, g # h, Running(g)', Running(h)'
        PROVE  Apart(call'[g], call'[h], kind')
    <3>1. CASE g = k
      BY <1>2, <1>3, <1>11, <2>3, <2>4, <3>1
    <3>2. CASE h = k
      BY <1>2, <1>3, <1>11, <2>3, <2>4, <3>2
    <3>3. CASE g # k /\ h # k
      BY <1>2, <1>3, <1>11, <2>4, <3>3 DEF RepositoryInv, CallsInv
    <3> QED BY <3>1, <3>2, <3>3
  <2> QED BY <2>2, <2>4 DEF CallsInv
<1> QED BY <1>9, <1>10, <1>12, <1>13 DEF RepositoryInv

(* A caller that fails, or all of them in a crash, take what they have written along. *)
LEMMA EndKeeps ==
  ASSUME RepositoryInv, UNCHANGED <<kind, db, issued, mixed>>,
         call' \in [Clients -> {None} \cup CallSet],
         \A h \in Clients : Running(h)' => call'[h] = call[h] /\ pool' = pool
  PROVE  /\ RowsInv' /\ CallsInv'
         /\ \A h \in Clients : Running(h)' => call'[h].at <= Length(call'[h].fn) /\ call'[h].del \subseteq db
<1>1. \A h \in Clients : Running(h)' => call'[h] = call[h] /\ Running(h)
  BY DEF Running
<1>2. RowsInv'
  BY DEF RepositoryInv, RowsInv
<1>3. CallsInv'
  <2>1. \A h \in Clients : Running(h)' => Shape(call'[h], db', issued', pool'[call'[h].conn], kind')
    BY <1>1 DEF RepositoryInv, CallsInv
  <2>2. \A g, h \in Clients : g # h /\ Running(g)' /\ Running(h)' => Apart(call'[g], call'[h], kind')
    BY <1>1 DEF RepositoryInv, CallsInv
  <2> QED BY <2>1, <2>2 DEF CallsInv
<1> QED BY <1>1, <1>2, <1>3 DEF RepositoryInv, TypeOK

(* The start leaves the rows alone, and nobody calls meanwhile. *)
LEMMA StartKeeps ==
  ASSUME RepositoryInv, Open \/ Validate \/ Migrate
  PROVE  RepositoryInv'
<1>1. /\ UNCHANGED <<kind, db, issued, mixed, call>> /\ stage.at # "serving"
  BY DEF Open, Validate, Migrate, MigrateStep, MigrateAtOnce, rowVars
<1>2. \A k \in Clients : ~ Running(k) /\ ~ Running(k)'
  BY <1>1 DEF RepositoryInv, MigrationInv, Running
<1>3. TypeOK /\ MigrationInv /\ PoolInv /\ kind \in {"SQLite", "PostgreSQL"} /\ Tables \in Nat \ {0} /\ Triggers \in Nat
  BY KindAssumption, SchemaAssumption DEF RepositoryInv, MigrationInv
<1>4. RowsInv' /\ CallsInv'
  BY <1>1, <1>2 DEF RepositoryInv, RowsInv, CallsInv
<1>5. CASE Open
  <2>1. pool' \in [Conns -> {"closed", "bare", "enforcing"}]
        /\ (\E c \in Conns : pool'[c] # "closed") /\ \A c \in Conns : pool[c] # "bare" => pool'[c] # "bare"
    BY <1>3, <1>5 DEF Open, Opened, Enforces, TypeOK
  <2>2. TypeOK'
    <3>1. stage' = [at |-> "validating", next |-> 0] /\ made' = made
      BY <1>5 DEF Open
    <3>2. stage' \in [at : {"down", "validating", "migrating", "serving", "refused"}, next : 0 .. Tables + Triggers]
      BY <1>3, <3>1
    <3> QED BY <1>1, <1>2, <1>3, <2>1, <3>1, <3>2 DEF TypeOK
  <2>3. MigrationInv' /\ PoolInv'
    BY <1>1, <1>2, <1>3, <1>5, <2>1 DEF Open, MigrationInv, SchemaWhole, PoolInv, AllEnforce
  <2> QED BY <1>4, <2>2, <2>3 DEF RepositoryInv
<1>6. CASE Validate
  <2>1. stage' = [at |-> IF made >= Tables THEN "serving" ELSE "migrating", next |-> 0]
        /\ stage.at = "validating" /\ UNCHANGED <<made, pool>>
    BY <1>3, <1>6 DEF Validate, TypeOK, MigrationInv
  <2>2. TypeOK'
    BY <1>1, <1>2, <1>3, <2>1 DEF TypeOK, CallSet
  <2>3. MigrationInv'
    <3>1. made \in 0 .. Tables + Triggers /\ (made < Tables \/ made >= Tables)
      BY <1>3 DEF TypeOK
    <3> QED BY <1>1, <1>2, <1>3, <2>1, <3>1 DEF MigrationInv, SchemaWhole
  <2>4. PoolInv'
    BY <1>1, <1>2, <1>3, <2>1 DEF PoolInv, AllEnforce
  <2> QED BY <1>4, <2>2, <2>3, <2>4 DEF RepositoryInv
<1>7. CASE Migrate
  <2>1. /\ stage.at = "migrating" /\ UNCHANGED pool /\ stage.next <= made /\ made < Tables + Triggers
        /\ made \in Nat /\ stage.next \in Nat
        /\ (stage.next < made => stage.next = 0 /\ made < Tables)
    BY <1>3, <1>7 DEF Migrate, MigrateStep, MigrateAtOnce, MigrationInv, TypeOK
  <2>2. CASE kind = "SQLite" /\ stage.next < made
    <3>1. stage' = [at |-> "refused", next |-> stage.next] /\ made' = made
      BY <1>3, <1>7, <2>2 DEF Migrate, MigrateStep, TypeOK
    <3>2. TypeOK' /\ MigrationInv'
      BY <1>1, <1>2, <1>3, <2>1, <2>2, <3>1 DEF TypeOK, CallSet, MigrationInv, SchemaWhole
    <3> QED BY <1>1, <1>2, <1>3, <1>4, <2>1, <3>1, <3>2 DEF RepositoryInv, PoolInv, AllEnforce
  <2>3. CASE kind = "SQLite" /\ ~ (stage.next < made)
    <3>1. made' = made + 1 /\ stage' = IF made + 1 = Tables + Triggers THEN [at |-> "serving", next |-> stage.next]
                                       ELSE [at |-> "migrating", next |-> made + 1]
      BY <1>3, <1>7, <2>1, <2>3 DEF Migrate, MigrateStep, TypeOK
    <3>2. TypeOK'
      BY <1>1, <1>2, <1>3, <2>1, <2>3, <3>1 DEF TypeOK, CallSet
    <3>3. MigrationInv'
      BY <1>1, <1>2, <1>3, <2>1, <2>3, <3>1 DEF MigrationInv, SchemaWhole
    <3> QED BY <1>1, <1>2, <1>3, <1>4, <2>1, <3>1, <3>2, <3>3 DEF RepositoryInv, PoolInv, AllEnforce
  <2>4. CASE kind # "SQLite"
    <3>1. made' = Tables + Triggers /\ stage' = [at |-> "serving", next |-> stage.next]
      BY <1>3, <1>7, <2>4 DEF Migrate, MigrateAtOnce, TypeOK
    <3>2. TypeOK' /\ MigrationInv'
      BY <1>1, <1>2, <1>3, <2>1, <2>4, <3>1 DEF TypeOK, CallSet, MigrationInv, SchemaWhole
    <3> QED BY <1>1, <1>2, <1>3, <1>4, <2>1, <3>1, <3>2 DEF RepositoryInv, PoolInv, AllEnforce
  <2> QED BY <2>2, <2>3, <2>4
<1> QED BY <1>5, <1>6, <1>7

(* The invariant holds of an empty database and every step keeps it. *)
LEMMA RepositoryInvariant == Spec => []RepositoryInv
<1>1. Init => RepositoryInv
  <2> SUFFICES ASSUME Init PROVE RepositoryInv
    OBVIOUS
  <2>1. \A k \in Clients : ~ Running(k)
    BY DEF Init, Running
  <2>2. TypeOK
    BY <2>1, SchemaAssumption DEF Init, TypeOK
  <2>3. MigrationInv /\ PoolInv
    BY <2>1, SchemaAssumption DEF Init, MigrationInv, SchemaWhole, PoolInv
  <2>4. RowsInv /\ CallsInv
    BY <2>1 DEF Init, RowsInv, Known, Single, Matched, Certificates, CallsInv
  <2> QED BY <2>2, <2>3, <2>4 DEF RepositoryInv
<1>2. RepositoryInv /\ [Next]_vars => RepositoryInv'
  <2> SUFFICES ASSUME RepositoryInv, [Next]_vars PROVE RepositoryInv'
    OBVIOUS
  <2>1. ASSUME Open \/ Validate \/ Migrate PROVE RepositoryInv'
    BY <2>1, StartKeeps
  <2>2. ASSUME Crash PROVE RepositoryInv'
    <3>1. /\ UNCHANGED <<kind, made, db, issued, mixed>> /\ stage' = [at |-> "down", next |-> 0]
          /\ pool' = [c \in Conns |-> "closed"] /\ call' = [k \in Clients |-> None]
      BY <2>2 DEF Crash, rowVars
    <3>2. \A k \in Clients : ~ Running(k)'
      BY <3>1 DEF Running
    <3>3. call' \in [Clients -> {None} \cup CallSet]
      BY <3>1
    <3>4. RowsInv' /\ CallsInv'
      BY <3>1, <3>2, <3>3, EndKeeps
    <3>5. TypeOK'
      BY <3>1, <3>2, <3>3, SchemaAssumption DEF RepositoryInv, TypeOK
    <3>6. MigrationInv' /\ PoolInv'
      BY <3>1, <3>2 DEF RepositoryInv, MigrationInv, SchemaWhole, PoolInv
    <3> QED BY <3>4, <3>5, <3>6 DEF RepositoryInv
  <2>3. ASSUME NEW k \in Clients, Call(k) PROVE RepositoryInv'
    <3>1. PICK fn : Connect(k, fn) /\ Begins(fn)
      BY <2>3 DEF Call, Insert, Begins
    <3> QED BY <3>1, CallKeeps
  <2>4. ASSUME NEW k \in Clients, Statement(k) PROVE RepositoryInv'
    BY <2>4, StatementKeeps
  <2>5. ASSUME NEW k \in Clients, Commit(k) PROVE RepositoryInv'
    BY <2>5, CommitKeeps
  <2>6. ASSUME NEW k \in Clients, Fail(k) PROVE RepositoryInv'
    <3>1. /\ UNCHANGED <<kind, stage, made, pool, db, issued, mixed>>
          /\ call' \in [Clients -> {None} \cup CallSet]
          /\ \A h \in Clients : call'[h] = None \/ call'[h] = call[h]
      BY <2>6 DEF Fail, rowVars, RepositoryInv, TypeOK
    <3>2. \A h \in Clients : Running(h)' => call'[h] = call[h] /\ Running(h)
      BY <3>1 DEF Running
    <3>3. /\ RowsInv' /\ CallsInv'
          /\ \A h \in Clients : Running(h)' => call'[h].at <= Length(call'[h].fn) /\ call'[h].del \subseteq db
      BY <3>1, <3>2, EndKeeps
    <3>4. TypeOK'
      BY <3>1, <3>3 DEF RepositoryInv, TypeOK
    <3>5. MigrationInv' /\ PoolInv'
      BY <3>1, <3>2 DEF RepositoryInv, MigrationInv, SchemaWhole, PoolInv, AllEnforce
    <3> QED BY <3>3, <3>4, <3>5 DEF RepositoryInv
  <2>7. CASE UNCHANGED vars
    BY <2>7 DEF vars, rowVars, RepositoryInv, TypeOK, MigrationInv, SchemaWhole, PoolInv, AllEnforce,
                RowsInv, CallsInv, Running
  <2> QED BY <2>1, <2>2, <2>3, <2>4, <2>5, <2>6, <2>7 DEF Next
<1> QED BY <1>1, <1>2, PTL DEF Spec

-----------------------------------------------------------------------------
(* References. *)

Referred(d) == \A r \in d : Parent(r) = None \/ Parent(r) \in Keys(d)

(* What is committed over a connection that enforces refers to what is there. *)
LEMMA CommitRefers ==
  ASSUME NEW c, NEW d, NEW i, NEW of, Shape(c, d, i, "enforcing", of), c.at = Length(c.fn),
         c.at \in {0, 1, 2, 3}, d \subseteq RowSet, c.add \subseteq RowSet, Referred(d),
         c.fn.do = "InsertMeasurement" => <<"monitor", c.fn.val>> \in Keys(d)
  PROVE  Referred(After(c, d))
<1> DEFINE n == After(c, d)
<1> SUFFICES ASSUME NEW r \in n, Parent(r) # None PROVE Parent(r) \in Keys(n)
  BY DEF Referred
<1>1. MonitorRow(c.fn.id, c.fn.val).table = "monitor" /\ MonitorRow(c.fn.id, c.fn.val).id = c.fn.id
  BY RowFacts
<1>2. MeasurementRow(c.fn.id, c.fn.val).table = "measurement" /\ MeasurementRow(c.fn.id, c.fn.val).id = c.fn.id
  BY RowFacts
<1>3. c.fn.do = "UpdateMonitor" /\ Of(d, "monitor", c.fn.id) # {} => MonitorRow(c.fn.id, c.fn.val) \in n
  <2>1. c.fn.do = "UpdateMonitor" => Replaced(c.fn, d) \subseteq n
    BY DoneFacts DEF After
  <2> QED BY <2>1 DEF Replaced
<1>4. MonitorRow(c.fn.id, c.fn.val) \in n => <<"monitor", c.fn.id>> \in Keys(n)
  BY <1>1 DEF Keys, Key
<1>5. CASE r \in c.add
  <2>1. r \in RowSet
    BY <1>5
  <2>2. CASE r.table = "event"
    <3>1. /\ Parent(r) = <<"monitor", c.fn.id>> /\ c.fn.val \notin Plain
          /\ c.fn.do \in {"InsertMonitor", "UpdateMonitor"}
      BY <1>5, <2>1, <2>2, AddFacts, ParentFacts
    <3>2. CASE c.fn.do = "InsertMonitor"
      BY <1>4, <3>1, <3>2, DoneFacts DEF After
    <3>3. CASE c.fn.do = "UpdateMonitor"
      <4>1. c.at = 3 /\ Updating(c, d, i, "enforcing", of)
        BY <3>1, <3>3, DoneFacts
      <4>2. Of(d, "monitor", c.fn.id) # {}
        BY <4>1 DEF Updating
      <4> QED BY <1>3, <1>4, <3>1, <3>3, <4>2
    <3> QED BY <3>1, <3>2, <3>3
  <2>3. CASE r.table = "measurement"
    <3>1. Parent(r) = <<"monitor", c.fn.val>> /\ c.fn.do = "InsertMeasurement"
      BY <1>5, <2>1, <2>3, AddFacts, ParentFacts
    <3>2. c.del = {}
      BY <3>1, DoneFacts
    <3> QED BY <3>1, <3>2 DEF After, Keys
  <2>4. CASE r.table = "certificate"
    <3>1. Parent(r) = <<"measurement", c.fn.id>> /\ c.fn.do = "InsertMeasurement"
      BY <1>5, <2>1, <2>4, AddFacts, ParentFacts
    <3>2. MeasurementRow(c.fn.id, c.fn.val) \in n
      BY <3>1, DoneFacts DEF After
    <3> QED BY <1>2, <3>1, <3>2 DEF Keys, Key
  <2> QED BY <2>1, <2>2, <2>3, <2>4, ParentFacts
<1>6. CASE r \notin c.add
  <2>1. r \in d /\ r \notin c.del /\ r \in RowSet
    BY <1>6 DEF After
  <2>2. PICK s \in d : Key(s) = Parent(r)
    BY <2>1 DEF Referred, Keys
  <2>3. CASE s \notin c.del
    BY <2>2, <2>3 DEF After, Keys
  <2>4. CASE s \in c.del
    <3>1. CASE r.table \in {"event", "measurement"}
      <4> DEFINE m == IF r.table = "event" THEN r.id ELSE r.val
      <4>1. Parent(r) = <<"monitor", m>> /\ s.table = "monitor" /\ s.id = m
        BY <2>1, <2>2, <3>1, ParentFacts DEF Key
      <4>2. s \in Of(d, "monitor", m)
        BY <4>1 DEF Of
      <4>3. c.fn.id = m /\ c.fn.do \in {"UpdateMonitor", "DeleteMonitor"}
        BY <2>4, <4>1, DelFacts
      <4>4. CASE c.fn.do = "DeleteMonitor"
        <5>1. c.del = Doomed(c.fn, d, "enforcing")
          BY <4>4, DoneFacts DEF Deletes
        <5>2. Of(d, "event", m) \cup Measured(d, m) \subseteq c.del
          BY <4>2, <4>3, <4>4, <5>1 DEF Doomed
        <5> QED BY <2>1, <3>1, <5>2 DEF Of, Measured
      <4>5. CASE c.fn.do = "UpdateMonitor"
        BY <1>3, <1>4, <4>1, <4>2, <4>3, <4>5
      <4> QED BY <4>3, <4>4, <4>5
    <3>2. CASE r.table = "certificate"
      <4>1. Parent(r) = <<"measurement", r.id>> /\ s.table = "measurement" /\ s.id = r.id
        BY <2>1, <2>2, <3>2, ParentFacts DEF Key
      <4>2. \/ c.fn.do = "DeleteMonitor" /\ s.val = c.fn.id
            \/ c.fn.do = "DeleteMeasurement" /\ s.id = c.fn.id
        BY <2>4, <4>1, DelFacts
      <4>3. c.del = Doomed(c.fn, d, "enforcing")
        BY <4>2, DoneFacts DEF Deletes
      <4>4. CASE c.fn.do = "DeleteMonitor" /\ s.val = c.fn.id
        <5>1. s \notin Of(d, "monitor", c.fn.id)
          BY <4>1 DEF Of
        <5>2. Of(d, "monitor", c.fn.id) # {}
          BY <2>4, <4>3, <4>4, <5>1 DEF Doomed
        <5>3. r \in Certified(d, c.fn.id)
          BY <2>1, <3>2, <4>1, <4>4 DEF Certified, Measured
        <5> QED BY <2>1, <4>3, <4>4, <5>2, <5>3 DEF Doomed
      <4>5. CASE c.fn.do = "DeleteMeasurement" /\ s.id = c.fn.id
        <5>1. Of(d, "measurement", c.fn.id) # {} /\ r \in Of(d, "certificate", c.fn.id)
          BY <2>1, <3>2, <4>1, <4>5 DEF Of
        <5> QED BY <2>1, <4>3, <4>5, <5>1 DEF Doomed
      <4> QED BY <4>2, <4>4, <4>5
    <3> QED BY <2>1, <3>1, <3>2, ParentFacts
  <2> QED BY <2>3, <2>4
<1> QED BY <1>5, <1>6

(* The monitor of a measurement that is being stored is not taken away: a delete waits
   for the row that refers to it. *)
LEMMA MeasuredStays ==
  ASSUME NEW c, NEW e, NEW d, NEW i, NEW p, NEW q, NEW of, Committing(c, e, d, i, p, q, of),
         e.fn.do = "InsertMeasurement", e.at # 0, <<"monitor", e.fn.val>> \in Keys(d),
         e.add \subseteq RowSet
  PROVE  <<"monitor", e.fn.val>> \in Keys(After(c, d))
<1>1. PICK s \in d : Key(s) = <<"monitor", e.fn.val>>
  BY DEF Keys
<1>2. s.table = "monitor" /\ s.id = e.fn.val
  BY <1>1 DEF Key
<1>3. CASE s \notin c.del
  BY <1>1, <1>3 DEF After, Keys
<1>4. CASE s \in c.del
  <2>1. c.fn.id = e.fn.val /\ c.fn.do \in {"UpdateMonitor", "DeleteMonitor"}
    BY <1>2, <1>4, DelFacts DEF Committing
  <2>2. CASE c.fn.do = "UpdateMonitor"
    <3>1. s \in Of(d, "monitor", c.fn.id)
      BY <1>2, <2>1 DEF Of
    <3>2. MonitorRow(c.fn.id, c.fn.val) \in After(c, d)
      BY <2>2, <3>1, DoneFacts DEF Committing, Replaced, After
    <3>3. MonitorRow(c.fn.id, c.fn.val).table = "monitor" /\ MonitorRow(c.fn.id, c.fn.val).id = e.fn.val
      BY <2>1, RowFacts
    <3> QED BY <3>2, <3>3 DEF Keys, Key
  <2>3. CASE c.fn.do = "DeleteMonitor"
    <3>1. Measuring(e, i) /\ e.at \in {1, 2, 3} /\ e.at <= 2
      BY LengthFacts DEF Committing, Shape, Inserting, Updating, Deleting
    <3> DEFINE r == MeasurementRow(e.fn.id, e.fn.val)
    <3>2. r \in e.add
      <4>1. e.at \in {1, 2}
        BY <3>1
      <4> QED BY <3>1, <4>1 DEF Measuring
    <3>3. r \in RowSet /\ r.table = "measurement" /\ r.val = e.fn.val
      BY <3>2, RowFacts
    <3> HIDE DEF r
    <3>4. Parent(r) = <<"monitor", e.fn.val>>
      BY <3>3, ParentFacts
    <3>5. Parent(r) \notin Left(c.del, c.add)
      BY <3>2 DEF Committing, Apart
    <3>6. c.add = {}
      BY <2>3, DoneFacts DEF Committing, Deletes
    <3> QED BY <1>1, <1>4, <3>4, <3>5, <3>6 DEF Left, Keys
  <2> QED BY <2>1, <2>2, <2>3
<1> QED BY <1>3, <1>4

(* A measurement is only written where the monitor is. *)
LEMMA StatementRefers ==
  ASSUME RepositoryInv, NEW k \in Clients, Statement(k), pool[call[k].conn] = "enforcing",
         call[k].fn.do = "InsertMeasurement", call[k].at = 0
  PROVE  <<"monitor", call[k].fn.val>> \in Keys(db)
<1>1. Running(k) /\ ~ Refuses(k) /\ Shape(call[k], db, issued, pool[call[k].conn], kind)
  BY DEF Statement, MoreToDo, RepositoryInv, CallsInv
<1>2. Measuring(call[k], issued)
  BY <1>1 DEF Shape, Inserting, Updating, Deleting
<1>3. New(k) = {MeasurementRow(call[k].fn.id, call[k].fn.val)}
  BY <1>1, StatementOfOthers, CallFacts DEF RepositoryInv
<1> DEFINE r == MeasurementRow(call[k].fn.id, call[k].fn.val)
<1>4. r \in RowSet /\ r.table = "measurement" /\ r.val = call[k].fn.val
  BY <1>2, RowFacts DEF Measuring, RowSet, TableSet
<1>5. r \in New(k)
  BY <1>3
<1> HIDE DEF r
<1>6. Parent(r) = <<"monitor", call[k].fn.val>> /\ Parent(r) # None
  BY <1>2, <1>4, ParentFacts, NoneAssumption DEF KeySet, TableSet, Measuring
<1>7. Parent(r) \in Keys((db \ call[k].del) \cup call[k].add)
  BY <1>1, <1>5, <1>6 DEF Refuses, Enforcing
<1>8. (db \ call[k].del) \cup call[k].add = db
  BY <1>2 DEF Measuring
<1> QED BY <1>6, <1>7, <1>8

(* The invariant of the references holds of an empty database and every step keeps it. *)
LEMMA RefsInvariant == Spec => []RefsInv
<1>1. Init => RefsInv
  BY DEF Init, RefsInv, Running
<1>2. RepositoryInv /\ RefsInv /\ [Next]_vars => RefsInv'
  <2> SUFFICES ASSUME RepositoryInv, RefsInv, [Next]_vars, AllEnforce'
               PROVE  /\ Referred(db')
                      /\ \A k \in Clients : Running(k)' /\ call'[k].fn.do = "InsertMeasurement" /\ call'[k].at # 0 =>
                           <<"monitor", call'[k].fn.val>> \in Keys(db')
    BY DEF RefsInv, Referred
  <2>1. kind' = kind
    BY DEF Next, Open, Validate, Migrate, MigrateStep, MigrateAtOnce, Crash, Call, Insert, Connect,
           Statement, Executed, Commit, Fail, vars
  <2>2. /\ AllEnforce /\ Referred(db)
        /\ \A k \in Clients : Running(k) /\ call[k].fn.do = "InsertMeasurement" /\ call[k].at # 0 =>
             <<"monitor", call[k].fn.val>> \in Keys(db)
    BY <2>1 DEF RefsInv, Referred, AllEnforce
  <2>3. CASE db' = db /\ \A k \in Clients : Running(k)' => call'[k] = call[k]
    BY <2>2, <2>3 DEF Running
  <2>4. CASE UNCHANGED vars
    BY <2>3, <2>4 DEF vars
  <2>5. CASE Open \/ Validate \/ Migrate
    <3>1. db' = db /\ call' = call
      BY <2>5 DEF Open, Validate, Migrate, MigrateStep, MigrateAtOnce, rowVars
    <3> QED BY <2>3, <3>1
  <2>6. CASE Crash
    <3>1. db' = db /\ \A k \in Clients : ~ Running(k)'
      BY <2>6 DEF Crash, rowVars, Running
    <3> QED BY <2>3, <3>1
  <2>7. CASE \E k \in Clients : Fail(k)
    <3>1. db' = db /\ \A k \in Clients : Running(k)' => call'[k] = call[k]
      BY <2>7 DEF Fail, rowVars, Running, RepositoryInv, TypeOK
    <3> QED BY <2>3, <3>1
  <2>8. ASSUME NEW k \in Clients, NEW fn, Connect(k, fn)
        PROVE  /\ db' = db /\ call'[k].at = 0
               /\ \A h \in Clients \ {k} : call'[h] = call[h]
    BY <2>8 DEF Connect, rowVars, RepositoryInv, TypeOK
  <2>9. CASE \E k \in Clients : Call(k)
    <3>1. PICK k \in Clients : \E fn : Connect(k, fn)
      BY <2>9 DEF Call, Insert
    <3>2. db' = db /\ call'[k].at = 0 /\ \A h \in Clients \ {k} : call'[h] = call[h]
      BY <2>8, <3>1
    <3> QED BY <2>2, <3>2 DEF Running
  <2>10. ASSUME NEW k \in Clients, Statement(k)
         PROVE  /\ Referred(db')
                /\ \A h \in Clients : Running(h)' /\ call'[h].fn.do = "InsertMeasurement" /\ call'[h].at # 0 =>
                     <<"monitor", call'[h].fn.val>> \in Keys(db')
    <3>1. Running(k) /\ Executed(k) /\ db' = db
      BY <2>10 DEF Statement, MoreToDo, Executed, rowVars
    <3>2. call'[k].fn = call[k].fn /\ \A h \in Clients \ {k} : call'[h] = call[h]
      BY <3>1, ExecutedFacts DEF RepositoryInv
    <3>3. pool[call[k].conn] = "enforcing"
      BY <2>2, <3>1, ConnFacts
    <3>4. call[k].fn.do = "InsertMeasurement" => <<"monitor", call[k].fn.val>> \in Keys(db)
      BY <2>2, <2>10, <3>1, <3>3, StatementRefers
    <3>5. ASSUME NEW h \in Clients, Running(h)', call'[h].fn.do = "InsertMeasurement", call'[h].at # 0
          PROVE  <<"monitor", call'[h].fn.val>> \in Keys(db')
      <4>1. CASE h = k
        BY <3>1, <3>2, <3>4, <3>5, <4>1
      <4>2. CASE h # k
        BY <2>2, <3>1, <3>2, <3>5, <4>2 DEF Running
      <4> QED BY <4>1, <4>2
    <3> QED BY <2>2, <3>1, <3>5
  <2>11. ASSUME NEW k \in Clients, Commit(k)
         PROVE  /\ Referred(db')
                /\ \A h \in Clients : Running(h)' /\ call'[h].fn.do = "InsertMeasurement" /\ call'[h].at # 0 =>
                     <<"monitor", call'[h].fn.val>> \in Keys(db')
    <3>1. /\ Running(k) /\ call[k].at = Length(call[k].fn) /\ db' = After(call[k], db)
          /\ Shape(call[k], db, issued, pool[call[k].conn], kind)
      BY <2>11, CommitFacts
    <3>2. /\ call[k].at \in {0, 1, 2, 3} /\ call[k].add \subseteq RowSet /\ db \subseteq RowSet
          /\ pool[call[k].conn] = "enforcing"
      BY <2>2, <3>1, CallFacts, ConnFacts DEF RepositoryInv
    <3>3. call[k].fn.do = "InsertMeasurement" => <<"monitor", call[k].fn.val>> \in Keys(db)
      <4>1. call[k].at # 0
        BY <3>1 DEF Length
      <4> QED BY <2>2, <3>1, <4>1
    <3>4. Referred(db')
      <4> DEFINE c == call[k]
                 conn == pool[call[k].conn]
      <4>1. Shape(c, db, issued, conn, kind) /\ conn = "enforcing"
        BY <3>1, <3>2
      <4> HIDE DEF c, conn
      <4>2. Shape(c, db, issued, "enforcing", kind)
        BY <4>1
      <4> QED BY <2>2, <3>1, <3>2, <3>3, <4>2, CommitRefers DEF c
    <3>5. ASSUME NEW h \in Clients, Running(h)', call'[h].fn.do = "InsertMeasurement", call'[h].at # 0
          PROVE  <<"monitor", call'[h].fn.val>> \in Keys(db')
      <4>1. /\ Running(h)
            /\ Committing(call[k], call[h], db, issued, pool[call[k].conn], pool[call[h].conn], kind)
        BY <2>11, <3>5, CommitFacts
      <4>2. PICK b \in BOOLEAN : call'[h] = [call[h] EXCEPT !.crossed = b]
        BY <2>11, <3>5, CommitFacts
      <4>3. call[h] \in CallSet /\ call[h].add \subseteq RowSet
        BY <4>1, CallFacts DEF RepositoryInv
      <4>4. call'[h].fn = call[h].fn /\ call'[h].at = call[h].at
        BY <4>2, <4>3, CrossedFacts
      <4>5. <<"monitor", call[h].fn.val>> \in Keys(db)
        BY <2>2, <3>5, <4>1, <4>4
      <4> QED BY <3>1, <3>5, <4>1, <4>3, <4>4, <4>5, MeasuredStays
    <3> QED BY <3>4, <3>5
  <2> QED BY <2>4, <2>5, <2>6, <2>7, <2>9, <2>10, <2>11 DEF Next
<1> QED BY <1>1, <1>2, RepositoryInvariant, PTL DEF Spec

-----------------------------------------------------------------------------
(* The theorems. *)

(* Every variable keeps its type, and a transaction takes away only what is there
   until it is committed, whatever other callers commit in between. *)
THEOREM TypeCorrect == Spec => []TypeOK
<1>1. RepositoryInv => TypeOK
  BY DEF RepositoryInv
<1> QED BY <1>1, RepositoryInvariant, PTL

(* Several statements are seen as a whole: the row of a monitor with its events, the
   measurement with its certificates, the schema with all its tables, in both
   databases; but for the events that overlapping updates of PostgreSQL leave. *)
THEOREM WholeInBothDatabases == Spec => []WrittenAsAWhole
<1>1. RepositoryInv => WrittenAsAWhole
  BY RowsOfDb DEF RepositoryInv, MigrationInv, WrittenAsAWhole
<1> QED BY <1>1, RepositoryInvariant, PTL

(* No row is left without what it refers to, where all connections enforce foreign
   keys: on PostgreSQL, and on SQLite if the pool has one connection. *)
THEOREM NoOrphansIfEnforced == Spec => []NoOrphans
<1>1. RefsInv => NoOrphans
  BY DEF RefsInv, NoOrphans
<1> QED BY <1>1, RefsInvariant, PTL

-----------------------------------------------------------------------------
(* The repository implements the store. *)

(* The rows of the store. *)
LEMMA StoreRows ==
  /\ \A table, id : Promise!Of(table, id) = Of(db, table, id)
  /\ \A m, v : Promise!Monitor(m, v) = MonitorRow(m, v) /\ Promise!Written(m, v) = EventRows(m, v)
  /\ \A i, m : Promise!Measurement(i, m) = MeasurementRow(i, m) /\ Promise!Certificate(i) = CertificateRow(i)
BY DEF Promise!Of, Of, Promise!Monitor, MonitorRow, Promise!Written, EventRows, Promise!Event,
       Promise!Measurement, MeasurementRow, Promise!Certificate, CertificateRow, Row

(* A transaction that is committed is one function of the store: strict if its
   connection enforces foreign keys. *)
LEMMA CommitServes ==
  ASSUME RepositoryInv, RefsInv, NEW k \in Clients, Commit(k)
  PROVE  Promise!Serves
<1> DEFINE c == call[k]
           fn == call[k].fn
           conn == pool[call[k].conn]
<1>1. /\ Running(k) /\ c.at = Length(fn) /\ db' = (db \ c.del) \cup c.add
      /\ issued' = (IF fn.do \in Inserts THEN issued \cup {Target(fn)} ELSE issued)
      /\ Shape(c, db, issued, conn, kind)
  BY CommitFacts DEF After, Issued
<1>2. conn \in {"bare", "enforcing"} /\ (AllEnforce => conn = "enforcing") /\ (kind = "SQLite" \/ kind = "PostgreSQL")
  BY <1>1, ConnFacts
<1>3. c.del \subseteq db /\ fn.do \in {"InsertMonitor", "UpdateMonitor", "InsertMeasurement",
                                       "DeleteMonitor", "DeleteMeasurement"}
  BY <1>1, CallFacts DEF RepositoryInv
<1>4. PICK strict \in {b \in BOOLEAN : AllEnforce => b} : strict <=> conn = "enforcing"
  <2>1. (conn = "enforcing") \in {b \in BOOLEAN : AllEnforce => b}
    BY <1>2
  <2> QED BY <2>1
<1>5. CASE fn.do = "InsertMonitor"
  <2>1. Inserting(c, issued) /\ c.add = {MonitorRow(fn.id, fn.val)} \cup EventRows(fn.id, fn.val) /\ c.del = {}
    BY <1>1, <1>5, DoneFacts
  <2>2. Target(fn) = <<"monitor", fn.id>>
    BY <1>5, TargetFacts
  <2>3. fn.id \in Monitors /\ fn.val \in Versions /\ <<"monitor", fn.id>> \notin issued
    BY <2>1 DEF Inserting
  <2>4. issued' = issued \cup {<<"monitor", fn.id>>}
    BY <1>1, <1>5, <2>2 DEF Inserts
  <2>5. db' = db \cup {MonitorRow(fn.id, fn.val)} \cup EventRows(fn.id, fn.val)
    BY <1>1, <2>1
  <2>6. Promise!InsertMonitor(fn.id, fn.val)
    BY <2>3, <2>4, <2>5, StoreRows DEF Promise!InsertMonitor
  <2> QED BY <2>3, <2>6 DEF Promise!Serves
<1>6. CASE fn.do = "UpdateMonitor"
  <2>1. /\ Updating(c, db, issued, conn, kind) /\ c.add = Replaced(fn, db) \cup EventRows(fn.id, fn.val)
        /\ Of(db, "monitor", fn.id) \subseteq c.del /\ c.at \in {2, 3}
        /\ (kind = "SQLite" \/ ~ c.crossed => Of(db, "event", fn.id) \subseteq c.del)
        /\ (c.at = 2 => fn.val \in Plain)
    BY <1>1, <1>6, DoneFacts
  <2>2. /\ fn.id \in Monitors /\ fn.val \in Versions /\ <<"monitor", fn.id>> \in issued
        /\ \A r \in c.del : r.table \in {"monitor", "event"} /\ r.id = fn.id
        /\ c.at = 3 /\ conn = "enforcing" => Of(db, "monitor", fn.id) # {}
    BY <2>1 DEF Updating
  <2>3. issued' = issued
    BY <1>1, <1>6 DEF Inserts
  <2>4. strict => Of(db, "monitor", fn.id) # {} \/ fn.val \in Plain
    BY <1>4, <2>1, <2>2
  <2> DEFINE left == Of(db, "event", fn.id) \ c.del
  <2>5. left \in SUBSET Of(db, "event", fn.id) /\ (kind = "SQLite" => left = {})
    BY <2>1
  <2>6. c.del = Of(db, "monitor", fn.id) \cup (Of(db, "event", fn.id) \ left)
    <3>1. \A r \in c.del : r \in db /\ r.table \in {"monitor", "event"} /\ r.id = fn.id
      BY <1>3, <2>2
    <3>2. c.del \subseteq Of(db, "monitor", fn.id) \cup Of(db, "event", fn.id)
      BY <3>1 DEF Of
    <3> QED BY <2>1, <3>2
  <2> HIDE DEF left
  <2>7. db' = (db \ (Of(db, "monitor", fn.id) \cup (Of(db, "event", fn.id) \ left)))
              \cup (IF Of(db, "monitor", fn.id) = {} THEN {} ELSE {MonitorRow(fn.id, fn.val)})
              \cup EventRows(fn.id, fn.val)
    BY <1>1, <2>1, <2>6 DEF Replaced
  <2>8. Promise!UpdateMonitor(fn.id, fn.val, strict)
    BY <2>2, <2>3, <2>4, <2>5, <2>7, StoreRows DEF Promise!UpdateMonitor
  <2> QED BY <1>4, <2>2, <2>8 DEF Promise!Serves
<1>7. CASE fn.do = "InsertMeasurement"
  <2>1. Measuring(c, issued) /\ c.add = {MeasurementRow(fn.id, fn.val), CertificateRow(fn.id)} /\ c.del = {} /\ c.at = 2
    BY <1>1, <1>7, DoneFacts
  <2>2. Target(fn) = <<"measurement", fn.id>>
    BY <1>7, TargetFacts
  <2>3. /\ fn.id \in Measurements /\ fn.val \in Monitors
        /\ <<"measurement", fn.id>> \notin issued /\ <<"monitor", fn.val>> \in issued
    BY <2>1 DEF Measuring
  <2>4. issued' = issued \cup {<<"measurement", fn.id>>}
    BY <1>1, <1>7, <2>2 DEF Inserts
  <2>5. db' = db \cup {MeasurementRow(fn.id, fn.val), CertificateRow(fn.id)}
    BY <1>1, <2>1
  <2>6. AllEnforce => Of(db, "monitor", fn.val) # {}
    <3>1. AllEnforce => <<"monitor", fn.val>> \in Keys(db)
      BY <1>1, <1>7, <2>1 DEF RefsInv
    <3> QED BY <3>1, KeyFacts
  <2>7. PICK b \in {x \in BOOLEAN : AllEnforce => x} : b <=> AllEnforce
    <3>1. AllEnforce \in {x \in BOOLEAN : AllEnforce => x}
      BY DEF AllEnforce
    <3> QED BY <3>1
  <2>8. Promise!InsertMeasurement(fn.id, fn.val, b)
    BY <2>3, <2>4, <2>5, <2>6, <2>7, StoreRows DEF Promise!InsertMeasurement
  <2> QED BY <2>3, <2>7, <2>8 DEF Promise!Serves
<1>8. CASE fn.do \in Deletes
  <2>1. Deleting(c, db, issued, conn) /\ c.del = Doomed(fn, db, conn) /\ c.add = {}
    BY <1>1, <1>8, DoneFacts
  <2>2. issued' = issued
    BY <1>1, <1>8 DEF Inserts, Deletes
  <2>3. db' = db \ Doomed(fn, db, conn)
    BY <1>1, <2>1
  <2>4. CASE fn.do = "DeleteMonitor"
    <3>1. fn.id \in Monitors
      BY <2>1, <2>4 DEF Deleting
    <3>2. Measured(db, fn.id) = {r \in db : r.table = "measurement" /\ r.val = fn.id}
      BY DEF Measured
    <3>3. Certified(db, fn.id) = {r \in db : r.table = "certificate" /\ \E s \in Measured(db, fn.id) : s.id = r.id}
      BY DEF Certified
    <3>4. db' = db \ (Of(db, "monitor", fn.id)
                      \cup (IF strict /\ Of(db, "monitor", fn.id) # {}
                            THEN Of(db, "event", fn.id) \cup Measured(db, fn.id) \cup Certified(db, fn.id) ELSE {}))
      BY <1>4, <2>3, <2>4 DEF Doomed
    <3>5. Promise!DeleteMonitor(fn.id, strict)
      BY <2>2, <3>2, <3>3, <3>4, StoreRows DEF Promise!DeleteMonitor
    <3> QED BY <1>4, <3>1, <3>5 DEF Promise!Serves
  <2>5. CASE fn.do # "DeleteMonitor"
    <3>1. fn.id \in Measurements
      BY <2>1, <2>5 DEF Deleting
    <3>2. db' = db \ (Of(db, "measurement", fn.id)
                      \cup (IF strict /\ Of(db, "measurement", fn.id) # {}
                            THEN Of(db, "certificate", fn.id) ELSE {}))
      BY <1>4, <2>3, <2>5 DEF Doomed
    <3>3. Promise!DeleteMeasurement(fn.id, strict)
      BY <2>2, <3>2, StoreRows DEF Promise!DeleteMeasurement
    <3> QED BY <1>4, <3>1, <3>3 DEF Promise!Serves
  <2> QED BY <2>4, <2>5
<1> QED BY <1>3, <1>5, <1>6, <1>7, <1>8 DEF Deletes

(* Callers cannot tell the repository from Store, in either database and with any
   number of connections: each transaction is one step of the store when it is
   committed, and every other step, a crash or a failure included, is none. *)
THEOREM RepositoryImplementsStore == Spec => ImplementsStore
<1>1. Init => Promise!StoreInit
  BY DEF Init, Promise!StoreInit, AllEnforce
<1>2. RepositoryInv /\ RefsInv /\ [Next]_vars => [Promise!Serves /\ UNCHANGED <<AllEnforce, kind = "SQLite">>]_(Promise!storeVars)
  <2> SUFFICES ASSUME RepositoryInv, RefsInv, [Next]_vars
               PROVE  \/ Promise!Serves /\ AllEnforce' = AllEnforce /\ (kind = "SQLite")' = (kind = "SQLite")
                      \/ UNCHANGED <<AllEnforce, kind = "SQLite", db, issued>>
    BY DEF Promise!storeVars
  <2>1. kind' = kind
    BY DEF Next, Open, Validate, Migrate, MigrateStep, MigrateAtOnce, Crash, Call, Insert, Connect,
           Statement, Executed, Commit, Fail, vars
  <2>2. AllEnforce' = AllEnforce /\ (kind = "SQLite")' = (kind = "SQLite")
    BY <2>1 DEF AllEnforce
  <2>3. CASE \E k \in Clients : Commit(k)
    BY <2>2, <2>3, CommitServes
  <2>4. CASE ~ \E k \in Clients : Commit(k)
    <3>1. db' = db /\ issued' = issued
      BY <2>4 DEF Next, Open, Validate, Migrate, MigrateStep, MigrateAtOnce, Crash, Call, Insert, Connect,
                  Statement, Executed, Fail, vars, rowVars
    <3> QED BY <2>2, <3>1
  <2> QED BY <2>3, <2>4
<1> QED BY <1>1, <1>2, RepositoryInvariant, RefsInvariant, PTL DEF Spec, ImplementsStore, Promise!StoreSpec

-----------------------------------------------------------------------------
(* Queries. *)

(* What a builder holds. *)
Values == Ids \cup {"active", "kind", "after", "before", "username", "time", "hash", "id", "measurements"}
Mark == [n : Nat, val : Values]
Word == {"WHERE", "AND"}
Query == [marks : Seq(Mark), words : Seq(Word), args : Seq(Values)]
Builder == [style : {"number", "question"}, count : Nat, marks : Seq(Mark), words : Seq(Word),
            args : Seq(Values), where : Word, sent : Seq(Query)]

(* The n-th mark is bound to the n-th argument, and says so if marks are numbered. *)
MarksBound(style, marks, args) ==
  /\ Len(marks) = Len(args)
  /\ \A k \in 1 .. Len(marks) :
       marks[k].val = args[k] /\ marks[k].n = IF style = "number" THEN k ELSE 0

(* The marks m are for the values vals, after n others. *)
MarksFor(style, m, vals, n) ==
  /\ m \in Seq(Mark) /\ Len(m) = Len(vals)
  /\ \A k \in 1 .. Len(m) : m[k].val = vals[k] /\ m[k].n = IF style = "number" THEN n + k ELSE 0

(* One WHERE, and then AND. *)
WordsJoin(words) == \A k \in 1 .. Len(words) : words[k] = IF k = 1 THEN "WHERE" ELSE "AND"

(* What has been written and what has been sent is right, the next mark has the number
   of the next argument, and, if any call may follow, the next word is the right one. *)
Good(b, rest) ==
  /\ b \in Builder
  /\ MarksBound(b.style, b.marks, b.args)
  /\ b.style = "number" => b.count = Len(b.args) + 1
  /\ WordsJoin(b.words)
  /\ rest = "any" => b.where = IF Len(b.words) = 0 THEN "WHERE" ELSE "AND"
  /\ \A j \in 1 .. Len(b.sent) :
       MarksBound(b.style, b.sent[j].marks, b.sent[j].args) /\ WordsJoin(b.sent[j].words)

(* Marks and arguments that are added in step stay so. *)
LEMMA MarksAdded ==
  ASSUME NEW style \in {"number", "question"}, NEW marks \in Seq(Mark), NEW args \in Seq(Values),
         MarksBound(style, marks, args),
         NEW m \in Seq(Mark), NEW vals \in Seq(Values), MarksFor(style, m, vals, Len(args))
  PROVE  MarksBound(style, marks \o m, args \o vals)
<1>1. /\ Len(marks \o m) = Len(marks) + Len(m)
      /\ \A k \in 1 .. Len(marks) + Len(m) : (marks \o m)[k] = IF k <= Len(marks) THEN marks[k] ELSE m[k - Len(marks)]
  BY ConcatProperties
<1>2. /\ Len(args \o vals) = Len(args) + Len(vals)
      /\ \A k \in 1 .. Len(args) + Len(vals) : (args \o vals)[k] = IF k <= Len(args) THEN args[k] ELSE vals[k - Len(args)]
  BY ConcatProperties
<1>3. Len(marks) = Len(args) /\ Len(args) \in Nat /\ Len(m) \in Nat /\ Len(m) = Len(vals)
  BY DEF MarksBound, MarksFor
<1>4. PICK ms, as : ms = marks \o m /\ as = args \o vals
  OBVIOUS
<1>5. ASSUME NEW k \in 1 .. Len(marks) + Len(m)
      PROVE  ms[k].val = as[k] /\ ms[k].n = IF style = "number" THEN k ELSE 0
  <2>1. CASE k <= Len(marks)
    BY <1>1, <1>2, <1>3, <1>4, <2>1 DEF MarksBound
  <2>2. CASE ~ k <= Len(marks)
    <3>1. PICK i : i = k - Len(marks)
      OBVIOUS
    <3>2. i \in 1 .. Len(m) /\ k = Len(args) + i
      BY <1>3, <2>2, <3>1
    <3>3. ms[k] = m[i] /\ as[k] = vals[i]
      BY <1>1, <1>2, <1>3, <1>4, <2>2, <3>1
    <3> QED BY <3>2, <3>3 DEF MarksFor
  <2> QED BY <2>1, <2>2
<1> QED BY <1>1, <1>2, <1>3, <1>4, <1>5 DEF MarksBound

(* The marks of values. *)
LEMMA MarkersFacts ==
  ASSUME NEW b \in Builder, NEW n \in Nat, NEW vals \in Seq(Values)
  PROVE  MarksFor(b.style, Markers(b, n + 1, vals), vals, n)
<1> DEFINE mark(k) == [n |-> IF b.style = "number" THEN n + 1 + k - 1 ELSE 0, val |-> vals[k]]
           ms == [k \in 1 .. Len(vals) |-> mark(k)]
<1>1. Markers(b, n + 1, vals) = ms
  BY DEF Markers
<1>2. Len(vals) \in Nat /\ \A k \in 1 .. Len(vals) : vals[k] \in Values
  OBVIOUS
<1>3. ASSUME NEW k \in 1 .. Len(vals)
      PROVE  mark(k) \in Mark /\ mark(k).val = vals[k] /\ mark(k).n = IF b.style = "number" THEN n + k ELSE 0
  BY <1>2 DEF Mark
<1> HIDE DEF mark
<1>4. ms \in [1 .. Len(vals) -> Mark]
  BY <1>3
<1>5. ms \in Seq(Mark) /\ Len(ms) = Len(vals)
  BY <1>2, <1>4
<1> QED BY <1>1, <1>3, <1>5 DEF MarksFor

(* A spread. *)
LEMMA SpreadGood ==
  ASSUME NEW rest \in {"any", "plain"}, NEW b, Good(b, rest), NEW vals \in Seq(Values)
  PROVE  Good(SpreadOpaque(b, vals), rest) /\ SpreadOpaque(b, vals).style = b.style
<1> DEFINE n == SpreadOpaque(b, vals)
           m == Markers(b, b.count, vals)
<1>1. b \in Builder /\ Len(b.args) \in Nat /\ Len(vals) \in Nat /\ b.marks \in Seq(Mark) /\ b.args \in Seq(Values)
      /\ b.style \in {"number", "question"} /\ b.count \in Nat
  BY DEF Good, Builder
<1>2. MarksFor(b.style, m, vals, Len(b.args))
  <2>1. CASE b.style = "number"
    <3>1. PICK z \in Nat : z = Len(b.args) /\ b.count = z + 1
      BY <1>1, <2>1 DEF Good
    <3>2. MarksFor(b.style, Markers(b, z + 1, vals), vals, z)
      BY <1>1, MarkersFacts
    <3> QED BY <3>1, <3>2
  <2>2. CASE b.style # "number"
    <3>1. PICK z \in Nat : z = 0
      OBVIOUS
    <3>2. Markers(b, b.count, vals) = Markers(b, z + 1, vals)
      BY <2>2 DEF Markers
    <3>3. MarksFor(b.style, Markers(b, z + 1, vals), vals, z)
      BY <1>1, MarkersFacts
    <3> QED BY <2>2, <3>2, <3>3 DEF MarksFor
  <2> QED BY <2>1, <2>2
<1>10. m \in Seq(Mark)
  BY <1>2 DEF MarksFor
<1>3. MarksBound(b.style, b.marks \o m, b.args \o vals)
  BY <1>1, <1>2, <1>10, MarksAdded DEF Good
<1>4. b.marks \o m \in Seq(Mark) /\ b.args \o vals \in Seq(Values) /\ Len(b.args \o vals) = Len(b.args) + Len(vals)
  BY <1>1, <1>10, ConcatProperties
<1> HIDE DEF m
<1>5. PICK ms, as : ms = b.marks \o m /\ as = b.args \o vals
  OBVIOUS
<1>6. PICK ct \in Nat : ct = IF b.style = "number" THEN b.count + Len(vals) ELSE b.count
  BY <1>1
<1>7. n = [b EXCEPT !.marks = ms, !.count = ct, !.args = as]
  BY <1>5, <1>6 DEF SpreadOpaque, m
<1> HIDE DEF n
<1>8. /\ n \in Builder /\ n.style = b.style /\ n.marks = ms /\ n.args = as /\ n.count = ct /\ n.words = b.words
      /\ n.where = b.where /\ n.sent = b.sent
  BY <1>1, <1>4, <1>5, <1>7 DEF Builder
<1>9. b.style = "number" => ct = Len(as) + 1
  BY <1>1, <1>4, <1>5, <1>6 DEF Good
<1> QED BY <1>3, <1>5, <1>8, <1>9 DEF Good, n

(* A condition. *)
LEMMA ConditionGood ==
  ASSUME NEW b, Good(b, "any")
  PROVE  Good(PushCondition(b), "any") /\ PushCondition(b).style = b.style
<1> DEFINE n == PushCondition(b)
<1>1. b \in Builder /\ b.words \in Seq(Word) /\ Len(b.words) \in Nat /\ b.where \in Word
  BY DEF Good, Builder
<1>2. PICK ws : ws = Append(b.words, b.where)
  OBVIOUS
<1>3. /\ ws \in Seq(Word) /\ Len(ws) = Len(b.words) + 1 /\ ws[Len(ws)] = b.where
      /\ \A k \in 1 .. Len(b.words) : ws[k] = b.words[k]
  BY <1>1, <1>2
<1>4. n = [b EXCEPT !.words = ws, !.where = "AND"]
  BY <1>2 DEF PushCondition
<1> HIDE DEF n
<1>5. /\ n \in Builder /\ n.style = b.style /\ n.marks = b.marks /\ n.args = b.args /\ n.count = b.count
      /\ n.words = ws /\ n.where = "AND" /\ n.sent = b.sent
  BY <1>1, <1>3, <1>4 DEF Builder, Word
<1>6. WordsJoin(ws)
  <2>1. \A k \in 1 .. Len(b.words) : b.words[k] = IF k = 1 THEN "WHERE" ELSE "AND"
    BY DEF Good, WordsJoin
  <2>2. b.where = IF Len(b.words) = 0 THEN "WHERE" ELSE "AND"
    BY DEF Good
  <2>3. ASSUME NEW k \in 1 .. Len(ws) PROVE ws[k] = IF k = 1 THEN "WHERE" ELSE "AND"
    <3>1. CASE k = Len(b.words) + 1
      BY <1>1, <1>3, <2>2, <3>1
    <3>2. CASE k # Len(b.words) + 1
      BY <1>1, <1>3, <2>1, <3>2
    <3> QED BY <3>1, <3>2
  <2> QED BY <2>3 DEF WordsJoin
<1> QED BY <1>1, <1>3, <1>5, <1>6 DEF Good, n

(* A query that is sent. *)
LEMMA ExecuteGood ==
  ASSUME NEW rest \in {"any", "plain"}, NEW b, Good(b, rest)
  PROVE  Good(DoExecute(b), rest) /\ DoExecute(b).style = b.style
<1> DEFINE n == DoExecute(b)
<1>1. b \in Builder /\ b.sent \in Seq(Query) /\ Len(b.sent) \in Nat
  BY DEF Good, Builder
<1>2. PICK q : q = [marks |-> b.marks, words |-> b.words, args |-> b.args]
  OBVIOUS
<1>3. q \in Query /\ q.marks = b.marks /\ q.words = b.words /\ q.args = b.args
  BY <1>1, <1>2 DEF Builder, Query
<1>4. PICK sent : sent = Append(b.sent, q)
  OBVIOUS
<1>5. /\ sent \in Seq(Query) /\ Len(sent) = Len(b.sent) + 1 /\ sent[Len(sent)] = q
      /\ \A j \in 1 .. Len(b.sent) : sent[j] = b.sent[j]
  BY <1>1, <1>3, <1>4
<1>6. n = [b EXCEPT !.sent = sent]
  BY <1>2, <1>4 DEF DoExecute
<1> HIDE DEF n
<1>7. /\ n \in Builder /\ n.style = b.style /\ n.marks = b.marks /\ n.args = b.args /\ n.count = b.count
      /\ n.words = b.words /\ n.where = b.where /\ n.sent = sent
  BY <1>1, <1>5, <1>6 DEF Builder
<1>8. ASSUME NEW j \in 1 .. Len(sent)
      PROVE  MarksBound(b.style, sent[j].marks, sent[j].args) /\ WordsJoin(sent[j].words)
  <2>1. CASE j = Len(b.sent) + 1
    <3>1. sent[j] = q
      BY <1>5, <2>1
    <3> QED BY <1>3, <3>1 DEF Good
  <2>2. CASE j # Len(b.sent) + 1
    <3>1. j \in 1 .. Len(b.sent) /\ sent[j] = b.sent[j]
      BY <1>1, <1>5, <2>2
    <3> QED BY <3>1 DEF Good
  <2> QED BY <2>1, <2>2
<1> QED BY <1>7, <1>8 DEF Good, n

(* A reset leaves the joining word, so no condition may follow. *)
LEMMA ResetGood ==
  ASSUME NEW rest \in {"any", "plain"}, NEW b, Good(b, rest)
  PROVE  Good(DoReset(b), "plain") /\ DoReset(b).style = b.style
<1> DEFINE n == DoReset(b)
<1>1. b \in Builder
  BY DEF Good
<1>2. n = [b EXCEPT !.marks = <<>>, !.words = <<>>, !.args = <<>>, !.count = 1]
  BY DEF DoReset
<1> HIDE DEF n
<1>3. /\ n \in Builder /\ n.style = b.style /\ n.marks = <<>> /\ n.args = <<>> /\ n.count = 1
      /\ n.words = <<>> /\ n.sent = b.sent
  <2>1. PICK ms \in Seq(Mark), ws \in Seq(Word), as \in Seq(Values) : ms = <<>> /\ ws = <<>> /\ as = <<>>
    BY EmptySeq
  <2>2. n = [b EXCEPT !.marks = ms, !.words = ws, !.args = as, !.count = 1]
    BY <1>2, <2>1
  <2>3. /\ n \in Builder /\ n.style = b.style /\ n.marks = ms /\ n.args = as /\ n.count = 1
        /\ n.words = ws /\ n.sent = b.sent
    BY <1>1, <2>2 DEF Builder
  <2> QED BY <2>1, <2>3
<1>4. MarksBound(b.style, <<>>, <<>>) /\ WordsJoin(<<>>)
  BY DEF MarksBound, WordsJoin
<1> QED BY <1>3, <1>4 DEF Good, n

(* A builder that is new. *)
LEMMA NewGood ==
  ASSUME NEW s \in {"number", "question"}
  PROVE  Good(NewBuilder(s), "any") /\ NewBuilder(s).style = s
<1> DEFINE n == NewBuilder(s)
<1>1. n \in Builder /\ n.style = s /\ n.count = 1 /\ n.marks = <<>> /\ n.words = <<>> /\ n.args = <<>>
      /\ n.where = "WHERE" /\ n.sent = <<>>
  BY DEF NewBuilder, Builder, Word
<1> HIDE DEF n
<1>2. MarksBound(s, <<>>, <<>>) /\ WordsJoin(<<>>)
  BY DEF MarksBound, WordsJoin
<1> QED BY <1>1, <1>2 DEF Good, n

(* Two arguments that are added before their marks, the marks written by hand, and the
   count moved past them where there is one: ToggleMonitor. *)
LEMMA ToggleGood ==
  ASSUME NEW s \in {"number", "question"}, NEW vals \in Seq(Values), NEW a, NEW c,
         a = DoPushArgs(NewBuilder(s), vals), c = IF s = "number" THEN DoAdvance(a, vals) ELSE a
  PROVE  Good(PushByHand(c, vals), "plain") /\ PushByHand(c, vals).style = s
<1>1. NewBuilder(s) \in Builder /\ NewBuilder(s).style = s /\ Good(NewBuilder(s), "any")
  BY NewGood DEF Good
<1>2. a = [NewBuilder(s) EXCEPT !.args = vals]
  <2>1. PICK as : as = NewBuilder(s).args \o vals
    OBVIOUS
  <2>2. as = vals
    BY <2>1 DEF NewBuilder
  <2> QED BY <2>1, <2>2 DEF DoPushArgs
<1>3. a \in Builder /\ a.style = s /\ a.args = vals /\ a.count = 1 /\ a.marks = <<>> /\ a.words = <<>> /\ a.sent = <<>>
  BY <1>1, <1>2 DEF Builder, NewBuilder
<1>4. PICK ct \in Nat : ct = IF s = "number" THEN 1 + Len(vals) ELSE 1
  OBVIOUS
<1>5. c \in Builder /\ c.style = s /\ c.args = vals /\ c.count = ct /\ c.marks = <<>> /\ c.words = <<>> /\ c.sent = <<>>
  <2>1. CASE s = "number"
    <3>1. c = [a EXCEPT !.count = ct]
      BY <1>3, <1>4, <2>1 DEF DoAdvance
    <3> QED BY <1>3, <1>4, <3>1 DEF Builder
  <2>2. CASE s # "number"
    BY <1>3, <1>4, <2>2
  <2> QED BY <2>1, <2>2
<1>6. PICK m : m = Markers(c, 1, vals)
  OBVIOUS
<1>7. MarksFor(s, m, vals, 0)
  <2>1. PICK z \in Nat : z = 0
    OBVIOUS
  <2>2. MarksFor(c.style, Markers(c, z + 1, vals), vals, z)
    BY <1>5, MarkersFacts
  <2>3. m = Markers(c, z + 1, vals)
    BY <1>6, <2>1
  <2> QED BY <1>5, <2>1, <2>2, <2>3
<1>8. m \in Seq(Mark) /\ MarksBound(s, m, vals)
  BY <1>7 DEF MarksFor, MarksBound
<1> DEFINE n == PushByHand(c, vals)
<1>9. n = [c EXCEPT !.marks = m]
  <2>1. PICK ms : ms = c.marks \o m
    OBVIOUS
  <2>2. ms = m
    BY <1>5, <1>8, <2>1
  <2> QED BY <1>6, <2>1, <2>2 DEF PushByHand
<1> HIDE DEF n
<1>10. /\ n \in Builder /\ n.style = s /\ n.args = vals /\ n.count = ct /\ n.marks = m /\ n.words = <<>>
       /\ n.sent = <<>>
  BY <1>5, <1>8, <1>9 DEF Builder
<1>11. WordsJoin(<<>>)
  BY DEF WordsJoin
<1> QED BY <1>4, <1>8, <1>10, <1>11 DEF Good, n

(* Calls that keep a builder good; a condition only if conditions may follow. *)
Ordinary(rest) == {Spread(v) : v \in Seq(Values)} \cup {Execute} \cup (IF rest = "any" THEN {Condition} ELSE {})

(* Each of them keeps it. *)
LEMMA OrdinaryGood ==
  ASSUME NEW rest \in {"any", "plain"}, NEW b, Good(b, rest), NEW c \in Ordinary(rest)
  PROVE  Good(Apply(b, c), rest) /\ Apply(b, c).style = b.style
<1>1. CASE \E v \in Seq(Values) : c = Spread(v)
  <2>1. PICK v \in Seq(Values) : c = Spread(v)
    BY <1>1
  <2>2. Apply(b, c) = SpreadOpaque(b, v)
    BY <2>1 DEF Apply, Spread
  <2> QED BY <2>2, SpreadGood
<1>2. CASE c = Execute
  <2>1. Apply(b, c) = DoExecute(b)
    BY <1>2 DEF Apply, Execute
  <2> QED BY <2>1, ExecuteGood
<1>3. CASE rest = "any" /\ c = Condition
  <2>1. Apply(b, c) = PushCondition(b)
    BY <1>3 DEF Apply, Condition
  <2>2. Good(b, "any")
    BY <1>3
  <2>3. Good(PushCondition(b), "any") /\ PushCondition(b).style = b.style
    BY <2>2, ConditionGood
  <2> QED BY <1>3, <2>1, <2>3
<1> QED BY <1>1, <1>2, <1>3 DEF Ordinary

(* A set of numbers that is not empty has a least one. *)
LEMMA LeastOf ==
  ASSUME NEW S \in SUBSET Nat, S # {}
  PROVE  \E x \in S : \A y \in S : x <= y
<1>1. PICK R : R = OpToRel(<, Nat)
  OBVIOUS
<1>2. \A x, y \in Nat : y < x => <<y, x>> \in R
  BY <1>1 DEF OpToRel
<1>3. IsWellFoundedOn(R, Nat)
  BY <1>1, NatLessThanWellFounded
<1>4. PICK x \in S : \A y \in S : ~ (<<y, x>> \in R)
  BY <1>3, WFMin
<1>5. \A y \in S : ~ (y < x)
  BY <1>2, <1>4
<1> QED BY <1>4, <1>5

(* The recursive function of builders exists, and so obeys its equation. *)
LEMMA BuildersFacts ==
  ASSUME NEW s, NEW program, Len(program) \in Nat
  PROVE  /\ Builders(s, program)[0] = NewBuilder(s)
         /\ \A k \in 1 .. Len(program) :
              Builders(s, program)[k] = Apply(Builders(s, program)[k - 1], program[k])
<1> DEFINE D(n, b) == [k \in 0 .. n |-> IF k = 0 THEN NewBuilder(s) ELSE Apply(b[k - 1], program[k])]
           Has(n) == \E b : b = D(n, b)
           T == {n \in Nat : ~ Has(n)}
<1>1. Has(0)
  <2>1. PICK z : z = NewBuilder(s)
    OBVIOUS
  <2>2. PICK b : b = [k \in 0 .. 0 |-> z]
    OBVIOUS
  <2>3. b = D(0, b)
    BY <2>1, <2>2
  <2> QED BY <2>3
<1>2. ASSUME NEW x \in Nat, x # 0, Has(x - 1)
      PROVE  Has(x)
  <2>1. PICK b : b = D(x - 1, b)
    BY <1>2
  <2>2. PICK z : z = Apply(b[x - 1], program[x])
    OBVIOUS
  <2>3. PICK g : g = [k \in 0 .. x |-> IF k = x THEN z ELSE b[k]]
    OBVIOUS
  <2>4. ASSUME NEW k \in 0 .. x
        PROVE  g[k] = IF k = 0 THEN NewBuilder(s) ELSE Apply(g[k - 1], program[k])
    <3>1. CASE k = x
      <4>1. g[k] = z /\ k - 1 \in 0 .. x /\ k - 1 # x /\ g[k - 1] = b[x - 1]
        BY <1>2, <2>3, <3>1
      <4> QED BY <1>2, <2>2, <3>1, <4>1
    <3>2. CASE k = 0
      <4>1. g[k] = b[0]
        BY <1>2, <2>3, <3>2
      <4>2. 0 \in 0 .. x - 1
        BY <1>2
      <4> QED BY <2>1, <3>2, <4>1, <4>2
    <3>3. CASE k # 0 /\ k # x
      <4>1. k \in 0 .. x - 1 /\ k - 1 \in 0 .. x /\ k - 1 # x
        BY <1>2, <3>3
      <4>2. g[k] = b[k] /\ g[k - 1] = b[k - 1]
        BY <2>3, <3>3, <4>1
      <4>3. b[k] = Apply(b[k - 1], program[k])
        BY <2>1, <3>3, <4>1
      <4> QED BY <3>3, <4>2, <4>3
    <3> QED BY <3>1, <3>2, <3>3
  <2>5. g = D(x, g)
    BY <2>3, <2>4
  <2> QED BY <2>5
<1> HIDE DEF Has
<1>3. T = {}
  <2>1. SUFFICES ASSUME T # {} PROVE FALSE
    OBVIOUS
  <2>2. PICK x \in T : \A y \in T : x <= y
    BY <2>1, LeastOf
  <2>3. x # 0
    BY <1>1, <2>2
  <2>4. x - 1 \in Nat /\ ~ (x <= x - 1)
    BY <2>2, <2>3
  <2>5. Has(x - 1)
    BY <2>2, <2>4
  <2> QED BY <1>2, <2>2, <2>3, <2>5
<1>4. \E b : b = D(Len(program), b)
  BY <1>3 DEF Has
<1>5. Builders(s, program) = CHOOSE b : b = D(Len(program), b)
  BY DEF Builders
<1> HIDE DEF D
<1>6. PICK B : B = Builders(s, program)
  OBVIOUS
<1>7. B = D(Len(program), B)
  BY <1>4, <1>5, <1>6
<1>8. B[0] = NewBuilder(s) /\ \A k \in 1 .. Len(program) : B[k] = Apply(B[k - 1], program[k])
  BY <1>7 DEF D
<1> QED BY <1>6, <1>8

(* Ordinary calls keep a good builder good, however many they are. *)
LEMMA RunGood ==
  ASSUME NEW s, NEW program, Len(program) \in Nat, NEW rest \in {"any", "plain"},
         NEW i \in 0 .. Len(program), NEW j \in i .. Len(program),
         Good(Builders(s, program)[i], rest), Builders(s, program)[i].style = s,
         \A k \in i + 1 .. j : program[k] \in Ordinary(rest)
  PROVE  Good(Builders(s, program)[j], rest) /\ Builders(s, program)[j].style = s
<1>1. PICK B : B = Builders(s, program)
  OBVIOUS
<1> DEFINE Fine(k) == Good(B[k], rest) /\ B[k].style = s
           T == {k \in i .. j : ~ Fine(k)}
<1>2. Fine(i)
  BY <1>1
<1>3. ASSUME NEW k \in i + 1 .. j, Fine(k - 1)
      PROVE  Fine(k)
  <2>1. PICK b, c : b = B[k - 1] /\ c = program[k]
    OBVIOUS
  <2>2. k \in 1 .. Len(program)
    OBVIOUS
  <2>3. B[k] = Apply(b, c)
    BY <1>1, <2>1, <2>2, BuildersFacts
  <2>4. c \in Ordinary(rest) /\ Good(b, rest) /\ b.style = s
    BY <1>3, <2>1
  <2>5. Good(Apply(b, c), rest) /\ Apply(b, c).style = b.style
    BY <2>4, OrdinaryGood
  <2> QED BY <2>3, <2>4, <2>5
<1> HIDE DEF Fine
<1>4. T = {}
  <2>1. SUFFICES ASSUME T # {} PROVE FALSE
    OBVIOUS
  <2>6. T \in SUBSET Nat
    OBVIOUS
  <2>2. PICK x \in T : \A y \in T : x <= y
    BY <2>1, <2>6, LeastOf
  <2>3. x # i
    BY <1>2, <2>2
  <2>4. x \in i + 1 .. j /\ x - 1 \in i .. j /\ ~ (x <= x - 1)
    BY <2>2, <2>3
  <2>5. Fine(x - 1)
    BY <2>2, <2>4
  <2> QED BY <1>3, <2>2, <2>4, <2>5
<1>5. Fine(j)
  BY <1>4
<1> QED BY <1>1, <1>5 DEF Fine

(* The queries a good builder has sent are right. *)
LEMMA QueryGood ==
  ASSUME NEW b, Good(b, "plain"), NEW q \in Range(b.sent)
  PROVE  /\ Len(q.args) = Len(q.marks)
         /\ \A k \in 1 .. Len(q.marks) :
              LET place == IF b.style = "number" THEN q.marks[k].n ELSE k
              IN  place \in 1 .. Len(q.args) /\ q.args[place] = q.marks[k].val
         /\ \A k \in 1 .. Len(q.words) : q.words[k] = IF k = 1 THEN "WHERE" ELSE "AND"
<1>1. b.sent \in Seq(Query)
  BY DEF Good, Builder
<1>2. PICK j \in 1 .. Len(b.sent) : q = b.sent[j]
  BY <1>1 DEF Range
<1>3. MarksBound(b.style, q.marks, q.args) /\ WordsJoin(q.words)
  BY <1>2 DEF Good
<1>4. q \in Query
  BY <1>1, <1>2
<1> QED BY <1>3, <1>4 DEF MarksBound, WordsJoin, Query

(* Lists have values only. *)
LEMMA ListsFacts == \A l \in Lists : l \in Seq(Values) /\ l \in Seq(Ids)
<1>1. \A n \in 1 .. MaxIds : n \in Nat
  BY MaxIdsAssumption
<1>2. \A n \in Nat : [1 .. n -> Ids] \subseteq Seq(Ids)
  BY DEF Lists
<1>3. Seq(Ids) \subseteq Seq(Values)
  BY DEF Values
<1> QED BY <1>1, <1>2, <1>3 DEF Lists

(* Binding one value is an ordinary call. *)
LEMMA OrdinaryCalls ==
  ASSUME NEW rest \in {"any", "plain"}
  PROVE  /\ \A v \in Values : Bind(v) \in Ordinary(rest)
         /\ \A l \in Seq(Values) : Spread(l) \in Ordinary(rest)
         /\ Execute \in Ordinary(rest)
         /\ Condition \in Ordinary("any")
         /\ \A v \in {"active", "kind", "after", "before", "username", "time", "hash", "id", "measurements"} :
              Bind(v) \in Ordinary(rest)
<1>1. \A v \in Values : <<v>> \in Seq(Values)
  OBVIOUS
<1>2. \A v \in Values : Bind(v) \in Ordinary(rest)
  BY <1>1 DEF Bind, Ordinary
<1>3. {"active", "kind", "after", "before", "username", "time", "hash", "id", "measurements"} \subseteq Values
  BY DEF Values
<1> QED BY <1>2, <1>3 DEF Ordinary

(* The conditions of parameters are ordinary calls. *)
LEMMA ParamsOrdinary ==
  /\ MonitorParams \subseteq Seq(Ordinary("any"))
  /\ MeasurementParams \subseteq Seq(Ordinary("any"))
  /\ AccountParams \subseteq Seq(Ordinary("any"))
<1>1. PICK O : O = Ordinary("any")
  OBVIOUS
<1>2. /\ \A l \in Lists : Spread(l) \in O
      /\ Condition \in O
      /\ \A v \in {"active", "kind", "after", "before", "username"} : Bind(v) \in O
  BY <1>1, ListsFacts, OrdinaryCalls
<1>3. <<>> \in Seq(O)
  BY EmptySeq
<1>4. \A c \in O : <<Condition, c>> \in Seq(O)
  BY <1>2
<1>5. \A p, q \in Seq(O) : p \o q \in Seq(O)
  BY ConcatProperties
<1>6. MonitorParams \subseteq Seq(O)
  <2>1. \A l \in Lists : <<Condition, Spread(l)>> \in Seq(O)
    BY <1>2, <1>4
  <2>2. {<<>>, <<Condition, Bind("active")>>} \subseteq Seq(O) /\ {<<>>, <<Condition, Bind("kind")>>} \subseteq Seq(O)
    BY <1>2, <1>3, <1>4
  <2>3. \A a \in {<<>>, <<Condition, Bind("active")>>} : \A k \in {<<>>, <<Condition, Bind("kind")>>} : a \o k \in Seq(O)
    BY <1>5, <2>2
  <2>4. PICK A, K : A = {<<>>, <<Condition, Bind("active")>>} /\ K = {<<>>, <<Condition, Bind("kind")>>}
    OBVIOUS
  <2>5. MonitorParams = {<<Condition, Spread(l)>> : l \in Lists} \cup {a \o k : a \in A, k \in K}
    BY <2>4 DEF MonitorParams
  <2>6. \A a \in A : \A k \in K : a \o k \in Seq(O)
    BY <2>3, <2>4
  <2>7. ASSUME NEW p \in {a \o k : a \in A, k \in K} PROVE p \in Seq(O)
    <3>1. PICK a \in A, k \in K : p = a \o k
      OBVIOUS
    <3> QED BY <2>6, <3>1
  <2>8. ASSUME NEW p \in {<<Condition, Spread(l)>> : l \in Lists} PROVE p \in Seq(O)
    BY <2>1
  <2> QED BY <2>5, <2>7, <2>8
<1>7. MeasurementParams \subseteq Seq(O)
  <2>1. {<<>>, <<Condition, Bind("after")>>} \subseteq Seq(O) /\ {<<>>, <<Condition, Bind("before")>>} \subseteq Seq(O)
    BY <1>2, <1>3, <1>4
  <2>2. \A a \in {<<>>, <<Condition, Bind("after")>>} : \A k \in {<<>>, <<Condition, Bind("before")>>} : a \o k \in Seq(O)
    BY <1>5, <2>1
  <2>3. PICK A, K : A = {<<>>, <<Condition, Bind("after")>>} /\ K = {<<>>, <<Condition, Bind("before")>>}
    OBVIOUS
  <2>4. MeasurementParams = {a \o k : a \in A, k \in K}
    BY <2>3 DEF MeasurementParams
  <2>5. \A a \in A : \A k \in K : a \o k \in Seq(O)
    BY <2>2, <2>3
  <2>6. ASSUME NEW p \in {a \o k : a \in A, k \in K} PROVE p \in Seq(O)
    <3>1. PICK a \in A, k \in K : p = a \o k
      OBVIOUS
    <3> QED BY <2>5, <3>1
  <2> QED BY <2>4, <2>6
<1>8. AccountParams \subseteq Seq(O)
  BY <1>2, <1>3, <1>4 DEF AccountParams
<1> QED BY <1>1, <1>6, <1>7, <1>8

(* A builder, after a function, has sent good queries only. *)
Ends(s, program) ==
  LET b == Builders(s, program)[Len(program)] IN Good(b, "plain") /\ b.style = s

(* What is good for conditions is good without. *)
LEMMA GoodWithout == ASSUME NEW b, Good(b, "any") PROVE Good(b, "plain")
BY DEF Good

(* A function that makes ordinary calls only. *)
LEMMA PlainEnds ==
  ASSUME NEW s \in {"number", "question"}, NEW program \in Seq(Ordinary("any"))
  PROVE  Ends(s, program)
<1>1. Len(program) \in Nat /\ \A k \in 1 .. Len(program) : program[k] \in Ordinary("any")
  OBVIOUS
<1>2. PICK B : B = Builders(s, program)
  OBVIOUS
<1>3. B[0] = NewBuilder(s)
  BY <1>1, <1>2, BuildersFacts
<1>4. Good(B[0], "any") /\ B[0].style = s
  BY <1>3, NewGood
<1>5. PICK i, j : i = 0 /\ j = Len(program)
  OBVIOUS
<1>8. i \in 0 .. Len(program) /\ j \in i .. Len(program)
  BY <1>1, <1>5
<1>6. \A k \in i + 1 .. j : program[k] \in Ordinary("any")
  BY <1>1, <1>5
<1>7. Good(B[j], "any") /\ B[j].style = s
  BY <1>1, <1>2, <1>4, <1>5, <1>6, <1>8, RunGood
<1> QED BY <1>2, <1>5, <1>7, GoodWithout DEF Ends

(* The functions of which that is so. *)
LEMMA PlainPrograms ==
  DeleteRows \cup UpdateAccount \cup SelectAccount \cup InsertCertificates \cup SelectMeasurement
    \subseteq Seq(Ordinary("any"))
<1>1. PICK O : O = Ordinary("any")
  OBVIOUS
<1>2. /\ \A l \in Seq(Values) : Spread(l) \in O
      /\ Condition \in O /\ Execute \in O
      /\ \A v \in {"time", "username", "hash", "id"} : Bind(v) \in O
  BY <1>1, OrdinaryCalls
<1>3. <<>> \in Seq(O) /\ \A p, q \in Seq(O) : p \o q \in Seq(O)
  BY EmptySeq, ConcatProperties
<1>4. \A c, d \in O : <<c>> \in Seq(O) /\ <<c, d>> \in Seq(O)
  OBVIOUS
<1>5. DeleteRows \subseteq Seq(O)
  BY <1>2, <1>4, ListsFacts DEF DeleteRows
<1>6. UpdateAccount \subseteq Seq(O)
  <2>1. ASSUME NEW vsh \in {<<>>, <<Bind("hash")>>}
        PROVE  <<Bind("time"), Bind("username")>> \o vsh \o <<Bind("id"), Execute>> \in Seq(O)
    <3>1. vsh \in Seq(O) /\ <<Bind("time"), Bind("username")>> \in Seq(O) /\ <<Bind("id"), Execute>> \in Seq(O)
      BY <1>2, <1>3, <1>4
    <3> QED BY <1>3, <3>1
  <2> QED BY <2>1 DEF UpdateAccount
<1>7. SelectAccount \subseteq Seq(O)
  <2>1. \A params \in AccountParams : params \in Seq(O)
    BY <1>1, ParamsOrdinary
  <2>2. \A params \in AccountParams : params \o <<Execute>> \in Seq(O)
    BY <1>2, <1>3, <1>4, <2>1
  <2> QED BY <2>2 DEF SelectAccount
<1>8. InsertCertificates \subseteq Seq(O)
  <2>1. ASSUME NEW certs \in Lists
        PROVE  [i \in 1 .. Len(certs) |-> Spread(<<"id", certs[i]>>)] \o <<Execute>> \in Seq(O)
    <3>1. certs \in Seq(Values) /\ Len(certs) \in Nat
      BY ListsFacts
    <3>2. \A i \in 1 .. Len(certs) : <<"id", certs[i]>> \in Seq(Values)
      BY <3>1 DEF Values
    <3>3. \A i \in 1 .. Len(certs) : Spread(<<"id", certs[i]>>) \in O
      BY <1>2, <3>2
    <3>4. PICK p : p = [i \in 1 .. Len(certs) |-> Spread(<<"id", certs[i]>>)]
      OBVIOUS
    <3>5. p \in Seq(O)
      BY <3>1, <3>3, <3>4
    <3> QED BY <1>2, <1>3, <1>4, <3>4, <3>5
  <2> QED BY <2>1 DEF InsertCertificates
<1>9. SelectMeasurement \subseteq Seq(O)
  <2>1. ASSUME NEW params \in MeasurementParams
        PROVE  <<Condition, Bind("id")>> \o params \o <<Execute>> \in Seq(O)
    <3>1. params \in Seq(O) /\ <<Condition, Bind("id")>> \in Seq(O) /\ <<Execute>> \in Seq(O)
      BY <1>1, <1>2, <1>4, ParamsOrdinary
    <3> QED BY <1>3, <3>1
  <2> QED BY <2>1 DEF SelectMeasurement
<1> QED BY <1>1, <1>5, <1>6, <1>7, <1>8, <1>9

(* ToggleMonitor: the marks by hand, and then ordinary calls. *)
LEMMA ToggleEnds ==
  ASSUME NEW s \in {"number", "question"}, NEW program \in ToggleMonitor(s)
  PROVE  Ends(s, program)
<1>1. PICK vals : vals = <<"active", "time">>
  OBVIOUS
<1>2. vals \in Seq(Values)
  BY <1>1 DEF Values
<1>3. PICK ids \in Lists :
        program = IF s = "number" THEN <<PushArgs(vals), Advance(vals), ByHand(vals), Spread(ids), Execute>>
                                  ELSE <<PushArgs(vals), ByHand(vals), Spread(ids), Execute>>
  BY <1>1 DEF ToggleMonitor
<1>4. Spread(ids) \in Ordinary("plain") /\ Execute \in Ordinary("plain")
  BY ListsFacts, OrdinaryCalls
<1>5. PICK B : B = Builders(s, program)
  OBVIOUS
<1>6. PICK a, c : a = DoPushArgs(NewBuilder(s), vals) /\ c = IF s = "number" THEN DoAdvance(a, vals) ELSE a
  OBVIOUS
<1>7. Good(PushByHand(c, vals), "plain") /\ PushByHand(c, vals).style = s
  BY <1>2, <1>6, ToggleGood
<1>8. \A b : /\ Apply(b, PushArgs(vals)) = DoPushArgs(b, vals)
             /\ Apply(b, Advance(vals)) = DoAdvance(b, vals)
             /\ Apply(b, ByHand(vals)) = PushByHand(b, vals)
  <2>1. ASSUME NEW b PROVE Apply(b, PushArgs(vals)) = DoPushArgs(b, vals)
    BY DEF Apply, PushArgs
  <2>2. ASSUME NEW b PROVE Apply(b, Advance(vals)) = DoAdvance(b, vals)
    BY DEF Apply, Advance
  <2>3. ASSUME NEW b PROVE Apply(b, ByHand(vals)) = PushByHand(b, vals)
    BY DEF Apply, ByHand
  <2> QED BY <2>1, <2>2, <2>3
<1>9. CASE s = "number"
  <2>1. PICK c1, c2, c3, c4, c5 : c1 = PushArgs(vals) /\ c2 = Advance(vals) /\ c3 = ByHand(vals) /\ c4 = Spread(ids) /\ c5 = Execute
    OBVIOUS
  <2>2. program = <<c1, c2, c3, c4, c5>>
    BY <1>3, <1>9, <2>1
  <2>3. Len(program) = 5 /\ program[1] = c1 /\ program[2] = c2 /\ program[3] = c3 /\ program[4] = c4 /\ program[5] = c5
    BY <2>2
  <2>4. B[0] = NewBuilder(s) /\ \A k \in 1 .. 5 : B[k] = Apply(B[k - 1], program[k])
    <3>1. Len(program) \in Nat
      BY <2>3
    <3>2. B[0] = NewBuilder(s) /\ \A k \in 1 .. Len(program) : B[k] = Apply(B[k - 1], program[k])
      BY <1>5, <3>1, BuildersFacts
    <3> QED BY <2>3, <3>2
  <2>5. B[1] = a
    BY <1>6, <1>8, <2>1, <2>3, <2>4
  <2>6. B[2] = c
    BY <1>6, <1>8, <1>9, <2>1, <2>3, <2>4, <2>5
  <2>7. B[3] = PushByHand(c, vals)
    BY <1>8, <2>1, <2>3, <2>4, <2>6
  <2>8. PICK i, j : i = 3 /\ j = 5
    OBVIOUS
  <2>11. i \in 0 .. Len(program) /\ j \in i .. Len(program)
    BY <2>3, <2>8
  <2>9. \A k \in i + 1 .. j : program[k] \in Ordinary("plain")
    BY <1>4, <2>1, <2>3, <2>8
  <2>10. Good(B[j], "plain") /\ B[j].style = s
    <3>1. Len(program) \in Nat
      BY <2>3
    <3>2. Good(B[i], "plain") /\ B[i].style = s
      BY <1>7, <2>7, <2>8
    <3> QED BY <3>1, <3>2, <1>5, <2>9, <2>11, RunGood
  <2> QED BY <1>5, <2>3, <2>8, <2>10 DEF Ends
<1>10. CASE s # "number"
  <2>1. PICK c1, c2, c3, c4 : c1 = PushArgs(vals) /\ c2 = ByHand(vals) /\ c3 = Spread(ids) /\ c4 = Execute
    OBVIOUS
  <2>2. program = <<c1, c2, c3, c4>>
    BY <1>3, <1>10, <2>1
  <2>3. Len(program) = 4 /\ program[1] = c1 /\ program[2] = c2 /\ program[3] = c3 /\ program[4] = c4
    BY <2>2
  <2>4. B[0] = NewBuilder(s) /\ \A k \in 1 .. 4 : B[k] = Apply(B[k - 1], program[k])
    <3>1. Len(program) \in Nat
      BY <2>3
    <3>2. B[0] = NewBuilder(s) /\ \A k \in 1 .. Len(program) : B[k] = Apply(B[k - 1], program[k])
      BY <1>5, <3>1, BuildersFacts
    <3> QED BY <2>3, <3>2
  <2>5. B[1] = c
    BY <1>6, <1>8, <1>10, <2>1, <2>3, <2>4
  <2>6. B[2] = PushByHand(c, vals)
    BY <1>8, <2>1, <2>3, <2>4, <2>5
  <2>7. PICK i, j : i = 2 /\ j = 4
    OBVIOUS
  <2>10. i \in 0 .. Len(program) /\ j \in i .. Len(program)
    BY <2>3, <2>7
  <2>8. \A k \in i + 1 .. j : program[k] \in Ordinary("plain")
    BY <1>4, <2>1, <2>3, <2>7
  <2>9. Good(B[j], "plain") /\ B[j].style = s
    <3>1. Len(program) \in Nat
      BY <2>3
    <3>2. Good(B[i], "plain") /\ B[i].style = s
      BY <1>7, <2>6, <2>7
    <3> QED BY <3>1, <3>2, <1>5, <2>8, <2>10, RunGood
  <2> QED BY <1>5, <2>3, <2>7, <2>9 DEF Ends
<1> QED BY <1>9, <1>10

(* SelectRelated: ordinary calls, a reset, and ordinary calls without conditions. *)
LEMMA RelatedEnds ==
  ASSUME NEW s \in {"number", "question"}, NEW program \in SelectRelated
  PROVE  Ends(s, program)
<1>1. PICK params \in MonitorParams, ids \in Lists :
        program = params \o <<Execute, Reset, Spread(ids), Bind("measurements"), Execute>>
  <2> DEFINE then(ids) == <<Execute, Reset, Spread(ids), Bind("measurements"), Execute>>
  <2>1. SelectRelated = {params \o then(ids) : params \in MonitorParams, ids \in Lists}
    BY DEF SelectRelated
  <2> HIDE DEF then
  <2>2. \E params \in MonitorParams, ids \in Lists : program = params \o then(ids)
    BY <2>1
  <2> QED BY <2>2 DEF then
<1>2. PICK c1, c2, c3, c4 : c1 = Execute /\ c2 = Reset /\ c3 = Spread(ids) /\ c4 = Bind("measurements")
  OBVIOUS
<1>3. PICK tail : tail = <<c1, c2, c3, c4, c1>>
  OBVIOUS
<1>4. Len(tail) = 5 /\ tail[1] = c1 /\ tail[2] = c2 /\ tail[3] = c3 /\ tail[4] = c4 /\ tail[5] = c1
  BY <1>3
<1>5. params \in Seq(Ordinary("any")) /\ c1 \in Ordinary("any")
  BY <1>2, ParamsOrdinary, OrdinaryCalls
<1>6. {c1, c3, c4} \subseteq Ordinary("plain")
  BY <1>2, ListsFacts, OrdinaryCalls
<1>7. PICK n \in Nat : n = Len(params)
  BY <1>5
<1>8. /\ Len(program) = n + 5
      /\ \A k \in 1 .. n : program[k] \in Ordinary("any")
      /\ program[n + 1] = c1 /\ program[n + 2] = c2
      /\ program[n + 3] = c3 /\ program[n + 4] = c4 /\ program[n + 5] = c1
  <2>1. PICK S : params \in Seq(S) /\ tail \in Seq(S)
    <3>1. PICK S : S = Ordinary("any") \cup {c1, c2, c3, c4}
      OBVIOUS
    <3>2. params \in Seq(S) /\ tail \in Seq(S)
      BY <1>3, <1>5, <3>1
    <3> QED BY <3>2
  <2>2. program = params \o tail
    BY <1>1, <1>2, <1>3
  <2>3. /\ Len(program) = Len(params) + Len(tail)
        /\ \A k \in 1 .. Len(params) + Len(tail) :
             program[k] = IF k <= Len(params) THEN params[k] ELSE tail[k - Len(params)]
    BY <2>1, <2>2, ConcatProperties
  <2>4. \A k \in 1 .. n : program[k] = params[k]
    BY <1>4, <1>7, <2>3
  <2>5. \A k \in 1 .. 5 : program[n + k] = tail[k]
    BY <1>4, <1>7, <2>3
  <2>6. \A k \in 1 .. n : params[k] \in Ordinary("any")
    BY <1>5, <1>7
  <2> QED BY <1>4, <1>7, <2>3, <2>4, <2>5, <2>6
<1>9. PICK B : B = Builders(s, program)
  OBVIOUS
<1>10. B[0] = NewBuilder(s) /\ \A k \in 1 .. n + 5 : B[k] = Apply(B[k - 1], program[k])
  BY <1>8, <1>9, BuildersFacts
<1>11. Good(B[n + 1], "any") /\ B[n + 1].style = s
  <2>1. Good(B[0], "any") /\ B[0].style = s
    BY <1>10, NewGood
  <2>2. PICK i, j : i = 0 /\ j = n + 1
    OBVIOUS
  <2>5. i \in 0 .. Len(program) /\ j \in i .. Len(program)
    BY <1>8, <2>2
  <2>3. \A k \in i + 1 .. j : program[k] \in Ordinary("any")
    BY <1>5, <1>8, <2>2
  <2>4. Good(B[j], "any") /\ B[j].style = s
    BY <1>8, <1>9, <2>1, <2>2, <2>3, <2>5, RunGood
  <2> QED BY <2>2, <2>4
<1>12. Good(B[n + 2], "plain") /\ B[n + 2].style = s
  <2>1. PICK b : b = B[n + 1]
    OBVIOUS
  <2>2. Apply(b, Reset) = DoReset(b)
    BY DEF Apply, Reset
  <2>3. n + 2 \in 1 .. n + 5 /\ (n + 2) - 1 = n + 1
    OBVIOUS
  <2>4. B[n + 2] = DoReset(b)
    BY <1>2, <1>8, <1>10, <2>1, <2>2, <2>3
  <2> QED BY <1>11, <2>1, <2>4, ResetGood
<1>13. Good(B[n + 5], "plain") /\ B[n + 5].style = s
  <2>1. PICK i, j : i = n + 2 /\ j = n + 5
    OBVIOUS
  <2>10. i \in 0 .. Len(program) /\ j \in i .. Len(program)
    BY <1>8, <2>1
  <2>2. \A k \in i + 1 .. j : program[k] \in Ordinary("plain")
    BY <1>6, <1>8, <2>1
  <2>3. Good(B[j], "plain") /\ B[j].style = s
    <3>1. Len(program) \in Nat
      BY <1>8
    <3>2. Good(B[i], "plain") /\ B[i].style = s
      BY <1>12, <2>1
    <3> QED BY <1>9, <2>2, <2>10, <3>1, <3>2, RunGood
  <2> QED BY <2>1, <2>3
<1> QED BY <1>8, <1>9, <1>13 DEF Ends

(* Every function. *)
LEMMA AllEnd == \A s \in Styles : \A program \in Programs(s) : Ends(s, program)
<1> SUFFICES ASSUME NEW s \in Styles, NEW program \in Programs(s) PROVE Ends(s, program)
  OBVIOUS
<1>1. s \in {"number", "question"}
  BY StylesAssumption
<1>2. CASE program \in ToggleMonitor(s)
  BY <1>1, <1>2, ToggleEnds
<1>3. CASE program \in SelectRelated
  BY <1>1, <1>3, RelatedEnds
<1>4. CASE program \in DeleteRows \cup UpdateAccount \cup SelectAccount \cup InsertCertificates \cup SelectMeasurement
  BY <1>1, <1>4, PlainPrograms, PlainEnds
<1> QED BY <1>2, <1>3, <1>4 DEF Programs

(* Every query that a function sends binds each mark to the value it was written for and
   joins its conditions by one WHERE and then AND. *)
LEMMA AllRight == AllBound /\ AllJoined
<1>1. ASSUME NEW s \in Styles, NEW program \in Programs(s), NEW q \in Sent(s, program)
      PROVE  /\ Len(q.args) = Len(q.marks)
             /\ \A k \in 1 .. Len(q.marks) :
                  LET place == IF s = "number" THEN q.marks[k].n ELSE k
                  IN  place \in 1 .. Len(q.args) /\ q.args[place] = q.marks[k].val
             /\ \A k \in 1 .. Len(q.words) : q.words[k] = IF k = 1 THEN "WHERE" ELSE "AND"
  <2>1. PICK b : b = Builders(s, program)[Len(program)]
    OBVIOUS
  <2>2. Good(b, "plain") /\ b.style = s
    BY <2>1, AllEnd DEF Ends
  <2>3. q \in Range(b.sent)
    BY <2>1 DEF Sent
  <2> QED BY <2>2, <2>3, QueryGood
<1> QED BY <1>1 DEF AllBound, AllJoined

(* No caller ever sends a query whose arguments are not those its markers were
   written for, or whose conditions are not joined, whatever function it calls
   and however long the lists that it is given. *)
THEOREM QueriesAlwaysRight == Spec => []QueriesRight
<1>1. QueriesRight
  BY AllRight DEF QueriesRight
<1> QED BY <1>1, PTL
=============================================================================
