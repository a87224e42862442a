------------------------------- MODULE Store -------------------------------
(***************************************************************************)
(* What the repository promises to those that call it, without its         *)
(* connections, statements and transactions: every function takes effect   *)
(* at once, on the rows that are there at that moment, or not at all; and  *)
(* nothing else, a crash included, changes a row.  What it does not        *)
(* promise, with a database whose transactions overlap, is that an update  *)
(* clears every event.                                                     *)
(*                                                                         *)
(* Repository.tla implements this module.                                  *)
(***************************************************************************)

CONSTANTS
  Monitors, Measurements,  \* ids of rows
  Versions,  \* what a monitor row holds besides its id, with its events
  Plain,     \* versions without events
  None       \* no value

VARIABLES
  enforced,  \* does every function find references enforced?
  isolated,  \* does an update see the events that another one has written?
  db,        \* the rows
  issued     \* the keys that have been given to monitors and measurements

storeVars == <<enforced, isolated, db, issued>>

Monitor(m, v) == [table |-> "monitor", id |-> m, val |-> v]
Event(m, v) == [table |-> "event", id |-> m, val |-> v]
Measurement(i, m) == [table |-> "measurement", id |-> i, val |-> m]
Certificate(i) == [table |-> "certificate", id |-> i, val |-> None]

Of(table, id) == {r \in db : r.table = table /\ r.id = id}
Written(m, v) == IF v \in Plain THEN {} ELSE {Event(m, v)}

StoreInit == enforced \in BOOLEAN /\ isolated \in BOOLEAN /\ db = {} /\ issued = {}

(* The functions.  strict: references are enforced. *)

(* A monitor gets an id that has never been issued, its row and its events. *)
InsertMonitor(m, v) ==
  /\ <<"monitor", m>> \notin issued /\ issued' = issued \cup {<<"monitor", m>>}
  /\ db' = db \cup {Monitor(m, v)} \cup Written(m, v)

(* A row and its events are replaced together.  One that has been deleted stays
   deleted, and cannot have events where references are enforced. *)
UpdateMonitor(m, v, strict) ==
  /\ <<"monitor", m>> \in issued /\ UNCHANGED issued
  /\ strict => Of("monitor", m) # {} \/ v \in Plain
  /\ \E left \in SUBSET Of("event", m) :
       /\ isolated => left = {}
       /\ db' = (db \ (Of("monitor", m) \cup (Of("event", m) \ left)))
                \cup (IF Of("monitor", m) = {} THEN {} ELSE {Monitor(m, v)}) \cup Written(m, v)

(* What refers to a monitor goes with it. *)
DeleteMonitor(m, strict) ==
  LET measured == {r \in db : r.table = "measurement" /\ r.val = m}
      certified == {r \in db : r.table = "certificate" /\ \E s \in measured : s.id = r.id}
  IN /\ db' = db \ (Of("monitor", m)
                    \cup (IF strict /\ Of("monitor", m) # {}
                          THEN Of("event", m) \cup measured \cup certified ELSE {}))
     /\ UNCHANGED issued

(* A measurement is stored with its certificates, of a monitor that is there. *)
InsertMeasurement(i, m, strict) ==
  /\ <<"measurement", i>> \notin issued /\ issued' = issued \cup {<<"measurement", i>>}
  /\ <<"monitor", m>> \in issued /\ (strict => Of("monitor", m) # {})
  /\ db' = db \cup {Measurement(i, m), Certificate(i)}

DeleteMeasurement(i, strict) ==
  /\ db' = db \ (Of("measurement", i)
                 \cup (IF strict /\ Of("measurement", i) # {} THEN Of("certificate", i) ELSE {}))
  /\ UNCHANGED issued

Serves ==
  \/ \E m \in Monitors, v \in Versions : InsertMonitor(m, v)
  \/ \E strict \in {b \in BOOLEAN : enforced => b} :
       \/ \E m \in Monitors, v \in Versions : UpdateMonitor(m, v, strict)
       \/ \E m \in Monitors : DeleteMonitor(m, strict)
       \/ \E i \in Measurements, m \in Monitors : InsertMeasurement(i, m, strict)
       \/ \E i \in Measurements : DeleteMeasurement(i, strict)

-----------------------------------------------------------------------------

StoreSpec == StoreInit /\ [][Serves /\ UNCHANGED <<enforced, isolated>>]_storeVars
=============================================================================
