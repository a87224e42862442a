----------------------------- MODULE SqlBuilder -----------------------------
(***************************************************************************)
(* The query builder of pkg/sql/builder.go, driven by the repository       *)
(* functions that use it.  A query is text with bind markers, and the      *)
(* arguments go separately: the builder must keep the two in step, through *)
(* lists, markers written by hand, conditions added by others, and a reset *)
(* between two queries.                                                    *)
(*                                                                         *)
(* Text is left out, but for the words WHERE and AND that join conditions  *)
(* and for the markers, each with the value it was written for; where a    *)
(* word stands among the markers makes no difference.  A builder           *)
(* belongs to one call of one function, so nothing runs beside it: the     *)
(* module is a pure function of the calls, and its properties range over   *)
(* all of them.                                                            *)
(***************************************************************************)
EXTENDS Naturals, Sequences, Functions

CONSTANTS
  Styles,  \* bind markers in use: "number" ($1, $2, ...) and "question" (?)
  Ids,     \* values of the lists that are spread
  MaxIds   \* bound: length of a list

ASSUME StylesAssumption == Styles \subseteq {"number", "question"}
ASSUME MaxIdsAssumption == MaxIds \in Nat \ {0}

-----------------------------------------------------------------------------
(* What repository functions do with a builder, by the values they bind. *)

Spread(vals)    == [do |-> "spread", vals |-> vals]
Bind(val)       == Spread(<<val>>)
PushArgs(vals)  == [do |-> "args", vals |-> vals]
ByHand(vals)    == [do |-> "by hand", vals |-> vals]
Advance(vals)   == [do |-> "advance", vals |-> vals]
Condition       == [do |-> "condition", vals |-> <<>>]
Reset           == [do |-> "reset", vals |-> <<>>]
Execute         == [do |-> "execute", vals |-> <<>>]

Lists == UNION {[1 .. n -> Ids] : n \in 1 .. MaxIds}

(* The conditions of the parameter types: an id list hides the others. *)
MonitorParams ==
       {<<Condition, Spread(ids)>> : ids \in Lists}
  \cup {a \o k : a \in {<<>>, <<Condition, Bind("active")>>}, k \in {<<>>, <<Condition, Bind("kind")>>}}
MeasurementParams ==
  {a \o b : a \in {<<>>, <<Condition, Bind("after")>>}, b \in {<<>>, <<Condition, Bind("before")>>}}
AccountParams == {<<>>, <<Condition, Bind("username")>>}

(* PostgreSQL numbers the two markers that are written by hand. *)
ToggleMonitor(s) ==
  LET vals == <<"active", "time">> IN
  {IF s = "number" THEN <<PushArgs(vals), Advance(vals), ByHand(vals), Spread(ids), Execute>>
                   ELSE <<PushArgs(vals), ByHand(vals), Spread(ids), Execute>> : ids \in Lists}

DeleteRows == {<<Spread(ids), Execute>> : ids \in Lists}

UpdateAccount ==
  {<<Bind("time"), Bind("username")>> \o vsh \o <<Bind("id"), Execute>>
     : vsh \in {<<>>, <<Bind("hash")>>}}

SelectAccount == {params \o <<Execute>> : params \in AccountParams}

InsertCertificates ==
  {[i \in 1 .. Len(certs) |-> Spread(<<"id", certs[i]>>)] \o <<Execute>> : certs \in Lists}

(* Monitors, and then their measurements with the same builder. *)
SelectRelated ==
  {params \o <<Execute, Reset, Spread(ids), Bind("measurements"), Execute>>
     : params \in MonitorParams, ids \in Lists}

SelectMeasurement ==
  {<<Condition, Bind("id")>> \o params \o <<Execute>> : params \in MeasurementParams}

(* The functions of common that make a builder of their own number markers for
   either database. *)
Programs(s) ==
  ToggleMonitor(s) \cup DeleteRows \cup UpdateAccount \cup SelectAccount \cup InsertCertificates
  \cup (IF s = "number" THEN SelectRelated \cup SelectMeasurement ELSE {})

-----------------------------------------------------------------------------
(* The builder. *)

NewBuilder(s) ==
  [style |-> s, count |-> 1, marks |-> <<>>, words |-> <<>>, args |-> <<>>, where |-> "WHERE", sent |-> <<>>]

(* Markers for vals, numbered from n on. *)
Markers(b, n, vals) ==
  [i \in 1 .. Len(vals) |-> [n |-> IF b.style = "number" THEN n + i - 1 ELSE 0, val |-> vals[i]]]

(* A marker and an argument for every value. *)
SpreadOpaque(b, vals) ==
  [b EXCEPT !.marks = @ \o Markers(b, b.count, vals),
            !.count = IF b.style = "number" THEN @ + Len(vals) ELSE @,
            !.args = @ \o vals]

DoPushArgs(b, vals) == [b EXCEPT !.args = @ \o vals]

(* Text with markers in it, numbered from one. *)
PushByHand(b, vals) == [b EXCEPT !.marks = @ \o Markers(b, 1, vals)]

(* The count goes past markers that are written by hand. *)
DoAdvance(b, vals) == [b EXCEPT !.count = IF b.style = "number" THEN @ + Len(vals) ELSE @]

(* Seeded bug: every condition is written with a WhereBuilder of its own. *)
PushConditionAfresh(b) == [b EXCEPT !.words = Append(@, "WHERE")]

(* A condition, joined by what the WhereBuilder gives. *)
PushCondition(b) == [b EXCEPT !.words = Append(@, b.where), !.where = "AND"]

(* The WhereBuilder stays as it is. *)
DoReset(b) == [b EXCEPT !.marks = <<>>, !.words = <<>>, !.args = <<>>, !.count = 1]

(* The query is sent with its arguments. *)
DoExecute(b) == [b EXCEPT !.sent = Append(@, [marks |-> b.marks, words |-> b.words, args |-> b.args])]

Apply(b, c) ==
  CASE c.do = "spread"    -> SpreadOpaque(b, c.vals)
    [] c.do = "args"      -> DoPushArgs(b, c.vals)
    [] c.do = "by hand"   -> PushByHand(b, c.vals)
    [] c.do = "advance"   -> DoAdvance(b, c.vals)
    [] c.do = "condition" -> PushCondition(b)
    [] c.do = "reset"     -> DoReset(b)
    [] c.do = "execute"   -> DoExecute(b)

(* The builder after each call of a function, and the queries that are sent. *)
Builders(s, program) ==
  LET b[k \in 0 .. Len(program)] == IF k = 0 THEN NewBuilder(s) ELSE Apply(b[k - 1], program[k])
  IN  b
Sent(s, program) == Range(Builders(s, program)[Len(program)].sent)

-----------------------------------------------------------------------------
(* Properties. *)

(* A query that is sent binds to every marker the value it was written for,
   and no argument is left over: the database reads the k-th question mark, or
   the number of the marker, as the place of its argument. *)
AllBound ==
  \A s \in Styles : \A program \in Programs(s) : \A q \in Sent(s, program) :
    /\ Len(q.args) = Len(q.marks)
    /\ \A k \in 1 .. Len(q.marks) :
         LET place == IF s = "number" THEN q.marks[k].n ELSE k
         IN  place \in 1 .. Len(q.args) /\ q.args[place] = q.marks[k].val

(* Its conditions are introduced by one WHERE and joined by AND, whoever added
   them. *)
AllJoined ==
  \A s \in Styles : \A program \in Programs(s) : \A q \in Sent(s, program) :
    \A k \in 1 .. Len(q.words) : q.words[k] = IF k = 1 THEN "WHERE" ELSE "AND"
=============================================================================
