------------------------ MODULE MonitorServiceProofs ------------------------
(* Proofs of the safety properties of MonitorService, for any number of
   monitors, configurations and handlers, any room and any failing query. *)
EXTENDS MonitorService, FiniteSetTheorems, SequenceTheorems, TLAPS

-----------------------------------------------------------------------------
(* What the messages of a sequence q do to monitor m. *)

StartOf(m, c) == StartMessage([mon |-> m, cfg |-> c])

(* One starts it; one stops it; one starts it with c and none stops it later. *)
HasStart(q, m) == \E i \in 1 .. Len(q), c \in Configs : q[i] = StartOf(m, c)
HasStop(q, m)  == \E i \in 1 .. Len(q) : q[i] = StopMessage(m)
Live(q, m, c)  == \E i \in 1 .. Len(q) :
                    q[i] = StartOf(m, c) /\ \A k \in i + 1 .. Len(q) : q[k] # StopMessage(m)

(* A monitor started with x (or not at all) is started with w (or not at all)
   when the messages of q and then those of r have been carried out.  All
   starts after the last stop are with w, so it does not matter which of them
   comes first. *)
Leads(q, r, x, m, w) ==
  /\ \A c \in Configs : Live(r, m, c) => c = w
  /\ ~ HasStop(r, m) => \A c \in Configs : Live(q, m, c) => c = w
  /\ ~ HasStop(r, m) /\ ~ HasStop(q, m) => x \in {None, w}
  /\ w # None => \/ Live(r, m, w)
                 \/ ~ HasStop(r, m) /\ Live(q, m, w)
                 \/ ~ HasStop(r, m) /\ ~ HasStop(q, m) /\ x = w

-----------------------------------------------------------------------------
(* The inductive invariant. *)

(* Nobody is served before main has started the monitors, or by a process that
   has just begun. *)
StageInv ==
  /\ stage.at # "serving" => strayed = {} /\ \A h \in Handlers : task[h] = None
  /\ stage.at # "restoring" => stage.out = <<>>
  /\ stage.at = "loading" => \A m \in Monitors : Leads(mailbox, <<>>, started[m], m, None)

(* What a handler is doing, and which monitors its messages are about. *)
TaskInv ==
  \A h \in Handlers : task[h] # None =>
    /\ task[h].step \in {"check", "select"} => task[h].out = <<>>
    /\ task[h].kind \in {"create", "update"} => task[h].row \in Row
    /\ task[h].step = "select" => task[h].kind # "any"
    /\ task[h].step = "check" => task[h].kind = "update"
    /\ task[h].step = "send" => task[h].out # <<>> /\ task[h].kind = "any"
    /\ \A m \in Monitors \ task[h].ids : ~ HasStart(task[h].out, m) /\ ~ HasStop(task[h].out, m)

(* A monitor that has never been created is not started, and nothing is about
   to start it. *)
UnknownInv ==
  \A m \in Monitors \ issued :
    /\ table[m] = None /\ started[m] = None
    /\ ~ HasStart(mailbox, m) /\ ~ HasStart(stage.out, m)
    /\ \A h \in Handlers : task[h] # None => ~ HasStart(task[h].out, m)

(* What handler h has still to do brings monitor m in step: after the messages
   in the channel it sends those that are left; or it has written the row, and
   the distributor is where its message finds it. *)
Brings(h, m) ==
  /\ task[h].step = "send" => Leads(mailbox, task[h].out, started[m], m, Wanted(m))
  /\ Doing(h, "create", "select") =>
       table[m] = task[h].row /\ Leads(mailbox, <<>>, started[m], m, None)
  /\ Doing(h, "update", "select") => table[m] \in {task[h].row, None}
  /\ Doing(h, "enable", "select") =>
       /\ m \in Rows => table[m].active
       /\ \/ Leads(mailbox, <<>>, started[m], m, None)
          \/ Leads(mailbox, <<>>, started[m], m, Wanted(m))

(* A monitor that has not strayed is held by one handler, which brings it in
   step, or by none, and the channel does. *)
Follows(m) ==
  /\ \A g, h \in Handlers : m \in Holds(g) /\ m \in Holds(h) => g = h
  /\ \A h \in Handlers : m \in Holds(h) => Brings(h, m)
  /\ stage.at # "loading" /\ (\A h \in Handlers : m \notin Holds(h)) =>
       Leads(mailbox, stage.out, started[m], m, Wanted(m))

ServiceInv ==
  /\ TypeOK /\ StageInv /\ TaskInv /\ UnknownInv
  /\ \A m \in Monitors \ strayed : Follows(m)

-----------------------------------------------------------------------------
(* Lemmas: what a single change of a sequence of messages does to a monitor. *)

(* A start, a stop, a poll request and a notice differ. *)
LEMMA MessagesDiffer ==
  /\ \A m, n \in Monitors : StopMessage(m) = StopMessage(n) <=> m = n
  /\ \A m, n \in Monitors, c, d \in Configs :
       /\ StartOf(m, c) = StartOf(n, d) <=> m = n /\ c = d
       /\ StartOf(m, c) # StopMessage(n)
  /\ \A j \in Job, m \in Monitors :
       PollMessage(j) # StopMessage(m) /\ \A c \in Configs : PollMessage(j) # StartOf(m, c)
  /\ \A msg \in Notices, m \in Monitors :
       msg # StopMessage(m) /\ \A c \in Configs : msg # StartOf(m, c)
<1>1. \A m, n \in Monitors, c, d \in Configs : StartOf(m, c) = StartOf(n, d) => m = n /\ c = d
  <2> SUFFICES ASSUME NEW m \in Monitors, NEW n \in Monitors, NEW c \in Configs, NEW d \in Configs
               PROVE  StartOf(m, c) = StartOf(n, d) => m = n /\ c = d
    OBVIOUS
  <2>1. StartOf(m, c).job.mon = m /\ StartOf(m, c).job.cfg = c
    BY DEF StartOf, StartMessage
  <2>2. StartOf(n, d).job.mon = n /\ StartOf(n, d).job.cfg = d
    BY DEF StartOf, StartMessage
  <2> QED BY <2>1, <2>2
<1>5. \A m, n \in Monitors : StopMessage(m) = StopMessage(n) => m = n
  BY DEF StopMessage
<1>2. \A m, n \in Monitors, c \in Configs : StartOf(m, c) # StopMessage(n)
  BY DEF StartOf, StartMessage, StopMessage
<1>3. \A j \in Job, m \in Monitors :
        PollMessage(j) # StopMessage(m) /\ \A c \in Configs : PollMessage(j) # StartOf(m, c)
  BY DEF StartOf, StartMessage, StopMessage, PollMessage
<1>4. \A m \in Monitors, c \in Configs : [mon |-> m, cfg |-> c] \in Job
  BY DEF Job
<1>6. \A msg \in Notices, m \in Monitors :
        msg # StopMessage(m) /\ \A c \in Configs : msg # StartOf(m, c)
  BY <1>4, NoticesAssumption DEF StartOf
<1> QED BY <1>1, <1>2, <1>3, <1>5, <1>6

(* Nothing is in an empty sequence, and a live start is a start. *)
LEMMA EmptyFacts ==
  ASSUME NEW m \in Monitors
  PROVE  /\ ~ HasStart(<<>>, m) /\ ~ HasStop(<<>>, m) /\ \A c \in Configs : ~ Live(<<>>, m, c)
         /\ \A q : \A c \in Configs : Live(q, m, c) => HasStart(q, m)
BY DEF HasStart, HasStop, Live

(* A message at the end: a start is live, a stop ends all before it. *)
LEMMA AppendFacts ==
  ASSUME NEW q \in Seq(Message), NEW msg \in Message, NEW m \in Monitors
  PROVE  /\ HasStart(Append(q, msg), m) <=> HasStart(q, m) \/ \E c \in Configs : msg = StartOf(m, c)
         /\ HasStop(Append(q, msg), m) <=> HasStop(q, m) \/ msg = StopMessage(m)
         /\ \A c \in Configs : Live(Append(q, msg), m, c) <=>
              msg = StartOf(m, c) \/ (Live(q, m, c) /\ msg # StopMessage(m))
<1> DEFINE p == Append(q, msg)  n == Len(q) + 1
<1>1. Len(q) \in Nat /\ Len(p) = n /\ p[n] = msg /\ \A i \in 1 .. Len(q) : p[i] = q[i]
  OBVIOUS
<1>2. 1 .. n = 1 .. Len(q) \cup {n}
  BY <1>1
<1> HIDE DEF p
<1>3. HasStart(p, m) <=> HasStart(q, m) \/ \E c \in Configs : msg = StartOf(m, c)
  BY <1>1, <1>2 DEF HasStart
<1>4. HasStop(p, m) <=> HasStop(q, m) \/ msg = StopMessage(m)
  BY <1>1, <1>2 DEF HasStop
<1>5. ASSUME NEW c \in Configs
      PROVE  Live(p, m, c) <=> msg = StartOf(m, c) \/ (Live(q, m, c) /\ msg # StopMessage(m))
  <2>1. ASSUME Live(p, m, c)
        PROVE  msg = StartOf(m, c) \/ (Live(q, m, c) /\ msg # StopMessage(m))
    <3>1. PICK i \in 1 .. n : p[i] = StartOf(m, c) /\ \A k \in i + 1 .. n : p[k] # StopMessage(m)
      BY <2>1, <1>1 DEF Live
    <3>2. CASE i = n
      BY <3>1, <3>2, <1>1
    <3>3. CASE i # n
      <4>1. i \in 1 .. Len(q) /\ n \in i + 1 .. n /\ \A k \in i + 1 .. Len(q) : k \in i + 1 .. n
        BY <3>3, <1>1
      <4>2. \A k \in i + 1 .. Len(q) : q[k] # StopMessage(m)
        BY <4>1, <3>1, <1>1
      <4> QED BY <4>1, <4>2, <3>1, <1>1 DEF Live
    <3> QED BY <3>2, <3>3
  <2>2. ASSUME msg = StartOf(m, c) PROVE Live(p, m, c)
    <3>1. n \in 1 .. n /\ \A k \in n + 1 .. n : FALSE
      BY <1>1
    <3> QED BY <3>1, <2>2, <1>1 DEF Live
  <2>3. ASSUME Live(q, m, c), msg # StopMessage(m) PROVE Live(p, m, c)
    <3>1. PICK i \in 1 .. Len(q) :
            q[i] = StartOf(m, c) /\ \A k \in i + 1 .. Len(q) : q[k] # StopMessage(m)
      BY <2>3 DEF Live
    <3>2. i \in 1 .. n /\ \A k \in i + 1 .. n : k = n \/ (k \in i + 1 .. Len(q) /\ k \in 1 .. Len(q))
      BY <1>1
    <3> QED BY <3>1, <3>2, <2>3, <1>1 DEF Live
  <2> QED BY <2>1, <2>2, <2>3
<1> QED BY <1>3, <1>4, <1>5 DEF p

(* The message in front: a start is live unless the rest has a stop. *)
LEMMA FrontFacts ==
  ASSUME NEW q \in Seq(Message), q # <<>>, NEW m \in Monitors
  PROVE  /\ HasStart(q, m) <=> HasStart(Tail(q), m) \/ \E c \in Configs : Head(q) = StartOf(m, c)
         /\ HasStop(q, m) <=> HasStop(Tail(q), m) \/ Head(q) = StopMessage(m)
         /\ \A c \in Configs : Live(q, m, c) <=>
              Live(Tail(q), m, c) \/ (Head(q) = StartOf(m, c) /\ ~ HasStop(Tail(q), m))
<1> DEFINE t == Tail(q)
<1>1. Len(q) \in Nat /\ Len(q) >= 1 /\ Len(t) = Len(q) - 1 /\ \A i \in 1 .. Len(t) : t[i] = q[i + 1]
  OBVIOUS
<1>2. Head(q) = q[1]
  OBVIOUS
<1> DEFINE n == Len(q)
<1>3. n \in Nat /\ n >= 1 /\ Len(t) = n - 1 /\ \A i \in 1 .. n - 1 : t[i] = q[i + 1]
  BY <1>1
<1>4. \A i \in 2 .. n : i - 1 \in 1 .. n - 1 /\ q[i] = t[i - 1]
  <2> SUFFICES ASSUME NEW i \in 2 .. n PROVE i - 1 \in 1 .. n - 1 /\ q[i] = t[i - 1]
    OBVIOUS
  <2>1. i - 1 \in 1 .. n - 1 /\ (i - 1) + 1 = i
    BY <1>3
  <2> QED BY <2>1, <1>3
<1>5. /\ \A i \in 1 .. n : i = 1 \/ i \in 2 .. n
      /\ 1 \in 1 .. n
      /\ \A i \in 1 .. n - 1 : i + 1 \in 1 .. n /\ i + 1 \in 2 .. n
  BY <1>3
<1> HIDE DEF t, n
<1>6. HasStart(q, m) <=> HasStart(t, m) \/ \E c \in Configs : q[1] = StartOf(m, c)
  BY <1>3, <1>4, <1>5 DEF HasStart, n
<1>7. HasStop(q, m) <=> HasStop(t, m) \/ q[1] = StopMessage(m)
  BY <1>3, <1>4, <1>5 DEF HasStop, n
<1>8. ASSUME NEW c \in Configs
      PROVE  Live(q, m, c) <=> Live(t, m, c) \/ (q[1] = StartOf(m, c) /\ ~ HasStop(t, m))
  <2>1. ASSUME Live(q, m, c) PROVE Live(t, m, c) \/ (q[1] = StartOf(m, c) /\ ~ HasStop(t, m))
    <3>1. PICK i \in 1 .. n : q[i] = StartOf(m, c) /\ \A k \in i + 1 .. n : q[k] # StopMessage(m)
      BY <2>1 DEF Live, n
    <3>2. CASE i = 1
      <4>1. \A k \in 1 .. n - 1 : k + 1 \in i + 1 .. n
        BY <3>2, <1>3
      <4> QED BY <4>1, <3>1, <3>2, <1>3 DEF HasStop
    <3>3. CASE i # 1
      <4>1. i - 1 \in 1 .. n - 1 /\ t[i - 1] = StartOf(m, c)
        BY <3>3, <3>1, <1>4, <1>5
      <4>2. \A k \in (i - 1) + 1 .. n - 1 : k + 1 \in i + 1 .. n /\ k \in 1 .. n - 1
        BY <1>3
      <4> QED BY <4>1, <4>2, <3>1, <1>3 DEF Live
    <3> QED BY <3>2, <3>3
  <2>2. ASSUME Live(t, m, c) PROVE Live(q, m, c)
    <3>1. PICK i \in 1 .. n - 1 :
            t[i] = StartOf(m, c) /\ \A k \in i + 1 .. n - 1 : t[k] # StopMessage(m)
      BY <2>2, <1>3 DEF Live
    <3>2. i + 1 \in 1 .. n /\ q[i + 1] = StartOf(m, c)
      BY <3>1, <1>3, <1>5
    <3>3. \A k \in (i + 1) + 1 .. n : k - 1 \in i + 1 .. n - 1 /\ k \in 2 .. n
      BY <1>3
    <3>4. \A k \in (i + 1) + 1 .. n : q[k] # StopMessage(m)
      BY <3>3, <3>1, <1>4
    <3> QED BY <3>2, <3>4 DEF Live, n
  <2>3. ASSUME q[1] = StartOf(m, c), ~ HasStop(t, m) PROVE Live(q, m, c)
    <3>1. \A k \in 1 + 1 .. n : k \in 2 .. n
      BY <1>3
    <3>2. \A k \in 1 + 1 .. n : q[k] # StopMessage(m)
      BY <3>1, <2>3, <1>3, <1>4 DEF HasStop
    <3> QED BY <3>2, <2>3, <1>5 DEF Live, n
  <2> QED BY <2>1, <2>2, <2>3
<1> QED BY <1>2, <1>6, <1>7, <1>8 DEF t

(* Two sequences, one after the other. *)
LEMMA ConcatFacts ==
  ASSUME NEW p \in Seq(Message), NEW r \in Seq(Message), NEW m \in Monitors
  PROVE  /\ HasStart(p \o r, m) <=> HasStart(p, m) \/ HasStart(r, m)
         /\ HasStop(p \o r, m) <=> HasStop(p, m) \/ HasStop(r, m)
         /\ \A c \in Configs : Live(p \o r, m, c) <=>
              Live(r, m, c) \/ (Live(p, m, c) /\ ~ HasStop(r, m))
<1> DEFINE q == p \o r  k == Len(p)  n == Len(p) + Len(r)
<1>1. k \in Nat /\ Len(r) \in Nat /\ n = k + Len(r) /\ Len(q) = n
  BY ConcatProperties
<1>2. /\ \A i \in 1 .. k : i \in 1 .. n /\ q[i] = p[i]
      /\ \A i \in 1 .. Len(r) : k + i \in 1 .. n /\ q[k + i] = r[i]
  <2>1. \A i \in 1 .. n : q[i] = IF i <= k THEN p[i] ELSE r[i - k]
    BY ConcatProperties
  <2> HIDE DEF q, k, n
  <2>2. \A i \in 1 .. k : i \in 1 .. n /\ q[i] = p[i]
    BY <2>1, <1>1
  <2>3. ASSUME NEW i \in 1 .. Len(r) PROVE k + i \in 1 .. n /\ q[k + i] = r[i]
    <3>1. k + i \in 1 .. n /\ ~ (k + i <= k) /\ (k + i) - k = i
      BY <1>1
    <3> QED BY <3>1, <2>1
  <2> QED BY <2>2, <2>3
<1> HIDE DEF q, k, n
<1>3. \A i \in 1 .. n : i \in 1 .. k \/ (i - k \in 1 .. Len(r) /\ k + (i - k) = i)
  BY <1>1
<1>4. \A msg : (\E i \in 1 .. n : q[i] = msg) <=>
               (\E i \in 1 .. k : p[i] = msg) \/ (\E i \in 1 .. Len(r) : r[i] = msg)
  BY <1>2, <1>3
<1>5. /\ HasStart(q, m) <=> HasStart(p, m) \/ HasStart(r, m)
      /\ HasStop(q, m) <=> HasStop(p, m) \/ HasStop(r, m)
  BY <1>1, <1>4 DEF HasStart, HasStop, k
<1>6. ASSUME NEW c \in Configs
      PROVE  Live(q, m, c) <=> Live(r, m, c) \/ (Live(p, m, c) /\ ~ HasStop(r, m))
  <2>1. ASSUME Live(q, m, c) PROVE Live(r, m, c) \/ (Live(p, m, c) /\ ~ HasStop(r, m))
    <3>1. PICK i \in 1 .. n : q[i] = StartOf(m, c) /\ \A j \in i + 1 .. n : q[j] # StopMessage(m)
      BY <2>1, <1>1 DEF Live
    <3>2. CASE i \in 1 .. k
      <4>1. \A j \in i + 1 .. k : j \in i + 1 .. n /\ j \in 1 .. k
        BY <3>2, <1>1
      <4>2. \A j \in 1 .. Len(r) : k + j \in i + 1 .. n
        BY <3>2, <1>1
      <4>3. Live(p, m, c)
        BY <4>1, <3>1, <3>2, <1>2 DEF Live, k
      <4>4. ~ HasStop(r, m)
        BY <4>2, <3>1, <1>2 DEF HasStop
      <4> QED BY <4>3, <4>4
    <3>3. CASE i \notin 1 .. k
      <4>1. i - k \in 1 .. Len(r) /\ r[i - k] = StartOf(m, c)
        BY <3>3, <3>1, <1>2, <1>3
      <4>2. \A j \in (i - k) + 1 .. Len(r) : k + j \in i + 1 .. n /\ j \in 1 .. Len(r)
        BY <4>1, <1>1
      <4> QED BY <4>1, <4>2, <3>1, <1>2 DEF Live
    <3> QED BY <3>2, <3>3
  <2>2. ASSUME Live(r, m, c) PROVE Live(q, m, c)
    <3>1. PICK i \in 1 .. Len(r) :
            r[i] = StartOf(m, c) /\ \A j \in i + 1 .. Len(r) : r[j] # StopMessage(m)
      BY <2>2 DEF Live
    <3>2. \A j \in (k + i) + 1 .. n : j - k \in i + 1 .. Len(r) /\ j - k \in 1 .. Len(r) /\ k + (j - k) = j
      BY <1>1
    <3>3. \A j \in (k + i) + 1 .. n : q[j] # StopMessage(m)
      BY <3>2, <3>1, <1>2
    <3> QED BY <3>1, <3>3, <1>1, <1>2 DEF Live
  <2>3. ASSUME Live(p, m, c), ~ HasStop(r, m) PROVE Live(q, m, c)
    <3>1. PICK i \in 1 .. k : p[i] = StartOf(m, c) /\ \A j \in i + 1 .. k : p[j] # StopMessage(m)
      BY <2>3 DEF Live, k
    <3>2. \A j \in i + 1 .. n :
            (j \in i + 1 .. k /\ j \in 1 .. k) \/ (j - k \in 1 .. Len(r) /\ k + (j - k) = j)
      BY <1>1
    <3>3. \A j \in i + 1 .. n : q[j] # StopMessage(m)
      BY <3>2, <3>1, <2>3, <1>2 DEF HasStop
    <3> QED BY <3>1, <3>3, <1>1, <1>2 DEF Live
  <2> QED BY <2>1, <2>2, <2>3
<1> QED BY <1>5, <1>6 DEF q

-----------------------------------------------------------------------------
(* Lemmas: the orders in which a set of monitors is gone through. *)

(* An order names every monitor of the set and no other; there is one. *)
LEMMA OrderFacts ==
  ASSUME NEW S \in SUBSET Monitors
  PROVE  /\ SetToSeq(S) \in Orders(S)
         /\ \A ms \in Orders(S) :
              /\ ms \in Seq(S) /\ \A i \in 1 .. Len(ms) : ms[i] \in S
              /\ \A m \in S : \E i \in 1 .. Len(ms) : ms[i] = m
<1> DEFINE n == Cardinality(S)  D == 1 .. n
<1>1. IsFiniteSet(S)
  BY MonitorsAssumption, FS_Subset
<1>2. n \in Nat /\ ExistsBijection(D, S)
  BY <1>1, FS_CardinalityType
<1>3. Cardinality(D) = n
  <2>1. 1 \in Int /\ n \in Int
    BY <1>2
  <2>2. Cardinality(1 .. n) = IF 1 > n THEN 0 ELSE n - 1 + 1
    BY <2>1, FS_Interval
  <2> HIDE DEF n
  <2> QED BY <2>2, <1>2
<1> HIDE DEF n
<1>4. \E f \in [D -> S] : IsInjective(f)
  BY <1>2 DEF ExistsBijection, Bijection, Injection
<1>5. SetToSeq(S) \in [D -> S] /\ IsInjective(SetToSeq(S))
  BY <1>4 DEF SetToSeq, n
<1>6. SetToSeq(S) \in Orders(S)
  BY <1>5 DEF Orders, SetToSeqs, IsInjective, n
<1>7. ASSUME NEW ms \in Orders(S)
      PROVE  /\ ms \in Seq(S) /\ \A i \in 1 .. Len(ms) : ms[i] \in S
             /\ \A m \in S : \E i \in 1 .. Len(ms) : ms[i] = m
  <2>1. ms \in [D -> S] /\ \A i, j \in D : i # j => ms[i] # ms[j]
    BY DEF Orders, SetToSeqs, n
  <2>2. ms \in Injection(D, S)
    BY <2>1 DEF Injection, IsInjective
  <2>3. ms \in Surjection(D, S)
    BY <2>2, <1>1, <1>3, FS_Injection DEF n
  <2>4. ms \in Seq(S) /\ Len(ms) = n
    BY <2>1, <1>2
  <2> QED BY <2>1, <2>3, <2>4 DEF Surjection
<1> QED BY <1>6, <1>7

(* The starts of an order start its monitors as the table says, and stop none. *)
LEMMA StartsFacts ==
  ASSUME table \in [Monitors -> Row \cup {None}], NEW S \in SUBSET Rows, NEW ms \in Orders(S)
  PROVE  /\ Starts(ms) \in Seq(Message)
         /\ \A m \in Monitors :
              /\ ~ HasStop(Starts(ms), m)
              /\ HasStart(Starts(ms), m) <=> m \in S
              /\ \A c \in Configs : Live(Starts(ms), m, c) <=> m \in S /\ c = table[m].cfg
<1> DEFINE q == Starts(ms)
<1>1. \A m \in S : m \in Monitors /\ table[m] \in Row /\ table[m].cfg \in Configs
  BY DEF Rows, Row
<1>2. /\ ms \in Seq(S) /\ \A i \in 1 .. Len(ms) : ms[i] \in S
      /\ \A m \in S : \E i \in 1 .. Len(ms) : ms[i] = m
  <2>1. S \in SUBSET Monitors
    BY DEF Rows
  <2> QED BY <2>1, OrderFacts
<1>3. DOMAIN ms = 1 .. Len(ms) /\ Len(ms) \in Nat
  BY <1>2
<1>4. \A i \in 1 .. Len(ms) : q[i] = StartOf(ms[i], table[ms[i]].cfg)
  BY <1>3 DEF Starts, StartOf, JobOf
<1>5. \A i \in 1 .. Len(ms) : q[i] \in Message
  <2> SUFFICES ASSUME NEW i \in 1 .. Len(ms) PROVE q[i] \in Message
    OBVIOUS
  <2>1. JobOf(ms[i]) \in Job
    BY <1>1, <1>2 DEF Job, JobOf
  <2> QED BY <2>1, <1>3 DEF Message, Starts
<1>6. q \in Seq(Message) /\ Len(q) = Len(ms)
  <2>1. q = [i \in 1 .. Len(ms) |-> q[i]]
    BY <1>3 DEF Starts
  <2>2. q \in [1 .. Len(ms) -> Message]
    BY <2>1, <1>5
  <2> QED BY <2>2, <1>3
<1> HIDE DEF q
<1>7. ASSUME NEW m \in Monitors
      PROVE  /\ ~ HasStop(q, m)
             /\ HasStart(q, m) <=> m \in S
             /\ \A c \in Configs : Live(q, m, c) <=> m \in S /\ c = table[m].cfg
  <2>1. \A i \in 1 .. Len(q) : q[i] # StopMessage(m)
    BY <1>1, <1>2, <1>4, <1>6, MessagesDiffer
  <2>2. \A i \in 1 .. Len(q), c \in Configs : q[i] = StartOf(m, c) <=> ms[i] = m /\ c = table[m].cfg
    BY <1>1, <1>2, <1>4, <1>6, MessagesDiffer
  <2>3. ~ HasStop(q, m)
    BY <2>1 DEF HasStop
  <2>4. \A c \in Configs : Live(q, m, c) <=> m \in S /\ c = table[m].cfg
    <3>1. \A i \in 1 .. Len(q) : \A k \in i + 1 .. Len(q) : k \in 1 .. Len(q)
      BY <1>3, <1>6
    <3> QED BY <3>1, <2>1, <2>2, <1>1, <1>2, <1>6 DEF Live
  <2>5. HasStart(q, m) <=> m \in S
    BY <2>2, <1>1, <1>2, <1>6 DEF HasStart
  <2> QED BY <2>3, <2>4, <2>5
<1> QED BY <1>6, <1>7 DEF q

(* The stops of an order stop its monitors, and start none. *)
LEMMA StopsFacts ==
  ASSUME NEW S \in SUBSET Monitors, NEW ms \in Orders(S)
  PROVE  /\ Stops(ms) \in Seq(Message)
         /\ \A m \in Monitors :
              /\ HasStop(Stops(ms), m) <=> m \in S
              /\ ~ HasStart(Stops(ms), m)
              /\ \A c \in Configs : ~ Live(Stops(ms), m, c)
<1> DEFINE q == Stops(ms)
<1>1. /\ ms \in Seq(S) /\ \A i \in 1 .. Len(ms) : ms[i] \in S
      /\ \A m \in S : \E i \in 1 .. Len(ms) : ms[i] = m
  BY OrderFacts
<1>2. DOMAIN ms = 1 .. Len(ms) /\ Len(ms) \in Nat
  BY <1>1
<1>3. q = [i \in 1 .. Len(ms) |-> StopMessage(ms[i])]
  BY <1>2 DEF Stops
<1>4. q \in [1 .. Len(ms) -> Message]
  BY <1>1, <1>3 DEF Message
<1>5. q \in Seq(Message) /\ Len(q) = Len(ms) /\ \A i \in 1 .. Len(q) : q[i] = StopMessage(ms[i])
  BY <1>2, <1>3, <1>4
<1> HIDE DEF q
<1>6. ASSUME NEW m \in Monitors
      PROVE  /\ HasStop(q, m) <=> m \in S
             /\ ~ HasStart(q, m) /\ \A c \in Configs : ~ Live(q, m, c)
  <2>1. \A i \in 1 .. Len(q) : q[i] = StopMessage(m) <=> ms[i] = m
    BY <1>1, <1>5, MessagesDiffer
  <2>2. \A i \in 1 .. Len(q), c \in Configs : q[i] # StartOf(m, c)
    BY <1>1, <1>5, MessagesDiffer
  <2> QED BY <2>1, <2>2, <1>1, <1>5 DEF HasStop, HasStart, Live
<1> QED BY <1>5, <1>6 DEF q

(* What a handler that starts the monitors it finds sends: nothing, unless the
   row is active. *)
LEMMA RestartsFacts ==
  ASSUME table \in [Monitors -> Row \cup {None}], NEW ids \in SUBSET Monitors, NEW row
  PROVE  /\ Restarts(ids, row) \in Seq(Message)
         /\ \A m \in Monitors :
              /\ ~ HasStop(Restarts(ids, row), m)
              /\ HasStart(Restarts(ids, row), m) => m \in ids \cap Rows
         /\ row.active => \A m \in Monitors, c \in Configs :
              Live(Restarts(ids, row), m, c) <=> m \in ids \cap Rows /\ c = table[m].cfg
         /\ ~ row.active => Restarts(ids, row) = <<>>
<1>1. CASE row.active
  <2> DEFINE S == ids \cap Rows
  <2>1. S \in SUBSET Rows /\ S \in SUBSET Monitors
    BY DEF Rows
  <2>2. Restarts(ids, row) = Starts(SetToSeq(S))
    BY <1>1 DEF Restarts
  <2> HIDE DEF S
  <2>3. SetToSeq(S) \in Orders(S)
    BY <2>1, OrderFacts
  <2>4. /\ Starts(SetToSeq(S)) \in Seq(Message)
        /\ \A m \in Monitors :
             /\ ~ HasStop(Starts(SetToSeq(S)), m)
             /\ HasStart(Starts(SetToSeq(S)), m) <=> m \in S
             /\ \A c \in Configs :
                  Live(Starts(SetToSeq(S)), m, c) <=> m \in S /\ c = table[m].cfg
    BY <2>1, <2>3, StartsFacts, Zenon
  <2> QED BY <1>1, <2>2, <2>4 DEF S
<1>2. CASE ~ row.active
  <2>1. Restarts(ids, row) = <<>> /\ <<>> \in Seq(Message)
    BY <1>2 DEF Restarts
  <2> QED BY <1>2, <2>1, EmptyFacts
<1> QED BY <1>1, <1>2

-----------------------------------------------------------------------------
(* Lemmas: how a step of the channel changes where a monitor is led. *)

(* The distributor carries out the message in front. *)
LEMMA LeadsApply ==
  ASSUME NEW q \in Seq(Message), q # <<>>, NEW m \in Monitors, NEW r, NEW x, NEW y,
         NEW w \in Configs \cup {None},
         Leads(q, r, x, m, w),
         \/ Head(q) = StopMessage(m) /\ y = None
         \/ \E c \in Configs : Head(q) = StartOf(m, c) /\ y = IF x = None THEN c ELSE x
         \/ Head(q) # StopMessage(m) /\ (\A c \in Configs : Head(q) # StartOf(m, c)) /\ y = x
  PROVE  Leads(Tail(q), r, y, m, w)
<1> DEFINE t == Tail(q)
<1>1. /\ HasStop(q, m) <=> HasStop(t, m) \/ Head(q) = StopMessage(m)
      /\ \A c \in Configs : Live(q, m, c) <=>
           Live(t, m, c) \/ (Head(q) = StartOf(m, c) /\ ~ HasStop(t, m))
  BY FrontFacts
<1>2. \A c, d \in Configs : StartOf(m, c) # StopMessage(m) /\ (StartOf(m, c) = StartOf(m, d) => c = d)
  BY MessagesDiffer
<1>3. \A c \in Configs : c # None
  BY NoneAssumption
<1> HIDE DEF t
<1>4. ASSUME Head(q) = StopMessage(m), y = None PROVE Leads(t, r, y, m, w)
  <2>1. HasStop(q, m) /\ \A c \in Configs : Live(q, m, c) <=> Live(t, m, c)
    BY <1>1, <1>2, <1>4
  <2> QED BY <2>1, <1>4 DEF Leads
<1>5. ASSUME NEW c \in Configs, Head(q) = StartOf(m, c), y = IF x = None THEN c ELSE x
      PROVE  Leads(t, r, y, m, w)
  BY <1>1, <1>2, <1>3, <1>5 DEF Leads
<1>6. ASSUME Head(q) # StopMessage(m), \A c \in Configs : Head(q) # StartOf(m, c), y = x
      PROVE  Leads(t, r, y, m, w)
  <2>1. (HasStop(q, m) <=> HasStop(t, m)) /\ \A c \in Configs : Live(q, m, c) <=> Live(t, m, c)
    BY <1>1, <1>6
  <2> QED BY <2>1, <1>6 DEF Leads
<1>7. ASSUME \E c \in Configs : Head(q) = StartOf(m, c) /\ y = IF x = None THEN c ELSE x
      PROVE  Leads(t, r, y, m, w)
  <2>1. PICK c \in Configs : Head(q) = StartOf(m, c) /\ y = IF x = None THEN c ELSE x
    BY <1>7
  <2>2. Head(q) = StartOf(m, c) /\ y = IF x = None THEN c ELSE x
    BY <2>1
  <2> QED BY <2>2, <1>5
<1>8. Leads(t, r, y, m, w)
  BY <1>4, <1>6, <1>7
<1> QED BY <1>8 DEF t

(* A message that is not about the monitor is accepted. *)
LEMMA LeadsPast ==
  ASSUME NEW q \in Seq(Message), NEW msg \in Message, NEW m \in Monitors, NEW r, NEW x,
         NEW w \in Configs \cup {None},
         Leads(q, r, x, m, w), msg # StopMessage(m), \A c \in Configs : msg # StartOf(m, c)
  PROVE  Leads(Append(q, msg), r, x, m, w)
BY AppendFacts DEF Leads

(* The next message to be sent is accepted. *)
LEMMA LeadsMove ==
  ASSUME NEW q \in Seq(Message), NEW r \in Seq(Message), r # <<>>, NEW m \in Monitors, NEW x,
         NEW w \in Configs \cup {None}, Leads(q, r, x, m, w)
  PROVE  Leads(Append(q, Head(r)), Tail(r), x, m, w)
<1>1. Head(r) \in Message
  OBVIOUS
<1>2. \A c, d \in Configs : StartOf(m, c) # StopMessage(m)
  BY MessagesDiffer
<1> QED BY <1>1, <1>2, AppendFacts, FrontFacts DEF Leads

-----------------------------------------------------------------------------
(* Lemmas: what the shared steps of the handlers do to their tasks. *)

(* A handler with something to do has a task. *)
LEMMA BusyFacts ==
  ASSUME TypeOK, NEW h \in Handlers, task[h] # None
  PROVE  /\ task[h].ids \in SUBSET Monitors /\ task[h].row \in Row \cup {None}
         /\ task[h].out \in Seq(Message)
         /\ task[h].kind \in {"create", "update", "enable", "any"}
         /\ task[h].step \in {"check", "select", "send"}
BY DEF TypeOK, Task

(* A handler goes on to look up what it has written. *)
LEMMA SelectFacts ==
  ASSUME TypeOK, NEW h \in Handlers, NEW kind \in {"create", "update", "enable"},
         NEW ids \in SUBSET Monitors, NEW row \in Row \cup {None}, ThenSelect(h, kind, ids, row)
  PROVE  /\ task' \in [Handlers -> Task \cup {None}]
         /\ \A g \in Handlers \ {h} : task'[g] = task[g]
         /\ task'[h] # None /\ task'[h].kind = kind /\ task'[h].step = "select"
         /\ task'[h].ids = ids /\ task'[h].row = row /\ task'[h].out = <<>>
<1> DEFINE t == [kind |-> kind, step |-> "select", ids |-> ids, row |-> row, out |-> <<>>]
<1>1. t \in Task
  BY DEF Task
<1>2. t.kind = kind /\ t.step = "select" /\ t.ids = ids /\ t.row = row /\ t.out = <<>>
  OBVIOUS
<1>3. task' = [task EXCEPT ![h] = t]
  BY DEF ThenSelect
<1>4. t # None
  BY <1>1, NoneAssumption
<1> HIDE DEF t
<1> QED BY <1>1, <1>2, <1>3, <1>4 DEF TypeOK

(* A handler goes on to send messages, if there are any. *)
LEMMA SendFacts ==
  ASSUME TypeOK, NEW h \in Handlers, NEW ids \in SUBSET Monitors, NEW out \in Seq(Message),
         ThenSend(h, ids, out)
  PROVE  /\ task' \in [Handlers -> Task \cup {None}]
         /\ \A g \in Handlers \ {h} : task'[g] = task[g]
         /\ out = <<>> => task'[h] = None
         /\ out # <<>> => /\ task'[h] # None /\ task'[h].kind = "any" /\ task'[h].step = "send"
                         /\ task'[h].ids = ids /\ task'[h].row = None /\ task'[h].out = out
<1> DEFINE t == [kind |-> "any", step |-> "send", ids |-> ids, row |-> None, out |-> out]
<1>1. t \in Task
  BY DEF Task
<1>2. t.kind = "any" /\ t.step = "send" /\ t.ids = ids /\ t.row = None /\ t.out = out
  OBVIOUS
<1>3. task' = [task EXCEPT ![h] = IF out = <<>> THEN None ELSE t]
  BY DEF ThenSend
<1>4. t # None
  BY <1>1, NoneAssumption
<1> HIDE DEF t
<1> QED BY <1>1, <1>2, <1>3, <1>4 DEF TypeOK

(* A handler ends. *)
LEMMA EndsFacts ==
  ASSUME TypeOK, NEW h \in Handlers, Ends(h)
  PROVE  /\ task' \in [Handlers -> Task \cup {None}]
         /\ \A g \in Handlers \ {h} : task'[g] = task[g]
         /\ task'[h] = None
BY DEF Ends, TypeOK

(* A request to update a monitor waits for its check. *)
LEMMA CheckFacts ==
  ASSUME TypeOK, NEW h \in Handlers, NEW url \in Monitors, NEW m \in Monitors, NEW row \in Row,
         UpdateCheck(h, url, m, row)
  PROVE  /\ task' \in [Handlers -> Task \cup {None}]
         /\ \A g \in Handlers \ {h} : task'[g] = task[g]
         /\ task'[h] # None /\ task'[h].kind = "update" /\ task'[h].step = "check"
         /\ task'[h].ids = {m} /\ task'[h].row = row /\ task'[h].out = <<>>
<1> DEFINE t == [kind |-> "update", step |-> "check", ids |-> {m}, row |-> row, out |-> <<>>]
<1>1. t \in Task
  BY DEF Task
<1>2. t.kind = "update" /\ t.step = "check" /\ t.ids = {m} /\ t.row = row /\ t.out = <<>>
  OBVIOUS
<1>3. task' = [task EXCEPT ![h] = t]
  BY DEF UpdateCheck
<1>4. t # None
  BY <1>1, NoneAssumption
<1> HIDE DEF t
<1> QED BY <1>1, <1>2, <1>3, <1>4 DEF TypeOK

(* A message is accepted while there is room for it. *)
LEMMA AcceptFacts ==
  ASSUME TypeOK, NEW msg \in Message, Len(mailbox) < Room, mailbox' = Append(mailbox, msg)
  PROVE  mailbox' \in Seq(Message) /\ Len(mailbox') <= Room
<1>1. mailbox \in Seq(Message) /\ Len(mailbox) \in Nat /\ Room \in Nat
  BY RoomAssumption DEF TypeOK
<1>2. mailbox' \in Seq(Message) /\ Len(mailbox') = Len(mailbox) + 1
  BY <1>1
<1> QED BY <1>1, <1>2

(* The distributor takes the message in front. *)
LEMMA TakeFacts ==
  ASSUME TypeOK, NEW msg, Take(msg)
  PROVE  /\ mailbox # <<>> /\ Head(mailbox) = msg /\ mailbox' = Tail(mailbox)
         /\ mailbox' \in Seq(Message) /\ Len(mailbox') <= Room
<1>1. mailbox \in Seq(Message) /\ Len(mailbox) \in Nat /\ Room \in Nat /\ Len(mailbox) <= Room
  BY RoomAssumption DEF TypeOK
<1>2. mailbox # <<>> /\ Head(mailbox) = msg /\ mailbox' = Tail(mailbox)
  BY DEF Take
<1>3. mailbox' \in Seq(Message) /\ Len(mailbox') = Len(mailbox) - 1
  BY <1>1, <1>2, HeadTailProperties
<1> QED BY <1>1, <1>2, <1>3

(* A step of the distributor or of a poll starts no monitor that was not to be
   started, and leads every monitor where it was led before. *)
LEMMA DistributeFacts ==
  ASSUME TypeOK, Distribute
  PROVE  /\ mailbox' \in Seq(Message) /\ Len(mailbox') <= Room
         /\ started' \in [Monitors -> Configs \cup {None}]
         /\ due' \in [Job -> Nat]
         /\ \A m \in Monitors :
              /\ ~ HasStart(mailbox, m) => ~ HasStart(mailbox', m)
              /\ started[m] = None /\ ~ HasStart(mailbox, m) => started'[m] = None
              /\ \A r : \A w \in Configs \cup {None} :
                   Leads(mailbox, r, started[m], m, w) => Leads(mailbox', r, started'[m], m, w)
<1> DEFINE Typed == /\ mailbox' \in Seq(Message) /\ Len(mailbox') <= Room
                    /\ started' \in [Monitors -> Configs \cup {None}]
                    /\ due' \in [Job -> Nat]
           Fresh(m) == /\ ~ HasStart(mailbox, m) => ~ HasStart(mailbox', m)
                       /\ started[m] = None /\ ~ HasStart(mailbox, m) => started'[m] = None
           Led(m) == \A r : \A w \in Configs \cup {None} :
                       Leads(mailbox, r, started[m], m, w) => Leads(mailbox', r, started'[m], m, w)
<1>1. /\ mailbox \in Seq(Message) /\ Len(mailbox) <= Room
      /\ started \in [Monitors -> Configs \cup {None}] /\ due \in [Job -> Nat]
  BY DEF TypeOK
<1>2. ASSUME NEW j \in Job, ApplyStart(j) PROVE Typed /\ \A m \in Monitors : Fresh(m) /\ Led(m)
  <2>1. Take(StartMessage(j)) /\ due' = due
    BY <1>2 DEF ApplyStart
  <2>2. /\ mailbox # <<>> /\ Head(mailbox) = StartMessage(j) /\ mailbox' = Tail(mailbox)
        /\ mailbox' \in Seq(Message) /\ Len(mailbox') <= Room
    BY <2>1, TakeFacts
  <2>3. j.mon \in Monitors /\ j.cfg \in Configs /\ StartMessage(j) = StartOf(j.mon, j.cfg)
    BY DEF Job, StartOf
  <2>4. /\ started' \in [Monitors -> Configs \cup {None}]
        /\ started'[j.mon] = IF started[j.mon] = None THEN j.cfg ELSE started[j.mon]
        /\ \A m \in Monitors \ {j.mon} : started'[m] = started[m]
    BY <1>1, <1>2, <2>3 DEF ApplyStart
  <2>5. ASSUME NEW m \in Monitors PROVE Fresh(m)
    <3>1. HasStart(mailbox, m) <=> HasStart(Tail(mailbox), m) \/ \E c \in Configs : Head(mailbox) = StartOf(m, c)
      BY <1>1, <2>2, FrontFacts
    <3> QED BY <3>1, <2>2, <2>3, <2>4
  <2>6. ASSUME NEW m \in Monitors PROVE Led(m)
    <3> SUFFICES ASSUME NEW r, NEW w \in Configs \cup {None}, Leads(mailbox, r, started[m], m, w)
                 PROVE  Leads(Tail(mailbox), r, started'[m], m, w)
      BY <2>2
    <3>1. CASE m = j.mon
      <4>1. \E c \in Configs : Head(mailbox) = StartOf(m, c)
                              /\ started'[m] = IF started[m] = None THEN c ELSE started[m]
        BY <2>2, <2>3, <2>4, <3>1
      <4> QED BY <4>1, <1>1, <2>2, LeadsApply
    <3>2. CASE m # j.mon
      <4>1. Head(mailbox) # StopMessage(m) /\ (\A c \in Configs : Head(mailbox) # StartOf(m, c))
        BY <2>2, <2>3, <3>2, MessagesDiffer
      <4>2. started'[m] = started[m]
        BY <2>4, <3>2
      <4> QED BY <4>1, <4>2, <1>1, <2>2, LeadsApply
    <3> QED BY <3>1, <3>2
  <2> QED BY <1>1, <2>1, <2>2, <2>4, <2>5, <2>6
<1>3. ASSUME NEW k \in Monitors, ApplyStop(k) PROVE Typed /\ \A m \in Monitors : Fresh(m) /\ Led(m)
  <2>1. Take(StopMessage(k)) /\ due' = due
    BY <1>3 DEF ApplyStop
  <2>2. /\ mailbox # <<>> /\ Head(mailbox) = StopMessage(k) /\ mailbox' = Tail(mailbox)
        /\ mailbox' \in Seq(Message) /\ Len(mailbox') <= Room
    BY <2>1, TakeFacts
  <2>3. /\ started' \in [Monitors -> Configs \cup {None}] /\ started'[k] = None
        /\ \A m \in Monitors \ {k} : started'[m] = started[m]
    BY <1>1, <1>3 DEF ApplyStop
  <2>4. ASSUME NEW m \in Monitors PROVE Fresh(m)
    <3>1. HasStart(mailbox, m) <=> HasStart(Tail(mailbox), m) \/ \E c \in Configs : Head(mailbox) = StartOf(m, c)
      BY <1>1, <2>2, FrontFacts
    <3> QED BY <3>1, <2>2, <2>3
  <2>5. ASSUME NEW m \in Monitors PROVE Led(m)
    <3> SUFFICES ASSUME NEW r, NEW w \in Configs \cup {None}, Leads(mailbox, r, started[m], m, w)
                 PROVE  Leads(Tail(mailbox), r, started'[m], m, w)
      BY <2>2
    <3>1. CASE m = k
      BY <1>1, <2>2, <2>3, <3>1, LeadsApply
    <3>2. CASE m # k
      <4>1. Head(mailbox) # StopMessage(m) /\ (\A c \in Configs : Head(mailbox) # StartOf(m, c))
        BY <2>2, <3>2, MessagesDiffer
      <4>2. started'[m] = started[m]
        BY <2>3, <3>2
      <4> QED BY <4>1, <4>2, <1>1, <2>2, LeadsApply
    <3> QED BY <3>1, <3>2
  <2> QED BY <1>1, <2>1, <2>2, <2>3, <2>4, <2>5
<1>4. ASSUME NEW msg, Take(msg), started' = started, due' \in [Job -> Nat],
             \A m \in Monitors : msg # StopMessage(m) /\ \A c \in Configs : msg # StartOf(m, c)
      PROVE  Typed /\ \A m \in Monitors : Fresh(m) /\ Led(m)
  <2>1. /\ mailbox # <<>> /\ Head(mailbox) = msg /\ mailbox' = Tail(mailbox)
        /\ mailbox' \in Seq(Message) /\ Len(mailbox') <= Room
    BY <1>4, TakeFacts
  <2>2. ASSUME NEW m \in Monitors PROVE Fresh(m)
    <3>1. HasStart(mailbox, m) <=> HasStart(Tail(mailbox), m) \/ \E c \in Configs : Head(mailbox) = StartOf(m, c)
      BY <1>1, <2>1, FrontFacts
    <3> QED BY <3>1, <2>1, <1>4
  <2>3. ASSUME NEW m \in Monitors PROVE Led(m)
    <3> SUFFICES ASSUME NEW r, NEW w \in Configs \cup {None}, Leads(mailbox, r, started[m], m, w)
                 PROVE  Leads(Tail(mailbox), r, started[m], m, w)
      BY <2>1, <1>4
    <3>1. Head(mailbox) # StopMessage(m) /\ (\A c \in Configs : Head(mailbox) # StartOf(m, c))
      BY <2>1, <1>4
    <3> QED BY <3>1, <1>1, <2>1, LeadsApply
  <2> QED BY <1>1, <1>4, <2>1, <2>2, <2>3
<1>5. ASSUME NEW j \in Job, ApplyPoll(j) PROVE Typed /\ \A m \in Monitors : Fresh(m) /\ Led(m)
  <2>1. Polled(j) \in Job
    BY <1>1 DEF Polled, Job
  <2>2. Take(PollMessage(j)) /\ started' = started /\ due' \in [Job -> Nat]
    BY <1>1, <1>5, <2>1 DEF ApplyPoll
  <2> QED BY <2>2, <1>4, MessagesDiffer
<1>6. ASSUME NEW msg \in Notices, ApplyNotice(msg)
      PROVE  Typed /\ \A m \in Monitors : Fresh(m) /\ Led(m)
  <2>1. Take(msg) /\ started' = started /\ due' \in [Job -> Nat]
    BY <1>1, <1>6 DEF ApplyNotice
  <2> QED BY <2>1, <1>4, MessagesDiffer
<1>7. ASSUME NEW k \in Monitors, Fire(k) PROVE Typed /\ \A m \in Monitors : Fresh(m) /\ Led(m)
  <2>1. [mon |-> k, cfg |-> started[k]] \in Job
    BY <1>1, <1>7 DEF Fire, Job
  <2>2. mailbox' = mailbox /\ started' = started /\ due' \in [Job -> Nat]
    BY <1>1, <1>7, <2>1 DEF Fire
  <2> QED BY <1>1, <2>2
<1>8. ASSUME NEW j \in Job, NEW msg \in Notices, Len(mailbox) < Room, Finish(j, msg)
      PROVE  Typed /\ \A m \in Monitors : Fresh(m) /\ Led(m)
  <2>1. mailbox' = Append(mailbox, msg) /\ started' = started
    BY <1>8 DEF Finish, Put
  <2>2. due' \in [Job -> Nat]
    <3>1. due[j] - 1 \in Nat
      BY <1>1, <1>8 DEF Finish
    <3> QED BY <3>1, <1>1, <1>8 DEF Finish
  <2>3. msg \in Message
    BY DEF Message
  <2>4. mailbox' \in Seq(Message) /\ Len(mailbox') <= Room
    BY <1>8, <2>1, <2>3, AcceptFacts
  <2>5. \A m \in Monitors : msg # StopMessage(m) /\ \A c \in Configs : msg # StartOf(m, c)
    BY MessagesDiffer
  <2>6. ASSUME NEW m \in Monitors PROVE Fresh(m)
    BY <1>1, <2>1, <2>3, <2>5, AppendFacts
  <2>7. ASSUME NEW m \in Monitors PROVE Led(m)
    BY <1>1, <2>1, <2>3, <2>5, LeadsPast
  <2> QED BY <1>1, <2>1, <2>2, <2>4, <2>6, <2>7
<1>9. Typed /\ \A m \in Monitors : Fresh(m) /\ Led(m)
  BY <1>2, <1>3, <1>5, <1>6, <1>7, <1>8 DEF Distribute, RegApply
<1> QED BY <1>9

(* The messages of a handler or of main, one by one: what is left. *)
LEMMA RestFacts ==
  ASSUME NEW q \in Seq(Message), q # <<>>, NEW m \in Monitors
  PROVE  /\ Head(q) \in Message /\ Tail(q) \in Seq(Message)
         /\ ~ HasStart(q, m) => ~ HasStart(Tail(q), m) /\ \A c \in Configs : Head(q) # StartOf(m, c)
         /\ ~ HasStop(q, m) => ~ HasStop(Tail(q), m) /\ Head(q) # StopMessage(m)
<1>1. Head(q) \in Message /\ Tail(q) \in Seq(Message)
  BY HeadTailProperties
<1> QED BY <1>1, FrontFacts

(* What a handler has to send after the lookup of an update. *)
LEMMA UpdateOutFacts ==
  ASSUME TypeOK, NEW ids \in SUBSET Monitors, NEW row
  PROVE  LET out == Stops(SetToSeq(ids)) \o Restarts(ids, row) IN
         /\ out \in Seq(Message)
         /\ \A m \in Monitors :
              /\ HasStart(out, m) => m \in ids \cap Rows
              /\ HasStop(out, m) <=> m \in ids
              /\ row.active => \A c \in Configs : Live(out, m, c) <=> m \in ids \cap Rows /\ c = table[m].cfg
              /\ ~ row.active => \A c \in Configs : ~ Live(out, m, c)
<1> DEFINE p == Stops(SetToSeq(ids))  r == Restarts(ids, row)
<1>1. table \in [Monitors -> Row \cup {None}]
  BY DEF TypeOK
<1>2. /\ r \in Seq(Message)
      /\ \A m \in Monitors : ~ HasStop(r, m) /\ (HasStart(r, m) => m \in ids \cap Rows)
      /\ row.active => \A m \in Monitors, c \in Configs : Live(r, m, c) <=> m \in ids \cap Rows /\ c = table[m].cfg
      /\ ~ row.active => r = <<>>
  BY <1>1, RestartsFacts
<1>3. SetToSeq(ids) \in Orders(ids)
  BY OrderFacts
<1>4. /\ p \in Seq(Message)
      /\ \A m \in Monitors :
           (HasStop(p, m) <=> m \in ids) /\ ~ HasStart(p, m) /\ \A c \in Configs : ~ Live(p, m, c)
  BY <1>3, StopsFacts
<1> HIDE DEF p, r
<1>5. p \o r \in Seq(Message)
  BY <1>2, <1>4
<1>6. ASSUME NEW m \in Monitors
      PROVE  /\ HasStart(p \o r, m) => m \in ids \cap Rows
             /\ HasStop(p \o r, m) <=> m \in ids
             /\ row.active => \A c \in Configs : Live(p \o r, m, c) <=> m \in ids \cap Rows /\ c = table[m].cfg
             /\ ~ row.active => \A c \in Configs : ~ Live(p \o r, m, c)
  <2>1. /\ HasStart(p \o r, m) <=> HasStart(p, m) \/ HasStart(r, m)
        /\ HasStop(p \o r, m) <=> HasStop(p, m) \/ HasStop(r, m)
        /\ \A c \in Configs : Live(p \o r, m, c) <=> Live(r, m, c) \/ (Live(p, m, c) /\ ~ HasStop(r, m))
    BY <1>2, <1>4, ConcatFacts
  <2>2. ~ row.active => \A c \in Configs : ~ Live(r, m, c)
    BY <1>2, EmptyFacts
  <2> QED BY <1>2, <1>4, <2>1, <2>2
<1>7. /\ p \o r \in Seq(Message)
      /\ \A m \in Monitors :
           /\ HasStart(p \o r, m) => m \in ids \cap Rows
           /\ HasStop(p \o r, m) <=> m \in ids
           /\ row.active => \A c \in Configs : Live(p \o r, m, c) <=> m \in ids \cap Rows /\ c = table[m].cfg
           /\ ~ row.active => \A c \in Configs : ~ Live(p \o r, m, c)
  BY <1>5, <1>6
<1> QED BY <1>7 DEF p, r

-----------------------------------------------------------------------------
(* Every variable keeps its type: one step per action. *)
LEMMA TypeStep == TypeOK /\ TaskInv /\ [Next]_vars => TypeOK'
<1> SUFFICES ASSUME TypeOK, TaskInv, [Next]_vars PROVE TypeOK'
  OBVIOUS
<1> DEFINE Channel == /\ mailbox' \in Seq(Message) /\ Len(mailbox') <= Room
                      /\ started' \in [Monitors -> Configs \cup {None}]
                      /\ due' \in [Job -> Nat]
           Tables == /\ table' \in [Monitors -> Row \cup {None}]
                     /\ issued' \subseteq Monitors /\ strayed' \subseteq Monitors
           Stages == stage' \in [at : {"loading", "restoring", "serving"}, out : Seq(Message)]
           Tasks == task' \in [Handlers -> Task \cup {None}]
<1>0. /\ UNCHANGED regVars => Channel
      /\ UNCHANGED <<table, issued, strayed>> => Tables
      /\ UNCHANGED stage => Stages
      /\ UNCHANGED task => Tasks
  BY DEF TypeOK, regVars
<1>t. /\ table \in [Monitors -> Row \cup {None}] /\ issued \subseteq Monitors /\ strayed \subseteq Monitors
      /\ stage.out \in Seq(Message) /\ stage \in [at : {"loading", "restoring", "serving"}, out : Seq(Message)]
      /\ task \in [Handlers -> Task \cup {None}]
  BY DEF TypeOK
<1>s. ASSUME NEW h \in Handlers, NEW ids \in SUBSET Monitors, NEW settles, Strays(h, ids, settles)
      PROVE  strayed' \subseteq Monitors
  BY <1>s, <1>t DEF Strays, Contended
<1>m. ASSUME NEW msg \in Message, Len(mailbox) < Room, Accept(msg) PROVE Channel
  <2>1. mailbox' = Append(mailbox, msg) /\ started' = started /\ due' = due
    BY <1>m DEF Accept, Put
  <2> QED BY <2>1, <1>m, AcceptFacts DEF TypeOK
<1>1. ASSUME NEW h \in Handlers, NEW m \in Monitors, NEW row \in Row, CreateInsert(h, m, row)
      PROVE  TypeOK'
  <2>1. Tasks
    BY <1>1, SelectFacts DEF CreateInsert
  <2>2. Tables
    BY <1>1, <1>s, <1>t DEF CreateInsert
  <2> QED BY <1>0, <1>1, <2>1, <2>2 DEF CreateInsert, TypeOK
<1>2. ASSUME NEW h \in Handlers, CreateSelect(h) PROVE TypeOK'
  <2>1. task[h].ids \in SUBSET Monitors
    BY <1>2, BusyFacts DEF CreateSelect, Doing
  <2>2. Restarts(task[h].ids, task[h].row) \in Seq(Message)
    BY <2>1, <1>t, RestartsFacts
  <2>3. Tasks
    BY <1>2, <2>1, <2>2, SendFacts DEF CreateSelect
  <2> QED BY <1>0, <1>2, <2>3 DEF CreateSelect, TypeOK
<1>3. ASSUME NEW h \in Handlers, UpdateWrite(h) PROVE TypeOK'
  <2>1. task[h].ids \in SUBSET Monitors /\ task[h].row \in Row
    BY <1>3, BusyFacts DEF UpdateWrite, Doing, TaskInv
  <2>2. Tasks
    BY <1>3, <2>1, SelectFacts DEF UpdateWrite
  <2>3. Tables
    BY <1>3, <2>1, <1>s, <1>t DEF UpdateWrite
  <2> QED BY <1>0, <1>3, <2>2, <2>3 DEF UpdateWrite, TypeOK
<1>4. ASSUME NEW h \in Handlers, UpdateFails(h) PROVE TypeOK'
  <2>1. Tasks
    BY <1>4, EndsFacts DEF UpdateFails
  <2> QED BY <1>0, <1>4, <2>1 DEF UpdateFails, TypeOK
<1>5. ASSUME NEW h \in Handlers, UpdateSelect(h) PROVE TypeOK'
  <2>1. task[h].ids \in SUBSET Monitors
    BY <1>5, BusyFacts DEF UpdateSelect, Doing
  <2>2. Stops(SetToSeq(task[h].ids)) \o Restarts(task[h].ids, task[h].row) \in Seq(Message)
    BY <2>1, UpdateOutFacts
  <2>3. Tasks
    BY <1>5, <2>1, <2>2, SendFacts DEF UpdateSelect
  <2> QED BY <1>0, <1>5, <2>3 DEF UpdateSelect, TypeOK
<1>6. ASSUME NEW h \in Handlers, NEW url \in Monitors, NEW m \in Monitors, NEW row \in Row,
             UpdateCheck(h, url, m, row)
      PROVE  TypeOK'
  <2>1. Tasks
    BY <1>6, CheckFacts
  <2> QED BY <1>0, <1>6, <2>1 DEF UpdateCheck, TypeOK
<1>7. ASSUME NEW h \in Handlers, NEW ids \in SUBSET Monitors, ToggleOn(h, ids) PROVE TypeOK'
  <2>1. Tasks
    BY <1>7, SelectFacts DEF ToggleOn
  <2>2. table' \in [Monitors -> Row \cup {None}]
    <3>1. \A m \in Rows : [table[m] EXCEPT !.active = TRUE] \in Row
      BY <1>t DEF Rows, Row
    <3> QED BY <3>1, <1>7, <1>t DEF ToggleOn
  <2>3. Tables
    BY <1>7, <2>2, <1>s, <1>t DEF ToggleOn
  <2> QED BY <1>0, <1>7, <2>1, <2>3 DEF ToggleOn, TypeOK
<1>8. ASSUME NEW h \in Handlers, NEW ids \in SUBSET Monitors, ToggleOff(h, ids) PROVE TypeOK'
  <2>1. PICK ms \in Orders(ids) : ThenSend(h, ids, Stops(ms))
    BY <1>8 DEF ToggleOff
  <2>2. Tasks
    BY <2>1, StopsFacts, SendFacts
  <2>3. table' \in [Monitors -> Row \cup {None}]
    <3>1. \A m \in Rows : [table[m] EXCEPT !.active = FALSE] \in Row
      BY <1>t DEF Rows, Row
    <3> QED BY <3>1, <1>8, <1>t DEF ToggleOff
  <2>4. Tables
    BY <1>8, <2>3, <1>s, <1>t DEF ToggleOff
  <2> QED BY <1>0, <1>8, <2>2, <2>4 DEF ToggleOff, TypeOK
<1>9. ASSUME NEW h \in Handlers, NEW ids \in SUBSET Monitors, ToggleFails(h, ids) PROVE TypeOK'
  <2>1. ASSUME ThenSelect(h, "enable", ids, None) PROVE Tasks
    BY <2>1, SelectFacts
  <2>2. ASSUME NEW ms \in Orders(ids), ThenSend(h, ids, Stops(ms)) PROVE Tasks
    BY <2>2, StopsFacts, SendFacts
  <2>3. Tables
    BY <1>9, <1>t DEF ToggleFails
  <2> QED BY <1>0, <1>9, <2>1, <2>2, <2>3 DEF ToggleFails, TypeOK
<1>10. ASSUME NEW h \in Handlers, NEW ids \in SUBSET Monitors, Delete(h, ids) PROVE TypeOK'
  <2>1. PICK ms \in Orders(ids) : ThenSend(h, ids, Stops(ms))
    BY <1>10 DEF Delete
  <2>2. Tasks
    BY <2>1, StopsFacts, SendFacts
  <2>3. Tables
    BY <1>10, <1>s, <1>t DEF Delete
  <2> QED BY <1>0, <1>10, <2>2, <2>3 DEF Delete, TypeOK
<1>11. ASSUME NEW h \in Handlers, EnableSelect(h) PROVE TypeOK'
  <2>1. task[h].ids \in SUBSET Monitors
    BY <1>11, BusyFacts DEF EnableSelect, Doing
  <2>2. PICK ms \in Orders(task[h].ids \cap Rows) : ThenSend(h, task[h].ids, Starts(ms))
    BY <1>11 DEF EnableSelect
  <2>3. Starts(ms) \in Seq(Message)
    BY <1>t, StartsFacts
  <2>4. Tasks
    BY <2>1, <2>2, <2>3, SendFacts
  <2> QED BY <1>0, <1>11, <2>4 DEF EnableSelect, TypeOK
<1>12. ASSUME NEW h \in Handlers, NEW m \in Monitors, PollSelect(h, m) PROVE TypeOK'
  <2>1. JobOf(m) \in Job
    BY <1>12, <1>t DEF PollSelect, Rows, JobOf, Job, Row
  <2>2. <<PollMessage(JobOf(m))>> \in Seq(Message)
    BY <2>1 DEF Message
  <2>3. Tasks
    BY <1>12, <2>2, SendFacts DEF PollSelect
  <2> QED BY <1>0, <1>12, <2>3 DEF PollSelect, TypeOK
<1>13. ASSUME NEW h \in Handlers, SelectFails(h) PROVE TypeOK'
  <2>1. Tasks
    BY <1>13, EndsFacts DEF SelectFails
  <2>2. Tables
    BY <1>13, <1>t, BusyFacts DEF SelectFails
  <2> QED BY <1>0, <1>13, <2>1, <2>2 DEF SelectFails, TypeOK
<1>14. ASSUME NEW h \in Handlers, SendNext(h) PROVE TypeOK'
  <2>1. /\ task[h].ids \in SUBSET Monitors /\ task[h].out \in Seq(Message) /\ task[h].out # <<>>
    BY <1>14, BusyFacts DEF SendNext, TaskInv
  <2>2. Head(task[h].out) \in Message /\ Tail(task[h].out) \in Seq(Message)
    BY <2>1
  <2>3. Channel
    BY <1>14, <1>m, <2>2 DEF SendNext
  <2>4. Tasks
    BY <1>14, <2>1, <2>2, SendFacts DEF SendNext
  <2> QED BY <1>0, <1>14, <2>3, <2>4 DEF SendNext, TypeOK
<1>15. ASSUME Restore PROVE TypeOK'
  <2>1. PICK ms \in Orders({m \in Rows : table[m].active}) : stage' = [at |-> "restoring", out |-> Starts(ms)]
    BY <1>15 DEF Restore
  <2>2. Starts(ms) \in Seq(Message)
    BY <1>t, StartsFacts
  <2> QED BY <1>0, <1>15, <2>1, <2>2 DEF Restore, TypeOK
<1>16. ASSUME RestoreNext PROVE TypeOK'
  <2>1. Head(stage.out) \in Message /\ Tail(stage.out) \in Seq(Message)
    BY <1>16, <1>t DEF RestoreNext
  <2>2. Channel
    BY <1>16, <1>m, <2>1 DEF RestoreNext
  <2>3. Stages
    BY <1>16, <1>t, <2>1 DEF RestoreNext
  <2> QED BY <1>0, <1>16, <2>2, <2>3 DEF RestoreNext, TypeOK
<1>17. ASSUME Serve PROVE TypeOK'
  BY <1>0, <1>17 DEF Serve, TypeOK
<1>18. ASSUME Crash PROVE TypeOK'
  <2>1. Channel
    BY <1>18, RoomAssumption DEF Crash
  <2> QED BY <1>18, <1>t, <2>1 DEF Crash, TypeOK
<1>19. ASSUME Distribute PROVE TypeOK'
  BY <1>19, <1>0, DistributeFacts DEF Distribute, svcVars, TypeOK
<1>20. CASE UNCHANGED vars
  BY <1>0, <1>20 DEF vars, svcVars, TypeOK
<1> QED
  BY <1>1, <1>2, <1>3, <1>4, <1>5, <1>6, <1>7, <1>8, <1>9, <1>10, <1>11, <1>12, <1>13, <1>14,
     <1>15, <1>16, <1>17, <1>18, <1>19, <1>20 DEF Next, Handle

-----------------------------------------------------------------------------
(* What a handler is doing stays what TaskInv says. *)

(* TaskInv of one handler. *)
Fits(h) ==
  task[h] # None =>
    /\ task[h].step \in {"check", "select"} => task[h].out = <<>>
    /\ task[h].kind \in {"create", "update"} => task[h].row \in Row
    /\ task[h].step = "select" => task[h].kind # "any"
    /\ task[h].step = "check" => task[h].kind = "update"
    /\ task[h].step = "send" => task[h].out # <<>> /\ task[h].kind = "any"
    /\ \A m \in Monitors \ task[h].ids : ~ HasStart(task[h].out, m) /\ ~ HasStop(task[h].out, m)

(* The tasks that handlers go on with, and the handlers that have none, fit. *)
LEMMA FitsSelect ==
  ASSUME TypeOK, NEW h \in Handlers, NEW kind \in {"create", "update", "enable"},
         NEW ids \in SUBSET Monitors, NEW row \in Row \cup {None},
         kind = "enable" \/ row \in Row, ThenSelect(h, kind, ids, row)
  PROVE  Fits(h)'
<1>1. /\ task'[h] # None /\ task'[h].kind = kind /\ task'[h].step = "select"
      /\ task'[h].ids = ids /\ task'[h].row = row /\ task'[h].out = <<>>
  BY SelectFacts
<1>2. \A m \in Monitors : ~ HasStart(<<>>, m) /\ ~ HasStop(<<>>, m)
  BY EmptyFacts
<1> QED BY <1>1, <1>2 DEF Fits

(* A handler that goes on to send fits the messages it has left to send: it has
   done its write, and they name no monitor but those it was asked about. *)
LEMMA FitsSend ==
  ASSUME TypeOK, NEW h \in Handlers, NEW ids \in SUBSET Monitors, NEW out \in Seq(Message),
         \A m \in Monitors \ ids : ~ HasStart(out, m) /\ ~ HasStop(out, m),
         ThenSend(h, ids, out)
  PROVE  Fits(h)'
<1>1. /\ out = <<>> => task'[h] = None
      /\ out # <<>> => /\ task'[h] # None /\ task'[h].kind = "any" /\ task'[h].step = "send"
                      /\ task'[h].ids = ids /\ task'[h].row = None /\ task'[h].out = out
  BY SendFacts
<1> QED BY <1>1 DEF Fits

(* Every step of a handler, of main and of the distributor leaves each handler
   with a task that fits where it is. *)
LEMMA TaskStep == TypeOK /\ TaskInv /\ [Next]_vars => TaskInv'
<1> SUFFICES ASSUME TypeOK, TaskInv, [Next]_vars PROVE TaskInv'
  OBVIOUS
<1>0. /\ \A h \in Handlers : Fits(h)
      /\ (\A h \in Handlers : Fits(h)') => TaskInv'
  BY DEF TaskInv, Fits
<1>t. table \in [Monitors -> Row \cup {None}]
  BY DEF TypeOK
<1>n. ASSUME UNCHANGED task PROVE TaskInv'
  BY <1>0, <1>n DEF Fits
<1>e. ASSUME NEW h \in Handlers, \A g \in Handlers \ {h} : task'[g] = task[g], Fits(h)' PROVE TaskInv'
  <2>1. \A g \in Handlers : Fits(g)'
    BY <1>e, <1>0 DEF Fits
  <2> QED BY <2>1, <1>0
<1>1. ASSUME NEW h \in Handlers, NEW m \in Monitors, NEW row \in Row, CreateInsert(h, m, row)
      PROVE  TaskInv'
  <2>1. ThenSelect(h, "create", {m}, row)
    BY <1>1 DEF CreateInsert
  <2> QED BY <2>1, <1>e, FitsSelect, SelectFacts
<1>2. ASSUME NEW h \in Handlers, CreateSelect(h) PROVE TaskInv'
  <2>1. task[h].ids \in SUBSET Monitors
    BY <1>2, BusyFacts DEF CreateSelect, Doing
  <2>2. /\ Restarts(task[h].ids, task[h].row) \in Seq(Message)
        /\ \A m \in Monitors \ task[h].ids :
              /\ ~ HasStart(Restarts(task[h].ids, task[h].row), m)
              /\ ~ HasStop(Restarts(task[h].ids, task[h].row), m)
    BY <2>1, <1>t, RestartsFacts
  <2>3. ThenSend(h, task[h].ids, Restarts(task[h].ids, task[h].row))
    BY <1>2 DEF CreateSelect
  <2> QED BY <2>1, <2>2, <2>3, <1>e, FitsSend, SendFacts
<1>3. ASSUME NEW h \in Handlers, UpdateWrite(h) PROVE TaskInv'
  <2>1. task[h].ids \in SUBSET Monitors /\ task[h].row \in Row
    BY <1>3, BusyFacts DEF UpdateWrite, Doing, TaskInv
  <2>2. ThenSelect(h, "update", task[h].ids, task[h].row)
    BY <1>3 DEF UpdateWrite
  <2> QED BY <2>1, <2>2, <1>e, FitsSelect, SelectFacts
<1>4. ASSUME NEW h \in Handlers, UpdateFails(h) \/ SelectFails(h) PROVE TaskInv'
  <2>1. Ends(h)
    BY <1>4 DEF UpdateFails, SelectFails
  <2>2. Fits(h)'
    BY <2>1, EndsFacts DEF Fits
  <2> QED BY <2>1, <2>2, <1>e, EndsFacts
<1>5. ASSUME NEW h \in Handlers, UpdateSelect(h) PROVE TaskInv'
  <2>1. task[h].ids \in SUBSET Monitors
    BY <1>5, BusyFacts DEF UpdateSelect, Doing
  <2> DEFINE out == Stops(SetToSeq(task[h].ids)) \o Restarts(task[h].ids, task[h].row)
  <2>2. /\ out \in Seq(Message)
        /\ \A m \in Monitors \ task[h].ids : ~ HasStart(out, m) /\ ~ HasStop(out, m)
    BY <2>1, UpdateOutFacts
  <2>3. ThenSend(h, task[h].ids, out)
    BY <1>5 DEF UpdateSelect
  <2> HIDE DEF out
  <2> QED BY <2>1, <2>2, <2>3, <1>e, FitsSend, SendFacts
<1>6. ASSUME NEW h \in Handlers, NEW url \in Monitors, NEW m \in Monitors, NEW row \in Row,
             UpdateCheck(h, url, m, row)
      PROVE  TaskInv'
  <2>1. Fits(h)'
    BY <1>6, CheckFacts, EmptyFacts DEF Fits
  <2> QED BY <1>6, <2>1, <1>e, CheckFacts
<1>7. ASSUME NEW h \in Handlers, NEW ids \in SUBSET Monitors, ThenSelect(h, "enable", ids, None)
      PROVE  TaskInv'
  BY <1>7, <1>e, FitsSelect, SelectFacts
<1>8. ASSUME NEW h \in Handlers, NEW ids \in SUBSET Monitors, NEW ms \in Orders(ids),
             ThenSend(h, ids, Stops(ms))
      PROVE  TaskInv'
  <2>1. /\ Stops(ms) \in Seq(Message)
        /\ \A m \in Monitors \ ids : ~ HasStart(Stops(ms), m) /\ ~ HasStop(Stops(ms), m)
    BY StopsFacts
  <2> QED BY <1>8, <2>1, <1>e, FitsSend, SendFacts
<1>9. ASSUME NEW h \in Handlers, NEW ids \in SUBSET Monitors,
             ToggleOn(h, ids) \/ ToggleOff(h, ids) \/ ToggleFails(h, ids) \/ Delete(h, ids)
      PROVE  TaskInv'
  BY <1>9, <1>7, <1>8 DEF ToggleOn, ToggleOff, ToggleFails, Delete
<1>10. ASSUME NEW h \in Handlers, EnableSelect(h) PROVE TaskInv'
  <2>1. task[h].ids \in SUBSET Monitors
    BY <1>10, BusyFacts DEF EnableSelect, Doing
  <2>2. PICK ms \in Orders(task[h].ids \cap Rows) : ThenSend(h, task[h].ids, Starts(ms))
    BY <1>10 DEF EnableSelect
  <2>3. /\ Starts(ms) \in Seq(Message)
        /\ \A m \in Monitors \ task[h].ids : ~ HasStart(Starts(ms), m) /\ ~ HasStop(Starts(ms), m)
    BY <1>t, StartsFacts
  <2> QED BY <2>1, <2>2, <2>3, <1>e, FitsSend, SendFacts
<1>11. ASSUME NEW h \in Handlers, NEW m \in Monitors, PollSelect(h, m) PROVE TaskInv'
  <2> DEFINE out == <<PollMessage(JobOf(m))>>
  <2>1. JobOf(m) \in Job
    BY <1>11, <1>t DEF PollSelect, Rows, JobOf, Job, Row
  <2>2. out \in Seq(Message) /\ Len(out) = 1 /\ out[1] = PollMessage(JobOf(m))
    BY <2>1 DEF Message
  <2>3. \A k \in Monitors : ~ HasStart(out, k) /\ ~ HasStop(out, k)
    BY <2>1, <2>2, MessagesDiffer DEF HasStart, HasStop
  <2>4. ThenSend(h, {}, out)
    BY <1>11 DEF PollSelect
  <2> HIDE DEF out
  <2> QED BY <2>2, <2>3, <2>4, <1>e, FitsSend, SendFacts
<1>12. ASSUME NEW h \in Handlers, SendNext(h) PROVE TaskInv'
  <2>1. /\ task[h].ids \in SUBSET Monitors /\ task[h].out \in Seq(Message) /\ task[h].out # <<>>
        /\ \A m \in Monitors \ task[h].ids : ~ HasStart(task[h].out, m) /\ ~ HasStop(task[h].out, m)
    BY <1>12, BusyFacts DEF SendNext, TaskInv
  <2>2. /\ Tail(task[h].out) \in Seq(Message)
        /\ \A m \in Monitors \ task[h].ids :
             ~ HasStart(Tail(task[h].out), m) /\ ~ HasStop(Tail(task[h].out), m)
    BY <2>1, RestFacts, HeadTailProperties
  <2>3. ThenSend(h, task[h].ids, Tail(task[h].out))
    BY <1>12 DEF SendNext
  <2> QED BY <2>1, <2>2, <2>3, <1>e, FitsSend, SendFacts
<1>13. ASSUME Restore \/ RestoreNext \/ Serve \/ Distribute \/ UNCHANGED vars PROVE TaskInv'
  BY <1>13, <1>n DEF Restore, RestoreNext, Serve, Distribute, vars, svcVars
<1>14. ASSUME Crash PROVE TaskInv'
  BY <1>14 DEF Crash, TaskInv
<1> QED
  BY <1>1, <1>2, <1>3, <1>4, <1>5, <1>6, <1>9, <1>10, <1>11, <1>12, <1>13, <1>14 DEF Next, Handle

-----------------------------------------------------------------------------
(* Where main is. *)

(* A handler takes a step only while the process serves. *)
LEMMA HandleServes ==
  ASSUME StageInv, NEW h \in Handlers, Handle(h)
  PROVE  stage.at = "serving" /\ stage' = stage
BY DEF StageInv, Handle, CreateInsert, CreateSelect, UpdateWrite, UpdateFails, UpdateSelect,
       UpdateCheck, ToggleOn, ToggleOff, ToggleFails, Delete, EnableSelect, PollSelect, SelectFails,
       SendNext, Arrives, Doing

(* Every step leaves it so: before main serves no handler is at work and nothing
   has strayed, and only a restore has messages left to send. *)
LEMMA StageStep == TypeOK /\ StageInv /\ [Next]_vars => StageInv'
<1> SUFFICES ASSUME TypeOK, StageInv, [Next]_vars PROVE StageInv'
  OBVIOUS
<1>1. ASSUME NEW h \in Handlers, Handle(h) PROVE StageInv'
  <2>1. stage.at = "serving" /\ stage' = stage
    BY <1>1, HandleServes
  <2> QED BY <2>1 DEF StageInv
<1>2. ASSUME Restore PROVE StageInv'
  BY <1>2 DEF StageInv, Restore
<1>3. ASSUME RestoreNext PROVE StageInv'
  <2>1. stage'.at = "restoring"
    BY <1>3 DEF RestoreNext, TypeOK
  <2> QED BY <1>3, <2>1 DEF StageInv, RestoreNext
<1>4. ASSUME Serve PROVE StageInv'
  BY <1>4 DEF StageInv, Serve
<1>5. ASSUME Crash PROVE StageInv'
  <2>1. /\ stage'.at = "loading" /\ stage'.out = <<>> /\ strayed' = {}
        /\ \A h \in Handlers : task'[h] = None
        /\ mailbox' = <<>> /\ \A m \in Monitors : started'[m] = None
    BY <1>5 DEF Crash
  <2>2. \A m \in Monitors : Leads(<<>>, <<>>, None, m, None)
    BY EmptyFacts DEF Leads
  <2> QED BY <2>1, <2>2 DEF StageInv
<1>6. ASSUME Distribute PROVE StageInv'
  <2>1. stage' = stage /\ task' = task /\ strayed' = strayed
    BY <1>6 DEF Distribute, svcVars
  <2>2. ASSUME stage.at = "loading", NEW m \in Monitors PROVE Leads(mailbox', <<>>, started'[m], m, None)
    <3>1. Leads(mailbox, <<>>, started[m], m, None)
      BY <2>2 DEF StageInv
    <3>2. \A r : \A w \in Configs \cup {None} :
            Leads(mailbox, r, started[m], m, w) => Leads(mailbox', r, started'[m], m, w)
      BY <1>6, DistributeFacts
    <3> QED BY <3>1, <3>2
  <2> QED BY <2>1, <2>2 DEF StageInv
<1>7. CASE UNCHANGED vars
  BY <1>7 DEF StageInv, vars, regVars, svcVars
<1> QED BY <1>1, <1>2, <1>3, <1>4, <1>5, <1>6, <1>7 DEF Next

-----------------------------------------------------------------------------
(* A monitor nobody has created is never started. *)

(* UnknownInv of one monitor. *)
Unstarted(m) ==
  /\ table[m] = None /\ started[m] = None
  /\ ~ HasStart(mailbox, m) /\ ~ HasStart(stage.out, m)
  /\ \A h \in Handlers : task[h] # None => ~ HasStart(task[h].out, m)

(* A step of handler h alone that leaves the channel and the row as they are and
   has nothing to start with leaves the monitor as it is. *)
LEMMA UnstartedByHandler ==
  ASSUME NEW m \in Monitors, Unstarted(m), NEW h \in Handlers,
         UNCHANGED <<regVars, stage>>, table'[m] = None,
         \A g \in Handlers \ {h} : task'[g] = task[g],
         task'[h] # None => ~ HasStart(task'[h].out, m)
  PROVE  Unstarted(m)'
BY DEF Unstarted, regVars

(* Only monitors that are in the table are started. *)
LEMMA RowsIssued ==
  ASSUME UnknownInv, NEW m \in Monitors \ issued
  PROVE  m \notin Rows
BY DEF UnknownInv, Rows

(* A monitor whose id was not issued before or in a step is one that nothing
   mentions after it: no row, no message, no request. *)
LEMMA UnknownStep == TypeOK /\ StageInv /\ TaskInv /\ UnknownInv /\ [Next]_vars => UnknownInv'
<1> SUFFICES ASSUME TypeOK, StageInv, TaskInv, UnknownInv, [Next]_vars,
                    NEW m \in Monitors, m \notin issued'
             PROVE  Unstarted(m)'
  BY DEF UnknownInv, Unstarted
<1>i. m \notin issued /\ m \in Monitors \ issued
  <2>1. issued \subseteq issued'
    BY DEF Next, Handle, CreateInsert, CreateSelect, UpdateWrite, UpdateFails, UpdateSelect,
       UpdateCheck, ToggleOn, ToggleOff, ToggleFails, Delete, EnableSelect, PollSelect, SelectFails,
       SendNext, Restore, RestoreNext, Serve, Crash, Distribute, vars, svcVars
  <2> QED BY <2>1
<1>u. Unstarted(m) /\ m \notin Rows
  BY <1>i, RowsIssued DEF UnknownInv, Unstarted
<1>t. /\ table \in [Monitors -> Row \cup {None}] /\ mailbox \in Seq(Message)
      /\ stage.out \in Seq(Message) /\ stage \in [at : {"loading", "restoring", "serving"}, out : Seq(Message)]
  BY DEF TypeOK
<1>e. ~ HasStart(<<>>, m)
  BY EmptyFacts
<1>s. ASSUME NEW h \in Handlers, NEW ids \in SUBSET Monitors, NEW out \in Seq(Message),
             ThenSend(h, ids, out), ~ HasStart(out, m), UNCHANGED <<regVars, stage>>, table'[m] = None
      PROVE  Unstarted(m)'
  <2>1. \A g \in Handlers \ {h} : task'[g] = task[g]
    BY <1>s, SendFacts
  <2>2. task'[h] # None => task'[h].out = out
    BY <1>s, SendFacts
  <2> QED BY <2>1, <2>2, <1>s, <1>u, UnstartedByHandler
<1>l. ASSUME NEW h \in Handlers, NEW kind \in {"create", "update", "enable"},
             NEW ids \in SUBSET Monitors, NEW row \in Row \cup {None},
             ThenSelect(h, kind, ids, row), UNCHANGED <<regVars, stage>>, table'[m] = None
      PROVE  Unstarted(m)'
  <2>1. (\A g \in Handlers \ {h} : task'[g] = task[g]) /\ task'[h].out = <<>>
    BY <1>l, SelectFacts
  <2> QED BY <2>1, <1>l, <1>u, <1>e, UnstartedByHandler
<1>d. ASSUME NEW h \in Handlers, Ends(h), UNCHANGED <<regVars, stage>>, table'[m] = None
      PROVE  Unstarted(m)'
  <2>1. (\A g \in Handlers \ {h} : task'[g] = task[g]) /\ task'[h] = None
    BY <1>d, EndsFacts
  <2> QED BY <2>1, <1>d, <1>u, UnstartedByHandler
<1>r. table[m] = None
  BY <1>u DEF Unstarted
<1>1. ASSUME NEW h \in Handlers, NEW k \in Monitors, NEW row \in Row, CreateInsert(h, k, row)
      PROVE  Unstarted(m)'
  <2>1. k # m /\ table'[m] = None
    BY <1>1, <1>r, <1>t DEF CreateInsert
  <2> QED BY <1>1, <2>1, <1>l DEF CreateInsert
<1>2. ASSUME NEW h \in Handlers, CreateSelect(h) PROVE Unstarted(m)'
  <2>1. task[h].ids \in SUBSET Monitors
    BY <1>2, BusyFacts DEF CreateSelect, Doing
  <2>2. /\ Restarts(task[h].ids, task[h].row) \in Seq(Message)
        /\ \A k \in Monitors : HasStart(Restarts(task[h].ids, task[h].row), k) => k \in Rows
    BY <2>1, <1>t, RestartsFacts
  <2> QED BY <1>2, <2>1, <2>2, <1>s, <1>r, <1>u DEF CreateSelect
<1>3. ASSUME NEW h \in Handlers, UpdateWrite(h) PROVE Unstarted(m)'
  <2>1. task[h].ids \in SUBSET Monitors /\ task[h].row \in Row
    BY <1>3, BusyFacts DEF UpdateWrite, Doing, TaskInv
  <2>2. table'[m] = None
    BY <1>3, <1>u, <1>r DEF UpdateWrite
  <2> QED BY <1>3, <2>1, <2>2, <1>l DEF UpdateWrite
<1>4. ASSUME NEW h \in Handlers, UpdateFails(h) \/ SelectFails(h) PROVE Unstarted(m)'
  BY <1>4, <1>d, <1>r DEF UpdateFails, SelectFails
<1>5. ASSUME NEW h \in Handlers, UpdateSelect(h) PROVE Unstarted(m)'
  <2>1. task[h].ids \in SUBSET Monitors
    BY <1>5, BusyFacts DEF UpdateSelect, Doing
  <2> DEFINE out == Stops(SetToSeq(task[h].ids)) \o Restarts(task[h].ids, task[h].row)
  <2>2. out \in Seq(Message) /\ ~ HasStart(out, m)
    BY <2>1, <1>u, UpdateOutFacts
  <2>3. ThenSend(h, task[h].ids, out) /\ UNCHANGED <<regVars, stage>> /\ table' = table
    BY <1>5 DEF UpdateSelect
  <2> HIDE DEF out
  <2> QED BY <2>1, <2>2, <2>3, <1>s, <1>r
<1>6. ASSUME NEW h \in Handlers, NEW url \in Monitors, NEW k \in Monitors, NEW row \in Row,
             UpdateCheck(h, url, k, row)
      PROVE  Unstarted(m)'
  <2>1. (\A g \in Handlers \ {h} : task'[g] = task[g]) /\ task'[h].out = <<>>
    BY <1>6, CheckFacts
  <2>2. UNCHANGED <<regVars, stage>> /\ table' = table
    BY <1>6 DEF UpdateCheck
  <2> QED BY <2>1, <2>2, <1>u, <1>e, <1>r, UnstartedByHandler
<1>7. ASSUME NEW h \in Handlers, NEW ids \in SUBSET Monitors, NEW ms \in Orders(ids),
             ThenSend(h, ids, Stops(ms)), UNCHANGED <<regVars, stage>>, table'[m] = None
      PROVE  Unstarted(m)'
  <2>1. Stops(ms) \in Seq(Message) /\ ~ HasStart(Stops(ms), m)
    BY StopsFacts
  <2> QED BY <1>7, <2>1, <1>s
<1>8. ASSUME NEW h \in Handlers, NEW ids \in SUBSET Monitors, ToggleOn(h, ids) PROVE Unstarted(m)'
  <2>1. table'[m] = None
    BY <1>8, <1>u, <1>r DEF ToggleOn
  <2> QED BY <1>8, <2>1, <1>l DEF ToggleOn
<1>9. ASSUME NEW h \in Handlers, NEW ids \in SUBSET Monitors, ToggleOff(h, ids) PROVE Unstarted(m)'
  <2>1. table'[m] = None
    BY <1>9, <1>u, <1>r DEF ToggleOff
  <2> QED BY <1>9, <2>1, <1>7 DEF ToggleOff
<1>10. ASSUME NEW h \in Handlers, NEW ids \in SUBSET Monitors, ToggleFails(h, ids) PROVE Unstarted(m)'
  <2>1. table'[m] = None /\ UNCHANGED <<regVars, stage>>
    BY <1>10, <1>r DEF ToggleFails
  <2> QED BY <1>10, <2>1, <1>7, <1>l DEF ToggleFails
<1>11. ASSUME NEW h \in Handlers, NEW ids \in SUBSET Monitors, Delete(h, ids) PROVE Unstarted(m)'
  <2>1. table'[m] = None
    BY <1>11, <1>u, <1>r DEF Delete
  <2> QED BY <1>11, <2>1, <1>7 DEF Delete
<1>12. ASSUME NEW h \in Handlers, EnableSelect(h) PROVE Unstarted(m)'
  <2>1. task[h].ids \in SUBSET Monitors
    BY <1>12, BusyFacts DEF EnableSelect, Doing
  <2>2. PICK ms \in Orders(task[h].ids \cap Rows) : ThenSend(h, task[h].ids, Starts(ms))
    BY <1>12 DEF EnableSelect
  <2>3. Starts(ms) \in Seq(Message) /\ ~ HasStart(Starts(ms), m)
    BY <1>t, <1>u, StartsFacts
  <2>4. UNCHANGED <<regVars, stage>> /\ table' = table
    BY <1>12 DEF EnableSelect
  <2> QED BY <2>1, <2>2, <2>3, <2>4, <1>s, <1>r
<1>13. ASSUME NEW h \in Handlers, NEW k \in Monitors, PollSelect(h, k) PROVE Unstarted(m)'
  <2> DEFINE out == <<PollMessage(JobOf(k))>>
  <2>1. JobOf(k) \in Job
    BY <1>13, <1>t DEF PollSelect, Rows, JobOf, Job, Row
  <2>2. out \in Seq(Message) /\ Len(out) = 1 /\ out[1] = PollMessage(JobOf(k))
    BY <2>1 DEF Message
  <2>3. ~ HasStart(out, m)
    BY <2>1, <2>2, MessagesDiffer DEF HasStart
  <2>4. ThenSend(h, {}, out) /\ UNCHANGED <<regVars, stage>> /\ table' = table
    BY <1>13 DEF PollSelect
  <2> HIDE DEF out
  <2> QED BY <2>2, <2>3, <2>4, <1>s, <1>r
<1>m. ASSUME NEW q \in Seq(Message), q # <<>>, ~ HasStart(q, m), Accept(Head(q))
      PROVE  ~ HasStart(mailbox', m) /\ ~ HasStart(Tail(q), m) /\ Tail(q) \in Seq(Message) /\ started' = started
  <2>1. Head(q) \in Message /\ Tail(q) \in Seq(Message) /\ ~ HasStart(Tail(q), m)
        /\ \A c \in Configs : Head(q) # StartOf(m, c)
    BY <1>m, RestFacts
  <2>2. mailbox' = Append(mailbox, Head(q)) /\ started' = started
    BY <1>m DEF Accept, Put
  <2>3. ~ HasStart(mailbox, m)
    BY <1>u DEF Unstarted
  <2> QED BY <2>1, <2>2, <2>3, <1>t, AppendFacts
<1>14. ASSUME NEW h \in Handlers, SendNext(h) PROVE Unstarted(m)'
  <2> DEFINE q == task[h].out
  <2>1. /\ task[h].ids \in SUBSET Monitors /\ q \in Seq(Message) /\ q # <<>> /\ ~ HasStart(q, m)
    BY <1>14, <1>u, BusyFacts DEF SendNext, TaskInv, Unstarted
  <2>2. ThenSend(h, task[h].ids, Tail(q)) /\ Accept(Head(q)) /\ UNCHANGED <<table, stage>>
    BY <1>14 DEF SendNext
  <2> HIDE DEF q
  <2>3. ~ HasStart(mailbox', m) /\ ~ HasStart(Tail(q), m) /\ Tail(q) \in Seq(Message) /\ started' = started
    BY <2>1, <2>2, <1>m
  <2>4. (\A g \in Handlers \ {h} : task'[g] = task[g]) /\ (task'[h] # None => task'[h].out = Tail(q))
    BY <2>1, <2>2, <2>3, SendFacts
  <2> QED BY <2>2, <2>3, <2>4, <1>u DEF Unstarted
<1>15. ASSUME Restore PROVE Unstarted(m)'
  <2>1. PICK ms \in Orders({k \in Rows : table[k].active}) : stage' = [at |-> "restoring", out |-> Starts(ms)]
    BY <1>15 DEF Restore
  <2>2. ~ HasStart(Starts(ms), m)
    BY <1>t, <1>u, StartsFacts
  <2> QED BY <1>15, <2>1, <2>2, <1>u DEF Restore, Unstarted, regVars
<1>16. ASSUME RestoreNext PROVE Unstarted(m)'
  <2>1. ~ HasStart(mailbox', m) /\ ~ HasStart(Tail(stage.out), m) /\ started' = started
    BY <1>16, <1>m, <1>t, <1>u DEF RestoreNext, Unstarted
  <2>2. stage'.out = Tail(stage.out)
    BY <1>16, <1>t DEF RestoreNext
  <2> QED BY <1>16, <2>1, <2>2, <1>u DEF RestoreNext, Unstarted
<1>17. ASSUME Serve PROVE Unstarted(m)'
  BY <1>17, <1>u, <1>e DEF Serve, Unstarted, regVars
<1>18. ASSUME Crash PROVE Unstarted(m)'
  BY <1>18, <1>u, <1>e DEF Crash, Unstarted
<1>19. ASSUME Distribute PROVE Unstarted(m)'
  <2>1. ~ HasStart(mailbox', m) /\ started'[m] = None
    BY <1>19, <1>u, DistributeFacts DEF Unstarted
  <2> QED BY <1>19, <2>1, <1>u DEF Distribute, svcVars, Unstarted
<1>20. CASE UNCHANGED vars
  BY <1>20, <1>u DEF vars, regVars, svcVars, Unstarted
<1> QED
  BY <1>1, <1>2, <1>3, <1>4, <1>5, <1>6, <1>8, <1>9, <1>10, <1>11, <1>12, <1>13, <1>14,
     <1>15, <1>16, <1>17, <1>18, <1>19, <1>20 DEF Next, Handle

-----------------------------------------------------------------------------
(* What is under way brings the distributor in step with the table. *)

(* A row's configuration is wanted while the row is active. *)
LEMMA WantedFacts ==
  ASSUME TypeOK, NEW m \in Monitors
  PROVE  /\ Wanted(m) \in Configs \cup {None}
         /\ \A c \in Configs : c = Wanted(m) <=> m \in Rows /\ table[m].active /\ c = table[m].cfg
<1>1. m \in Rows => table[m] \in Row /\ table[m].cfg \in Configs
  BY DEF TypeOK, Rows, Row
<1> QED BY <1>1, NoneAssumption DEF Wanted

(* Messages that start the monitor with w, or not at all when w is None, lead it
   to w from where it is led to w or is not started. *)
LEMMA StartsLead ==
  ASSUME NEW q, NEW r, NEW x, NEW m \in Monitors, NEW w \in Configs \cup {None},
         ~ HasStop(r, m), \A c \in Configs : Live(r, m, c) <=> c = w,
         Leads(q, <<>>, x, m, None) \/ Leads(q, <<>>, x, m, w)
  PROVE  Leads(q, r, x, m, w)
<1>1. \A c \in Configs : c # None
  BY NoneAssumption
<1> QED BY <1>1, EmptyFacts DEF Leads

(* Messages that stop it first lead it to w from anywhere. *)
LEMMA StopsLead ==
  ASSUME NEW q, NEW r, NEW x, NEW m \in Monitors, NEW w \in Configs \cup {None},
         HasStop(r, m), \A c \in Configs : Live(r, m, c) <=> c = w
  PROVE  Leads(q, r, x, m, w)
BY DEF Leads

(* A monitor that a step does not concern follows as before. *)
LEMMA FollowsFrame ==
  ASSUME TypeOK, NEW m \in Monitors, Follows(m), stage' = stage, table'[m] = table[m],
         \A r : \A w \in Configs \cup {None} :
           Leads(mailbox, r, started[m], m, w) => Leads(mailbox', r, started'[m], m, w),
         \A h \in Handlers : /\ m \in Holds(h)' <=> m \in Holds(h)
                             /\ m \in Holds(h) => task'[h] = task[h]
  PROVE  Follows(m)'
<1>1. Wanted(m) \in Configs \cup {None} /\ None \in Configs \cup {None}
  BY WantedFacts
<1>2. Wanted(m)' = Wanted(m) /\ (m \in Rows)' = (m \in Rows)
  BY DEF Wanted, Rows
<1>3. ASSUME NEW h \in Handlers, m \in Holds(h) PROVE Brings(h, m)'
  <2>1. Brings(h, m) /\ task'[h] = task[h]
    BY <1>3 DEF Follows
  <2> QED BY <2>1, <1>1, <1>2 DEF Brings, Doing
<1> QED BY <1>1, <1>2, <1>3 DEF Follows

(* A monitor that no handler but h holds follows when h brings it in step, or
   when h lets it go in step. *)
LEMMA FollowsByHolder ==
  ASSUME NEW m \in Monitors, NEW h \in Handlers,
         \A g \in Handlers \ {h} : task'[g] = task[g] /\ m \notin Holds(g),
         m \in Holds(h)' => Brings(h, m)',
         m \notin Holds(h)' => (Leads(mailbox, stage.out, started[m], m, Wanted(m)))'
  PROVE  Follows(m)'
<1>1. \A g \in Handlers \ {h} : m \notin Holds(g)'
  BY DEF Holds
<1> QED BY <1>1 DEF Follows

(* The same, of a handler that sends out: all of it is still to be sent. *)
LEMMA FollowsBySender ==
  ASSUME TypeOK, NEW m \in Monitors, NEW h \in Handlers, NEW ids \in SUBSET Monitors,
         NEW out \in Seq(Message), ThenSend(h, ids, out), m \in ids,
         \A g \in Handlers \ {h} : m \notin Holds(g),
         stage'.out = <<>>, Leads(mailbox', out, started'[m], m, Wanted(m)')
  PROVE  Follows(m)'
<1>1. /\ \A g \in Handlers \ {h} : task'[g] = task[g]
      /\ out = <<>> => task'[h] = None
      /\ out # <<>> => /\ task'[h] # None /\ task'[h].kind = "any" /\ task'[h].step = "send"
                      /\ task'[h].ids = ids /\ task'[h].out = out
  BY SendFacts
<1>2. CASE out = <<>>
  BY <1>1, <1>2, FollowsByHolder DEF Holds
<1>3. CASE out # <<>>
  <2>1. m \in Holds(h)' /\ Brings(h, m)'
    BY <1>1, <1>3 DEF Holds, Brings, Doing
  <2> QED BY <1>1, <2>1, FollowsByHolder
<1> QED BY <1>2, <1>3

(* A step of a handler that does not hold the monitor before or after does not
   concern it. *)
LEMMA FollowsByOther ==
  ASSUME TypeOK, NEW m \in Monitors, NEW h \in Handlers, Follows(m),
         UNCHANGED <<regVars, stage>>, table'[m] = table[m],
         \A g \in Handlers \ {h} : task'[g] = task[g],
         m \notin Holds(h), m \notin Holds(h)'
  PROVE  Follows(m)'
<1>1. ASSUME NEW g \in Handlers
      PROVE  (m \in Holds(g)' <=> m \in Holds(g)) /\ (m \in Holds(g) => task'[g] = task[g])
  BY DEF Holds
<1>2. mailbox' = mailbox /\ started' = started /\ stage' = stage
  BY DEF regVars
<1> QED BY <1>1, <1>2, FollowsFrame

(* What the distributor does for a monitor follows its row across every step,
   for each monitor that is not in `strayed` afterwards. *)
LEMMA FollowsStep ==
  ServiceInv /\ [Next]_vars => \A m \in Monitors \ strayed' : Follows(m)'
<1> SUFFICES ASSUME ServiceInv, [Next]_vars, NEW m \in Monitors, m \notin strayed'
             PROVE  Follows(m)'
  OBVIOUS
<1>i. TypeOK /\ StageInv /\ TaskInv /\ UnknownInv /\ (m \notin strayed => Follows(m))
  BY DEF ServiceInv
<1>t. /\ table \in [Monitors -> Row \cup {None}] /\ mailbox \in Seq(Message) /\ stage.out \in Seq(Message)
      /\ stage \in [at : {"loading", "restoring", "serving"}, out : Seq(Message)]
      /\ task \in [Handlers -> Task \cup {None}] /\ strayed \subseteq Monitors
  BY <1>i DEF TypeOK
<1>w. /\ Wanted(m) \in Configs \cup {None}
      /\ \A c \in Configs : c = Wanted(m) <=> m \in Rows /\ table[m].active /\ c = table[m].cfg
  BY <1>i, WantedFacts
<1>n. None \in Configs \cup {None} /\ (\A c \in Configs : c # None) /\ \A row \in Row : row # None
  BY NoneAssumption
<1>c. ASSUME NEW h \in Handlers, NEW ids \in SUBSET Monitors, NEW settles, Strays(h, ids, settles)
      PROVE  /\ m \in ids => \A g \in Handlers \ {h} : m \notin Holds(g)
             /\ m \notin ids \/ settles # TRUE => m \notin strayed
  BY <1>c DEF Strays, Contended
<1>1. ASSUME NEW h \in Handlers, NEW k \in Monitors, NEW row \in Row, CreateInsert(h, k, row)
      PROVE  Follows(m)'
  <2>1. /\ \A g \in Handlers \ {h} : task'[g] = task[g]
        /\ task'[h] # None /\ task'[h].kind = "create" /\ task'[h].step = "select"
        /\ task'[h].ids = {k} /\ task'[h].row = row
    BY <1>1, <1>i, SelectFacts DEF CreateInsert
  <2>2. /\ k \notin issued /\ task[h] = None /\ Strays(h, {k}, TRUE)
        /\ UNCHANGED <<regVars, stage>> /\ table' = [table EXCEPT ![k] = row]
    BY <1>1 DEF CreateInsert, Arrives
  <2>3. CASE m = k
    <3>1. started[m] = None /\ ~ HasStart(mailbox, m)
      BY <1>i, <2>2, <2>3 DEF UnknownInv
    <3>2. Leads(mailbox, <<>>, started[m], m, None)
      BY <3>1, EmptyFacts DEF Leads
    <3>3. table'[m] = row
      BY <1>t, <2>2, <2>3
    <3>4. m \in Holds(h)' /\ Brings(h, m)'
      BY <2>1, <2>2, <2>3, <3>2, <3>3 DEF Brings, Doing, Holds, regVars
    <3>5. \A g \in Handlers \ {h} : m \notin Holds(g)
      BY <1>c, <2>2, <2>3
    <3> QED BY <2>1, <3>4, <3>5, FollowsByHolder
  <2>4. CASE m # k
    <3>0. m \notin {k} /\ {k} \in SUBSET Monitors
      BY <2>4
    <3>1. Follows(m) /\ table'[m] = table[m]
      <4>1. m \notin strayed
        BY <1>c, <2>2, <3>0
      <4> QED BY <4>1, <1>i, <1>t, <2>2, <2>4
    <3>2. m \notin Holds(h) /\ m \notin Holds(h)'
      BY <2>1, <2>2, <2>4 DEF Holds
    <3> QED BY <1>i, <2>1, <2>2, <3>1, <3>2, FollowsByOther
  <2> QED BY <2>3, <2>4
<1>h. ASSUME NEW h \in Handlers, task[h] # None, task[h].step # "check",
             \A g \in Handlers \ {h} : task'[g] = task[g],
             UNCHANGED <<regVars, table, issued, stage, strayed>>,
             m \notin task[h].ids, task'[h] = None \/ task'[h].ids = task[h].ids
      PROVE  Follows(m)'
  <2>1. m \notin Holds(h) /\ m \notin Holds(h)' /\ Follows(m)
    BY <1>h, <1>i DEF Holds
  <2> QED BY <1>h, <1>i, <2>1, FollowsByOther
<1>o. ASSUME NEW h \in Handlers, task[h] # None, task[h].step # "check", m \in task[h].ids, m \notin strayed
      PROVE  (\A g \in Handlers \ {h} : m \notin Holds(g)) /\ Brings(h, m)
  BY <1>o, <1>i DEF Follows, Holds
<1>2. ASSUME NEW h \in Handlers, CreateSelect(h) PROVE Follows(m)'
  <2> DEFINE ids == task[h].ids  row == task[h].row  out == Restarts(ids, row)
  <2>1. task[h] # None /\ task[h].kind = "create" /\ task[h].step = "select"
    BY <1>2 DEF CreateSelect, Doing
  <2>2. ids \in SUBSET Monitors /\ row \in Row
    BY <1>i, <2>1, BusyFacts DEF TaskInv
  <2>3. /\ out \in Seq(Message) /\ ~ HasStop(out, m)
        /\ row.active => \A c \in Configs : Live(out, m, c) <=> m \in ids \cap Rows /\ c = table[m].cfg
        /\ ~ row.active => out = <<>>
    <3>1. /\ out \in Seq(Message)
          /\ \A k \in Monitors : ~ HasStop(out, k) /\ (HasStart(out, k) => k \in ids \cap Rows)
          /\ row.active => \A k \in Monitors, c \in Configs : Live(out, k, c) <=> k \in ids \cap Rows /\ c = table[k].cfg
          /\ ~ row.active => out = <<>>
      <4> HIDE DEF ids, row
      <4> QED BY <1>t, <2>2, RestartsFacts
    <3> QED BY <3>1
  <2>4. ThenSend(h, ids, out) /\ UNCHANGED <<regVars, table, issued, stage, strayed>> /\ stage.out = <<>>
    BY <1>2, <1>i, <2>1 DEF CreateSelect, StageInv
  <2> HIDE DEF out
  <2>5. CASE m \in ids
    <3>1. (\A g \in Handlers \ {h} : m \notin Holds(g)) /\ Brings(h, m)
      BY <1>o, <2>1, <2>4, <2>5
    <3>2. table[m] = row /\ Leads(mailbox, <<>>, started[m], m, None)
      BY <3>1, <2>1 DEF Brings, Doing
    <3>3. m \in Rows
      BY <3>2, <2>2, <1>n DEF Rows
    <3>4. \A c \in Configs : Live(out, m, c) <=> c = Wanted(m)
      BY <3>2, <3>3, <2>3, <2>5, <1>w, EmptyFacts
    <3>5. Leads(mailbox, out, started[m], m, Wanted(m))
      BY <3>2, <3>4, <2>3, <1>w, StartsLead
    <3>6. Wanted(m)' = Wanted(m)
      BY <2>4 DEF Wanted, Rows
    <3> QED BY <1>i, <2>2, <2>3, <2>4, <2>5, <3>1, <3>5, <3>6, FollowsBySender DEF regVars
  <2>6. CASE m \notin ids
    BY <1>h, <1>i, <2>1, <2>2, <2>3, <2>4, <2>6, SendFacts
  <2> QED BY <2>5, <2>6
<1>3. ASSUME NEW h \in Handlers, UpdateWrite(h) PROVE Follows(m)'
  <2> DEFINE ids == task[h].ids  row == task[h].row
  <2>1. task[h] # None /\ task[h].kind = "update" /\ task[h].step = "check"
    BY <1>3 DEF UpdateWrite, Doing
  <2>2. ids \in SUBSET Monitors /\ row \in Row
    BY <1>i, <2>1, BusyFacts DEF TaskInv
  <2>3. /\ ThenSelect(h, "update", ids, row) /\ Strays(h, ids, TRUE) /\ UNCHANGED <<regVars, stage>>
        /\ table'[m] = IF m \in ids \cap Rows THEN row ELSE table[m]
    BY <1>3 DEF UpdateWrite
  <2>4. /\ \A g \in Handlers \ {h} : task'[g] = task[g]
        /\ task'[h] # None /\ task'[h].kind = "update" /\ task'[h].step = "select"
        /\ task'[h].ids = ids /\ task'[h].row = row
    BY <1>i, <2>2, <2>3, SelectFacts
  <2> HIDE DEF ids, row
  <2>5. CASE m \in ids
    <3>1. table'[m] \in {row, None}
      BY <2>3, <2>5 DEF Rows
    <3>2. m \in Holds(h)' /\ Brings(h, m)'
      BY <2>4, <2>5, <3>1 DEF Brings, Doing, Holds
    <3>3. \A g \in Handlers \ {h} : m \notin Holds(g)
      BY <1>c, <2>2, <2>3, <2>5
    <3> QED BY <2>4, <3>2, <3>3, FollowsByHolder
  <2>6. CASE m \notin ids
    <3>1. Follows(m) /\ table'[m] = table[m]
      BY <1>c, <1>i, <2>2, <2>3, <2>6
    <3>2. m \notin Holds(h) /\ m \notin Holds(h)'
      BY <2>1, <2>4, <2>6 DEF Holds
    <3> QED BY <1>i, <2>3, <2>4, <3>1, <3>2, FollowsByOther
  <2> QED BY <2>5, <2>6
<1>4. ASSUME NEW h \in Handlers, UpdateFails(h) PROVE Follows(m)'
  <2>1. /\ task[h] # None /\ task[h].step = "check" /\ Ends(h)
        /\ UNCHANGED <<regVars, stage>> /\ table' = table /\ strayed' = strayed
    BY <1>4 DEF UpdateFails, Doing
  <2>2. (\A g \in Handlers \ {h} : task'[g] = task[g]) /\ task'[h] = None
    BY <1>i, <2>1, EndsFacts
  <2>3. m \notin Holds(h) /\ m \notin Holds(h)'
    BY <2>1, <2>2 DEF Holds
  <2> QED BY <1>i, <2>1, <2>2, <2>3, FollowsByOther
<1>5. ASSUME NEW h \in Handlers, UpdateSelect(h) PROVE Follows(m)'
  <2> DEFINE ids == task[h].ids  row == task[h].row
             out == Stops(SetToSeq(ids)) \o Restarts(ids, row)
  <2>1. task[h] # None /\ task[h].kind = "update" /\ task[h].step = "select"
    BY <1>5 DEF UpdateSelect, Doing
  <2>2. ids \in SUBSET Monitors /\ row \in Row
    BY <1>i, <2>1, BusyFacts DEF TaskInv
  <2>3. /\ out \in Seq(Message) /\ (HasStop(out, m) <=> m \in ids)
        /\ row.active => \A c \in Configs : Live(out, m, c) <=> m \in ids \cap Rows /\ c = table[m].cfg
        /\ ~ row.active => \A c \in Configs : ~ Live(out, m, c)
    BY <1>i, <2>2, UpdateOutFacts
  <2>4. ThenSend(h, ids, out) /\ UNCHANGED <<regVars, table, issued, stage, strayed>> /\ stage.out = <<>>
    BY <1>5, <1>i, <2>1 DEF UpdateSelect, StageInv
  <2> HIDE DEF out
  <2>5. CASE m \in ids
    <3>1. (\A g \in Handlers \ {h} : m \notin Holds(g)) /\ Brings(h, m)
      BY <1>o, <2>1, <2>4, <2>5
    <3>2. table[m] \in {row, None}
      BY <3>1, <2>1 DEF Brings, Doing
    <3>3. m \in Rows => table[m] = row
      BY <3>2, <2>2, <1>n DEF Rows
    <3>4. \A c \in Configs : Live(out, m, c) <=> c = Wanted(m)
      BY <3>3, <2>3, <2>5, <1>w
    <3>5. Leads(mailbox, out, started[m], m, Wanted(m))
      BY <3>4, <2>3, <2>5, <1>w, StopsLead
    <3>6. Wanted(m)' = Wanted(m)
      BY <2>4 DEF Wanted, Rows
    <3> QED BY <1>i, <2>2, <2>3, <2>4, <2>5, <3>1, <3>5, <3>6, FollowsBySender DEF regVars
  <2>6. CASE m \notin ids
    BY <1>h, <1>i, <2>1, <2>2, <2>3, <2>4, <2>6, SendFacts
  <2> QED BY <2>5, <2>6
<1>6. ASSUME NEW h \in Handlers, NEW url \in Monitors, NEW k \in Monitors, NEW row \in Row,
             UpdateCheck(h, url, k, row)
      PROVE  Follows(m)'
  <2>1. /\ task[h] = None /\ UNCHANGED <<regVars, stage>> /\ table' = table /\ strayed' = strayed
    BY <1>6 DEF UpdateCheck, Arrives
  <2>2. (\A g \in Handlers \ {h} : task'[g] = task[g]) /\ task'[h].step = "check"
    BY <1>6, <1>i, CheckFacts
  <2>3. m \notin Holds(h) /\ m \notin Holds(h)'
    BY <2>1, <2>2 DEF Holds
  <2> QED BY <1>i, <2>1, <2>2, <2>3, FollowsByOther
<1>7. ASSUME NEW h \in Handlers, NEW ids \in SUBSET Monitors, ToggleOn(h, ids) PROVE Follows(m)'
  <2>1. /\ task[h] = None /\ stage.at = "serving" /\ stage.out = <<>>
        /\ ThenSelect(h, "enable", ids, None) /\ Strays(h, ids, FALSE) /\ UNCHANGED <<regVars, stage>>
        /\ table'[m] = IF m \in ids \cap Rows THEN [table[m] EXCEPT !.active = TRUE] ELSE table[m]
    BY <1>7, <1>i DEF ToggleOn, Arrives, StageInv
  <2>2. /\ \A g \in Handlers \ {h} : task'[g] = task[g]
        /\ task'[h] # None /\ task'[h].kind = "enable" /\ task'[h].step = "select" /\ task'[h].ids = ids
    BY <1>i, <2>1, SelectFacts
  <2>3. Follows(m)
    BY <1>c, <1>i, <2>1
  <2>4. CASE m \in ids
    <3>1. (\A g \in Handlers \ {h} : m \notin Holds(g)) /\ m \notin Holds(h)
      BY <1>c, <2>1, <2>4 DEF Holds
    <3>2. Leads(mailbox, <<>>, started[m], m, Wanted(m))
      BY <2>1, <2>3, <3>1 DEF Follows
    <3>3. /\ m \in Rows => table'[m] # None /\ table'[m].active /\ table'[m].cfg = table[m].cfg
          /\ m \notin Rows => table'[m] = None
      <4>1. CASE m \in Rows
        <5>1. table[m] \in Row
          BY <4>1, <1>t DEF Rows
        <5>2. [table[m] EXCEPT !.active = TRUE] \in Row
          BY <5>1 DEF Row
        <5> QED BY <4>1, <5>1, <5>2, <2>1, <2>4, <1>n DEF Row
      <4> QED BY <4>1, <2>1 DEF Rows
    <3>4. Wanted(m) = None \/ Wanted(m) = Wanted(m)'
      BY <3>3 DEF Wanted, Rows
    <3>5. (m \in Rows)' => table'[m].active
      BY <3>3 DEF Rows
    <3>6. m \in Holds(h)' /\ Brings(h, m)'
      BY <2>1, <2>2, <2>4, <3>2, <3>4, <3>5 DEF Brings, Doing, Holds, regVars
    <3> QED BY <2>2, <3>1, <3>6, FollowsByHolder
  <2>5. CASE m \notin ids
    <3>1. m \notin Holds(h) /\ m \notin Holds(h)' /\ table'[m] = table[m]
      BY <2>1, <2>2, <2>5 DEF Holds
    <3> QED BY <1>i, <2>1, <2>2, <2>3, <3>1, FollowsByOther
  <2> QED BY <2>4, <2>5
<1>8. ASSUME NEW h \in Handlers, NEW ids \in SUBSET Monitors, ToggleOff(h, ids) \/ Delete(h, ids)
      PROVE  Follows(m)'
  <2>1. /\ task[h] = None /\ stage.out = <<>> /\ Strays(h, ids, TRUE) /\ UNCHANGED <<regVars, stage>>
        /\ m \notin ids => table'[m] = table[m]
    BY <1>8, <1>i DEF ToggleOff, Delete, Arrives, StageInv
  <2>2. PICK ms \in Orders(ids) : ThenSend(h, ids, Stops(ms))
    BY <1>8 DEF ToggleOff, Delete
  <2>3. /\ Stops(ms) \in Seq(Message) /\ (HasStop(Stops(ms), m) <=> m \in ids)
        /\ \A c \in Configs : ~ Live(Stops(ms), m, c)
    BY StopsFacts
  <2>4. CASE m \in ids
    <3>1. \A g \in Handlers \ {h} : m \notin Holds(g)
      BY <1>c, <2>1, <2>4
    <3>2. Wanted(m)' = None
      <4>1. CASE Delete(h, ids)
        BY <4>1, <2>4 DEF Delete, Wanted, Rows
      <4>2. CASE ToggleOff(h, ids)
        <5>1. table'[m] = IF m \in Rows THEN [table[m] EXCEPT !.active = FALSE] ELSE table[m]
          BY <4>2, <2>4 DEF ToggleOff
        <5>2. m \in Rows => table'[m].active = FALSE
          BY <5>1, <1>t DEF Rows, Row
        <5> QED BY <5>1, <5>2 DEF Wanted, Rows
      <4> QED BY <1>8, <4>1, <4>2
    <3>3. Leads(mailbox, Stops(ms), started[m], m, None)
      BY <2>3, <2>4, <1>n, StopsLead
    <3> QED BY <1>i, <2>1, <2>2, <2>3, <2>4, <3>1, <3>2, <3>3, FollowsBySender DEF regVars
  <2>5. CASE m \notin ids
    <3>1. Follows(m) /\ table'[m] = table[m]
      BY <1>c, <1>i, <2>1, <2>5
    <3>2. (\A g \in Handlers \ {h} : task'[g] = task[g]) /\ (task'[h] # None => task'[h].ids = ids)
      BY <1>i, <2>2, <2>3, SendFacts
    <3>3. m \notin Holds(h) /\ m \notin Holds(h)'
      BY <2>1, <2>5, <3>2 DEF Holds
    <3> QED BY <1>i, <2>1, <3>1, <3>2, <3>3, FollowsByOther
  <2> QED BY <2>4, <2>5
<1>9. ASSUME NEW h \in Handlers, NEW ids \in SUBSET Monitors, ToggleFails(h, ids) PROVE Follows(m)'
  <2>1. /\ task[h] = None /\ m \notin ids /\ m \notin strayed /\ UNCHANGED <<regVars, stage>> /\ table' = table
    BY <1>9 DEF ToggleFails, Arrives
  <2>2. (\A g \in Handlers \ {h} : task'[g] = task[g]) /\ (task'[h] # None => task'[h].ids = ids)
    <3>1. ASSUME ThenSelect(h, "enable", ids, None)
          PROVE  (\A g \in Handlers \ {h} : task'[g] = task[g]) /\ task'[h].ids = ids
      BY <3>1, <1>i, SelectFacts
    <3>2. ASSUME NEW ms \in Orders(ids), ThenSend(h, ids, Stops(ms))
          PROVE  (\A g \in Handlers \ {h} : task'[g] = task[g]) /\ (task'[h] # None => task'[h].ids = ids)
      BY <3>2, <1>i, StopsFacts, SendFacts
    <3> QED BY <1>9, <3>1, <3>2 DEF ToggleFails
  <2>3. m \notin Holds(h) /\ m \notin Holds(h)'
    BY <2>1, <2>2 DEF Holds
  <2> QED BY <1>i, <2>1, <2>2, <2>3, FollowsByOther
<1>10. ASSUME NEW h \in Handlers, EnableSelect(h) PROVE Follows(m)'
  <2> DEFINE ids == task[h].ids
  <2>1. task[h] # None /\ task[h].kind = "enable" /\ task[h].step = "select"
    BY <1>10 DEF EnableSelect, Doing
  <2>2. ids \in SUBSET Monitors
    BY <1>i, <2>1, BusyFacts
  <2>3. PICK ms \in Orders(ids \cap Rows) : ThenSend(h, ids, Starts(ms))
    BY <1>10 DEF EnableSelect
  <2>4. /\ Starts(ms) \in Seq(Message) /\ ~ HasStop(Starts(ms), m)
        /\ \A c \in Configs : Live(Starts(ms), m, c) <=> m \in ids \cap Rows /\ c = table[m].cfg
    BY <1>t, StartsFacts
  <2>5. UNCHANGED <<regVars, table, issued, stage, strayed>> /\ stage.out = <<>>
    BY <1>10, <1>i, <2>1 DEF EnableSelect, StageInv
  <2>6. CASE m \in ids
    <3>1. (\A g \in Handlers \ {h} : m \notin Holds(g)) /\ Brings(h, m)
      BY <1>o, <2>1, <2>5, <2>6
    <3>2. /\ m \in Rows => table[m].active
          /\ Leads(mailbox, <<>>, started[m], m, None) \/ Leads(mailbox, <<>>, started[m], m, Wanted(m))
      BY <3>1, <2>1 DEF Brings, Doing
    <3>3. \A c \in Configs : Live(Starts(ms), m, c) <=> c = Wanted(m)
      BY <3>2, <2>4, <2>6, <1>w
    <3>4. Leads(mailbox, Starts(ms), started[m], m, Wanted(m))
      BY <3>2, <3>3, <2>4, <1>w, StartsLead
    <3>5. Wanted(m)' = Wanted(m)
      BY <2>5 DEF Wanted, Rows
    <3> QED BY <1>i, <2>2, <2>3, <2>4, <2>5, <2>6, <3>1, <3>4, <3>5, FollowsBySender DEF regVars
  <2>7. CASE m \notin ids
    BY <1>h, <1>i, <2>1, <2>2, <2>3, <2>4, <2>5, <2>7, SendFacts
  <2> QED BY <2>6, <2>7
<1>11. ASSUME NEW h \in Handlers, NEW k \in Monitors, PollSelect(h, k) PROVE Follows(m)'
  <2>1. JobOf(k) \in Job
    BY <1>11, <1>t DEF PollSelect, Rows, JobOf, Job, Row
  <2>2. <<PollMessage(JobOf(k))>> \in Seq(Message)
    BY <2>1 DEF Message
  <2>3. /\ ThenSend(h, {}, <<PollMessage(JobOf(k))>>) /\ task[h] = None
        /\ UNCHANGED <<regVars, stage>> /\ table' = table /\ strayed' = strayed
    BY <1>11 DEF PollSelect, Arrives
  <2>4. (\A g \in Handlers \ {h} : task'[g] = task[g]) /\ (task'[h] # None => task'[h].ids = {})
    BY <1>i, <2>2, <2>3, SendFacts
  <2>5. m \notin Holds(h) /\ m \notin Holds(h)'
    BY <2>3, <2>4 DEF Holds
  <2> QED BY <1>i, <2>3, <2>4, <2>5, FollowsByOther
<1>12. ASSUME NEW h \in Handlers, SelectFails(h) PROVE Follows(m)'
  <2>1. /\ task[h] # None /\ task[h].step = "select" /\ Ends(h) /\ m \notin task[h].ids /\ m \notin strayed
        /\ UNCHANGED <<regVars, stage>> /\ table' = table
    BY <1>12 DEF SelectFails
  <2>2. (\A g \in Handlers \ {h} : task'[g] = task[g]) /\ task'[h] = None
    BY <1>i, <2>1, EndsFacts
  <2>3. m \notin Holds(h) /\ m \notin Holds(h)'
    BY <2>1, <2>2 DEF Holds
  <2> QED BY <1>i, <2>1, <2>2, <2>3, FollowsByOther
<1>13. ASSUME NEW h \in Handlers, SendNext(h) PROVE Follows(m)'
  <2> DEFINE ids == task[h].ids  out == task[h].out
  <2>1. /\ task[h] # None /\ task[h].step = "send" /\ ThenSend(h, ids, Tail(out))
        /\ mailbox' = Append(mailbox, Head(out)) /\ started' = started
        /\ table' = table /\ stage' = stage /\ strayed' = strayed
    BY <1>13 DEF SendNext, Accept, Put
  <2>2. /\ ids \in SUBSET Monitors /\ out \in Seq(Message) /\ out # <<>>
        /\ m \notin ids => ~ HasStart(out, m) /\ ~ HasStop(out, m)
    BY <1>i, <2>1, BusyFacts DEF TaskInv
  <2>3. stage.out = <<>> /\ Follows(m)
    BY <1>i, <2>1 DEF StageInv
  <2>4. CASE m \in ids
    <3>1. (\A g \in Handlers \ {h} : m \notin Holds(g)) /\ Brings(h, m)
      BY <1>o, <1>i, <2>1, <2>4
    <3>2. Leads(mailbox, out, started[m], m, Wanted(m))
      BY <3>1, <2>1 DEF Brings
    <3> HIDE DEF out
    <3>3. Leads(mailbox', Tail(out), started'[m], m, Wanted(m))
      BY <3>2, <2>1, <2>2, <1>t, <1>w, LeadsMove
    <3>4. Tail(out) \in Seq(Message)
      BY <2>2, HeadTailProperties
    <3>5. Wanted(m)' = Wanted(m)
      BY <2>1 DEF Wanted, Rows
    <3> QED BY <1>i, <2>1, <2>2, <2>3, <2>4, <3>1, <3>3, <3>4, <3>5, FollowsBySender
  <2>5. CASE m \notin ids
    <3>1. /\ Head(out) \in Message /\ Tail(out) \in Seq(Message)
          /\ Head(out) # StopMessage(m) /\ \A c \in Configs : Head(out) # StartOf(m, c)
      <4> HIDE DEF out
      <4> QED BY <2>2, <2>5, RestFacts
    <3>2. \A r : \A w \in Configs \cup {None} :
            Leads(mailbox, r, started[m], m, w) => Leads(mailbox', r, started'[m], m, w)
      <4> HIDE DEF out
      <4> QED BY <3>1, <2>1, <1>t, LeadsPast
    <3>3. (\A g \in Handlers \ {h} : task'[g] = task[g]) /\ (task'[h] # None => task'[h].ids = ids)
      <4> HIDE DEF out
      <4> QED BY <1>i, <2>1, <2>2, <3>1, SendFacts
    <3>4. \A g \in Handlers : /\ m \in Holds(g)' <=> m \in Holds(g)
                              /\ m \in Holds(g) => task'[g] = task[g]
      BY <3>3, <2>5 DEF Holds
    <3>5. stage' = stage /\ table'[m] = table[m]
      BY <2>1
    <3> QED BY <1>i, <2>3, <3>2, <3>4, <3>5, FollowsFrame
  <2> QED BY <2>4, <2>5
<1>14. ASSUME Restore PROVE Follows(m)'
  <2> DEFINE S == {k \in Rows : table[k].active}
  <2>1. PICK ms \in Orders(S) : stage' = [at |-> "restoring", out |-> Starts(ms)]
    BY <1>14 DEF Restore
  <2>2. /\ stage.at = "loading" /\ mailbox' = mailbox /\ started' = started /\ table' = table /\ task' = task
    BY <1>14 DEF Restore, regVars
  <2>3. (\A h \in Handlers : task[h] = None) /\ Leads(mailbox, <<>>, started[m], m, None)
    BY <2>2, <1>i DEF StageInv
  <2>4. S \in SUBSET Rows
    OBVIOUS
  <2>5. m \in S <=> m \in Rows /\ table[m].active
    OBVIOUS
  <2> HIDE DEF S
  <2>6. ~ HasStop(Starts(ms), m) /\ \A c \in Configs : Live(Starts(ms), m, c) <=> m \in S /\ c = table[m].cfg
    BY <2>4, <1>t, StartsFacts
  <2>7. \A c \in Configs : Live(Starts(ms), m, c) <=> c = Wanted(m)
    BY <2>5, <2>6, <1>w
  <2>8. Leads(mailbox, Starts(ms), started[m], m, Wanted(m))
    BY <2>3, <2>6, <2>7, <1>w, StartsLead
  <2>9. Wanted(m)' = Wanted(m) /\ \A h \in Handlers : Holds(h)' = {}
    BY <2>2, <2>3 DEF Wanted, Rows, Holds
  <2> QED BY <2>1, <2>2, <2>8, <2>9 DEF Follows
<1>15. ASSUME RestoreNext PROVE Follows(m)'
  <2>1. /\ stage.at = "restoring" /\ stage.out # <<>> /\ strayed' = strayed /\ table' = table /\ task' = task
        /\ mailbox' = Append(mailbox, Head(stage.out)) /\ started' = started
        /\ stage'.out = Tail(stage.out)
    BY <1>15, <1>t DEF RestoreNext, Accept, Put
  <2>2. \A h \in Handlers : Holds(h) = {} /\ Holds(h)' = {}
    BY <2>1, <1>i DEF StageInv, Holds
  <2>3. Leads(mailbox, stage.out, started[m], m, Wanted(m))
    BY <2>1, <2>2, <1>i DEF Follows
  <2>4. Leads(mailbox', Tail(stage.out), started'[m], m, Wanted(m))
    BY <2>1, <2>3, <1>t, <1>w, LeadsMove
  <2>5. Wanted(m)' = Wanted(m)
    BY <2>1 DEF Wanted, Rows
  <2> QED BY <2>1, <2>2, <2>4, <2>5 DEF Follows
<1>16. ASSUME Serve PROVE Follows(m)'
  <2>1. /\ stage.at = "restoring" /\ stage.out = <<>> /\ stage'.at = "serving" /\ stage'.out = <<>>
        /\ strayed' = strayed /\ table' = table /\ task' = task /\ mailbox' = mailbox /\ started' = started
    BY <1>16 DEF Serve, regVars
  <2>2. \A h \in Handlers : Holds(h) = {} /\ Holds(h)' = {}
    BY <2>1, <1>i DEF StageInv, Holds
  <2>3. Leads(mailbox, <<>>, started[m], m, Wanted(m))
    BY <2>1, <2>2, <1>i DEF Follows
  <2>4. Wanted(m)' = Wanted(m)
    BY <2>1 DEF Wanted, Rows
  <2> QED BY <2>1, <2>2, <2>3, <2>4 DEF Follows
<1>17. ASSUME Crash PROVE Follows(m)'
  <2>1. stage'.at = "loading" /\ \A h \in Handlers : Holds(h)' = {}
    BY <1>17 DEF Crash, Holds
  <2> QED BY <2>1 DEF Follows
<1>18. ASSUME Distribute PROVE Follows(m)'
  <2>1. stage' = stage /\ table' = table /\ task' = task /\ strayed' = strayed
    BY <1>18 DEF Distribute, svcVars
  <2>2. \A r : \A w \in Configs \cup {None} :
          Leads(mailbox, r, started[m], m, w) => Leads(mailbox', r, started'[m], m, w)
    BY <1>18, <1>i, DistributeFacts
  <2>3. \A h \in Handlers : Holds(h)' = Holds(h) /\ task'[h] = task[h]
    BY <2>1 DEF Holds
  <2> QED BY <1>i, <2>1, <2>2, <2>3, FollowsFrame
<1>19. CASE UNCHANGED vars
  <2>1. /\ stage' = stage /\ table' = table /\ task' = task /\ strayed' = strayed
        /\ mailbox' = mailbox /\ started' = started
    BY <1>19 DEF vars, regVars, svcVars
  <2>2. \A h \in Handlers : Holds(h)' = Holds(h) /\ task'[h] = task[h]
    BY <2>1 DEF Holds
  <2> QED BY <1>i, <2>1, <2>2, FollowsFrame
<1> QED
  BY <1>1, <1>2, <1>3, <1>4, <1>5, <1>6, <1>7, <1>8, <1>9, <1>10, <1>11, <1>12, <1>13, <1>14,
     <1>15, <1>16, <1>17, <1>18, <1>19 DEF Next, Handle

-----------------------------------------------------------------------------
(* The theorems. *)

(* The inductive invariant holds of an empty table and a server about to start. *)
LEMMA ServiceInitially == Init => ServiceInv
<1> SUFFICES ASSUME Init PROVE ServiceInv
  OBVIOUS
<1>1. TypeOK
  BY RoomAssumption DEF Init, RegInit, TypeOK
<1>2. \A m \in Monitors, w \in Configs \cup {None} :
        /\ ~ HasStart(<<>>, m)
        /\ Leads(<<>>, <<>>, None, m, None)
  BY EmptyFacts DEF Leads
<1>3. StageInv /\ UnknownInv
  BY <1>2 DEF Init, RegInit, StageInv, UnknownInv
<1>4. TaskInv
  BY DEF Init, TaskInv
<1>5. \A m \in Monitors \ strayed : Follows(m)
  BY DEF Init, Follows, Holds
<1> QED BY <1>1, <1>3, <1>4, <1>5 DEF ServiceInv

(* The inductive invariant is kept by every step. *)
LEMMA ServiceStep == ServiceInv /\ [Next]_vars => ServiceInv'
<1> SUFFICES ASSUME ServiceInv, [Next]_vars PROVE ServiceInv'
  OBVIOUS
<1>1. TypeOK' /\ StageInv' /\ TaskInv' /\ UnknownInv'
  BY TypeStep, StageStep, TaskStep, UnknownStep DEF ServiceInv
<1>2. \A m \in Monitors \ strayed' : Follows(m)'
  BY FollowsStep
<1> QED BY <1>1, <1>2 DEF ServiceInv

(* The inductive invariant holds in every state of every behaviour. *)
LEMMA ServiceAlways == Spec => []ServiceInv
BY ServiceInitially, ServiceStep, PTL DEF Spec

(* Every variable keeps its type: no handler sends without something to send,
   the channel never holds more than it has room for, the table holds rows. *)
THEOREM TypeCorrect == Spec => []TypeOK
<1>1. ServiceInv => TypeOK
  BY DEF ServiceInv
<1> QED BY <1>1, ServiceAlways, PTL

(* While nothing about a monitor is under way, the distributor polls it as its
   row in the table says: after any interleaving of creates, updates, toggles,
   deletes and polls, with any failing query and any crash, unless the last
   requests about it overlapped or failed halfway. *)
THEOREM DistributorInStep == Spec => []InStep
<1>1. ServiceInv => InStep
  <2> SUFFICES ASSUME ServiceInv, NEW m \in Monitors, Quiet(m), m \notin strayed
               PROVE  started[m] = Wanted(m)
    BY DEF InStep
  <2>1. TypeOK /\ StageInv /\ Follows(m)
    BY DEF ServiceInv
  <2>2. stage.at = "serving" /\ \A h \in Handlers : m \notin Holds(h)
    BY DEF Quiet
  <2>3. Leads(mailbox, <<>>, started[m], m, Wanted(m))
    BY <2>1, <2>2 DEF Follows, StageInv
  <2>4. ~ HasStop(mailbox, m) /\ ~ HasStart(mailbox, m)
    <3>1. \A i \in 1 .. Len(mailbox), c \in Configs : mailbox[i] # StartOf(m, c)
      <4> SUFFICES ASSUME NEW i \in 1 .. Len(mailbox), NEW c \in Configs PROVE mailbox[i] # StartOf(m, c)
        OBVIOUS
      <4>1. [mon |-> m, cfg |-> c] \in Job /\ [mon |-> m, cfg |-> c].mon = m
        BY DEF Job
      <4> QED BY <4>1 DEF Quiet, StartOf
    <3> QED BY <3>1 DEF Quiet, HasStop, HasStart
  <2>5. \A c \in Configs : ~ Live(mailbox, m, c)
    BY <2>4, EmptyFacts
  <2> QED BY <2>1, <2>3, <2>4, <2>5, WantedFacts, EmptyFacts DEF Leads
<1> QED BY <1>1, ServiceAlways, PTL

(* A deleted monitor never comes back: no step writes the row of a monitor that
   was created once and is gone, not even the write of an update that was
   checked before the delete. *)
THEOREM DeletedStayDeleted == Spec => DeletedForGood
<1>1. ServiceInv /\ [Next]_vars => [\A m \in issued : table[m] = None => table'[m] = None]_vars
  <2> SUFFICES ASSUME ServiceInv, Next, NEW m \in issued, table[m] = None PROVE table'[m] = None
    OBVIOUS
  <2>1. /\ m \in Monitors /\ m \notin Rows /\ table \in [Monitors -> Row \cup {None}]
    BY DEF ServiceInv, TypeOK, Rows
  <2>2. ASSUME NEW h \in Handlers, Handle(h) PROVE table'[m] = None
    BY <2>1, <2>2 DEF Handle, CreateInsert, CreateSelect, UpdateWrite, UpdateFails, UpdateSelect,
       UpdateCheck, ToggleOn, ToggleOff, ToggleFails, Delete, EnableSelect, PollSelect, SelectFails, SendNext
  <2>3. ASSUME Restore \/ RestoreNext \/ Serve \/ Crash \/ Distribute PROVE table'[m] = None
    BY <2>3 DEF Restore, RestoreNext, Serve, Crash, Distribute, svcVars
  <2> QED BY <2>2, <2>3 DEF Next
<1> QED BY <1>1, ServiceAlways, PTL DEF Spec, DeletedForGood
=============================================================================
