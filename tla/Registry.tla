------------------------------ MODULE Registry ------------------------------
(***************************************************************************)
(* What the distributor promises to those that send to it, without its     *)
(* goroutines: messages take effect one at a time, in the order in which   *)
(* they were accepted; a start or a stop is carried out at once, and a     *)
(* monitor is polled while it is started, with the configuration it was    *)
(* started with, or once for every poll request.                           *)
(*                                                                         *)
(* Distributor.tla implements this module; MonitorService.tla composes it  *)
(* with the handlers and the database.                                     *)
(***************************************************************************)
EXTENDS Naturals, Sequences

CONSTANTS
  Monitors,  \* ids of monitors
  Configs,   \* what a monitor row holds besides its id
  Notices,   \* messages that concern no monitor's state
  None       \* no configuration: the monitor is not started

VARIABLES
  mailbox,   \* messages accepted and not carried out
  started,   \* the configuration every monitor was started with
  due        \* polls in progress, by what they poll

regVars == <<mailbox, started, due>>

Job == [mon : Monitors, cfg : Configs]

StartMessage(j) == [type |-> "start", job |-> j]
StopMessage(m)  == [type |-> "stop", mon |-> m]
PollMessage(j)  == [type |-> "poll", job |-> j]

Message ==
       {StartMessage(j) : j \in Job} \cup {PollMessage(j) : j \in Job}
  \cup {StopMessage(m) : m \in Monitors} \cup Notices

RegInit ==
  /\ mailbox = <<>>
  /\ started = [m \in Monitors |-> None]
  /\ due = [j \in Job |-> 0]

(* A message is accepted. *)
Put(msg) == mailbox' = Append(mailbox, msg)

(* The oldest message is carried out. *)
Take(msg) == mailbox # <<>> /\ Head(mailbox) = msg /\ mailbox' = Tail(mailbox)

(* What a poll request for j polls: a started monitor as it was started. *)
Polled(j) == IF started[j.mon] = None THEN j ELSE [mon |-> j.mon, cfg |-> started[j.mon]]

(* A monitor is started unless it is already. *)
ApplyStart(j) ==
  /\ Take(StartMessage(j))
  /\ started' = IF started[j.mon] = None THEN [started EXCEPT ![j.mon] = j.cfg] ELSE started
  /\ UNCHANGED due

ApplyStop(m) ==
  /\ Take(StopMessage(m))
  /\ started' = [started EXCEPT ![m] = None]
  /\ UNCHANGED due

ApplyPoll(j) ==
  /\ Take(PollMessage(j))
  /\ due' = [due EXCEPT ![Polled(j)] = @ + 1]
  /\ UNCHANGED started

ApplyNotice(msg) ==
  /\ Take(msg)
  /\ UNCHANGED <<started, due>>

(* The timer of a started monitor fires. *)
Fire(m) ==
  /\ started[m] # None
  /\ due' = [due EXCEPT ![[mon |-> m, cfg |-> started[m]]] = @ + 1]
  /\ UNCHANGED <<mailbox, started>>

(* A poll ends: a notice, the measurement, is accepted. *)
Finish(j, msg) ==
  /\ due[j] > 0
  /\ due' = [due EXCEPT ![j] = @ - 1]
  /\ Put(msg)
  /\ UNCHANGED started

Accept(msg) == Put(msg) /\ UNCHANGED <<started, due>>

RegApply ==
  \/ \E j \in Job : ApplyStart(j) \/ ApplyPoll(j)
  \/ \E m \in Monitors : ApplyStop(m)
  \/ \E msg \in Notices : ApplyNotice(msg)

RegNext ==
  \/ RegApply
  \/ \E m \in Monitors : Fire(m)
  \/ \E j \in Job, msg \in Notices : Finish(j, msg)
  \/ \E msg \in Message : Accept(msg)

RegSpec == RegInit /\ [][RegNext]_regVars

(* Messages go on being carried out for as long as there are any.  This is not
   part of the promise: a distributor that has stopped listening keeps RegSpec.
   It is what those that wait for an effect have to ask for besides. *)
KeepsTaking == []<>(mailbox = <<>>) \/ []<><<RegApply>>_regVars
=============================================================================
