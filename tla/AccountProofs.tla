--------------------------- MODULE AccountProofs ---------------------------
(* Proofs of the safety properties of Account, for any number of handlers,
   usernames and accounts. *)
EXTENDS Account, TLAPS

-----------------------------------------------------------------------------
(* The conjuncts that the properties need to be inductive. *)

(* Only ids that have been issued are in the table. *)
IssuedIds == \A i \in Present : i < nextId

(* A handler that adds an account without the role of root was let in by a
   token, so there has been an account: only the first insert may find the
   table as it was created. *)
CreatorsLate ==
  \A h \in Handlers :
    At(h, "exists") \/ At(h, "insert") => task[h].root \/ nextId > 1

Safe == NamesUnique /\ StaysClaimed /\ TokensKeepRole
AccountInv == TypeOK /\ IssuedIds /\ CreatorsLate /\ Safe

-----------------------------------------------------------------------------
(* What the steps of a handler do to its task. *)

(* The record a handler goes on with is a task. *)
LEMMA GoesFacts ==
  ASSUME task \in [Handlers -> Task \cup {None}], NEW h \in Handlers,
         NEW step \in {"exists", "insert", "update", "reissue"}, NEW name \in Names,
         NEW root \in BOOLEAN, NEW id \in Ids \cup {None}, Goes(h, step, name, root, id)
  PROVE  /\ task' \in [Handlers -> Task \cup {None}]
         /\ task'[h] = [step |-> step, name |-> name, root |-> root, id |-> id]
         /\ \A g \in Handlers \ {h} : task'[g] = task[g]
<1>1. [step |-> step, name |-> name, root |-> root, id |-> id] \in Task
  BY DEF Task
<1> QED BY <1>1 DEF Goes

(* A handler that ends has no task, and the others keep theirs. *)
LEMMA EndsFacts ==
  ASSUME task \in [Handlers -> Task \cup {None}], NEW h \in Handlers, Ends(h)
  PROVE  /\ task' \in [Handlers -> Task \cup {None}]
         /\ task'[h] = None
         /\ \A g \in Handlers \ {h} : task'[g] = task[g]
BY DEF Ends

(* A handler at a step has a task. *)
LEMMA AtFacts ==
  ASSUME task \in [Handlers -> Task \cup {None}], NEW h \in Handlers, NEW step, At(h, step)
  PROVE  task[h] \in Task /\ task[h].name \in Names /\ task[h].root \in BOOLEAN
         /\ task[h].id \in Ids \cup {None} /\ task[h].step = step
BY DEF At, Task

(* A row of the table is an account. *)
LEMMA PresentFacts ==
  ASSUME TypeOK, NEW i \in Present
  PROVE  i \in Ids /\ accounts[i] \in Account /\ accounts[i].root \in BOOLEAN
         /\ accounts[i].name \in Names /\ TokenOf(i) \in Token
BY DEF TypeOK, Present, Account, TokenOf, Token

-----------------------------------------------------------------------------
(* Every variable keeps its type: one step per action. *)
LEMMA TypeStep == TypeOK /\ [Next]_vars => TypeOK'
<1> SUFFICES ASSUME TypeOK, [Next]_vars PROVE TypeOK'
  OBVIOUS
<1> USE DEF TypeOK
<1>1. ASSUME NEW h \in Handlers, NEW name \in Names, Claim(h, name) PROVE TypeOK'
  BY <1>1, GoesFacts DEF Claim
<1>2. ASSUME NEW h \in Handlers, NEW t \in tokens, NEW name \in Names, Create(h, t, name)
      PROVE  TypeOK'
  BY <1>2, GoesFacts DEF Create
<1>3. ASSUME NEW h \in Handlers, AccountExists(h) PROVE TypeOK'
  <2>1. task[h].name \in Names /\ task[h].root \in BOOLEAN
    BY <1>3, AtFacts DEF AccountExists
  <2>2. CASE Named(task[h].name) = {}
    BY <1>3, <2>1, <2>2, GoesFacts DEF AccountExists
  <2>3. CASE Named(task[h].name) # {}
    BY <1>3, <2>3, EndsFacts DEF AccountExists
  <2> QED BY <2>2, <2>3
<1>4. ASSUME NEW h \in Handlers, Insert(h) PROVE TypeOK'
  <2>1. [name |-> task[h].name, root |-> task[h].root] \in Account
    BY <1>4, AtFacts DEF Insert, Account
  <2>2. nextId \in Ids /\ nextId' \in 1 .. MaxId + 1
    BY <1>4, MaxIdAssumption DEF Insert, Ids
  <2>3. tokens' \subseteq Token
    <3>1. [id |-> nextId, root |-> TRUE] \in Token
      BY <2>2 DEF Token
    <3>2. \A t \in tokens' : t \in tokens \/ t = [id |-> nextId, root |-> TRUE]
      BY <1>4 DEF Insert
    <3> QED BY <3>1, <3>2
  <2> QED BY <1>4, <2>1, <2>2, <2>3, EndsFacts DEF Insert
<1>5. ASSUME NEW h \in Handlers, InsertRefused(h) PROVE TypeOK'
  BY <1>5, EndsFacts DEF InsertRefused
<1>6. ASSUME NEW h \in Handlers, NEW t \in tokens, NEW id \in Ids, NEW name \in Names,
             Update(h, t, id, name)
      PROVE  TypeOK'
  BY <1>6, GoesFacts DEF Update
<1>7. ASSUME NEW h \in Handlers, UpdateWrite(h) PROVE TypeOK'
  <2>1. task[h].name \in Names /\ task[h].id \in Ids \cup {None}
    BY <1>7, AtFacts DEF UpdateWrite
  <2>2. accounts' \in [Ids -> Account \cup {None}]
    BY <1>7, <2>1 DEF UpdateWrite, Present, Account
  <2> QED BY <1>7, <2>1, <2>2, EndsFacts, GoesFacts DEF UpdateWrite
<1>8. ASSUME NEW h \in Handlers, UpdateRefused(h) PROVE TypeOK'
  BY <1>8, EndsFacts DEF UpdateRefused
<1>9. ASSUME NEW h \in Handlers, Reissue(h) PROVE TypeOK'
  BY <1>9, EndsFacts, PresentFacts DEF Reissue, Named
<1>10. ASSUME NEW ids \in SUBSET Ids \ {{}}, Delete(ids) PROVE TypeOK'
  BY <1>10 DEF Delete
<1>11. ASSUME NEW name \in Names, Authenticate(name) PROVE TypeOK'
  BY <1>11, PresentFacts DEF Authenticate, Named
<1>12. ASSUME NEW t \in tokens, Expire(t) PROVE TypeOK'
  BY <1>12 DEF Expire
<1>13. ASSUME Restart PROVE TypeOK'
  BY <1>13 DEF Restart
<1>14. ASSUME UNCHANGED vars PROVE TypeOK'
  BY <1>14 DEF vars
<1> QED BY <1>1, <1>2, <1>3, <1>4, <1>5, <1>6, <1>7, <1>8, <1>9, <1>10, <1>11, <1>12, <1>13,
           <1>14 DEF Next, Handle

-----------------------------------------------------------------------------
(* Steps that leave the table, the ids and what is needed of the tasks alone. *)

(* The table and the tokens are safe when neither table nor ids change and
   every new token is that of an account that is there. *)
LEMMA SameTable ==
  ASSUME AccountInv, UNCHANGED <<accounts, nextId>>,
         \A t \in tokens' : t \in tokens \/ \E i \in Present : t = TokenOf(i)
  PROVE  IssuedIds' /\ Safe'
<1>1. Present' = Present
  BY DEF Present
<1>2. IssuedIds' /\ NamesUnique' /\ StaysClaimed'
  BY <1>1 DEF AccountInv, Safe, IssuedIds, NamesUnique, StaysClaimed
<1>3. ASSUME NEW t \in tokens'
      PROVE  t.id < nextId /\ (t.root => t.id \in Present)
             /\ (t.id \in Present => accounts[t.id].root = t.root)
  <2>1. CASE t \in tokens
    BY <2>1 DEF AccountInv, Safe, TokensKeepRole
  <2>2. CASE \E i \in Present : t = TokenOf(i)
    BY <2>2 DEF AccountInv, IssuedIds, TokenOf
  <2> QED BY <1>3, <2>1, <2>2
<1> QED BY <1>1, <1>2, <1>3 DEF Safe, TokensKeepRole

(* What Insert assigns: the row goes in under the next id, alone. *)
LEMMA InsertFacts ==
  ASSUME AccountInv, NEW h \in Handlers, Insert(h)
  PROVE  /\ nextId \in Ids /\ nextId \notin Present /\ nextId' = nextId + 1
         /\ accounts'[nextId] = [name |-> task[h].name, root |-> task[h].root]
         /\ \A i \in Present : accounts'[i] = accounts[i]
         /\ Present' = Present \cup {nextId}
         /\ \A t \in tokens' :
              t \in tokens \/ (task[h].root /\ t = [id |-> nextId, root |-> TRUE])
<1>1. nextId \in Ids /\ nextId \notin Present
  BY DEF AccountInv, TypeOK, IssuedIds, Insert, Ids
<1>2. [name |-> task[h].name, root |-> task[h].root] \in Account
  BY AtFacts DEF Insert, AccountInv, TypeOK, Account
<1>3. /\ accounts'[nextId] = [name |-> task[h].name, root |-> task[h].root]
      /\ \A i \in Ids \ {nextId} : accounts'[i] = accounts[i]
  BY <1>1 DEF AccountInv, TypeOK, Insert
<1>4. Present' = Present \cup {nextId}
  BY <1>1, <1>2, <1>3, NoneAssumption DEF Present
<1> QED BY <1>1, <1>3, <1>4 DEF Insert, Present

(* The row that goes in is the only one with its username, is a root account
   if it is the first, and makes no token untrue. *)
LEMMA InsertSafe ==
  ASSUME AccountInv, NEW h \in Handlers, Insert(h)
  PROVE  IssuedIds' /\ Safe'
<1> DEFINE row == [name |-> task[h].name, root |-> task[h].root]
<1>0. /\ nextId \in Ids /\ nextId \notin Present /\ nextId' = nextId + 1
      /\ accounts'[nextId] = row /\ Present' = Present \cup {nextId}
      /\ \A i \in Present : accounts'[i] = accounts[i]
      /\ \A t \in tokens' :
           t \in tokens \/ (task[h].root /\ t = [id |-> nextId, root |-> TRUE])
  BY InsertFacts
<1>1. task[h] \in Task /\ task[h].root \in BOOLEAN
  BY AtFacts DEF Insert, AccountInv, TypeOK
<1>2. nextId \in Nat /\ \A i \in Present : i \in Nat /\ i < nextId
  BY <1>0 DEF AccountInv, IssuedIds, TypeOK, Present, Ids
<1>3. IssuedIds'
  BY <1>2, <1>0 DEF IssuedIds
<1>4. NamesUnique'
  BY <1>0 DEF AccountInv, Safe, NamesUnique, Insert, Named
<1>5. StaysClaimed'
  <2>1. CASE nextId > 1
    BY <2>1, <1>0 DEF AccountInv, Safe, StaysClaimed
  <2>2. CASE ~ nextId > 1
    BY <2>2, <1>0 DEF AccountInv, CreatorsLate, StaysClaimed, Insert
  <2> QED BY <2>1, <2>2
<1>6. TokensKeepRole'
  <2> SUFFICES ASSUME NEW t \in tokens'
               PROVE  /\ t.id < nextId' /\ (t.root => t.id \in Present')
                      /\ (t.id \in Present' => accounts'[t.id].root = t.root)
    BY DEF TokensKeepRole
  <2>1. CASE t \in tokens
    <3>1. t.id \in Nat /\ t.id < nextId /\ (t.root => t.id \in Present)
          /\ (t.id \in Present => accounts[t.id].root = t.root)
      BY <2>1 DEF AccountInv, Safe, TokensKeepRole, TypeOK, Token, Ids
    <3> QED BY <1>2, <3>1, <1>0
  <2>2. CASE task[h].root /\ t = [id |-> nextId, root |-> TRUE]
    <3>1. task[h].root = TRUE /\ t.id = nextId /\ t.root = TRUE
      BY <1>1, <2>2
    <3>2. row = [name |-> task[h].name, root |-> TRUE]
      BY <3>1
    <3>3. accounts'[t.id].root = TRUE
      BY <1>0, <3>1, <3>2
    <3>4. accounts'[t.id].root = t.root
      BY <3>1, <3>3, Zenon
    <3> QED BY <1>0, <1>2, <3>1, <3>4
  <2> QED BY <2>1, <2>2, <1>0
<1> QED BY <1>3, <1>4, <1>5, <1>6 DEF Safe

(* A renamed account keeps its role, and nobody else has the new username. *)
LEMMA UpdateSafe ==
  ASSUME AccountInv, NEW h \in Handlers, UpdateWrite(h)
  PROVE  IssuedIds' /\ Safe'
<1> DEFINE i == task[h].id
           n == task[h].name
<1>1. CASE i \notin Present
  BY <1>1, SameTable DEF UpdateWrite
<1>2. CASE i \in Present
  <2>1. /\ i \in Ids /\ accounts[i] \in Account
        /\ accounts' = [accounts EXCEPT ![i] = [accounts[i] EXCEPT !.name = n]]
    BY <1>2, PresentFacts DEF UpdateWrite, AccountInv
  <2>2. n \in Names
    BY AtFacts DEF UpdateWrite, AccountInv, TypeOK
  <2>3. accounts'[i] = [name |-> n, root |-> accounts[i].root]
    BY <2>1 DEF AccountInv, TypeOK, Account
  <2>4. accounts'[i] \in Account
    BY <2>1, <2>2, <2>3 DEF Account
  <2>5. \A j \in Ids \ {i} : accounts'[j] = accounts[j]
    BY <2>1 DEF AccountInv, TypeOK
  <2>6. Present' = Present
    BY <1>2, <2>1, <2>4, <2>5, NoneAssumption DEF Present
  <2>7. \A j \in Present : accounts'[j].root = accounts[j].root
    BY <2>3, <2>5 DEF Present
  <2>8. NamesUnique'
    <3>1. \A j \in Present \ {i} : accounts[j].name # n
      BY <1>2 DEF UpdateWrite, MayWrite, Named
    <3> QED BY <2>3, <2>5, <2>6, <3>1 DEF AccountInv, Safe, NamesUnique, Present
  <2>9. UNCHANGED <<nextId, tokens>>
    BY DEF UpdateWrite
  <2> QED BY <2>6, <2>7, <2>8, <2>9 DEF AccountInv, Safe, IssuedIds, StaysClaimed, TokensKeepRole
<1> QED BY <1>1, <1>2

(* No root account is deleted, so its tokens stay true; what is left of the
   table is as it was. *)
LEMMA DeleteSafe ==
  ASSUME AccountInv, NEW ids \in SUBSET Ids, Delete(ids)
  PROVE  IssuedIds' /\ Safe'
<1>1. /\ Present' \subseteq Present
      /\ \A i \in Present' : accounts'[i] = accounts[i]
      /\ \A i \in Present : accounts[i].root => i \in Present'
  BY DEF Delete, Present
<1>2. UNCHANGED <<nextId, tokens>>
  BY DEF Delete
<1> QED BY <1>1, <1>2 DEF AccountInv, Safe, IssuedIds, NamesUnique, StaysClaimed, TokensKeepRole

-----------------------------------------------------------------------------
(* The steps that do not write the table, and those of the tasks. *)

(* A root account is there once a root token is: Create is let in late. *)
LEMMA TokenIsLate ==
  ASSUME AccountInv, NEW t \in tokens
  PROVE  nextId > 1
BY DEF AccountInv, Safe, TokensKeepRole, TypeOK, Token, Ids

(* What the tasks must satisfy is kept by a step that changes one of them, if
   the new task does and ids are never taken back. *)
LEMMA TasksLate ==
  ASSUME AccountInv, NEW h \in Handlers, nextId' >= nextId, nextId' \in Nat,
         \A g \in Handlers \ {h} : task'[g] = task[g],
         At(h, "exists")' \/ At(h, "insert")' => task'[h].root \/ nextId' > 1
  PROVE  CreatorsLate'
<1>1. nextId \in Nat
  BY MaxIdAssumption DEF AccountInv, TypeOK
<1>2. \A g \in Handlers \ {h} : At(g, "exists")' \/ At(g, "insert")' => task'[g].root \/ nextId' > 1
  BY <1>1 DEF AccountInv, CreatorsLate, At
<1> QED BY <1>2 DEF CreatorsLate

(* A handler that goes on as something else than an adder, or ends, needs nothing. *)
LEMMA NotAdding ==
  ASSUME AccountInv, NEW h \in Handlers, UNCHANGED nextId,
         \A g \in Handlers \ {h} : task'[g] = task[g],
         task'[h] = None \/ task'[h].step \notin {"exists", "insert"}
  PROVE  CreatorsLate'
<1>1. nextId \in Nat
  BY MaxIdAssumption DEF AccountInv, TypeOK
<1> QED BY <1>1, TasksLate DEF At

(* No step of a task lets an account without the role of root into an empty
   table: one step per action of a handler. *)
LEMMA LateStep ==
  ASSUME AccountInv, NEW h \in Handlers, Handle(h)
  PROVE  CreatorsLate'
<1>0. nextId \in Nat /\ task \in [Handlers -> Task \cup {None}]
  BY MaxIdAssumption DEF AccountInv, TypeOK
<1>1. ASSUME NEW name \in Names, Claim(h, name) PROVE CreatorsLate'
  <2>1. /\ task'[h] = [step |-> "exists", name |-> name, root |-> TRUE, id |-> None]
        /\ \A g \in Handlers \ {h} : task'[g] = task[g]
    BY <1>0, <1>1 DEF Claim, Goes
  <2> QED BY <1>0, <1>1, <2>1, TasksLate DEF Claim
<1>2. ASSUME NEW t \in tokens, NEW name \in Names, Create(h, t, name) PROVE CreatorsLate'
  <2>1. \A g \in Handlers \ {h} : task'[g] = task[g]
    BY <1>0, <1>2, GoesFacts DEF Create
  <2> QED BY <1>0, <1>2, <2>1, TasksLate, TokenIsLate DEF Create
<1>3. ASSUME AccountExists(h) PROVE CreatorsLate'
  <2>1. task[h].name \in Names /\ task[h].root \in BOOLEAN
    BY <1>0, <1>3, AtFacts DEF AccountExists
  <2>2. CASE Named(task[h].name) # {}
    BY <1>0, <1>3, <2>2, EndsFacts, NotAdding DEF AccountExists
  <2>3. CASE Named(task[h].name) = {}
    <3>1. /\ task'[h] = [step |-> "insert", name |-> task[h].name, root |-> task[h].root, id |-> None]
          /\ \A g \in Handlers \ {h} : task'[g] = task[g]
      BY <1>0, <1>3, <2>1, <2>3, GoesFacts DEF AccountExists
    <3>2. task[h].root \/ nextId > 1
      BY <1>3 DEF AccountExists, AccountInv, CreatorsLate
    <3> QED BY <1>0, <1>3, <3>1, <3>2, TasksLate DEF AccountExists
  <2> QED BY <2>2, <2>3
<1>4. ASSUME Insert(h) PROVE CreatorsLate'
  <2>1. task'[h] = None /\ \A g \in Handlers \ {h} : task'[g] = task[g]
    BY <1>0, <1>4, EndsFacts DEF Insert
  <2> QED BY <1>0, <1>4, <2>1, TasksLate DEF Insert, At
<1>5. ASSUME InsertRefused(h) \/ UpdateRefused(h) \/ Reissue(h) PROVE CreatorsLate'
  BY <1>0, <1>5, EndsFacts, NotAdding DEF InsertRefused, UpdateRefused, Reissue
<1>6. ASSUME NEW t \in tokens, NEW id \in Ids, NEW name \in Names, Update(h, t, id, name)
      PROVE  CreatorsLate'
  <2>1. /\ task'[h] = [step |-> "update", name |-> name, root |-> FALSE, id |-> id]
        /\ \A g \in Handlers \ {h} : task'[g] = task[g]
    BY <1>0, <1>6 DEF Update, Goes
  <2> QED BY <1>6, <2>1, NotAdding DEF Update
<1>7. ASSUME UpdateWrite(h) PROVE CreatorsLate'
  <2>1. task[h].name \in Names /\ task[h].id \in Ids \cup {None}
    BY <1>0, <1>7, AtFacts DEF UpdateWrite
  <2>2. CASE Ends(h)
    BY <1>0, <1>7, <2>2, EndsFacts, NotAdding DEF UpdateWrite
  <2>3. CASE Goes(h, "reissue", task[h].name, FALSE, task[h].id)
    <3>1. /\ task'[h] = [step |-> "reissue", name |-> task[h].name, root |-> FALSE, id |-> task[h].id]
          /\ \A g \in Handlers \ {h} : task'[g] = task[g]
      BY <1>0, <2>1, <2>3, GoesFacts
    <3> QED BY <1>7, <3>1, NotAdding DEF UpdateWrite
  <2> QED BY <1>7, <2>2, <2>3 DEF UpdateWrite
<1> QED BY <1>1, <1>2, <1>3, <1>4, <1>5, <1>6, <1>7 DEF Handle

-----------------------------------------------------------------------------
(* The table stays safe: one step per action. *)
LEMMA SafeStep ==
  ASSUME AccountInv, Next
  PROVE  IssuedIds' /\ Safe'
<1>1. ASSUME NEW h \in Handlers, NEW name \in Names, Claim(h, name) PROVE IssuedIds' /\ Safe'
  BY <1>1, SameTable DEF Claim
<1>2. ASSUME NEW h \in Handlers, NEW t \in tokens, NEW name \in Names, Create(h, t, name)
      PROVE  IssuedIds' /\ Safe'
  BY <1>2, SameTable DEF Create
<1>3. ASSUME NEW h \in Handlers, AccountExists(h) \/ InsertRefused(h) \/ UpdateRefused(h)
      PROVE  IssuedIds' /\ Safe'
  BY <1>3, SameTable DEF AccountExists, InsertRefused, UpdateRefused
<1>4. ASSUME NEW h \in Handlers, Insert(h) PROVE IssuedIds' /\ Safe'
  BY <1>4, InsertSafe
<1>5. ASSUME NEW h \in Handlers, NEW t \in tokens, NEW id \in Ids, NEW name \in Names,
             Update(h, t, id, name)
      PROVE  IssuedIds' /\ Safe'
  BY <1>5, SameTable DEF Update
<1>6. ASSUME NEW h \in Handlers, UpdateWrite(h) PROVE IssuedIds' /\ Safe'
  BY <1>6, UpdateSafe
<1>7. ASSUME NEW h \in Handlers, Reissue(h) PROVE IssuedIds' /\ Safe'
  BY <1>7, SameTable DEF Reissue, Named
<1>8. ASSUME NEW ids \in SUBSET Ids \ {{}}, Delete(ids) PROVE IssuedIds' /\ Safe'
  BY <1>8, DeleteSafe
<1>9. ASSUME NEW name \in Names, Authenticate(name) PROVE IssuedIds' /\ Safe'
  BY <1>9, SameTable DEF Authenticate, Named
<1>10. ASSUME NEW t \in tokens, Expire(t) PROVE IssuedIds' /\ Safe'
  BY <1>10, SameTable DEF Expire
<1>11. ASSUME Restart PROVE IssuedIds' /\ Safe'
  BY <1>11, SameTable DEF Restart
<1> QED BY <1>1, <1>2, <1>3, <1>4, <1>5, <1>6, <1>7, <1>8, <1>9, <1>10, <1>11 DEF Next, Handle

(* The invariant holds of an empty table and every step keeps it. *)
LEMMA AccountInvariant == Spec => []AccountInv
<1>1. Init => AccountInv
  <2> SUFFICES ASSUME Init PROVE AccountInv
    OBVIOUS
  <2>1. TypeOK
    BY MaxIdAssumption DEF Init, TypeOK
  <2>2. Present = {} /\ nextId = 1 /\ tokens = {}
    BY DEF Init, Present
  <2>3. CreatorsLate
    BY DEF Init, CreatorsLate, At
  <2> QED BY <2>1, <2>2, <2>3
       DEF AccountInv, Safe, IssuedIds, NamesUnique, StaysClaimed, TokensKeepRole
<1>2. AccountInv /\ [Next]_vars => AccountInv'
  <2> SUFFICES ASSUME AccountInv, [Next]_vars PROVE AccountInv'
    OBVIOUS
  <2>1. TypeOK'
    BY TypeStep DEF AccountInv
  <2>2. CASE Next
    <3>1. CreatorsLate'
      <4>1. ASSUME NEW h \in Handlers, Handle(h) PROVE CreatorsLate'
        BY <4>1, LateStep
      <4>2. CASE \E ids \in SUBSET Ids \ {{}} : Delete(ids)
        BY <4>2 DEF Delete, AccountInv, CreatorsLate, At
      <4>3. CASE (\E name \in Names : Authenticate(name)) \/ (\E t \in tokens : Expire(t))
        BY <4>3 DEF Authenticate, Expire, AccountInv, CreatorsLate, At
      <4>4. CASE Restart
        BY <4>4 DEF Restart, CreatorsLate, At
      <4> QED BY <2>2, <4>1, <4>2, <4>3, <4>4 DEF Next
    <3> QED BY <2>1, <2>2, <3>1, SafeStep DEF AccountInv
  <2>3. CASE UNCHANGED vars
    BY <2>3, <2>1, SameTable DEF vars, AccountInv, CreatorsLate, At
  <2> QED BY <2>2, <2>3
<1> QED BY <1>1, <1>2, PTL DEF Spec

-----------------------------------------------------------------------------

(* Every variable of the accounts keeps its type. *)
THEOREM TypeCorrect == Spec => []TypeOK
<1>1. AccountInv => TypeOK
  BY DEF AccountInv
<1> QED BY <1>1, AccountInvariant, PTL

(* No two accounts ever share a username, however many handlers check and write
   in whatever order: the check of a handler may be stale, the constraint of
   the table is not. *)
THEOREM UsernamesUnique == Spec => []NamesUnique
<1>1. AccountInv => NamesUnique
  BY DEF AccountInv, Safe
<1> QED BY <1>1, AccountInvariant, PTL

(* A server that has had an account has a root account, for good: the first
   row to go in is that of a claim, and a root account is never deleted. *)
THEOREM RootAccountStays == Spec => []StaysClaimed
<1>1. AccountInv => StaysClaimed
  BY DEF AccountInv, Safe
<1> QED BY <1>1, AccountInvariant, PTL

(* Every token that is valid says the truth about the role of its account, or
   its account is gone for good: ids are not issued twice. *)
THEOREM TokensTellRole == Spec => []TokensKeepRole
<1>1. AccountInv => TokensKeepRole
  BY DEF AccountInv, Safe
<1> QED BY <1>1, AccountInvariant, PTL

-----------------------------------------------------------------------------
(* Handlers implement Accounts. *)

(* The helpers of the two modules are the same. *)
LEMMA SameHelpers ==
  /\ Promise!Ids = Ids /\ Promise!Present = Present
  /\ \A i : Promise!TokenOf(i) = TokenOf(i)
BY DEF Promise!Ids, Promise!Present, Promise!TokenOf, Ids, Present, TokenOf

(* The last statement of a creation or a claim is the whole request. *)
LEMMA InsertAdds ==
  ASSUME AccountInv, NEW h \in Handlers, Insert(h)
  PROVE  Promise!Answers
<1>1. task[h].name \in Names /\ task[h].root \in BOOLEAN
  BY AtFacts DEF Insert, AccountInv, TypeOK
<1>2. Promise!Free(task[h].name, None)
  BY SameHelpers DEF Insert, Named, Promise!Free
<1>3. task[h].root \/ nextId > 1
  BY DEF Insert, AccountInv, CreatorsLate
<1>4. tokens' = IF task[h].root THEN tokens \cup {[id |-> nextId, root |-> TRUE]} ELSE tokens
  BY <1>1 DEF Insert
<1>5. Promise!Add(task[h].name, task[h].root)
  BY <1>2, <1>3, <1>4, SameHelpers DEF Insert, Promise!Add
<1> QED BY <1>1, <1>5 DEF Promise!Answers

(* So is the statement that renames an account; for one that is gone it changes nothing. *)
LEMMA UpdateRenames ==
  ASSUME AccountInv, NEW h \in Handlers, UpdateWrite(h)
  PROVE  Promise!Answers \/ UNCHANGED <<accounts, nextId, tokens>>
<1>1. task[h].name \in Names
  BY AtFacts DEF UpdateWrite, AccountInv, TypeOK
<1>2. CASE task[h].id \in Present
  <2>1. Promise!Free(task[h].name, task[h].id)
    BY <1>2, SameHelpers DEF UpdateWrite, MayWrite, Named, Promise!Free
  <2>2. Promise!Rename(task[h].id, task[h].name)
    BY <1>2, <2>1, SameHelpers DEF UpdateWrite, Promise!Rename
  <2>3. task[h].id \in Promise!Ids
    BY <1>2, SameHelpers DEF Present
  <2> QED BY <1>1, <2>2, <2>3 DEF Promise!Answers
<1>3. CASE task[h].id \notin Present
  BY <1>3 DEF UpdateWrite
<1> QED BY <1>2, <1>3

(* A username is that of one account, so looking one up gives one token. *)
LEMMA LookUpGives ==
  ASSUME AccountInv, NEW name, tokens' = tokens \cup {TokenOf(i) : i \in Named(name)},
         UNCHANGED <<accounts, nextId>>
  PROVE  Promise!Answers \/ UNCHANGED <<accounts, nextId, tokens>>
<1>1. CASE Named(name) = {}
  BY <1>1
<1>2. CASE Named(name) # {}
  <2>1. PICK i \in Present : accounts[i].name = name
    BY <1>2 DEF Named
  <2>2. Named(name) = {i}
    BY <2>1 DEF Named, AccountInv, Safe, NamesUnique
  <2>3. tokens' = tokens \cup {TokenOf(i)}
    BY <2>2
  <2>4. Promise!GiveToken(i)
    BY <2>1, <2>3, SameHelpers DEF Promise!GiveToken
  <2>5. i \in Promise!Ids
    BY <2>1, SameHelpers DEF Present
  <2> QED BY <2>4, <2>5 DEF Promise!Answers
<1> QED BY <1>1, <1>2

(* Every step is an answer, or changes nothing: one step per action. *)
LEMMA StepAnswers == AccountInv /\ [Next]_vars => [Promise!Answers]_<<accounts, nextId, tokens>>
<1> SUFFICES ASSUME AccountInv, [Next]_vars
             PROVE  Promise!Answers \/ UNCHANGED <<accounts, nextId, tokens>>
  OBVIOUS
<1> DEFINE Good == Promise!Answers \/ UNCHANGED <<accounts, nextId, tokens>>
<1>1. ASSUME NEW h \in Handlers, Handle(h) PROVE Good
  <2>1. CASE Insert(h)
    BY <2>1, InsertAdds
  <2>2. CASE UpdateWrite(h)
    BY <2>2, UpdateRenames
  <2>3. CASE Reissue(h)
    BY <2>3, LookUpGives DEF Reissue
  <2>4. CASE (\E name \in Names : Claim(h, name)) \/ (\E t \in tokens, name \in Names : Create(h, t, name))
    BY <2>4 DEF Claim, Create
  <2>5. CASE AccountExists(h) \/ InsertRefused(h) \/ UpdateRefused(h)
    BY <2>5 DEF AccountExists, InsertRefused, UpdateRefused
  <2>6. CASE \E t \in tokens, id \in Ids, name \in Names : Update(h, t, id, name)
    BY <2>6 DEF Update
  <2> QED BY <1>1, <2>1, <2>2, <2>3, <2>4, <2>5, <2>6 DEF Handle
<1>2. ASSUME NEW ids \in SUBSET Ids \ {{}}, Delete(ids) PROVE Good
  <2>1. Promise!Remove(ids)
    BY <1>2, SameHelpers DEF Delete, Promise!Remove
  <2>2. ids \in SUBSET Promise!Ids
    BY SameHelpers
  <2> QED BY <2>1, <2>2 DEF Promise!Answers
<1>3. ASSUME NEW name \in Names, Authenticate(name) PROVE Good
  BY <1>3, LookUpGives DEF Authenticate
<1>4. ASSUME NEW t \in tokens, Expire(t) PROVE Good
  <2>1. Promise!Invalidate({t}) /\ {t} \in SUBSET tokens
    BY <1>4 DEF Expire, Promise!Invalidate
  <2> QED BY <2>1 DEF Promise!Answers
<1>5. ASSUME Restart PROVE Good
  <2>1. CASE tokens' = tokens
    BY <1>5, <2>1 DEF Restart
  <2>2. CASE tokens' = {}
    <3>1. Promise!Invalidate(tokens) /\ tokens \in SUBSET tokens
      BY <1>5, <2>2 DEF Restart, Promise!Invalidate
    <3> QED BY <3>1 DEF Promise!Answers
  <2> QED BY <1>5, <2>1, <2>2 DEF Restart
<1>6. CASE UNCHANGED vars
  BY <1>6 DEF vars
<1> QED BY <1>1, <1>2, <1>3, <1>4, <1>5, <1>6 DEF Next

(* Requests of several statements, however many handlers carry them out beside
   one another and whatever is cut short by a restart, change accounts and
   tokens as requests would that took effect at once. *)
THEOREM AccountImplementsAccounts == Spec => ImplementsAccounts
<1>1. Init => Promise!AccountsInit
  BY SameHelpers DEF Init, Promise!AccountsInit
<1> QED BY <1>1, StepAnswers, AccountInvariant, PTL DEF Spec, ImplementsAccounts, Promise!AccountsSpec
=============================================================================
