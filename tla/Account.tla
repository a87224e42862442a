------------------------------ MODULE Account ------------------------------
(***************************************************************************)
(* Accounts: internal/account/service.go and the handlers of               *)
(* server/account.go over the account table.  A handler reads the table,   *)
(* decides, and writes it in separate statements, and no transaction spans *)
(* them; what the table itself enforces is that a username is UNIQUE and   *)
(* that an id is never issued again.  A token is a copy of an account that *)
(* the client keeps: the server only checks its signature and its age.     *)
(***************************************************************************)
EXTENDS Naturals

CONSTANTS
  Handlers,  \* requests that may be in progress at the same time
  Names,     \* usernames
  MaxId,     \* bound: accounts ever inserted
  None       \* no value

ASSUME MaxIdAssumption == MaxId \in Nat \ {0}

VARIABLES
  accounts,  \* the account table
  nextId,    \* the id the table issues next
  tokens,    \* tokens that have been issued and are valid
  task       \* what every handler is doing

vars == <<accounts, nextId, tokens, task>>

Ids == 1 .. MaxId
Account == [name : Names, root : BOOLEAN]
Token == [id : Ids, root : BOOLEAN]
Task == [step : {"exists", "insert", "update", "reissue"}, name : Names,
         root : BOOLEAN, id : Ids \cup {None}]

ASSUME NoneAssumption == None \notin Names /\ None \notin Account /\ None \notin Task

Present == {i \in Ids : accounts[i] # None}
Named(name) == {i \in Present : accounts[i].name = name}
TokenOf(i) == [id |-> i, root |-> accounts[i].root]

Init ==
  /\ accounts = [i \in Ids |-> None]
  /\ nextId = 1
  /\ tokens = {}
  /\ task = [h \in Handlers |-> None]

-----------------------------------------------------------------------------
(* Adding an account: AddAccount, for a claim and for a root account. *)

Goes(h, step, name, root, id) ==
  task' = [task EXCEPT ![h] = [step |-> step, name |-> name, root |-> root, id |-> id]]
Ends(h) == task' = [task EXCEPT ![h] = None]
At(h, step) == task[h] # None /\ task[h].step = step

(* A claim goes on only if no account is found; a claim of a claimed server is
   rejected here, and changes nothing. *)
Claim(h, name) ==
  /\ task[h] = None
  /\ Present = {}
  /\ Goes(h, "exists", name, TRUE, None)
  /\ UNCHANGED <<accounts, nextId, tokens>>

(* HandleCreateAccount asks for the token of a root account. *)
Create(h, t, name) ==
  /\ task[h] = None
  /\ t.root
  /\ Goes(h, "exists", name, FALSE, None)
  /\ UNCHANGED <<accounts, nextId, tokens>>

(* The username must be free. *)
AccountExists(h) ==
  /\ At(h, "exists")
  /\ IF Named(task[h].name) = {} THEN Goes(h, "insert", task[h].name, task[h].root, None)
                                 ELSE Ends(h)
  /\ UNCHANGED <<accounts, nextId, tokens>>

(* Seeded bug: the id of a deleted account is issued again. *)
InsertReusesId(h) ==
  /\ At(h, "insert") /\ Present # Ids
  /\ Named(task[h].name) = {}
  /\ LET id == CHOOSE i \in Ids \ Present : \A j \in Ids \ Present : i <= j
     IN  /\ accounts' = [accounts EXCEPT ![id] = [name |-> task[h].name, root |-> task[h].root]]
         /\ tokens' = tokens \cup (IF task[h].root THEN {[id |-> id, root |-> TRUE]} ELSE {})
  /\ Ends(h)
  /\ UNCHANGED nextId

(* The row goes in, and a claim is answered with a token. *)
Insert(h) ==
  /\ At(h, "insert") /\ nextId \in Ids
  /\ Named(task[h].name) = {}
  /\ accounts' = [accounts EXCEPT ![nextId] = [name |-> task[h].name, root |-> task[h].root]]
  /\ nextId' = nextId + 1
  /\ tokens' = tokens \cup (IF task[h].root THEN {[id |-> nextId, root |-> TRUE]} ELSE {})
  /\ Ends(h)

(* It is refused: the username has been taken meanwhile. *)
InsertRefused(h) ==
  /\ At(h, "insert")
  /\ Named(task[h].name) # {}
  /\ Ends(h)
  /\ UNCHANGED <<accounts, nextId, tokens>>

-----------------------------------------------------------------------------
(* Updating, deleting and logging in. *)

(* The token is that of a root account or of the account itself, and nobody
   else has the username. *)
Update(h, t, id, name) ==
  /\ task[h] = None
  /\ t.root \/ t.id = id
  /\ Named(name) \subseteq {id}
  /\ Goes(h, "update", name, FALSE, id)
  /\ UNCHANGED <<accounts, nextId, tokens>>

(* Seeded bug: the table lets a username in twice. *)
UpdateWriteAgain(h) ==
  /\ At(h, "update")
  /\ accounts' = IF task[h].id \in Present
                 THEN [accounts EXCEPT ![task[h].id].name = task[h].name] ELSE accounts
  /\ Ends(h)
  /\ UNCHANGED <<nextId, tokens>>

(* The constraint of the table: a row that is there is given a username only if
   no other row has it.  An UPDATE that finds no row has nothing to refuse. *)
MayWrite(h) == task[h].id \in Present => Named(task[h].name) \subseteq {task[h].id}

(* Seeded bug: an account that is deleted meanwhile is written back. *)
UpdateWriteBack(h) ==
  /\ At(h, "update")
  /\ MayWrite(h)
  /\ accounts' = [accounts EXCEPT ![task[h].id] =
                    [name |-> task[h].name, root |-> task[h].id \in Present /\ @.root]]
  /\ Ends(h)
  /\ UNCHANGED <<nextId, tokens>>

(* The row is updated, if it is still there; if it is gone the statement changes
   no row and succeeds, whoever has the username by now.  Either way the handler
   answers, or goes on to issue a new token. *)
UpdateWrite(h) ==
  /\ At(h, "update")
  /\ MayWrite(h)
  /\ accounts' = IF task[h].id \in Present
                 THEN [accounts EXCEPT ![task[h].id].name = task[h].name] ELSE accounts
  /\ Ends(h) \/ Goes(h, "reissue", task[h].name, FALSE, task[h].id)
  /\ UNCHANGED <<nextId, tokens>>

(* It is refused: the username has been taken meanwhile. *)
UpdateRefused(h) ==
  /\ At(h, "update")
  /\ ~ MayWrite(h)
  /\ Ends(h)
  /\ UNCHANGED <<accounts, nextId, tokens>>

(* The token is that of the account that has the new username by now: the one
   that was updated, unless it has been renamed or deleted and its username
   taken.  There may be no such account. *)
Reissue(h) ==
  /\ At(h, "reissue")
  /\ tokens' = tokens \cup {TokenOf(i) : i \in Named(task[h].name)}
  /\ Ends(h)
  /\ UNCHANGED <<accounts, nextId>>

(* Seeded bug: root accounts are deleted too. *)
DeleteAny(ids) ==
  /\ tokens # {}
  /\ accounts' = [i \in Ids |-> IF i \in ids THEN None ELSE accounts[i]]
  /\ UNCHANGED <<nextId, tokens, task>>

(* One statement deletes the accounts that are not root. *)
Delete(ids) ==
  /\ tokens # {}
  /\ accounts' = [i \in Ids |-> IF i \in ids \cap Present /\ ~ accounts[i].root
                                THEN None ELSE accounts[i]]
  /\ UNCHANGED <<nextId, tokens, task>>

(* HandleAuthenticate, for the right password. *)
Authenticate(name) ==
  /\ Named(name) # {}
  /\ tokens' = tokens \cup {TokenOf(i) : i \in Named(name)}
  /\ UNCHANGED <<accounts, nextId, task>>

(* A token is a week old. *)
Expire(t) ==
  /\ tokens' = tokens \ {t}
  /\ UNCHANGED <<accounts, nextId, task>>

(* The process restarts; with a secret it makes up itself, no token is valid. *)
Restart ==
  /\ task' = [h \in Handlers |-> None]
  /\ tokens' \in {tokens, {}}
  /\ UNCHANGED <<accounts, nextId>>

-----------------------------------------------------------------------------

Handle(h) ==
  \/ \E name \in Names : Claim(h, name)
  \/ \E t \in tokens, name \in Names : Create(h, t, name)
  \/ AccountExists(h) \/ Insert(h) \/ InsertRefused(h)
  \/ \E t \in tokens, id \in Ids, name \in Names : Update(h, t, id, name)
  \/ UpdateWrite(h) \/ UpdateRefused(h) \/ Reissue(h)

Next ==
  \/ \E h \in Handlers : Handle(h)
  \/ \E ids \in SUBSET Ids \ {{}} : Delete(ids)
  \/ \E name \in Names : Authenticate(name)
  \/ \E t \in tokens : Expire(t)
  \/ Restart

Spec == Init /\ [][Next]_vars

-----------------------------------------------------------------------------
(* Properties. *)

(* Every variable has its type; ids are issued one by one. *)
TypeOK ==
  /\ accounts \in [Ids -> Account \cup {None}]
  /\ nextId \in 1 .. MaxId + 1
  /\ tokens \subseteq Token
  /\ task \in [Handlers -> Task \cup {None}]

(* No two accounts share a username, although every handler checks for it in
   one statement and writes in another (service.go:55-60 and 103-113). *)
NamesUnique == \A i, j \in Present : accounts[i].name = accounts[j].name => i = j

(* Once there is an account there is a root account: the server is never left
   without anyone who can create accounts, whatever is deleted. *)
StaysClaimed == nextId > 1 => \E i \in Present : accounts[i].root

(* A token is a promise of the role its account has as long as the account
   exists: none outlives a root account, and none of a deleted account comes
   to stand for one with another role. *)
TokensKeepRole ==
  \A t \in tokens :
    /\ t.id < nextId
    /\ t.root => t.id \in Present
    /\ t.id \in Present => accounts[t.id].root = t.root

(* "Attempts to claim an already claimed server must be rejected."
   (service.go:38): no root account goes in next to an account that is there. *)
ClaimsRejected ==
  [][\A i \in Ids : accounts[i] = None /\ accounts'[i] # None /\ accounts'[i].root
       => Present = {}]_vars

(* Handlers that check and write in several statements, beside one another and
   across restarts, change accounts and tokens as requests would that took
   effect at once: what a handler found out earlier never makes it write what
   the table as it is by now would not allow, nor give out a token that is not
   that of an account as it is at that moment (service.go:38-147,
   server/account.go:230-302).  Whose token an update ends with is not promised:
   Accounts says why. *)
Promise == INSTANCE Accounts
ImplementsAccounts == Promise!AccountsSpec
=============================================================================
