------------------------------ MODULE Accounts ------------------------------
(***************************************************************************)
(* What the server promises of accounts and tokens, without its handlers:  *)
(* a request that changes something takes effect at once, on the table as  *)
(* it is at that moment, and any other changes nothing.                    *)
(*                                                                         *)
(* Account.tla implements this module with handlers of several statements, *)
(* and so does the server that AccountsPane.tla puts behind the client,    *)
(* which answers one request at a time.  Two things are not promised:      *)
(* that a claim is rejected once there is a root account (Account.tla      *)
(* shows why), and whose token an update ends with.  It is looked up by    *)
(* username after the write, so when the account is deleted or renamed     *)
(* meanwhile, its updater may be given the token of another account that   *)
(* has taken the username.                                                 *)
(***************************************************************************)
EXTENDS Naturals

CONSTANTS
  Names,  \* usernames
  MaxId,  \* bound: accounts ever inserted
  None    \* no value

VARIABLES
  accounts,  \* the account table
  nextId,    \* the id the table issues next
  tokens     \* tokens that have been issued and are valid

Ids == 1 .. MaxId
Present == {i \in Ids : accounts[i] # None}
TokenOf(i) == [id |-> i, root |-> accounts[i].root]
Free(name, id) == \A i \in Present \ {id} : accounts[i].name # name

AccountsInit == accounts = [i \in Ids |-> None] /\ nextId = 1 /\ tokens = {}

(* A root account is given a token with its row; it alone may be the first. *)
Add(name, root) ==
  /\ nextId \in Ids /\ Free(name, None)
  /\ root \/ nextId > 1
  /\ accounts' = [accounts EXCEPT ![nextId] = [name |-> name, root |-> root]]
  /\ nextId' = nextId + 1
  /\ tokens' = IF root THEN tokens \cup {[id |-> nextId, root |-> TRUE]} ELSE tokens

(* The account keeps its id and its role; it may be given a token at once. *)
Rename(id, name) ==
  /\ id \in Present /\ Free(name, id)
  /\ accounts' = [accounts EXCEPT ![id].name = name]
  /\ tokens' \in {tokens, tokens \cup {TokenOf(id)}}
  /\ UNCHANGED nextId

(* Root accounts stay. *)
Remove(ids) ==
  /\ accounts' = [i \in Ids |-> IF i \in ids \cap Present /\ ~ accounts[i].root
                                THEN None ELSE accounts[i]]
  /\ UNCHANGED <<nextId, tokens>>

(* A token is that of an account that is there, as it is: for a login, and for
   an update, whose token may be that of another account than it updated. *)
GiveToken(id) ==
  /\ id \in Present
  /\ tokens' = tokens \cup {TokenOf(id)}
  /\ UNCHANGED <<accounts, nextId>>

Invalidate(ts) ==
  /\ tokens' = tokens \ ts
  /\ UNCHANGED <<accounts, nextId>>

Answers ==
  \/ \E name \in Names, root \in BOOLEAN : Add(name, root)
  \/ \E id \in Ids, name \in Names : Rename(id, name)
  \/ \E ids \in SUBSET Ids : Remove(ids)
  \/ \E id \in Ids : GiveToken(id)
  \/ \E ts \in SUBSET tokens : Invalidate(ts)

AccountsSpec == AccountsInit /\ [][Answers]_<<accounts, nextId, tokens>>
=============================================================================
