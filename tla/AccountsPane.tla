---------------------------- MODULE AccountsPane ----------------------------
(***************************************************************************)
(* The accounts pane of the dashboard, over the session: the list and the  *)
(* form of components/Dashboard/Accounts, the requests it makes and what   *)
(* their answers do to the client's copy of the accounts, to the form and, *)
(* when an account renames itself, to the token.                           *)
(*                                                                         *)
(* Nothing stops the user from going on while a request is in flight.      *)
(* haste, a history variable, counts that: what the properties say of the  *)
(* pane, they promise to the user who waits, whose haste is 0.             *)
(***************************************************************************)
EXTENDS Session

CONSTANT
  MaxHaste   \* bound: requests and edits while another request is in flight

ASSUME HasteAssumption == MaxHaste \in Nat \ {0}

VARIABLES
  pane,    \* the tab that is shown, the form, and the account to be deleted
  haste    \* 0 if, since signing in, every request has been waited for

paneVars == <<vars, pane, haste>>

(* Accounts' defaults; pass: a password and the same again are typed. *)
Form(tab, id, name) ==
  [tab |-> tab, id |-> id, name |-> name, original |-> name, pass |-> FALSE, deleting |-> 0]
Closed == Form("closed", 0, None)

(* The state of the component when it mounts. *)
Initial(tok) ==
  IF IsRoot(tok) THEN Form("list", 0, None) ELSE Form("edit", issued[tok].id, issued[tok].name)

(* The pane is part of the inventory's state and outlives the dashboard. *)
PaneAt(pg, tok) ==
  CASE pane.tab = "closed" -> pane
    [] pane.tab # "closed" /\ pg # "dashboard" -> Form("unmounted", 0, None)
    [] pane.tab # "closed" /\ pg = "dashboard" /\ page # pg -> Initial(tok)
    [] OTHER -> pane

Quiet == InFlight = {}

(* What the client has may not be so any more: an answer is lost, or a request
   is in flight across a reload. *)
Confused == haste' = IF haste = 0 THEN 1 ELSE haste

PaneInit == Init /\ pane = Closed /\ haste = 0

-----------------------------------------------------------------------------
(* The user.  A dialog that asks for confirmation blocks the page. *)

Waited == \/ Quiet /\ UNCHANGED haste
          \/ ~ Quiet /\ haste < MaxHaste /\ haste' = haste + 1

AtPane(tabs) == /\ page = "dashboard" /\ ~ loading
                /\ pane.tab \in tabs /\ pane.deleting = 0

(* The entry of the menu opens and closes; so does the button Close. *)
TogglePane ==
  /\ AtPane({"closed", "list", "edit"})
  /\ pane' = IF pane.tab = "closed" THEN Initial(token) ELSE Closed
  /\ calls' = Orphaned(calls, Changes)
  /\ Waited
  /\ UNCHANGED <<serverVars, stored, token, accounts, page, claimed, loading, notes>>

Listing == {accounts[k] : k \in 1 .. Len(accounts)}

EditAccount ==
  /\ AtPane({"list"})
  /\ \E a \in Listing : pane' = Form("edit", a.id, a.name)
  /\ Waited
  /\ UNCHANGED vars

DraftAccount ==
  /\ AtPane({"list"}) /\ IsRoot(token)
  /\ pane' = Form("edit", 0, None)
  /\ Waited
  /\ UNCHANGED vars

BackToList ==
  /\ AtPane({"edit"}) /\ IsRoot(token)
  /\ pane' = Form("list", 0, None)
  /\ Waited
  /\ UNCHANGED vars

Type ==
  /\ AtPane({"edit"})
  /\ \/ \E name \in Names \ {pane.name} : pane' = [pane EXCEPT !.name = name]
     \/ ~ pane.pass /\ pane' = [pane EXCEPT !.pass = TRUE]
  /\ Waited
  /\ UNCHANGED vars

CanSave ==
  /\ pane.name # None
  /\ pane.id # 0 \/ pane.pass
  /\ pane.name # pane.original \/ pane.pass

Ask(kind) ==
  /\ Room
  /\ calls' = Add(calls, Call(kind, token, IF kind = "delete" THEN pane.deleting ELSE pane.id,
                              IF kind = "delete" THEN None ELSE pane.name))
  /\ Waited
  /\ UNCHANGED <<serverVars, stored, token, accounts, page, claimed, loading, notes>>

(* Seeded bug: an account that renames itself keeps its token. *)
SaveWithoutReissue ==
  /\ AtPane({"edit"}) /\ CanSave
  /\ Ask(IF pane.id = 0 THEN "create" ELSE "update")
  /\ UNCHANGED pane

(* A new token is asked for if the account is the user's own. *)
Save ==
  /\ AtPane({"edit"}) /\ CanSave
  /\ Ask(CASE pane.id = 0 -> "create"
           [] pane.id # 0 /\ pane.id = issued[token].id -> "reissue"
           [] OTHER -> "update")
  /\ UNCHANGED pane

(* The root account cannot be chosen. *)
AskDelete ==
  /\ AtPane({"list"})
  /\ \E a \in Listing : a.id # 1 /\ pane' = [pane EXCEPT !.deleting = a.id]
  /\ UNCHANGED <<vars, haste>>

CancelDelete ==
  /\ pane.deleting # 0 /\ ~ loading
  /\ pane' = [pane EXCEPT !.deleting = 0]
  /\ UNCHANGED <<vars, haste>>

ConfirmDelete ==
  /\ pane.deleting # 0 /\ ~ loading
  /\ Ask("delete")
  /\ UNCHANGED pane

-----------------------------------------------------------------------------
(* The server. *)

Owner(c) == issued[calls[c].tok].id

(* Seeded bug: a username is looked up for updates alone. *)
FreeToUpdate(name, id) == id = 0 \/ \A i \in Present \ {id} : table[i] # name

(* Nobody else has the username. *)
Free(name, id) == \A i \in Present \ {id} : table[i] # name

ServeCreate(c) ==
  /\ Asked(c, {"create"}) /\ calls[c].tok \in valid /\ IsRoot(calls[c].tok)
  /\ Free(calls[c].name, 0) /\ nextId \in Ids
  /\ table' = [table EXCEPT ![nextId] = calls[c].name] /\ nextId' = nextId + 1
  /\ Reply(c, "ok", nextId, <<>>)
  /\ UNCHANGED <<issued, valid>>

(* An account that is gone is updated without an error; it gets no token. *)
ServeUpdate(c) ==
  /\ Asked(c, {"update", "reissue"}) /\ calls[c].tok \in valid
  /\ IsRoot(calls[c].tok) \/ calls[c].id = Owner(c)
  /\ Free(calls[c].name, calls[c].id)
  /\ table' = IF calls[c].id \in Present THEN [table EXCEPT ![calls[c].id] = calls[c].name] ELSE table
  /\ IF calls[c].kind = "reissue" /\ calls[c].id \in Present
     THEN Issue(calls[c].id, calls[c].name) /\ Reply(c, "ok", Len(issued) + 1, <<>>)
     ELSE /\ Reply(c, IF calls[c].kind = "reissue" THEN "refused" ELSE "ok", 0, <<>>)
          /\ UNCHANGED <<issued, valid>>
  /\ UNCHANGED nextId

(* Whoever asks, the root account stays. *)
ServeDelete(c) ==
  /\ Asked(c, {"delete"}) /\ calls[c].tok \in valid
  /\ table' = IF calls[c].id = 1 THEN table ELSE [table EXCEPT ![calls[c].id] = None]
  /\ Reply(c, "ok", 0, <<>>)
  /\ UNCHANGED <<nextId, issued, valid>>

(* The token is not one that may do this. *)
ServeForbidden(c) ==
  /\ Asked(c, {"create", "update", "reissue"}) /\ calls[c].tok \in valid /\ ~ IsRoot(calls[c].tok)
  /\ calls[c].kind # "create" => calls[c].id # Owner(c)
  /\ Reply(c, "unauthorized", 0, <<>>)
  /\ UNCHANGED serverVars

ServeChange(c) ==
  /\ ServeCreate(c) \/ ServeUpdate(c) \/ ServeDelete(c) \/ ServeForbidden(c)
  /\ UNCHANGED <<stored, token, accounts, page, claimed, loading, notes, pane, haste>>

-----------------------------------------------------------------------------
(* Answers: the copy of the accounts changes even if the pane is gone. *)

createAction(a) == accounts' = Append(accounts, a)
updateAction(id, name) ==
  accounts' = [k \in DOMAIN accounts |-> IF accounts[k].id = id
                                         THEN [accounts[k] EXCEPT !.name = name] ELSE accounts[k]]
deleteAction(id) ==
  LET left == {k \in DOMAIN accounts : accounts[k].id # id}
  IN \E kept \in [1 .. Cardinality(left) -> left] :
       /\ \A j, k \in DOMAIN kept : j < k => kept[j] < kept[k]
       /\ accounts' = [j \in DOMAIN kept |-> accounts[kept[j]]]

(* reset(): the draft, as it is by now, is what is saved. *)
Saved(c) == IF calls[c].here THEN [pane EXCEPT !.original = pane.name, !.pass = FALSE] ELSE pane

AnswerCreate(c) ==
  /\ Answered(c, {"create"}) /\ Ok(c)
  /\ createAction([id |-> calls[c].data, name |-> calls[c].name])
  /\ pane' = Saved(c)
  /\ calls' = Without(c)
  /\ UNCHANGED <<serverVars, stored, token, page, claimed, loading, notes, haste>>

AnswerUpdate(c) ==
  /\ Answered(c, {"update"}) /\ Ok(c)
  /\ updateAction(calls[c].id, calls[c].name)
  /\ pane' = Saved(c)
  /\ calls' = Without(c)
  /\ UNCHANGED <<serverVars, stored, token, page, claimed, loading, notes, haste>>

(* The new token replaces the one in use, whose ever that is by now; a user
   who has logged out meanwhile is signed in again. *)
AnswerReissue(c) ==
  /\ Answered(c, {"reissue"}) /\ Ok(c)
  /\ updateAction(calls[c].id, calls[c].name)
  /\ login(calls[c].data)
  /\ Navigate(IF page = "login" THEN "dashboard" ELSE page, Without(c), calls[c].data)
  /\ pane' = IF calls[c].here THEN Saved(c) ELSE PaneAt(page', calls[c].data)
  /\ IF page' = page THEN UNCHANGED haste ELSE Confused
  /\ UNCHANGED <<serverVars, loading, notes>>

AnswerDelete(c) ==
  /\ Answered(c, {"delete"}) /\ Ok(c)
  /\ deleteAction(calls[c].id)
  /\ pane' = IF calls[c].here THEN [pane EXCEPT !.deleting = 0] ELSE pane
  /\ calls' = Without(c)
  /\ UNCHANGED <<serverVars, stored, token, page, claimed, loading, notes, haste>>

(* Seeded bug: the form counts as saved, whatever the answer says. *)
AnswerChangeRefusedSaves(c) ==
  /\ Answered(c, Changes) /\ calls[c].status = "refused"
  /\ calls' = Without(c) /\ pane' = Saved(c)
  /\ UNCHANGED <<serverVars, stored, token, accounts, page, claimed, loading, notes, haste>>

(* The errors are shown in the pane. *)
AnswerChangeRefused(c) ==
  /\ Answered(c, Changes) /\ calls[c].status = "refused"
  /\ calls' = Without(c)
  /\ UNCHANGED <<serverVars, stored, token, accounts, page, claimed, loading, notes, pane, haste>>

AnswerChange(c) ==
  \/ AnswerCreate(c) \/ AnswerUpdate(c) \/ AnswerReissue(c) \/ AnswerDelete(c)
  \/ AnswerChangeRefused(c)

-----------------------------------------------------------------------------
(* The session's steps, with what they do to the pane. *)

(* Signing in is a new start, unless a request is in flight. *)
SessionStep ==
  \/ /\ \E path \in {"root", "login", "other"} : Visit(path)
     /\ pane' = Closed
     /\ IF \E c \in InFlight : calls[c].kind \in Changes THEN Confused ELSE UNCHANGED haste
  \/ /\ \E name \in Names : Submit(name)
     /\ IF Quiet THEN haste' = 0 ELSE Confused
     /\ UNCHANGED pane
  \/ Logout /\ pane.deleting = 0 /\ pane' = Closed /\ UNCHANGED haste
  \/ Back /\ pane' = PaneAt(page', token) /\ UNCHANGED haste
  \/ /\ (\E n \in notes : Dismiss(n)) \/ (\E t \in valid : Expire(t))
     /\ UNCHANGED <<pane, haste>>

SessionAnswer(c) ==
  \/ /\ AnswerClaimed(c) \/ AnswerSignInRefused(c)
     /\ UNCHANGED <<pane, haste>>
  \/ /\ AnswerLoad(c)
     /\ pane' = IF Ok(c) THEN Closed ELSE pane
     /\ IF Ok(c) THEN UNCHANGED haste ELSE Confused
  \/ /\ AnswerSignIn(c) \/ AnswerUnauthorized(c)
     /\ pane' = PaneAt(page', token')
     /\ UNCHANGED haste

(* A request to delete that fails closes the dialog. *)
LoseCall(c) ==
  /\ Lose(c)
  /\ pane' = IF calls[c].kind = "delete" /\ calls[c].here THEN [pane EXCEPT !.deleting = 0] ELSE pane
  /\ Confused

ServeCall(c) == ServeChange(c) \/ (Serve(c) /\ UNCHANGED <<pane, haste>>)
AnswerCall(c) == SessionAnswer(c) \/ AnswerChange(c)

PaneNext ==
  \/ SessionStep
  \/ TogglePane \/ EditAccount \/ DraftAccount \/ BackToList \/ Type \/ Save
  \/ AskDelete \/ CancelDelete \/ ConfirmDelete
  \/ \E c \in Slots : ServeCall(c) \/ AnswerCall(c) \/ LoseCall(c)

(* Every request is served, and an answer that keeps arriving is applied. *)
PaneSpec ==
  /\ PaneInit /\ [][PaneNext]_paneVars
  /\ \A c \in Slots : WF_paneVars(ServeCall(c)) /\ SF_paneVars(AnswerCall(c))

-----------------------------------------------------------------------------
(* Properties. *)

(* Every variable has its type. *)
PaneTypeOK ==
  /\ SessionTypeOK
  /\ pane \in [tab : {"closed", "unmounted", "list", "edit"}, id : 0 .. MaxId,
               name : Names \cup {None}, original : Names \cup {None}, pass : BOOLEAN,
               deleting : 0 .. MaxId]
  /\ haste \in 0 .. MaxHaste

Settled == haste = 0 /\ Quiet /\ page = "dashboard"

(* The list of the root account's pane is the table of the server: what the
   answers make of the copy (account/reducer.ts:54-72) is what the requests
   made of the table, over logins, reloads and refusals. *)
AccountsAgree ==
  Settled /\ IsRoot(token) => /\ Listing = {[id |-> i, name |-> table[i]] : i \in Present}
                              /\ Len(accounts) = Cardinality(Present)

(* A form that shows nothing to save shows what is stored
   (Accounts.tsx:58-63, 81-90). *)
SavedIsStored ==
  Settled /\ pane.tab = "edit" /\ pane.id # 0 /\ pane.name = pane.original =>
    table[pane.id] = pane.name

(* The copies that the pane keeps of accounts, in its list and in its form,
   are what the table has, once the requests that changed them are answered. *)
CopiesAgree == AccountsAgree /\ SavedIsStored

(* The tab that is reloaded is in the same session, and the username the menu
   shows is the user's, who may have changed it (Accounts.tsx:134-139). *)
TokenAgrees ==
  /\ stored = token
  /\ Settled => table[issued[token].id] = issued[token].name

(* The loading screen comes down: every path from load: true ends in a page
   whose effect, or in a handler whose error path, says load: false.  After the
   network has failed nothing need take it down (Login.tsx:61), and it covers
   the notification that says so. *)
LoadingEnds == loading ~> (~ loading \/ "network" \in notes)

(* The table and the tokens of the server, as Accounts has them. *)
ServerRows == [i \in Ids |-> IF table[i] = None THEN None ELSE [name |-> table[i], root |-> i = 1]]
ServerTokens == {[id |-> issued[t].id, root |-> issued[t].id = 1] : t \in valid}

ASSUME RowsAssumption == None \notin [name : Names, root : BOOLEAN]

(* The server behind the client changes accounts and tokens as the handlers of
   Account do, whatever the client asks for and with whatever token: a name is
   taken by one account, the root account stays, and a token is of an account
   that is there when it is given (server/account.go:60-156). *)
Promise == INSTANCE Accounts WITH accounts <- ServerRows, tokens <- ServerTokens
ServerKeepsPromise == Promise!AccountsSpec
=============================================================================
