------------------------------ MODULE Session ------------------------------
(***************************************************************************)
(* The session of the web client: the token in the state and its copy in   *)
(* localStorage, the page that the router shows, the loading screen, the   *)
(* notifications, and the requests of the pages, whose answers may arrive  *)
(* after the page or the session that asked for them is gone.              *)
(*                                                                         *)
(* React renders between two events, so that an event here is a handler    *)
(* with the redirects and the effects of mounting that follow from it.     *)
(* Loading a page from its address abandons the requests in flight: what   *)
(* the server has not served by then, it does not serve.                   *)
(* The server is the promise of Account, one request at a time.  The two   *)
(* or three requests of a dashboard count as one.                          *)
(***************************************************************************)
EXTENDS Naturals, Sequences, FiniteSets, SequencesExt

CONSTANTS
  Names,     \* usernames
  MaxId,     \* bound: accounts ever inserted
  MaxToken,  \* bound: tokens ever issued
  MaxCalls,  \* bound: requests in flight
  None       \* no value

ASSUME SessionAssumption ==
  /\ None \notin Names
  /\ MaxId \in Nat \ {0} /\ MaxToken \in Nat /\ MaxCalls \in Nat \ {0}

VARIABLES
  table,     \* server: the username of every account; account 1 is root
  nextId,    \* server: the id of the next account
  issued,    \* server: the account and username in every token, in order
  valid,     \* server: the tokens that are accepted
  stored,    \* localStorage: the token, 0 for none
  token,     \* AccountState.token: the token, 0 for none
  accounts,  \* AccountState.accounts
  page,      \* the route that is shown
  claimed,   \* Login: isClaimed
  loading,   \* LayoutState.loading
  notes,     \* LayoutState.notifications: the kinds there are
  calls      \* requests in flight

serverVars == <<table, nextId, issued, valid>>
vars == <<serverVars, stored, token, accounts, page, claimed, loading, notes, calls>>

Ids == 1 .. MaxId
Slots == 1 .. MaxCalls
Present == {i \in Ids : table[i] # None}
IsRoot(t) == t # 0 /\ issued[t].id = 1

(* A request, and the answer it carries once the server has served it. *)
Call(kind, tok, id, name) ==
  [kind |-> kind, tok |-> tok, id |-> id, name |-> name, here |-> TRUE,
   status |-> "sent", data |-> 0, list |-> <<>>]

InFlight == {c \in Slots : calls[c] # None}
Add(cs, call) == [cs EXCEPT ![CHOOSE c \in Slots : /\ cs[c] = None
                                                   /\ \A d \in Slots : cs[d] = None => c <= d] = call]
Room == InFlight # Slots
Idle == [c \in Slots |-> None]

(* The component that asked is not mounted any more. *)
Orphaned(cs, kinds) ==
  [c \in Slots |-> IF cs[c] # None /\ cs[c].kind \in kinds THEN [cs[c] EXCEPT !.here = FALSE] ELSE cs[c]]
Changes == {"create", "update", "reissue", "delete"}
AnyKind == {"claimed", "authenticate", "claim", "load"} \cup Changes

(* The routes: the pages of who is signed in, and the login of who is not. *)
Private(pg, tok) == IF tok # 0 THEN pg ELSE "login"
Hidden(tok) == IF tok # 0 THEN "dashboard" ELSE "login"
PageOf(path, tok) ==
  CASE path = "root"  -> Private("dashboard", tok)
    [] path = "login" -> Hidden(tok)
    [] OTHER          -> Private("notfound", tok)

(* The page that mounts, and the request its effect makes. *)
MountCall(pg, tok) ==
  IF pg = "login" THEN Call("claimed", 0, 0, None) ELSE Call("load", tok, 0, None)
Mounted(pg, cs, tok) == IF pg = "notfound" THEN cs ELSE Add(cs, MountCall(pg, tok))

(* The reducers of the layout and of the account; a token in the state has its
   copy in localStorage. *)
load(on) == loading' = on
send(n) == notes' = notes \cup {n}
dismiss(n) == notes' = notes \ {n}
clear == notes' = {}
login(t) == stored' = t /\ token' = t
logout == stored' = 0 /\ token' = 0 /\ accounts' = <<>>

(* The page becomes pg; nothing mounts if it is shown already. *)
Navigate(pg, cs, tok) ==
  /\ page' = pg
  /\ calls' = IF pg = page THEN cs ELSE Mounted(pg, Orphaned(cs, AnyKind), tok)
  /\ claimed' = IF pg # page THEN "unknown" ELSE claimed

(* A visit: the page is loaded from its address, with what localStorage has. *)
Visit(path) ==
  LET pg == PageOf(path, stored) IN
  /\ token' = stored
  /\ page' = pg
  /\ calls' = Mounted(pg, Idle, stored)
  /\ claimed' = "unknown"
  /\ load(pg # "notfound")
  /\ accounts' = <<>> /\ notes' = {}
  /\ UNCHANGED <<serverVars, stored>>

Init ==
  /\ table = [i \in Ids |-> None] /\ nextId = 1
  /\ issued = <<>> /\ valid = {}
  /\ stored = 0 /\ token = 0 /\ accounts = <<>>
  /\ page = "login" /\ claimed = "unknown"
  /\ loading = TRUE /\ notes = {}
  /\ calls = Mounted("login", Idle, 0)

-----------------------------------------------------------------------------
(* The user. *)

(* Submit, by the button or by the key Enter, which works under the loading
   screen too. *)
LoginShown == page = "login" /\ claimed # "unknown"
Submit(name) ==
  /\ LoginShown /\ Room
  /\ load(TRUE)
  /\ calls' = Add(calls, Call(IF claimed = "yes" THEN "authenticate" ELSE "claim", 0, 0, name))
  /\ UNCHANGED <<serverVars, stored, token, accounts, page, claimed, notes>>

(* Logging out, from the menu of the dashboard. *)
Logout ==
  /\ page = "dashboard" /\ ~ loading /\ Room
  /\ logout
  /\ clear /\ load(TRUE)
  /\ Navigate("login", calls, 0)
  /\ UNCHANGED serverVars

(* The button of the page that is not found. *)
Back ==
  /\ page = "notfound" /\ ~ loading /\ Room
  /\ load(TRUE)
  /\ Navigate("dashboard", calls, token)
  /\ UNCHANGED <<serverVars, stored, token, accounts, notes>>

(* A notification is dismissed by its button, which the loading screen covers. *)
Dismiss(n) ==
  /\ n \in notes
  /\ ~ loading
  /\ dismiss(n)
  /\ UNCHANGED <<serverVars, stored, token, accounts, page, claimed, loading, calls>>

-----------------------------------------------------------------------------
(* The server. *)

Reply(c, status, data, list) ==
  calls' = [calls EXCEPT ![c].status = status, ![c].data = data, ![c].list = list]

Issue(id, name) ==
  /\ Len(issued) < MaxToken
  /\ issued' = Append(issued, [id |-> id, name |-> name])
  /\ valid' = valid \cup {Len(issued) + 1}

Asked(c, kinds) == calls[c] # None /\ calls[c].status = "sent" /\ calls[c].kind \in kinds

(* The rows, in whatever order. *)
Listed ==
  LET order == SetToSeq(Present)
  IN [i \in DOMAIN order |-> [id |-> order[i], name |-> table[order[i]]]]

ServeClaimed(c) ==
  /\ Asked(c, {"claimed"})
  /\ Reply(c, "ok", IF Present = {} THEN 0 ELSE 1, <<>>)
  /\ UNCHANGED serverVars

(* The right password. *)
ServeAuthenticate(c) ==
  /\ Asked(c, {"authenticate"})
  /\ \E i \in Present : table[i] = calls[c].name /\ Issue(i, table[i])
  /\ Reply(c, "ok", Len(issued) + 1, <<>>)
  /\ UNCHANGED <<table, nextId>>

ServeClaim(c) ==
  /\ Asked(c, {"claim"}) /\ nextId = 1
  /\ table' = [table EXCEPT ![1] = calls[c].name] /\ nextId' = 2
  /\ Issue(1, calls[c].name)
  /\ Reply(c, "ok", 1, <<>>)

ServeLoad(c) ==
  /\ Asked(c, {"load"}) /\ calls[c].tok \in valid
  /\ Reply(c, "ok", 0, IF IsRoot(calls[c].tok) THEN Listed ELSE <<>>)
  /\ UNCHANGED serverVars

(* A token that is not accepted. *)
ServeUnauthorized(c) ==
  /\ Asked(c, AnyKind \ {"claimed", "authenticate", "claim"}) /\ calls[c].tok \notin valid
  /\ Reply(c, "unauthorized", 0, <<>>)
  /\ UNCHANGED serverVars

(* A wrong password, a name that is taken, or a failure. *)
ServeRefused(c) ==
  /\ Asked(c, AnyKind)
  /\ Reply(c, "refused", 0, <<>>)
  /\ UNCHANGED serverVars

(* A token is a week old, or the server restarts with another secret. *)
Expire(t) ==
  /\ t \in valid
  /\ valid' = valid \ {t}
  /\ UNCHANGED <<table, nextId, issued, stored, token, accounts, page, claimed, loading, notes, calls>>

Serve(c) ==
  /\ \/ ServeClaimed(c) \/ ServeAuthenticate(c) \/ ServeClaim(c) \/ ServeLoad(c)
     \/ ServeUnauthorized(c) \/ ServeRefused(c)
  /\ UNCHANGED <<stored, token, accounts, page, claimed, loading, notes>>

-----------------------------------------------------------------------------
(* Answers. *)

Answered(c, kinds) == calls[c] # None /\ calls[c].status # "sent" /\ calls[c].kind \in kinds
Without(c) == [calls EXCEPT ![c] = None]
Ok(c) == calls[c].status = "ok"

(* The accounts are asked for by the root account alone. *)
resetAccounts(c) ==
  accounts' = IF Ok(c) /\ IsRoot(calls[c].tok) THEN calls[c].list ELSE accounts

AnswerClaimed(c) ==
  /\ Answered(c, {"claimed"})
  /\ load(FALSE)
  /\ claimed' = IF ~ calls[c].here THEN claimed ELSE IF Ok(c) /\ calls[c].data = 0 THEN "no" ELSE "yes"
  /\ calls' = Without(c)
  /\ UNCHANGED <<serverVars, stored, token, accounts, page, notes>>

(* Signing in navigates to the dashboard, whatever page is shown by now. *)
AnswerSignIn(c) ==
  /\ Answered(c, {"authenticate", "claim"}) /\ Ok(c)
  /\ login(calls[c].data)
  /\ Navigate("dashboard", Without(c), calls[c].data)
  /\ UNCHANGED <<serverVars, accounts, loading, notes>>

AnswerSignInRefused(c) ==
  /\ Answered(c, {"authenticate", "claim"}) /\ ~ Ok(c)
  /\ load(FALSE)
  /\ calls' = Without(c)
  /\ UNCHANGED <<serverVars, stored, token, accounts, page, claimed, notes>>

(* Seeded bug: the loading screen stays if the server refuses. *)
AnswerLoadOnlyOk(c) ==
  /\ Answered(c, {"load"}) /\ calls[c].status # "unauthorized"
  /\ load(~ Ok(c) /\ loading)
  /\ resetAccounts(c)
  /\ calls' = IF Ok(c) THEN Orphaned(Without(c), Changes) ELSE Without(c)
  /\ UNCHANGED <<serverVars, stored, token, page, claimed, notes>>

(* The answer of a load is applied whoever is signed in by now.  It resets the
   inventory, which closes the pane beside it. *)
AnswerLoad(c) ==
  /\ Answered(c, {"load"}) /\ calls[c].status # "unauthorized"
  /\ load(FALSE)
  /\ resetAccounts(c)
  /\ calls' = IF Ok(c) THEN Orphaned(Without(c), Changes) ELSE Without(c)
  /\ UNCHANGED <<serverVars, stored, token, page, claimed, notes>>

(* 401: the interceptor ends the session, whichever token was refused. *)
AnswerUnauthorized(c) ==
  /\ Answered(c, AnyKind) /\ calls[c].status = "unauthorized"
  /\ logout
  /\ load(calls[c].kind # "load" /\ loading)
  /\ Navigate("login", Without(c), 0)
  /\ UNCHANGED <<serverVars, notes>>

(* The network fails, before or after the server has served the request.  The
   load of a dashboard catches it; in the login page nothing does. *)
Lose(c) ==
  /\ calls[c] # None
  /\ send("network")
  /\ load(calls[c].kind # "load" /\ loading)
  /\ calls' = Without(c)
  /\ UNCHANGED <<serverVars, stored, token, accounts, page, claimed>>

-----------------------------------------------------------------------------
(* Properties. *)

CallType ==
  [kind : AnyKind, tok : 0 .. MaxToken, id : 0 .. MaxId, name : Names \cup {None}, here : BOOLEAN,
   status : {"sent", "ok", "refused", "unauthorized"}, data : 0 .. MaxToken + MaxId,
   list : Seq([id : Ids, name : Names])]

ASSUME NoneAssumption == None \notin CallType

(* Every variable has its type. *)
SessionTypeOK ==
  /\ table \in [Ids -> Names \cup {None}] /\ nextId \in 1 .. MaxId + 1
  /\ issued \in Seq([id : Ids, name : Names]) /\ valid \subseteq 1 .. Len(issued)
  /\ {stored, token} \subseteq 0 .. Len(issued)
  /\ accounts \in Seq([id : Ids, name : Names])
  /\ page \in {"login", "dashboard", "notfound"}
  /\ claimed \in {"unknown", "yes", "no"}
  /\ loading \in BOOLEAN /\ notes \subseteq {"network"}
  /\ calls \in [Slots -> CallType \cup {None}]
=============================================================================
