-------------------------- MODULE AccountsPaneProofs --------------------------
(* Proofs about the session and the accounts pane of the web client, for any names and any bounds
   on accounts, tokens, requests in flight and what an impatient user does. *)
EXTENDS AccountsPane, FiniteSetTheorems, TLAPS

-----------------------------------------------------------------------------
(* The inductive invariant. *)

Tables == [Ids -> Names \cup {None}]
Row == [id : Ids, name : Names]
SignIns == {"authenticate", "claim"}

(* What a request asks for, and what its answer holds. *)
CallInv(call) ==
  /\ call.tok <= Len(issued)
  /\ call.kind \in SignIns \cup {"create", "update", "reissue"} => call.name \in Names
  /\ call.kind \in {"update", "reissue", "delete"} => call.id \in Ids
  /\ call.kind \in SignIns \cup {"reissue"} /\ call.status = "ok" => call.data \in 1 .. Len(issued)
  /\ call.kind = "create" /\ call.status = "ok" => call.data \in Ids

(* The page is that of who is signed in; an id is never taken again; the root
   account is not chosen to be deleted. *)
PlaceInv ==
  /\ stored = token /\ (page = "login" <=> token = 0)
  /\ page = "notfound" => InFlight = {} /\ pane.deleting = 0
  /\ \A i \in Ids : i >= nextId => table[i] = None
  /\ nextId = 1 => issued = <<>>
  /\ Len(issued) <= MaxToken
  /\ pane.deleting # 0 => pane.tab = "list" /\ pane.deleting # 1

BaseInv == PaneTypeOK /\ PlaceInv /\ \A c \in InFlight : CallInv(calls[c])

(* A list has every account of a table, once. *)
Copy(list, t) ==
  /\ list \in Seq(Row) /\ \A k \in 1 .. Len(list) : t[list[k].id] = list[k].name
  /\ \A i \in Ids : t[i] # None => \E k \in 1 .. Len(list) : list[k].id = i
  /\ \A j, k \in 1 .. Len(list) : list[j].id = list[k].id => j = k

(* The username in a token is the one in a table; so is the one that the form began with. *)
NamedIn(tok, t) == t[issued[tok].id] = issued[tok].name
FormIn(t) == pane.tab = "edit" /\ pane.id # 0 => pane.original # None /\ t[pane.id] = pane.original

Own == issued[token].id

(* The request of the dashboard, which is about what the pane shows; before it was carried out
   the table was old. *)
Made(call, old) ==
  /\ call.tok = token /\ call.kind \in {"load"} \cup Changes
  /\ call.status # "ok" => old = table
  /\ call.kind = "load" => old = table /\ (call.status = "ok" /\ IsRoot(token) => Copy(call.list, table))
  /\ call.kind \in {"create", "update", "reissue"} =>
       /\ call.here /\ pane.tab = "edit" /\ pane.name = call.name
       /\ pane.id = IF call.kind = "create" THEN 0 ELSE call.id
  /\ call.kind = "create" /\ call.status = "ok" =>
       old[call.data] = None /\ table = [old EXCEPT ![call.data] = call.name]
  /\ call.kind = "update" => call.id # Own
  /\ call.kind = "reissue" => call.id = Own
  /\ call.kind \in {"update", "reissue"} /\ call.status = "ok" => table = [old EXCEPT ![call.id] = call.name]
  /\ call.kind = "reissue" /\ call.status = "ok" => issued[call.data] = [id |-> call.id, name |-> call.name]
  /\ call.kind = "delete" =>
       /\ pane.tab = "list" /\ call.id # 1
       /\ call.status = "ok" => table = [old EXCEPT ![call.id] = None]

(* The dashboard has one request at a time; but for what that one has done, token, form and list
   are as the table has it. *)
InTurn ==
  /\ \A c, d \in InFlight : c = d
  /\ pane.tab = "list" => IsRoot(token)
  /\ \E old \in Tables :
       /\ NamedIn(token, old) /\ FormIn(old)
       /\ IsRoot(token) /\ (\A c \in InFlight : calls[c].kind # "load") => Copy(accounts, old)
       /\ InFlight = {} => old = table
       /\ \A c \in InFlight : Made(calls[c], old)

(* Who signs in makes no other request. *)
Entering ==
  \A c \in InFlight : calls[c].kind \in SignIns =>
    /\ InFlight = {c}
    /\ calls[c].status = "ok" => NamedIn(calls[c].data, table)

Patient ==
  haste = 0 =>
    /\ page = "login" => Entering
    /\ page = "notfound" => NamedIn(token, table)
    /\ page = "dashboard" => InTurn

-----------------------------------------------------------------------------
(* Requests in flight. *)

IsCalls(cs) == cs \in [Slots -> CallType \cup {None}]
Panes ==
  [tab : {"closed", "unmounted", "list", "edit"}, id : 0 .. MaxId, name : Names \cup {None},
   original : Names \cup {None}, pass : BOOLEAN, deleting : 0 .. MaxId]

(* One request, but for whether the component that made it is there. *)
Same(a, b) ==
  /\ a.kind = b.kind /\ a.tok = b.tok /\ a.id = b.id /\ a.name = b.name
  /\ a.status = b.status /\ a.data = b.data /\ a.list = b.list

(* The bounds are numbers. *)
LEMMA Bounds ==
  /\ MaxId \in Nat /\ MaxId > 0 /\ MaxToken \in Nat /\ MaxCalls \in Nat /\ MaxCalls > 0 /\ MaxHaste \in Nat /\ MaxHaste > 0
  /\ None \notin Names /\ None \notin CallType
BY SessionAssumption, NoneAssumption, HasteAssumption

(* A request that is made. *)
LEMMA CallFacts ==
  ASSUME NEW kind \in AnyKind, NEW tok \in 0 .. MaxToken, NEW id \in 0 .. MaxId,
         NEW name \in Names \cup {None}
  PROVE  LET call == Call(kind, tok, id, name)
         IN  /\ call \in CallType /\ call.kind = kind /\ call.tok = tok /\ call.id = id
             /\ call.name = name /\ call.here /\ call.status = "sent"
<1>0. PICK call : call = Call(kind, tok, id, name)
  OBVIOUS
<1>1. PICK data \in 0 .. MaxToken + MaxId : data = 0
  BY Bounds
<1>2. PICK list \in Seq([id : Ids, name : Names]) : list = <<>>
  <2>1. <<>> \in Seq([id : Ids, name : Names])
    OBVIOUS
  <2> QED BY <2>1
<1>3. PICK status \in {"sent", "ok", "refused", "unauthorized"} : status = "sent"
  OBVIOUS
<1>4. PICK here \in BOOLEAN : here = TRUE
  OBVIOUS
<1>5. call = [kind |-> kind, tok |-> tok, id |-> id, name |-> name, here |-> here, status |-> status,
              data |-> data, list |-> list]
  BY <1>0, <1>1, <1>2, <1>3, <1>4 DEF Call
<1>6. call \in CallType
  BY <1>5 DEF CallType
<1> QED BY <1>0, <1>3, <1>4, <1>5, <1>6

(* A request is added to those in flight. *)
LEMMA AddFacts ==
  ASSUME NEW cs, IsCalls(cs), NEW call \in CallType
  PROVE  /\ IsCalls(Add(cs, call))
         /\ \E x : \A c \in Slots : Add(cs, call)[c] = IF c = x THEN call ELSE cs[c]
<1>1. PICK x : Add(cs, call) = [cs EXCEPT ![x] = call]
  BY DEF Add
<1>2. \A c \in Slots : Add(cs, call)[c] = IF c = x THEN call ELSE cs[c]
  BY <1>1 DEF IsCalls
<1> QED BY <1>1, <1>2 DEF IsCalls

(* A component goes; its requests stay. *)
LEMMA OrphanedFacts ==
  ASSUME NEW cs, IsCalls(cs), NEW kinds
  PROVE  /\ IsCalls(Orphaned(cs, kinds))
         /\ \A c \in Slots : /\ cs[c] = None => Orphaned(cs, kinds)[c] = None
                             /\ cs[c] # None => Same(Orphaned(cs, kinds)[c], cs[c])
<1>1. ASSUME NEW c \in Slots, NEW e, e = IF cs[c] # None /\ cs[c].kind \in kinds THEN [cs[c] EXCEPT !.here = FALSE] ELSE cs[c]
      PROVE  /\ e \in CallType \cup {None}
             /\ cs[c] = None => e = None
             /\ cs[c] # None => Same(e, cs[c])
  <2>1. PICK call \in CallType \cup {None} : call = cs[c]
    BY DEF IsCalls
  <2>2. CASE e = call
    BY <2>1, <2>2 DEF Same
  <2>3. CASE call # None /\ e = [call EXCEPT !.here = FALSE]
    <3>1. e \in CallType
      BY <2>3 DEF CallType
    <3>2. Same(e, call)
      BY <2>3 DEF Same, CallType
    <3> QED BY <2>1, <2>3, <3>1, <3>2
  <2> QED BY <1>1, <2>1, <2>2, <2>3
<1> QED BY <1>1 DEF Orphaned, IsCalls

(* A request ends. *)
LEMMA WithoutFacts ==
  ASSUME IsCalls(calls), NEW c \in Slots
  PROVE  /\ IsCalls(Without(c))
         /\ \A d \in Slots : Without(c)[d] = IF d = c THEN None ELSE calls[d]
BY DEF Without, IsCalls

(* The server answers a request. *)
LEMMA ReplyFacts ==
  ASSUME IsCalls(calls), NEW c \in InFlight, NEW status \in {"sent", "ok", "refused", "unauthorized"},
         NEW data \in 0 .. MaxToken + MaxId, NEW list \in Seq([id : Ids, name : Names]),
         Reply(c, status, data, list)
  PROVE  /\ IsCalls(calls')
         /\ \A d \in Slots \ {c} : calls'[d] = calls[d]
         /\ calls'[c].kind = calls[c].kind /\ calls'[c].tok = calls[c].tok /\ calls'[c].id = calls[c].id
         /\ calls'[c].name = calls[c].name /\ calls'[c].here = calls[c].here
         /\ calls'[c].status = status /\ calls'[c].data = data /\ calls'[c].list = list
         /\ c \in Slots /\ calls'[c] \in CallType
<1>1. PICK call \in CallType : call = calls[c]
  BY DEF InFlight, IsCalls
<1>2. PICK e : e = [kind |-> call.kind, tok |-> call.tok, id |-> call.id, name |-> call.name,
                    here |-> call.here, status |-> status, data |-> data, list |-> list]
  OBVIOUS
<1>3. e \in CallType
  BY <1>2 DEF CallType
<1>4. call = [kind |-> call.kind, tok |-> call.tok, id |-> call.id, name |-> call.name,
              here |-> call.here, status |-> call.status, data |-> call.data, list |-> call.list]
  BY DEF CallType
<1>6. c \in Slots
  BY DEF InFlight
<1>5. calls' = [calls EXCEPT ![c] = e]
  <2>1. PICK e1 : e1 = [call EXCEPT !.status = status]
    OBVIOUS
  <2>2. PICK e2 : e2 = [e1 EXCEPT !.data = data]
    OBVIOUS
  <2>3. e = [e2 EXCEPT !.list = list]
    <3>1. e1 = [kind |-> call.kind, tok |-> call.tok, id |-> call.id, name |-> call.name,
                here |-> call.here, status |-> status, data |-> call.data, list |-> call.list]
      BY <1>4, <2>1
    <3>2. e2 = [kind |-> call.kind, tok |-> call.tok, id |-> call.id, name |-> call.name,
                here |-> call.here, status |-> status, data |-> data, list |-> call.list]
      BY <2>2, <3>1
    <3> QED BY <1>2, <3>2
  <2>4. PICK f1 : f1 = [calls EXCEPT ![c] = e1]
    OBVIOUS
  <2>5. PICK f2 : f2 = [f1 EXCEPT ![c] = e2]
    OBVIOUS
  <2>6. f1[c] = e1 /\ f2[c] = e2 /\ calls = [d \in Slots |-> calls[d]]
    BY <1>6, <2>4, <2>5 DEF IsCalls
  <2>7. calls' = [[[calls EXCEPT ![c].status = status] EXCEPT ![c].data = data] EXCEPT ![c].list = list]
    BY DEF Reply
  <2>8. [calls EXCEPT ![c].status = status] = f1
    BY <1>1, <2>1, <2>4
  <2>9. [f1 EXCEPT ![c].data = data] = f2
    BY <2>2, <2>5, <2>6
  <2>10. [f2 EXCEPT ![c].list = list] = [calls EXCEPT ![c] = e]
    BY <1>6, <2>3, <2>4, <2>5, <2>6
  <2> QED BY <2>7, <2>8, <2>9, <2>10
<1> QED BY <1>1, <1>2, <1>3, <1>5, <1>6 DEF IsCalls

-----------------------------------------------------------------------------
(* Pages and panes. *)

Pages == {"login", "dashboard", "notfound"}

(* The request of a page that mounts. *)
Mounts(call, pg, tok) ==
  /\ call \in CallType /\ call.kind = (IF pg = "login" THEN "claimed" ELSE "load")
  /\ call.tok = (IF pg = "login" THEN 0 ELSE tok) /\ call.status = "sent"

(* A page that mounts adds at most its own request to the calls. *)
LEMMA MountedFacts ==
  ASSUME NEW pg \in Pages, NEW tok \in 0 .. MaxToken, NEW cs, IsCalls(cs)
  PROVE  /\ IsCalls(Mounted(pg, cs, tok))
         /\ \E x : \A c \in Slots :
              \/ Mounted(pg, cs, tok)[c] = cs[c]
              \/ c = x /\ pg # "notfound" /\ Mounts(Mounted(pg, cs, tok)[c], pg, tok)
         /\ pg = "notfound" => Mounted(pg, cs, tok) = cs
<1>1. CASE pg = "notfound"
  BY <1>1 DEF Mounted
<1>2. CASE pg # "notfound"
  <2>1. PICK call : call = MountCall(pg, tok)
    OBVIOUS
  <2>2. Mounts(call, pg, tok)
    <3>1. CASE pg = "login"
      <4>1. call = Call("claimed", 0, 0, None)
        BY <2>1, <3>1 DEF MountCall
      <4>2. "claimed" \in AnyKind /\ 0 \in 0 .. MaxToken /\ 0 \in 0 .. MaxId /\ None \in Names \cup {None}
        BY Bounds DEF AnyKind
      <4>3. PICK kind \in AnyKind, zero \in 0 .. MaxToken, id \in 0 .. MaxId, name \in Names \cup {None} :
              kind = "claimed" /\ zero = 0 /\ id = 0 /\ name = None
        BY <4>2
      <4>4. call = Call(kind, zero, id, name)
        BY <4>1, <4>3
      <4>5. call \in CallType /\ call.kind = kind /\ call.tok = zero /\ call.status = "sent"
        BY <4>4, CallFacts
      <4> QED BY <3>1, <4>3, <4>5 DEF Mounts
    <3>2. CASE pg # "login"
      <4>1. call = Call("load", tok, 0, None)
        BY <2>1, <3>2 DEF MountCall
      <4>2. "load" \in AnyKind /\ 0 \in 0 .. MaxId /\ None \in Names \cup {None}
        BY Bounds DEF AnyKind
      <4>3. PICK kind \in AnyKind, id \in 0 .. MaxId, name \in Names \cup {None} :
              kind = "load" /\ id = 0 /\ name = None
        BY <4>2
      <4>4. call = Call(kind, tok, id, name)
        BY <4>1, <4>3
      <4>5. call \in CallType /\ call.kind = kind /\ call.tok = tok /\ call.status = "sent"
        BY <4>4, CallFacts
      <4> QED BY <3>2, <4>3, <4>5 DEF Mounts
    <3> QED BY <3>1, <3>2
  <2>3. call \in CallType
    BY <2>2 DEF Mounts
  <2>4. /\ IsCalls(Add(cs, call))
        /\ \E x : \A c \in Slots : Add(cs, call)[c] = IF c = x THEN call ELSE cs[c]
    BY <2>3, AddFacts
  <2>5. Mounted(pg, cs, tok) = Add(cs, call)
    BY <1>2, <2>1 DEF Mounted
  <2> QED BY <1>2, <2>2, <2>4, <2>5
<1> QED BY <1>1, <1>2

(* Nothing is in flight when a page is loaded from its address. *)
LEMMA IdleIs == IsCalls(Idle) /\ \A c \in Slots : Idle[c] = None
BY DEF Idle, IsCalls

(* A request that goes on, or the one of the page that mounts. *)
LEMMA NavigateFacts ==
  ASSUME NEW pg \in Pages, NEW tok \in 0 .. MaxToken, NEW cs, IsCalls(cs), Navigate(pg, cs, tok),
         claimed \in {"unknown", "yes", "no"}
  PROVE  /\ page' = pg /\ IsCalls(calls') /\ claimed' \in {"unknown", "yes", "no"}
         /\ pg = page => calls' = cs
         /\ \E x : \A c \in Slots :
              \/ calls'[c] = None
              \/ cs[c] # None /\ Same(calls'[c], cs[c])
              \/ c = x /\ pg # "notfound" /\ pg # page /\ Mounts(calls'[c], pg, tok)
<1>1. page' = pg /\ claimed' \in {"unknown", "yes", "no"}
  BY DEF Navigate
<1>2. CASE pg = page
  <2>1. calls' = cs
    BY <1>2 DEF Navigate
  <2>2. \A c \in Slots : cs[c] = cs[c] /\ Same(cs[c], cs[c])
    BY DEF Same
  <2> QED BY <1>1, <1>2, <2>1, <2>2
<1>3. CASE pg # page
  <2>1. PICK left : left = Orphaned(cs, AnyKind)
    OBVIOUS
  <2>2. IsCalls(left) /\ \A c \in Slots : (cs[c] = None => left[c] = None) /\ (cs[c] # None => Same(left[c], cs[c]))
    BY <2>1, OrphanedFacts
  <2>3. calls' = Mounted(pg, left, tok)
    BY <1>3, <2>1 DEF Navigate
  <2>4. /\ IsCalls(Mounted(pg, left, tok))
        /\ \E x : \A c \in Slots :
             \/ Mounted(pg, left, tok)[c] = left[c]
             \/ c = x /\ pg # "notfound" /\ Mounts(Mounted(pg, left, tok)[c], pg, tok)
    BY <2>2, MountedFacts
  <2>5. PICK x : \A c \in Slots :
             \/ calls'[c] = left[c]
             \/ c = x /\ pg # "notfound" /\ Mounts(calls'[c], pg, tok)
    BY <2>3, <2>4
  <2>6. \A c \in Slots :
              \/ calls'[c] = None
              \/ cs[c] # None /\ Same(calls'[c], cs[c])
              \/ c = x /\ pg # "notfound" /\ pg # page /\ Mounts(calls'[c], pg, tok)
    BY <1>3, <2>2, <2>5
  <2> QED BY <1>1, <1>3, <2>3, <2>4, <2>6
<1> QED BY <1>2, <1>3

(* A form. *)
LEMMA FormFacts ==
  ASSUME NEW tab \in {"closed", "unmounted", "list", "edit"}, NEW id \in 0 .. MaxId,
         NEW name \in Names \cup {None}, NEW p, p = Form(tab, id, name)
  PROVE  /\ p \in Panes /\ p.tab = tab /\ p.id = id /\ p.name = name /\ p.original = name
         /\ p.deleting = 0
<1>1. PICK zero \in 0 .. MaxId : zero = 0
  BY Bounds
<1>2. PICK no \in BOOLEAN : no = FALSE
  OBVIOUS
<1>3. p = [tab |-> tab, id |-> id, name |-> name, original |-> name, pass |-> no, deleting |-> zero]
  BY <1>1, <1>2 DEF Form
<1> QED BY <1>1, <1>3 DEF Panes

(* The panes that hold no account's row are panes. *)
LEMMA ClosedFacts ==
  /\ Closed \in Panes /\ Closed.tab = "closed" /\ Closed.deleting = 0
  /\ Form("list", 0, None) \in Panes /\ Form("list", 0, None).tab = "list" /\ Form("list", 0, None).deleting = 0
  /\ Form("edit", 0, None) \in Panes /\ Form("edit", 0, None).tab = "edit" /\ Form("edit", 0, None).deleting = 0
  /\ Form("edit", 0, None).id = 0
  /\ Form("unmounted", 0, None) \in Panes /\ Form("unmounted", 0, None).tab = "unmounted"
  /\ Form("unmounted", 0, None).deleting = 0
<1>1. 0 \in 0 .. MaxId /\ None \in Names \cup {None}
  BY Bounds
<1>2. ASSUME NEW tab \in {"closed", "unmounted", "list", "edit"}
      PROVE  /\ Form(tab, 0, None) \in Panes /\ Form(tab, 0, None).tab = tab
             /\ Form(tab, 0, None).deleting = 0 /\ Form(tab, 0, None).id = 0
  <2>1. PICK p : p = Form(tab, 0, None)
    OBVIOUS
  <2> QED BY <1>1, <2>1, FormFacts
<1> QED BY <1>2 DEF Closed

(* What the pane shows when it mounts. *)
LEMMA InitialFacts ==
  ASSUME BaseInv, NEW tok \in 1 .. Len(issued)
  PROVE  /\ Initial(tok) \in Panes /\ Initial(tok).deleting = 0
         /\ Initial(tok).tab = IF IsRoot(tok) THEN "list" ELSE "edit"
         /\ Initial(tok).tab = "edit" => Initial(tok).id = issued[tok].id
                                         /\ Initial(tok).original = issued[tok].name
         /\ issued[tok].id \in Ids /\ issued[tok].name \in Names
<1>1. issued[tok] \in Row
  <2>1. issued \in Seq(Row)
    BY DEF BaseInv, PaneTypeOK, SessionTypeOK, Row
  <2>2. PICK S : S = Row
    OBVIOUS
  <2>3. issued \in Seq(S)
    BY <2>1, <2>2
  <2>4. issued[tok] \in S
    BY <2>3
  <2> QED BY <2>2, <2>4
<1>2. issued[tok].id \in 0 .. MaxId /\ issued[tok].id \in Ids /\ issued[tok].name \in Names
  BY <1>1, Bounds DEF Row, Ids
<1>3. CASE IsRoot(tok)
  BY <1>2, <1>3, ClosedFacts DEF Initial
<1>4. CASE ~ IsRoot(tok)
  <2>1. PICK p : p = Form("edit", issued[tok].id, issued[tok].name)
    OBVIOUS
  <2>2. Initial(tok) = p
    BY <1>4, <2>1 DEF Initial
  <2>3. issued[tok].name \in Names \cup {None}
    BY <1>2
  <2> QED BY <1>2, <1>4, <2>1, <2>2, <2>3, FormFacts
<1> QED BY <1>3, <1>4

(* The pane when a page is shown. *)
LEMMA PaneAtFacts ==
  ASSUME BaseInv, NEW pg \in Pages, NEW tok \in 0 .. Len(issued), pg = "dashboard" => tok # 0
  PROVE  /\ PaneAt(pg, tok) \in {pane, Form("unmounted", 0, None), Initial(tok)}
         /\ PaneAt(pg, tok) \in Panes
         /\ PaneAt(pg, tok).deleting # 0 => PaneAt(pg, tok) = pane
         /\ pg = "dashboard" /\ page # pg => PaneAt(pg, tok) = Initial(tok) \/ PaneAt(pg, tok).tab = "closed"
<1>1. pane \in Panes
  BY DEF BaseInv, PaneTypeOK, Panes
<1>2. \/ PaneAt(pg, tok) = pane
      \/ PaneAt(pg, tok) = Form("unmounted", 0, None)
      \/ PaneAt(pg, tok) = Initial(tok) /\ pg = "dashboard"
  BY DEF PaneAt
<1>3. pg = "dashboard" /\ page # pg => PaneAt(pg, tok) = Initial(tok) \/ PaneAt(pg, tok).tab = "closed"
  BY DEF PaneAt
<1>4. pg = "dashboard" => Initial(tok) \in Panes /\ Initial(tok).deleting = 0
  <2> SUFFICES ASSUME pg = "dashboard" PROVE Initial(tok) \in Panes /\ Initial(tok).deleting = 0
    OBVIOUS
  <2>1. tok \in 1 .. Len(issued)
    BY DEF BaseInv, PlaceInv, PaneTypeOK, SessionTypeOK
  <2> QED BY <2>1, InitialFacts
<1> QED BY <1>1, <1>2, <1>3, <1>4, ClosedFacts

-----------------------------------------------------------------------------
(* The types and places. *)

(* What the invariant says of each variable. *)
LEMMA BaseFacts ==
  ASSUME BaseInv
  PROVE  /\ table \in Tables /\ nextId \in 1 .. MaxId + 1 /\ issued \in Seq(Row)
         /\ Len(issued) \in 0 .. MaxToken /\ valid \in SUBSET (1 .. Len(issued))
         /\ stored = token /\ token \in 0 .. Len(issued) /\ token \in 0 .. MaxToken
         /\ accounts \in Seq(Row) /\ page \in Pages /\ claimed \in {"unknown", "yes", "no"}
         /\ loading \in BOOLEAN /\ notes \in SUBSET {"network"} /\ IsCalls(calls)
         /\ pane \in Panes /\ haste \in 0 .. MaxHaste /\ (page = "login" <=> token = 0)
         /\ InFlight \subseteq Slots /\ \A c \in InFlight : calls[c] \in CallType /\ CallInv(calls[c])
<1>1. /\ table \in Tables /\ nextId \in 1 .. MaxId + 1 /\ issued \in Seq(Row)
      /\ valid \in SUBSET (1 .. Len(issued)) /\ stored = token /\ token \in 0 .. Len(issued)
      /\ accounts \in Seq(Row) /\ page \in Pages /\ claimed \in {"unknown", "yes", "no"}
      /\ loading \in BOOLEAN /\ notes \in SUBSET {"network"} /\ IsCalls(calls)
      /\ pane \in Panes /\ haste \in 0 .. MaxHaste /\ (page = "login" <=> token = 0)
      /\ Len(issued) <= MaxToken /\ \A c \in InFlight : CallInv(calls[c])
  BY DEF BaseInv, PaneTypeOK, SessionTypeOK, PlaceInv, Tables, Row, Pages, IsCalls, Panes
<1>2. Len(issued) \in Nat
  <2>1. PICK S : S = Row
    OBVIOUS
  <2> QED BY <1>1, <2>1
<1>3. Len(issued) \in 0 .. MaxToken /\ token \in 0 .. MaxToken
  BY <1>1, <1>2, Bounds
<1>4. InFlight \subseteq Slots /\ \A c \in InFlight : calls[c] \in CallType
  BY <1>1 DEF InFlight, IsCalls
<1> QED BY <1>1, <1>3, <1>4

(* A step of the page: the accounts and tokens of the server are as they were. *)
LEMMA ClientStep ==
  ASSUME BaseInv, table' = table, nextId' = nextId, issued' = issued, valid' \subseteq valid,
         stored' = token', token' \in 0 .. Len(issued), accounts' \in Seq(Row), page' \in Pages,
         page' = "login" <=> token' = 0, claimed' \in {"unknown", "yes", "no"}, loading' \in BOOLEAN,
         notes' \subseteq {"network"}, IsCalls(calls'),
         \A c \in Slots : \/ calls'[c] = None
                          \/ calls[c] # None /\ Same(calls'[c], calls[c])
                          \/ CallInv(calls'[c]),
         page' = "notfound" => (\A c \in Slots : calls'[c] = None) /\ pane'.deleting = 0,
         pane' \in Panes, pane'.deleting # 0 => pane'.tab = "list" /\ pane'.deleting # 1,
         haste' \in 0 .. MaxHaste
  PROVE  BaseInv'
<1>1. SessionTypeOK'
  BY BaseFacts DEF SessionTypeOK, Tables, Row, Pages, IsCalls
<1>2. PaneTypeOK'
  BY <1>1 DEF PaneTypeOK, Panes
<1>3. PlaceInv'
  BY DEF BaseInv, PlaceInv, InFlight
<1>4. ASSUME NEW c \in InFlight' PROVE CallInv(calls[c])'
  <2>1. c \in Slots /\ calls'[c] # None
    BY DEF InFlight
  <2>2. CASE calls[c] # None /\ Same(calls'[c], calls[c])
    <3>1. CallInv(calls[c])
      BY <2>1, <2>2 DEF InFlight, BaseInv
    <3> QED BY <2>2, <3>1 DEF Same, CallInv
  <2>3. CASE CallInv(calls'[c])
    BY <2>3 DEF CallInv
  <2> QED BY <2>1, <2>2, <2>3
<1> QED BY <1>2, <1>3, <1>4 DEF BaseInv

(* A step of the server: the page is as it was, and no account comes back. *)
LEMMA ServerStep ==
  ASSUME BaseInv, stored' = stored, token' = token, accounts' = accounts, page' = page, claimed' = claimed,
         loading' = loading, notes' = notes, pane' = pane, haste' = haste,
         table' \in Tables, nextId' \in 1 .. MaxId + 1, nextId' >= nextId,
         \A i \in Ids : i >= nextId' => table'[i] = None,
         \/ issued' = issued /\ valid' = valid
         \/ \E row \in Row : /\ Len(issued) < MaxToken /\ issued' = Append(issued, row)
                             /\ valid' = valid \cup {Len(issued) + 1}
                             /\ nextId' # 1,
         NEW c \in InFlight, NEW status \in {"ok", "refused", "unauthorized"}, NEW data \in 0 .. MaxToken + MaxId,
         NEW list \in Seq(Row), Reply(c, status, data, list),
         calls[c].kind \in SignIns \cup {"reissue"} /\ status = "ok" => data \in 1 .. Len(issued'),
         calls[c].kind = "create" /\ status = "ok" => data \in Ids
  PROVE  BaseInv'
<1>1. /\ IsCalls(calls') /\ \A d \in Slots \ {c} : calls'[d] = calls[d]
      /\ calls'[c].kind = calls[c].kind /\ calls'[c].tok = calls[c].tok /\ calls'[c].id = calls[c].id
      /\ calls'[c].name = calls[c].name /\ calls'[c].status = status /\ calls'[c].data = data
      /\ c \in Slots
  <2>1. list \in Seq([id : Ids, name : Names])
    BY DEF Row
  <2>2. IsCalls(calls)
    BY BaseFacts
  <2>3. status \in {"sent", "ok", "refused", "unauthorized"}
    OBVIOUS
  <2> QED BY <2>1, <2>2, <2>3, ReplyFacts
<1>2. /\ issued' \in Seq(Row) /\ Len(issued') \in Nat /\ Len(issued) <= Len(issued') /\ Len(issued') <= MaxToken
      /\ valid' \subseteq 1 .. Len(issued')
  <2>1. issued \in Seq(Row) /\ Len(issued) \in 0 .. MaxToken /\ valid \in SUBSET (1 .. Len(issued))
    BY BaseFacts
  <2>2. CASE issued' = issued /\ valid' = valid
    BY <2>1, <2>2
  <2>3. ASSUME NEW row \in Row, Len(issued) < MaxToken, issued' = Append(issued, row),
               valid' = valid \cup {Len(issued) + 1}
        PROVE  /\ issued' \in Seq(Row) /\ Len(issued') = Len(issued) + 1
               /\ valid' \subseteq 1 .. Len(issued) + 1
    <3>1. PICK S : S = Row
      OBVIOUS
    <3>2. issued' \in Seq(S) /\ Len(issued') = Len(issued) + 1
      BY <2>1, <2>3, <3>1
    <3>3. 1 .. Len(issued) \subseteq 1 .. Len(issued) + 1 /\ Len(issued) + 1 \in 1 .. Len(issued) + 1
      BY <2>1
    <3> QED BY <2>1, <2>3, <3>1, <3>2, <3>3
  <2> QED BY <2>1, <2>2, <2>3, Bounds
<1>3. SessionTypeOK'
  BY <1>1, <1>2, BaseFacts DEF SessionTypeOK, Tables, Row, Pages, IsCalls
<1>4. PaneTypeOK'
  BY <1>3, BaseFacts DEF PaneTypeOK, Panes
<1>5. PlaceInv'
  <2>1. page = "notfound" => InFlight' = {}
    BY DEF BaseInv, PlaceInv
  <2>2. nextId' = 1 => issued' = <<>>
    BY BaseFacts DEF BaseInv, PlaceInv
  <2> QED BY <1>2, <2>1, <2>2 DEF BaseInv, PlaceInv
<1>6. ASSUME NEW d \in InFlight' PROVE CallInv(calls[d])'
  <2>1. d \in Slots /\ calls'[d] # None
    BY DEF InFlight
  <2>2. CASE d # c
    <3>1. CallInv(calls[d]) /\ calls'[d] = calls[d] /\ calls[d].tok <= Len(issued)
      BY <1>1, <2>1, <2>2 DEF InFlight, BaseInv, CallInv
    <3>2. calls[d].tok \in Nat
      BY <2>1, <3>1, BaseFacts DEF InFlight, CallType
    <3> QED BY <1>2, <3>1, <3>2, BaseFacts DEF CallInv
  <2>3. CASE d = c
    <3>1. CallInv(calls[c]) /\ calls[c].tok \in Nat
      BY BaseFacts DEF CallType
    <3> QED BY <1>1, <1>2, <2>3, <3>1, BaseFacts DEF CallInv
  <2> QED BY <2>2, <2>3
<1> QED BY <1>4, <1>5, <1>6 DEF BaseInv

(* A page whose requests go on, end, or are about the page that mounts. *)
LEMMA NavigateStep ==
  ASSUME BaseInv, NEW pg \in Pages \ {"notfound"}, NEW tok \in 0 .. Len(issued), pg = "login" <=> tok = 0,
         NEW cs, IsCalls(cs), \A c \in Slots : cs[c] = None \/ (calls[c] # None /\ Same(cs[c], calls[c])),
         Navigate(pg, cs, tok), UNCHANGED serverVars, stored' = tok, token' = tok, accounts' \in Seq(Row),
         loading' \in BOOLEAN, notes' \subseteq {"network"},
         pane' \in Panes, pane'.deleting # 0 => pane'.tab = "list" /\ pane'.deleting # 1, haste' \in 0 .. MaxHaste
  PROVE  BaseInv'
<1>1. tok \in 0 .. MaxToken /\ claimed \in {"unknown", "yes", "no"} /\ pg \in Pages
  <2>1. Len(issued) \in 0 .. MaxToken /\ claimed \in {"unknown", "yes", "no"}
    BY BaseFacts
  <2> QED BY <2>1, Bounds
<1>2. /\ page' = pg /\ IsCalls(calls') /\ claimed' \in {"unknown", "yes", "no"}
      /\ \E x : \A c \in Slots :
           \/ calls'[c] = None
           \/ cs[c] # None /\ Same(calls'[c], cs[c])
           \/ c = x /\ pg # "notfound" /\ pg # page /\ Mounts(calls'[c], pg, tok)
  BY <1>1, NavigateFacts
<1>3. ASSUME NEW c \in Slots
      PROVE  \/ calls'[c] = None
             \/ calls[c] # None /\ Same(calls'[c], calls[c])
             \/ CallInv(calls'[c])
  <2>1. CASE cs[c] # None /\ Same(calls'[c], cs[c])
    BY <2>1 DEF Same
  <2>2. CASE Mounts(calls'[c], pg, tok)
    BY <2>2 DEF Mounts, CallInv, SignIns
  <2> QED BY <1>2, <2>1, <2>2
<1>4. table' = table /\ nextId' = nextId /\ issued' = issued /\ valid' \subseteq valid
  BY DEF serverVars
<1> QED BY <1>1, <1>2, <1>3, <1>4, ClientStep

(* A page that is shown already; its requests go on, end, or are new. *)
LEMMA StayStep ==
  ASSUME BaseInv, UNCHANGED serverVars, stored' = stored, token' = token, page' = page, accounts' \in Seq(Row),
         claimed' \in {"unknown", "yes", "no"}, loading' \in BOOLEAN, notes' \subseteq {"network"},
         IsCalls(calls'),
         \A c \in Slots : \/ calls'[c] = None
                          \/ calls[c] # None /\ Same(calls'[c], calls[c])
                          \/ CallInv(calls'[c]) /\ page # "notfound",
         pane' \in Panes, pane'.deleting # 0 => pane'.tab = "list" /\ pane'.deleting # 1 /\ page # "notfound", haste' \in 0 .. MaxHaste
  PROVE  BaseInv'
<1>1. /\ table' = table /\ nextId' = nextId /\ issued' = issued /\ valid' \subseteq valid
      /\ stored' = token' /\ token' \in 0 .. Len(issued) /\ page' \in Pages /\ (page' = "login" <=> token' = 0)
  BY BaseFacts DEF serverVars
<1>2. page' = "notfound" => (\A c \in Slots : calls'[c] = None) /\ pane'.deleting = 0
  BY DEF BaseInv, PlaceInv, InFlight
<1> QED BY <1>1, <1>2, ClientStep

(* The pane changes, and a request may be made. *)
LEMMA PaneStep ==
  ASSUME BaseInv, UNCHANGED <<serverVars, stored, token, accounts, page, claimed, loading, notes>>,
         Waited \/ UNCHANGED haste, page # "notfound",
         \/ calls' = calls
         \/ \E kinds : calls' = Orphaned(calls, kinds)
         \/ \E call \in CallType : CallInv(call) /\ calls' = Add(calls, call),
         pane' \in Panes, pane'.deleting # 0 => pane'.tab = "list" /\ pane'.deleting # 1
  PROVE  BaseInv'
<1>1. haste' \in 0 .. MaxHaste
  BY BaseFacts, Bounds DEF Waited
<1>2. IsCalls(calls) /\ accounts \in Seq(Row) /\ claimed \in {"unknown", "yes", "no"} /\ loading \in BOOLEAN
      /\ notes \subseteq {"network"}
  BY BaseFacts
<1>3. /\ IsCalls(calls')
      /\ \A c \in Slots : \/ calls'[c] = None
                          \/ calls[c] # None /\ Same(calls'[c], calls[c])
                          \/ CallInv(calls'[c])
  <2>1. CASE calls' = calls
    BY <1>2, <2>1 DEF Same
  <2>2. ASSUME NEW kinds, calls' = Orphaned(calls, kinds)
        PROVE  IsCalls(calls') /\ \A c \in Slots : calls'[c] = None \/ (calls[c] # None /\ Same(calls'[c], calls[c]))
    BY <1>2, <2>2, OrphanedFacts
  <2>3. ASSUME NEW call \in CallType, CallInv(call), calls' = Add(calls, call)
        PROVE  IsCalls(calls') /\ \A c \in Slots : \/ calls'[c] = None
                                                   \/ calls[c] # None /\ Same(calls'[c], calls[c])
                                                   \/ CallInv(calls'[c])
    <3>0. /\ IsCalls(Add(calls, call))
          /\ \E x : \A c \in Slots : Add(calls, call)[c] = IF c = x THEN call ELSE calls[c]
      BY <1>2, AddFacts
    <3>1. PICK x : \A c \in Slots : calls'[c] = IF c = x THEN call ELSE calls[c]
      BY <2>3, <3>0
    <3>2. IsCalls(calls')
      BY <2>3, <3>0
    <3>3. \A c \in Slots : Same(calls[c], calls[c])
      BY DEF Same
    <3> QED BY <2>3, <3>1, <3>2, <3>3
  <2> QED BY <2>1, <2>2, <2>3
<1> QED BY <1>1, <1>2, <1>3, StayStep

(* At first nobody is signed in. *)
LEMMA BaseInitially == PaneInit => BaseInv
<1> SUFFICES ASSUME PaneInit PROVE BaseInv
  OBVIOUS
<1>1. /\ table = [i \in Ids |-> None] /\ nextId = 1 /\ issued = <<>> /\ valid = {} /\ stored = 0 /\ token = 0
      /\ accounts = <<>> /\ page = "login" /\ claimed = "unknown" /\ loading = TRUE /\ notes = {}
      /\ calls = Mounted("login", Idle, 0) /\ pane = Closed /\ haste = 0
  BY DEF PaneInit, Init
<1>2. "login" \in Pages /\ 0 \in 0 .. MaxToken /\ IsCalls(Idle)
  BY Bounds, IdleIs DEF Pages
<1>3. PICK tok \in 0 .. MaxToken, pg \in Pages : tok = 0 /\ pg = "login"
  BY <1>2
<1>4. /\ IsCalls(calls)
      /\ \A c \in Slots : calls[c] = None \/ Mounts(calls[c], pg, tok)
  <2>1. calls = Mounted(pg, Idle, tok)
    BY <1>1, <1>3
  <2>2. /\ IsCalls(Mounted(pg, Idle, tok))
        /\ \E x : \A c \in Slots :
             \/ Mounted(pg, Idle, tok)[c] = Idle[c]
             \/ c = x /\ pg # "notfound" /\ Mounts(Mounted(pg, Idle, tok)[c], pg, tok)
    BY <1>2, MountedFacts
  <2> QED BY <2>1, <2>2, IdleIs
<1>5. <<>> \in Seq(Row) /\ Len(<<>>) = 0
  OBVIOUS
<1>6. SessionTypeOK
  BY <1>1, <1>4, <1>5, Bounds DEF SessionTypeOK, IsCalls, Row
<1>7. PaneTypeOK
  BY <1>1, <1>6, ClosedFacts, Bounds DEF PaneTypeOK, Panes
<1>8. PlaceInv
  BY <1>1, <1>5, ClosedFacts, Bounds DEF PlaceInv
<1>9. ASSUME NEW c \in InFlight PROVE CallInv(calls[c])
  <2>1. Mounts(calls[c], pg, tok)
    BY <1>4 DEF InFlight
  <2> QED BY <1>1, <1>3, <1>5, <2>1 DEF Mounts, CallInv, SignIns
<1> QED BY <1>7, <1>8, <1>9 DEF BaseInv

-----------------------------------------------------------------------------
(* The lists of accounts. *)

(* A list is at the places of a sequence. *)
LEMMA ListFacts ==
  ASSUME NEW S, NEW list \in Seq(S)
  PROVE  Len(list) \in Nat /\ DOMAIN list = 1 .. Len(list) /\ \A k \in 1 .. Len(list) : list[k] \in S
OBVIOUS

(* A function over the first numbers is a sequence. *)
LEMMA IsList ==
  ASSUME NEW S, NEW n \in Nat, NEW f \in [1 .. n -> S]
  PROVE  f \in Seq(S) /\ Len(f) = n
OBVIOUS

(* A set of ids is finite. *)
LEMMA SomeIds ==
  ASSUME NEW n \in Nat, NEW S \in SUBSET (1 .. n)
  PROVE  IsFiniteSet(S) /\ Cardinality(S) \in Nat
<1>1. IsFiniteSet(1 .. n)
  BY FS_Interval
<1>2. IsFiniteSet(S)
  BY <1>1, FS_Subset
<1> QED BY <1>2, FS_CardinalityType

(* What the server lists is every account, once. *)
LEMMA ListedFacts ==
  ASSUME BaseInv
  PROVE  Listed \in Seq(Row) /\ Copy(Listed, table)
<1>1. table \in Tables /\ MaxId \in Nat
  BY BaseFacts, Bounds
<1>2. Present \in SUBSET (1 .. MaxId)
  BY DEF Present, Ids
<1>3. PICK n \in Nat : n = Cardinality(Present)
  BY <1>1, <1>2, SomeIds
<1>4. PICK S : S = Present
  OBVIOUS
<1>5. IsFiniteSet(S) /\ n = Cardinality(S)
  BY <1>1, <1>2, <1>3, <1>4, SomeIds
<1>6. ExistsBijection(1 .. Cardinality(S), S)
  BY <1>5, FS_CardinalityType
<1>7. PICK order : order = SetToSeq(S)
  OBVIOUS
<1>8. order \in [1 .. Cardinality(S) -> S] /\ IsInjective(order)
  <2>1. \E f \in [1 .. Cardinality(S) -> S] : IsInjective(f)
    BY <1>6 DEF ExistsBijection, Bijection, Injection
  <2> QED BY <1>7, <2>1 DEF SetToSeq
<1>9. order \in [1 .. n -> S] /\ \A j, k \in 1 .. n : order[j] = order[k] => j = k
  BY <1>5, <1>8 DEF IsInjective
<1>10. \A i \in S : \E k \in 1 .. n : order[k] = i
  <2>1. PICK N : N = 1 .. n
    OBVIOUS
  <2>2. IsFiniteSet(N) /\ Cardinality(N) = n
    BY <2>1, FS_Interval
  <2>3. order \in Injection(N, S)
    BY <1>9, <2>1 DEF Injection, IsInjective
  <2>4. order \in Surjection(N, S)
    BY <1>5, <2>2, <2>3, FS_Injection
  <2> QED BY <2>1, <2>4 DEF Surjection
<1>11. \A k \in 1 .. n : order[k] \in Ids /\ table[order[k]] \in Names
  BY <1>1, <1>4, <1>9 DEF Present, Tables
<1>12. PICK f : f = [k \in 1 .. n |-> [id |-> order[k], name |-> table[order[k]]]]
  OBVIOUS
<1>13. Listed = f
  BY <1>4, <1>7, <1>9, <1>12 DEF Listed
<1>14. f \in [1 .. n -> Row]
  BY <1>11, <1>12 DEF Row
<1>15. PICK R : R = Row
  OBVIOUS
<1>16. f \in Seq(R) /\ Len(f) = n
  BY <1>14, <1>15, IsList
<1>17. \A k \in 1 .. n : f[k].id = order[k] /\ f[k].name = table[order[k]]
  BY <1>12
<1>18. \A i \in Ids : table[i] # None => \E k \in 1 .. n : f[k].id = i
  BY <1>4, <1>10, <1>17 DEF Present
<1>19. \A j, k \in 1 .. n : f[j].id = f[k].id => j = k
  BY <1>9, <1>17
<1> QED BY <1>13, <1>15, <1>16, <1>17, <1>18, <1>19 DEF Copy

(* An account that was created is added. *)
LEMMA CreatedList ==
  ASSUME accounts \in Seq(Row), NEW id \in Ids, NEW name \in Names, createAction([id |-> id, name |-> name])
  PROVE  /\ accounts' \in Seq(Row)
         /\ \A old \in Tables : Copy(accounts, old) /\ old[id] = None
                                  => Copy(accounts', [old EXCEPT ![id] = name])
<1>1. PICK R : R = Row
  OBVIOUS
<1>2. PICK row \in R : row = [id |-> id, name |-> name]
  BY <1>1 DEF Row
<1>3. PICK n \in Nat : n = Len(accounts)
  BY <1>1, ListFacts
<1>4. /\ accounts' \in Seq(R) /\ Len(accounts') = n + 1 /\ accounts'[n + 1] = row
      /\ \A k \in 1 .. n : accounts'[k] = accounts[k]
  <2>1. accounts \in Seq(R) /\ accounts' = Append(accounts, row)
    BY <1>1, <1>2 DEF createAction
  <2> QED BY <1>3, <2>1
<1>5. row.id = id /\ row.name = name
  BY <1>2
<1>6. ASSUME NEW old \in Tables, Copy(accounts, old), old[id] = None
      PROVE  Copy(accounts', [old EXCEPT ![id] = name])
  <2>1. PICK new : new = [old EXCEPT ![id] = name]
    OBVIOUS
  <2>2. \A i \in Ids : new[i] = IF i = id THEN name ELSE old[i]
    BY <2>1 DEF Tables
  <2>3. \A k \in 1 .. n : accounts[k] \in R
    BY <1>1, <1>3, ListFacts
  <2>4. \A k \in 1 .. n : accounts[k].id \in Ids /\ accounts[k].name \in Names
    BY <1>1, <2>3 DEF Row
  <2>5. \A k \in 1 .. n : accounts[k].id # id /\ old[accounts[k].id] = accounts[k].name
    BY <1>3, <1>6, <2>4, Bounds DEF Copy
  <2>6. \A k \in 1 .. (n + 1) : k = n + 1 \/ k \in 1 .. n
    OBVIOUS
  <2>7. \A k \in 1 .. (n + 1) : new[accounts'[k].id] = accounts'[k].name
    BY <1>4, <1>5, <2>2, <2>4, <2>5, <2>6
  <2>8. \A i \in Ids : new[i] # None => \E k \in 1 .. (n + 1) : accounts'[k].id = i
    <3>1. n + 1 \in 1 .. (n + 1) /\ 1 .. n \subseteq 1 .. (n + 1)
      OBVIOUS
    <3>2. \A i \in Ids : old[i] # None => \E k \in 1 .. n : accounts[k].id = i
      BY <1>3, <1>6 DEF Copy
    <3> QED BY <1>4, <1>5, <2>2, <3>1, <3>2
  <2>9. \A j, k \in 1 .. (n + 1) : accounts'[j].id = accounts'[k].id => j = k
    <3>1. \A j, k \in 1 .. n : accounts[j].id = accounts[k].id => j = k
      BY <1>3, <1>6 DEF Copy
    <3> QED BY <1>4, <1>5, <2>5, <2>6, <3>1
  <2> QED BY <1>1, <1>4, <2>1, <2>7, <2>8, <2>9 DEF Copy
<1> QED BY <1>1, <1>4, <1>6

(* An account that was changed is renamed. *)
LEMMA UpdatedList ==
  ASSUME accounts \in Seq(Row), NEW id \in Ids, NEW name \in Names, updateAction(id, name)
  PROVE  /\ accounts' \in Seq(Row)
         /\ \A old \in Tables : Copy(accounts, old) /\ old[id] # None
                                  => Copy(accounts', [old EXCEPT ![id] = name])
<1>1. PICK R : R = Row
  OBVIOUS
<1>2. PICK n \in Nat : n = Len(accounts) /\ DOMAIN accounts = 1 .. n
  BY <1>1, ListFacts
<1>3. \A k \in 1 .. n : accounts[k] \in R
  BY <1>1, <1>2, ListFacts
<1>4. ASSUME NEW k \in 1 .. n, NEW row,
             row = IF accounts[k].id = id THEN [accounts[k] EXCEPT !.name = name] ELSE accounts[k]
      PROVE  /\ row \in R /\ row.id = accounts[k].id
             /\ row.name = IF accounts[k].id = id THEN name ELSE accounts[k].name
  <2>1. PICK a \in R : a = accounts[k]
    BY <1>3
  <2>2. a = [id |-> a.id, name |-> a.name] /\ a.id \in Ids /\ a.name \in Names
    BY <1>1 DEF Row
  <2>3. CASE a.id = id
    <3>1. row = [id |-> a.id, name |-> name]
      BY <1>4, <2>1, <2>2, <2>3
    <3>2. row \in R
      BY <1>1, <2>2, <3>1 DEF Row
    <3> QED BY <2>1, <2>3, <3>1, <3>2
  <2>4. CASE a.id # id
    BY <1>4, <2>1, <2>4
  <2> QED BY <2>3, <2>4
<1>5. accounts' = [k \in 1 .. n |-> IF accounts[k].id = id THEN [accounts[k] EXCEPT !.name = name] ELSE accounts[k]]
  BY <1>2 DEF updateAction
<1>6. \A k \in 1 .. n : /\ accounts'[k] \in R /\ accounts'[k].id = accounts[k].id
                        /\ accounts'[k].name = IF accounts[k].id = id THEN name ELSE accounts[k].name
  BY <1>4, <1>5
<1>7. accounts' \in Seq(R) /\ Len(accounts') = n
  <2>1. accounts' \in [1 .. n -> R]
    BY <1>5, <1>6
  <2> QED BY <2>1, IsList
<1>8. ASSUME NEW old \in Tables, Copy(accounts, old), old[id] # None
      PROVE  Copy(accounts', [old EXCEPT ![id] = name])
  <2>1. PICK new : new = [old EXCEPT ![id] = name]
    OBVIOUS
  <2>2. \A i \in Ids : new[i] = IF i = id THEN name ELSE old[i]
    BY <2>1 DEF Tables
  <2>3. \A k \in 1 .. n : accounts[k].id \in Ids
    BY <1>1, <1>3 DEF Row
  <2>4. /\ \A k \in 1 .. n : old[accounts[k].id] = accounts[k].name
        /\ \A i \in Ids : old[i] # None => \E k \in 1 .. n : accounts[k].id = i
        /\ \A j, k \in 1 .. n : accounts[j].id = accounts[k].id => j = k
    BY <1>2, <1>8 DEF Copy
  <2>5. \A k \in 1 .. n : new[accounts'[k].id] = accounts'[k].name
    BY <1>6, <2>2, <2>3, <2>4
  <2>6. \A i \in Ids : new[i] # None => \E k \in 1 .. n : accounts'[k].id = i
    BY <1>6, <1>8, <2>2, <2>4
  <2>7. \A j, k \in 1 .. n : accounts'[j].id = accounts'[k].id => j = k
    BY <1>6, <2>4
  <2> QED BY <1>1, <1>7, <2>1, <2>5, <2>6, <2>7 DEF Copy
<1> QED BY <1>1, <1>7, <1>8

(* An account that was deleted is taken out. *)
LEMMA DeletedList ==
  ASSUME accounts \in Seq(Row), NEW id \in Ids, deleteAction(id)
  PROVE  /\ accounts' \in Seq(Row)
         /\ \A old \in Tables : Copy(accounts, old) => Copy(accounts', [old EXCEPT ![id] = None])
<1>1. PICK R : R = Row
  OBVIOUS
<1>2. PICK n \in Nat : n = Len(accounts) /\ DOMAIN accounts = 1 .. n
  BY <1>1, ListFacts
<1>3. \A k \in 1 .. n : accounts[k] \in R
  BY <1>1, <1>2, ListFacts
<1>4. PICK left \in SUBSET (1 .. n) : left = {k \in 1 .. n : accounts[k].id # id}
  OBVIOUS
<1>5. PICK size \in Nat : size = Cardinality(left) /\ IsFiniteSet(left)
  BY SomeIds
<1>6. PICK kept \in [1 .. size -> left] :
        /\ \A j, k \in 1 .. size : j < k => kept[j] < kept[k]
        /\ accounts' = [j \in 1 .. size |-> accounts[kept[j]]]
  <2>1. PICK kept \in [1 .. Cardinality(left) -> left] :
          /\ \A j, k \in DOMAIN kept : j < k => kept[j] < kept[k]
          /\ accounts' = [j \in DOMAIN kept |-> accounts[kept[j]]]
    BY <1>2, <1>4 DEF deleteAction
  <2>2. DOMAIN kept = 1 .. size /\ kept \in [1 .. size -> left]
    BY <1>5, <2>1
  <2> QED BY <2>1, <2>2
<1>7. \A j \in 1 .. size : kept[j] \in left /\ kept[j] \in 1 .. n /\ accounts'[j] = accounts[kept[j]]
  BY <1>6
<1>8. accounts' \in Seq(R) /\ Len(accounts') = size
  <2>1. accounts' \in [1 .. size -> R]
    BY <1>3, <1>6, <1>7
  <2> QED BY <2>1, IsList
<1>9. \A j, k \in 1 .. size : kept[j] = kept[k] => j = k
  <2> SUFFICES ASSUME NEW j \in 1 .. size, NEW k \in 1 .. size, kept[j] = kept[k], j # k PROVE FALSE
    OBVIOUS
  <2>1. kept[j] \in Nat
    BY <1>7
  <2>2. j < k \/ k < j
    OBVIOUS
  <2> QED BY <1>6, <2>1, <2>2
<1>10. \A i \in left : \E j \in 1 .. size : kept[j] = i
  <2>1. PICK N : N = 1 .. size
    OBVIOUS
  <2>2. IsFiniteSet(N) /\ Cardinality(N) = size
    BY <2>1, FS_Interval
  <2>3. kept \in Injection(N, left)
    BY <1>6, <1>9, <2>1 DEF Injection, IsInjective
  <2>4. kept \in Surjection(N, left)
    BY <1>5, <2>2, <2>3, FS_Injection
  <2> QED BY <2>1, <2>4 DEF Surjection
<1>11. ASSUME NEW old \in Tables, Copy(accounts, old)
       PROVE  Copy(accounts', [old EXCEPT ![id] = None])
  <2>1. PICK new : new = [old EXCEPT ![id] = None]
    OBVIOUS
  <2>2. \A i \in Ids : new[i] = IF i = id THEN None ELSE old[i]
    BY <2>1 DEF Tables
  <2>3. /\ \A k \in 1 .. n : old[accounts[k].id] = accounts[k].name
        /\ \A i \in Ids : old[i] # None => \E k \in 1 .. n : accounts[k].id = i
        /\ \A j, k \in 1 .. n : accounts[j].id = accounts[k].id => j = k
    BY <1>2, <1>11 DEF Copy
  <2>4. \A k \in 1 .. n : accounts[k].id \in Ids
    BY <1>1, <1>3 DEF Row
  <2>5. \A j \in 1 .. size : new[accounts'[j].id] = accounts'[j].name
    BY <1>4, <1>7, <2>2, <2>3, <2>4
  <2>6. \A i \in Ids : new[i] # None => \E j \in 1 .. size : accounts'[j].id = i
    <3> SUFFICES ASSUME NEW i \in Ids, new[i] # None PROVE \E j \in 1 .. size : accounts'[j].id = i
      OBVIOUS
    <3>1. i # id /\ old[i] # None
      BY <2>2
    <3>2. PICK k \in 1 .. n : accounts[k].id = i
      BY <2>3, <3>1
    <3>3. k \in left
      BY <1>4, <3>1, <3>2
    <3>4. PICK j \in 1 .. size : kept[j] = k
      BY <1>10, <3>3
    <3> QED BY <1>7, <3>2, <3>4
  <2>7. \A j, k \in 1 .. size : accounts'[j].id = accounts'[k].id => j = k
    BY <1>7, <1>9, <2>3
  <2> QED BY <1>1, <1>8, <2>1, <2>5, <2>6, <2>7 DEF Copy
<1> QED BY <1>1, <1>8, <1>11

(* A copy has as many accounts as the table. *)
LEMMA CopyFacts ==
  ASSUME BaseInv, Copy(accounts, table)
  PROVE  /\ Listing = {[id |-> i, name |-> table[i]] : i \in Present}
         /\ Len(accounts) = Cardinality(Present)
<1>1. PICK R : R = Row
  OBVIOUS
<1>2. PICK n \in Nat : n = Len(accounts)
  BY <1>1, ListFacts DEF Copy
<1>3. \A k \in 1 .. n : accounts[k] \in R
  BY <1>1, <1>2, ListFacts DEF Copy
<1>4. \A k \in 1 .. n : /\ accounts[k] = [id |-> accounts[k].id, name |-> accounts[k].name]
                        /\ accounts[k].id \in Ids /\ accounts[k].name \in Names
  BY <1>1, <1>3 DEF Row
<1>5. \A k \in 1 .. n : accounts[k].id \in Present /\ table[accounts[k].id] = accounts[k].name
  <2>1. \A k \in 1 .. n : table[accounts[k].id] = accounts[k].name
    BY <1>2 DEF Copy
  <2> QED BY <1>4, <2>1, Bounds DEF Present
<1>6. \A i \in Present : \E k \in 1 .. n : accounts[k].id = i
  BY <1>2 DEF Copy, Present
<1>7. Listing = {[id |-> i, name |-> table[i]] : i \in Present}
  <2>1. \A k \in 1 .. n : accounts[k] \in {[id |-> i, name |-> table[i]] : i \in Present}
    BY <1>4, <1>5
  <2>2. \A i \in Present : [id |-> i, name |-> table[i]] \in {accounts[k] : k \in 1 .. n}
    BY <1>4, <1>5, <1>6
  <2> QED BY <1>2, <2>1, <2>2 DEF Listing
<1>8. PICK f : f = [k \in 1 .. n |-> accounts[k].id]
  OBVIOUS
<1>9. PICK N, S : N = 1 .. n /\ S = Present
  OBVIOUS
<1>10. f \in Surjection(N, S)
  <2>1. f \in [N -> S]
    BY <1>5, <1>8, <1>9
  <2>2. \A t \in S : \E s \in N : f[s] = t
    BY <1>6, <1>8, <1>9
  <2> QED BY <2>1, <2>2 DEF Surjection
<1>11. f \in Injection(N, S)
  <2>1. \A j, k \in N : f[j] = f[k] => j = k
    BY <1>2, <1>8, <1>9 DEF Copy
  <2> QED BY <1>10, <2>1 DEF Surjection, Injection, IsInjective
<1>12. IsFiniteSet(N) /\ Cardinality(N) = n
  BY <1>9, FS_Interval
<1>13. Cardinality(S) = n
  BY <1>10, <1>11, <1>12, FS_Surjection
<1> QED BY <1>2, <1>7, <1>9, <1>13

(* The user is hasty from here on. *)
LEMMA ConfusedFacts ==
  ASSUME haste \in 0 .. MaxHaste, Confused
  PROVE  haste' # 0 /\ haste' \in 0 .. MaxHaste
BY Bounds DEF Confused

(* What is saved is what is shown. *)
LEMMA SavedFacts ==
  ASSUME pane \in Panes, NEW c
  PROVE  /\ Saved(c) \in Panes /\ Saved(c).tab = pane.tab /\ Saved(c).id = pane.id
         /\ Saved(c).name = pane.name /\ Saved(c).deleting = pane.deleting
         /\ calls[c].here => Saved(c).original = pane.name
<1>1. PICK p \in Panes : p = pane
  OBVIOUS
<1>2. PICK no \in BOOLEAN : no = FALSE
  OBVIOUS
<1>3. PICK q : q = [[p EXCEPT !.original = p.name] EXCEPT !.pass = no]
  OBVIOUS
<1>4. /\ q \in Panes /\ q.tab = p.tab /\ q.id = p.id /\ q.name = p.name /\ q.deleting = p.deleting
      /\ q.original = p.name
  BY <1>3 DEF Panes
<1>5. Saved(c) = IF calls[c].here THEN q ELSE pane
  BY <1>1, <1>2, <1>3 DEF Saved
<1> QED BY <1>1, <1>4, <1>5

(* The account to be deleted is forgotten. *)
LEMMA CancelledFacts ==
  ASSUME pane \in Panes
  PROVE  LET p == [pane EXCEPT !.deleting = 0]
         IN  /\ p \in Panes /\ p.tab = pane.tab /\ p.id = pane.id /\ p.name = pane.name
             /\ p.original = pane.original /\ p.deleting = 0
BY Bounds DEF Panes

(* A page is loaded from its address. *)
LEMMA VisitBase ==
  ASSUME BaseInv, NEW path \in {"root", "login", "other"}, Visit(path), pane' = Closed, haste' \in 0 .. MaxHaste
  PROVE  BaseInv'
<1>1. stored \in 0 .. MaxToken /\ stored \in 0 .. Len(issued) /\ stored = token
  BY BaseFacts
<1>2. PICK pg \in Pages : pg = PageOf(path, stored) /\ (pg = "login" <=> stored = 0)
  BY DEF PageOf, Private, Hidden, Pages
<1>3. /\ token' = stored /\ page' = pg /\ calls' = Mounted(pg, Idle, stored) /\ claimed' = "unknown"
      /\ loading' = (pg # "notfound") /\ accounts' = <<>> /\ notes' = {}
      /\ UNCHANGED <<serverVars, stored>>
  BY <1>2 DEF Visit, load
<1>4. /\ IsCalls(calls') /\ \A c \in Slots : calls'[c] = None \/ (pg # "notfound" /\ Mounts(calls'[c], pg, stored))
  <2>1. /\ IsCalls(Mounted(pg, Idle, stored))
        /\ \E x : \A c \in Slots :
             \/ Mounted(pg, Idle, stored)[c] = Idle[c]
             \/ c = x /\ pg # "notfound" /\ Mounts(Mounted(pg, Idle, stored)[c], pg, stored)
    BY <1>1, IdleIs, MountedFacts
  <2> QED BY <1>3, <2>1, IdleIs
<1>5. \A c \in Slots : calls'[c] = None \/ CallInv(calls'[c])
  BY <1>1, <1>4 DEF Mounts, CallInv, SignIns
<1>6. accounts' \in Seq(Row)
  <2>1. <<>> \in Seq(Row)
    OBVIOUS
  <2> QED BY <1>3, <2>1
<1>7. table' = table /\ nextId' = nextId /\ issued' = issued /\ valid' \subseteq valid
  BY <1>3 DEF serverVars
<1>8. /\ stored' = token' /\ token' \in 0 .. Len(issued) /\ page' \in Pages /\ (page' = "login" <=> token' = 0)
      /\ claimed' \in {"unknown", "yes", "no"} /\ loading' \in BOOLEAN /\ notes' \subseteq {"network"}
  BY <1>1, <1>2, <1>3
<1>9. page' = "notfound" => (\A c \in Slots : calls'[c] = None) /\ pane'.deleting = 0
  BY <1>3, <1>4, ClosedFacts
<1>10. pane' \in Panes /\ (pane'.deleting # 0 => pane'.tab = "list" /\ pane'.deleting # 1)
  BY ClosedFacts
<1> QED BY <1>4, <1>5, <1>6, <1>7, <1>8, <1>9, <1>10, ClientStep

(* The request of who signs in. *)
LEMMA SubmitFacts ==
  ASSUME BaseInv, NEW name \in Names, Submit(name)
  PROVE  \E call \in CallType :
           /\ call.kind \in SignIns /\ call.tok = 0 /\ call.name = name /\ call.status = "sent"
           /\ IsCalls(calls') /\ \E x : \A c \in Slots : calls'[c] = IF c = x THEN call ELSE calls[c]
<1>1. PICK kind \in SignIns : kind = IF claimed = "yes" THEN "authenticate" ELSE "claim"
  BY DEF SignIns
<1>2. kind \in AnyKind /\ 0 \in 0 .. MaxToken /\ 0 \in 0 .. MaxId /\ name \in Names \cup {None}
  BY Bounds DEF SignIns, AnyKind
<1>3. PICK tok \in 0 .. MaxToken, id \in 0 .. MaxId : tok = 0 /\ id = 0
  BY <1>2
<1>4. PICK call : call = Call(kind, tok, id, name)
  OBVIOUS
<1>5. call \in CallType /\ call.kind = kind /\ call.tok = tok /\ call.name = name /\ call.status = "sent"
  BY <1>2, <1>4, CallFacts
<1>6. calls' = Add(calls, call)
  BY <1>1, <1>3, <1>4 DEF Submit
<1>7. IsCalls(calls)
  BY BaseFacts
<1>8. /\ IsCalls(Add(calls, call))
      /\ \E x : \A c \in Slots : Add(calls, call)[c] = IF c = x THEN call ELSE calls[c]
  BY <1>5, <1>7, AddFacts
<1> QED BY <1>3, <1>5, <1>6, <1>8

(* Submitting the login form keeps the base invariant. *)
LEMMA SubmitBase ==
  ASSUME BaseInv, NEW name \in Names, Submit(name), pane' = pane, haste' \in 0 .. MaxHaste
  PROVE  BaseInv'
<1>1. \E call \in CallType :
        /\ call.kind \in SignIns /\ call.tok = 0 /\ call.name = name /\ call.status = "sent"
        /\ IsCalls(calls') /\ \E x : \A c \in Slots : calls'[c] = IF c = x THEN call ELSE calls[c]
  BY SubmitFacts
<1>2. PICK call, x :
        /\ call \in CallType
        /\ call.kind \in SignIns /\ call.tok = 0 /\ call.name = name /\ call.status = "sent"
        /\ IsCalls(calls') /\ \A c \in Slots : calls'[c] = IF c = x THEN call ELSE calls[c]
  BY <1>1
<1>3. Len(issued) \in Nat
  BY BaseFacts
<1>4. CallInv(call)
  BY <1>2, <1>3 DEF CallInv, SignIns
<1>5. \A c \in Slots : Same(calls[c], calls[c])
  BY DEF Same
<1>6. \A c \in Slots : \/ calls'[c] = None
                       \/ calls[c] # None /\ Same(calls'[c], calls[c])
                       \/ CallInv(calls'[c]) /\ page # "notfound"
  BY <1>2, <1>4, <1>5 DEF Submit, LoginShown
<1>7. /\ UNCHANGED serverVars /\ stored' = stored /\ token' = token /\ page' = page /\ accounts' \in Seq(Row)
      /\ claimed' \in {"unknown", "yes", "no"} /\ loading' \in BOOLEAN /\ notes' \subseteq {"network"}
  BY BaseFacts DEF Submit, load
<1>8. pane' \in Panes /\ (pane'.deleting # 0 => pane'.tab = "list" /\ pane'.deleting # 1 /\ page # "notfound")
  BY BaseFacts DEF BaseInv, PlaceInv
<1> QED BY <1>2, <1>6, <1>7, <1>8, StayStep

(* The session's own steps. *)
LEMMA SessionBase == ASSUME BaseInv, SessionStep PROVE BaseInv'
<1> USE DEF SessionStep
<1>1. haste \in 0 .. MaxHaste /\ 0 \in 0 .. MaxHaste /\ (Confused => haste' \in 0 .. MaxHaste)
  BY BaseFacts, Bounds, ConfusedFacts
<1>2. ASSUME NEW path \in {"root", "login", "other"}, Visit(path), pane' = Closed,
             Confused \/ UNCHANGED haste
      PROVE  BaseInv'
  <2>1. haste' \in 0 .. MaxHaste
    BY <1>1, <1>2
  <2> QED BY <1>2, <2>1, VisitBase
<1>3. ASSUME NEW name \in Names, Submit(name), haste' = 0 \/ Confused, UNCHANGED pane
      PROVE  BaseInv'
  <2>1. haste' \in 0 .. MaxHaste
    BY <1>1, <1>3
  <2> QED BY <1>3, <2>1, SubmitBase
<1>4. \A c \in Slots : calls[c] = None \/ (calls[c] # None /\ Same(calls[c], calls[c]))
  BY DEF Same
<1>5. CASE Logout /\ pane' = Closed /\ UNCHANGED haste
  <2>1. "login" \in Pages \ {"notfound"} /\ 0 \in 0 .. Len(issued)
    BY BaseFacts DEF Pages
  <2>2. PICK pg \in Pages \ {"notfound"}, tok \in 0 .. Len(issued) : pg = "login" /\ tok = 0
    BY <2>1
  <2>3. Navigate(pg, calls, tok)
    BY <1>5, <2>2 DEF Logout
  <2>4. IsCalls(calls) /\ UNCHANGED serverVars /\ stored' = tok /\ token' = tok /\ haste' \in 0 .. MaxHaste
    BY <1>1, <1>5, <2>2, BaseFacts DEF Logout, logout
  <2>5. accounts' \in Seq(Row) /\ loading' \in BOOLEAN /\ notes' \subseteq {"network"}
    <3>1. <<>> \in Seq(Row)
      OBVIOUS
    <3> QED BY <1>5, <3>1 DEF Logout, logout, clear, load
  <2>6. pane' \in Panes /\ (pane'.deleting # 0 => pane'.tab = "list" /\ pane'.deleting # 1)
    BY <1>5, ClosedFacts
  <2>7. pg = "login" <=> tok = 0
    BY <2>2
  <2> QED BY <1>4, <2>3, <2>4, <2>5, <2>6, <2>7, NavigateStep
<1>6. CASE Back /\ pane' = PaneAt(page', token) /\ UNCHANGED haste
  <2>1. token \in 0 .. Len(issued) /\ token # 0 /\ "dashboard" \in Pages \ {"notfound"} /\ "dashboard" \in Pages
    BY <1>6, BaseFacts DEF Back, Pages
  <2>2. PICK pg \in Pages \ {"notfound"}, tok \in 0 .. Len(issued) : pg = "dashboard" /\ tok = token
    BY <2>1
  <2>3. Navigate(pg, calls, tok) /\ page' = pg
    BY <1>6, <2>2 DEF Back, Navigate
  <2>4. IsCalls(calls) /\ UNCHANGED serverVars /\ stored' = tok /\ token' = tok /\ haste' \in 0 .. MaxHaste
    BY <1>1, <1>6, <2>2, BaseFacts DEF Back
  <2>5. accounts' \in Seq(Row) /\ loading' \in BOOLEAN /\ notes' \subseteq {"network"}
    BY <1>6, BaseFacts DEF Back, load
  <2>6. pane' = PaneAt(pg, tok)
    BY <1>6, <2>2, <2>3
  <2>7. pg \in Pages /\ (pg = "dashboard" => tok # 0) /\ (pg = "login" <=> tok = 0)
    BY <2>1, <2>2
  <2>8. PaneAt(pg, tok) \in Panes /\ (PaneAt(pg, tok).deleting # 0 => PaneAt(pg, tok) = pane)
    BY <2>7, PaneAtFacts
  <2>9. pane' \in Panes /\ (pane'.deleting # 0 => pane'.tab = "list" /\ pane'.deleting # 1)
    BY <2>6, <2>8 DEF BaseInv, PlaceInv
  <2> QED BY <1>4, <2>3, <2>4, <2>5, <2>7, <2>9, NavigateStep
<1>7. ASSUME (\E n \in notes : Dismiss(n)) \/ (\E t \in valid : Expire(t)), UNCHANGED <<pane, haste>>
      PROVE  BaseInv'
  <2>1. /\ table' = table /\ nextId' = nextId /\ issued' = issued /\ valid' \subseteq valid /\ stored' = stored
        /\ token' = token /\ accounts' = accounts /\ page' = page /\ claimed' = claimed /\ loading' = loading
        /\ notes' \subseteq notes /\ calls' = calls
    BY <1>7 DEF Dismiss, Expire, dismiss, serverVars
  <2>2. /\ stored' = token' /\ token' \in 0 .. Len(issued) /\ accounts' \in Seq(Row) /\ page' \in Pages
        /\ (page' = "login" <=> token' = 0) /\ claimed' \in {"unknown", "yes", "no"} /\ loading' \in BOOLEAN
        /\ notes' \subseteq {"network"} /\ IsCalls(calls')
        /\ pane' \in Panes /\ haste' \in 0 .. MaxHaste
    BY <1>7, <2>1, BaseFacts
  <2>3. /\ page' = "notfound" => (\A c \in Slots : calls'[c] = None) /\ pane'.deleting = 0
        /\ pane'.deleting # 0 => pane'.tab = "list" /\ pane'.deleting # 1
    BY <1>7, <2>1 DEF BaseInv, PlaceInv, InFlight
  <2>4. \A c \in Slots : \/ calls'[c] = None
                         \/ calls[c] # None /\ Same(calls'[c], calls[c])
                         \/ CallInv(calls'[c])
    BY <1>4, <2>1
  <2> QED BY <2>1, <2>2, <2>3, <2>4, ClientStep
<1> QED BY <1>2, <1>3, <1>5, <1>6, <1>7

(* A request of the pane. *)
LEMMA AskFacts ==
  ASSUME BaseInv, NEW kind \in Changes, Ask(kind),
         kind = "delete" => pane.deleting # 0,
         kind # "delete" => pane.name \in Names,
         kind \in {"update", "reissue"} => pane.id # 0
  PROVE  \E call \in CallType :
           /\ call.kind = kind /\ call.tok = token /\ call.here /\ call.status = "sent"
           /\ call.id = IF kind = "delete" THEN pane.deleting ELSE pane.id
           /\ kind # "delete" => call.name = pane.name
           /\ CallInv(call) /\ calls' = Add(calls, call)
<1>1. pane \in Panes /\ token \in 0 .. MaxToken /\ token <= Len(issued) /\ kind \in AnyKind
  BY BaseFacts DEF AnyKind
<1>2. PICK id \in 0 .. MaxId : id = IF kind = "delete" THEN pane.deleting ELSE pane.id
  BY <1>1 DEF Panes
<1>3. PICK name \in Names \cup {None} : name = IF kind = "delete" THEN None ELSE pane.name
  BY <1>1 DEF Panes
<1>4. PICK call : call = Call(kind, token, id, name)
  OBVIOUS
<1>5. /\ call \in CallType /\ call.kind = kind /\ call.tok = token /\ call.id = id /\ call.name = name
      /\ call.here /\ call.status = "sent"
  BY <1>1, <1>4, CallFacts
<1>6. calls' = Add(calls, call)
  BY <1>2, <1>3, <1>4 DEF Ask
<1>7. call.kind \in {"update", "reissue", "delete"} => call.id \in Ids
  BY <1>1, <1>2, <1>5, Bounds DEF Ids
<1>8. CallInv(call)
  BY <1>1, <1>3, <1>5, <1>7 DEF CallInv, SignIns, Changes
<1> QED BY <1>2, <1>3, <1>5, <1>6, <1>8

(* The accounts of the list are accounts. *)
LEMMA ListingFacts ==
  ASSUME BaseInv, NEW a \in Listing
  PROVE  a \in Row /\ a.id \in Ids /\ a.name \in Names
<1>1. PICK R : R = Row
  OBVIOUS
<1>2. accounts \in Seq(R)
  BY <1>1, BaseFacts
<1>3. a \in R
  BY <1>2, ListFacts DEF Listing
<1> QED BY <1>1, <1>3 DEF Row

(* The user's steps at the pane, without the requests. *)
LEMMA EditBase ==
  ASSUME BaseInv, TogglePane \/ EditAccount \/ DraftAccount \/ BackToList \/ Type \/ AskDelete \/ CancelDelete
  PROVE  BaseInv'
<1>1. /\ pane \in Panes /\ page \in Pages /\ (page = "login" <=> token = 0) /\ token \in 0 .. Len(issued)
      /\ Len(issued) \in Nat /\ (pane.deleting # 0 => pane.tab = "list" /\ pane.deleting # 1)
  BY BaseFacts DEF BaseInv, PlaceInv
<1>2. ASSUME TogglePane PROVE BaseInv'
  <2>1. page = "dashboard" /\ UNCHANGED <<serverVars, stored, token, accounts, page, claimed, loading, notes>> /\ Waited
        /\ \E kinds : calls' = Orphaned(calls, kinds)
    BY <1>2 DEF TogglePane, AtPane
  <2>2. token \in 1 .. Len(issued)
    BY <1>1, <2>1
  <2>3. Initial(token) \in Panes /\ Initial(token).deleting = 0
    BY <2>2, InitialFacts
  <2>4. pane' \in Panes /\ (pane'.deleting # 0 => pane'.tab = "list" /\ pane'.deleting # 1)
    BY <1>2, <2>3, ClosedFacts DEF TogglePane
  <2>5. page # "notfound"
    BY <2>1
  <2> QED BY <2>1, <2>4, <2>5, PaneStep
<1>3. ASSUME page = "dashboard", UNCHANGED vars, Waited \/ UNCHANGED haste,
             pane' \in Panes, pane'.deleting # 0 => pane'.tab = "list" /\ pane'.deleting # 1
      PROVE  BaseInv'
  <2>1. page # "notfound" /\ calls' = calls
        /\ UNCHANGED <<serverVars, stored, token, accounts, page, claimed, loading, notes>>
    BY <1>3 DEF vars
  <2> QED BY <1>3, <2>1, PaneStep
<1>4. ASSUME EditAccount PROVE BaseInv'
  <2>1. PICK a \in Listing : pane' = Form("edit", a.id, a.name)
    BY <1>4 DEF EditAccount
  <2>2. a.id \in 0 .. MaxId /\ a.name \in Names \cup {None}
    BY ListingFacts, Bounds DEF Ids
  <2>3. PICK p : p = Form("edit", a.id, a.name)
    OBVIOUS
  <2>4. p \in Panes /\ p.deleting = 0
    BY <2>2, <2>3, FormFacts
  <2>5. page = "dashboard" /\ UNCHANGED vars /\ Waited
    BY <1>4 DEF EditAccount, AtPane
  <2> QED BY <1>3, <2>1, <2>3, <2>4, <2>5
<1>5. ASSUME DraftAccount \/ BackToList PROVE BaseInv'
  <2>1. pane' \in Panes /\ pane'.deleting = 0
    BY <1>5, ClosedFacts DEF DraftAccount, BackToList
  <2>2. page = "dashboard" /\ UNCHANGED vars /\ Waited
    BY <1>5 DEF DraftAccount, BackToList, AtPane
  <2> QED BY <1>3, <2>1, <2>2
<1>6. ASSUME Type PROVE BaseInv'
  <2>1. page = "dashboard" /\ UNCHANGED vars /\ Waited /\ pane.deleting = 0
    BY <1>6 DEF Type, AtPane
  <2>2. PICK yes \in BOOLEAN : yes = TRUE
    OBVIOUS
  <2>3. ASSUME NEW name \in Names, pane' = [pane EXCEPT !.name = name]
        PROVE  pane' \in Panes /\ pane'.deleting = pane.deleting
    BY <1>1, <2>3 DEF Panes
  <2>4. ASSUME pane' = [pane EXCEPT !.pass = yes]
        PROVE  pane' \in Panes /\ pane'.deleting = pane.deleting
    BY <1>1, <2>4 DEF Panes
  <2>5. pane' \in Panes /\ pane'.deleting = pane.deleting
    BY <1>6, <2>2, <2>3, <2>4 DEF Type
  <2> QED BY <1>3, <2>1, <2>5
<1>7. ASSUME AskDelete PROVE BaseInv'
  <2>1. PICK a \in Listing : a.id # 1 /\ pane' = [pane EXCEPT !.deleting = a.id]
    BY <1>7 DEF AskDelete
  <2>2. a.id \in 0 .. MaxId
    BY ListingFacts, Bounds DEF Ids
  <2>3. page = "dashboard" /\ UNCHANGED vars /\ UNCHANGED haste /\ pane.tab = "list"
    BY <1>7 DEF AskDelete, AtPane
  <2>4. pane' \in Panes /\ pane'.deleting # 1 /\ pane'.tab = "list"
    BY <1>1, <2>1, <2>2, <2>3 DEF Panes
  <2> QED BY <1>3, <2>3, <2>4
<1>8. ASSUME CancelDelete PROVE BaseInv'
  <2>1. UNCHANGED vars /\ UNCHANGED haste /\ pane' = [pane EXCEPT !.deleting = 0]
    BY <1>8 DEF CancelDelete
  <2>2. pane' \in Panes /\ pane'.deleting = 0
    BY <1>1, <2>1, CancelledFacts
  <2>3. CASE page = "dashboard"
    BY <1>3, <2>1, <2>2, <2>3
  <2>4. CASE page # "dashboard"
    <3>1. /\ UNCHANGED serverVars /\ stored' = stored /\ token' = token /\ page' = page /\ accounts' \in Seq(Row)
          /\ claimed' \in {"unknown", "yes", "no"} /\ loading' \in BOOLEAN /\ notes' \subseteq {"network"}
          /\ IsCalls(calls') /\ calls' = calls /\ haste' \in 0 .. MaxHaste
      BY <2>1, BaseFacts DEF vars
    <3>2. \A c \in Slots : \/ calls'[c] = None
                           \/ calls[c] # None /\ Same(calls'[c], calls[c])
                           \/ CallInv(calls'[c]) /\ page # "notfound"
      BY <3>1 DEF Same
    <3> QED BY <2>2, <3>1, <3>2, StayStep
  <2> QED BY <2>3, <2>4
<1> QED BY <1>2, <1>4, <1>5, <1>6, <1>7, <1>8

(* The requests of the pane; which it is, and the pane. *)
LEMMA SaveFacts ==
  ASSUME BaseInv, Save \/ ConfirmDelete
  PROVE  \E call \in CallType :
           /\ call.kind \in Changes /\ call.tok = token /\ call.here /\ call.status = "sent"
           /\ CallInv(call) /\ calls' = Add(calls, call) /\ Waited /\ pane' = pane
           /\ UNCHANGED <<serverVars, stored, token, accounts, page, claimed, loading, notes>>
           /\ call.kind = "delete" => pane.deleting # 0 /\ call.id = pane.deleting
           /\ call.kind # "delete" =>
                /\ page = "dashboard" /\ pane.tab = "edit" /\ call.name = pane.name /\ call.id = pane.id
                /\ call.kind = "create" <=> pane.id = 0
                /\ call.kind = "reissue" <=> pane.id # 0 /\ pane.id = Own
<1>1. pane \in Panes
  BY BaseFacts
<1>2. ASSUME Save PROVE
        \E kind \in {"create", "update", "reissue"} :
           /\ Ask(kind) /\ pane' = pane /\ page = "dashboard" /\ pane.tab = "edit" /\ pane.name \in Names
           /\ kind = "create" <=> pane.id = 0
           /\ kind = "reissue" <=> pane.id # 0 /\ pane.id = Own
  <2>1. pane.name \in Names
    BY <1>1, <1>2 DEF Save, CanSave, Panes
  <2>2. page = "dashboard" /\ pane.tab = "edit" /\ pane' = pane
    BY <1>2 DEF Save, AtPane
  <2>3. PICK kind \in {"create", "update", "reissue"} :
          /\ kind = CASE pane.id = 0 -> "create"
                      [] pane.id # 0 /\ pane.id = issued[token].id -> "reissue"
                      [] OTHER -> "update"
    OBVIOUS
  <2>4. Ask(kind)
    BY <1>2, <2>3 DEF Save
  <2>5. (kind = "create" <=> pane.id = 0) /\ (kind = "reissue" <=> pane.id # 0 /\ pane.id = Own)
    BY <2>3 DEF Own
  <2> QED BY <2>1, <2>2, <2>4, <2>5
<1>3. CASE Save
  <2>1. PICK kind \in {"create", "update", "reissue"} :
           /\ Ask(kind) /\ pane' = pane /\ page = "dashboard" /\ pane.tab = "edit" /\ pane.name \in Names
           /\ kind = "create" <=> pane.id = 0
           /\ kind = "reissue" <=> pane.id # 0 /\ pane.id = Own
    BY <1>2, <1>3
  <2>2. kind \in Changes /\ (kind # "delete" => pane.name \in Names) /\ (kind \in {"update", "reissue"} => pane.id # 0)
        /\ (kind = "delete" => pane.deleting # 0) /\ kind # "delete"
    BY <2>1 DEF Changes
  <2>3. \E call \in CallType :
           /\ call.kind = kind /\ call.tok = token /\ call.here /\ call.status = "sent"
           /\ call.id = IF kind = "delete" THEN pane.deleting ELSE pane.id
           /\ kind # "delete" => call.name = pane.name
           /\ CallInv(call) /\ calls' = Add(calls, call)
    BY <2>1, <2>2, AskFacts
  <2>4. Waited /\ UNCHANGED <<serverVars, stored, token, accounts, page, claimed, loading, notes>>
    BY <2>1 DEF Ask
  <2> QED BY <2>1, <2>2, <2>3, <2>4
<1>4. CASE ConfirmDelete
  <2>1. PICK kind \in Changes : kind = "delete"
    BY DEF Changes
  <2>2. Ask(kind) /\ pane' = pane /\ pane.deleting # 0
    BY <1>4, <2>1 DEF ConfirmDelete
  <2>3. \E call \in CallType :
           /\ call.kind = kind /\ call.tok = token /\ call.here /\ call.status = "sent"
           /\ call.id = IF kind = "delete" THEN pane.deleting ELSE pane.id
           /\ kind # "delete" => call.name = pane.name
           /\ CallInv(call) /\ calls' = Add(calls, call)
    <3>1. (kind # "delete" => pane.name \in Names) /\ (kind \in {"update", "reissue"} => pane.id # 0)
          /\ (kind = "delete" => pane.deleting # 0)
      BY <2>1, <2>2
    <3> QED BY <2>2, <3>1, AskFacts
  <2>4. Waited /\ UNCHANGED <<serverVars, stored, token, accounts, page, claimed, loading, notes>>
    BY <2>2 DEF Ask
  <2> QED BY <2>1, <2>2, <2>3, <2>4
<1> QED BY <1>3, <1>4

(* So does a click that asks the server for a change. *)
LEMMA SaveBase == ASSUME BaseInv, Save \/ ConfirmDelete PROVE BaseInv'
<1>1. \E call \in CallType :
           /\ call.kind \in Changes /\ call.tok = token /\ call.here /\ call.status = "sent"
           /\ CallInv(call) /\ calls' = Add(calls, call) /\ Waited /\ pane' = pane
           /\ UNCHANGED <<serverVars, stored, token, accounts, page, claimed, loading, notes>>
           /\ call.kind = "delete" => pane.deleting # 0 /\ call.id = pane.deleting
           /\ call.kind # "delete" =>
                /\ page = "dashboard" /\ pane.tab = "edit" /\ call.name = pane.name /\ call.id = pane.id
                /\ call.kind = "create" <=> pane.id = 0
                /\ call.kind = "reissue" <=> pane.id # 0 /\ pane.id = Own
  BY SaveFacts
<1>2. PICK call \in CallType :
           /\ CallInv(call) /\ calls' = Add(calls, call) /\ Waited /\ pane' = pane
           /\ UNCHANGED <<serverVars, stored, token, accounts, page, claimed, loading, notes>>
           /\ call.kind = "delete" => pane.deleting # 0 /\ call.id = pane.deleting
           /\ call.kind # "delete" => page = "dashboard"
  BY <1>1
<1>3. pane' \in Panes /\ (pane'.deleting # 0 => pane'.tab = "list" /\ pane'.deleting # 1)
  BY <1>2, BaseFacts DEF BaseInv, PlaceInv
<1>4. page # "notfound"
  BY <1>2 DEF BaseInv, PlaceInv
<1> QED BY <1>2, <1>3, <1>4, PaneStep

(* The server answers, and nothing else changes. *)
LEMMA ReplyStep ==
  ASSUME BaseInv, UNCHANGED serverVars, UNCHANGED <<stored, token, accounts, page, claimed, loading, notes, pane, haste>>,
         NEW c \in InFlight, NEW status \in {"ok", "refused", "unauthorized"}, NEW data \in 0 .. MaxToken + MaxId,
         NEW list \in Seq(Row), Reply(c, status, data, list),
         status = "ok" => calls[c].kind \notin SignIns \cup {"reissue", "create"}
  PROVE  BaseInv'
<1>1. table' \in Tables /\ nextId' \in 1 .. MaxId + 1 /\ nextId' >= nextId /\ issued' = issued /\ valid' = valid
  BY BaseFacts DEF serverVars
<1>2. \A i \in Ids : i >= nextId' => table'[i] = None
  BY DEF serverVars, BaseInv, PlaceInv
<1>3. /\ calls[c].kind \in SignIns \cup {"reissue"} /\ status = "ok" => data \in 1 .. Len(issued')
      /\ calls[c].kind = "create" /\ status = "ok" => data \in Ids
  OBVIOUS
<1> QED BY <1>1, <1>2, <1>3, ServerStep

(* The requests of the session are served. *)
LEMMA ServeBase == ASSUME BaseInv, NEW c \in Slots, Serve(c), UNCHANGED <<pane, haste>> PROVE BaseInv'
<1>1. UNCHANGED <<stored, token, accounts, page, claimed, loading, notes, pane, haste>>
  BY DEF Serve
<1>2. /\ 0 \in 0 .. MaxToken + MaxId /\ 1 \in 0 .. MaxToken + MaxId
      /\ table \in Tables /\ nextId \in 1 .. MaxId + 1 /\ Len(issued) \in 0 .. MaxToken
      /\ {"ok", "refused", "unauthorized"} = {"ok", "refused", "unauthorized"}
  BY Bounds, BaseFacts
<1>3. PICK none \in Seq(Row) : none = <<>>
  <2>1. <<>> \in Seq(Row)
    OBVIOUS
  <2> QED BY <2>1
<1>4. PICK ok \in {"ok", "refused", "unauthorized"} : ok = "ok"
  OBVIOUS
<1>5. CASE ServeClaimed(c)
  <2>1. PICK data \in 0 .. MaxToken + MaxId : data = IF Present = {} THEN 0 ELSE 1
    BY <1>2
  <2>2. c \in InFlight /\ UNCHANGED serverVars /\ Reply(c, ok, data, none)
    BY <1>3, <1>4, <1>5, <2>1 DEF ServeClaimed, Asked, InFlight
  <2>3. ok = "ok" => calls[c].kind \notin SignIns \cup {"reissue", "create"}
    BY <1>5 DEF ServeClaimed, Asked, SignIns
  <2> QED BY <1>1, <2>2, <2>3, ReplyStep
<1>6. CASE ServeAuthenticate(c)
  <2>1. PICK i \in Present : Issue(i, table[i])
    BY <1>6 DEF ServeAuthenticate
  <2>2. PICK row \in Row : row = [id |-> i, name |-> table[i]]
    BY <1>2 DEF Row, Tables, Present
  <2>3. /\ Len(issued) < MaxToken /\ issued' = Append(issued, row) /\ valid' = valid \cup {Len(issued) + 1}
    BY <2>1, <2>2 DEF Issue
  <2>4. table' = table /\ nextId' = nextId /\ c \in InFlight
    BY <1>6 DEF ServeAuthenticate, Asked, InFlight
  <2>5. nextId # 1
    <3>1. i \in Ids /\ table[i] # None /\ (i >= nextId => table[i] = None)
      BY DEF Present, BaseInv, PlaceInv
    <3> QED BY <3>1 DEF Ids
  <2>6. PICK data \in 0 .. MaxToken + MaxId : data = Len(issued) + 1
    BY <1>2, <2>3, Bounds
  <2>7. data \in 1 .. Len(issued')
    <3>1. PICK R : R = Row
      OBVIOUS
    <3>2. issued \in Seq(R)
      BY <3>1, BaseFacts
    <3>3. Len(issued') = Len(issued) + 1
      BY <2>2, <2>3, <3>1, <3>2
    <3> QED BY <1>2, <2>6, <3>3
  <2>8. Reply(c, ok, data, none)
    BY <1>3, <1>4, <1>6, <2>6 DEF ServeAuthenticate
  <2>9. /\ table' \in Tables /\ nextId' \in 1 .. MaxId + 1 /\ nextId' >= nextId /\ nextId' # 1
        /\ \A j \in Ids : j >= nextId' => table'[j] = None
    BY <1>2, <2>4, <2>5 DEF BaseInv, PlaceInv
  <2>10. \/ issued' = issued /\ valid' = valid
         \/ \E r \in Row : /\ Len(issued) < MaxToken /\ issued' = Append(issued, r)
                           /\ valid' = valid \cup {Len(issued) + 1} /\ nextId' # 1
    BY <2>2, <2>3, <2>9
  <2>11. /\ calls[c].kind \in SignIns \cup {"reissue"} /\ ok = "ok" => data \in 1 .. Len(issued')
         /\ calls[c].kind = "create" /\ ok = "ok" => data \in Ids
    BY <1>6, <2>7 DEF ServeAuthenticate, Asked
  <2>12. \A j \in Ids : j >= nextId' => table'[j] = None
    BY <2>9
  <2> QED BY <1>1, <2>4, <2>8, <2>9, <2>10, <2>11, <2>12, ServerStep
<1>7. CASE ServeClaim(c)
  <2>1. calls[c].name \in Names /\ c \in InFlight /\ nextId = 1
    BY <1>7 DEF ServeClaim, Asked, InFlight, BaseInv, CallInv, SignIns
  <2>2. 1 \in Ids /\ 2 \in 1 .. MaxId + 1
    BY Bounds DEF Ids
  <2>3. PICK row \in Row : row = [id |-> 1, name |-> calls[c].name]
    BY <2>1, <2>2 DEF Row
  <2>4. /\ Len(issued) < MaxToken /\ issued' = Append(issued, row) /\ valid' = valid \cup {Len(issued) + 1}
        /\ table' = [table EXCEPT ![1] = calls[c].name] /\ nextId' = 2
    BY <1>7, <2>3 DEF ServeClaim, Issue
  <2>5. issued = <<>>
    BY <2>1 DEF BaseInv, PlaceInv
  <2>6. PICK data \in 0 .. MaxToken + MaxId : data = 1
    BY <1>2
  <2>7. data \in 1 .. Len(issued')
    <3>1. PICK R : R = Row
      OBVIOUS
    <3>2. issued \in Seq(R)
      BY <3>1, BaseFacts
    <3>3. Len(issued') = Len(issued) + 1
      BY <2>3, <2>4, <3>1, <3>2
    <3> QED BY <1>2, <2>6, <3>3
  <2>8. Reply(c, ok, data, none)
    BY <1>3, <1>4, <1>7, <2>6 DEF ServeClaim
  <2>9. table' \in Tables /\ nextId' \in 1 .. MaxId + 1 /\ nextId' >= nextId /\ nextId' # 1
    BY <1>2, <2>1, <2>2, <2>4 DEF Tables
  <2>10. \A j \in Ids : j >= nextId' => table'[j] = None
    BY <1>2, <2>1, <2>4 DEF BaseInv, PlaceInv, Tables, Ids
  <2>11. \/ issued' = issued /\ valid' = valid
         \/ \E r \in Row : /\ Len(issued) < MaxToken /\ issued' = Append(issued, r)
                           /\ valid' = valid \cup {Len(issued) + 1} /\ nextId' # 1
    BY <2>3, <2>4, <2>9
  <2>12. /\ calls[c].kind \in SignIns \cup {"reissue"} /\ ok = "ok" => data \in 1 .. Len(issued')
         /\ calls[c].kind = "create" /\ ok = "ok" => data \in Ids
    BY <1>7, <2>7 DEF ServeClaim, Asked
  <2> QED BY <1>1, <2>1, <2>8, <2>9, <2>10, <2>11, <2>12, ServerStep
<1>8. CASE ServeLoad(c)
  <2>1. PICK list \in Seq(Row) : list = IF IsRoot(calls[c].tok) THEN Listed ELSE <<>>
    BY <1>3, ListedFacts
  <2>2. PICK data \in 0 .. MaxToken + MaxId : data = 0
    BY <1>2
  <2>3. c \in InFlight /\ UNCHANGED serverVars /\ Reply(c, ok, data, list)
    BY <1>4, <1>8, <2>1, <2>2 DEF ServeLoad, Asked, InFlight
  <2>4. ok = "ok" => calls[c].kind \notin SignIns \cup {"reissue", "create"}
    BY <1>8 DEF ServeLoad, Asked, SignIns
  <2> QED BY <1>1, <2>3, <2>4, ReplyStep
<1>9. CASE ServeUnauthorized(c) \/ ServeRefused(c)
  <2>1. PICK status \in {"ok", "refused", "unauthorized"} :
          status # "ok" /\ c \in InFlight /\ UNCHANGED serverVars /\ Reply(c, status, 0, <<>>)
    BY <1>9 DEF ServeUnauthorized, ServeRefused, Asked, InFlight
  <2>2. PICK data \in 0 .. MaxToken + MaxId : data = 0
    BY <1>2
  <2>3. Reply(c, status, data, none)
    BY <1>3, <2>1, <2>2
  <2> QED BY <1>1, <2>1, <2>3, ReplyStep
<1> QED BY <1>5, <1>6, <1>7, <1>8, <1>9 DEF Serve

(* The requests of the pane are served. *)
LEMMA ServeChangeBase == ASSUME BaseInv, NEW c \in Slots, ServeChange(c) PROVE BaseInv'
<1>1. UNCHANGED <<stored, token, accounts, page, claimed, loading, notes, pane, haste>>
  BY DEF ServeChange
<1>2. /\ 0 \in 0 .. MaxToken + MaxId
      /\ table \in Tables /\ nextId \in 1 .. MaxId + 1 /\ Len(issued) \in 0 .. MaxToken
  BY Bounds, BaseFacts
<1>3. PICK none \in Seq(Row) : none = <<>>
  <2>1. <<>> \in Seq(Row)
    OBVIOUS
  <2> QED BY <2>1
<1>4. PICK ok \in {"ok", "refused", "unauthorized"} : ok = "ok"
  OBVIOUS
<1>5. PICK zero \in 0 .. MaxToken + MaxId : zero = 0
  BY <1>2
<1>6. \A i \in Ids : i >= nextId => table[i] = None
  BY DEF BaseInv, PlaceInv
<1>7. CASE ServeCreate(c)
  <2>1. calls[c].name \in Names /\ c \in InFlight /\ nextId \in Ids /\ calls[c].kind = "create"
    BY <1>7 DEF ServeCreate, Asked, InFlight, BaseInv, CallInv, SignIns
  <2>2. /\ table' = [table EXCEPT ![nextId] = calls[c].name] /\ nextId' = nextId + 1
        /\ issued' = issued /\ valid' = valid
    BY <1>7 DEF ServeCreate
  <2>3. PICK data \in 0 .. MaxToken + MaxId : data = nextId
    BY <1>2, <2>1, Bounds DEF Ids
  <2>4. Reply(c, ok, data, none)
    BY <1>3, <1>4, <1>7, <2>3 DEF ServeCreate
  <2>5. table' \in Tables /\ nextId' \in 1 .. MaxId + 1 /\ nextId' >= nextId
    BY <1>2, <2>1, <2>2, Bounds DEF Tables, Ids
  <2>6. \A i \in Ids : i >= nextId' => table'[i] = None
    BY <1>2, <1>6, <2>1, <2>2 DEF Tables, Ids
  <2>7. /\ calls[c].kind \in SignIns \cup {"reissue"} /\ ok = "ok" => data \in 1 .. Len(issued')
        /\ calls[c].kind = "create" /\ ok = "ok" => data \in Ids
    BY <2>1, <2>3 DEF SignIns
  <2> QED BY <1>1, <2>1, <2>2, <2>4, <2>5, <2>6, <2>7, ServerStep
<1>8. CASE ServeUpdate(c)
  <2>1. /\ calls[c].name \in Names /\ c \in InFlight /\ calls[c].id \in Ids
        /\ calls[c].kind \in {"update", "reissue"}
    BY <1>8 DEF ServeUpdate, Asked, InFlight, BaseInv, CallInv, SignIns
  <2>2. /\ table' = IF calls[c].id \in Present THEN [table EXCEPT ![calls[c].id] = calls[c].name] ELSE table
        /\ nextId' = nextId
    BY <1>8 DEF ServeUpdate
  <2>3. table' \in Tables /\ nextId' \in 1 .. MaxId + 1 /\ nextId' >= nextId
    BY <1>2, <2>1, <2>2 DEF Tables
  <2>4. \A i \in Ids : i >= nextId' => table'[i] = None
    BY <1>2, <1>6, <2>1, <2>2 DEF Tables, Present
  <2>5. CASE calls[c].kind = "reissue" /\ calls[c].id \in Present
    <3>1. Issue(calls[c].id, calls[c].name) /\ Reply(c, "ok", Len(issued) + 1, <<>>)
      BY <1>8, <2>5 DEF ServeUpdate
    <3>2. PICK row \in Row : row = [id |-> calls[c].id, name |-> calls[c].name]
      BY <2>1 DEF Row
    <3>3. Len(issued) < MaxToken /\ issued' = Append(issued, row) /\ valid' = valid \cup {Len(issued) + 1}
      BY <3>1, <3>2 DEF Issue
    <3>4. nextId # 1
      BY <1>6, <2>5 DEF Present, Ids
    <3>5. PICK data \in 0 .. MaxToken + MaxId : data = Len(issued) + 1
      BY <1>2, <3>3, Bounds
    <3>6. data \in 1 .. Len(issued')
      <4>1. PICK R : R = Row
        OBVIOUS
      <4>2. issued \in Seq(R)
        BY <4>1, BaseFacts
      <4>3. Len(issued') = Len(issued) + 1
        BY <3>2, <3>3, <4>1, <4>2
      <4> QED BY <1>2, <3>5, <4>3
    <3>7. Reply(c, ok, data, none)
      BY <1>3, <1>4, <3>1, <3>5
    <3>8. \/ issued' = issued /\ valid' = valid
          \/ \E r \in Row : /\ Len(issued) < MaxToken /\ issued' = Append(issued, r)
                            /\ valid' = valid \cup {Len(issued) + 1} /\ nextId' # 1
      BY <2>2, <3>2, <3>3, <3>4
    <3>9. /\ calls[c].kind \in SignIns \cup {"reissue"} /\ ok = "ok" => data \in 1 .. Len(issued')
          /\ calls[c].kind = "create" /\ ok = "ok" => data \in Ids
      BY <2>5, <3>6
    <3> QED BY <1>1, <2>1, <2>3, <2>4, <3>7, <3>8, <3>9, ServerStep
  <2>6. CASE ~ (calls[c].kind = "reissue" /\ calls[c].id \in Present)
    <3>1. /\ Reply(c, IF calls[c].kind = "reissue" THEN "refused" ELSE "ok", 0, <<>>)
          /\ issued' = issued /\ valid' = valid
      BY <1>8, <2>6 DEF ServeUpdate
    <3>2. PICK status \in {"ok", "refused", "unauthorized"} :
            status = IF calls[c].kind = "reissue" THEN "refused" ELSE "ok"
      OBVIOUS
    <3>3. Reply(c, status, zero, none)
      BY <1>3, <1>5, <3>1, <3>2
    <3>4. /\ calls[c].kind \in SignIns \cup {"reissue"} /\ status = "ok" => zero \in 1 .. Len(issued')
          /\ calls[c].kind = "create" /\ status = "ok" => zero \in Ids
      BY <2>1, <3>2 DEF SignIns
    <3> QED BY <1>1, <2>1, <2>3, <2>4, <3>1, <3>3, <3>4, ServerStep
  <2> QED BY <2>5, <2>6
<1>9. CASE ServeDelete(c)
  <2>1. c \in InFlight /\ calls[c].id \in Ids /\ calls[c].kind = "delete"
    BY <1>9 DEF ServeDelete, Asked, InFlight, BaseInv, CallInv
  <2>2. /\ table' = IF calls[c].id = 1 THEN table ELSE [table EXCEPT ![calls[c].id] = None]
        /\ nextId' = nextId /\ issued' = issued /\ valid' = valid
    BY <1>9 DEF ServeDelete
  <2>3. Reply(c, ok, zero, none)
    BY <1>3, <1>4, <1>5, <1>9 DEF ServeDelete
  <2>4. table' \in Tables /\ nextId' \in 1 .. MaxId + 1 /\ nextId' >= nextId
    BY <1>2, <2>1, <2>2 DEF Tables
  <2>5. \A i \in Ids : i >= nextId' => table'[i] = None
    BY <1>2, <1>6, <2>1, <2>2 DEF Tables
  <2>6. /\ calls[c].kind \in SignIns \cup {"reissue"} /\ ok = "ok" => zero \in 1 .. Len(issued')
        /\ calls[c].kind = "create" /\ ok = "ok" => zero \in Ids
    BY <2>1 DEF SignIns
  <2> QED BY <1>1, <2>1, <2>2, <2>3, <2>4, <2>5, <2>6, ServerStep
<1>10. CASE ServeForbidden(c)
  <2>1. PICK status \in {"ok", "refused", "unauthorized"} : status = "unauthorized"
    OBVIOUS
  <2>2. c \in InFlight /\ UNCHANGED serverVars /\ Reply(c, status, zero, none)
    BY <1>3, <1>5, <1>10, <2>1 DEF ServeForbidden, Asked, InFlight
  <2> QED BY <1>1, <2>1, <2>2, ReplyStep
<1> QED BY <1>7, <1>8, <1>9, <1>10 DEF ServeChange

(* A request ends, the others go on. *)
LEMMA EndedFacts ==
  ASSUME BaseInv, NEW c \in Slots
  PROVE  /\ IsCalls(Without(c))
         /\ \A d \in Slots : Without(c)[d] = IF d = c THEN None ELSE calls[d]
         /\ \A d \in Slots : Without(c)[d] = None \/ (calls[d] # None /\ Same(Without(c)[d], calls[d]))
<1>1. IsCalls(calls)
  BY BaseFacts
<1>2. IsCalls(Without(c)) /\ \A d \in Slots : Without(c)[d] = IF d = c THEN None ELSE calls[d]
  BY <1>1, WithoutFacts
<1>3. \A d \in Slots : Same(calls[d], calls[d])
  BY DEF Same
<1> QED BY <1>2, <1>3

(* An answer that leaves the page as it is. *)
LEMMA EndStep ==
  ASSUME BaseInv, NEW c \in InFlight, calls' = Without(c), UNCHANGED <<serverVars, stored, token, page>>,
         accounts' \in Seq(Row), claimed' \in {"unknown", "yes", "no"}, loading' \in BOOLEAN,
         notes' \subseteq {"network"}, haste' \in 0 .. MaxHaste,
         pane' \in Panes, pane'.deleting # 0 => pane'.tab = pane.tab /\ pane'.deleting = pane.deleting
  PROVE  BaseInv'
<1>1. c \in Slots /\ page # "notfound"
  BY DEF InFlight, BaseInv, PlaceInv
<1>2. /\ IsCalls(Without(c))
      /\ \A d \in Slots : Without(c)[d] = None \/ (calls[d] # None /\ Same(Without(c)[d], calls[d]))
  BY <1>1, EndedFacts
<1>3. /\ IsCalls(calls')
      /\ \A d \in Slots : \/ calls'[d] = None
                          \/ calls[d] # None /\ Same(calls'[d], calls[d])
                          \/ CallInv(calls'[d]) /\ page # "notfound"
  BY <1>2
<1>4. pane'.deleting # 0 => pane'.tab = "list" /\ pane'.deleting # 1 /\ page # "notfound"
  BY <1>1 DEF BaseInv, PlaceInv
<1>5. UNCHANGED serverVars /\ stored' = stored /\ token' = token /\ page' = page
  OBVIOUS
<1> QED BY <1>3, <1>4, <1>5, StayStep

(* What an answer of the server to the session does. *)
LEMMA SessionAnswerBase == ASSUME BaseInv, NEW c \in Slots, SessionAnswer(c) PROVE BaseInv'
<1>1. /\ pane \in Panes /\ haste \in 0 .. MaxHaste /\ accounts \in Seq(Row) /\ claimed \in {"unknown", "yes", "no"}
      /\ loading \in BOOLEAN /\ notes \subseteq {"network"} /\ Len(issued) \in Nat
  BY BaseFacts
<1>2. /\ IsCalls(Without(c))
      /\ \A d \in Slots : Without(c)[d] = IF d = c THEN None ELSE calls[d]
      /\ \A d \in Slots : Without(c)[d] = None \/ (calls[d] # None /\ Same(Without(c)[d], calls[d]))
  BY EndedFacts
<1>3. Confused => haste' \in 0 .. MaxHaste
  BY <1>1, ConfusedFacts
<1>4. <<>> \in Seq(Row)
  OBVIOUS
<1>5. CASE (AnswerClaimed(c) \/ AnswerSignInRefused(c)) /\ UNCHANGED <<pane, haste>>
  <2>1. c \in InFlight /\ calls' = Without(c) /\ UNCHANGED <<serverVars, stored, token, page>>
    BY <1>5 DEF AnswerClaimed, AnswerSignInRefused, Answered, InFlight
  <2>2. /\ accounts' \in Seq(Row) /\ claimed' \in {"unknown", "yes", "no"} /\ loading' \in BOOLEAN
        /\ notes' \subseteq {"network"} /\ haste' \in 0 .. MaxHaste /\ pane' \in Panes /\ pane' = pane
    BY <1>1, <1>5 DEF AnswerClaimed, AnswerSignInRefused, load
  <2>3. pane'.deleting # 0 => pane'.tab = pane.tab /\ pane'.deleting = pane.deleting
    BY <2>2
  <2> QED BY <2>1, <2>2, <2>3, EndStep
<1>6. CASE /\ AnswerLoad(c) /\ pane' = (IF Ok(c) THEN Closed ELSE pane)
           /\ IF Ok(c) THEN UNCHANGED haste ELSE Confused
  <2>1. c \in InFlight /\ UNCHANGED <<serverVars, stored, token, page>> /\ calls[c] \in CallType
    BY <1>6, BaseFacts DEF AnswerLoad, Answered, InFlight
  <2>2. /\ accounts' \in Seq(Row) /\ claimed' \in {"unknown", "yes", "no"} /\ loading' \in BOOLEAN
        /\ notes' \subseteq {"network"} /\ haste' \in 0 .. MaxHaste
    BY <1>1, <1>3, <1>6, <2>1 DEF AnswerLoad, resetAccounts, load, CallType, Row
  <2>3. pane' \in Panes /\ (pane'.deleting # 0 => pane' = pane)
    BY <1>1, <1>6, ClosedFacts
  <2>4. CASE ~ Ok(c)
    <3>1. calls' = Without(c)
      BY <1>6, <2>4 DEF AnswerLoad
    <3>2. pane'.deleting # 0 => pane'.tab = pane.tab /\ pane'.deleting = pane.deleting
      BY <2>3
    <3> QED BY <2>1, <2>2, <2>3, <3>1, <3>2, EndStep
  <2>5. CASE Ok(c)
    <3>1. calls' = Orphaned(Without(c), Changes)
      BY <1>6, <2>5 DEF AnswerLoad
    <3>2. PICK left : left = Without(c)
      OBVIOUS
    <3>3. /\ IsCalls(Orphaned(left, Changes))
          /\ \A d \in Slots : /\ left[d] = None => Orphaned(left, Changes)[d] = None
                              /\ left[d] # None => Same(Orphaned(left, Changes)[d], left[d])
      BY <1>2, <3>2, OrphanedFacts
    <3>4. /\ IsCalls(calls')
          /\ \A d \in Slots : \/ calls'[d] = None
                              \/ calls[d] # None /\ Same(calls'[d], calls[d])
                              \/ CallInv(calls'[d]) /\ page # "notfound"
      BY <1>2, <3>1, <3>2, <3>3 DEF Same
    <3>5. pane'.deleting # 0 => pane'.tab = "list" /\ pane'.deleting # 1 /\ page # "notfound"
      BY <2>3 DEF BaseInv, PlaceInv
    <3>6. UNCHANGED serverVars /\ stored' = stored /\ token' = token /\ page' = page
      BY <2>1
    <3> QED BY <2>2, <2>3, <3>4, <3>5, <3>6, StayStep
  <2> QED BY <2>4, <2>5
<1>7. CASE (AnswerSignIn(c) \/ AnswerUnauthorized(c)) /\ pane' = PaneAt(page', token') /\ UNCHANGED haste
  <2>1. c \in InFlight
    BY <1>7 DEF AnswerSignIn, AnswerUnauthorized, Answered, InFlight
  <2>2. \E pg \in Pages \ {"notfound"}, tok \in 0 .. Len(issued) :
          /\ pg = "login" <=> tok = 0
          /\ Navigate(pg, Without(c), tok) /\ stored' = tok /\ token' = tok
          /\ accounts' \in Seq(Row) /\ loading' \in BOOLEAN /\ notes' \subseteq {"network"}
    <3>1. CASE AnswerSignIn(c)
      <4>1. calls[c].data \in 1 .. Len(issued)
        BY <2>1, <3>1 DEF AnswerSignIn, Answered, Ok, BaseInv, CallInv, SignIns
      <4>2. /\ Navigate("dashboard", Without(c), calls[c].data) /\ stored' = calls[c].data /\ token' = calls[c].data
            /\ accounts' \in Seq(Row) /\ loading' \in BOOLEAN /\ notes' \subseteq {"network"}
        BY <1>1, <3>1 DEF AnswerSignIn, login
      <4>3. "dashboard" \in Pages \ {"notfound"} /\ calls[c].data \in 0 .. Len(issued) /\ calls[c].data # 0
        BY <1>1, <4>1 DEF Pages
      <4> QED BY <4>2, <4>3
    <3>2. CASE AnswerUnauthorized(c)
      <4>1. /\ Navigate("login", Without(c), 0) /\ stored' = 0 /\ token' = 0
            /\ accounts' \in Seq(Row) /\ loading' \in BOOLEAN /\ notes' \subseteq {"network"}
        BY <1>1, <1>4, <3>2 DEF AnswerUnauthorized, logout, load
      <4>2. "login" \in Pages \ {"notfound"} /\ 0 \in 0 .. Len(issued)
        BY <1>1 DEF Pages
      <4> QED BY <4>1, <4>2
    <3> QED BY <1>7, <3>1, <3>2
  <2>3. PICK pg \in Pages \ {"notfound"}, tok \in 0 .. Len(issued) :
          /\ pg = "login" <=> tok = 0
          /\ Navigate(pg, Without(c), tok) /\ stored' = tok /\ token' = tok
          /\ accounts' \in Seq(Row) /\ loading' \in BOOLEAN /\ notes' \subseteq {"network"}
    BY <2>2
  <2>4. UNCHANGED serverVars /\ haste' \in 0 .. MaxHaste
    BY <1>1, <1>7 DEF AnswerSignIn, AnswerUnauthorized
  <2>5. page' = pg /\ pg \in Pages /\ (pg = "dashboard" => tok # 0)
    BY <2>3 DEF Navigate
  <2>6. pane' = PaneAt(pg, tok)
    BY <1>7, <2>3, <2>5
  <2>7. PaneAt(pg, tok) \in Panes /\ (PaneAt(pg, tok).deleting # 0 => PaneAt(pg, tok) = pane)
    BY <2>5, PaneAtFacts
  <2>8. pane' \in Panes /\ (pane'.deleting # 0 => pane'.tab = "list" /\ pane'.deleting # 1)
    BY <2>6, <2>7 DEF BaseInv, PlaceInv
  <2>9. PICK cs : cs = Without(c)
    OBVIOUS
  <2>10. IsCalls(cs) /\ (\A d \in Slots : cs[d] = None \/ (calls[d] # None /\ Same(cs[d], calls[d])))
         /\ Navigate(pg, cs, tok)
    BY <1>2, <2>3, <2>9
  <2> QED BY <2>3, <2>4, <2>8, <2>10, NavigateStep
<1> QED BY <1>5, <1>6, <1>7 DEF SessionAnswer

(* What an answer to the pane does. *)
LEMMA ChangeAnswerBase == ASSUME BaseInv, NEW c \in Slots, AnswerChange(c) PROVE BaseInv'
<1>1. /\ pane \in Panes /\ haste \in 0 .. MaxHaste /\ accounts \in Seq(Row) /\ claimed \in {"unknown", "yes", "no"}
      /\ loading \in BOOLEAN /\ notes \subseteq {"network"} /\ Len(issued) \in Nat /\ page \in Pages
      /\ token \in 0 .. Len(issued) /\ (page = "login" <=> token = 0)
  BY BaseFacts
<1>2. c \in InFlight
  BY DEF AnswerChange, AnswerCreate, AnswerUpdate, AnswerReissue, AnswerDelete, AnswerChangeRefused, Answered, InFlight
<1>3. Saved(c) \in Panes /\ Saved(c).tab = pane.tab /\ Saved(c).deleting = pane.deleting
  BY <1>1, SavedFacts
<1>4. CallInv(calls[c])
  BY <1>2 DEF BaseInv
<1>5. LET p == [pane EXCEPT !.deleting = 0] IN p \in Panes /\ p.deleting = 0
  BY <1>1, CancelledFacts
<1>6. CASE AnswerCreate(c)
  <2>1. calls[c].data \in Ids /\ calls[c].name \in Names
    BY <1>4, <1>6 DEF AnswerCreate, Answered, Ok, CallInv
  <2>2. createAction([id |-> calls[c].data, name |-> calls[c].name])
    BY <1>6 DEF AnswerCreate
  <2>3. accounts' \in Seq(Row)
    BY <1>1, <2>1, <2>2, CreatedList
  <2>4. /\ calls' = Without(c) /\ UNCHANGED <<serverVars, stored, token, page>> /\ pane' = Saved(c)
        /\ claimed' \in {"unknown", "yes", "no"} /\ loading' \in BOOLEAN
        /\ notes' \subseteq {"network"} /\ haste' \in 0 .. MaxHaste
    BY <1>1, <1>6 DEF AnswerCreate
  <2>5. pane' \in Panes /\ (pane'.deleting # 0 => pane'.tab = pane.tab /\ pane'.deleting = pane.deleting)
    BY <1>3, <2>4
  <2> QED BY <1>2, <2>3, <2>4, <2>5, EndStep
<1>7. CASE AnswerUpdate(c)
  <2>1. calls[c].id \in Ids /\ calls[c].name \in Names
    BY <1>4, <1>7 DEF AnswerUpdate, Answered, CallInv
  <2>2. updateAction(calls[c].id, calls[c].name)
    BY <1>7 DEF AnswerUpdate
  <2>3. accounts' \in Seq(Row)
    BY <1>1, <2>1, <2>2, UpdatedList
  <2>4. /\ calls' = Without(c) /\ UNCHANGED <<serverVars, stored, token, page>> /\ pane' = Saved(c)
        /\ claimed' \in {"unknown", "yes", "no"} /\ loading' \in BOOLEAN
        /\ notes' \subseteq {"network"} /\ haste' \in 0 .. MaxHaste
    BY <1>1, <1>7 DEF AnswerUpdate
  <2>5. pane' \in Panes /\ (pane'.deleting # 0 => pane'.tab = pane.tab /\ pane'.deleting = pane.deleting)
    BY <1>3, <2>4
  <2> QED BY <1>2, <2>3, <2>4, <2>5, EndStep
<1>8. CASE AnswerReissue(c)
  <2>1. calls[c].id \in Ids /\ calls[c].name \in Names /\ calls[c].data \in 1 .. Len(issued)
    BY <1>4, <1>8 DEF AnswerReissue, Answered, Ok, CallInv
  <2>2. updateAction(calls[c].id, calls[c].name)
    BY <1>8 DEF AnswerReissue
  <2>3. accounts' \in Seq(Row)
    BY <1>1, <2>1, <2>2, UpdatedList
  <2>4. PICK pg \in Pages \ {"notfound"} : pg = "dashboard" /\ pg = IF page = "login" THEN "dashboard" ELSE page
    BY <1>1, <1>2 DEF BaseInv, PlaceInv, Pages
  <2>5. PICK tok \in 0 .. Len(issued) : tok = calls[c].data /\ tok # 0
    BY <1>1, <2>1
  <2>6. PICK cs : cs = Without(c)
    OBVIOUS
  <2>7. IsCalls(cs) /\ (\A d \in Slots : cs[d] = None \/ (calls[d] # None /\ Same(cs[d], calls[d])))
    BY <2>6, EndedFacts
  <2>8. /\ Navigate(pg, cs, tok) /\ UNCHANGED serverVars /\ stored' = tok /\ token' = tok
        /\ loading' \in BOOLEAN /\ notes' \subseteq {"network"}
    BY <1>1, <1>8, <2>4, <2>5, <2>6 DEF AnswerReissue, login
  <2>9. page' = pg /\ pg \in Pages /\ (pg = "login" <=> tok = 0) /\ (pg = "dashboard" => tok # 0)
    BY <2>4, <2>5, <2>8 DEF Navigate
  <2>10. haste' \in 0 .. MaxHaste
    BY <1>1, <1>8, ConfusedFacts DEF AnswerReissue
  <2>11. PaneAt(pg, tok) \in Panes /\ (PaneAt(pg, tok).deleting # 0 => PaneAt(pg, tok) = pane)
    BY <2>9, PaneAtFacts
  <2>12. pane' = IF calls[c].here THEN Saved(c) ELSE PaneAt(pg, tok)
    BY <1>8, <2>5, <2>9 DEF AnswerReissue
  <2>13. pane' \in Panes /\ (pane'.deleting # 0 => pane'.tab = "list" /\ pane'.deleting # 1)
    BY <1>3, <2>11, <2>12 DEF BaseInv, PlaceInv
  <2> QED BY <2>3, <2>7, <2>8, <2>9, <2>10, <2>13, NavigateStep
<1>9. CASE AnswerDelete(c)
  <2>1. calls[c].id \in Ids
    BY <1>4, <1>9 DEF AnswerDelete, Answered, CallInv
  <2>2. deleteAction(calls[c].id)
    BY <1>9 DEF AnswerDelete
  <2>3. accounts' \in Seq(Row)
    BY <1>1, <2>1, <2>2, DeletedList
  <2>4. /\ calls' = Without(c) /\ UNCHANGED <<serverVars, stored, token, page>>
        /\ pane' = (IF calls[c].here THEN [pane EXCEPT !.deleting = 0] ELSE pane)
        /\ claimed' \in {"unknown", "yes", "no"} /\ loading' \in BOOLEAN
        /\ notes' \subseteq {"network"} /\ haste' \in 0 .. MaxHaste
    BY <1>1, <1>9 DEF AnswerDelete
  <2>5. pane' \in Panes /\ (pane'.deleting # 0 => pane'.tab = pane.tab /\ pane'.deleting = pane.deleting)
    BY <1>1, <1>5, <2>4
  <2> QED BY <1>2, <2>3, <2>4, <2>5, EndStep
<1>10. CASE AnswerChangeRefused(c)
  <2>1. /\ calls' = Without(c) /\ UNCHANGED <<serverVars, stored, token, page>> /\ pane' = pane
        /\ accounts' \in Seq(Row) /\ claimed' \in {"unknown", "yes", "no"} /\ loading' \in BOOLEAN
        /\ notes' \subseteq {"network"} /\ haste' \in 0 .. MaxHaste /\ pane' \in Panes
    BY <1>1, <1>10 DEF AnswerChangeRefused
  <2>2. pane'.deleting # 0 => pane'.tab = pane.tab /\ pane'.deleting = pane.deleting
    BY <2>1
  <2> QED BY <1>2, <2>1, <2>2, EndStep
<1> QED BY <1>6, <1>7, <1>8, <1>9, <1>10 DEF AnswerChange

(* The network fails. *)
LEMMA LoseBase == ASSUME BaseInv, NEW c \in Slots, LoseCall(c) PROVE BaseInv'
<1>1. /\ pane \in Panes /\ haste \in 0 .. MaxHaste /\ accounts \in Seq(Row) /\ claimed \in {"unknown", "yes", "no"}
      /\ loading \in BOOLEAN /\ notes \subseteq {"network"}
  BY BaseFacts
<1>2. LET p == [pane EXCEPT !.deleting = 0] IN p \in Panes /\ p.deleting = 0
  BY <1>1, CancelledFacts
<1>3. /\ c \in InFlight /\ calls' = Without(c) /\ UNCHANGED <<serverVars, stored, token, page>>
      /\ accounts' \in Seq(Row) /\ claimed' \in {"unknown", "yes", "no"} /\ loading' \in BOOLEAN
      /\ notes' \subseteq {"network"} /\ Confused
      /\ pane' = IF calls[c].kind = "delete" /\ calls[c].here THEN [pane EXCEPT !.deleting = 0] ELSE pane
  BY <1>1 DEF LoseCall, Lose, InFlight, load, send
<1>4. haste' \in 0 .. MaxHaste
  BY <1>1, <1>3, ConfusedFacts
<1>5. pane' \in Panes /\ (pane'.deleting # 0 => pane'.tab = pane.tab /\ pane'.deleting = pane.deleting)
  BY <1>1, <1>2, <1>3
<1> QED BY <1>3, <1>4, <1>5, EndStep

(* Every step keeps the types and the places. *)
LEMMA BaseStep == ASSUME BaseInv, [PaneNext]_paneVars PROVE BaseInv'
<1>1. CASE SessionStep
  BY <1>1, SessionBase
<1>2. CASE TogglePane \/ EditAccount \/ DraftAccount \/ BackToList \/ Type \/ AskDelete \/ CancelDelete
  BY <1>2, EditBase
<1>3. CASE Save \/ ConfirmDelete
  BY <1>3, SaveBase
<1>4. ASSUME NEW c \in Slots, ServeCall(c) PROVE BaseInv'
  BY <1>4, ServeBase, ServeChangeBase DEF ServeCall
<1>5. ASSUME NEW c \in Slots, AnswerCall(c) PROVE BaseInv'
  BY <1>5, SessionAnswerBase, ChangeAnswerBase DEF AnswerCall
<1>6. ASSUME NEW c \in Slots, LoseCall(c) PROVE BaseInv'
  BY <1>6, LoseBase
<1>7. CASE UNCHANGED paneVars
  <2>1. UNCHANGED <<table, nextId, issued, valid, stored, token, accounts, page, claimed, loading, notes, calls, pane, haste>>
    BY <1>7 DEF paneVars, vars, serverVars
  <2>2. SessionTypeOK' <=> SessionTypeOK
    BY <2>1 DEF SessionTypeOK
  <2>3. PaneTypeOK' <=> PaneTypeOK
    BY <2>1, <2>2 DEF PaneTypeOK
  <2>4. PlaceInv' <=> PlaceInv
    BY <2>1 DEF PlaceInv, InFlight
  <2>5. InFlight' = InFlight /\ \A c \in InFlight : CallInv(calls[c])' <=> CallInv(calls[c])
    BY <2>1 DEF InFlight, CallInv
  <2> QED BY <2>3, <2>4, <2>5 DEF BaseInv
<1> QED BY <1>1, <1>2, <1>3, <1>4, <1>5, <1>6, <1>7 DEF PaneNext

-----------------------------------------------------------------------------
(* The user who waits. *)

(* A page that mounts when nothing is in flight makes its request. *)
LEMMA MountedAlone ==
  ASSUME NEW pg \in Pages \ {"notfound"}, NEW tok, NEW cs, IsCalls(cs), \A c \in Slots : cs[c] = None
  PROVE  /\ 1 \in Slots /\ Mounted(pg, cs, tok)[1] = MountCall(pg, tok)
         /\ \A c \in Slots : c # 1 => Mounted(pg, cs, tok)[c] = None
<1>1. 1 \in Slots /\ \A c \in Slots : 1 <= c /\ c \in Nat
  BY Bounds DEF Slots
<1>2. PICK x : x = CHOOSE c \in Slots : cs[c] = None /\ \A d \in Slots : cs[d] = None => c <= d
  OBVIOUS
<1>3. x \in Slots /\ \A d \in Slots : x <= d
  BY <1>1, <1>2
<1>4. x = 1
  BY <1>1, <1>3
<1>5. PICK call : call = MountCall(pg, tok)
  OBVIOUS
<1>6. Mounted(pg, cs, tok) = [cs EXCEPT ![x] = call]
  BY <1>2, <1>5 DEF Mounted, Add
<1> QED BY <1>1, <1>4, <1>5, <1>6 DEF IsCalls

(* The request of the dashboard. *)
LEMMA LoadCall ==
  ASSUME NEW tok \in 0 .. MaxToken
  PROVE  Mounts(MountCall("dashboard", tok), "dashboard", tok)
<1>1. "load" \in AnyKind /\ 0 \in 0 .. MaxId /\ None \in Names \cup {None}
  BY Bounds DEF AnyKind
<1>2. PICK kind \in AnyKind, id \in 0 .. MaxId, name \in Names \cup {None} : kind = "load" /\ id = 0 /\ name = None
  BY <1>1
<1>3. PICK call : call = Call(kind, tok, id, name)
  OBVIOUS
<1>4. call \in CallType /\ call.kind = kind /\ call.tok = tok /\ call.status = "sent"
  BY <1>3, CallFacts
<1>5. MountCall("dashboard", tok) = call
  BY <1>2, <1>3 DEF MountCall
<1> QED BY <1>2, <1>4, <1>5 DEF Mounts

(* The dashboard when its request is in flight. *)
LEMMA TurnFacts ==
  ASSUME BaseInv, Patient, haste = 0, page = "dashboard", NEW c \in InFlight
  PROVE  /\ InFlight = {c} /\ (pane.tab = "list" => IsRoot(token))
         /\ \E old \in Tables :
              /\ NamedIn(token, old) /\ FormIn(old) /\ Made(calls[c], old)
              /\ IsRoot(token) /\ calls[c].kind # "load" => Copy(accounts, old)
<1>1. InTurn
  BY DEF Patient
<1>2. InFlight = {c} /\ (pane.tab = "list" => IsRoot(token))
  BY <1>1 DEF InTurn
<1>3. PICK old \in Tables :
        /\ NamedIn(token, old) /\ FormIn(old)
        /\ IsRoot(token) /\ (\A d \in InFlight : calls[d].kind # "load") => Copy(accounts, old)
        /\ \A d \in InFlight : Made(calls[d], old)
  BY <1>1 DEF InTurn
<1>4. Made(calls[c], old) /\ (IsRoot(token) /\ calls[c].kind # "load" => Copy(accounts, old))
  BY <1>2, <1>3
<1> QED BY <1>2, <1>3, <1>4

(* The dashboard when nothing is in flight. *)
LEMMA QuietFacts ==
  ASSUME BaseInv, Patient, haste = 0, page = "dashboard", InFlight = {}
  PROVE  /\ NamedIn(token, table) /\ FormIn(table) /\ (pane.tab = "list" => IsRoot(token))
         /\ IsRoot(token) => Copy(accounts, table)
BY DEF Patient, InTurn

(* The dashboard after a request is answered. *)
LEMMA QuietTurn ==
  ASSUME table' \in Tables, \A c \in Slots : calls'[c] = None, NamedIn(token, table)', FormIn(table)',
         IsRoot(token)' => Copy(accounts, table)', pane'.tab = "list" => IsRoot(token)'
  PROVE  InTurn'
<1>1. InFlight' = {}
  BY DEF InFlight
<1>2. PICK old \in Tables : old = table'
  OBVIOUS
<1>3. NamedIn(token, old)' /\ FormIn(old)' /\ (IsRoot(token)' => Copy(accounts, old)')
  BY <1>2 DEF NamedIn, FormIn, Copy
<1>4. old \in Tables'
  BY DEF Tables, Ids
<1> QED BY <1>1, <1>2, <1>3, <1>4 DEF InTurn

(* The dashboard that mounts. *)
LEMMA EnteredTurn ==
  ASSUME BaseInv, table' = table, issued' = issued, NEW tok \in 1 .. Len(issued), token' = tok,
         NamedIn(tok, table), 1 \in Slots, Mounts(calls'[1], "dashboard", tok),
         \A c \in Slots : c # 1 => calls'[c] = None,
         pane' = Initial(tok) \/ pane'.tab = "closed"
  PROVE  InTurn'
<1>1. InFlight' = {1} /\ Mounts(calls'[1], "dashboard", tok)
  BY Bounds DEF InFlight, Mounts
<1>2. /\ Initial(tok).tab = (IF IsRoot(tok) THEN "list" ELSE "edit")
      /\ Initial(tok).tab = "edit" => Initial(tok).id = issued[tok].id /\ Initial(tok).original = issued[tok].name
      /\ issued[tok].name \in Names
  BY InitialFacts
<1>3. IsRoot(token)' <=> IsRoot(tok)
  BY DEF IsRoot
<1>4. PICK old \in Tables : old = table'
  BY BaseFacts
<1>5. NamedIn(token, old)'
  BY <1>4 DEF NamedIn
<1>6. FormIn(old)'
  BY <1>2, <1>4, Bounds DEF FormIn, NamedIn
<1>7. calls'[1].kind = "load" /\ calls'[1].tok = tok /\ calls'[1].status = "sent"
  BY <1>1 DEF Mounts
<1>8. Made(calls[1], old)'
  BY <1>4, <1>7 DEF Made, Changes
<1>9. pane'.tab = "list" => IsRoot(token)'
  BY <1>2, <1>3
<1>10. old \in Tables'
  BY DEF Tables, Ids
<1>11. \A c \in InFlight' : Made(calls[c], old)'
  BY <1>1, <1>8
<1>12. ~ (\A c \in InFlight' : calls'[c].kind # "load")
  BY <1>1, <1>7
<1> QED BY <1>1, <1>5, <1>6, <1>9, <1>10, <1>11, <1>12 DEF InTurn

(* Beside a request of a user who waits, nobody signs in. *)
LEMMA OtherSignIns ==
  ASSUME BaseInv, Patient, haste = 0, NEW c \in InFlight
  PROVE  /\ \A d \in InFlight : d # c => calls[d].kind \notin SignIns
         /\ page # "login" => page = "dashboard" /\ calls[c].kind \notin SignIns \cup {"claimed"}
<1>1. page \in Pages /\ page # "notfound"
  BY BaseFacts DEF BaseInv, PlaceInv
<1>2. CASE page = "login"
  BY <1>2 DEF Patient, Entering
<1>3. CASE page = "dashboard"
  <2>1. InFlight = {c} /\ \E old \in Tables : Made(calls[c], old)
    BY <1>3, TurnFacts
  <2> QED BY <1>3, <2>1 DEF Made, Changes, SignIns
<1> QED BY <1>1, <1>2, <1>3 DEF Pages

(* Nobody is signing in. *)
LEMMA NoSignIns ==
  ASSUME \A c \in Slots : calls'[c] = None \/ calls'[c].kind \notin SignIns
  PROVE  Entering'
BY DEF Entering, InFlight, SignIns

(* What Patient says of the next state, page by page. *)
LEMMA PatientNext ==
  ASSUME haste' = 0 => /\ page' = "login" => Entering'
                       /\ page' = "notfound" => NamedIn(token, table)'
                       /\ page' = "dashboard" => InTurn'
  PROVE  Patient'
BY DEF Patient

(* Only what the pane and its requests do not show changes. *)
LEMMA SamePatient ==
  ASSUME BaseInv, Patient, table' = table, issued' = issued, token' = token, accounts' = accounts, page' = page,
         calls' = calls, haste' = haste, pane'.tab = pane.tab, pane'.id = pane.id, pane'.name = pane.name,
         pane'.original = pane.original
  PROVE  Patient'
<1>1. InFlight' = InFlight /\ Tables' = Tables
  BY DEF InFlight, Tables, Ids
<1>2. Entering' <=> Entering
  BY <1>1 DEF Entering, NamedIn
<1>3. IsRoot(token)' <=> IsRoot(token)
  BY DEF IsRoot
<1>4. ASSUME NEW old
      PROVE  /\ NamedIn(token, old)' <=> NamedIn(token, old)
             /\ FormIn(old)' <=> FormIn(old)
             /\ Copy(accounts, old)' <=> Copy(accounts, old)
             /\ \A c \in InFlight : Made(calls[c], old)' <=> Made(calls[c], old)
  <2>1. NamedIn(token, old)' <=> NamedIn(token, old)
    BY DEF NamedIn
  <2>2. FormIn(old)' <=> FormIn(old)
    BY DEF FormIn
  <2>3. Copy(accounts, old)' <=> Copy(accounts, old)
    BY DEF Copy
  <2>4. ASSUME NEW c \in InFlight PROVE Made(calls[c], old)' <=> Made(calls[c], old)
    <3>1. Copy(calls[c].list, table)' <=> Copy(calls[c].list, table)
      BY DEF Copy
    <3> QED BY <1>3, <3>1 DEF Made, Own
  <2> QED BY <2>1, <2>2, <2>3, <2>4
<1>5. InTurn => InTurn'
  <2> SUFFICES ASSUME InTurn PROVE InTurn'
    OBVIOUS
  <2>1. PICK old \in Tables :
       /\ NamedIn(token, old) /\ FormIn(old)
       /\ IsRoot(token) /\ (\A c \in InFlight : calls[c].kind # "load") => Copy(accounts, old)
       /\ InFlight = {} => old = table
       /\ \A c \in InFlight : Made(calls[c], old)
    BY DEF InTurn
  <2>2. \A c, d \in InFlight : c = d
    BY DEF InTurn
  <2>3. pane.tab = "list" => IsRoot(token)
    BY DEF InTurn
  <2>4. /\ NamedIn(token, old)' /\ FormIn(old)' /\ (Copy(accounts, old) => Copy(accounts, old)')
        /\ \A c \in InFlight : Made(calls[c], old)'
    BY <1>4, <2>1
  <2>5. /\ \A c, d \in InFlight' : c = d
        /\ (pane.tab = "list")' => IsRoot(token)'
    BY <1>1, <1>3, <2>2, <2>3
  <2>6. old \in Tables' /\ (InFlight' = {} => old = table') /\ \A c \in InFlight' : Made(calls[c], old)'
    BY <1>1, <2>1, <2>4
  <2>7. IsRoot(token)' /\ (\A c \in InFlight' : calls'[c].kind # "load") => Copy(accounts, old)'
    BY <1>1, <1>3, <2>1, <2>4
  <2> QED BY <2>4, <2>5, <2>6, <2>7 DEF InTurn
<1>6. NamedIn(token, table)' <=> NamedIn(token, table)
  BY DEF NamedIn
<1> QED BY <1>2, <1>5, <1>6 DEF Patient

(* A page is loaded from its address. *)
LEMMA VisitPatient ==
  ASSUME BaseInv, Patient, NEW path \in {"root", "login", "other"}, Visit(path), pane' = Closed,
         IF \E c \in InFlight : calls[c].kind \in Changes THEN Confused ELSE UNCHANGED haste
  PROVE  Patient'
<1>1. stored \in 0 .. MaxToken /\ stored \in 0 .. Len(issued) /\ stored = token /\ haste \in 0 .. MaxHaste
      /\ page \in Pages /\ (page = "login" <=> token = 0) /\ Len(issued) \in Nat
  BY BaseFacts
<1>2. PICK pg \in Pages : pg = PageOf(path, stored) /\ (pg = "login" <=> stored = 0)
  BY DEF PageOf, Private, Hidden, Pages
<1>3. /\ token' = stored /\ page' = pg /\ calls' = Mounted(pg, Idle, stored)
      /\ table' = table /\ issued' = issued
  BY <1>2 DEF Visit, serverVars
<1> SUFFICES ASSUME haste' = 0
             PROVE  /\ page' = "login" => Entering'
                    /\ page' = "notfound" => NamedIn(token, table)'
                    /\ page' = "dashboard" => InTurn'
  BY PatientNext
<1>4. haste = 0 /\ \A c \in InFlight : calls[c].kind \notin Changes
  BY <1>1, ConfusedFacts
<1>5. token # 0 => NamedIn(token, table)
  <2>1. CASE page = "dashboard" /\ InFlight = {}
    BY <1>4, <2>1, QuietFacts
  <2>2. ASSUME page = "dashboard", NEW c \in InFlight PROVE NamedIn(token, table)
    <3>1. PICK old \in Tables : NamedIn(token, old) /\ Made(calls[c], old)
      <4>1. \E old \in Tables :
              /\ NamedIn(token, old) /\ FormIn(old) /\ Made(calls[c], old)
              /\ IsRoot(token) /\ calls[c].kind # "load" => Copy(accounts, old)
        BY <1>4, <2>2, TurnFacts
      <4> QED BY <4>1
    <3>2. old = table
      BY <1>4, <3>1 DEF Made
    <3> QED BY <3>1, <3>2
  <2>3. CASE page = "notfound"
    BY <1>4, <2>3 DEF Patient
  <2> QED BY <1>1, <2>1, <2>2, <2>3 DEF Pages
<1>6. CASE pg = "notfound"
  <2>1. NamedIn(token, table)'
    BY <1>1, <1>2, <1>3, <1>5, <1>6 DEF NamedIn
  <2> QED BY <1>3, <1>6, <2>1
<1>7. IsCalls(Idle) /\ \A c \in Slots : Idle[c] = None
  BY IdleIs
<1>8. CASE pg # "notfound"
  <2>1. pg \in Pages \ {"notfound"}
    BY <1>8
  <2>2. PICK cs : cs = Idle
    OBVIOUS
  <2>3. /\ 1 \in Slots /\ Mounted(pg, cs, stored)[1] = MountCall(pg, stored)
        /\ \A c \in Slots : c # 1 => Mounted(pg, cs, stored)[c] = None
    BY <1>7, <2>1, <2>2, MountedAlone
  <2>4. 1 \in Slots /\ calls'[1] = MountCall(pg, stored) /\ \A c \in Slots : c # 1 => calls'[c] = None
    BY <1>3, <2>2, <2>3
  <2>5. CASE pg = "login"
    <3>1. MountCall(pg, stored).kind = "claimed"
      BY <2>5 DEF MountCall, Call
    <3>2. \A c \in Slots : calls'[c] = None \/ calls'[c].kind \notin SignIns
      BY <2>4, <3>1 DEF SignIns
    <3> QED BY <1>3, <2>5, <3>2, NoSignIns
  <2>6. CASE pg = "dashboard"
    <3>1. PICK tok \in 1 .. Len(issued) : tok = stored
      BY <1>1, <1>2, <2>6
    <3>2. Mounts(calls'[1], "dashboard", tok)
      BY <1>1, <2>4, <2>6, <3>1, LoadCall
    <3>4. token' = tok /\ NamedIn(tok, table) /\ pane'.tab = "closed"
      BY <1>1, <1>2, <1>3, <1>5, <2>6, <3>1, ClosedFacts
    <3>6. InTurn'
      BY <1>3, <2>4, <3>2, <3>4, EnteredTurn
    <3> QED BY <1>3, <2>6, <3>6
  <2> QED BY <1>8, <2>5, <2>6 DEF Pages
<1> QED BY <1>6, <1>8

(* The session's own steps. *)
LEMMA SessionPatient == ASSUME BaseInv, Patient, SessionStep PROVE Patient'
<1>1. /\ haste \in 0 .. MaxHaste /\ page \in Pages /\ (page = "login" <=> token = 0) /\ Len(issued) \in Nat
      /\ IsCalls(calls) /\ token \in 0 .. Len(issued) /\ token \in 0 .. MaxToken
      /\ claimed \in {"unknown", "yes", "no"}
  BY BaseFacts
<1>2. ASSUME NEW path \in {"root", "login", "other"}, Visit(path), pane' = Closed,
             IF \E c \in InFlight : calls[c].kind \in Changes THEN Confused ELSE UNCHANGED haste
      PROVE  Patient'
  BY <1>2, VisitPatient
<1>3. ASSUME NEW name \in Names, Submit(name), IF Quiet THEN haste' = 0 ELSE Confused
      PROVE  Patient'
  <2> SUFFICES ASSUME haste' = 0
               PROVE  /\ page' = "login" => Entering'
                      /\ page' = "notfound" => NamedIn(token, table)'
                      /\ page' = "dashboard" => InTurn'
    BY PatientNext
  <2>1. page' = "login"
    BY <1>3 DEF Submit, LoginShown
  <2>2. InFlight = {}
    BY <1>1, <1>3, ConfusedFacts DEF Quiet
  <2>3. \E call \in CallType :
          /\ call.kind \in SignIns /\ call.tok = 0 /\ call.name = name /\ call.status = "sent"
          /\ IsCalls(calls') /\ \E x : \A c \in Slots : calls'[c] = IF c = x THEN call ELSE calls[c]
    BY <1>3, SubmitFacts
  <2>4. PICK call, x :
        /\ call \in CallType /\ call.status = "sent"
        /\ \A c \in Slots : calls'[c] = IF c = x THEN call ELSE calls[c]
    BY <2>3
  <2>5. \A c \in Slots : calls[c] = None
    BY <2>2 DEF InFlight
  <2>6. ASSUME NEW c \in InFlight' PROVE InFlight' = {c} /\ calls'[c].status # "ok"
    <3>1. \A d \in InFlight' : d = x
      BY <2>4, <2>5 DEF InFlight
    <3>2. calls'[c] = call
      BY <2>4, <3>1 DEF InFlight
    <3> QED BY <2>4, <3>1, <3>2
  <2>7. Entering'
    BY <2>6 DEF Entering
  <2> QED BY <2>1, <2>7
<1>4. CASE Logout /\ UNCHANGED haste
  <2> SUFFICES ASSUME haste' = 0
               PROVE  /\ page' = "login" => Entering'
                      /\ page' = "notfound" => NamedIn(token, table)'
                      /\ page' = "dashboard" => InTurn'
    BY PatientNext
  <2>1. page = "dashboard" /\ page' = "login" /\ haste = 0
    BY <1>4 DEF Logout, Navigate
  <2>2. PICK pg \in Pages, tok \in 0 .. MaxToken : pg = "login" /\ tok = 0
    BY Bounds DEF Pages
  <2>3. Navigate(pg, calls, tok)
    BY <1>4, <2>2 DEF Logout
  <2>4. \E x : \A c \in Slots :
          \/ calls'[c] = None
          \/ calls[c] # None /\ Same(calls'[c], calls[c])
          \/ c = x /\ pg # "notfound" /\ pg # page /\ Mounts(calls'[c], pg, tok)
    BY <1>1, <2>3, NavigateFacts
  <2>5. \A c \in Slots : calls[c] # None => calls[c].kind \notin SignIns
    BY <2>1, OtherSignIns DEF InFlight
  <2>6. \A c \in Slots : calls'[c] = None \/ calls'[c].kind \notin SignIns
    BY <2>2, <2>4, <2>5 DEF Same, Mounts, SignIns
  <2> QED BY <2>1, <2>6, NoSignIns
<1>5. CASE Back /\ pane' = PaneAt(page', token) /\ UNCHANGED haste
  <2> SUFFICES ASSUME haste' = 0
               PROVE  /\ page' = "login" => Entering'
                      /\ page' = "notfound" => NamedIn(token, table)'
                      /\ page' = "dashboard" => InTurn'
    BY PatientNext
  <2>1. page = "notfound" /\ page' = "dashboard" /\ haste = 0 /\ table' = table /\ issued' = issued /\ token' = token
    BY <1>5 DEF Back, Navigate, serverVars
  <2>2. PICK tok \in 1 .. Len(issued) : tok = token
    BY <1>1, <2>1
  <2>3. NamedIn(tok, table)
    BY <2>1, <2>2 DEF Patient
  <2>4. \A c \in Slots : calls[c] = None
    BY <2>1 DEF BaseInv, PlaceInv, InFlight
  <2>5. PICK left : left = Orphaned(calls, AnyKind)
    OBVIOUS
  <2>6. IsCalls(left) /\ \A c \in Slots : left[c] = None
    BY <1>1, <2>4, <2>5, OrphanedFacts
  <2>7. PICK pg \in Pages \ {"notfound"} : pg = "dashboard"
    BY DEF Pages
  <2>8. calls' = Mounted(pg, left, token)
    BY <1>5, <2>1, <2>5, <2>7 DEF Back, Navigate
  <2>9. /\ 1 \in Slots /\ Mounted(pg, left, token)[1] = MountCall(pg, token)
        /\ \A c \in Slots : c # 1 => Mounted(pg, left, token)[c] = None
    BY <2>6, MountedAlone
  <2>10. 1 \in Slots /\ Mounts(calls'[1], "dashboard", tok) /\ \A c \in Slots : c # 1 => calls'[c] = None
    BY <1>1, <2>2, <2>7, <2>8, <2>9, LoadCall
  <2>11. pane' = Initial(tok) \/ pane'.tab = "closed"
    BY <1>5, <2>1, <2>2 DEF PaneAt
  <2>12. InTurn'
    BY <2>1, <2>2, <2>3, <2>10, <2>11, EnteredTurn
  <2> QED BY <2>1, <2>12
<1>6. ASSUME (\E n \in notes : Dismiss(n)) \/ (\E t \in valid : Expire(t)), UNCHANGED <<pane, haste>>
      PROVE  Patient'
  <2>1. /\ table' = table /\ issued' = issued /\ token' = token /\ accounts' = accounts /\ page' = page
        /\ calls' = calls /\ haste' = haste /\ pane' = pane
    BY <1>6 DEF Dismiss, Expire, serverVars
  <2>2. pane'.tab = pane.tab /\ pane'.id = pane.id /\ pane'.name = pane.name /\ pane'.original = pane.original
    BY <2>1
  <2> QED BY <2>1, <2>2, SamePatient
<1> QED BY <1>2, <1>3, <1>4, <1>5, <1>6 DEF SessionStep

(* A form of an account that is as the table has it. *)
LEMMA EditPatient ==
  ASSUME BaseInv, Patient, TogglePane \/ EditAccount \/ DraftAccount \/ BackToList \/ Type
  PROVE  Patient'
<1> SUFFICES ASSUME haste' = 0
             PROVE  /\ page' = "login" => Entering'
                    /\ page' = "notfound" => NamedIn(token, table)'
                    /\ page' = "dashboard" => InTurn'
  BY PatientNext
<1>1. /\ haste \in 0 .. MaxHaste /\ page \in Pages /\ (page = "login" <=> token = 0) /\ Len(issued) \in Nat
      /\ IsCalls(calls) /\ token \in 0 .. Len(issued) /\ pane \in Panes /\ table \in Tables
  BY BaseFacts
<1>2. /\ page = "dashboard" /\ Waited /\ UNCHANGED serverVars /\ token' = token /\ accounts' = accounts
      /\ page' = page /\ (calls' = calls \/ calls' = Orphaned(calls, Changes))
  BY DEF TogglePane, EditAccount, DraftAccount, BackToList, Type, AtPane, vars
<1>3. haste = 0 /\ InFlight = {}
  BY <1>1, <1>2 DEF Waited, Quiet
<1>4. /\ NamedIn(token, table) /\ FormIn(table) /\ (pane.tab = "list" => IsRoot(token))
      /\ IsRoot(token) => Copy(accounts, table)
  BY <1>2, <1>3, QuietFacts
<1>5. \A c \in Slots : calls'[c] = None
  <2>1. \A c \in Slots : calls[c] = None
    BY <1>3 DEF InFlight
  <2>2. \A c \in Slots : calls[c] = None => Orphaned(calls, Changes)[c] = None
    BY <1>1, OrphanedFacts
  <2> QED BY <1>2, <2>1, <2>2
<1>6. table' = table /\ issued' = issued /\ table' \in Tables
  BY <1>1, <1>2 DEF serverVars
<1>7. NamedIn(token, table)' /\ (IsRoot(token)' <=> IsRoot(token)) /\ (Copy(accounts, table) => Copy(accounts, table)')
  BY <1>2, <1>4, <1>6 DEF NamedIn, IsRoot, Copy
<1>8. token \in 1 .. Len(issued)
  BY <1>1, <1>2
<1>9. /\ pane'.tab = "list" => IsRoot(token)
      /\ pane'.tab = "edit" /\ pane'.id # 0 => pane'.original # None /\ table[pane'.id] = pane'.original
  <2>1. CASE TogglePane
    <3>1. /\ Initial(token).tab = (IF IsRoot(token) THEN "list" ELSE "edit")
          /\ Initial(token).tab = "edit" => Initial(token).id = issued[token].id /\ Initial(token).original = issued[token].name
          /\ issued[token].name \in Names
      BY <1>8, InitialFacts
    <3>2. pane' = Initial(token) \/ pane' = Closed
      BY <2>1 DEF TogglePane
    <3> QED BY <1>4, <3>1, <3>2, ClosedFacts, Bounds DEF NamedIn
  <2>2. CASE EditAccount
    <3>1. PICK a \in Listing : pane' = Form("edit", a.id, a.name)
      BY <2>2 DEF EditAccount
    <3>2. a.id \in 0 .. MaxId /\ a.name \in Names \cup {None} /\ a.name # None
      BY ListingFacts, Bounds DEF Ids
    <3>3. PICK p : p = Form("edit", a.id, a.name)
      OBVIOUS
    <3>4. p.tab = "edit" /\ p.id = a.id /\ p.original = a.name
      BY <3>2, <3>3, FormFacts
    <3>5. table[a.id] = a.name
      <4>1. pane.tab = "list"
        BY <2>2 DEF EditAccount, AtPane
      <4>2. Copy(accounts, table)
        BY <1>4, <4>1
      <4>3. PICK k \in 1 .. Len(accounts) : a = accounts[k]
        BY DEF Listing
      <4> QED BY <4>2, <4>3 DEF Copy
    <3> QED BY <3>1, <3>2, <3>3, <3>4, <3>5
  <2>3. CASE DraftAccount \/ BackToList
    BY <2>3, ClosedFacts DEF DraftAccount, BackToList
  <2>4. CASE Type
    <3>1. pane'.tab = pane.tab /\ pane'.id = pane.id /\ pane'.original = pane.original
      BY <1>1, <2>4 DEF Type, Panes
    <3> QED BY <1>4, <3>1 DEF FormIn
  <2> QED BY <2>1, <2>2, <2>3, <2>4
<1>10. FormIn(table)'
  BY <1>6, <1>9 DEF FormIn
<1>11. InTurn'
  BY <1>4, <1>5, <1>6, <1>7, <1>9, <1>10, QuietTurn
<1> QED BY <1>2, <1>11

(* An account is chosen to be deleted, or not. *)
LEMMA ChoosePatient == ASSUME BaseInv, Patient, AskDelete \/ CancelDelete PROVE Patient'
<1>1. pane \in Panes
  BY BaseFacts
<1>2. UNCHANGED vars /\ UNCHANGED haste /\ \E id : pane' = [pane EXCEPT !.deleting = id]
  BY DEF AskDelete, CancelDelete
<1>3. /\ table' = table /\ issued' = issued /\ token' = token /\ accounts' = accounts /\ page' = page
      /\ calls' = calls /\ haste' = haste
  BY <1>2 DEF vars, serverVars
<1>4. pane'.tab = pane.tab /\ pane'.id = pane.id /\ pane'.name = pane.name /\ pane'.original = pane.original
  BY <1>1, <1>2 DEF Panes
<1> QED BY <1>3, <1>4, SamePatient

(* A request is made when nothing else is in flight. *)
LEMMA SavePatient == ASSUME BaseInv, Patient, Save \/ ConfirmDelete PROVE Patient'
<1> SUFFICES ASSUME haste' = 0
             PROVE  /\ page' = "login" => Entering'
                    /\ page' = "notfound" => NamedIn(token, table)'
                    /\ page' = "dashboard" => InTurn'
  BY PatientNext
<1>1. \E call \in CallType :
           /\ call.kind \in Changes /\ call.tok = token /\ call.here /\ call.status = "sent"
           /\ CallInv(call) /\ calls' = Add(calls, call) /\ Waited /\ pane' = pane
           /\ UNCHANGED <<serverVars, stored, token, accounts, page, claimed, loading, notes>>
           /\ call.kind = "delete" => pane.deleting # 0 /\ call.id = pane.deleting
           /\ call.kind # "delete" =>
                /\ page = "dashboard" /\ pane.tab = "edit" /\ call.name = pane.name /\ call.id = pane.id
                /\ call.kind = "create" <=> pane.id = 0
                /\ call.kind = "reissue" <=> pane.id # 0 /\ pane.id = Own
  BY SaveFacts
<1>2. PICK call \in CallType :
           /\ call.kind \in Changes /\ call.tok = token /\ call.here /\ call.status = "sent"
           /\ CallInv(call) /\ calls' = Add(calls, call) /\ Waited /\ pane' = pane
           /\ UNCHANGED <<serverVars, stored, token, accounts, page, claimed, loading, notes>>
           /\ call.kind = "delete" => pane.deleting # 0 /\ call.id = pane.deleting
           /\ call.kind # "delete" =>
                /\ page = "dashboard" /\ pane.tab = "edit" /\ call.name = pane.name /\ call.id = pane.id
                /\ call.kind = "create" <=> pane.id = 0
                /\ call.kind = "reissue" <=> pane.id # 0 /\ pane.id = Own
  BY <1>1
<1>3. IsCalls(calls) /\ haste \in 0 .. MaxHaste /\ table \in Tables /\ page \in Pages
  BY BaseFacts
<1>4. haste = 0 /\ InFlight = {}
  BY <1>2, <1>3 DEF Waited, Quiet
<1>5. /\ IsCalls(Add(calls, call))
      /\ \E x : \A c \in Slots : Add(calls, call)[c] = IF c = x THEN call ELSE calls[c]
  BY <1>3, AddFacts
<1>6. PICK x : \A c \in Slots : calls'[c] = IF c = x THEN call ELSE calls[c]
  BY <1>2, <1>5
<1>7. \A c \in InFlight' : c = x /\ calls'[c] = call
  BY <1>4, <1>6 DEF InFlight
<1>8. page # "notfound"
  BY <1>2 DEF BaseInv, PlaceInv
<1>9. page' = page /\ table' = table /\ issued' = issued /\ token' = token /\ accounts' = accounts /\ pane' = pane
  BY <1>2 DEF serverVars
<1>10. CASE page = "login"
  <2>1. \A c \in Slots : calls'[c] = None \/ calls'[c].kind \notin SignIns
    BY <1>2, <1>7 DEF InFlight, SignIns, Changes
  <2> QED BY <1>9, <1>10, <2>1, NoSignIns
<1>11. CASE page = "dashboard"
  <2>1. /\ NamedIn(token, table) /\ FormIn(table) /\ (pane.tab = "list" => IsRoot(token))
        /\ IsRoot(token) => Copy(accounts, table)
    BY <1>4, <1>11, QuietFacts
  <2>2. PICK old \in Tables : old = table
    BY <1>3
  <2>3. /\ NamedIn(token, old)' /\ FormIn(old)' /\ (IsRoot(token)' <=> IsRoot(token))
        /\ (Copy(accounts, old) => Copy(accounts, old)')
    BY <1>9, <2>1, <2>2 DEF NamedIn, FormIn, IsRoot, Copy
  <2>4. call.kind = "delete" => pane.tab = "list" /\ call.id # 1
    BY <1>2 DEF BaseInv, PlaceInv
  <2>5. call.kind \in {"update", "reissue"} => pane.id # 0
    BY <1>2
  <2>6. /\ call.tok = token' /\ call.status = "sent" /\ old = table' /\ pane' = pane /\ Own' = Own
    BY <1>2, <1>9, <2>2 DEF Own
  <2>7. Made(call, old)'
    BY <1>2, <2>4, <2>5, <2>6 DEF Made, Changes
  <2>8. \A c \in InFlight' : Made(calls[c], old)'
    BY <1>7, <2>7
  <2>9. old \in Tables'
    BY DEF Tables, Ids
  <2>10. InTurn'
    <3>1. \A c, d \in InFlight' : c = d
      BY <1>7
    <3>2. pane'.tab = "list" => IsRoot(token)'
      BY <1>9, <2>1, <2>3
    <3>3. IsRoot(token)' => Copy(accounts, old)'
      BY <2>1, <2>2, <2>3
    <3> QED BY <2>2, <2>3, <2>6, <2>8, <2>9, <3>1, <3>2, <3>3 DEF InTurn
  <2> QED BY <1>9, <1>11, <2>10
<1> QED BY <1>3, <1>8, <1>10, <1>11 DEF Pages

(* The tokens are as they were when another is issued. *)
LEMMA IssuedFacts ==
  ASSUME BaseInv, NEW row \in Row, issued' = Append(issued, row)
  PROVE  /\ issued'[Len(issued) + 1] = row
         /\ \A tok \in 1 .. Len(issued) : issued'[tok] = issued[tok]
<1>1. PICK R : R = Row
  OBVIOUS
<1>2. issued \in Seq(R)
  BY <1>1, BaseFacts
<1> QED BY <1>1, <1>2

(* The server serves the request of the dashboard; page, token, list and form stay. *)
LEMMA ServedTurn ==
  ASSUME BaseInv, NEW c \in Slots, NEW old \in Tables, InFlight = {c}, \A d \in Slots \ {c} : calls'[d] = calls[d],
         UNCHANGED <<token, accounts, pane>>, token \in 1 .. Len(issued), issued'[token] = issued[token],
         pane.tab = "list" => IsRoot(token), NamedIn(token, old), FormIn(old), calls'[c] # None,
         IsRoot(token) /\ calls'[c].kind # "load" => Copy(accounts, old), Made(calls[c], old)'
  PROVE  InTurn'
<1>1. InFlight' = {c}
  BY DEF InFlight
<1>2. NamedIn(token, old)' /\ (IsRoot(token)' <=> IsRoot(token))
  BY DEF NamedIn, IsRoot
<1>3. FormIn(old)'
  BY DEF FormIn
<1>4. Copy(accounts, old) => Copy(accounts, old)'
  BY DEF Copy
<1>5. old \in Tables'
  BY DEF Tables, Ids
<1> QED BY <1>1, <1>2, <1>3, <1>4, <1>5 DEF InTurn

(* What a served request is. *)
LEMMA ServedFacts ==
  ASSUME BaseInv, NEW c \in InFlight, NEW status \in {"ok", "refused", "unauthorized"},
         NEW data \in 0 .. MaxToken + MaxId, NEW list \in Seq(Row), Reply(c, status, data, list)
  PROVE  /\ \A d \in Slots \ {c} : calls'[d] = calls[d]
         /\ calls'[c].kind = calls[c].kind /\ calls'[c].tok = calls[c].tok /\ calls'[c].id = calls[c].id
         /\ calls'[c].name = calls[c].name /\ calls'[c].here = calls[c].here
         /\ calls'[c].status = status /\ calls'[c].data = data /\ calls'[c].list = list
         /\ c \in Slots /\ calls'[c] # None /\ InFlight' = InFlight
<1>1. list \in Seq([id : Ids, name : Names])
  BY DEF Row
<1>2. IsCalls(calls) /\ calls[c] \in CallType /\ c \in Slots
  BY BaseFacts DEF InFlight
<1>3. status \in {"sent", "ok", "refused", "unauthorized"}
  OBVIOUS
<1>4. /\ \A d \in Slots \ {c} : calls'[d] = calls[d]
      /\ calls'[c].kind = calls[c].kind /\ calls'[c].tok = calls[c].tok /\ calls'[c].id = calls[c].id
      /\ calls'[c].name = calls[c].name /\ calls'[c].here = calls[c].here
      /\ calls'[c].status = status /\ calls'[c].data = data /\ calls'[c].list = list
      /\ calls'[c] \in CallType
  BY <1>1, <1>2, <1>3, ReplyFacts
<1>5. calls'[c] # None
  BY <1>4, Bounds
<1>6. InFlight' = InFlight
  BY <1>2, <1>4, <1>5 DEF InFlight
<1> QED BY <1>2, <1>4, <1>5, <1>6

(* A request is refused, or answered with what there is. *)
LEMMA AnsweredPatient ==
  ASSUME BaseInv, Patient, UNCHANGED serverVars,
         UNCHANGED <<stored, token, accounts, page, claimed, loading, notes, pane, haste>>,
         NEW c \in InFlight, NEW status \in {"ok", "refused", "unauthorized"},
         NEW data \in 0 .. MaxToken + MaxId, NEW list \in Seq(Row), Reply(c, status, data, list),
         calls[c].status = "sent",
         status = "ok" => \/ calls[c].kind = "claimed"
                          \/ calls[c].kind = "load" /\ (IsRoot(calls[c].tok) => Copy(list, table))
  PROVE  Patient'
<1> SUFFICES ASSUME haste' = 0
             PROVE  /\ page' = "login" => Entering'
                    /\ page' = "notfound" => NamedIn(token, table)'
                    /\ page' = "dashboard" => InTurn'
  BY PatientNext
<1>1. haste = 0 /\ page' = page /\ page # "notfound" /\ table' = table /\ issued' = issued /\ token' = token
      /\ pane' = pane /\ accounts' = accounts
  BY DEF BaseInv, PlaceInv, serverVars
<1>2. /\ \A d \in Slots \ {c} : calls'[d] = calls[d]
      /\ calls'[c].kind = calls[c].kind /\ calls'[c].tok = calls[c].tok /\ calls'[c].id = calls[c].id
      /\ calls'[c].name = calls[c].name /\ calls'[c].here = calls[c].here
      /\ calls'[c].status = status /\ calls'[c].data = data /\ calls'[c].list = list
      /\ c \in Slots /\ calls'[c] # None /\ InFlight' = InFlight
  BY ServedFacts
<1>3. CASE page = "login"
  <2>1. Entering
    BY <1>1, <1>3 DEF Patient
  <2>2. ASSUME NEW d \in InFlight', calls'[d].kind \in SignIns
        PROVE  InFlight' = {d} /\ calls'[d].status # "ok"
    <3>1. d \in InFlight /\ calls[d].kind \in SignIns /\ InFlight = {d}
      BY <1>2, <2>1, <2>2 DEF Entering, InFlight
    <3>2. d = c
      BY <3>1
    <3> QED BY <1>2, <3>1, <3>2 DEF SignIns
  <2> QED BY <1>1, <1>3, <2>2 DEF Entering
<1>4. CASE page = "dashboard"
  <2>1. /\ InFlight = {c} /\ (pane.tab = "list" => IsRoot(token))
        /\ \E old \in Tables :
             /\ NamedIn(token, old) /\ FormIn(old) /\ Made(calls[c], old)
             /\ IsRoot(token) /\ calls[c].kind # "load" => Copy(accounts, old)
    BY <1>1, <1>4, TurnFacts
  <2>2. PICK old \in Tables :
             /\ NamedIn(token, old) /\ FormIn(old) /\ Made(calls[c], old)
             /\ IsRoot(token) /\ calls[c].kind # "load" => Copy(accounts, old)
    BY <2>1
  <2>3. old = table
    BY <1>4, <2>2 DEF Made
  <2>4. token \in 1 .. Len(issued) /\ issued'[token] = issued[token]
    <3>1. token \in 0 .. Len(issued) /\ token # 0 /\ Len(issued) \in Nat
      BY <1>4, BaseFacts
    <3> QED BY <1>1, <3>1
  <2>5. status = "ok" => calls[c].kind = "load" /\ (IsRoot(token) => Copy(list, table))
    BY <2>2 DEF Made, Changes
  <2>6. Made(calls[c], old)'
    <3>1. IsRoot(token)' <=> IsRoot(token)
      BY <1>1 DEF IsRoot
    <3>2. Copy(list, table) => Copy(calls[c].list, table)'
      BY <1>1, <1>2 DEF Copy
    <3>3. Own' = Own /\ old = table'
      BY <1>1, <2>3 DEF Own
    <3>4. /\ calls'[c].kind = "load" =>
               old = table' /\ (calls'[c].status = "ok" /\ IsRoot(token)' => Copy(calls[c].list, table)')
      BY <1>2, <2>5, <3>1, <3>2, <3>3
    <3> QED BY <1>1, <1>2, <2>2, <2>5, <3>3, <3>4 DEF Made, Changes
  <2>7. UNCHANGED <<token, accounts, pane>> /\ (IsRoot(token) /\ calls'[c].kind # "load" => Copy(accounts, old))
    BY <1>1, <1>2, <2>2
  <2>8. InTurn'
    BY <1>2, <2>1, <2>2, <2>4, <2>6, <2>7, ServedTurn
  <2> QED BY <1>1, <1>4, <2>8
<1> QED BY <1>1, <1>3, <1>4, BaseFacts DEF Pages

(* The requests of the session are served. *)
LEMMA ServePatient ==
  ASSUME BaseInv, Patient, NEW c \in Slots, Serve(c), UNCHANGED <<pane, haste>>
  PROVE  Patient'
<1>1. UNCHANGED <<stored, token, accounts, page, claimed, loading, notes, pane, haste>>
  BY DEF Serve
<1>2. /\ 0 \in 0 .. MaxToken + MaxId /\ 1 \in 0 .. MaxToken + MaxId
      /\ table \in Tables /\ nextId \in 1 .. MaxId + 1 /\ Len(issued) \in 0 .. MaxToken
  BY Bounds, BaseFacts
<1>3. PICK none \in Seq(Row) : none = <<>>
  <2>1. <<>> \in Seq(Row)
    OBVIOUS
  <2> QED BY <2>1
<1>4. PICK ok \in {"ok", "refused", "unauthorized"} : ok = "ok"
  OBVIOUS
<1>5. PICK zero \in 0 .. MaxToken + MaxId : zero = 0
  BY <1>2
<1>6. CASE ServeClaimed(c)
  <2>1. PICK data \in 0 .. MaxToken + MaxId : data = IF Present = {} THEN 0 ELSE 1
    BY <1>2
  <2>2. c \in InFlight /\ UNCHANGED serverVars /\ Reply(c, ok, data, none) /\ calls[c].status = "sent"
    BY <1>3, <1>4, <1>6, <2>1 DEF ServeClaimed, Asked, InFlight
  <2>3. ok = "ok" => \/ calls[c].kind = "claimed"
                     \/ calls[c].kind = "load" /\ (IsRoot(calls[c].tok) => Copy(none, table))
    BY <1>6 DEF ServeClaimed, Asked
  <2> QED BY <1>1, <2>2, <2>3, AnsweredPatient
<1>7. CASE ServeLoad(c)
  <2>1. PICK list \in Seq(Row) : list = IF IsRoot(calls[c].tok) THEN Listed ELSE <<>>
    BY <1>3, ListedFacts
  <2>2. c \in InFlight /\ UNCHANGED serverVars /\ Reply(c, ok, zero, list) /\ calls[c].status = "sent"
    BY <1>4, <1>5, <1>7, <2>1 DEF ServeLoad, Asked, InFlight
  <2>3. ok = "ok" => \/ calls[c].kind = "claimed"
                     \/ calls[c].kind = "load" /\ (IsRoot(calls[c].tok) => Copy(list, table))
    BY <1>7, <2>1, ListedFacts DEF ServeLoad, Asked
  <2> QED BY <1>1, <2>2, <2>3, AnsweredPatient
<1>8. CASE ServeUnauthorized(c) \/ ServeRefused(c)
  <2>1. PICK status \in {"ok", "refused", "unauthorized"} :
          /\ status # "ok" /\ c \in InFlight /\ UNCHANGED serverVars /\ Reply(c, status, 0, <<>>)
          /\ calls[c].status = "sent"
    BY <1>8 DEF ServeUnauthorized, ServeRefused, Asked, InFlight
  <2>2. Reply(c, status, zero, none)
    BY <1>3, <1>5, <2>1
  <2>3. status = "ok" => \/ calls[c].kind = "claimed"
                         \/ calls[c].kind = "load" /\ (IsRoot(calls[c].tok) => Copy(none, table))
    BY <2>1
  <2> QED BY <1>1, <2>1, <2>2, <2>3, AnsweredPatient
<1>9. CASE ServeAuthenticate(c) \/ ServeClaim(c)
  <2> SUFFICES ASSUME haste' = 0
               PROVE  /\ page' = "login" => Entering'
                      /\ page' = "notfound" => NamedIn(token, table)'
                      /\ page' = "dashboard" => InTurn'
    BY PatientNext
  <2>1. c \in InFlight /\ haste = 0 /\ page' = page /\ calls[c].kind \in SignIns
    BY <1>1, <1>9 DEF ServeAuthenticate, ServeClaim, Asked, InFlight, SignIns
  <2>2. page = "login"
    BY <2>1, OtherSignIns
  <2>3. InFlight = {c}
    BY <2>1, <2>2 DEF Patient, Entering
  <2>4. PICK row \in Row : /\ issued' = Append(issued, row) /\ Len(issued) < MaxToken
                           /\ Reply(c, "ok", Len(issued) + 1, <<>>) /\ table'[row.id] = row.name
    <3>1. CASE ServeAuthenticate(c)
      <4>1. PICK i \in Present : Issue(i, table[i])
        BY <3>1 DEF ServeAuthenticate
      <4>2. PICK row \in Row : row = [id |-> i, name |-> table[i]]
        BY <1>2 DEF Row, Tables, Present
      <4>3. issued' = Append(issued, row) /\ Len(issued) < MaxToken /\ table' = table
            /\ Reply(c, "ok", Len(issued) + 1, <<>>)
        BY <3>1, <4>1, <4>2 DEF ServeAuthenticate, Issue
      <4> QED BY <4>2, <4>3
    <3>2. CASE ServeClaim(c)
      <4>1. calls[c].name \in Names
        BY <2>1 DEF BaseInv, CallInv
      <4>2. 1 \in Ids
        BY Bounds DEF Ids
      <4>3. PICK row \in Row : row = [id |-> 1, name |-> calls[c].name]
        BY <4>1, <4>2 DEF Row
      <4>4. /\ issued' = Append(issued, row) /\ Len(issued) < MaxToken /\ Reply(c, "ok", 1, <<>>)
            /\ table' = [table EXCEPT ![1] = calls[c].name] /\ nextId = 1
        BY <3>2, <4>3 DEF ServeClaim, Issue
      <4>5. issued = <<>>
        BY <4>4 DEF BaseInv, PlaceInv
      <4>6. Len(issued) = 0
        BY <4>5
      <4>7. table'[1] = calls[c].name /\ Len(issued) + 1 = 1
        BY <1>2, <4>2, <4>4, <4>6 DEF Tables
      <4> QED BY <4>3, <4>4, <4>7
    <3> QED BY <1>9, <3>1, <3>2
  <2>5. PICK data \in 0 .. MaxToken + MaxId : data = Len(issued) + 1
    BY <1>2, <2>4, Bounds
  <2>6. Reply(c, ok, data, none)
    BY <1>3, <1>4, <2>4, <2>5
  <2>7. calls'[c].data = data /\ InFlight' = {c}
    BY <2>1, <2>3, <2>6, ServedFacts
  <2>8. issued'[data] = row
    BY <2>4, <2>5, IssuedFacts
  <2>9. NamedIn(calls[c].data, table)'
    BY <2>4, <2>7, <2>8 DEF NamedIn
  <2>10. Entering'
    BY <2>7, <2>9 DEF Entering
  <2> QED BY <2>1, <2>2, <2>10
<1> QED BY <1>6, <1>7, <1>8, <1>9 DEF Serve

(* A request of the pane is carried out, or not. *)
LEMMA CarriedOut ==
  ASSUME BaseInv, Patient, UNCHANGED <<stored, token, accounts, page, claimed, loading, notes, pane, haste>>,
         NEW c \in InFlight, calls[c].kind \in Changes, calls[c].status = "sent",
         NEW status \in {"ok", "refused", "unauthorized"}, NEW data \in 0 .. MaxToken + MaxId,
         NEW list \in Seq(Row), Reply(c, status, data, list), NEW old \in Tables, old = table,
         \A tok \in 1 .. Len(issued) : issued'[tok] = issued[tok],
         status # "ok" => table' = old,
         status = "ok" /\ calls[c].kind = "create" =>
           old[data] = None /\ table' = [old EXCEPT ![data] = calls[c].name],
         status = "ok" /\ calls[c].kind \in {"update", "reissue"} /\ old[calls[c].id] # None =>
           table' = [old EXCEPT ![calls[c].id] = calls[c].name],
         status = "ok" /\ calls[c].kind = "reissue" => issued'[data] = [id |-> calls[c].id, name |-> calls[c].name],
         status = "ok" /\ calls[c].kind = "delete" /\ calls[c].id # 1 => table' = [old EXCEPT ![calls[c].id] = None]
  PROVE  Patient'
<1> SUFFICES ASSUME haste' = 0
             PROVE  /\ page' = "login" => Entering'
                    /\ page' = "notfound" => NamedIn(token, table)'
                    /\ page' = "dashboard" => InTurn'
  BY PatientNext
<1>1. haste = 0 /\ page' = page /\ page # "notfound" /\ token' = token /\ pane' = pane
  BY DEF BaseInv, PlaceInv
<1>2. /\ \A d \in Slots \ {c} : calls'[d] = calls[d]
      /\ calls'[c].kind = calls[c].kind /\ calls'[c].tok = calls[c].tok /\ calls'[c].id = calls[c].id
      /\ calls'[c].name = calls[c].name /\ calls'[c].here = calls[c].here
      /\ calls'[c].status = status /\ calls'[c].data = data
      /\ c \in Slots /\ calls'[c] # None /\ InFlight' = InFlight
  BY ServedFacts
<1>3. CASE page = "login"
  <2>1. \A d \in InFlight : d # c => calls[d].kind \notin SignIns
    BY <1>1, OtherSignIns
  <2>2. \A d \in Slots : calls'[d] = None \/ calls'[d].kind \notin SignIns
    BY <1>2, <2>1 DEF InFlight, SignIns, Changes
  <2>3. Entering'
    BY <2>2, NoSignIns
  <2> QED BY <1>1, <1>3, <2>3
<1>4. CASE page = "dashboard"
  <2>1. /\ InFlight = {c} /\ (pane.tab = "list" => IsRoot(token))
        /\ \E t \in Tables :
             /\ NamedIn(token, t) /\ FormIn(t) /\ Made(calls[c], t)
             /\ IsRoot(token) /\ calls[c].kind # "load" => Copy(accounts, t)
    BY <1>1, <1>4, TurnFacts
  <2>2. /\ NamedIn(token, old) /\ FormIn(old) /\ Made(calls[c], old)
        /\ IsRoot(token) /\ calls[c].kind # "load" => Copy(accounts, old)
    BY <2>1 DEF Made
  <2>3. token \in 1 .. Len(issued) /\ issued'[token] = issued[token]
    <3>1. token \in 0 .. Len(issued) /\ token # 0 /\ Len(issued) \in Nat
      BY <1>4, BaseFacts
    <3> QED BY <3>1
  <2>4. calls[c].kind \in {"update", "reissue", "delete"} => calls[c].id # 0
    BY DEF BaseInv, CallInv, Ids
  <2>5. calls[c].kind \in {"update", "reissue"} => old[calls[c].id] # None
    BY <2>2, <2>4 DEF Made, FormIn
  <2>6. Own' = Own
    BY <1>1, <2>3 DEF Own
  <2>7. Made(calls[c], old)'
    <3>1. /\ calls'[c].kind = "create" /\ calls'[c].status = "ok" =>
               old[calls'[c].data] = None /\ table' = [old EXCEPT ![calls'[c].data] = calls'[c].name]
          /\ calls'[c].kind \in {"update", "reissue"} /\ calls'[c].status = "ok" =>
               table' = [old EXCEPT ![calls'[c].id] = calls'[c].name]
          /\ calls'[c].kind = "reissue" /\ calls'[c].status = "ok" =>
               issued'[calls'[c].data] = [id |-> calls'[c].id, name |-> calls'[c].name]
      BY <1>2, <2>5
    <3>2. calls'[c].kind = "delete" =>
            /\ pane'.tab = "list" /\ calls'[c].id # 1
            /\ calls'[c].status = "ok" => table' = [old EXCEPT ![calls'[c].id] = None]
      BY <1>1, <1>2, <2>2 DEF Made
    <3>3. /\ calls'[c].tok = token' /\ calls'[c].kind \in Changes /\ calls'[c].kind # "load"
          /\ calls'[c].status # "ok" => old = table'
          /\ calls'[c].kind \in {"create", "update", "reissue"} =>
               /\ calls'[c].here /\ pane'.tab = "edit" /\ pane'.name = calls'[c].name
               /\ pane'.id = IF calls'[c].kind = "create" THEN 0 ELSE calls'[c].id
          /\ calls'[c].kind = "update" => calls'[c].id # Own'
          /\ calls'[c].kind = "reissue" => calls'[c].id = Own'
      BY <1>1, <1>2, <2>2, <2>6 DEF Made, Changes
    <3> QED BY <3>1, <3>2, <3>3 DEF Made
  <2>8. UNCHANGED <<token, accounts, pane>> /\ (IsRoot(token) /\ calls'[c].kind # "load" => Copy(accounts, old))
    BY <1>2, <2>2
  <2>9. InTurn'
    BY <1>2, <2>1, <2>2, <2>3, <2>7, <2>8, ServedTurn
  <2> QED BY <1>1, <1>4, <2>9
<1> QED BY <1>1, <1>3, <1>4, BaseFacts DEF Pages

(* The server's turn at a change keeps the order a patient user can rely on. *)
LEMMA ServeChangePatient ==
  ASSUME BaseInv, Patient, NEW c \in Slots, ServeChange(c)
  PROVE  Patient'
<1>1. UNCHANGED <<stored, token, accounts, page, claimed, loading, notes, pane, haste>>
  BY DEF ServeChange
<1>2. /\ 0 \in 0 .. MaxToken + MaxId
      /\ table \in Tables /\ nextId \in 1 .. MaxId + 1 /\ Len(issued) \in 0 .. MaxToken
  BY Bounds, BaseFacts
<1>3. PICK none \in Seq(Row) : none = <<>>
  <2>1. <<>> \in Seq(Row)
    OBVIOUS
  <2> QED BY <2>1
<1>4. PICK ok \in {"ok", "refused", "unauthorized"} : ok = "ok"
  OBVIOUS
<1>5. PICK zero \in 0 .. MaxToken + MaxId : zero = 0
  BY <1>2
<1>6. PICK old \in Tables : old = table
  BY <1>2
<1>7. c \in InFlight /\ calls[c].kind \in Changes /\ calls[c].status = "sent"
  BY DEF ServeChange, ServeCreate, ServeUpdate, ServeDelete, ServeForbidden, Asked, InFlight, Changes
<1>8. CASE ServeCreate(c)
  <2>1. /\ nextId \in Ids /\ calls[c].kind = "create" /\ issued' = issued
        /\ table' = [table EXCEPT ![nextId] = calls[c].name]
    BY <1>8 DEF ServeCreate, Asked
  <2>2. PICK data \in 0 .. MaxToken + MaxId : data = nextId
    BY <1>2, <2>1, Bounds DEF Ids
  <2>3. Reply(c, ok, data, none)
    BY <1>3, <1>4, <1>8, <2>2 DEF ServeCreate
  <2>4. old[data] = None
    BY <1>2, <1>6, <2>1, <2>2 DEF BaseInv, PlaceInv
  <2>5. table' = [old EXCEPT ![data] = calls[c].name]
    BY <1>6, <2>1, <2>2
  <2>6. /\ \A tok \in 1 .. Len(issued) : issued'[tok] = issued[tok]
        /\ ok # "ok" => table' = old
        /\ ok = "ok" /\ calls[c].kind = "create" =>
             old[data] = None /\ table' = [old EXCEPT ![data] = calls[c].name]
        /\ ok = "ok" /\ calls[c].kind \in {"update", "reissue"} /\ old[calls[c].id] # None =>
             table' = [old EXCEPT ![calls[c].id] = calls[c].name]
        /\ ok = "ok" /\ calls[c].kind = "reissue" => issued'[data] = [id |-> calls[c].id, name |-> calls[c].name]
        /\ ok = "ok" /\ calls[c].kind = "delete" /\ calls[c].id # 1 => table' = [old EXCEPT ![calls[c].id] = None]
    BY <1>4, <2>1, <2>4, <2>5
  <2> QED BY <1>1, <1>6, <1>7, <2>3, <2>6, CarriedOut
<1>9. CASE ServeUpdate(c)
  <2>1. calls[c].kind \in {"update", "reissue"} /\ calls[c].name \in Names /\ calls[c].id \in Ids
    BY <1>7, <1>9 DEF ServeUpdate, Asked, BaseInv, CallInv
  <2>2. calls[c].id \in Present <=> old[calls[c].id] # None
    BY <1>6, <2>1 DEF Present
  <2>3. table' = IF calls[c].id \in Present THEN [old EXCEPT ![calls[c].id] = calls[c].name] ELSE old
    BY <1>6, <1>9 DEF ServeUpdate
  <2>4. CASE calls[c].kind = "reissue" /\ calls[c].id \in Present
    <3>1. Issue(calls[c].id, calls[c].name) /\ Reply(c, "ok", Len(issued) + 1, <<>>)
      BY <1>9, <2>4 DEF ServeUpdate
    <3>2. PICK row \in Row : row = [id |-> calls[c].id, name |-> calls[c].name]
      BY <2>1 DEF Row
    <3>3. Len(issued) < MaxToken /\ issued' = Append(issued, row)
      BY <3>1, <3>2 DEF Issue
    <3>4. PICK data \in 0 .. MaxToken + MaxId : data = Len(issued) + 1
      BY <1>2, <3>3, Bounds
    <3>5. Reply(c, ok, data, none)
      BY <1>3, <1>4, <3>1, <3>4
    <3>6. issued'[Len(issued) + 1] = row /\ \A tok \in 1 .. Len(issued) : issued'[tok] = issued[tok]
      BY <3>3, IssuedFacts
    <3>7. /\ \A tok \in 1 .. Len(issued) : issued'[tok] = issued[tok]
          /\ ok # "ok" => table' = old
          /\ ok = "ok" /\ calls[c].kind = "create" =>
               old[data] = None /\ table' = [old EXCEPT ![data] = calls[c].name]
          /\ ok = "ok" /\ calls[c].kind \in {"update", "reissue"} /\ old[calls[c].id] # None =>
               table' = [old EXCEPT ![calls[c].id] = calls[c].name]
          /\ ok = "ok" /\ calls[c].kind = "reissue" => issued'[data] = [id |-> calls[c].id, name |-> calls[c].name]
          /\ ok = "ok" /\ calls[c].kind = "delete" /\ calls[c].id # 1 => table' = [old EXCEPT ![calls[c].id] = None]
      BY <1>4, <2>3, <2>4, <3>2, <3>4, <3>6
    <3> QED BY <1>1, <1>6, <1>7, <3>5, <3>7, CarriedOut
  <2>5. CASE calls[c].kind = "reissue" /\ calls[c].id \notin Present
    <3>1. PICK status \in {"ok", "refused", "unauthorized"} : status = "refused"
      OBVIOUS
    <3>2. Reply(c, status, zero, none) /\ issued' = issued /\ table' = old
      BY <1>3, <1>5, <1>9, <2>3, <2>5, <3>1 DEF ServeUpdate
    <3>3. /\ \A tok \in 1 .. Len(issued) : issued'[tok] = issued[tok]
          /\ status # "ok" => table' = old
          /\ status = "ok" /\ calls[c].kind = "create" =>
               old[zero] = None /\ table' = [old EXCEPT ![zero] = calls[c].name]
          /\ status = "ok" /\ calls[c].kind \in {"update", "reissue"} /\ old[calls[c].id] # None =>
               table' = [old EXCEPT ![calls[c].id] = calls[c].name]
          /\ status = "ok" /\ calls[c].kind = "reissue" => issued'[zero] = [id |-> calls[c].id, name |-> calls[c].name]
          /\ status = "ok" /\ calls[c].kind = "delete" /\ calls[c].id # 1 => table' = [old EXCEPT ![calls[c].id] = None]
      BY <3>1, <3>2
    <3> QED BY <1>1, <1>6, <1>7, <3>2, <3>3, CarriedOut
  <2>6. CASE calls[c].kind = "update"
    <3>1. Reply(c, ok, zero, none) /\ issued' = issued
      BY <1>3, <1>4, <1>5, <1>9, <2>6 DEF ServeUpdate
    <3>2. old[calls[c].id] # None => table' = [old EXCEPT ![calls[c].id] = calls[c].name]
      BY <2>2, <2>3
    <3>3. /\ \A tok \in 1 .. Len(issued) : issued'[tok] = issued[tok]
          /\ ok # "ok" => table' = old
          /\ ok = "ok" /\ calls[c].kind = "create" =>
               old[zero] = None /\ table' = [old EXCEPT ![zero] = calls[c].name]
          /\ ok = "ok" /\ calls[c].kind \in {"update", "reissue"} /\ old[calls[c].id] # None =>
               table' = [old EXCEPT ![calls[c].id] = calls[c].name]
          /\ ok = "ok" /\ calls[c].kind = "reissue" => issued'[zero] = [id |-> calls[c].id, name |-> calls[c].name]
          /\ ok = "ok" /\ calls[c].kind = "delete" /\ calls[c].id # 1 => table' = [old EXCEPT ![calls[c].id] = None]
      BY <1>4, <2>6, <3>1, <3>2
    <3> QED BY <1>1, <1>6, <1>7, <3>1, <3>3, CarriedOut
  <2> QED BY <2>1, <2>4, <2>5, <2>6
<1>10. CASE ServeDelete(c)
  <2>1. /\ calls[c].kind = "delete" /\ issued' = issued
        /\ table' = IF calls[c].id = 1 THEN old ELSE [old EXCEPT ![calls[c].id] = None]
    BY <1>6, <1>10 DEF ServeDelete, Asked
  <2>2. Reply(c, ok, zero, none)
    BY <1>3, <1>4, <1>5, <1>10 DEF ServeDelete
  <2>3. /\ \A tok \in 1 .. Len(issued) : issued'[tok] = issued[tok]
        /\ ok # "ok" => table' = old
        /\ ok = "ok" /\ calls[c].kind = "create" =>
             old[zero] = None /\ table' = [old EXCEPT ![zero] = calls[c].name]
        /\ ok = "ok" /\ calls[c].kind \in {"update", "reissue"} /\ old[calls[c].id] # None =>
             table' = [old EXCEPT ![calls[c].id] = calls[c].name]
        /\ ok = "ok" /\ calls[c].kind = "reissue" => issued'[zero] = [id |-> calls[c].id, name |-> calls[c].name]
        /\ ok = "ok" /\ calls[c].kind = "delete" /\ calls[c].id # 1 => table' = [old EXCEPT ![calls[c].id] = None]
    BY <1>4, <2>1
  <2> QED BY <1>1, <1>6, <1>7, <2>2, <2>3, CarriedOut
<1>11. CASE ServeForbidden(c)
  <2>1. PICK status \in {"ok", "refused", "unauthorized"} : status = "unauthorized"
    OBVIOUS
  <2>2. UNCHANGED serverVars /\ Reply(c, status, zero, none)
    BY <1>3, <1>5, <1>11, <2>1 DEF ServeForbidden
  <2>3. status = "ok" => \/ calls[c].kind = "claimed"
                         \/ calls[c].kind = "load" /\ (IsRoot(calls[c].tok) => Copy(none, table))
    BY <2>1
  <2> QED BY <1>1, <1>7, <2>2, <2>3, AnsweredPatient
<1> QED BY <1>8, <1>9, <1>10, <1>11 DEF ServeChange

(* The last request of the dashboard ends. *)
LEMMA AloneFacts ==
  ASSUME BaseInv, NEW c \in InFlight, InFlight = {c}
  PROVE  IsCalls(Without(c)) /\ \A d \in Slots : Without(c)[d] = None
<1>1. c \in Slots /\ \A d \in Slots : calls[d] # None => d = c
  BY DEF InFlight
<1>2. IsCalls(Without(c)) /\ \A d \in Slots : Without(c)[d] = IF d = c THEN None ELSE calls[d]
  BY <1>1, EndedFacts
<1> QED BY <1>1, <1>2

(* A request ends beside which nobody signs in. *)
LEMMA EndedSignIns ==
  ASSUME BaseInv, Patient, haste = 0, NEW c \in InFlight,
         \A d \in Slots : \/ calls'[d] = None
                          \/ Without(c)[d] # None /\ Same(calls'[d], Without(c)[d])
                          \/ calls'[d].kind = "claimed"
  PROVE  Entering'
<1>1. c \in Slots /\ \A d \in InFlight : d # c => calls[d].kind \notin SignIns
  BY OtherSignIns DEF InFlight
<1>2. \A d \in Slots : Without(c)[d] = IF d = c THEN None ELSE calls[d]
  BY <1>1, EndedFacts
<1>3. \A d \in Slots : calls'[d] = None \/ calls'[d].kind \notin SignIns
  BY <1>1, <1>2 DEF Same, InFlight, SignIns
<1> QED BY <1>3, NoSignIns

(* What an answer of the server to the session does. *)
LEMMA SessionAnswerPatient ==
  ASSUME BaseInv, Patient, NEW c \in Slots, SessionAnswer(c)
  PROVE  Patient'
<1> SUFFICES ASSUME haste' = 0
             PROVE  /\ page' = "login" => Entering'
                    /\ page' = "notfound" => NamedIn(token, table)'
                    /\ page' = "dashboard" => InTurn'
  BY PatientNext
<1>1. /\ haste \in 0 .. MaxHaste /\ page \in Pages /\ Len(issued) \in 0 .. MaxToken /\ table \in Tables
      /\ claimed \in {"unknown", "yes", "no"}
  BY BaseFacts
<1>2. c \in InFlight
  BY DEF SessionAnswer, AnswerClaimed, AnswerSignInRefused, AnswerLoad, AnswerSignIn, AnswerUnauthorized,
         Answered, InFlight
<1>3. page # "notfound" /\ IsCalls(Without(c)) /\ calls[c] \in CallType /\ CallInv(calls[c])
  BY <1>2, EndedFacts, BaseFacts DEF BaseInv, PlaceInv
<1>4. haste = 0
  BY <1>1, ConfusedFacts DEF SessionAnswer
<1>5. \A d \in Slots : Same(Without(c)[d], Without(c)[d])
  BY DEF Same
<1>6. CASE AnswerClaimed(c) \/ AnswerSignInRefused(c)
  <2>1. page' = page /\ calls' = Without(c) /\ calls[c].kind \in SignIns \cup {"claimed"}
    BY <1>6 DEF AnswerClaimed, AnswerSignInRefused, Answered, SignIns
  <2>2. page = "login"
    BY <1>2, <1>4, <2>1, OtherSignIns
  <2>3. Entering'
    BY <1>2, <1>4, <1>5, <2>1, EndedSignIns
  <2> QED BY <2>1, <2>2, <2>3
<1>7. CASE AnswerLoad(c) /\ pane' = (IF Ok(c) THEN Closed ELSE pane) /\ Ok(c)
  <2>1. /\ calls[c].kind = "load" /\ page' = page /\ token' = token /\ table' = table /\ issued' = issued
        /\ accounts' = (IF IsRoot(calls[c].tok) THEN calls[c].list ELSE accounts)
        /\ calls' = Orphaned(Without(c), Changes)
    BY <1>7 DEF AnswerLoad, Answered, resetAccounts, serverVars
  <2>2. PICK left : left = Without(c)
    OBVIOUS
  <2>3. \A d \in Slots : /\ left[d] = None => Orphaned(left, Changes)[d] = None
                         /\ left[d] # None => Same(Orphaned(left, Changes)[d], left[d])
    BY <1>3, <2>2, OrphanedFacts
  <2>4. \A d \in Slots : \/ calls'[d] = None
                         \/ Without(c)[d] # None /\ Same(calls'[d], Without(c)[d])
                         \/ calls'[d].kind = "claimed"
    BY <2>1, <2>2, <2>3
  <2>5. CASE page = "login"
    <3>1. Entering'
      BY <1>2, <1>4, <2>4, EndedSignIns
    <3> QED BY <2>1, <2>5, <3>1
  <2>6. CASE page = "dashboard"
    <3>1. /\ InFlight = {c} /\ (pane.tab = "list" => IsRoot(token))
          /\ \E old \in Tables :
               /\ NamedIn(token, old) /\ FormIn(old) /\ Made(calls[c], old)
               /\ IsRoot(token) /\ calls[c].kind # "load" => Copy(accounts, old)
      BY <1>2, <1>4, <2>6, TurnFacts
    <3>2. /\ NamedIn(token, table) /\ calls[c].tok = token
          /\ IsRoot(token) => Copy(calls[c].list, table)
      BY <1>7, <2>1, <3>1 DEF Made, Ok
    <3>3. \A d \in Slots : calls'[d] = None
      BY <1>2, <2>1, <2>2, <2>3, <3>1, AloneFacts
    <3>4. NamedIn(token, table)' /\ (IsRoot(token)' <=> IsRoot(token))
      BY <2>1, <3>2 DEF NamedIn, IsRoot
    <3>5. IsRoot(token)' => Copy(accounts, table)'
      BY <2>1, <3>2, <3>4 DEF Copy
    <3>6. FormIn(table)' /\ pane'.tab # "list"
      BY <1>7, ClosedFacts DEF FormIn
    <3>7. table' \in Tables
      BY <1>1, <2>1
    <3>8. InTurn'
      BY <3>3, <3>4, <3>5, <3>6, <3>7, QuietTurn
    <3> QED BY <2>1, <2>6, <3>8
  <2> QED BY <1>1, <1>3, <2>5, <2>6 DEF Pages
<1>8. CASE AnswerSignIn(c) /\ pane' = PaneAt(page', token')
  <2>1. /\ calls[c].kind \in SignIns /\ Ok(c) /\ token' = calls[c].data /\ page' = "dashboard"
        /\ table' = table /\ issued' = issued /\ Navigate("dashboard", Without(c), calls[c].data)
    BY <1>8 DEF AnswerSignIn, Answered, SignIns, login, Navigate, serverVars
  <2>2. page = "login"
    BY <1>2, <1>4, <2>1, OtherSignIns
  <2>3. InFlight = {c} /\ NamedIn(calls[c].data, table)
    BY <1>2, <1>4, <2>1, <2>2 DEF Patient, Entering, Ok
  <2>4. PICK tok \in 1 .. Len(issued) : tok = calls[c].data
    BY <1>3, <2>1 DEF CallInv, Ok
  <2>5. PICK left : left = Orphaned(Without(c), AnyKind)
    OBVIOUS
  <2>6. IsCalls(left) /\ \A d \in Slots : left[d] = None
    <3>1. PICK cs : cs = Without(c)
      OBVIOUS
    <3>2. IsCalls(cs) /\ \A d \in Slots : cs[d] = None
      BY <1>2, <2>3, <3>1, AloneFacts
    <3>3. IsCalls(Orphaned(cs, AnyKind)) /\ \A d \in Slots : cs[d] = None => Orphaned(cs, AnyKind)[d] = None
      BY <3>2, OrphanedFacts
    <3> QED BY <2>5, <3>1, <3>2, <3>3
  <2>7. PICK pg \in Pages \ {"notfound"} : pg = "dashboard"
    BY DEF Pages
  <2>8. calls' = Mounted(pg, left, tok)
    BY <2>1, <2>2, <2>4, <2>5, <2>7 DEF Navigate
  <2>9. /\ 1 \in Slots /\ Mounted(pg, left, tok)[1] = MountCall(pg, tok)
        /\ \A d \in Slots : d # 1 => Mounted(pg, left, tok)[d] = None
    BY <2>6, MountedAlone
  <2>10. tok \in 0 .. MaxToken
    <3>1. PICK size \in 0 .. MaxToken : size = Len(issued)
      BY <1>1
    <3>2. tok \in 1 .. size
      BY <3>1
    <3> QED BY <3>2, Bounds
  <2>11. 1 \in Slots /\ Mounts(calls'[1], "dashboard", tok) /\ \A d \in Slots : d # 1 => calls'[d] = None
    BY <2>7, <2>8, <2>9, <2>10, LoadCall
  <2>12. pane' = Initial(tok) \/ pane'.tab = "closed"
    BY <1>8, <2>1, <2>2, <2>4 DEF PaneAt
  <2>13. token' = tok /\ NamedIn(tok, table)
    BY <2>1, <2>3, <2>4
  <2>14. InTurn'
    BY <2>1, <2>11, <2>12, <2>13, EnteredTurn
  <2> QED BY <2>1, <2>14
<1>9. CASE AnswerUnauthorized(c)
  <2>1. page' = "login" /\ Navigate("login", Without(c), 0)
    BY <1>9 DEF AnswerUnauthorized, Navigate
  <2>2. PICK pg \in Pages, tok \in 0 .. MaxToken : pg = "login" /\ tok = 0
    BY Bounds DEF Pages
  <2>3. PICK left : left = Without(c)
    OBVIOUS
  <2>4. IsCalls(left) /\ Navigate(pg, left, tok)
    BY <1>3, <2>1, <2>2, <2>3
  <2>5. \E x : \A d \in Slots :
          \/ calls'[d] = None
          \/ left[d] # None /\ Same(calls'[d], left[d])
          \/ d = x /\ pg # "notfound" /\ pg # page /\ Mounts(calls'[d], pg, tok)
    BY <1>1, <2>4, NavigateFacts
  <2>6. \A d \in Slots : \/ calls'[d] = None
                         \/ Without(c)[d] # None /\ Same(calls'[d], Without(c)[d])
                         \/ calls'[d].kind = "claimed"
    BY <2>2, <2>3, <2>5 DEF Mounts
  <2>7. Entering'
    BY <1>2, <1>4, <2>6, EndedSignIns
  <2> QED BY <2>1, <2>7
<1>10. ~ (AnswerLoad(c) /\ ~ Ok(c) /\ Confused)
  BY <1>1, ConfusedFacts
<1> QED BY <1>6, <1>7, <1>8, <1>9, <1>10 DEF SessionAnswer

(* What an answer to the pane does. *)
LEMMA ChangeAnswerPatient ==
  ASSUME BaseInv, Patient, NEW c \in Slots, AnswerChange(c)
  PROVE  Patient'
<1> SUFFICES ASSUME haste' = 0
             PROVE  /\ page' = "login" => Entering'
                    /\ page' = "notfound" => NamedIn(token, table)'
                    /\ page' = "dashboard" => InTurn'
  BY PatientNext
<1>1. /\ haste \in 0 .. MaxHaste /\ page \in Pages /\ table \in Tables /\ pane \in Panes
      /\ accounts \in Seq(Row) /\ IsCalls(calls)
  BY BaseFacts
<1>2. c \in InFlight
  BY DEF AnswerChange, AnswerCreate, AnswerUpdate, AnswerReissue, AnswerDelete, AnswerChangeRefused, Answered, InFlight
<1>3. page # "notfound" /\ CallInv(calls[c]) /\ calls[c] \in CallType
  BY <1>2, BaseFacts DEF BaseInv, PlaceInv
<1>4. haste = 0
  BY <1>1, ConfusedFacts DEF AnswerChange, AnswerCreate, AnswerUpdate, AnswerReissue, AnswerDelete, AnswerChangeRefused
<1>5. /\ page' = page /\ calls' = Without(c) /\ table' = table /\ issued' = issued
  <2>1. CASE AnswerReissue(c)
    <3>1. page' = page
      BY <1>1, <1>4, <2>1, ConfusedFacts DEF AnswerReissue
    <3> QED BY <2>1, <3>1 DEF AnswerReissue, Navigate, serverVars
  <2>2. CASE ~ AnswerReissue(c)
    BY <2>2 DEF AnswerChange, AnswerCreate, AnswerUpdate, AnswerDelete, AnswerChangeRefused, serverVars
  <2> QED BY <2>1, <2>2
<1>6. CASE page = "login"
  <2>1. \A d \in Slots : Same(Without(c)[d], Without(c)[d])
    BY DEF Same
  <2>2. Entering'
    BY <1>2, <1>4, <1>5, <2>1, EndedSignIns
  <2> QED BY <1>5, <1>6, <2>2
<1>7. ASSUME page = "dashboard" PROVE InTurn'
  <2>1. /\ InFlight = {c} /\ (pane.tab = "list" => IsRoot(token))
        /\ \E old \in Tables :
             /\ NamedIn(token, old) /\ FormIn(old) /\ Made(calls[c], old)
             /\ IsRoot(token) /\ calls[c].kind # "load" => Copy(accounts, old)
    BY <1>2, <1>4, <1>7, TurnFacts
  <2>2. PICK old \in Tables :
             /\ NamedIn(token, old) /\ FormIn(old) /\ Made(calls[c], old)
             /\ IsRoot(token) /\ calls[c].kind # "load" => Copy(accounts, old)
    BY <2>1
  <2>3. \A d \in Slots : calls'[d] = None
    BY <1>2, <1>5, <2>1, AloneFacts
  <2>4. token \in 1 .. Len(issued)
    <3>1. token \in 0 .. Len(issued) /\ token # 0 /\ Len(issued) \in Nat
      BY <1>7, BaseFacts
    <3> QED BY <3>1
  <2>5. issued[token].id \in Ids /\ issued[token].name \in Names
    BY <2>4, InitialFacts
  <2>6. /\ Saved(c).tab = pane.tab /\ Saved(c).id = pane.id /\ Saved(c).name = pane.name
        /\ calls[c].here => Saved(c).original = pane.name
    BY <1>1, SavedFacts
  <2>7. table' \in Tables
    BY <1>1, <1>5
  <2>8. CASE AnswerCreate(c)
    <3>1. /\ calls[c].data \in Ids /\ calls[c].name \in Names /\ calls[c].kind = "create" /\ token' = token
          /\ createAction([id |-> calls[c].data, name |-> calls[c].name]) /\ pane' = Saved(c)
          /\ calls[c].status = "ok"
      BY <1>3, <2>8 DEF AnswerCreate, Answered, Ok, CallInv
    <3>2. /\ old[calls[c].data] = None /\ table = [old EXCEPT ![calls[c].data] = calls[c].name]
          /\ pane.tab = "edit" /\ pane.id = 0
      BY <2>2, <3>1 DEF Made
    <3>3. NamedIn(token, table)' /\ (IsRoot(token)' <=> IsRoot(token))
      BY <1>5, <2>2, <2>5, <3>1, <3>2, Bounds DEF NamedIn, IsRoot, Tables
    <3>4. IsRoot(token)' => Copy(accounts, table)'
      <4>1. Copy(accounts, old) => Copy(accounts', [old EXCEPT ![calls[c].data] = calls[c].name])
        BY <1>1, <3>1, <3>2, CreatedList
      <4>2. IsRoot(token) => Copy(accounts', table)
        BY <2>2, <3>1, <3>2, <4>1
      <4> QED BY <1>5, <3>3, <4>2 DEF Copy
    <3>5. FormIn(table)' /\ pane'.tab # "list"
      BY <2>6, <3>1, <3>2 DEF FormIn
    <3> QED BY <2>3, <2>7, <3>3, <3>4, <3>5, QuietTurn
  <2>9. CASE AnswerUpdate(c)
    <3>1. /\ calls[c].id \in Ids /\ calls[c].name \in Names /\ calls[c].kind = "update" /\ token' = token
          /\ updateAction(calls[c].id, calls[c].name) /\ pane' = Saved(c)
          /\ calls[c].status = "ok"
      BY <1>3, <2>9 DEF AnswerUpdate, Answered, Ok, CallInv
    <3>2. /\ calls[c].id # Own /\ table = [old EXCEPT ![calls[c].id] = calls[c].name]
          /\ calls[c].here /\ pane.tab = "edit" /\ pane.id = calls[c].id /\ pane.name = calls[c].name
      BY <2>2, <3>1 DEF Made
    <3>3. NamedIn(token, table)' /\ (IsRoot(token)' <=> IsRoot(token))
      BY <1>5, <2>2, <2>5, <3>1, <3>2 DEF NamedIn, IsRoot, Tables, Own
    <3>4. IsRoot(token)' => Copy(accounts, table)'
      <4>1. old[calls[c].id] # None
        BY <2>2, <3>1, <3>2 DEF FormIn, Ids
      <4>2. Copy(accounts, old) => Copy(accounts', [old EXCEPT ![calls[c].id] = calls[c].name])
        BY <1>1, <3>1, <4>1, UpdatedList
      <4>3. IsRoot(token) => Copy(accounts', table)
        BY <2>2, <3>1, <3>2, <4>2
      <4> QED BY <1>5, <3>3, <4>3 DEF Copy
    <3>5. FormIn(table)' /\ pane'.tab # "list"
      <4>1. table[calls[c].id] = calls[c].name
        BY <3>1, <3>2 DEF Tables
      <4> QED BY <1>5, <2>6, <3>1, <3>2, <4>1, Bounds DEF FormIn
    <3> QED BY <2>3, <2>7, <3>3, <3>4, <3>5, QuietTurn
  <2>10. CASE AnswerReissue(c)
    <3>1. /\ calls[c].id \in Ids /\ calls[c].name \in Names /\ calls[c].kind = "reissue"
          /\ updateAction(calls[c].id, calls[c].name) /\ token' = calls[c].data
          /\ pane' = (IF calls[c].here THEN Saved(c) ELSE PaneAt(page', calls[c].data))
          /\ calls[c].status = "ok" /\ calls[c].data \in 1 .. Len(issued)
      BY <1>3, <2>10 DEF AnswerReissue, Answered, Ok, CallInv, login
    <3>2. /\ calls[c].id = Own /\ table = [old EXCEPT ![calls[c].id] = calls[c].name]
          /\ calls[c].here /\ pane.tab = "edit" /\ pane.id = calls[c].id /\ pane.name = calls[c].name
          /\ issued[calls[c].data] = [id |-> calls[c].id, name |-> calls[c].name]
      BY <2>2, <3>1 DEF Made
    <3>3. table[calls[c].id] = calls[c].name
      BY <3>1, <3>2 DEF Tables
    <3>4. NamedIn(token, table)'
      BY <1>5, <3>1, <3>2, <3>3 DEF NamedIn
    <3>5. IsRoot(token)' <=> IsRoot(token)
      BY <1>5, <2>4, <3>1, <3>2 DEF IsRoot, Own
    <3>6. IsRoot(token)' => Copy(accounts, table)'
      <4>1. old[calls[c].id] # None
        BY <2>2, <3>1, <3>2 DEF FormIn, Ids
      <4>2. Copy(accounts, old) => Copy(accounts', [old EXCEPT ![calls[c].id] = calls[c].name])
        BY <1>1, <3>1, <4>1, UpdatedList
      <4>3. IsRoot(token) => Copy(accounts', table)
        BY <2>2, <3>1, <3>2, <4>2
      <4> QED BY <1>5, <3>5, <4>3 DEF Copy
    <3>7. FormIn(table)' /\ pane'.tab # "list"
      BY <1>5, <2>6, <3>1, <3>2, <3>3, Bounds DEF FormIn
    <3> QED BY <2>3, <2>7, <3>4, <3>6, <3>7, QuietTurn
  <2>11. CASE AnswerDelete(c)
    <3>1. /\ calls[c].id \in Ids /\ calls[c].kind = "delete" /\ token' = token
          /\ deleteAction(calls[c].id)
          /\ pane' = (IF calls[c].here THEN [pane EXCEPT !.deleting = 0] ELSE pane)
          /\ calls[c].status = "ok"
      BY <1>3, <2>11 DEF AnswerDelete, Answered, Ok, CallInv
    <3>2. calls[c].id # 1 /\ table = [old EXCEPT ![calls[c].id] = None] /\ pane.tab = "list"
      BY <2>2, <3>1 DEF Made
    <3>3. NamedIn(token, table)' /\ (IsRoot(token)' <=> IsRoot(token)) /\ IsRoot(token)
      <4>1. IsRoot(token) /\ issued[token].id # calls[c].id
        BY <2>1, <3>2 DEF IsRoot
      <4> QED BY <1>5, <2>2, <2>5, <3>1, <3>2, <4>1 DEF NamedIn, IsRoot, Tables
    <3>4. Copy(accounts, table)'
      <4>1. Copy(accounts, old) => Copy(accounts', [old EXCEPT ![calls[c].id] = None])
        BY <1>1, <3>1, DeletedList
      <4>2. Copy(accounts', table)
        BY <2>2, <3>1, <3>2, <3>3, <4>1
      <4> QED BY <1>5, <4>2 DEF Copy
    <3>5. pane'.tab = "list"
      BY <1>1, <3>1, <3>2, CancelledFacts
    <3>6. FormIn(table)'
      BY <3>5 DEF FormIn
    <3> QED BY <2>3, <2>7, <3>3, <3>4, <3>6, QuietTurn
  <2>12. CASE AnswerChangeRefused(c)
    <3>1. /\ calls[c].kind \in Changes /\ calls[c].status = "refused" /\ token' = token /\ accounts' = accounts
          /\ pane' = pane
      BY <2>12 DEF AnswerChangeRefused, Answered
    <3>2. old = table /\ calls[c].kind # "load"
      BY <2>2, <3>1 DEF Made, Changes
    <3>3. NamedIn(token, table)' /\ (IsRoot(token)' <=> IsRoot(token)) /\ FormIn(table)'
      BY <1>5, <2>2, <3>1, <3>2 DEF NamedIn, IsRoot, FormIn
    <3>4. IsRoot(token)' => Copy(accounts, table)'
      BY <1>5, <2>2, <3>1, <3>2, <3>3 DEF Copy
    <3>5. pane'.tab = "list" => IsRoot(token)'
      BY <2>1, <3>1, <3>3
    <3> QED BY <2>3, <2>7, <3>3, <3>4, <3>5, QuietTurn
  <2> QED BY <2>8, <2>9, <2>10, <2>11, <2>12 DEF AnswerChange
<1> QED BY <1>1, <1>3, <1>5, <1>6, <1>7 DEF Pages

(* The user has nothing in flight at first, and the page is the login. *)
LEMMA PatientInitially == PaneInit => Patient
<1> SUFFICES ASSUME PaneInit PROVE Patient
  OBVIOUS
<1>1. page = "login" /\ calls = Mounted("login", Idle, 0)
  BY DEF PaneInit, Init
<1>2. PICK pg \in Pages \ {"notfound"} : pg = "login"
  BY DEF Pages
<1>3. IsCalls(Idle) /\ \A c \in Slots : Idle[c] = None
  BY IdleIs
<1>4. /\ 1 \in Slots /\ Mounted(pg, Idle, 0)[1] = MountCall(pg, 0)
      /\ \A c \in Slots : c # 1 => Mounted(pg, Idle, 0)[c] = None
  BY <1>3, MountedAlone
<1>5. \A c \in InFlight : calls[c].kind \notin SignIns
  BY <1>1, <1>2, <1>4 DEF MountCall, Call, InFlight, SignIns
<1> QED BY <1>1, <1>5 DEF Patient, Entering

(* Every step keeps what the user who waits is promised. *)
LEMMA PatientStep == ASSUME BaseInv, Patient, [PaneNext]_paneVars PROVE Patient'
<1>1. CASE SessionStep
  BY <1>1, SessionPatient
<1>2. CASE TogglePane \/ EditAccount \/ DraftAccount \/ BackToList \/ Type
  BY <1>2, EditPatient
<1>3. CASE AskDelete \/ CancelDelete
  BY <1>3, ChoosePatient
<1>4. CASE Save \/ ConfirmDelete
  BY <1>4, SavePatient
<1>5. ASSUME NEW c \in Slots, ServeCall(c) PROVE Patient'
  BY <1>5, ServePatient, ServeChangePatient DEF ServeCall
<1>6. ASSUME NEW c \in Slots, AnswerCall(c) PROVE Patient'
  BY <1>6, SessionAnswerPatient, ChangeAnswerPatient DEF AnswerCall
<1>7. ASSUME NEW c \in Slots, LoseCall(c) PROVE Patient'
  <2>1. haste \in 0 .. MaxHaste /\ Confused
    BY <1>7, BaseFacts DEF LoseCall
  <2>2. haste' # 0
    BY <2>1, ConfusedFacts
  <2> QED BY <2>2 DEF Patient
<1>8. CASE UNCHANGED paneVars
  <2>1. /\ table' = table /\ issued' = issued /\ token' = token /\ accounts' = accounts /\ page' = page
        /\ calls' = calls /\ haste' = haste /\ pane' = pane
    BY <1>8 DEF paneVars, vars, serverVars
  <2>2. pane'.tab = pane.tab /\ pane'.id = pane.id /\ pane'.name = pane.name /\ pane'.original = pane.original
    BY <2>1
  <2> QED BY <2>1, <2>2, SamePatient
<1> QED BY <1>1, <1>2, <1>3, <1>4, <1>5, <1>6, <1>7, <1>8 DEF PaneNext

-----------------------------------------------------------------------------
(* The theorems. *)

(* Both invariants hold of every reachable state. *)
LEMMA Inductive == PaneSpec => [](BaseInv /\ Patient)
<1>1. PaneInit => BaseInv /\ Patient
  BY BaseInitially, PatientInitially
<1>2. BaseInv /\ Patient /\ [PaneNext]_paneVars => (BaseInv /\ Patient)'
  BY BaseStep, PatientStep
<1> QED BY <1>1, <1>2, PTL DEF PaneSpec

(* Every variable of the session and of the pane has its type, whatever the user does and the
   network loses. *)
THEOREM TypeCorrect == PaneSpec => []PaneTypeOK
<1>1. BaseInv => PaneTypeOK
  BY DEF BaseInv
<1> QED BY <1>1, Inductive, PTL

(* The copies of the accounts in the list and in the form are what the server has, once the
   requests of a user who waits are answered (Accounts.tsx:58-90, account/reducer.ts:54-72). *)
THEOREM CopiesAlwaysAgree == PaneSpec => []CopiesAgree
<1>1. BaseInv /\ Patient => CopiesAgree
  <2> SUFFICES ASSUME BaseInv, Patient, Settled
               PROVE  /\ IsRoot(token) => /\ Listing = {[id |-> i, name |-> table[i]] : i \in Present}
                                          /\ Len(accounts) = Cardinality(Present)
                      /\ pane.tab = "edit" /\ pane.id # 0 /\ pane.name = pane.original => table[pane.id] = pane.name
    BY DEF CopiesAgree, AccountsAgree, SavedIsStored
  <2>1. haste = 0 /\ InFlight = {} /\ page = "dashboard"
    BY DEF Settled, Quiet
  <2>2. FormIn(table) /\ (IsRoot(token) => Copy(accounts, table))
    BY <2>1, QuietFacts
  <2>3. IsRoot(token) => /\ Listing = {[id |-> i, name |-> table[i]] : i \in Present}
                         /\ Len(accounts) = Cardinality(Present)
    BY <2>2, CopyFacts
  <2> QED BY <2>2, <2>3 DEF FormIn
<1> QED BY <1>1, Inductive, PTL

(* The token of the tab is the one that is stored, and names its account as the server does, after
   the account has renamed itself too (Accounts.tsx:134-139). *)
THEOREM TokenAlwaysAgrees == PaneSpec => []TokenAgrees
<1>1. BaseInv /\ Patient => TokenAgrees
  <2> SUFFICES ASSUME BaseInv, Patient PROVE TokenAgrees
    OBVIOUS
  <2>1. stored = token
    BY DEF BaseInv, PlaceInv
  <2>2. Settled => NamedIn(token, table)
    BY QuietFacts DEF Settled, Quiet
  <2> QED BY <2>1, <2>2 DEF TokenAgrees, NamedIn
<1> QED BY <1>1, Inductive, PTL

-----------------------------------------------------------------------------
(* The server implements Accounts. *)

ServerSame == UNCHANGED <<ServerRows, nextId, ServerTokens>>

(* The helpers of Accounts, said of the server. *)
LEMMA PromiseFacts ==
  ASSUME BaseInv
  PROVE  /\ Promise!Ids = Ids /\ Promise!Present = Present
         /\ \A i \in Present : /\ ServerRows[i] = [name |-> table[i], root |-> i = 1]
                                /\ ServerRows[i].name = table[i] /\ ServerRows[i].root = (i = 1)
                                /\ Promise!TokenOf(i) = [id |-> i, root |-> i = 1]
         /\ \A name, id : (\A i \in Present \ {id} : table[i] # name) => Promise!Free(name, id)
<1>1. Promise!Ids = Ids
  BY DEF Promise!Ids, Ids
<1>2. table \in Tables
  BY BaseFacts
<1>3. ASSUME NEW i \in Ids
      PROVE  /\ table[i] # None => /\ ServerRows[i] = [name |-> table[i], root |-> i = 1]
                                   /\ ServerRows[i].name = table[i] /\ ServerRows[i].root = (i = 1)
                                   /\ ServerRows[i] # None
             /\ table[i] = None => ServerRows[i] = None
  <2>1. CASE table[i] # None
    <3>1. PICK r \in BOOLEAN : r = (i = 1)
      OBVIOUS
    <3>2. PICK row : row = [name |-> table[i], root |-> r]
      OBVIOUS
    <3>3. row \in [name : Names, root : BOOLEAN] /\ row.name = table[i] /\ row.root = r
      BY <1>2, <2>1, <3>2 DEF Tables
    <3>4. ServerRows[i] = row
      BY <2>1, <3>1, <3>2 DEF ServerRows
    <3> QED BY <2>1, <3>1, <3>2, <3>3, <3>4, RowsAssumption
  <2>2. CASE table[i] = None
    BY <2>2 DEF ServerRows
  <2> QED BY <2>1, <2>2
<1>4. Promise!Present = Present
  BY <1>1, <1>3 DEF Promise!Present, Present
<1>5. ASSUME NEW i \in Present
      PROVE  /\ ServerRows[i] = [name |-> table[i], root |-> i = 1]
             /\ ServerRows[i].name = table[i] /\ ServerRows[i].root = (i = 1)
  BY <1>3 DEF Present
<1>6. \A i \in Present : Promise!TokenOf(i) = [id |-> i, root |-> i = 1]
  BY <1>5 DEF Promise!TokenOf
<1>7. ASSUME NEW name, NEW id, \A i \in Present \ {id} : table[i] # name PROVE Promise!Free(name, id)
  <2>1. \A i \in Present : ServerRows[i].name = table[i]
    BY <1>5
  <2> QED BY <1>4, <1>7, <2>1 DEF Promise!Free
<1> QED BY <1>1, <1>4, <1>5, <1>6, <1>7

(* A token that is issued is given. *)
LEMMA GivenFacts ==
  ASSUME BaseInv, NEW id \in Ids, NEW name \in Names, Issue(id, name)
  PROVE  ServerTokens' = ServerTokens \cup {[id |-> id, root |-> id = 1]}
<1>1. PICK row : row = [id |-> id, name |-> name]
  OBVIOUS
<1>2. row \in Row /\ row.id = id
  BY <1>1 DEF Row
<1>3. issued' = Append(issued, row) /\ valid' = valid \cup {Len(issued) + 1}
  BY <1>1 DEF Issue
<1>4. issued'[Len(issued) + 1] = row /\ \A tok \in 1 .. Len(issued) : issued'[tok] = issued[tok]
  BY <1>2, <1>3, IssuedFacts
<1>5. valid \subseteq 1 .. Len(issued)
  BY BaseFacts
<1>6. PICK n : n = Len(issued) + 1
  OBVIOUS
<1> DEFINE given(t) == [id |-> issued[t].id, root |-> issued[t].id = 1]
           given2(t) == [id |-> issued'[t].id, root |-> issued'[t].id = 1]
<1>7. \A t \in valid : given2(t) = given(t)
  BY <1>4, <1>5
<1>8. given2(n) = [id |-> id, root |-> id = 1]
  BY <1>2, <1>4, <1>6
<1>9. ServerTokens = {given(t) : t \in valid} /\ ServerTokens' = {given2(t) : t \in valid'}
  BY DEF ServerTokens
<1> HIDE DEF given, given2
<1>10. valid' = valid \cup {n}
  BY <1>3, <1>6
<1>11. {given2(t) : t \in valid'} = {given(t) : t \in valid} \cup {given2(n)}
  BY <1>7, <1>10
<1> QED BY <1>8, <1>9, <1>11

(* The rows, when one of the table changes. *)
LEMMA RowsChanged ==
  ASSUME BaseInv, NEW i \in Ids, NEW name \in Names \cup {None}, table' = [table EXCEPT ![i] = name]
  PROVE  ServerRows' = [ServerRows EXCEPT ![i] = IF name = None THEN None ELSE [name |-> name, root |-> i = 1]]
<1>1. table \in Tables
  BY BaseFacts
<1>2. \A j \in Ids : table'[j] = IF j = i THEN name ELSE table[j]
  BY <1>1 DEF Tables
<1> DEFINE at(j, t) == IF t = None THEN None ELSE [name |-> t, root |-> j = 1]
<1>3. ServerRows = [j \in Ids |-> at(j, table[j])] /\ ServerRows' = [j \in Ids |-> at(j, table'[j])]
  BY DEF ServerRows, Ids
<1> SUFFICES ServerRows' = [ServerRows EXCEPT ![i] = at(i, name)]
  OBVIOUS
<1> HIDE DEF at
<1> QED BY <1>2, <1>3

(* Nothing is promised of a step that leaves the server alone. *)
LEMMA ServerAlone == ASSUME UNCHANGED serverVars PROVE ServerSame
<1>1. UNCHANGED <<table, nextId, issued, valid>>
  BY DEF serverVars
<1> QED BY <1>1 DEF ServerSame, ServerRows, ServerTokens, Ids

(* A claim, and the account that the root account makes. *)
LEMMA RowAdded ==
  ASSUME BaseInv, nextId \in Ids, NEW name \in Names, \A i \in Present : table[i] # name,
         table' = [table EXCEPT ![nextId] = name], nextId' = nextId + 1,
         \/ nextId = 1 /\ ServerTokens' = ServerTokens \cup {[id |-> nextId, root |-> nextId = 1]}
         \/ nextId # 1 /\ ServerTokens' = ServerTokens
  PROVE  Promise!Answers
<1>1. name # None
  BY Bounds
<1>2. PICK root \in BOOLEAN : root = (nextId = 1)
  OBVIOUS
<1>3. Promise!Free(name, None) /\ nextId \in Promise!Ids
  BY PromiseFacts
<1>4. ServerRows' = [ServerRows EXCEPT ![nextId] = [name |-> name, root |-> root]]
  <2>1. ServerRows' = [ServerRows EXCEPT ![nextId] = IF name = None THEN None ELSE [name |-> name, root |-> nextId = 1]]
    BY RowsChanged
  <2> QED BY <1>1, <1>2, <2>1
<1>5. root \/ nextId > 1
  <2>1. nextId \in Nat /\ nextId >= 1
    BY Bounds DEF Ids
  <2>2. nextId = 1 => root
    BY <1>2
  <2> QED BY <2>1, <2>2
<1>6. ServerTokens' = IF root THEN ServerTokens \cup {[id |-> nextId, root |-> TRUE]} ELSE ServerTokens
  <2>1. CASE nextId = 1
    <3>1. root = TRUE /\ (nextId = 1) = root
      BY <1>2, <2>1
    <3> QED BY <2>1, <3>1
  <2>2. CASE nextId # 1
    BY <1>2, <2>2
  <2> QED BY <2>1, <2>2
<1>7. Promise!Add(name, root)
  BY <1>3, <1>4, <1>5, <1>6 DEF Promise!Add
<1> QED BY <1>2, <1>7 DEF Promise!Answers

(* An account that is there is given another name, and a token or none. *)
LEMMA RowRenamed ==
  ASSUME BaseInv, NEW id \in Present, NEW name \in Names, \A i \in Present \ {id} : table[i] # name,
         table' = [table EXCEPT ![id] = name], UNCHANGED nextId,
         ServerTokens' \in {ServerTokens, ServerTokens \cup {[id |-> id, root |-> id = 1]}}
  PROVE  Promise!Answers
<1>1. name # None /\ id \in Ids
  BY Bounds DEF Present
<1>2. Promise!Free(name, id) /\ id \in Promise!Present /\ id \in Promise!Ids
  BY <1>1, PromiseFacts
<1>3. ServerRows' = [ServerRows EXCEPT ![id] = [name |-> name, root |-> id = 1]]
  <2>1. ServerRows' = [ServerRows EXCEPT ![id] = IF name = None THEN None ELSE [name |-> name, root |-> id = 1]]
    BY <1>1, RowsChanged
  <2> QED BY <1>1, <2>1
<1>4. [ServerRows EXCEPT ![id].name = name] = [ServerRows EXCEPT ![id] = [name |-> name, root |-> id = 1]]
  <2>1. PICK rows, old : rows = ServerRows /\ old = rows[id]
    OBVIOUS
  <2>2. PICK root : root = (id = 1)
    OBVIOUS
  <2>3. old = [name |-> table[id], root |-> root]
    BY <2>1, <2>2, PromiseFacts
  <2>4. [old EXCEPT !.name = name] = [name |-> name, root |-> root]
    BY <2>3
  <2>5. [rows EXCEPT ![id].name = name] = [rows EXCEPT ![id] = [old EXCEPT !.name = name]]
    BY <2>1
  <2> QED BY <2>1, <2>2, <2>4, <2>5
<1>5. ServerTokens' \in {ServerTokens, ServerTokens \cup {Promise!TokenOf(id)}}
  BY PromiseFacts
<1>6. Promise!Rename(id, name)
  BY <1>2, <1>3, <1>4, <1>5 DEF Promise!Rename
<1> QED BY <1>2, <1>6 DEF Promise!Answers

(* The row of an account goes, if it is not the root account. *)
LEMMA RowRemoved ==
  ASSUME BaseInv, NEW id \in Ids, id # 1, table' = [table EXCEPT ![id] = None], UNCHANGED nextId,
         ServerTokens' = ServerTokens
  PROVE  Promise!Answers
<1>1. PICK rows, rows2 : rows = ServerRows /\ rows2 = ServerRows'
  OBVIOUS
<1>2. rows2 = [rows EXCEPT ![id] = None]
  BY <1>1, RowsChanged
<1>3. rows = [i \in Ids |-> rows[i]]
  BY <1>1 DEF ServerRows
<1>4. \A i \in Present : rows[i].root = (i = 1)
  BY <1>1, PromiseFacts
<1>5. \A i \in Ids : i \notin Present => rows[i] = None
  BY <1>1 DEF ServerRows, Present
<1>6. rows2 = [i \in Ids |-> IF i \in {id} \cap Present /\ ~ rows[i].root THEN None ELSE rows[i]]
  <2>1. \A i \in Ids : rows2[i] = IF i \in {id} \cap Present /\ ~ rows[i].root THEN None ELSE rows[i]
    BY <1>2, <1>3, <1>4, <1>5
  <2>2. rows2 = [i \in Ids |-> rows2[i]]
    BY <1>2, <1>3
  <2> QED BY <2>1, <2>2
<1>7. Promise!Ids = Ids /\ Promise!Present = Present
  BY PromiseFacts
<1>8. Promise!Remove({id})
  BY <1>1, <1>6, <1>7 DEF Promise!Remove
<1>9. {id} \in SUBSET Promise!Ids
  BY <1>7
<1> QED BY <1>8, <1>9 DEF Promise!Answers

(* The requests of the session, as the server answers them. *)
LEMMA ServeAnswers ==
  ASSUME BaseInv, NEW c \in Slots, Serve(c)
  PROVE  Promise!Answers \/ ServerSame
<1>1. Asked(c, AnyKind) => calls[c] \in CallType /\ CallInv(calls[c])
  BY BaseFacts DEF Asked, BaseInv, InFlight, IsCalls
<1>2. CASE ServeClaimed(c) \/ ServeLoad(c) \/ ServeUnauthorized(c) \/ ServeRefused(c)
  BY <1>2, ServerAlone DEF ServeClaimed, ServeLoad, ServeUnauthorized, ServeRefused
<1>3. CASE ServeAuthenticate(c)
  <2>1. PICK i \in Present : Issue(i, table[i])
    BY <1>3 DEF ServeAuthenticate
  <2>2. i \in Ids /\ table[i] \in Names
    BY BaseFacts DEF Present, Tables
  <2>3. ServerTokens' = ServerTokens \cup {[id |-> i, root |-> i = 1]}
    BY <2>1, <2>2, GivenFacts
  <2>4. ServerTokens' = ServerTokens \cup {Promise!TokenOf(i)} /\ i \in Promise!Present /\ i \in Promise!Ids
    BY <2>2, <2>3, PromiseFacts
  <2>5. UNCHANGED <<ServerRows, nextId>>
    BY <1>3 DEF ServeAuthenticate, ServerRows, Ids
  <2>6. Promise!GiveToken(i)
    BY <2>4, <2>5 DEF Promise!GiveToken
  <2> QED BY <2>4, <2>6 DEF Promise!Answers
<1>4. CASE ServeClaim(c)
  <2>1. calls[c].name \in Names
    BY <1>1, <1>4 DEF ServeClaim, Asked, AnyKind, CallInv, SignIns
  <2>2. 1 \in Ids /\ nextId = 1 /\ Present = {}
    <3>1. nextId = 1
      BY <1>4 DEF ServeClaim
    <3>2. \A i \in Ids : table[i] = None
      BY <3>1 DEF BaseInv, PlaceInv, Ids
    <3> QED BY <3>1, <3>2, Bounds DEF Ids, Present
  <2>3. ServerTokens' = ServerTokens \cup {[id |-> 1, root |-> 1 = 1]}
    BY <1>4, <2>1, <2>2, GivenFacts DEF ServeClaim
  <2>4. table' = [table EXCEPT ![nextId] = calls[c].name] /\ nextId' = nextId + 1
    BY <1>4, <2>2 DEF ServeClaim
  <2> QED BY <2>1, <2>2, <2>3, <2>4, RowAdded
<1> QED BY <1>2, <1>3, <1>4 DEF Serve

(* The requests of the pane. *)
LEMMA ServeChangeAnswers ==
  ASSUME BaseInv, NEW c \in Slots, ServeChange(c)
  PROVE  Promise!Answers \/ ServerSame
<1>1. calls[c] \in CallType /\ CallInv(calls[c])
  BY BaseFacts DEF ServeChange, ServeCreate, ServeUpdate, ServeDelete, ServeForbidden, Asked, BaseInv, InFlight, IsCalls
<1>2. valid \subseteq 1 .. Len(issued)
  BY BaseFacts
<1>3. CASE ServeForbidden(c)
  BY <1>3, ServerAlone DEF ServeForbidden
<1>4. CASE ServeCreate(c)
  <2>1. calls[c].name \in Names /\ \A i \in Present : table[i] # calls[c].name
    <3>1. calls[c].name \in Names
      BY <1>1, <1>4 DEF ServeCreate, Asked, CallInv
    <3>2. 0 \notin Present
      BY DEF Present, Ids
    <3> QED BY <1>4, <3>1, <3>2 DEF ServeCreate, Free
  <2>2. nextId # 1
    <3>1. calls[c].tok \in 1 .. Len(issued)
      BY <1>2, <1>4 DEF ServeCreate
    <3>2. issued # <<>>
      BY <3>1
    <3> QED BY <3>2 DEF BaseInv, PlaceInv
  <2>3. ServerTokens' = ServerTokens
    BY <1>4 DEF ServeCreate, ServerTokens
  <2>4. nextId \in Ids /\ table' = [table EXCEPT ![nextId] = calls[c].name] /\ nextId' = nextId + 1
    BY <1>4 DEF ServeCreate
  <2> QED BY <2>1, <2>2, <2>3, <2>4, RowAdded
<1>5. CASE ServeUpdate(c)
  <2>1. calls[c].name \in Names /\ calls[c].id \in Ids
    BY <1>1, <1>5 DEF ServeUpdate, Asked, CallInv
  <2>2. CASE calls[c].id \in Present
    <3>1. PICK id \in Present, name \in Names : id = calls[c].id /\ name = calls[c].name
      BY <2>1, <2>2
    <3>2. (\A i \in Present \ {id} : table[i] # name) /\ table' = [table EXCEPT ![id] = name] /\ UNCHANGED nextId
      BY <1>5, <2>2, <3>1 DEF ServeUpdate, Free
    <3>3. Issue(id, name) \/ UNCHANGED <<issued, valid>>
      BY <1>5, <3>1 DEF ServeUpdate
    <3>4. ServerTokens' \in {ServerTokens, ServerTokens \cup {[id |-> id, root |-> id = 1]}}
      <4>1. CASE Issue(id, name)
        BY <2>1, <3>1, <4>1, GivenFacts
      <4>2. CASE UNCHANGED <<issued, valid>>
        BY <4>2 DEF ServerTokens
      <4> QED BY <3>3, <4>1, <4>2
    <3> QED BY <3>2, <3>4, RowRenamed
  <2>3. CASE calls[c].id \notin Present
    <3>1. UNCHANGED serverVars
      BY <1>5, <2>3 DEF ServeUpdate, serverVars
    <3> QED BY <3>1, ServerAlone
  <2> QED BY <2>2, <2>3
<1>6. CASE ServeDelete(c)
  <2>1. PICK id \in Ids : id = calls[c].id
    BY <1>1, <1>6 DEF ServeDelete, Asked, CallInv
  <2>2. ServerTokens' = ServerTokens /\ UNCHANGED nextId
    BY <1>6 DEF ServeDelete, ServerTokens
  <2>3. CASE id = 1
    <3>1. UNCHANGED serverVars
      BY <1>6, <2>1, <2>3 DEF ServeDelete, serverVars
    <3> QED BY <3>1, ServerAlone
  <2>4. CASE id # 1
    <3>1. table' = [table EXCEPT ![id] = None]
      BY <1>6, <2>1, <2>4 DEF ServeDelete
    <3> QED BY <2>2, <2>4, <3>1, RowRemoved
  <2> QED BY <2>3, <2>4
<1> QED BY <1>3, <1>4, <1>5, <1>6 DEF ServeChange

(* A token that is not accepted any more is invalidated, or another is like it. *)
LEMMA ExpireAnswers ==
  ASSUME NEW t \in valid, Expire(t)
  PROVE  Promise!Answers
<1> DEFINE given(k) == [id |-> issued[k].id, root |-> issued[k].id = 1]
<1>1. valid' = valid \ {t} /\ issued' = issued /\ UNCHANGED <<ServerRows, nextId>>
  BY DEF Expire, ServerRows, Ids
<1>2. ServerTokens = {given(k) : k \in valid} /\ ServerTokens' = {given(k) : k \in valid \ {t}}
  BY <1>1 DEF ServerTokens
<1> HIDE DEF given
<1>3. ServerTokens' \subseteq ServerTokens
  BY <1>2
<1>4. PICK ts \in SUBSET ServerTokens : ServerTokens' = ServerTokens \ ts
  <2>1. PICK a, b : a = ServerTokens /\ b = ServerTokens'
    OBVIOUS
  <2>2. b \subseteq a
    BY <1>3, <2>1
  <2>3. a \ b \in SUBSET a /\ b = a \ (a \ b)
    BY <2>2
  <2> QED BY <2>1, <2>3
<1>5. Promise!Invalidate(ts)
  BY <1>1, <1>4 DEF Promise!Invalidate
<1> QED BY <1>4, <1>5 DEF Promise!Answers

(* Every step is an answer of the server, or leaves it alone: one step per kind of action. *)
LEMMA StepAnswers == BaseInv /\ [PaneNext]_paneVars => [Promise!Answers]_<<ServerRows, nextId, ServerTokens>>
<1> SUFFICES ASSUME BaseInv, [PaneNext]_paneVars PROVE Promise!Answers \/ ServerSame
  BY DEF ServerSame
<1>1. CASE SessionStep
  <2>1. CASE \E t \in valid : Expire(t)
    BY <2>1, ExpireAnswers
  <2>2. CASE UNCHANGED serverVars
    BY <2>2, ServerAlone
  <2>3. \A path : Visit(path) => UNCHANGED serverVars
    BY DEF Visit
  <2>4. \A name : Submit(name) => UNCHANGED serverVars
    BY DEF Submit
  <2>5. \A n : Dismiss(n) => UNCHANGED serverVars
    BY DEF Dismiss
  <2>6. Logout \/ Back => UNCHANGED serverVars
    BY DEF Logout, Back
  <2> QED BY <1>1, <2>1, <2>2, <2>3, <2>4, <2>5, <2>6 DEF SessionStep
<1>2. CASE TogglePane \/ EditAccount \/ DraftAccount \/ BackToList \/ Type \/ AskDelete \/ CancelDelete
  <2>1. UNCHANGED serverVars
    BY <1>2 DEF TogglePane, EditAccount, DraftAccount, BackToList, Type, AskDelete, CancelDelete, vars, serverVars
  <2> QED BY <2>1, ServerAlone
<1>3. CASE Save \/ ConfirmDelete
  <2>1. \A kind : Ask(kind) => UNCHANGED serverVars
    BY DEF Ask
  <2>2. UNCHANGED serverVars
    BY <1>3, <2>1 DEF Save, ConfirmDelete
  <2> QED BY <2>2, ServerAlone
<1>4. ASSUME NEW c \in Slots, ServeCall(c) PROVE Promise!Answers \/ ServerSame
  BY <1>4, ServeAnswers, ServeChangeAnswers DEF ServeCall
<1>5. ASSUME NEW c \in Slots, AnswerCall(c) \/ LoseCall(c) PROVE ServerSame
  <2>1. AnswerChange(c) => UNCHANGED serverVars
    BY DEF AnswerChange, AnswerCreate, AnswerUpdate, AnswerReissue, AnswerDelete, AnswerChangeRefused
  <2>2. SessionAnswer(c) => UNCHANGED serverVars
    BY DEF SessionAnswer, AnswerClaimed, AnswerSignInRefused, AnswerLoad, AnswerSignIn, AnswerUnauthorized
  <2>3. LoseCall(c) => UNCHANGED serverVars
    BY DEF LoseCall, Lose
  <2>4. UNCHANGED serverVars
    BY <1>5, <2>1, <2>2, <2>3 DEF AnswerCall
  <2> QED BY <2>4, ServerAlone
<1>6. CASE UNCHANGED paneVars
  <2>1. UNCHANGED serverVars
    BY <1>6 DEF paneVars, vars
  <2> QED BY <2>1, ServerAlone
<1> QED BY <1>1, <1>2, <1>3, <1>4, <1>5, <1>6 DEF PaneNext

(* Whatever the client asks for, in whatever order and with whatever token, the server behind it
   makes no change to accounts and tokens but those that Accounts promises, as the handlers of
   Account do (server/account.go:60-156). *)
THEOREM ServerAlwaysKeepsPromise == PaneSpec => ServerKeepsPromise
<1>1. PaneInit => Promise!AccountsInit
  <2> SUFFICES ASSUME PaneInit PROVE Promise!AccountsInit
    OBVIOUS
  <2>1. table = [i \in Ids |-> None] /\ nextId = 1 /\ valid = {}
    BY DEF PaneInit, Init
  <2>2. ServerRows = [i \in Promise!Ids |-> None] /\ ServerTokens = {}
    BY <2>1 DEF ServerRows, ServerTokens, Promise!Ids, Ids
  <2> QED BY <2>1, <2>2 DEF Promise!AccountsInit
<1> QED BY <1>1, StepAnswers, Inductive, PTL DEF PaneSpec, ServerKeepsPromise, Promise!AccountsSpec
=============================================================================
