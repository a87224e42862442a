--------------------------- MODULE SettingsProofs ---------------------------
(* Proofs of the safety properties of Settings, for any themes and delimiters,
   any number of requests in progress and any room in the channel. *)
EXTENDS Settings, FiniteSetTheorems, SequenceTheorems, TLAPS

-----------------------------------------------------------------------------
(* The inductive invariants. *)

TabSet ==
  [settings : SettingSet, themes : SUBSET Themes, attr : Names, sheet : Names, failed : BOOLEAN]

(* A request that asks for settings to be stored says which, only such a request
   is ever between a write and a message, and settings that were loaded are some. *)
Sound(call) ==
  call # None =>
    /\ call \in CallSet
    /\ call.kind \in {"save", "other"} => call.value # None /\ call.value.delimiters # None
    /\ call.kind = "save" => call.value.delimiters \in Delimiters
    /\ call.status = "written" => call.kind \in {"save", "other"}
    /\ call.kind = "load" /\ call.status = "ok" => call.value # None

(* Every variable has its type. *)
SettingsTyped ==
  /\ files \subseteq Themes /\ stored \in SettingSet /\ copy \in SettingSet
  /\ queue \in Seq(SettingSet)
  /\ calls \in [Slots -> CallSet \cup {None}] /\ \A c \in Slots : Sound(calls[c])
  /\ tab \in TabSet
  /\ crossed \in BOOLEAN /\ doubt \in BOOLEAN

(* What the distributor will have when its channel is empty. *)
Coming == IF queue = <<>> THEN copy ELSE queue[Len(queue)]

(* Unless two updates crossed, at most one is between its write and its message,
   and it is the one that was stored last; with none, what was stored last is
   what the distributor comes to have. *)
FollowsInv ==
  ~ crossed =>
    /\ \A c, d \in Unqueued : c = d
    /\ \A c \in Unqueued : calls[c].value = stored
    /\ Unqueued = {} => Coming = GetSettings

(* The rules the tab should have when its file has been asked for, and the tab
   when nothing is under way. *)
Rules(t) == IF tab.failed \/ isDefaultTheme(t) THEN None ELSE t
Steady ==
  /\ tab.settings = GetSettings
  /\ tab.attr = stored.theme
  /\ tab.sheet = Rules(stored.theme)

(* The requests of a page that loads, or of a dashboard that is shown again. *)
PageRequest(call) ==
  /\ call.kind \in {"link", "name", "load"}
  /\ call.status # "ok" => call.data = None
  /\ call.status = "ok" =>
       /\ call.kind \in {"link", "name"} => call.data = stored.theme
       /\ call.kind = "link" => stored.theme \in Themes \cup {None}
       /\ call.kind = "load" => call.value = GetSettings
NoneIs(kind) == \A c \in Mine : calls[c].kind # kind
Loading ==
  /\ \A c \in Mine : PageRequest(calls[c])
  /\ NoneIs("link") => tab.sheet = Rules(stored.theme)
  /\ NoneIs("load") => tab.settings = GetSettings /\ tab.attr = stored.theme
  /\ tab.attr \in {None, stored.theme}

(* The request of a save, before and after its settings are stored. *)
Saving ==
  \E c \in Mine :
    /\ Mine = {c} /\ calls[c].kind = "save"
    /\ calls[c].status \in {"asked", "refused"} => Steady
    /\ calls[c].status \in {"written", "ok"} => calls[c].value = stored

(* The request of a theme that is stored, to complete a save or to reload it. *)
Fetching ==
  \E c \in Mine :
    /\ Mine = {c} /\ calls[c].kind = "theme"
    /\ tab.attr = stored.theme /\ stored.theme \in Themes
    /\ IF calls[c].value = None THEN tab.settings = GetSettings ELSE calls[c].value = GetSettings
    /\ calls[c].data = IF calls[c].status = "ok" THEN stored.theme ELSE None

(* A tab without doubt is in one of these three situations. *)
TabInv == ~ doubt => Loading \/ Saving \/ Fetching

SettingsInv == SettingsTyped /\ FollowsInv /\ TabInv

-----------------------------------------------------------------------------
(* Lemmas: what is in a slot, and how a step changes it. *)

(* A request has the fields of one. *)
LEMMA CallFacts ==
  ASSUME NEW call \in CallSet
  PROVE  /\ call.kind \in {"link", "name", "load", "save", "theme", "other"}
         /\ call.status \in {"asked", "written", "ok", "refused"}
         /\ call.value \in SettingSet \cup {None} /\ call.themes \in SUBSET Themes /\ call.data \in Names
BY DEF CallSet

(* A slot that is not free holds a sound request. *)
LEMMA SlotFacts ==
  ASSUME SettingsTyped, NEW c \in Slots, calls[c] # None
  PROVE  /\ calls[c] \in CallSet /\ Sound(calls[c])
         /\ calls[c].kind \in {"link", "name", "load", "save", "theme", "other"}
         /\ calls[c].status \in {"asked", "written", "ok", "refused"}
         /\ calls[c].value \in SettingSet \cup {None} /\ calls[c].themes \in SUBSET Themes
         /\ calls[c].data \in Names
BY CallFacts DEF SettingsTyped

(* A request with another status and datum: nothing else changes. *)
Statuses == {"asked", "written", "ok", "refused"}
WithReply(call, st, d) == [[call EXCEPT !.status = st] EXCEPT !.data = d]

(* A request with another status and datum is a request of the same kind and value. *)
LEMMA ReplyRecord ==
  ASSUME NEW call \in CallSet, NEW st \in Statuses, NEW d \in Names
  PROVE  /\ WithReply(call, st, d) \in CallSet /\ WithReply(call, st, d).kind = call.kind
         /\ WithReply(call, st, d).value = call.value
         /\ WithReply(call, st, d).status = st /\ WithReply(call, st, d).data = d
<1> DEFINE one == [call EXCEPT !.status = st]
<1>1. one \in CallSet /\ one.kind = call.kind /\ one.value = call.value /\ one.status = st
  BY DEF CallSet, Statuses
<1> HIDE DEF one
<1>2. /\ [one EXCEPT !.data = d] \in CallSet /\ [one EXCEPT !.data = d].kind = one.kind
      /\ [one EXCEPT !.data = d].value = one.value /\ [one EXCEPT !.data = d].status = one.status
      /\ [one EXCEPT !.data = d].data = d
  BY <1>1 DEF CallSet
<1> QED BY <1>1, <1>2 DEF one, WithReply

(* A request is answered. *)
LEMMA ReplyFacts ==
  ASSUME SettingsTyped, NEW c \in Slots, calls[c] # None,
         NEW st \in Statuses, NEW d \in Names, Reply(c, st, d),
         st = "written" => calls[c].kind \in {"save", "other"},
         st = "ok" => calls[c].kind # "load"
  PROVE  /\ calls' \in [Slots -> CallSet \cup {None}] /\ \A e \in Slots : Sound(calls'[e])
         /\ calls'[c] # None /\ calls'[c].kind = calls[c].kind /\ calls'[c].value = calls[c].value
         /\ calls'[c].status = st /\ calls'[c].data = d
         /\ \A e \in Slots \ {c} : calls'[e] = calls[e]
<1> DEFINE new == WithReply(calls[c], st, d)
<1>1. calls \in [Slots -> CallSet \cup {None}] /\ calls[c] \in CallSet /\ \A e \in Slots : Sound(calls[e])
  BY DEF SettingsTyped
<1>2. /\ new \in CallSet /\ new.kind = calls[c].kind /\ new.value = calls[c].value
      /\ new.status = st /\ new.data = d
  BY <1>1, ReplyRecord
<1>3. calls' = [calls EXCEPT ![c] = new]
  <2> DEFINE mid == [calls EXCEPT ![c].status = st]
  <2>1. mid = [calls EXCEPT ![c] = [calls[c] EXCEPT !.status = st]]
    OBVIOUS
  <2>2. calls' = [mid EXCEPT ![c] = [mid[c] EXCEPT !.data = d]]
    BY DEF Reply
  <2>3. mid[c] = [calls[c] EXCEPT !.status = st]
    BY <1>1, <2>1
  <2>4. new = [mid[c] EXCEPT !.data = d]
    BY <2>3 DEF WithReply
  <2> HIDE DEF new
  <2>5. [mid EXCEPT ![c] = new] = [calls EXCEPT ![c] = new]
    BY <1>1, <2>1
  <2> QED BY <2>2, <2>4, <2>5
<1>4. new # None
  BY <1>2, NoneAssumption
<1> HIDE DEF new
<1>5. calls'[c] = new /\ \A e \in Slots \ {c} : calls'[e] = calls[e]
  BY <1>1, <1>3
<1>6. calls' \in [Slots -> CallSet \cup {None}]
  BY <1>1, <1>2, <1>3
<1>7. Sound(new)
  BY <1>1, <1>2 DEF Sound
<1> QED BY <1>1, <1>2, <1>4, <1>5, <1>6, <1>7

(* A request is dropped. *)
LEMMA DropFacts ==
  ASSUME SettingsTyped, NEW c \in Slots
  PROVE  /\ [calls EXCEPT ![c] = None] \in [Slots -> CallSet \cup {None}]
         /\ \A e \in Slots : Sound([calls EXCEPT ![c] = None][e])
         /\ [calls EXCEPT ![c] = None][c] = None
         /\ \A e \in Slots \ {c} : [calls EXCEPT ![c] = None][e] = calls[e]
BY DEF SettingsTyped, Sound

(* A request to come takes a slot that is free. *)
LEMMA AddFacts ==
  ASSUME NEW cs \in [Slots -> CallSet \cup {None}], \A c \in Slots : Sound(cs[c]),
         FreeIn(cs) # {}, NEW call \in CallSet, Sound(call)
  PROVE  \E x \in FreeIn(cs) :
           /\ Add(cs, call) \in [Slots -> CallSet \cup {None}] /\ \A c \in Slots : Sound(Add(cs, call)[c])
           /\ Add(cs, call)[x] = call /\ \A c \in Slots \ {x} : Add(cs, call)[c] = cs[c]
           /\ FreeIn(Add(cs, call)) = FreeIn(cs) \ {x}
<1> DEFINE x == CHOOSE c \in FreeIn(cs) : TRUE
<1>1. x \in FreeIn(cs) /\ x \in Slots
  BY DEF FreeIn
<1>2. Add(cs, call) = [cs EXCEPT ![x] = call]
  BY DEF Add
<1>3. call # None
  BY NoneAssumption
<1> HIDE DEF x
<1>4. /\ Add(cs, call) \in [Slots -> CallSet \cup {None}]
      /\ Add(cs, call)[x] = call /\ \A c \in Slots \ {x} : Add(cs, call)[c] = cs[c]
  BY <1>1, <1>2
<1>5. \A c \in Slots : Sound(Add(cs, call)[c])
  BY <1>4
<1>6. FreeIn(Add(cs, call)) = FreeIn(cs) \ {x}
  BY <1>1, <1>3, <1>4 DEF FreeIn
<1> QED BY <1>1, <1>4, <1>5, <1>6

(* What a request of the tab consists of. *)
LEMMA NewCallFacts ==
  ASSUME tab \in TabSet, NEW kind \in {"link", "name", "load", "save", "theme", "other"},
         NEW value \in SettingSet \cup {None},
         kind \in {"save", "other"} => value # None /\ value.delimiters # None,
         kind = "save" => value.delimiters \in Delimiters
  PROVE  /\ Call(kind, value) \in CallSet /\ Sound(Call(kind, value))
         /\ Call(kind, value).kind = kind /\ Call(kind, value).status = "asked"
         /\ Call(kind, value).value = value /\ Call(kind, value).data = None
<1> DEFINE new == [kind |-> kind, status |-> "asked", value |-> value, themes |-> tab.themes, data |-> None]
<1>1. new.kind = kind /\ new.status = "asked" /\ new.value = value /\ new.data = None
  OBVIOUS
<1>2. new \in CallSet
  BY DEF CallSet, TabSet, Names
<1> HIDE DEF new
<1>3. Sound(new)
  BY <1>1, <1>2 DEF Sound
<1>4. Call(kind, value) = new
  BY DEF Call, new
<1> QED BY <1>1, <1>2, <1>3, <1>4

(* A request that asks for nothing to be stored. *)
LEMMA PlainCallFacts ==
  ASSUME tab \in TabSet, NEW kind \in {"load", "theme"}
  PROVE  /\ Call(kind, None) \in CallSet /\ Sound(Call(kind, None))
         /\ Call(kind, None).kind = kind /\ Call(kind, None).status = "asked"
         /\ Call(kind, None).value = None /\ Call(kind, None).data = None
BY NewCallFacts

(* What a loading page asks. *)
LEMMA PageCallFacts ==
  ASSUME tab \in TabSet, NEW kind \in {"link", "name", "load"}
  PROVE  /\ PageCall(kind) \in CallSet /\ Sound(PageCall(kind))
         /\ PageCall(kind).kind = kind /\ PageCall(kind).status = "asked"
         /\ PageCall(kind).value = None /\ PageCall(kind).data = None
<1> DEFINE new == [kind |-> kind, status |-> "asked", value |-> None, themes |-> {}, data |-> None]
<1>1. new.kind = kind /\ new.status = "asked" /\ new.value = None /\ new.data = None
  OBVIOUS
<1>2. new \in CallSet
  BY DEF CallSet, Names
<1>3. PageCall(kind) = new
  BY DEF PageCall, Call
<1> HIDE DEF new
<1>4. Sound(new)
  BY <1>1, <1>2 DEF Sound
<1> QED BY <1>1, <1>2, <1>3, <1>4

(* The three requests of a page take three slots. *)
LEMMA OpenedFacts ==
  ASSUME tab \in TabSet, NEW cs \in [Slots -> CallSet \cup {None}], \A c \in Slots : Sound(cs[c]),
         Cardinality(FreeIn(cs)) >= 3
  PROVE  \E x, y, z \in FreeIn(cs) :
           /\ x # y /\ y # z /\ x # z
           /\ Opened(cs) \in [Slots -> CallSet \cup {None}] /\ \A c \in Slots : Sound(Opened(cs)[c])
           /\ Opened(cs)[x] = PageCall("link") /\ Opened(cs)[y] = PageCall("name")
           /\ Opened(cs)[z] = PageCall("load")
           /\ \A c \in Slots \ {x, y, z} : Opened(cs)[c] = cs[c]
<1> DEFINE F == FreeIn(cs)
           one == Add(cs, PageCall("link"))
           two == Add(one, PageCall("name"))
<1>0. /\ PageCall("link") \in CallSet /\ Sound(PageCall("link"))
      /\ PageCall("name") \in CallSet /\ Sound(PageCall("name"))
      /\ PageCall("load") \in CallSet /\ Sound(PageCall("load"))
  BY PageCallFacts
<1>1. IsFiniteSet(F) /\ Cardinality(F) \in Nat
  <2>1. IsFiniteSet(Slots)
    BY SettingsAssumption, FS_Interval DEF Slots
  <2>2. IsFiniteSet(F)
    BY <2>1, FS_Subset DEF FreeIn
  <2> QED BY <2>2, FS_CardinalityType
<1>2. F # {}
  BY <1>1, FS_EmptySet
<1>3. PICK x \in F :
        /\ one \in [Slots -> CallSet \cup {None}] /\ \A c \in Slots : Sound(one[c])
        /\ one[x] = PageCall("link") /\ \A c \in Slots \ {x} : one[c] = cs[c]
        /\ FreeIn(one) = F \ {x}
  BY <1>0, <1>2, AddFacts
<1>4. IsFiniteSet(F \ {x}) /\ Cardinality(F \ {x}) = Cardinality(F) - 1
  BY <1>1, FS_RemoveElement
<1>5. F \ {x} # {}
  BY <1>1, <1>4, FS_EmptySet
<1> HIDE DEF one
<1>6. PICK y \in F \ {x} :
        /\ two \in [Slots -> CallSet \cup {None}] /\ \A c \in Slots : Sound(two[c])
        /\ two[y] = PageCall("name") /\ \A c \in Slots \ {y} : two[c] = one[c]
        /\ FreeIn(two) = (F \ {x}) \ {y}
  BY <1>0, <1>3, <1>5, AddFacts
<1>7. (F \ {x}) \ {y} # {}
  <2>1. Cardinality((F \ {x}) \ {y}) = Cardinality(F \ {x}) - 1
    BY <1>4, FS_RemoveElement
  <2> QED BY <1>1, <1>4, <2>1, FS_EmptySet
<1> HIDE DEF two
<1>8. PICK z \in (F \ {x}) \ {y} :
        /\ Add(two, PageCall("load")) \in [Slots -> CallSet \cup {None}]
        /\ \A c \in Slots : Sound(Add(two, PageCall("load"))[c])
        /\ Add(two, PageCall("load"))[z] = PageCall("load")
        /\ \A c \in Slots \ {z} : Add(two, PageCall("load"))[c] = two[c]
  BY <1>0, <1>6, <1>7, AddFacts
<1>9. Opened(cs) = Add(two, PageCall("load"))
  BY DEF Opened, one, two
<1>10. F \subseteq Slots
  BY DEF FreeIn
<1> HIDE DEF F
<1>11. x # y /\ y # z /\ x # z /\ x \in F /\ y \in F /\ z \in F
  BY <1>6, <1>8
<1>12. /\ Opened(cs)[x] = PageCall("link") /\ Opened(cs)[y] = PageCall("name")
       /\ \A c \in Slots \ {x, y, z} : Opened(cs)[c] = cs[c]
  BY <1>3, <1>6, <1>8, <1>9, <1>10, <1>11
<1> QED BY <1>8, <1>9, <1>11, <1>12 DEF F

(* What is left of the requests of a page that is gone. *)
LEMMA AbandonedFacts ==
  ASSUME SettingsTyped
  PROVE  /\ Abandoned \in [Slots -> CallSet \cup {None}]
         /\ \A c \in Slots :
              /\ Sound(Abandoned[c])
              /\ Abandoned[c] # None => /\ calls[c] # None /\ Abandoned[c].kind = "other"
                                        /\ Abandoned[c].status = calls[c].status
                                        /\ Abandoned[c].value = calls[c].value
              /\ calls[c] # None /\ calls[c].status = "written" => Abandoned[c] # None
<1>1. \A c \in Slots :
        /\ Abandoned[c] \in CallSet \cup {None} /\ Sound(Abandoned[c])
        /\ Abandoned[c] # None => /\ calls[c] # None /\ Abandoned[c].kind = "other"
                                  /\ Abandoned[c].status = calls[c].status
                                  /\ Abandoned[c].value = calls[c].value
        /\ calls[c] # None /\ calls[c].status = "written" => Abandoned[c] # None
  <2> SUFFICES ASSUME NEW c \in Slots
               PROVE  /\ Abandoned[c] \in CallSet \cup {None} /\ Sound(Abandoned[c])
                      /\ Abandoned[c] # None => /\ calls[c] # None /\ Abandoned[c].kind = "other"
                                                /\ Abandoned[c].status = calls[c].status
                                                /\ Abandoned[c].value = calls[c].value
                      /\ calls[c] # None /\ calls[c].status = "written" => Abandoned[c] # None
    OBVIOUS
  <2>1. CASE calls[c] = None
    BY <2>1, NoneAssumption DEF Abandoned, Mine, Free, Sound
  <2>2. CASE calls[c] # None
    <3>1. /\ calls[c] \in CallSet /\ Sound(calls[c])
      BY <2>2, SlotFacts
    <3>2. CASE calls[c].kind = "other"
      BY <2>2, <3>1, <3>2 DEF Abandoned, Mine, Free
    <3>3. CASE calls[c].kind # "other" /\ calls[c].kind = "save" /\ calls[c].status \in {"asked", "written"}
      <4> DEFINE new == [calls[c] EXCEPT !.kind = "other"]
      <4>1. Abandoned[c] = new
        BY <2>2, <3>3 DEF Abandoned, Mine, Free
      <4>2. /\ new \in CallSet /\ new.kind = "other" /\ new.status = calls[c].status
            /\ new.value = calls[c].value
        BY <3>1 DEF CallSet
      <4> HIDE DEF new
      <4>3. Sound(new) /\ new # None
        BY <2>2, <3>1, <3>3, <4>2, NoneAssumption DEF Sound
      <4> QED BY <2>2, <4>1, <4>2, <4>3
    <3>4. CASE calls[c].kind # "other" /\ ~ (calls[c].kind = "save" /\ calls[c].status \in {"asked", "written"})
      <4>1. Abandoned[c] = None
        BY <2>2, <3>4 DEF Abandoned, Mine, Free
      <4>2. calls[c].status # "written"
        BY <2>2, <3>1, <3>4 DEF Sound
      <4> QED BY <4>1, <4>2 DEF Sound
    <3> QED BY <3>2, <3>3, <3>4
  <2> QED BY <2>1, <2>2
<1>2. Abandoned = [c \in Slots |-> Abandoned[c]]
  BY DEF Abandoned
<1> QED BY <1>1, <1>2

(* A request is made: it takes a slot, and the others stay. *)
LEMMA AskFacts ==
  ASSUME SettingsTyped, NEW call \in CallSet, Sound(call), Ask(call)
  PROVE  /\ calls' \in [Slots -> CallSet \cup {None}] /\ \A c \in Slots : Sound(calls'[c])
         /\ \E x \in Slots : /\ calls[x] = None /\ calls'[x] = call
                              /\ \A c \in Slots \ {x} : calls'[c] = calls[c]
<1>1. FreeIn(calls) # {} /\ calls' = Add(calls, call)
  BY DEF Ask, Free, FreeIn
<1>2. calls \in [Slots -> CallSet \cup {None}] /\ \A c \in Slots : Sound(calls[c])
  BY DEF SettingsTyped
<1> QED BY <1>1, <1>2, AddFacts DEF FreeIn

(* The link of the page is removed with the request for it. *)
LEMMA CleanFacts ==
  ASSUME NEW cs \in [Slots -> CallSet \cup {None}], \A c \in Slots : Sound(cs[c])
  PROVE  /\ Clean(cs) \in [Slots -> CallSet \cup {None}]
         /\ \A c \in Slots : /\ Sound(Clean(cs)[c])
                             /\ \/ Clean(cs)[c] = cs[c]
                                \/ cs[c] # None /\ cs[c].kind = "link" /\ Clean(cs)[c] = None
<1>1. \A c \in Slots :
        \/ Clean(cs)[c] = cs[c]
        \/ cs[c] # None /\ cs[c].kind = "link" /\ Clean(cs)[c] = None
  BY DEF Clean
<1>2. Clean(cs) = [c \in Slots |-> Clean(cs)[c]]
  BY DEF Clean
<1>3. \A c \in Slots : Sound(Clean(cs)[c])
  BY <1>1 DEF Sound
<1> QED BY <1>1, <1>2, <1>3

(* A save whose tab is gone. *)
LEMMA OrphanFacts ==
  ASSUME SettingsTyped, NEW c \in Slots, calls[c] # None, calls[c].kind = "save",
         calls' = [calls EXCEPT ![c].kind = "other"]
  PROVE  /\ calls' \in [Slots -> CallSet \cup {None}] /\ \A e \in Slots : Sound(calls'[e])
         /\ calls'[c] # None /\ calls'[c].kind = "other" /\ calls'[c].value = calls[c].value
         /\ calls'[c].status = calls[c].status
         /\ \A e \in Slots \ {c} : calls'[e] = calls[e]
<1> DEFINE new == [calls[c] EXCEPT !.kind = "other"]
<1>1. calls \in [Slots -> CallSet \cup {None}] /\ calls[c] \in CallSet /\ \A e \in Slots : Sound(calls[e])
  BY DEF SettingsTyped
<1>2. /\ new \in CallSet /\ new.kind = "other" /\ new.status = calls[c].status
      /\ new.value = calls[c].value
  BY <1>1 DEF CallSet
<1>3. calls' = [calls EXCEPT ![c] = new]
  OBVIOUS
<1> HIDE DEF new
<1>4. Sound(new) /\ new # None
  BY <1>1, <1>2, NoneAssumption DEF Sound
<1>5. calls'[c] = new /\ \A e \in Slots \ {c} : calls'[e] = calls[e]
  BY <1>1, <1>3
<1> QED BY <1>1, <1>2, <1>3, <1>4, <1>5

(* An answer to a load carries the settings that are stored. *)
LEMMA LoadedFacts ==
  ASSUME SettingsTyped, NEW c \in Slots, ServeLoad(c)
  PROVE  /\ calls' \in [Slots -> CallSet \cup {None}] /\ \A e \in Slots : Sound(calls'[e])
         /\ calls[c] # None /\ calls[c].kind = "load" /\ calls[c].status = "asked"
         /\ calls'[c] # None /\ calls'[c].kind = "load" /\ calls'[c].value = GetSettings
         /\ calls'[c].status = "ok" /\ calls'[c].data = calls[c].data
         /\ \A e \in Slots \ {c} : calls'[e] = calls[e]
<1> DEFINE one == [calls[c] EXCEPT !.status = "ok"]
           two == [one EXCEPT !.value = GetSettings]
           new == [two EXCEPT !.themes = files]
<1>1. calls \in [Slots -> CallSet \cup {None}] /\ calls[c] # None /\ \A e \in Slots : Sound(calls[e])
  BY DEF SettingsTyped, ServeLoad, Is, Free
<1>2. calls[c] \in CallSet /\ calls[c].kind = "load" /\ calls[c].status = "asked"
  BY <1>1, SlotFacts DEF ServeLoad, Is
<1>3. one \in CallSet /\ one.kind = "load" /\ one.status = "ok" /\ one.data = calls[c].data
  BY <1>2 DEF CallSet
<1> HIDE DEF one
<1>4. GetSettings \in SettingSet
  BY SettingsAssumption DEF SettingsTyped, GetSettings, SettingSet
<1>5. /\ two \in CallSet /\ two.kind = "load" /\ two.status = "ok" /\ two.value = GetSettings
      /\ two.data = calls[c].data
  BY <1>3, <1>4 DEF CallSet
<1> HIDE DEF two
<1>6. /\ new \in CallSet /\ new.kind = "load" /\ new.status = "ok" /\ new.value = GetSettings
      /\ new.data = calls[c].data
  BY <1>5 DEF CallSet, SettingsTyped
<1> HIDE DEF new
<1>7. calls' = [calls EXCEPT ![c] = new]
  <2> DEFINE a == [calls EXCEPT ![c] = one]
             b == [a EXCEPT ![c] = two]
  <2>1. a[c] = one /\ b[c] = two
    BY <1>1
  <2>2. [calls EXCEPT ![c].status = "ok"] = a
    BY <1>1 DEF one
  <2>3. [a EXCEPT ![c].value = GetSettings] = b
    BY <2>1 DEF two
  <2>4. calls' = [b EXCEPT ![c].themes = files]
    BY <2>2, <2>3 DEF ServeLoad
  <2>5. calls' = [b EXCEPT ![c] = new]
    BY <2>1, <2>4 DEF new
  <2> QED BY <1>1, <2>5
<1>8. Sound(new) /\ new # None
  BY <1>4, <1>6, NoneAssumption DEF Sound
<1>9. calls'[c] = new /\ \A e \in Slots \ {c} : calls'[e] = calls[e]
  BY <1>1, <1>7
<1> QED BY <1>1, <1>2, <1>6, <1>7, <1>8, <1>9

(* The settings the server answers with, whatever rows it has. *)
LEMMA GetSettingsFacts ==
  ASSUME stored \in SettingSet
  PROVE  /\ GetSettings \in SettingSet /\ GetSettings.theme = stored.theme
         /\ stored.delimiters # None => GetSettings = stored
BY SettingsAssumption DEF GetSettings, SettingSet

-----------------------------------------------------------------------------
(* Every variable keeps its type. *)

(* Initially. *)
LEMMA TypedInit == Init => SettingsTyped
<1> SUFFICES ASSUME Init PROVE SettingsTyped
  OBVIOUS
<1>1. files \subseteq Themes /\ stored \in SettingSet
  BY SettingsAssumption DEF Init, Setting, SettingSet, Names
<1>2. tab \in TabSet
  BY DEF Init, Fresh, TabSet, settingsDefault, Setting, SettingSet, Names
<1> DEFINE none == [c \in Slots |-> None]
<1>3. none \in [Slots -> CallSet \cup {None}] /\ \A c \in Slots : Sound(none[c])
  BY DEF Sound
<1>4. Cardinality(FreeIn(none)) >= 3
  <2>1. FreeIn(none) = 1 .. MaxCalls
    BY DEF FreeIn, Slots
  <2> QED BY <2>1, SettingsAssumption, FS_Interval
<1> HIDE DEF none
<1>5. Opened(none) \in [Slots -> CallSet \cup {None}] /\ \A c \in Slots : Sound(Opened(none)[c])
  BY <1>2, <1>3, <1>4, OpenedFacts
<1>6. calls = Opened(none)
  BY DEF Init, none
<1>7. copy \in SettingSet /\ queue \in Seq(SettingSet) /\ crossed \in BOOLEAN /\ doubt \in BOOLEAN
  <2>1. GetSettings \in SettingSet
    BY <1>1, GetSettingsFacts
  <2>2. queue = <<>> /\ copy = GetSettings /\ crossed = FALSE /\ doubt = FALSE
    BY DEF Init
  <2>3. <<>> \in Seq(SettingSet)
    BY EmptySeq
  <2> QED BY <2>1, <2>2, <2>3
<1> QED BY <1>1, <1>2, <1>5, <1>6, <1>7 DEF SettingsTyped

(* What the calls are when the page is loaded. *)
LEMMA VisitFacts ==
  ASSUME SettingsTyped, Visit
  PROVE  \E x, y, z \in Slots :
           /\ x # y /\ y # z /\ x # z
           /\ Abandoned[x] = None /\ Abandoned[y] = None /\ Abandoned[z] = None
           /\ calls' \in [Slots -> CallSet \cup {None}] /\ \A c \in Slots : Sound(calls'[c])
           /\ calls'[x] = PageCall("link") /\ calls'[y] = PageCall("name") /\ calls'[z] = PageCall("load")
           /\ \A c \in Slots \ {x, y, z} : calls'[c] = Abandoned[c]
<1> DEFINE left == Abandoned
<1>1. left \in [Slots -> CallSet \cup {None}] /\ \A c \in Slots : Sound(left[c])
  BY AbandonedFacts
<1>2. Cardinality(FreeIn(left)) >= 3 /\ calls' = Opened(left)
  BY DEF Visit
<1>3. tab \in TabSet
  BY DEF SettingsTyped
<1> HIDE DEF left
<1>4. \A c \in FreeIn(left) : c \in Slots /\ left[c] = None
  BY DEF FreeIn
<1>5. PICK x, y, z \in FreeIn(left) :
        /\ x # y /\ y # z /\ x # z
        /\ calls' \in [Slots -> CallSet \cup {None}] /\ \A c \in Slots : Sound(calls'[c])
        /\ calls'[x] = PageCall("link") /\ calls'[y] = PageCall("name") /\ calls'[z] = PageCall("load")
        /\ \A c \in Slots \ {x, y, z} : calls'[c] = left[c]
  BY <1>1, <1>2, <1>3, OpenedFacts
<1> QED BY <1>4, <1>5 DEF left

(* The request a user makes is sound. *)
LEMMA SaveFacts ==
  ASSUME SettingsTyped, NEW t \in Names, NEW d \in Delimiters \cup {Blank},
         NEW kind \in {"save", "other"}, kind = "save" => d \in Delimiters
  PROVE  /\ Call(kind, Setting(t, d)) \in CallSet /\ Sound(Call(kind, Setting(t, d)))
         /\ Call(kind, Setting(t, d)).kind = kind /\ Call(kind, Setting(t, d)).status = "asked"
<1> DEFINE s == Setting(t, d)
<1>1. s \in SettingSet /\ s.delimiters = d
  BY DEF Setting, SettingSet
<1>2. s # None /\ d # None
  BY <1>1, NoneAssumption, SettingsAssumption
<1>3. tab \in TabSet
  BY DEF SettingsTyped
<1> HIDE DEF s
<1>4. Call(kind, s) \in CallSet /\ Sound(Call(kind, s)) /\ Call(kind, s).kind = kind /\ Call(kind, s).status = "asked"
  BY <1>1, <1>2, <1>3, NewCallFacts
<1> QED BY <1>4 DEF s

(* A slot is emptied, and so is that of the link. *)
LEMMA CleanWithoutFacts ==
  ASSUME SettingsTyped, NEW c \in Slots
  PROVE  /\ Clean(Without(c)) \in [Slots -> CallSet \cup {None}]
         /\ Clean(Without(c))[c] = None
         /\ \A e \in Slots :
              /\ Sound(Clean(Without(c))[e])
              /\ e # c => \/ Clean(Without(c))[e] = calls[e]
                          \/ calls[e] # None /\ calls[e].kind = "link" /\ Clean(Without(c))[e] = None
<1>1. /\ Without(c) \in [Slots -> CallSet \cup {None}] /\ \A e \in Slots : Sound(Without(c)[e])
      /\ Without(c)[c] = None /\ \A e \in Slots \ {c} : Without(c)[e] = calls[e]
  BY DropFacts DEF Without
<1> DEFINE cs == Without(c)
<1> HIDE DEF cs
<1>2. /\ Clean(cs) \in [Slots -> CallSet \cup {None}]
      /\ \A e \in Slots : /\ Sound(Clean(cs)[e])
                          /\ \/ Clean(cs)[e] = cs[e]
                             \/ cs[e] # None /\ cs[e].kind = "link" /\ Clean(cs)[e] = None
  BY <1>1, CleanFacts DEF cs
<1>3. Clean(cs)[c] = None
  BY <1>1, <1>2 DEF cs
<1> QED BY <1>1, <1>2, <1>3 DEF cs

(* The answer to a save. *)
LEMMA AnswerSaveFacts ==
  ASSUME SettingsTyped, NEW c \in Slots, AnswerSave(c)
  PROVE  /\ calls' \in [Slots -> CallSet \cup {None}] /\ \A e \in Slots : Sound(calls'[e])
         /\ tab' \in TabSet
         /\ calls[c] # None /\ calls[c].kind = "save" /\ calls[c].status \in {"ok", "refused"}
         /\ \/ calls[c].status = "refused" /\ tab' = tab /\ calls'[c] = None
            \/ /\ calls[c].status = "ok" /\ isDefaultTheme(calls[c].value.theme) /\ calls'[c] = None
               /\ tab'.settings = calls[c].value /\ tab'.attr = calls[c].value.theme /\ tab'.sheet = None
            \/ /\ calls[c].status = "ok" /\ ~ isDefaultTheme(calls[c].value.theme) /\ calls'[c] # None
               /\ calls'[c].kind = "theme" /\ calls'[c].status = "asked"
               /\ calls'[c].value = calls[c].value /\ calls'[c].data = None
               /\ tab'.attr = calls[c].value.theme
         /\ \A e \in Slots \ {c} :
              \/ calls'[e] = calls[e]
              \/ calls[e] # None /\ calls[e].kind = "link" /\ calls'[e] = None
<1>0. /\ calls \in [Slots -> CallSet \cup {None}] /\ \A e \in Slots : Sound(calls[e]) /\ tab \in TabSet
  BY DEF SettingsTyped
<1>1. /\ calls[c] # None /\ calls[c].kind = "save" /\ calls[c].status \in {"ok", "refused"}
      /\ Sound(calls[c]) /\ calls[c] \in CallSet
      /\ calls[c].value \in SettingSet \cup {None} /\ calls[c].themes \subseteq Themes
  BY SlotFacts DEF AnswerSave, Answered, Is, Free
<1> DEFINE s == calls[c].value
           th == calls[c].themes
<1>2. s \in SettingSet /\ s.theme \in Names /\ s # None /\ s.delimiters # None
      /\ s.delimiters \in Delimiters
  BY <1>1 DEF Sound, SettingSet
<1>3. CASE calls[c].status = "refused"
  <2>1. tab' = tab /\ calls' = [calls EXCEPT ![c] = None]
    BY <1>3 DEF AnswerSave, Ok, Without
  <2> QED BY <1>0, <1>1, <1>3, <2>1, DropFacts
<1>4. CASE calls[c].status = "ok" /\ isDefaultTheme(s.theme)
  <2>1. /\ tab' = [tab EXCEPT !.attr = s.theme, !.sheet = None, !.failed = FALSE, !.settings = s, !.themes = th]
        /\ calls' = Clean(Without(c))
    BY <1>4 DEF AnswerSave, Ok, TryLoad
  <2> HIDE DEF s, th
  <2>2. /\ tab' \in TabSet /\ tab'.settings = s /\ tab'.attr = s.theme /\ tab'.sheet = None
    <3>1. None \in Names /\ th \subseteq Themes
      BY <1>1 DEF Names, th
    <3> QED BY <1>0, <1>2, <2>1, <3>1 DEF TabSet
  <2> QED BY <1>1, <1>4, <2>1, <2>2, CleanWithoutFacts DEF s
<1>5. CASE calls[c].status = "ok" /\ ~ isDefaultTheme(s.theme)
  <2> DEFINE one == Call("theme", s)
             new == [one EXCEPT !.themes = th]
  <2>1. tab' = [tab EXCEPT !.attr = s.theme] /\ calls' = [calls EXCEPT ![c] = new]
    BY <1>5 DEF AnswerSave, Ok, TryLoad
  <2> HIDE DEF s, th
  <2>2. /\ one \in CallSet /\ one.kind = "theme" /\ one.status = "asked" /\ one.value = s
        /\ one.data = None
    BY <1>0, <1>2, NewCallFacts
  <2> HIDE DEF one
  <2>3. /\ new \in CallSet /\ new.kind = "theme" /\ new.status = "asked" /\ new.value = s
        /\ new.data = None
    BY <1>1, <2>2 DEF CallSet, th
  <2> HIDE DEF new
  <2>4. new # None /\ Sound(new)
    BY <2>3, NoneAssumption DEF Sound
  <2>5. calls'[c] = new /\ \A e \in Slots \ {c} : calls'[e] = calls[e]
    BY <1>0, <2>1
  <2>6. calls' \in [Slots -> CallSet \cup {None}] /\ \A e \in Slots : Sound(calls'[e])
    BY <1>0, <2>1, <2>3, <2>4, <2>5
  <2>7. tab' \in TabSet /\ tab'.attr = s.theme
    BY <1>0, <1>2, <2>1 DEF TabSet
  <2> QED BY <1>1, <1>5, <2>3, <2>4, <2>5, <2>6, <2>7 DEF s
<1> QED BY <1>1, <1>3, <1>4, <1>5

(* The answer to a request of a theme. *)
LEMMA AnswerThemeFacts ==
  ASSUME SettingsTyped, NEW c \in Slots, AnswerTheme(c)
  PROVE  /\ calls' \in [Slots -> CallSet \cup {None}] /\ \A e \in Slots : Sound(calls'[e])
         /\ tab' \in TabSet
         /\ calls[c] # None /\ calls[c].kind = "theme" /\ calls[c].status \in {"ok", "refused"}
         /\ tab'.attr = tab.attr /\ tab'.sheet = calls[c].data
         /\ tab'.failed = (calls[c].status # "ok")
         /\ tab'.settings = IF calls[c].value = None THEN tab.settings ELSE calls[c].value
         /\ calls'[c] = None
         /\ \A e \in Slots \ {c} :
              \/ calls'[e] = calls[e]
              \/ calls[e] # None /\ calls[e].kind = "link" /\ calls'[e] = None
<1>0. /\ tab \in TabSet /\ tab.settings \in SettingSet /\ tab.themes \subseteq Themes
  BY DEF SettingsTyped, TabSet
<1>1. /\ calls[c] # None /\ calls[c].kind = "theme" /\ calls[c].status \in {"ok", "refused"}
      /\ calls[c].value \in SettingSet \cup {None} /\ calls[c].themes \subseteq Themes
      /\ calls[c].data \in Names
  BY SlotFacts DEF AnswerTheme, Answered, Is, Free
<1> DEFINE s == IF calls[c].value = None THEN tab.settings ELSE calls[c].value
           th == IF calls[c].value = None THEN tab.themes ELSE calls[c].themes
           f == calls[c].status # "ok"
           d == calls[c].data
<1>2. s \in SettingSet /\ th \subseteq Themes /\ f \in BOOLEAN /\ d \in Names
  BY <1>0, <1>1
<1>3. tab' = [tab EXCEPT !.sheet = d, !.failed = f, !.settings = s, !.themes = th]
  BY DEF AnswerTheme, Ok
<1> HIDE DEF s, th, f, d
<1>4. /\ tab' \in TabSet /\ tab'.attr = tab.attr /\ tab'.sheet = d /\ tab'.failed = f /\ tab'.settings = s
  BY <1>0, <1>2, <1>3 DEF TabSet
<1>5. calls' = Clean(Without(c))
  BY DEF AnswerTheme
<1> QED BY <1>1, <1>4, <1>5, CleanWithoutFacts DEF s, d, f

(* In each step. *)
LEMMA TypedStep == SettingsTyped /\ [Next]_vars => SettingsTyped'
<1> SUFFICES ASSUME SettingsTyped, [Next]_vars PROVE SettingsTyped'
  OBVIOUS
<1>0. /\ files \subseteq Themes /\ stored \in SettingSet /\ copy \in SettingSet
      /\ queue \in Seq(SettingSet)
      /\ calls \in [Slots -> CallSet \cup {None}] /\ \A c \in Slots : Sound(calls[c])
      /\ tab \in TabSet /\ crossed \in BOOLEAN /\ doubt \in BOOLEAN
  BY DEF SettingsTyped
<1>t. /\ tab.settings \in SettingSet /\ tab.themes \subseteq Themes /\ tab.attr \in Names
      /\ tab.sheet \in Names /\ tab.failed \in BOOLEAN /\ tab.settings.theme \in Names
  BY <1>0 DEF TabSet, SettingSet
<1> DEFINE Calls == calls' \in [Slots -> CallSet \cup {None}] /\ \A c \in Slots : Sound(calls'[c])
<1>1. CASE Visit
  <2>1. Calls
    BY <1>1, VisitFacts
  <2>2. tab' \in TabSet
    BY <1>1 DEF Visit, Fresh, TabSet, settingsDefault, Setting, SettingSet, Names
  <2> QED BY <1>0, <1>1, <2>1, <2>2 DEF Visit, SettingsTyped
<1>2. CASE ChangeFiles
  BY <1>0, <1>2 DEF ChangeFiles, SettingsTyped
<1>3. CASE ApplySettings
  <2>1. copy' \in SettingSet /\ queue' \in Seq(SettingSet)
    BY <1>0, <1>3, HeadTailProperties DEF ApplySettings
  <2> QED BY <1>0, <1>3, <2>1 DEF ApplySettings, SettingsTyped
<1>4. CASE Restart
  <2>1. Calls
    BY <1>0, <1>4 DEF Restart, Sound
  <2>2. copy' \in SettingSet /\ queue' \in Seq(SettingSet) /\ doubt' \in BOOLEAN
    BY <1>0, <1>4, GetSettingsFacts DEF Restart
  <2> QED BY <1>0, <1>4, <2>1, <2>2 DEF Restart, SettingsTyped
<1>5. CASE Return
  <2>1. Call("load", None) \in CallSet /\ Sound(Call("load", None))
    BY <1>0, NewCallFacts
  <2>2. Calls
    BY <1>5, <2>1, AskFacts DEF Return
  <2> QED BY <1>0, <1>5, <2>2 DEF Return, Hasty, SettingsTyped
<1>6. CASE Save
  <2>1. PICK t \in Options, d \in Delimiters \cup {Blank} :
          d \in Delimiters /\ Ask(Call("save", Setting(t, d)))
    BY <1>6 DEF Save, isValidDelimiters
  <2>2. t \in Names
    BY <1>t DEF Options, Names
  <2>3. Calls
    BY <2>1, <2>2, SaveFacts, AskFacts
  <2> QED BY <1>0, <1>6, <2>3 DEF Save, Hasty, SettingsTyped
<1>7. CASE Reload
  <2>1. Call("theme", None) \in CallSet /\ Sound(Call("theme", None))
    BY <1>0, NewCallFacts
  <2>2. Calls
    BY <1>7, <2>1, AskFacts DEF Reload
  <2>3. tab' \in TabSet
    BY <1>0, <1>t, <1>7 DEF Reload, TabSet
  <2> QED BY <1>0, <1>7, <2>2, <2>3 DEF Reload, Hasty, SettingsTyped
<1>8. CASE OtherSaves
  <2>1. PICK t \in {None} \cup Themes, d \in Delimiters \cup {Blank} : Ask(Call("other", Setting(t, d)))
    BY <1>8 DEF OtherSaves
  <2>2. t \in Names
    BY DEF Names
  <2>3. Calls
    BY <2>1, <2>2, SaveFacts, AskFacts
  <2> QED BY <1>0, <1>8, <2>3 DEF OtherSaves, SettingsTyped
<1>9. ASSUME NEW c \in Slots, Write(c) PROVE SettingsTyped'
  <2>1. calls[c] # None /\ calls[c].kind \in {"save", "other"} /\ Reply(c, "written", None)
    BY <1>9 DEF Write, Update, Is, Free
  <2>2. Calls
    <3>1. "written" \in Statuses /\ None \in Names
      BY DEF Statuses, Names
    <3> QED BY <2>1, <3>1, ReplyFacts
  <2>3. stored' \in SettingSet
    <3>1. calls[c].value \in SettingSet \cup {None} /\ Sound(calls[c])
      BY <2>1, SlotFacts
    <3> QED BY <1>9, <2>1, <3>1 DEF Write, Sound
  <2> QED BY <1>0, <1>9, <2>2, <2>3 DEF Write, SettingsTyped
<1>10. ASSUME NEW c \in Slots, Queue(c) PROVE SettingsTyped'
  <2>1. calls[c] # None /\ calls[c].status = "written"
    BY <1>10 DEF Queue, Unqueued, Free
  <2>2. Sound(calls[c]) /\ calls[c].value \in SettingSet \cup {None}
    BY <2>1, SlotFacts
  <2>3. queue' \in Seq(SettingSet)
    <3>1. calls[c].value \in SettingSet
      BY <2>1, <2>2 DEF Sound
    <3> QED BY <1>0, <1>10, <3>1, AppendProperties DEF Queue
  <2>4. Calls
    <3>1. CASE calls[c].kind = "other"
      BY <1>10, <3>1, DropFacts DEF Queue
    <3>2. CASE calls[c].kind # "other"
      <4>1. "ok" \in Statuses /\ None \in Names /\ Reply(c, "ok", None) /\ calls[c].kind # "load"
        BY <1>10, <2>1, <2>2, <3>2 DEF Queue, Statuses, Names, Sound
      <4> QED BY <2>1, <4>1, ReplyFacts
    <3> QED BY <3>1, <3>2
  <2> QED BY <1>0, <1>10, <2>3, <2>4 DEF Queue, SettingsTyped
<1>11. ASSUME NEW c \in Slots, ServeTheme(c) \/ ServeName(c) PROVE SettingsTyped'
  <2>1. calls[c] # None /\ calls[c].kind # "load"
    BY <1>11 DEF ServeTheme, ServeName, Is, Free
  <2>2. Reply(c, "ok", stored.theme) \/ Reply(c, "refused", None)
    BY <1>11 DEF ServeTheme, ServeName
  <2>3. "ok" \in Statuses /\ "refused" \in Statuses /\ None \in Names /\ stored.theme \in Names
    BY <1>0 DEF Statuses, Names, SettingSet
  <2>4. Calls
    <3>1. CASE Reply(c, "ok", stored.theme)
      BY <2>1, <2>3, <3>1, ReplyFacts
    <3>2. CASE Reply(c, "refused", None)
      BY <2>1, <2>3, <3>2, ReplyFacts
    <3> QED BY <2>2, <3>1, <3>2
  <2> QED BY <1>0, <1>11, <2>4 DEF ServeTheme, ServeName, SettingsTyped
<1>12. ASSUME NEW c \in Slots, ServeLoad(c) PROVE SettingsTyped'
  BY <1>0, <1>12, LoadedFacts DEF ServeLoad, SettingsTyped
<1>13. ASSUME NEW c \in Slots, Refuse(c) PROVE SettingsTyped'
  <2>1. calls[c] # None
    BY <1>13 DEF Refuse, Free
  <2>2. Calls
    <3>1. CASE calls[c].kind = "other"
      BY <1>13, <3>1, DropFacts DEF Refuse
    <3>2. CASE calls[c].kind # "other"
      <4>1. "refused" \in Statuses /\ None \in Names /\ Reply(c, "refused", None)
        BY <1>13, <3>2 DEF Refuse, Statuses, Names
      <4> QED BY <2>1, <4>1, ReplyFacts
    <3> QED BY <3>1, <3>2
  <2> QED BY <1>0, <1>13, <2>2 DEF Refuse, SettingsTyped
<1>14. ASSUME NEW c \in Slots, AnswerLink(c) PROVE SettingsTyped'
  <2>1. calls[c].data \in Names
    BY <1>14, SlotFacts DEF AnswerLink, Answered, Is, Free
  <2>2. tab' \in TabSet
    BY <1>0, <1>14, <2>1 DEF AnswerLink, TabSet, Ok
  <2> QED BY <1>0, <1>14, <2>2, DropFacts DEF AnswerLink, Without, SettingsTyped
<1>15. ASSUME NEW c \in Slots, AnswerName(c) PROVE SettingsTyped'
  <2>1. calls[c].data \in Names
    BY <1>15, SlotFacts DEF AnswerName, Answered, Is, Free
  <2>2. tab' \in TabSet
    BY <1>0, <1>t, <1>15, <2>1 DEF AnswerName, Named, TabSet
  <2> QED BY <1>0, <1>15, <2>2, DropFacts DEF AnswerName, Without, SettingsTyped
<1>16. ASSUME NEW c \in Slots, AnswerLoad(c) PROVE SettingsTyped'
  <2>1. calls' = [calls EXCEPT ![c] = None] /\ UNCHANGED <<stored, files, queue, copy, crossed>>
    BY <1>16 DEF AnswerLoad, Without
  <2>2. Calls
    BY <2>1, DropFacts
  <2>3. doubt' \in BOOLEAN
    BY <1>0, <1>16 DEF AnswerLoad
  <2>4. tab' \in TabSet
    <3>1. CASE Ok(c)
      <4>1. /\ Sound(calls[c]) /\ calls[c] # None /\ calls[c].kind = "load" /\ calls[c].status = "ok"
            /\ calls[c].value \in SettingSet \cup {None} /\ calls[c].themes \subseteq Themes
        BY <1>16, <3>1, SlotFacts DEF AnswerLoad, Answered, Is, Free, Ok
      <4>2. calls[c].value \in SettingSet /\ calls[c].value.theme \in Names
        BY <4>1 DEF Sound, SettingSet
      <4>3. Named(calls[c].value.theme) \in Names
        BY <1>t, <4>2 DEF Named
      <4> DEFINE n == Named(calls[c].value.theme)
                 one == [tab EXCEPT !.settings = calls[c].value]
                 two == [one EXCEPT !.themes = calls[c].themes]
      <4>4. one \in TabSet
        BY <1>0, <4>2 DEF TabSet
      <4>5. two \in TabSet
        BY <4>1, <4>4 DEF TabSet
      <4>6. tab' = [two EXCEPT !.attr = n]
        BY <1>16, <3>1 DEF AnswerLoad
      <4> HIDE DEF one, two, n
      <4>7. n \in Names
        BY <4>3 DEF n
      <4> QED BY <4>5, <4>6, <4>7 DEF TabSet
    <3>2. CASE ~ Ok(c)
      BY <1>0, <1>16, <3>2 DEF AnswerLoad
    <3> QED BY <3>1, <3>2
  <2> QED BY <1>0, <2>1, <2>2, <2>3, <2>4 DEF SettingsTyped
<1>17. ASSUME NEW c \in Slots, AnswerSave(c) PROVE SettingsTyped'
  <2>1. Calls /\ tab' \in TabSet
    BY <1>0, <1>17, AnswerSaveFacts
  <2> QED BY <1>0, <1>17, <2>1 DEF AnswerSave, SettingsTyped
<1>18. ASSUME NEW c \in Slots, AnswerTheme(c) PROVE SettingsTyped'
  <2>1. Calls /\ tab' \in TabSet
    BY <1>0, <1>18, AnswerThemeFacts
  <2> QED BY <1>0, <1>18, <2>1 DEF AnswerTheme, SettingsTyped
<1>19. ASSUME NEW c \in Slots, Lose(c) PROVE SettingsTyped'
  <2>1. calls[c] # None
    BY <1>19 DEF Lose, Mine, Free
  <2>2. Calls
    BY <1>19, <2>1, DropFacts, OrphanFacts DEF Lose, Without
  <2> QED BY <1>0, <1>19, <2>2 DEF Lose, SettingsTyped
<1>20. CASE UNCHANGED vars
  BY <1>0, <1>20 DEF vars, SettingsTyped
<1> QED BY <1>1, <1>2, <1>3, <1>4, <1>5, <1>6, <1>7, <1>8, <1>9, <1>10, <1>11, <1>12, <1>13, <1>14,
           <1>15, <1>16, <1>17, <1>18, <1>19, <1>20 DEF Next

-----------------------------------------------------------------------------
(* The distributor follows what is stored. *)

(* A request between its write and its message. *)
Waits(c) == calls[c] # None /\ calls[c].status = "written"

(* Which requests those are. *)
LEMMA UnqueuedFacts == \A c : c \in Unqueued <=> c \in Slots /\ Waits(c)
BY DEF Unqueued, Free, Waits

(* And after a step. *)
LEMMA UnqueuedNext == \A c : (c \in Unqueued)' <=> c \in Slots /\ Waits(c)'
BY DEF Unqueued, Free, Waits, Slots

(* A step that leaves the table, the channel and those requests alone. *)
LEMMA FollowsFrame ==
  ASSUME FollowsInv, UNCHANGED <<stored, queue, copy, crossed>>,
         \A c \in Slots : Waits(c)' <=> Waits(c),
         \A c \in Slots : Waits(c) => calls'[c].value = calls[c].value
  PROVE  FollowsInv'
<1>1. Unqueued' = Unqueued
  BY UnqueuedFacts, UnqueuedNext
<1>2. \A c \in Unqueued : calls'[c].value = calls[c].value
  BY UnqueuedFacts
<1>3. Coming' = Coming /\ GetSettings' = GetSettings
  BY DEF Coming, GetSettings
<1> QED BY <1>1, <1>2, <1>3 DEF FollowsInv

(* A step that answers, drops, makes or hands over requests, none of which waits. *)
LEMMA FollowsQuiet ==
  ASSUME FollowsInv, UNCHANGED <<stored, queue, copy, crossed>>,
         \A c \in Slots : calls'[c] = calls[c] \/ (~ Waits(c) /\ ~ Waits(c)')
  PROVE  FollowsInv'
<1>1. \A c \in Slots : Waits(c)' <=> Waits(c)
  BY DEF Waits
<1>2. \A c \in Slots : Waits(c) => calls'[c].value = calls[c].value
  OBVIOUS
<1> QED BY <1>1, <1>2, FollowsFrame

(* Initially. *)
LEMMA FollowsInit == Init => FollowsInv
<1> SUFFICES ASSUME Init PROVE FollowsInv
  OBVIOUS
<1> DEFINE none == [c \in Slots |-> None]
<1>1. tab \in TabSet
  BY TypedInit DEF SettingsTyped
<1>2. none \in [Slots -> CallSet \cup {None}] /\ \A c \in Slots : Sound(none[c])
  BY DEF Sound
<1>3. Cardinality(FreeIn(none)) >= 3
  <2>1. FreeIn(none) = 1 .. MaxCalls
    BY DEF FreeIn, Slots
  <2> QED BY <2>1, SettingsAssumption, FS_Interval
<1>4. calls = Opened(none)
  BY DEF Init
<1>5. \A c \in Slots : none[c] = None
  OBVIOUS
<1> HIDE DEF none
<1>6. PICK x, y, z \in FreeIn(none) :
        /\ Opened(none)[x] = PageCall("link") /\ Opened(none)[y] = PageCall("name")
        /\ Opened(none)[z] = PageCall("load")
        /\ \A c \in Slots \ {x, y, z} : Opened(none)[c] = none[c]
  BY <1>1, <1>2, <1>3, OpenedFacts
<1>7. \A c \in Slots : ~ Waits(c)
  BY <1>1, <1>4, <1>5, <1>6, PageCallFacts DEF Waits
<1>8. Unqueued = {}
  BY <1>7, UnqueuedFacts
<1>9. Coming = GetSettings
  BY DEF Init, Coming
<1> QED BY <1>8, <1>9 DEF FollowsInv

(* In each step. *)
LEMMA FollowsStep == SettingsTyped /\ FollowsInv /\ [Next]_vars => FollowsInv'
<1> SUFFICES ASSUME SettingsTyped, FollowsInv, [Next]_vars PROVE FollowsInv'
  OBVIOUS
<1>0. /\ stored \in SettingSet /\ copy \in SettingSet /\ queue \in Seq(SettingSet)
      /\ calls \in [Slots -> CallSet \cup {None}] /\ \A c \in Slots : Sound(calls[c])
      /\ tab \in TabSet
  BY DEF SettingsTyped
<1>1. CASE Visit
  <2>1. PICK x, y, z \in Slots :
          /\ Abandoned[x] = None /\ Abandoned[y] = None /\ Abandoned[z] = None
          /\ calls'[x] = PageCall("link") /\ calls'[y] = PageCall("name") /\ calls'[z] = PageCall("load")
          /\ \A c \in Slots \ {x, y, z} : calls'[c] = Abandoned[c]
    BY <1>1, VisitFacts
  <2>2. \A c \in Slots :
          /\ Abandoned[c] # None => /\ calls[c] # None
                                    /\ Abandoned[c].status = calls[c].status
                                    /\ Abandoned[c].value = calls[c].value
          /\ Waits(c) => Abandoned[c] # None
    BY AbandonedFacts DEF Waits
  <2>3. \A c \in {x, y, z} : ~ Waits(c) /\ ~ Waits(c)'
    BY <1>0, <2>1, <2>2, PageCallFacts DEF Waits
  <2>4. \A c \in Slots \ {x, y, z} : Waits(c)' <=> Waits(c)
    BY <2>1, <2>2 DEF Waits
  <2>5. \A c \in Slots : Waits(c)' <=> Waits(c)
    BY <2>3, <2>4
  <2>6. \A c \in Slots : Waits(c) => calls'[c].value = calls[c].value
    BY <2>1, <2>2, <2>3
  <2>7. UNCHANGED <<stored, queue, copy, crossed>>
    BY <1>1 DEF Visit
  <2> QED BY <2>5, <2>6, <2>7, FollowsFrame
<1>2. CASE ChangeFiles
  BY <1>2, FollowsQuiet DEF ChangeFiles
<1>3. CASE ApplySettings
  <2>1. queue # <<>> /\ copy' = Head(queue) /\ queue' = Tail(queue)
        /\ UNCHANGED <<stored, calls, crossed>>
    BY <1>3 DEF ApplySettings
  <2>2. Coming' = Coming
    <3>1. Len(queue) \in Nat \ {0} /\ Len(queue') = Len(queue) - 1
      BY <1>0, <2>1
    <3>2. CASE Len(queue) = 1
      BY <1>0, <2>1, <3>1, <3>2 DEF Coming
    <3>3. CASE Len(queue) # 1
      <4>1. queue' # <<>> /\ queue'[Len(queue')] = queue[Len(queue)]
        <5> DEFINE q == queue
                   n == Len(q)
        <5>1. q \in Seq(SettingSet) /\ n \in Nat \ {0} /\ n # 1 /\ q # <<>>
          BY <1>0, <2>1, <3>1, <3>3
        <5> HIDE DEF n, q
        <5>2. Len(Tail(q)) = n - 1 /\ \A i \in 1 .. n - 1 : Tail(q)[i] = q[i + 1]
          BY <5>1, HeadTailProperties DEF n
        <5>3. Tail(q)[n - 1] = q[n] /\ Tail(q) # <<>>
          BY <5>1, <5>2
        <5> QED BY <2>1, <5>2, <5>3 DEF q, n
      <4> QED BY <2>1, <4>1 DEF Coming
    <3> QED BY <3>2, <3>3
  <2>3. Unqueued' = Unqueued /\ GetSettings' = GetSettings
    BY <2>1 DEF Unqueued, Free, GetSettings
  <2> QED BY <2>1, <2>2, <2>3 DEF FollowsInv
<1>4. CASE Restart
  <2>1. \A c \in Slots : ~ Waits(c)'
    BY <1>0, <1>4, NoneAssumption DEF Restart, Broken, Waits, Free
  <2>2. Unqueued' = {}
    BY <2>1, UnqueuedNext
  <2>3. Coming' = GetSettings'
    BY <1>4 DEF Restart, Coming, GetSettings
  <2> QED BY <2>2, <2>3 DEF FollowsInv
<1>5. CASE Return \/ Save \/ Reload \/ OtherSaves
  <2>1. PICK x \in Slots :
          calls[x] = None /\ ~ Waits(x)' /\ \A c \in Slots \ {x} : calls'[c] = calls[c]
    <3>1. CASE Return
      <4>1. /\ Call("load", None) \in CallSet /\ Sound(Call("load", None))
            /\ Call("load", None).status = "asked"
        BY <1>0, NewCallFacts
      <4> QED BY <3>1, <4>1, AskFacts DEF Return, Waits
    <3>2. CASE Save
      <4>1. PICK t \in Options, d \in Delimiters \cup {Blank} :
              d \in Delimiters /\ Ask(Call("save", Setting(t, d)))
        BY <3>2 DEF Save, isValidDelimiters
      <4>2. t \in Names
        BY <1>0 DEF Options, Names, TabSet, SettingSet
      <4>3. /\ Call("save", Setting(t, d)) \in CallSet /\ Sound(Call("save", Setting(t, d)))
            /\ Call("save", Setting(t, d)).status = "asked"
        BY <4>1, <4>2, SaveFacts
      <4> QED BY <4>1, <4>3, AskFacts DEF Waits
    <3>3. CASE Reload
      <4>1. /\ Call("theme", None) \in CallSet /\ Sound(Call("theme", None))
            /\ Call("theme", None).status = "asked"
        BY <1>0, NewCallFacts
      <4> QED BY <3>3, <4>1, AskFacts DEF Reload, Waits
    <3>4. CASE OtherSaves
      <4>1. PICK t \in {None} \cup Themes, d \in Delimiters \cup {Blank} : Ask(Call("other", Setting(t, d)))
        BY <3>4 DEF OtherSaves
      <4>2. t \in Names
        BY DEF Names
      <4>3. /\ Call("other", Setting(t, d)) \in CallSet /\ Sound(Call("other", Setting(t, d)))
            /\ Call("other", Setting(t, d)).status = "asked"
        BY <4>2, SaveFacts
      <4> QED BY <4>1, <4>3, AskFacts DEF Waits
    <3> QED BY <1>5, <3>1, <3>2, <3>3, <3>4
  <2>2. UNCHANGED <<stored, queue, copy, crossed>>
    BY <1>5 DEF Return, Save, Reload, OtherSaves
  <2>3. \A c \in Slots : calls'[c] = calls[c] \/ (~ Waits(c) /\ ~ Waits(c)')
    BY <2>1 DEF Waits
  <2> QED BY <2>2, <2>3, FollowsQuiet
<1>6. ASSUME NEW c \in Slots, Write(c) PROVE FollowsInv'
  <2>1. /\ calls[c] # None /\ calls[c].kind \in {"save", "other"} /\ Reply(c, "written", None)
        /\ stored' = calls[c].value /\ crossed' = (Unqueued # {})
    BY <1>6 DEF Write, Update, Is, Free
  <2>2. /\ calls'[c].value = calls[c].value /\ Waits(c)'
        /\ \A e \in Slots \ {c} : calls'[e] = calls[e]
    <3>1. "written" \in Statuses /\ None \in Names
      BY DEF Statuses, Names
    <3> QED BY <2>1, <3>1, ReplyFacts DEF Waits
  <2>3. CASE Unqueued # {}
    BY <2>1, <2>3 DEF FollowsInv
  <2>4. CASE Unqueued = {}
    <3>1. \A e \in Slots \ {c} : ~ Waits(e)'
      BY <2>2, <2>4, UnqueuedFacts DEF Waits
    <3>2. Unqueued' = {c}
      BY <2>2, <3>1, UnqueuedNext
    <3> QED BY <2>1, <2>2, <3>2 DEF FollowsInv
  <2> QED BY <2>3, <2>4
<1>7. ASSUME NEW c \in Slots, Queue(c) PROVE FollowsInv'
  <2>1. /\ c \in Unqueued /\ queue' = Append(queue, calls[c].value)
        /\ UNCHANGED <<stored, copy, crossed>>
    BY <1>7 DEF Queue
  <2>2. calls[c] # None /\ calls[c].status = "written"
    BY <2>1, UnqueuedFacts DEF Waits
  <2>3. /\ calls[c].value \in SettingSet /\ calls[c].value.delimiters # None
        /\ calls[c].kind # "load"
    BY <2>2, SlotFacts DEF Sound
  <2>4. ~ Waits(c)' /\ \A e \in Slots \ {c} : calls'[e] = calls[e]
    <3>1. CASE calls[c].kind = "other"
      BY <1>7, <3>1, DropFacts DEF Queue, Waits
    <3>2. CASE calls[c].kind # "other"
      <4>1. "ok" \in Statuses /\ None \in Names /\ Reply(c, "ok", None)
        BY <1>7, <3>2 DEF Queue, Statuses, Names
      <4> QED BY <2>2, <2>3, <4>1, ReplyFacts DEF Waits
    <3> QED BY <3>1, <3>2
  <2>5. CASE crossed
    BY <2>1, <2>5 DEF FollowsInv
  <2>6. CASE ~ crossed
    <3>1. Unqueued = {c} /\ calls[c].value = stored
      BY <2>1, <2>6 DEF FollowsInv
    <3>2. \A e \in Slots : ~ Waits(e)'
      BY <2>4, <3>1, UnqueuedFacts DEF Waits
    <3>3. Unqueued' = {}
      BY <3>2, UnqueuedNext
    <3>4. Coming' = stored
      <4>1. Len(queue') = Len(queue) + 1 /\ queue'[Len(queue')] = calls[c].value /\ queue' # <<>>
        BY <1>0, <2>1, <2>3, AppendProperties
      <4> QED BY <3>1, <4>1 DEF Coming
    <3>5. GetSettings' = stored
      BY <1>0, <2>1, <2>3, <3>1 DEF GetSettings
    <3> QED BY <3>3, <3>4, <3>5 DEF FollowsInv
  <2> QED BY <2>5, <2>6
<1>8. ASSUME NEW c \in Slots, ServeTheme(c) \/ ServeName(c) \/ Refuse(c) PROVE FollowsInv'
  <2>1. calls[c] # None /\ calls[c].status = "asked" /\ UNCHANGED <<stored, queue, copy, crossed>>
    BY <1>8 DEF ServeTheme, ServeName, Refuse, Is, Free
  <2>2. stored.theme \in Names /\ None \in Names /\ "ok" \in Statuses /\ "refused" \in Statuses
    BY <1>0 DEF SettingSet, Names, Statuses
  <2>3. \/ Reply(c, "ok", stored.theme) /\ calls[c].kind # "load"
        \/ Reply(c, "refused", None)
        \/ calls' = [calls EXCEPT ![c] = None]
    BY <1>8 DEF ServeTheme, ServeName, Refuse, Is
  <2>4. ~ Waits(c)' /\ \A e \in Slots \ {c} : calls'[e] = calls[e]
    <3>1. CASE Reply(c, "ok", stored.theme) /\ calls[c].kind # "load"
      BY <2>1, <2>2, <3>1, ReplyFacts DEF Waits
    <3>2. CASE Reply(c, "refused", None)
      BY <2>1, <2>2, <3>2, ReplyFacts DEF Waits
    <3>3. CASE calls' = [calls EXCEPT ![c] = None]
      BY <3>3, DropFacts DEF Waits
    <3> QED BY <2>3, <3>1, <3>2, <3>3
  <2>5. \A e \in Slots : calls'[e] = calls[e] \/ (~ Waits(e) /\ ~ Waits(e)')
    BY <2>1, <2>4 DEF Waits
  <2> QED BY <2>1, <2>5, FollowsQuiet
<1>9. ASSUME NEW c \in Slots, ServeLoad(c) PROVE FollowsInv'
  <2>1. \A e \in Slots : calls'[e] = calls[e] \/ (~ Waits(e) /\ ~ Waits(e)')
    BY <1>9, LoadedFacts DEF Waits
  <2> QED BY <1>9, <2>1, FollowsQuiet DEF ServeLoad
<1>10. ASSUME NEW c \in Slots, AnswerLink(c) \/ AnswerName(c) \/ AnswerLoad(c) PROVE FollowsInv'
  <2>1. calls[c] # None /\ calls[c].status \in {"ok", "refused"} /\ calls' = [calls EXCEPT ![c] = None]
    BY <1>10 DEF AnswerLink, AnswerName, AnswerLoad, Answered, Is, Free, Without
  <2>2. \A e \in Slots : calls'[e] = calls[e] \/ (~ Waits(e) /\ ~ Waits(e)')
    BY <2>1, DropFacts DEF Waits
  <2> QED BY <1>10, <2>2, FollowsQuiet DEF AnswerLink, AnswerName, AnswerLoad
<1>11. ASSUME NEW c \in Slots, AnswerSave(c) \/ AnswerTheme(c) PROVE FollowsInv'
  <2>1. /\ calls[c] # None /\ calls[c].status \in {"ok", "refused"}
        /\ calls'[c] = None \/ calls'[c].status = "asked"
        /\ \A e \in Slots \ {c} :
             \/ calls'[e] = calls[e]
             \/ calls[e] # None /\ calls[e].kind = "link" /\ calls'[e] = None
    BY <1>11, AnswerSaveFacts, AnswerThemeFacts
  <2>2. \A e \in Slots : calls'[e] = calls[e] \/ (~ Waits(e) /\ ~ Waits(e)')
    BY <1>0, <2>1 DEF Waits, Sound
  <2> QED BY <1>11, <2>2, FollowsQuiet DEF AnswerSave, AnswerTheme
<1>12. ASSUME NEW c \in Slots, Lose(c) PROVE FollowsInv'
  <2>1. calls[c] # None /\ calls[c].kind # "other" /\ UNCHANGED <<stored, queue, copy, crossed>>
    BY <1>12 DEF Lose, Mine, Free
  <2>2. CASE calls[c].kind = "save" /\ calls[c].status \in {"asked", "written"}
    <3>1. /\ calls'[c] # None /\ calls'[c].value = calls[c].value /\ calls'[c].status = calls[c].status
          /\ \A e \in Slots \ {c} : calls'[e] = calls[e]
      BY <1>12, <2>1, <2>2, OrphanFacts DEF Lose
    <3>2. \A e \in Slots : Waits(e)' <=> Waits(e)
      BY <2>1, <3>1 DEF Waits
    <3>3. \A e \in Slots : Waits(e) => calls'[e].value = calls[e].value
      BY <3>1
    <3> QED BY <2>1, <3>2, <3>3, FollowsFrame
  <2>3. CASE ~ (calls[c].kind = "save" /\ calls[c].status \in {"asked", "written"})
    <3>1. calls' = [calls EXCEPT ![c] = None]
      BY <1>12, <2>3 DEF Lose, Without
    <3>2. calls[c].status # "written"
      BY <1>0, <2>1, <2>3 DEF Sound
    <3>3. \A e \in Slots : calls'[e] = calls[e] \/ (~ Waits(e) /\ ~ Waits(e)')
      BY <3>1, <3>2, DropFacts DEF Waits
    <3> QED BY <2>1, <3>3, FollowsQuiet
  <2> QED BY <2>2, <2>3
<1>13. CASE UNCHANGED vars
  BY <1>13, FollowsQuiet DEF vars
<1> QED BY <1>1, <1>2, <1>3, <1>4, <1>5, <1>6, <1>7, <1>8, <1>9, <1>10, <1>11, <1>12, <1>13 DEF Next

-----------------------------------------------------------------------------
(* The tab. *)

(* Which requests are of the tab, before a step and after. *)
Here(c) == calls[c] # None /\ calls[c].kind # "other"

(* The requests of the tab are those of slots in use by a request of its own. *)
LEMMA MineFacts == \A c : c \in Mine <=> c \in Slots /\ Here(c)
BY DEF Mine, Free, Here

(* The same after the step. *)
LEMMA MineNext == \A c : (c \in Mine)' <=> c \in Slots /\ Here(c)'
BY DEF Mine, Free, Here, Slots

(* A step that leaves the tab, what is stored, and the requests of the tab alone. *)
LEMMA TabFrame ==
  ASSUME TabInv, ~ doubt' => ~ doubt, stored' = stored, tab' = tab,
         \A c \in Slots : Here(c)' <=> Here(c),
         \A c \in Slots : Here(c) => calls'[c] = calls[c]
  PROVE  TabInv'
<1> SUFFICES ASSUME ~ doubt' PROVE (Loading \/ Saving \/ Fetching)'
  BY DEF TabInv
<1>1. Mine' = Mine
  BY MineFacts, MineNext
<1>2. \A c \in Mine : calls'[c] = calls[c]
  BY MineFacts
<1>3. GetSettings' = GetSettings /\ \A t : Rules(t)' = Rules(t)
  BY DEF GetSettings, Rules
<1>4. CASE Loading
  <2>1. \A c \in Mine : PageRequest(calls[c])'
    BY <1>2, <1>3, <1>4 DEF Loading, PageRequest
  <2>2. NoneIs("link")' = NoneIs("link") /\ NoneIs("load")' = NoneIs("load")
    BY <1>1, <1>2 DEF NoneIs
  <2>3. Loading'
    BY <1>1, <1>3, <1>4, <2>1, <2>2 DEF Loading
  <2> QED BY <2>3
<1>5. CASE Saving
  <2>1. Saving'
    BY <1>1, <1>2, <1>3, <1>5 DEF Saving, Steady
  <2> QED BY <2>1
<1>6. CASE Fetching
  <2>1. Fetching'
    BY <1>1, <1>2, <1>3, <1>6 DEF Fetching
  <2> QED BY <2>1
<1> QED BY <1>4, <1>5, <1>6 DEF TabInv

(* What is known of the tab, by the kind of a request of its own. *)
LEMMA LoadingFacts ==
  ASSUME TabInv, ~ doubt, NEW c \in Mine, calls[c].kind \in {"link", "name", "load"}
  PROVE  Loading
BY DEF TabInv, Saving, Fetching

(* A save of a tab without doubt is its only request; what it asked for is
   what is stored as soon as it has been carried out, and not before. *)
LEMMA SavingFacts ==
  ASSUME TabInv, ~ doubt, NEW c \in Mine, calls[c].kind = "save"
  PROVE  /\ Mine = {c}
         /\ calls[c].status \in {"asked", "refused"} => Steady
         /\ calls[c].status \in {"written", "ok"} => calls[c].value = stored
<1>1. ~ Loading
  BY DEF Loading, PageRequest
<1>2. ~ Fetching
  BY DEF Fetching
<1> QED BY <1>1, <1>2 DEF TabInv, Saving

(* So is a request for a theme: the attribute is the theme stored, and the
   request knows it once it is answered. *)
LEMMA FetchingFacts ==
  ASSUME TabInv, ~ doubt, NEW c \in Mine, calls[c].kind = "theme"
  PROVE  /\ Mine = {c}
         /\ tab.attr = stored.theme /\ stored.theme \in Themes
         /\ IF calls[c].value = None THEN tab.settings = GetSettings ELSE calls[c].value = GetSettings
         /\ calls[c].data = IF calls[c].status = "ok" THEN stored.theme ELSE None
<1>1. ~ Loading
  BY DEF Loading, PageRequest
<1>2. ~ Saving
  BY DEF Saving
<1> QED BY <1>1, <1>2 DEF TabInv, Fetching

(* A tab without requests shows what is stored. *)
LEMMA IdleFacts ==
  ASSUME TabInv, ~ doubt, Mine = {}
  PROVE  Steady
BY DEF TabInv, Loading, Saving, Fetching, NoneIs, Steady

(* And a tab that shows it, and has no request, is one that has loaded. *)
LEMMA RestFacts ==
  ASSUME Mine = {}, Steady
  PROVE  Loading
BY DEF Loading, Steady

(* A page that is fresh. *)
LEMMA FreshFacts ==
  ASSUME tab = Fresh, NEW x \in Mine, NEW z \in Mine,
         calls[x].kind = "link", calls[z].kind = "load",
         \A c \in Mine : /\ calls[c].kind \in {"link", "name", "load"}
                         /\ calls[c].status = "asked" /\ calls[c].data = None
  PROVE  Loading
<1>1. tab.attr = None
  BY DEF Fresh
<1>2. ~ NoneIs("link") /\ ~ NoneIs("load")
  BY DEF NoneIs
<1>3. \A c \in Mine : PageRequest(calls[c])
  BY DEF PageRequest
<1> QED BY <1>1, <1>2, <1>3 DEF Loading

(* Initially. *)
LEMMA TabInit == Init => TabInv
<1> SUFFICES ASSUME Init PROVE Loading
  BY DEF TabInv
<1> DEFINE none == [c \in Slots |-> None]
<1>1. tab \in TabSet /\ tab = Fresh
  BY TypedInit DEF SettingsTyped, Init
<1>2. none \in [Slots -> CallSet \cup {None}] /\ \A c \in Slots : Sound(none[c])
  BY DEF Sound
<1>3. Cardinality(FreeIn(none)) >= 3
  <2>1. FreeIn(none) = 1 .. MaxCalls
    BY DEF FreeIn, Slots
  <2> QED BY <2>1, SettingsAssumption, FS_Interval
<1>4. calls = Opened(none) /\ FreeIn(none) \subseteq Slots
  BY DEF Init, FreeIn
<1>5. \A c \in Slots : none[c] = None
  OBVIOUS
<1> HIDE DEF none
<1>6. PICK x, y, z \in FreeIn(none) :
        /\ Opened(none)[x] = PageCall("link") /\ Opened(none)[y] = PageCall("name")
        /\ Opened(none)[z] = PageCall("load")
        /\ \A c \in Slots \ {x, y, z} : Opened(none)[c] = none[c]
  BY <1>1, <1>2, <1>3, OpenedFacts
<1>7. \A c \in {x, y, z} :
        /\ calls[c] # None /\ calls[c].kind \in {"link", "name", "load"}
        /\ calls[c].status = "asked" /\ calls[c].data = None
  BY <1>1, <1>4, <1>6, PageCallFacts, NoneAssumption
<1>8. \A c \in Slots \ {x, y, z} : calls[c] = None
  BY <1>4, <1>5, <1>6
<1>9. calls[x].kind = "link" /\ calls[z].kind = "load"
  BY <1>1, <1>4, <1>6, PageCallFacts
<1>10. Mine = {x, y, z}
  BY <1>4, <1>7, <1>8, MineFacts DEF Here
<1> QED BY <1>1, <1>7, <1>9, <1>10, FreshFacts

(* In each step of a user. *)
LEMMA TabStepOfUsers ==
  ASSUME SettingsTyped, TabInv, Visit \/ Return \/ Save \/ Reload \/ OtherSaves \/ ChangeFiles
  PROVE  TabInv'
<1>0. /\ stored \in SettingSet /\ calls \in [Slots -> CallSet \cup {None}]
      /\ \A c \in Slots : Sound(calls[c])
      /\ tab \in TabSet /\ tab.settings.theme \in Names /\ tab.themes \subseteq Themes
  BY DEF SettingsTyped, TabSet, SettingSet
<1>1. CASE Visit
  <2>1. PICK x, y, z \in Slots :
          /\ Abandoned[x] = None /\ Abandoned[y] = None /\ Abandoned[z] = None
          /\ calls'[x] = PageCall("link") /\ calls'[y] = PageCall("name") /\ calls'[z] = PageCall("load")
          /\ \A c \in Slots \ {x, y, z} : calls'[c] = Abandoned[c]
    BY <1>1, VisitFacts
  <2>2. \A c \in {x, y, z} :
          /\ calls'[c] # None /\ calls'[c].kind \in {"link", "name", "load"}
          /\ calls'[c].status = "asked" /\ calls'[c].data = None
    BY <1>0, <2>1, PageCallFacts, NoneAssumption
  <2>3. \A c \in Slots \ {x, y, z} : ~ Here(c)'
    BY <2>1, AbandonedFacts DEF Here
  <2>4. Mine' = {x, y, z}
    BY <2>2, <2>3, MineNext DEF Here
  <2>5. calls'[x].kind = "link" /\ calls'[z].kind = "load"
    BY <1>0, <2>1, PageCallFacts
  <2>6. tab' = Fresh'
    BY <1>1 DEF Visit, Fresh, settingsDefault, Setting
  <2>7. Loading'
    <3>1. tab'.attr = None
      BY <2>6 DEF Fresh
    <3>2. ~ NoneIs("link")' /\ ~ NoneIs("load")'
      BY <2>4, <2>5 DEF NoneIs
    <3>3. \A c \in Mine' : PageRequest(calls[c])'
      BY <2>2, <2>4 DEF PageRequest
    <3> QED BY <3>1, <3>2, <3>3 DEF Loading
  <2> QED BY <2>7 DEF TabInv
<1>2. CASE Return
  <2> SUFFICES ASSUME ~ doubt' PROVE Loading'
    BY DEF TabInv
  <2>1. Mine = {} /\ ~ doubt /\ tab' = tab /\ stored' = stored
    BY <1>2 DEF Return, Hasty
  <2>2. Steady
    BY <2>1, IdleFacts
  <2> DEFINE new == Call("load", None)
  <2>3. new \in CallSet /\ Sound(new) /\ new.kind = "load" /\ new.status = "asked" /\ new.data = None
    BY <1>0, PlainCallFacts
  <2>4. Ask(new)
    BY <1>2 DEF Return
  <2> HIDE DEF new
  <2>5. PICK x \in Slots : calls[x] = None /\ calls'[x] = new /\ \A c \in Slots \ {x} : calls'[c] = calls[c]
    BY <2>3, <2>4, AskFacts
  <2>6. Mine' = {x}
    BY <2>1, <2>3, <2>5, NoneAssumption, MineFacts, MineNext DEF Here
  <2>7. ~ NoneIs("load")' /\ PageRequest(calls[x])'
    BY <2>3, <2>5, <2>6 DEF NoneIs, PageRequest
  <2>8. Rules(stored.theme)' = Rules(stored.theme)
    BY <2>1 DEF Rules
  <2> QED BY <2>1, <2>2, <2>6, <2>7, <2>8 DEF Loading, Steady
<1>3. CASE Save
  <2> SUFFICES ASSUME ~ doubt' PROVE Saving'
    BY DEF TabInv
  <2>1. Mine = {} /\ ~ doubt /\ tab' = tab /\ stored' = stored
    BY <1>3 DEF Save, Hasty
  <2>2. Steady
    BY <2>1, IdleFacts
  <2>3. PICK t \in Options, d \in Delimiters \cup {Blank} :
          d \in Delimiters /\ Ask(Call("save", Setting(t, d)))
    BY <1>3 DEF Save, isValidDelimiters
  <2>4. t \in Names
    BY <1>0 DEF Options, Names
  <2> DEFINE new == Call("save", Setting(t, d))
  <2>5. new \in CallSet /\ Sound(new) /\ new.kind = "save" /\ new.status = "asked"
    BY <2>3, <2>4, SaveFacts
  <2>6. Ask(new)
    BY <2>3
  <2> HIDE DEF new
  <2>7. PICK x \in Slots : calls[x] = None /\ calls'[x] = new /\ \A c \in Slots \ {x} : calls'[c] = calls[c]
    BY <2>5, <2>6, AskFacts
  <2>8. Mine' = {x}
    BY <2>1, <2>5, <2>7, NoneAssumption, MineFacts, MineNext DEF Here
  <2>9. Steady'
    BY <2>1, <2>2 DEF Steady, GetSettings, Rules
  <2> QED BY <2>5, <2>7, <2>8, <2>9 DEF Saving
<1>4. CASE Reload
  <2> SUFFICES ASSUME ~ doubt' PROVE Fetching'
    BY DEF TabInv
  <2>1. /\ Mine = {} /\ ~ doubt /\ tab' = [tab EXCEPT !.attr = tab.settings.theme] /\ stored' = stored
        /\ tab.settings.theme \in Themes
    BY <1>4 DEF Reload, Hasty, isDefaultTheme
  <2>2. Steady
    BY <2>1, IdleFacts
  <2> DEFINE new == Call("theme", None)
  <2>3. /\ new \in CallSet /\ Sound(new) /\ new.kind = "theme" /\ new.status = "asked"
        /\ new.value = None /\ new.data = None
    BY <1>0, PlainCallFacts
  <2>4. Ask(new)
    BY <1>4 DEF Reload
  <2> HIDE DEF new
  <2>5. PICK x \in Slots : calls[x] = None /\ calls'[x] = new /\ \A c \in Slots \ {x} : calls'[c] = calls[c]
    BY <2>3, <2>4, AskFacts
  <2>6. Mine' = {x}
    BY <2>1, <2>3, <2>5, NoneAssumption, MineFacts, MineNext DEF Here
  <2>7. tab.settings.theme = stored.theme
    BY <1>0, <2>2, GetSettingsFacts DEF Steady
  <2>8. tab'.attr = tab.settings.theme /\ tab'.settings = tab.settings /\ GetSettings' = GetSettings
    BY <1>0, <2>1 DEF TabSet, GetSettings
  <2> QED BY <2>1, <2>2, <2>3, <2>5, <2>6, <2>7, <2>8 DEF Fetching, Steady
<1>5. CASE OtherSaves
  <2>1. PICK t \in {None} \cup Themes, d \in Delimiters \cup {Blank} : Ask(Call("other", Setting(t, d)))
    BY <1>5 DEF OtherSaves
  <2>2. t \in Names
    BY DEF Names
  <2> DEFINE new == Call("other", Setting(t, d))
  <2>3. new \in CallSet /\ Sound(new) /\ new.kind = "other"
    BY <2>2, SaveFacts
  <2>4. Ask(new)
    BY <2>1
  <2> HIDE DEF new
  <2>5. PICK x \in Slots : calls[x] = None /\ calls'[x] = new /\ \A c \in Slots \ {x} : calls'[c] = calls[c]
    BY <2>3, <2>4, AskFacts
  <2>6. /\ \A c \in Slots : Here(c)' <=> Here(c)
        /\ \A c \in Slots : Here(c) => calls'[c] = calls[c]
    BY <2>3, <2>5 DEF Here
  <2> QED BY <1>5, <2>6, TabFrame DEF OtherSaves
<1>6. CASE ChangeFiles
  <2>1. calls' = calls /\ doubt' = doubt /\ stored' = stored /\ tab' = tab
    BY <1>6 DEF ChangeFiles
  <2>2. \A c \in Slots : Here(c)' <=> Here(c)
    BY <2>1 DEF Here
  <2> QED BY <2>1, <2>2, TabFrame
<1> QED BY <1>1, <1>2, <1>3, <1>4, <1>5, <1>6

(* A request of the tab is answered where it is: the others stay. *)
LEMMA MineStays ==
  ASSUME NEW c \in Mine, calls'[c] # None, calls'[c].kind = calls[c].kind,
         \A e \in Slots \ {c} : calls'[e] = calls[e]
  PROVE  /\ Mine' = Mine /\ \A e \in Mine \ {c} : calls'[e] = calls[e]
         /\ \A kind : NoneIs(kind)' <=> NoneIs(kind)
<1>1. \A e \in Slots : Here(e)' <=> Here(e)
  BY MineFacts DEF Here
<1>2. Mine' = Mine /\ \A e \in Mine : calls'[e].kind = calls[e].kind
  BY <1>1, MineFacts, MineNext
<1> QED BY <1>2, MineFacts DEF NoneIs

(* A request of the tab is gone, and perhaps that of its link. *)
LEMMA MineGoes ==
  ASSUME NEW c \in Mine, calls'[c] = None,
         \A e \in Slots \ {c} : calls'[e] = calls[e]
  PROVE  Mine' = Mine \ {c} /\ \A e \in Mine' : calls'[e] = calls[e]
<1>1. \A e \in Slots \ {c} : Here(e)' <=> Here(e)
  BY DEF Here
<1> QED BY <1>1, MineFacts, MineNext DEF Here

(* A step that leaves the requests of the tab alone. *)
LEMMA TabOthers ==
  ASSUME TabInv, ~ doubt' => ~ doubt, stored' = stored, tab' = tab, NEW c \in Slots,
         calls[c] # None, calls[c].kind = "other", calls'[c] = None,
         \A e \in Slots \ {c} : calls'[e] = calls[e]
  PROVE  TabInv'
<1>1. /\ \A e \in Slots : Here(e)' <=> Here(e)
      /\ \A e \in Slots : Here(e) => calls'[e] = calls[e]
  BY DEF Here
<1> QED BY <1>1, TabFrame

(* A page that loads and has one of its requests answered by the server. *)
LEMMA LoadingAnswered ==
  ASSUME SettingsTyped, Loading, stored' = stored, tab' = tab, NEW c \in Mine, calls'[c] # None,
         calls'[c].kind = calls[c].kind, \A e \in Slots \ {c} : calls'[e] = calls[e],
         PageRequest(calls[c])'
  PROVE  Loading'
<1>1. /\ Mine' = Mine /\ \A e \in Mine \ {c} : calls'[e] = calls[e]
      /\ \A kind : NoneIs(kind)' <=> NoneIs(kind)
  BY MineStays
<1>2. GetSettings' = GetSettings /\ \A t : Rules(t)' = Rules(t)
  BY DEF GetSettings, Rules
<1>3. \A e \in Mine : PageRequest(calls[e])'
  <2> SUFFICES ASSUME NEW e \in Mine, e # c PROVE PageRequest(calls[e])'
    OBVIOUS
  <2>1. PageRequest(calls[e]) /\ calls'[e] = calls[e]
    BY <1>1 DEF Loading
  <2> QED BY <1>2, <2>1 DEF PageRequest
<1> QED BY <1>1, <1>2, <1>3 DEF Loading

(* In each step of the server. *)
LEMMA TabStepOfServer ==
  ASSUME SettingsTyped, TabInv, NEW c \in Slots,
         Write(c) \/ Queue(c) \/ ServeTheme(c) \/ ServeName(c) \/ ServeLoad(c) \/ Refuse(c)
  PROVE  TabInv'
<1>0. /\ stored \in SettingSet /\ stored.theme \in Names /\ files \subseteq Themes
      /\ calls \in [Slots -> CallSet \cup {None}]
      /\ None \in Names /\ {"ok", "refused", "written"} \subseteq Statuses
  BY DEF SettingsTyped, SettingSet, Names, Statuses
<1>1. CASE Write(c)
  <2> SUFFICES ASSUME ~ doubt' PROVE Saving'
    BY DEF TabInv
  <2>1. /\ calls[c] # None /\ calls[c].kind = "save" /\ Reply(c, "written", None)
        /\ stored' = calls[c].value /\ ~ doubt
    BY <1>1 DEF Write, Update, Is, Free
  <2>2. c \in Mine
    BY <2>1, MineFacts DEF Here
  <2>3. Mine = {c}
    BY <2>1, <2>2, SavingFacts
  <2>4. /\ calls'[c] # None /\ calls'[c].kind = calls[c].kind /\ calls'[c].status = "written"
        /\ calls'[c].value = calls[c].value /\ \A e \in Slots \ {c} : calls'[e] = calls[e]
    BY <1>0, <2>1, ReplyFacts
  <2>5. Mine' = {c}
    BY <2>2, <2>3, <2>4, MineStays
  <2> QED BY <2>1, <2>4, <2>5 DEF Saving
<1>2. CASE Queue(c)
  <2>1. calls[c] # None /\ calls[c].status = "written" /\ UNCHANGED <<stored, tab, doubt>>
    BY <1>2 DEF Queue, Unqueued, Free
  <2>2. calls[c].kind \in {"save", "other"}
    BY <2>1, SlotFacts DEF Sound
  <2>3. CASE calls[c].kind = "other"
    BY <1>2, <2>1, <2>3, DropFacts, TabOthers DEF Queue
  <2>4. CASE calls[c].kind = "save"
    <3> SUFFICES ASSUME ~ doubt' PROVE Saving'
      BY DEF TabInv
    <3>1. c \in Mine /\ Reply(c, "ok", None)
      BY <1>2, <2>1, <2>4, MineFacts DEF Here, Queue
    <3>2. Mine = {c} /\ calls[c].value = stored
      BY <2>1, <2>4, <3>1, SavingFacts
    <3>3. /\ calls'[c] # None /\ calls'[c].kind = calls[c].kind /\ calls'[c].status = "ok"
          /\ calls'[c].value = calls[c].value /\ \A e \in Slots \ {c} : calls'[e] = calls[e]
      BY <1>0, <2>1, <2>4, <3>1, ReplyFacts
    <3>4. Mine' = {c}
      BY <3>1, <3>2, <3>3, MineStays
    <3> QED BY <2>1, <2>4, <3>2, <3>3, <3>4 DEF Saving
  <2> QED BY <2>2, <2>3, <2>4
<1>3. CASE ServeTheme(c)
  <2> SUFFICES ASSUME ~ doubt' PROVE (Loading \/ Fetching)'
    BY DEF TabInv
  <2>1. /\ calls[c] # None /\ calls[c].kind \in {"link", "theme"} /\ calls[c].status = "asked"
        /\ UNCHANGED <<stored, tab>> /\ ~ doubt
    BY <1>3 DEF ServeTheme, Is, Free
  <2>2. c \in Mine
    BY <2>1, MineFacts DEF Here
  <2>3. \/ /\ stored.theme \in Themes \cup {None} /\ Reply(c, "ok", stored.theme)
        \/ Reply(c, "refused", None)
    BY <1>0, <1>3 DEF ServeTheme
  <2>4. /\ calls'[c] # None /\ calls'[c].kind = calls[c].kind /\ calls'[c].value = calls[c].value
        /\ \A e \in Slots \ {c} : calls'[e] = calls[e]
        /\ \/ /\ stored.theme \in Themes \cup {None}
              /\ calls'[c].status = "ok" /\ calls'[c].data = stored.theme
           \/ calls'[c].status = "refused" /\ calls'[c].data = None
    <3>1. CASE stored.theme \in Themes \cup {None} /\ Reply(c, "ok", stored.theme)
      BY <1>0, <2>1, <3>1, ReplyFacts
    <3>2. CASE Reply(c, "refused", None)
      BY <1>0, <2>1, <3>2, ReplyFacts
    <3> QED BY <2>3, <3>1, <3>2
  <2>5. CASE calls[c].kind = "link"
    <3>1. PageRequest(calls[c])'
      BY <2>1, <2>4, <2>5 DEF PageRequest
    <3>2. Loading
      BY <2>1, <2>2, <2>5, LoadingFacts
    <3>3. Loading'
      BY <2>1, <2>2, <2>4, <3>1, <3>2, LoadingAnswered
    <3> QED BY <3>3
  <2>6. CASE calls[c].kind = "theme"
    <3>1. /\ Mine = {c} /\ tab.attr = stored.theme /\ stored.theme \in Themes
          /\ IF calls[c].value = None THEN tab.settings = GetSettings ELSE calls[c].value = GetSettings
      BY <2>1, <2>2, <2>6, FetchingFacts
    <3>2. Mine' = {c}
      BY <2>2, <2>4, <3>1, MineStays
    <3>3. GetSettings' = GetSettings
      BY <2>1 DEF GetSettings
    <3>4. Fetching'
      BY <2>1, <2>4, <2>6, <3>1, <3>2, <3>3 DEF Fetching
    <3> QED BY <3>4
  <2> QED BY <2>1, <2>5, <2>6
<1>4. CASE ServeName(c)
  <2> SUFFICES ASSUME ~ doubt' PROVE Loading'
    BY DEF TabInv
  <2>1. /\ calls[c] # None /\ calls[c].kind = "name" /\ Reply(c, "ok", stored.theme)
        /\ UNCHANGED <<stored, tab>> /\ ~ doubt
    BY <1>4 DEF ServeName, Is, Free
  <2>2. c \in Mine
    BY <2>1, MineFacts DEF Here
  <2>3. /\ calls'[c] # None /\ calls'[c].kind = calls[c].kind
        /\ \A e \in Slots \ {c} : calls'[e] = calls[e]
        /\ calls'[c].status = "ok" /\ calls'[c].data = stored.theme
    BY <1>0, <2>1, ReplyFacts
  <2>4. PageRequest(calls[c])'
    BY <2>1, <2>3 DEF PageRequest
  <2>5. Loading
    BY <2>1, <2>2, LoadingFacts
  <2> QED BY <2>1, <2>2, <2>3, <2>4, <2>5, LoadingAnswered
<1>5. CASE ServeLoad(c)
  <2> SUFFICES ASSUME ~ doubt' PROVE Loading'
    BY DEF TabInv
  <2>1. UNCHANGED <<stored, tab>> /\ ~ doubt
    BY <1>5 DEF ServeLoad
  <2>2. /\ calls[c] # None /\ calls[c].kind = "load"
        /\ calls'[c] # None /\ calls'[c].kind = "load" /\ calls'[c].value = GetSettings
        /\ calls'[c].status = "ok" /\ \A e \in Slots \ {c} : calls'[e] = calls[e]
    BY <1>5, LoadedFacts
  <2>3. c \in Mine
    BY <2>2, MineFacts DEF Here
  <2>4. PageRequest(calls[c])'
    BY <2>1, <2>2 DEF PageRequest, GetSettings
  <2>5. Loading
    BY <2>1, <2>2, <2>3, LoadingFacts
  <2> QED BY <2>1, <2>2, <2>3, <2>4, <2>5, LoadingAnswered
<1>6. CASE Refuse(c)
  <2>1. calls[c] # None /\ calls[c].status = "asked" /\ UNCHANGED <<stored, tab, doubt>>
    BY <1>6 DEF Refuse, Free
  <2>2. CASE calls[c].kind = "other"
    BY <1>6, <2>1, <2>2, DropFacts, TabOthers DEF Refuse
  <2>3. CASE calls[c].kind # "other"
    <3> SUFFICES ASSUME ~ doubt' PROVE (Loading \/ Saving \/ Fetching)'
      BY DEF TabInv
    <3>1. c \in Mine /\ Reply(c, "refused", None)
      BY <1>6, <2>1, <2>3, MineFacts DEF Here, Refuse
    <3>2. /\ calls'[c] # None /\ calls'[c].kind = calls[c].kind /\ calls'[c].value = calls[c].value
          /\ calls'[c].status = "refused" /\ calls'[c].data = None
          /\ \A e \in Slots \ {c} : calls'[e] = calls[e]
      BY <1>0, <2>1, <3>1, ReplyFacts
    <3>3. GetSettings' = GetSettings /\ Steady' = Steady
      BY <2>1 DEF GetSettings, Steady, Rules
    <3>4. calls[c].kind \in {"link", "name", "load", "save", "theme"}
      BY <2>1, <2>3, SlotFacts
    <3>5. CASE calls[c].kind \in {"link", "name", "load"}
      <4>1. PageRequest(calls[c])'
        BY <3>2, <3>5 DEF PageRequest
      <4>2. Loading
        BY <2>1, <3>1, <3>5, LoadingFacts
      <4>3. Loading'
        BY <2>1, <3>1, <3>2, <4>1, <4>2, LoadingAnswered
      <4> QED BY <4>3
    <3>6. CASE calls[c].kind = "save"
      <4>1. Mine = {c} /\ Steady
        BY <2>1, <3>1, <3>6, SavingFacts
      <4>2. Mine' = {c}
        BY <3>1, <3>2, <4>1, MineStays
      <4>3. Saving'
        BY <3>2, <3>3, <3>6, <4>1, <4>2 DEF Saving
      <4> QED BY <4>3
    <3>7. CASE calls[c].kind = "theme"
      <4>1. /\ Mine = {c} /\ tab.attr = stored.theme /\ stored.theme \in Themes
            /\ IF calls[c].value = None THEN tab.settings = GetSettings ELSE calls[c].value = GetSettings
        BY <2>1, <3>1, <3>7, FetchingFacts
      <4>2. Mine' = {c}
        BY <3>1, <3>2, <4>1, MineStays
      <4>3. Fetching'
        BY <2>1, <3>2, <3>3, <3>7, <4>1, <4>2 DEF Fetching
      <4> QED BY <4>3
    <3> QED BY <3>4, <3>5, <3>6, <3>7
  <2> QED BY <2>2, <2>3
<1> QED BY <1>1, <1>2, <1>3, <1>4, <1>5, <1>6

(* When the answer to a request of a page that loads arrives. *)
LEMMA TabStepOfPage ==
  ASSUME SettingsTyped, TabInv, NEW c \in Slots, AnswerLink(c) \/ AnswerName(c) \/ AnswerLoad(c)
  PROVE  TabInv'
<1> SUFFICES ASSUME ~ doubt' PROVE Loading'
  BY DEF TabInv
<1>0. tab \in TabSet /\ stored \in SettingSet
  BY DEF SettingsTyped
<1>1. /\ calls[c] # None /\ calls[c].kind \in {"link", "name", "load"} /\ calls[c].status \in {"ok", "refused"}
      /\ calls' = [calls EXCEPT ![c] = None] /\ stored' = stored /\ ~ doubt
  BY DEF AnswerLink, AnswerName, AnswerLoad, Answered, Is, Free, Without
<1>2. c \in Mine
  BY <1>1, MineFacts DEF Here
<1>3. Loading
  BY <1>1, <1>2, LoadingFacts
<1>4. calls'[c] = None /\ \A e \in Slots \ {c} : calls'[e] = calls[e]
  BY <1>1, DropFacts
<1>5. Mine' = Mine \ {c} /\ \A e \in Mine' : calls'[e] = calls[e]
  BY <1>2, <1>4, MineGoes
<1>6. GetSettings' = GetSettings
  BY <1>1 DEF GetSettings
<1>7. \A e \in Mine' : PageRequest(calls[e])'
  <2> SUFFICES ASSUME NEW e \in Mine' PROVE PageRequest(calls[e])'
    OBVIOUS
  <2>1. PageRequest(calls[e]) /\ calls'[e] = calls[e]
    BY <1>3, <1>5 DEF Loading
  <2> QED BY <1>1, <1>6, <2>1 DEF PageRequest
<1>8. PageRequest(calls[c])
  BY <1>2, <1>3 DEF Loading
<1>9. \A kind : calls[c].kind # kind => (NoneIs(kind)' <=> NoneIs(kind))
  BY <1>2, <1>5 DEF NoneIs
<1>10. CASE AnswerLink(c)
  <2>1. /\ calls[c].kind = "link" /\ tab' = [tab EXCEPT !.sheet = calls[c].data, !.failed = ~ Ok(c)]
    BY <1>10 DEF AnswerLink, Answered, Is
  <2>2. /\ tab'.sheet = calls[c].data /\ tab'.failed = ~ Ok(c)
        /\ tab'.settings = tab.settings /\ tab'.attr = tab.attr
    BY <1>0, <2>1 DEF TabSet
  <2>3. tab'.sheet = Rules(stored.theme)'
    BY <1>1, <1>8, <2>1, <2>2 DEF PageRequest, Rules, isDefaultTheme, Ok
  <2>4. NoneIs("load")' <=> NoneIs("load")
    BY <1>9, <2>1
  <2> QED BY <1>1, <1>3, <1>6, <1>7, <2>2, <2>3, <2>4 DEF Loading
<1>11. CASE AnswerName(c)
  <2>1. calls[c].kind = "name" /\ tab' = [tab EXCEPT !.attr = Named(calls[c].data)]
    BY <1>11 DEF AnswerName, Answered, Is
  <2>2. /\ tab'.attr = Named(calls[c].data) /\ tab'.settings = tab.settings
        /\ tab'.sheet = tab.sheet /\ tab'.failed = tab.failed
    BY <1>0, <2>1 DEF TabSet
  <2>3. calls[c].data \in {None, stored.theme}
    BY <1>1, <1>8, <2>1 DEF PageRequest
  <2>4. (NoneIs("load")' <=> NoneIs("load")) /\ (NoneIs("link")' <=> NoneIs("link"))
    BY <1>9, <2>1
  <2>5. Rules(stored.theme)' = Rules(stored.theme)
    BY <1>1, <2>2 DEF Rules
  <2>6. /\ tab'.attr \in {None, stored.theme}
        /\ tab.attr = stored.theme => tab'.attr = stored.theme
    BY <1>3, <2>2, <2>3 DEF Loading, Named
  <2> QED BY <1>1, <1>3, <1>6, <1>7, <2>2, <2>4, <2>5, <2>6 DEF Loading
<1>12. CASE AnswerLoad(c)
  <2>1. /\ calls[c].kind = "load" /\ Ok(c)
        /\ tab' = [tab EXCEPT !.settings = calls[c].value, !.themes = calls[c].themes,
                              !.attr = Named(calls[c].value.theme)]
    BY <1>12 DEF AnswerLoad, Answered, Is
  <2>2. calls[c].value = GetSettings /\ GetSettings.theme = stored.theme
    BY <1>0, <1>8, <2>1, GetSettingsFacts DEF PageRequest, Ok
  <2>3. /\ tab'.attr = Named(calls[c].value.theme) /\ tab'.settings = calls[c].value
        /\ tab'.sheet = tab.sheet /\ tab'.failed = tab.failed
    BY <1>0, <2>1 DEF TabSet
  <2>4. NoneIs("link")' <=> NoneIs("link")
    BY <1>9, <2>1
  <2>5. Rules(stored.theme)' = Rules(stored.theme)
    BY <1>1, <2>3 DEF Rules
  <2>6. tab'.attr = stored.theme
    BY <1>3, <2>2, <2>3 DEF Loading, Named
  <2> QED BY <1>1, <1>3, <1>6, <1>7, <2>2, <2>3, <2>4, <2>5, <2>6 DEF Loading
<1> QED BY <1>10, <1>11, <1>12

(* When the answer to a save or to a request of a theme does. *)
LEMMA TabStepOfTheme ==
  ASSUME SettingsTyped, TabInv, NEW c \in Slots, AnswerSave(c) \/ AnswerTheme(c)
  PROVE  TabInv'
<1> SUFFICES ASSUME ~ doubt' PROVE (Loading \/ Fetching)'
  BY DEF TabInv
<1>0. tab \in TabSet /\ stored \in SettingSet
  BY DEF SettingsTyped
<1>1. ~ doubt /\ stored' = stored
  BY DEF AnswerSave, AnswerTheme
<1>2. GetSettings' = GetSettings
  BY <1>1 DEF GetSettings
<1>3. CASE AnswerSave(c)
  <2>1. /\ calls[c] # None /\ calls[c].kind = "save" /\ calls[c].status \in {"ok", "refused"}
        /\ \A e \in Slots \ {c} :
             \/ calls'[e] = calls[e]
             \/ calls[e] # None /\ calls[e].kind = "link" /\ calls'[e] = None
    BY <1>3, AnswerSaveFacts
  <2>2. c \in Mine
    BY <2>1, MineFacts DEF Here
  <2>3. Mine = {c}
    BY <1>1, <2>1, <2>2, SavingFacts
  <2>4. \A e \in Slots \ {c} : ~ Here(e)'
    BY <2>1, <2>3, MineFacts DEF Here
  <2>5. CASE calls[c].status = "refused"
    <3>1. tab' = tab /\ calls'[c] = None
      BY <1>3, <2>5, AnswerSaveFacts
    <3>2. Mine' = {}
      BY <2>4, <3>1, MineNext DEF Here
    <3>3. Steady
      BY <1>1, <2>1, <2>2, <2>5, SavingFacts
    <3>4. Steady'
      BY <1>1, <1>2, <3>1, <3>3 DEF Steady, Rules
    <3>5. Loading'
      BY <3>2, <3>4 DEF Loading, Steady
    <3> QED BY <3>5
  <2>6. CASE calls[c].status = "ok"
    <3>1. /\ calls[c].value = stored /\ calls[c].value # None /\ calls[c].value.delimiters # None
      BY <1>1, <2>1, <2>2, <2>6, SavingFacts, SlotFacts DEF Sound
    <3>2. GetSettings = stored
      BY <1>0, <3>1, GetSettingsFacts
    <3>3. CASE isDefaultTheme(stored.theme)
      <4>1. /\ calls'[c] = None /\ tab'.settings = stored /\ tab'.attr = stored.theme /\ tab'.sheet = None
        BY <1>3, <2>6, <3>1, <3>3, AnswerSaveFacts
      <4>2. Mine' = {}
        BY <2>4, <4>1, MineNext DEF Here
      <4>3. Rules(stored.theme)' = None
        BY <1>1, <3>3 DEF Rules, isDefaultTheme
      <4>4. Loading'
        BY <1>1, <1>2, <3>2, <4>1, <4>2, <4>3 DEF Loading
      <4> QED BY <4>4
    <3>4. CASE ~ isDefaultTheme(stored.theme)
      <4>1. /\ calls'[c] # None /\ calls'[c].kind = "theme" /\ calls'[c].status = "asked"
            /\ calls'[c].value = stored /\ calls'[c].data = None /\ tab'.attr = stored.theme
        BY <1>3, <2>6, <3>1, <3>4, AnswerSaveFacts
      <4>2. Mine' = {c}
        BY <2>4, <4>1, MineNext DEF Here
      <4>3. stored.theme \in Themes
        BY <3>4 DEF isDefaultTheme
      <4>4. Fetching'
        BY <1>1, <1>2, <3>1, <3>2, <4>1, <4>2, <4>3 DEF Fetching
      <4> QED BY <4>4
    <3> QED BY <3>3, <3>4
  <2> QED BY <2>1, <2>5, <2>6
<1>4. CASE AnswerTheme(c)
  <2>1. /\ calls[c] # None /\ calls[c].kind = "theme" /\ calls[c].status \in {"ok", "refused"}
        /\ tab'.attr = tab.attr /\ tab'.sheet = calls[c].data
        /\ tab'.failed = (calls[c].status # "ok")
        /\ tab'.settings = IF calls[c].value = None THEN tab.settings ELSE calls[c].value
        /\ calls'[c] = None
        /\ \A e \in Slots \ {c} :
             \/ calls'[e] = calls[e]
             \/ calls[e] # None /\ calls[e].kind = "link" /\ calls'[e] = None
    BY <1>4, AnswerThemeFacts
  <2>2. c \in Mine
    BY <2>1, MineFacts DEF Here
  <2>3. /\ Mine = {c} /\ tab.attr = stored.theme /\ stored.theme \in Themes
        /\ IF calls[c].value = None THEN tab.settings = GetSettings ELSE calls[c].value = GetSettings
        /\ calls[c].data = IF calls[c].status = "ok" THEN stored.theme ELSE None
    BY <1>1, <2>1, <2>2, FetchingFacts
  <2>4. Mine' = {}
    BY <2>1, <2>3, MineFacts, MineNext DEF Here
  <2>5. tab'.sheet = Rules(stored.theme)'
    BY <1>1, <2>1, <2>3 DEF Rules, isDefaultTheme
  <2>6. tab'.settings = GetSettings
    BY <2>1, <2>3
  <2>7. Loading'
    BY <1>1, <1>2, <2>1, <2>3, <2>4, <2>5, <2>6 DEF Loading
  <2> QED BY <2>7
<1> QED BY <1>3, <1>4

(* When the process ends, when the network fails, and when the distributor takes a
   message. *)
LEMMA TabStepOfRest ==
  ASSUME SettingsTyped, TabInv,
         ApplySettings \/ Restart \/ (\E c \in Slots : Lose(c)) \/ UNCHANGED vars
  PROVE  TabInv'
<1> SUFFICES ASSUME ~ doubt' PROVE TabInv'
  BY DEF TabInv
<1>1. CASE ApplySettings \/ UNCHANGED vars
  <2>1. UNCHANGED <<calls, doubt, stored, tab>>
    BY <1>1 DEF ApplySettings, vars
  <2>2. \A c \in Slots : Here(c)' <=> Here(c)
    BY <2>1 DEF Here
  <2> QED BY <2>1, <2>2, TabFrame
<1>2. CASE Restart
  <2>1. /\ ~ doubt /\ (\A c \in Mine : ~ Broken(c)) /\ stored' = stored /\ tab' = tab
        /\ calls' = [c \in Slots |-> IF Broken(c) THEN None ELSE calls[c]]
    BY <1>2 DEF Restart
  <2>2. \A c \in Slots : Here(c) => calls'[c] = calls[c]
    BY <2>1, MineFacts
  <2>3. \A c \in Slots : Here(c)' <=> Here(c)
    BY <2>1, <2>2 DEF Here
  <2> QED BY <2>1, <2>2, <2>3, TabFrame
<1>3. CASE \E c \in Slots : Lose(c)
  BY <1>3 DEF Lose
<1> QED BY <1>1, <1>2, <1>3

-----------------------------------------------------------------------------
(* The inductive invariant, and the theorems. *)

(* The inductive invariant holds in every state of every behaviour. *)
LEMMA SettingsAlways == Spec => []SettingsInv
<1>1. Init => SettingsInv
  BY TypedInit, FollowsInit, TabInit DEF SettingsInv
<1>2. SettingsInv /\ [Next]_vars => SettingsInv'
  <2> SUFFICES ASSUME SettingsTyped, FollowsInv, TabInv, [Next]_vars PROVE SettingsInv'
    BY DEF SettingsInv
  <2>1. SettingsTyped' /\ FollowsInv'
    BY TypedStep, FollowsStep
  <2>2. TabInv'
    BY TabStepOfUsers, TabStepOfServer, TabStepOfPage, TabStepOfTheme, TabStepOfRest DEF Next
  <2> QED BY <2>1, <2>2 DEF SettingsInv
<1> QED BY <1>1, <1>2, PTL DEF Spec

(* For any themes and delimiters, any number of requests and any room in the channel:
   when no update is between its write and its message and the channel is empty, the
   distributor has the settings that are stored, after restarts too, unless two
   updates crossed between the table and the channel (internal/settings/service.go:49,
   cmd/zenin.go:64). *)
THEOREM SettingsReachEvents == Spec => []DistributorFollows
<1>1. SettingsInv => DistributorFollows
  BY DEF SettingsInv, FollowsInv, DistributorFollows, Coming
<1> QED BY <1>1, SettingsAlways, PTL

(* Likewise, a tab whose user waits for its requests, and whose settings nobody else
   has changed since it was loaded, has the settings that are stored, names their
   theme, and has the rules of that theme and no other, or none if its file could
   not be fetched (web/src/components/Dashboard/Settings/Settings.tsx:60). *)
THEOREM ThemeIsShown == Spec => []ThemeShown
<1>1. SettingsInv => ThemeShown
  <2> SUFFICES ASSUME SettingsInv, ~ doubt, Mine = {}
               PROVE  /\ tab.settings = GetSettings
                      /\ tab.attr = tab.settings.theme
                      /\ tab.sheet = IF tab.failed \/ isDefaultTheme(tab.attr) THEN None ELSE tab.attr
    BY DEF ThemeShown
  <2>1. Steady
    BY IdleFacts DEF SettingsInv
  <2>2. GetSettings.theme = stored.theme
    BY GetSettingsFacts DEF SettingsInv, SettingsTyped
  <2> QED BY <2>1, <2>2 DEF Steady, Rules
<1> QED BY <1>1, SettingsAlways, PTL

=============================================================================
