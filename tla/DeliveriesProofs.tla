--------------------------- MODULE DeliveriesProofs ---------------------------
(* Theorems about deliveries, for any records, any deliveries and any failures: over the whole *)
(* table of Routes, one closed without a word is done, and only what is gone is marked deleted. *)
EXTENDS Deliveries, FiniteSetTheorems, TLAPS

(* The table: what is done about an event is of the kind of the event. *)
Fits(rules) ==
  \A w \in DOMAIN rules :
    /\ w # "later"
    /\ w \in {"noted", "unnoted"} => rules[w] \in {"notes", "unnote", "skip"}
    /\ w = "listed" => rules[w] = "list"
    /\ w = "removed" => rules[w] = "delete"
    /\ w \notin {"noted", "unnoted", "listed", "removed"} => rules[w] \in {"reread", "skip"}

LEMMA Joined ==
  ASSUME NEW f, NEW g, Fits(f), Fits(g)
  PROVE  Fits(f ++ g)
BY DEF Fits, ++

LEMMA Pieces ==
  /\ Fits(Record) /\ Fits(Bulk) /\ Fits(Removable) /\ Fits(Notes) /\ Fits(NewNotes)
  /\ Fits(NoNotes) /\ Fits(Files) /\ Fits(FilesAdded) /\ Fits(Lists) /\ Fits(Aside)
BY DEF Fits, Record, Bulk, Removable, Notes, NewNotes, NoNotes, Files, FilesAdded, Lists, Aside

LEMMA Table ==
  ASSUME NEW m \in DOMAIN Modules
  PROVE  Fits(Modules[m].rules) /\ Modules[m].later \in {"reread", "skip"}
<1> DEFINE Good(spec) == Fits(spec.rules) /\ spec.later \in {"reread", "skip"}
<1>1. ASSUME NEW entity, NEW rules, Fits(rules) PROVE Good(Module(entity, rules))
  BY <1>1 DEF Module
<1>2. Good(Job) /\ Good(Timesheet) /\ Good(Estimates)
  <2>1. /\ Fits(Record ++ Bulk ++ Removable ++ Notes ++ FilesAdded ++ Aside)
        /\ Fits(Lists ++ Aside)
        /\ Fits(Record ++ Bulk ++ Removable ++ NoNotes ++ Files ++ Aside)
    BY Pieces, Joined
  <2> QED BY <2>1 DEF Job, Timesheet, Estimates, Module
<1>3. Good(Customer) /\ Good(Organization) /\ Good(Property) /\ Good(Products) /\ Good(Invoice)
  <2>1. /\ Fits(Record ++ Bulk ++ Notes ++ Files ++ Aside)
        /\ Fits(Record ++ Bulk ++ Removable ++ Files ++ Aside)
        /\ Fits(Record ++ Bulk ++ Removable ++ FilesAdded)
        /\ Fits(Record ++ Bulk ++ Removable ++ Lists ++ Aside)
        /\ Fits(Record ++ Bulk ++ Removable ++ NoNotes ++ Files ++ Aside)
    BY Pieces, Joined
  <2> QED BY <2>1, <1>1 DEF Customer, Organization, Property, Products, Invoice
<1>4. Good(ServiceContracts) /\ Good(Assets) /\ Good(Team) /\ Good(Project)
      /\ Good(PurchaseOrder) /\ Good(User) /\ Good(Request)
  <2>1. /\ Fits(Record ++ Bulk ++ Removable ++ NoNotes)
        /\ Fits(Record ++ Bulk ++ Removable ++ Notes ++ Files ++ Aside)
        /\ Fits(Record ++ Removable)
        /\ Fits(Record ++ Bulk ++ Removable ++ NewNotes)
        /\ Fits(Record ++ Removable ++ NewNotes ++ Aside)
        /\ Fits(Record ++ Removable ++ Aside)
        /\ Fits(Record ++ Removable ++ NewNotes)
    BY Pieces, Joined
  <2> QED BY <2>1, <1>1 DEF ServiceContracts, Assets, Team, Project, PurchaseOrder, User, Request
<1> HIDE DEF Good
<1>5. Good(Modules[m])
  BY <1>2, <1>3, <1>4 DEF Modules
<1> QED BY <1>5 DEF Good

(* An event of Zuper: one of the table's, or one that only names a module or not even that.  *)
Event == [module : DOMAIN Modules, what : UNION {Offered(m) : m \in DOMAIN Modules},
          prefixed : BOOLEAN, deletes : BOOLEAN]
Known(e) == /\ e \in Event /\ e.what \in Offered(e.module)
            /\ e.prefixed \/ e.what = "later"
            /\ e.deletes => e.what = "bulk"

(* What is done about an event is what it is about. *)
LEMMA RouteFits ==
  ASSUME NEW e, Known(e), ~ResolveRoute(e).skip
  PROVE  /\ ResolveRoute(e).collection => e.what = "listed"
         /\ ResolveRoute(e).noteHost => Tells(e) = {"notes"}
         /\ ~ResolveRoute(e).noteHost /\ ~ResolveRoute(e).collection => Tells(e) \subseteq {"record"}
         /\ ResolveRoute(e).deletion /\ ~ResolveRoute(e).noteHost => e.what = "removed"
<1> DEFINE spec == Modules[e.module]
           rule == IF e.what = "later" THEN spec.later ELSE spec.rules[e.what]
<1>1. /\ e.module \in DOMAIN Modules
      /\ e.what # "later" => e.what \in DOMAIN spec.rules
      /\ e.prefixed \in BOOLEAN
  BY DEF Known, Event, Offered
<1>2. Fits(spec.rules) /\ spec.later \in {"reread", "skip"}
  <2>1. \A m \in DOMAIN Modules : Fits(Modules[m].rules) /\ Modules[m].later \in {"reread", "skip"}
    BY Table
  <2> QED BY <1>1, <2>1
<1>3. /\ rule \in {"notes", "unnote", "skip", "reread", "list", "delete"}
      /\ rule \in {"notes", "unnote"} => e.what \in {"noted", "unnoted"}
      /\ e.what \in {"noted", "unnoted"} => rule \in {"notes", "unnote", "skip"}
      /\ rule = "list" <=> e.what = "listed"
      /\ rule = "delete" => e.what = "removed"
  <2>1. CASE e.what = "later"
    BY <1>2, <2>1
  <2>2. CASE e.what # "later"
    <3>1. e.what \in DOMAIN spec.rules /\ rule = spec.rules[e.what]
      BY <1>1, <2>2
    <3> HIDE DEF spec, rule
    <3> QED BY <1>2, <2>2, <3>1 DEF Fits
  <2> QED BY <2>1, <2>2
<1>4. ResolveRoute(e) = Build(spec, rule)
  <2>1. CASE e.what = "later"
    BY <1>1, <2>1 DEF ResolveRoute, Unrouted
  <2>2. CASE e.what # "later"
    BY <1>1, <2>2 DEF ResolveRoute
  <2> QED BY <2>1, <2>2
<1> HIDE DEF rule, spec
<1>5. /\ ResolveRoute(e).collection <=> rule = "list"
      /\ ResolveRoute(e).noteHost <=> rule \in {"notes", "unnote"}
      /\ ResolveRoute(e).deletion <=> rule \in {"delete", "unnote"}
      /\ ResolveRoute(e).skip <=> rule = "skip"
  <2> DEFINE r == RouteOf(spec, rule, rule \in {"notes", "unnote"})
  <2>1. ResolveRoute(e) = r
    BY <1>4 DEF Build
  <2>2. /\ r.collection = (rule = "list") /\ r.noteHost = (rule \in {"notes", "unnote"})
        /\ r.deletion = (rule \in {"delete", "unnote"}) /\ r.skip = (rule = "skip")
    BY Zenon DEF RouteOf
  <2> QED BY <2>1, <2>2
<1>6. /\ e.what \in {"noted", "unnoted"} => Tells(e) = {"notes"}
      /\ e.what \notin {"noted", "unnoted"} => Tells(e) \subseteq {"record"}
  BY DEF Tells
<1> QED BY <1>3, <1>5, <1>6

(* A delivery that came names what its event is about, and owes no more than that of each. *)
Fit(d) ==
  /\ Known(told[d]) /\ told[d].module = module
  /\ told[d].what = "listed" => names[d] = {}
  /\ told[d].what # "bulk" => names[d] = {} \/ \E u \in Named : names[d] = {u}
  /\ owed[d] \subseteq names[d] \X Tells(told[d])
  /\ Goes(told[d]) => \A u \in names[d] : theirs[u] = "gone"

(* Going through a bulk action, what is still owed is what is still to do, unless one failed. *)
Going(d) ==
  /\ told[d].what = "bulk" /\ ~Route(d).skip
  /\ todo[d] \subseteq names[d]
  /\ ~failures[d] => owed[d] \subseteq todo[d] \X {"record"}

Owing == [Slots -> SUBSET (Named \X {"record", "notes"})]
Copies == [Named -> {"none", "live", "deleted"}]
Typed ==
  /\ module \in DOMAIN Modules
  /\ theirs \in [Named -> {"live", "gone"}] /\ ours \in Copies
  /\ DOMAIN told = Slots /\ names \in [Slots -> SUBSET Named]
  /\ status \in [Slots -> {"none", "open", "bulk", "closed"}] /\ noted \in [Slots -> BOOLEAN]
  /\ todo \in [Slots -> SUBSET Named] /\ failures \in [Slots -> BOOLEAN] /\ owed \in Owing

IInv ==
  /\ Typed
  /\ \A d \in Slots : status[d] # "none" => Fit(d)
  /\ \A d \in Slots : status[d] = "bulk" => Going(d)
  /\ ClosedIsDone /\ DeletedIsGone

LEMMA Singular ==
  ASSUME IsFiniteSet(Named), NEW S \in SUBSET Named, Cardinality(S) = 1
  PROVE  \E u \in Named : S = {u}
<1>1. IsFiniteSet(S)
  BY FS_Subset
<1>2. \E u : S = {u}
  BY <1>1, FS_Singleton
<1> QED BY <1>2

LEMMA Several ==
  ASSUME NEW S, S = {} \/ \E u \in Named : S = {u}
  PROVE  ~(Cardinality(S) > 1)
<1>1. CASE S = {}
  BY <1>1, FS_EmptySet
<1>2. CASE \E u \in Named : S = {u}
  <2>1. Cardinality(S) = 1
    BY <1>2, FS_Singleton
  <2> QED BY <2>1
<1> QED BY <1>1, <1>2

(* What a step writes: it marks only what is gone, and what it shows is owed no more. *)
Writes ==
  /\ ours' \in Copies /\ \A u \in Named : ours'[u] = "deleted" => ours[u] = "deleted" \/ theirs[u] = "gone"
  /\ owed' \in Owing /\ \A d \in Slots : owed'[d] \subseteq owed[d]

LEMMA NothingWritten ==
  ASSUME Typed, Unwritten
  PROVE  Writes /\ \A d \in Slots : owed'[d] = owed[d]
BY DEF Typed, Unwritten, Writes

LEMMA Shown ==
  ASSUME Typed, NEW u, NEW part, Shows(u, part)
  PROVE  owed' \in Owing /\ \A d \in Slots : owed'[d] = owed[d] \ {<<u, part>>}
BY DEF Typed, Shows, Owing

LEMMA NotesWritten ==
  ASSUME Typed, NEW u, Shows(u, "notes"), UNCHANGED ours
  PROVE  Writes /\ \A d \in Slots : owed'[d] = owed[d] \ {<<u, "notes">>}
BY Shown DEF Typed, Writes

LEMMA RecordWritten ==
  ASSUME Typed, NEW u \in Named,
         (MarkDeleted(u) /\ theirs[u] = "gone") \/ Reread(u)
  PROVE  Writes /\ \A d \in Slots : owed'[d] = owed[d] \ {<<u, "record">>}
<1>1. Shows(u, "record")
  BY DEF MarkDeleted, Reread
<1>2. \/ UNCHANGED ours
      \/ ours' = [ours EXCEPT ![u] = "deleted"] /\ theirs[u] = "gone"
      \/ ours' = [ours EXCEPT ![u] = "live"]
  BY DEF MarkDeleted, Reread
<1>3. ours' \in Copies /\ \A v \in Named : ours'[v] = "deleted" => ours[v] = "deleted" \/ theirs[v] = "gone"
  BY <1>2 DEF Typed, Copies
<1> QED BY <1>1, <1>3, Shown DEF Writes

(* What a step on a delivery has to show for the invariant: the rest follows. *)
Done(d) ==
  /\ Still /\ Writes /\ status[d] # "none" /\ status'[d] # "none"
  /\ status' \in [Slots -> {"none", "open", "bulk", "closed"}] /\ noted' \in [Slots -> BOOLEAN]
  /\ todo' \in [Slots -> SUBSET Named] /\ failures' \in [Slots -> BOOLEAN]
  /\ \A c \in Slots \ {d} : /\ status'[c] = status[c] /\ noted'[c] = noted[c]
                            /\ todo'[c] = todo[c] /\ failures'[c] = failures[c]
  /\ status'[d] = "closed" /\ ~noted'[d] => owed'[d] = {}
  /\ status'[d] = "bulk" => Going(d)'

LEMMA StillFits ==
  ASSUME IInv, NEW d \in Slots, Done(d)
  PROVE  IInv'
<1> USE DEF IInv
<1>1. Typed'
  BY DEF Done, Still, Writes, Typed
<1>2. ASSUME NEW c \in Slots, status'[c] # "none" PROVE Fit(c)'
  <2>1. status[c] # "none"
    BY <1>2 DEF Done
  <2> QED BY <2>1 DEF Done, Still, Writes, Fit
<1>3. ASSUME NEW c \in Slots, status'[c] = "bulk" PROVE Going(c)'
  <2>1. CASE c = d
    BY <1>3, <2>1 DEF Done
  <2>2. CASE c # d
    <3>1. Going(c)
      BY <1>3, <2>2 DEF Done
    <3>2. /\ told' = told /\ names' = names /\ todo'[c] = todo[c] /\ failures'[c] = failures[c]
          /\ owed'[c] \subseteq owed[c]
      BY <2>2 DEF Done, Still, Writes
    <3> QED BY <3>1, <3>2 DEF Going, Route
  <2> QED BY <2>1, <2>2
<1>4. ClosedIsDone'
  <2>1. ASSUME NEW c \in Slots, status'[c] = "closed", ~noted'[c] PROVE owed'[c] = {}
    BY <2>1 DEF Done, Writes, ClosedIsDone
  <2> QED BY <2>1 DEF ClosedIsDone
<1>5. DeletedIsGone'
  BY DEF Done, Still, Writes, DeletedIsGone
<1> QED BY <1>1, <1>2, <1>3, <1>4, <1>5

LEMMA Closed ==
  ASSUME Typed, NEW d \in Slots, NEW reason \in BOOLEAN, Still, Writes, status[d] # "none",
         Close(d, reason), ~reason => owed'[d] = {}
  PROVE  Done(d)
BY DEF Typed, Close, Done

LEMMA Failed ==
  ASSUME Typed, NEW d \in Slots, Still, status[d] = "open", Fail(d)
  PROVE  Done(d)
<1>1. Writes
  BY NothingWritten DEF Fail
<1> QED BY <1>1 DEF Typed, Fail, Done

(* One record: a delivery that names one owes nothing of another. *)
LEMMA OfOne ==
  ASSUME IsFiniteSet(Named), IInv, NEW d \in Slots, status[d] # "none", Cardinality(names[d]) = 1
  PROVE  /\ One(d) \in Named /\ names[d] = {One(d)}
         /\ owed[d] \subseteq {One(d)} \X Tells(told[d])
<1>1. PICK u \in Named : names[d] = {u}
  BY Singular DEF IInv, Typed
<1>2. One(d) = u
  BY <1>1 DEF One
<1> QED BY <1>1, <1>2 DEF IInv, Fit

LEMMA InitInv == Init => IInv
<1> SUFFICES ASSUME Init PROVE IInv
  OBVIOUS
<1>1. Typed
  BY DEF Init, Typed, Copies, Owing
<1> QED BY <1>1 DEF Init, IInv, ClosedIsDone, DeletedIsGone

LEMMA HappenInv ==
  ASSUME IInv, NEW d \in Slots, NEW e \in Events, Happen(d, e)
  PROVE  IInv'
<1> USE DEF IInv
<1>1. PICK us \in Whose(e) :
          /\ Goes(e) => \A u \in us : theirs[u] = "live"
          /\ theirs' = [u \in Named |-> IF Goes(e) /\ u \in us THEN "gone" ELSE theirs[u]]
          /\ names' = [names EXCEPT ![d] = us] /\ owed' = [owed EXCEPT ![d] = us \X Tells(e)]
  BY DEF Happen
<1>2. /\ us \in SUBSET Named
      /\ e.what = "listed" => us = {}
      /\ e.what # "bulk" => us = {} \/ \E u \in Named : us = {u}
  BY DEF Whose
<1>3. Known(e) /\ e.module = module
  <2>1. /\ e.module = module /\ e.what \in Offered(module) /\ module \in DOMAIN Modules
        /\ e.prefixed \in BOOLEAN /\ e.deletes \in BOOLEAN
        /\ e = [module |-> e.module, what |-> e.what, prefixed |-> e.prefixed, deletes |-> e.deletes]
    BY DEF Typed, Events
  <2>2. e \in Event
    BY <2>1 DEF Event
  <2>3. /\ e.prefixed \/ e.what = "later"
        /\ e.deletes => e.what = "bulk"
    BY DEF Happen
  <2> QED BY <2>1, <2>2, <2>3 DEF Known
<1>4. Tells(e) \subseteq {"record", "notes"}
  BY DEF Tells
<1>5. /\ module' = module /\ UNCHANGED <<ours, noted, todo, failures>>
      /\ told' = [told EXCEPT ![d] = e] /\ status' = [status EXCEPT ![d] = "open"]
      /\ status[d] = "none"
  BY DEF Happen
<1>6. /\ us \X Tells(e) \in SUBSET (Named \X {"record", "notes"})
  BY <1>2, <1>4
<1>7. Typed'
  <2>1. owed' \in Owing
    BY <1>1, <1>6 DEF Typed, Owing
  <2>2. theirs' \in [Named -> {"live", "gone"}]
    BY <1>1 DEF Typed
  <2>3. names' \in [Slots -> SUBSET Named]
    BY <1>1, <1>2 DEF Typed
  <2> QED BY <1>5, <2>1, <2>2, <2>3 DEF Typed
<1>8. ASSUME NEW c \in Slots, status'[c] # "none" PROVE Fit(c)'
  <2>1. CASE c = d
    <3>1. told'[c] = e /\ names'[c] = us /\ owed'[c] = us \X Tells(e)
      BY <1>1, <1>5, <2>1 DEF Typed, Owing
    <3>2. Goes(e) => \A u \in us : theirs'[u] = "gone"
      BY <1>1, <1>2
    <3> QED BY <3>1, <3>2, <1>2, <1>3, <1>5 DEF Fit
  <2>2. CASE c # d
    <3>1. told'[c] = told[c] /\ names'[c] = names[c] /\ owed'[c] = owed[c] /\ status'[c] = status[c]
      BY <1>1, <1>5, <2>2 DEF Typed, Owing
    <3>2. \A u \in Named : theirs[u] = "gone" => theirs'[u] = "gone"
      BY <1>1
    <3>3. Fit(c) /\ names[c] \in SUBSET Named
      BY <1>8, <3>1 DEF Typed
    <3> QED BY <3>1, <3>2, <3>3, <1>5 DEF Fit
  <2> QED BY <2>1, <2>2
<1>9. ASSUME NEW c \in Slots, status'[c] = "bulk" PROVE Going(c)'
  <2>1. c # d
    BY <1>5, <1>9 DEF Typed
  <2>2. /\ told'[c] = told[c] /\ names'[c] = names[c] /\ owed'[c] = owed[c]
        /\ status'[c] = status[c] /\ todo'[c] = todo[c] /\ failures'[c] = failures[c]
    BY <1>1, <1>5, <2>1 DEF Typed, Owing
  <2> QED BY <2>2, <1>9 DEF Going, Route
<1>10. ClosedIsDone'
  <2>1. ASSUME NEW c \in Slots, status'[c] = "closed" PROVE status[c] = "closed" /\ owed'[c] = owed[c]
    BY <1>1, <1>5, <2>1 DEF Typed, Owing
  <2> QED BY <2>1, <1>5 DEF ClosedIsDone
<1>11. DeletedIsGone'
  BY <1>1, <1>5 DEF DeletedIsGone
<1> QED BY <1>7, <1>8, <1>9, <1>10, <1>11

(* What the route of a delivery that came says of what it owes. *)
LEMMA Routing ==
  ASSUME IInv, NEW d \in Slots, status[d] # "none", ~Route(d).skip
  PROVE  /\ Route(d).collection => names[d] = {}
         /\ Route(d).noteHost => Tells(told[d]) = {"notes"}
         /\ ~Route(d).noteHost /\ ~Route(d).collection => Tells(told[d]) \subseteq {"record"}
         /\ Route(d).deletion /\ ~Route(d).noteHost => told[d].what = "removed"
<1>1. Fit(d)
  BY DEF IInv
<1> QED BY <1>1, RouteFits DEF Fit, Route

LEMMA ListDone ==
  ASSUME IInv, NEW d \in Slots, Skip(d) \/ List(d) \/ Unnamed(d)
  PROVE  Done(d)
<1>1. Typed /\ Still /\ status[d] = "open"
  BY DEF IInv, Skip, List, Unnamed, Routed, Begins
<1>2. CASE Skip(d)
  <2>1. Writes /\ Close(d, TRUE)
    BY <1>1, <1>2, NothingWritten DEF Skip
  <2> QED BY <1>1, <2>1, Closed
<1>3. CASE List(d)
  <2>1. names[d] = {}
    BY <1>1, <1>3, Routing DEF List
  <2>2. owed[d] = {}
    BY <1>1, <2>1 DEF IInv, Fit
  <2>3. CASE Fail(d)
    BY <1>1, <2>3, Failed
  <2>4. CASE ~Fail(d)
    <3>1. PICK reason \in BOOLEAN : Close(d, reason)
      BY <1>3, <2>4 DEF List
    <3>2. Writes /\ owed'[d] = {}
      BY <1>1, <1>3, <2>2, NothingWritten DEF List
    <3> QED BY <1>1, <3>1, <3>2, Closed
  <2> QED BY <2>3, <2>4
<1>4. CASE Unnamed(d)
  BY <1>1, <1>4, Failed DEF Unnamed
<1> QED BY <1>2, <1>3, <1>4

LEMMA NotesDone ==
  ASSUME IsFiniteSet(Named), IInv, NEW d \in Slots, Notes1(d)
  PROVE  Done(d)
<1>1. Typed /\ Still /\ status[d] = "open" /\ ~Route(d).skip
  BY DEF IInv, Notes1, Routed, Begins
<1>2. One(d) \in Named /\ owed[d] \subseteq {One(d)} \X {"notes"}
  BY <1>1, OfOne, Routing DEF Notes1
<1>3. CASE Fail(d)
  BY <1>1, <1>3, Failed
<1>4. CASE ~Fail(d)
  <2>1. Shows(One(d), "notes") /\ UNCHANGED ours /\ Close(d, FALSE)
    BY <1>4 DEF Notes1
  <2>2. Writes /\ owed'[d] = owed[d] \ {<<One(d), "notes">>}
    BY <1>1, <2>1, NotesWritten
  <2>3. owed'[d] = {}
    BY <1>2, <2>2
  <2> QED BY <1>1, <2>1, <2>2, <2>3, Closed
<1> QED BY <1>3, <1>4

LEMMA RecordDone ==
  ASSUME IsFiniteSet(Named), IInv, NEW d \in Slots, Delete1(d) \/ Sync1(d)
  PROVE  Done(d)
<1>1. /\ Typed /\ Still /\ status[d] = "open"
      /\ ~Route(d).skip /\ ~Route(d).noteHost /\ ~Route(d).collection
  BY DEF IInv, Delete1, Sync1, Routed, Begins
<1>2. One(d) \in Named /\ names[d] = {One(d)} /\ owed[d] \subseteq {One(d)} \X {"record"}
  BY <1>1, OfOne, Routing DEF Delete1, Sync1
<1>3. CASE Fail(d)
  BY <1>1, <1>3, Failed
<1>4. CASE Close(d, TRUE) /\ Unwritten
  BY <1>1, <1>4, NothingWritten, Closed
<1>5. ASSUME Writes /\ owed'[d] = owed[d] \ {<<One(d), "record">>}, Close(d, FALSE) PROVE Done(d)
  <2>1. owed'[d] = {}
    BY <1>2, <1>5
  <2> QED BY <1>1, <1>5, <2>1, Closed
<1>6. CASE Delete1(d)
  <2>1. theirs[One(d)] = "gone"
    <3>1. told[d].what = "removed"
      BY <1>1, <1>6, Routing DEF Delete1
    <3> QED BY <1>1, <1>2, <3>1 DEF IInv, Fit, Goes
  <2>2. CASE MarkDeleted(One(d)) /\ Close(d, FALSE)
    BY <1>1, <1>2, <1>5, <2>1, <2>2, RecordWritten
  <2> QED BY <1>3, <1>6, <2>2 DEF Delete1
<1>7. CASE Sync1(d)
  <2>1. CASE Reread(One(d)) /\ Close(d, FALSE)
    BY <1>1, <1>2, <1>5, <2>1, RecordWritten
  <2> QED BY <1>3, <1>4, <1>7, <2>1 DEF Sync1
<1> QED BY <1>6, <1>7

LEMMA BulkDone ==
  ASSUME IInv, NEW d \in Slots,
         Begin(d) \/ EndBulk(d) \/ \E u \in Named : BulkRecord(d, u)
  PROVE  Done(d)
<1>1. Typed /\ Still /\ status[d] # "none"
  BY DEF IInv, Begin, EndBulk, BulkRecord, Routed, Begins
<1>2. CASE Begin(d)
  <2>1. status[d] = "open" /\ ~Route(d).skip /\ Fit(d)
    BY <1>1, <1>2 DEF Begin, Routed, Begins, IInv
  <2>2. told[d].what = "bulk"
    <3>1. told[d].what # "bulk" => names[d] = {} \/ \E u \in Named : names[d] = {u}
      BY <2>1 DEF Fit
    <3>2. names[d] = {} \/ (\E u \in Named : names[d] = {u}) => ~(Cardinality(names[d]) > 1)
      BY Several
    <3> QED BY <1>2, <3>1, <3>2 DEF Begin
  <2>3. Writes /\ owed'[d] = owed[d]
    BY <1>1, <1>2, NothingWritten DEF Begin
  <2>4. /\ status' = [status EXCEPT ![d] = "bulk"] /\ todo' = [todo EXCEPT ![d] = names[d]]
        /\ failures' = [failures EXCEPT ![d] = FALSE] /\ noted' = noted
    BY <1>2 DEF Begin
  <2>5. Going(d)'
    <3>1. owed[d] \subseteq names[d] \X {"record"}
      BY <2>1, <2>2 DEF Fit, Tells
    <3> QED BY <1>1, <2>1, <2>2, <2>3, <2>4, <3>1 DEF Going, Typed, Still, Route
  <2> QED BY <1>1, <2>3, <2>4, <2>5 DEF Typed, Done
<1>3. CASE EndBulk(d)
  <2>1. Going(d) /\ todo[d] = {} /\ Close(d, failures[d])
    BY <1>1, <1>3 DEF EndBulk, IInv
  <2>2. Writes /\ owed'[d] = owed[d]
    BY <1>1, <1>3, NothingWritten DEF EndBulk
  <2>3. ~failures[d] => owed'[d] = {}
    BY <2>1, <2>2 DEF Going
  <2>4. failures[d] \in BOOLEAN
    BY <1>1 DEF Typed
  <2> QED BY <1>1, <2>1, <2>2, <2>3, <2>4, Closed
<1>4. ASSUME NEW u \in Named, BulkRecord(d, u) PROVE Done(d)
  <2>1. /\ status[d] = "bulk" /\ u \in todo[d] /\ todo' = [todo EXCEPT ![d] = @ \ {u}]
        /\ UNCHANGED <<status, noted>>
    BY <1>4 DEF BulkRecord
  <2>2. Going(d) /\ Fit(d)
    BY <2>1 DEF IInv
  <2>3. Deleting(d) => theirs[u] = "gone"
    <3>1. ~Route(d).deletion \/ Route(d).noteHost
      BY <1>1, <2>2, Routing DEF Going
    <3>2. ~Route(d).noteHost
      BY <1>1, <2>2, Routing DEF Going, Tells
    <3> QED BY <2>1, <2>2, <3>1, <3>2 DEF Deleting, Goes, Fit, Going
  <2>4. CASE /\ IF Deleting(d) THEN MarkDeleted(u) ELSE Reread(u)
             /\ UNCHANGED failures
    <3>1. Writes /\ owed'[d] = owed[d] \ {<<u, "record">>}
      BY <1>1, <2>3, <2>4, RecordWritten
    <3>2. ~failures[d] => owed'[d] \subseteq (todo[d] \ {u}) \X {"record"}
      BY <2>2, <3>1 DEF Going
    <3>3. Going(d)'
      BY <1>1, <2>1, <2>2, <2>4, <3>2 DEF Going, Typed, Still, Route
    <3> QED BY <1>1, <2>1, <2>4, <3>1, <3>3 DEF Typed, Done
  <2>5. CASE failures' = [failures EXCEPT ![d] = TRUE] /\ Unwritten
    <3>1. Writes
      BY <1>1, <2>5, NothingWritten
    <3>2. Going(d)'
      BY <1>1, <2>1, <2>2, <2>5 DEF Going, Typed, Still, Route
    <3> QED BY <1>1, <2>1, <2>5, <3>1, <3>2 DEF Typed, Done
  <2> QED BY <1>4, <2>4, <2>5 DEF BulkRecord
<1> QED BY <1>2, <1>3, <1>4

LEMMA NextInv == ASSUME IsFiniteSet(Named) PROVE IInv /\ [Next]_vars => IInv'
<1> SUFFICES ASSUME IInv, [Next]_vars PROVE IInv'
  OBVIOUS
<1>1. ASSUME NEW d \in Slots, ProcessEvent(d) PROVE IInv'
  <2>1. Done(d)
    BY <1>1, ListDone, NotesDone, RecordDone, BulkDone DEF ProcessEvent
  <2> QED BY <2>1, StillFits
<1>2. CASE UNCHANGED vars
  BY <1>2 DEF IInv, Typed, Fit, Going, Route, ClosedIsDone, DeletedIsGone, vars
<1> QED BY <1>1, <1>2, HappenInv DEF Next

(* A delivery is tried so often at most, and has nothing left to do but in the middle of a bulk action. *)
Tallied ==
  /\ tries \in [Slots -> Nat]
  /\ \A d \in Slots : /\ tries[d] <= MaxTries /\ todo[d] \subseteq names[d]
                      /\ status[d] # "bulk" => todo[d] = {}

LEMMA TalliedBegins == ASSUME MaxTries \in Nat PROVE Init => Tallied
BY DEF Init, Tallied

LEMMA TalliedGoesOn ==
  ASSUME MaxTries \in Nat, Typed, Tallied, [Next]_vars
  PROVE  Tallied'
<1>1. ASSUME NEW d \in Slots, NEW reason, status[d] = "open" \/ todo[d] = {}, Still, Close(d, reason)
      PROVE  Tallied'
  <2>1. /\ UNCHANGED <<tries, todo, names>> /\ todo[d] = {}
        /\ \A c \in Slots \ {d} : status'[c] = status[c]
    <3>1. todo[d] = {}
      BY <1>1 DEF Tallied
    <3> QED BY <1>1, <3>1 DEF Typed, Still, Close
  <2> QED BY <2>1 DEF Tallied
<1>2. ASSUME NEW d \in Slots, Begins(d), Fail(d) PROVE Tallied'
  <2>1. UNCHANGED <<status, todo, names>> /\ tries' = [tries EXCEPT ![d] = @ + 1] /\ tries[d] < MaxTries
    BY <1>2 DEF Begins, Still, Fail
  <2>2. tries' \in [Slots -> Nat] /\ tries'[d] <= MaxTries /\ \A c \in Slots \ {d} : tries'[c] = tries[c]
    BY <2>1 DEF Tallied
  <2> QED BY <2>1, <2>2 DEF Tallied
<1>3. ASSUME NEW d \in Slots, NEW e \in Events, Happen(d, e) PROVE Tallied'
  <2>1. /\ UNCHANGED <<tries, todo>> /\ todo[d] = {} /\ status'[d] = "open"
        /\ \A c \in Slots \ {d} : status'[c] = status[c] /\ names'[c] = names[c]
    <3>1. todo[d] = {}
      BY <1>3 DEF Happen, Tallied
    <3>2. status' = [status EXCEPT ![d] = "open"] /\ UNCHANGED <<tries, todo>>
      BY <1>3 DEF Happen
    <3>3. \E us : names' = [names EXCEPT ![d] = us]
      BY <1>3 DEF Happen
    <3> QED BY <3>1, <3>2, <3>3 DEF Typed
  <2> QED BY <2>1 DEF Tallied
<1>4. ASSUME NEW d \in Slots, Skip(d) \/ List(d) \/ Unnamed(d) \/ Notes1(d) \/ Delete1(d) \/ Sync1(d)
      PROVE  Tallied'
  <2>1. Begins(d) /\ (Fail(d) \/ \E reason \in BOOLEAN : Close(d, reason))
    BY <1>4 DEF Skip, List, Unnamed, Notes1, Delete1, Sync1, Routed
  <2>2. status[d] = "open" /\ Still
    BY <2>1 DEF Begins
  <2> QED BY <1>1, <1>2, <2>1, <2>2
<1>5. ASSUME NEW d \in Slots, EndBulk(d) PROVE Tallied'
  BY <1>1, <1>5 DEF EndBulk
<1>6. ASSUME NEW d \in Slots, Begin(d) PROVE Tallied'
  <2>1. /\ UNCHANGED <<tries, names>> /\ status'[d] = "bulk" /\ todo'[d] = names[d]
        /\ \A c \in Slots \ {d} : status'[c] = status[c] /\ todo'[c] = todo[c]
    BY <1>6 DEF Begin, Routed, Begins, Still, Typed
  <2> QED BY <2>1 DEF Tallied
<1>7. ASSUME NEW d \in Slots, NEW u \in Named, BulkRecord(d, u) PROVE Tallied'
  <2>1. /\ UNCHANGED <<tries, names, status>> /\ status[d] = "bulk" /\ todo'[d] \subseteq todo[d]
        /\ \A c \in Slots \ {d} : todo'[c] = todo[c]
    BY <1>7 DEF BulkRecord, Still, Typed
  <2> QED BY <2>1 DEF Tallied
<1>8. CASE UNCHANGED vars
  BY <1>8 DEF Tallied, vars
<1> QED BY <1>3, <1>4, <1>5, <1>6, <1>7, <1>8 DEF Next, ProcessEvent

LEMMA DeliveriesAre ==
  ASSUME Typed, Tallied
  PROVE  TypeOK
<1>1. ASSUME NEW d \in Slots
      PROVE  /\ status[d] \in {"none", "open", "bulk", "closed"} /\ tries[d] <= MaxTries
             /\ todo[d] \subseteq names[d] /\ names[d] \subseteq Named /\ (status[d] # "bulk" => todo[d] = {})
  <2>1. status[d] \in {"none", "open", "bulk", "closed"} /\ names[d] \in SUBSET Named
    BY DEF Typed
  <2> QED BY <2>1 DEF Tallied
<1>2. ASSUME NEW u \in Named PROVE theirs[u] \in {"live", "gone"} /\ ours[u] \in {"none", "live", "deleted"}
  BY DEF Typed, Copies
<1> QED BY <1>1, <1>2 DEF TypeOK

(* A delivery closed without a word owes nothing, whatever its event, whatever fails and however *)
(* the deliveries of a record follow each other.                                                 *)
THEOREM ClosedDone == ASSUME IsFiniteSet(Named) PROVE Spec => []ClosedIsDone
<1>1. IInv => ClosedIsDone
  BY DEF IInv
<1> QED BY InitInv, NextInv, <1>1, PTL DEF Spec

(* And no copy is marked deleted of a record Zuper still has. *)
THEOREM DeletedGone == ASSUME IsFiniteSet(Named) PROVE Spec => []DeletedIsGone
<1>1. IInv => DeletedIsGone
  BY DEF IInv
<1> QED BY InitInv, NextInv, <1>1, PTL DEF Spec

===============================================================================
