---------------------------- MODULE DashboardProofs ----------------------------
(* Theorems about the settings form, for any people and fields: what was saved stands. *)
EXTENDS Dashboard, TLAPS

(* Who saves holds the row, and saves over the version the form was opened on: nothing was   *)
(* saved since. Each form, and each one submitted, was opened on a version that was stored.  *)
Honest(form) == form.version \in DOMAIN docs
                /\ form.initial = Normalise(docs[form.version], Defaults)
Opened == \A p \in People : Honest(forms[p]) /\ Honest(saves[p].form)
Holding == \A p \in People : saves[p].pc = "saving" => saves[p].form.version = Version

IInv == TypeOK /\ Opened /\ Holding /\ SavesStand

(* A form opened on a version that is stored. *)
LEMMA ShownIsHonest ==
  ASSUME Defaults \in Full, docs \in Seq(Document), NEW v \in DOMAIN docs
  PROVE  Shown(v) \in Form /\ Honest(Shown(v))
<1>1. docs[v] \in Document /\ v \in Nat
  OBVIOUS
<1>2. Normalise(docs[v], Defaults) \in Full
  BY <1>1 DEF Normalise, Document, Full
<1> QED BY <1>1, <1>2 DEF Shown, Form, Honest

LEMMA InitIInv ==
  ASSUME Defaults \in Full, "nobody" \notin People, Init
  PROVE  IInv
<1>1. PICK env \in Full : docs = <<[f \in Fields |-> IF f \in Lacking THEN "missing" ELSE env[f]]>>
  BY DEF Init
<1>2. docs \in Seq(Document) /\ DOMAIN docs = {1} /\ Version = 1
  <2> DEFINE d == [f \in Fields |-> IF f \in Lacking THEN "missing" ELSE env[f]]
  <2>1. d \in Document
    BY <1>1 DEF Full, Document
  <2> HIDE DEF d
  <2>2. docs = <<d>>
    BY <1>1 DEF d
  <2> QED BY <2>1, <2>2 DEF Version
<1>3. Shown(1) \in Form /\ Honest(Shown(1))
  BY <1>2, ShownIsHonest
<1>4. history = <<>> /\ history \in Seq(Saved) /\ lock = "nobody"
  BY DEF Init
<1>5. \A p \in People : /\ forms[p] = Shown(1) /\ saves[p].form = Shown(1)
                        /\ saves[p].pc = "none"
  BY DEF Init
<1>6. forms \in [People -> Form] /\ saves \in [People -> Submitted]
  BY <1>3 DEF Init, Submitted
<1>7. TypeOK
  BY <1>2, <1>4, <1>5, <1>6 DEF TypeOK
<1>8. Opened /\ Holding
  BY <1>3, <1>5 DEF Opened, Holding
<1>9. SavesStand
  BY <1>4 DEF SavesStand, NothingUndone, HistoryIsChain
<1> QED BY <1>7, <1>8, <1>9 DEF IInv

(* A person's form changes, and stays one that was opened on a stored version. *)
LEMMA FormChanges ==
  ASSUME IInv, NEW p \in People, NEW form \in Form, Honest(form),
         forms' = [forms EXCEPT ![p] = form], UNCHANGED <<docs, lock, history, saves>>
  PROVE  IInv'
<1>1. /\ forms' \in [People -> Form]
      /\ \A q \in People : forms'[q] = IF q = p THEN form ELSE forms[q]
  BY DEF IInv, TypeOK
<1>2. TypeOK'
  BY <1>1 DEF IInv, TypeOK
<1>3. Opened'
  <2>1. \A q \in People : Honest(forms[q])'
    <3> SUFFICES ASSUME NEW q \in People PROVE Honest(forms[q])'
      OBVIOUS
    <3>1. forms'[q].version \in DOMAIN docs
          /\ forms'[q].initial = Normalise(docs[forms'[q].version], Defaults)
      BY <1>1 DEF IInv, Opened, Honest
    <3> QED BY <3>1 DEF Honest, Normalise
  <2>2. \A q \in People : Honest(saves[q].form)'
    BY DEF IInv, Opened, Honest, Normalise
  <2> QED BY <2>1, <2>2 DEF Opened
<1> QED BY <1>2, <1>3 DEF IInv, Holding, Version, SavesStand, NothingUndone, HistoryIsChain

(* A save that is refused or rolled back, or only begins, writes nothing. *)
LEMMA SaveChanges ==
  ASSUME IInv, NEW p \in People, NEW s \in Submitted, Honest(s.form),
         s.pc = "saving" => s.form.version = Version /\ (lock = "nobody" \/ lock = p),
         saves' = [saves EXCEPT ![p] = s], "nobody" \notin People,
         lock' = (IF s.pc = "saving" THEN p ELSE IF lock = p THEN "nobody" ELSE lock),
         UNCHANGED <<docs, history, forms>>
  PROVE  IInv'
<1>1. /\ saves' \in [People -> Submitted]
      /\ \A q \in People : saves'[q] = IF q = p THEN s ELSE saves[q]
  BY DEF IInv, TypeOK
<1>2. \A q \in People : (lock = q) <=> (saves[q].pc = "saving")
  BY DEF IInv, TypeOK
<1>3. \A q \in People : (lock' = q) <=> (saves'[q].pc = "saving")
  BY <1>1, <1>2
<1>4. TypeOK'
  BY <1>1, <1>3 DEF IInv, TypeOK
<1>5. Opened'
  <2>1. \A q \in People : Honest(saves[q].form)'
    <3> SUFFICES ASSUME NEW q \in People PROVE Honest(saves[q].form)'
      OBVIOUS
    <3>1. saves'[q].form.version \in DOMAIN docs
          /\ saves'[q].form.initial = Normalise(docs[saves'[q].form.version], Defaults)
      BY <1>1 DEF IInv, Opened, Honest
    <3> QED BY <3>1 DEF Honest, Normalise
  <2>2. \A q \in People : Honest(forms[q])'
    <3> SUFFICES ASSUME NEW q \in People PROVE Honest(forms[q])'
      OBVIOUS
    <3>1. /\ forms'[q].version \in DOMAIN docs
          /\ forms'[q].initial = Normalise(docs[forms'[q].version], Defaults)
      BY DEF IInv, Opened, Honest
    <3> QED BY <3>1 DEF Honest, Normalise
  <2> QED BY <2>1, <2>2 DEF Opened
<1>6. Holding'
  BY <1>1 DEF IInv, Holding, Version
<1> QED BY <1>4, <1>5, <1>6 DEF IInv, Version, SavesStand, NothingUndone, HistoryIsChain

(* A save that is done: the document it was opened on is the last one, and is kept. *)
LEMMA SaveEndsKeeps ==
  ASSUME IInv, "nobody" \notin People, NEW p \in People, SaveEnds(p)
  PROVE  IInv'
<1> DEFINE form == saves[p].form
           line == [version |-> form.version + 1, before |-> docs[form.version],
                    after |-> form.data, initial |-> form.initial]
<1>1. /\ TypeOK /\ form \in Form /\ form.version = Len(docs) /\ form.version \in DOMAIN docs
      /\ form.initial = Normalise(docs[form.version], Defaults)
      /\ docs \in Seq(Document) /\ history \in Seq(Saved) /\ Len(docs) \in Nat
  BY DEF IInv, TypeOK, Opened, Honest, Holding, Version, SaveEnds, Submitted
<1>2. form.data \in Full /\ form.data \in Document /\ form.initial \in Full
  BY <1>1 DEF Form, Full, Document
<1>3. line \in Saved
  BY <1>1, <1>2 DEF Saved
<1>4. /\ docs' = Append(SubSeq(docs, 1, Len(docs)), form.data)
      /\ history' = Append(history, line)
      /\ saves' = [saves EXCEPT ![p].pc = "none"] /\ lock' = "nobody" /\ forms' = forms
  BY <1>1 DEF SaveEnds
<1>5. line.before = docs[Len(docs)] /\ line.after = form.data /\ line.initial = form.initial
  BY <1>1
<1> HIDE DEF line
<1>6. /\ docs' \in Seq(Document) /\ Len(docs') = Len(docs) + 1
      /\ \A v \in DOMAIN docs : v \in DOMAIN docs' /\ docs'[v] = docs[v]
      /\ docs'[Len(docs')] = form.data
  <2>1. SubSeq(docs, 1, Len(docs)) = docs
    BY <1>1
  <2>2. docs' = Append(docs, form.data)
    BY <1>4, <2>1
  <2> QED BY <1>1, <1>2, <2>2
<1>7. /\ history' \in Seq(Saved) /\ Len(history') = Len(history) + 1 /\ Len(history) \in Nat
      /\ \A i \in DOMAIN history : history'[i] = history[i]
      /\ history'[Len(history')] = line
      /\ DOMAIN history = 1 .. Len(history) /\ DOMAIN history' = 1 .. Len(history')
  BY <1>1, <1>3, <1>4
<1>8. /\ saves' \in [People -> Submitted] /\ saves'[p].pc = "none"
      /\ \A q \in People : saves'[q].form = saves[q].form /\ (q # p => saves'[q] = saves[q])
  BY <1>1, <1>4 DEF TypeOK, Submitted
<1>9. \A q \in People : saves'[q].pc # "saving"
  BY <1>1, <1>8 DEF TypeOK, SaveEnds
<1>10. TypeOK'
  BY <1>1, <1>4, <1>6, <1>7, <1>8, <1>9 DEF TypeOK
<1>11. Opened' /\ Holding'
  <2>1. ASSUME NEW q \in People PROVE Honest(forms[q])'
    <3>1. /\ forms'[q].version \in DOMAIN docs
          /\ forms'[q].initial = Normalise(docs[forms'[q].version], Defaults)
      BY <1>4 DEF IInv, Opened, Honest
    <3> QED BY <1>6, <3>1 DEF Honest, Normalise
  <2>2. ASSUME NEW q \in People PROVE Honest(saves[q].form)'
    <3>1. /\ saves[q].form.version \in DOMAIN docs
          /\ saves[q].form.initial = Normalise(docs[saves[q].form.version], Defaults)
      BY DEF IInv, Opened, Honest
    <3> QED BY <1>6, <1>8, <3>1 DEF Honest, Normalise
  <2> QED BY <1>9, <2>1, <2>2 DEF Opened, Holding
<1>12. NothingUndone'
  <2>1. \A f \in Fields : line.after[f] = line.initial[f] /\ line.before[f] # "missing"
                            => line.after[f] = line.before[f]
    BY <1>1, <1>5 DEF Normalise
  <2>2. \A i \in DOMAIN history' : i \in DOMAIN history \/ i = Len(history')
    BY <1>7
  <2> QED BY <1>7, <2>1, <2>2 DEF IInv, SavesStand, NothingUndone
<1>13. HistoryIsChain'
  <2>1. history # <<>> => Len(history) > 0 /\ docs[Len(docs)] = history[Len(history)].after
    BY <1>1 DEF IInv, SavesStand, HistoryIsChain, Version
  <2>2. ASSUME NEW i \in 1 .. Len(history') - 1
        PROVE  history'[i + 1].before = history'[i].after
    <3>1. CASE i = Len(history)
      BY <1>5, <1>7, <2>1, <3>1
    <3>2. CASE i # Len(history)
      <4>1. /\ i \in 1 .. Len(history) - 1 /\ i \in DOMAIN history /\ i + 1 \in DOMAIN history
        <5>1. Len(history') - 1 = Len(history) /\ Len(history) \in Nat
          BY <1>7
        <5>2. i \in 1 .. Len(history)
          BY <5>1
        <5>3. DOMAIN history = 1 .. Len(history)
          BY <1>7
        <5>4. i \in Nat /\ 1 <= i /\ i < Len(history)
          BY <3>2, <5>1, <5>2
        <5>5. i \in 1 .. Len(history) - 1 /\ i + 1 \in 1 .. Len(history)
          BY <5>1, <5>4
        <5> QED BY <5>2, <5>3, <5>5
      <4>2. history[i + 1].before = history[i].after
        BY <4>1 DEF IInv, SavesStand, HistoryIsChain
      <4> QED BY <1>7, <4>1, <4>2
    <3> QED BY <3>1, <3>2
  <2>3. docs'[Len(docs')] = history'[Len(history')].after
    BY <1>5, <1>6, <1>7
  <2> QED BY <2>2, <2>3 DEF HistoryIsChain, Version
<1> QED BY <1>10, <1>11, <1>12, <1>13 DEF IInv, SavesStand

LEMMA NextKeeps ==
  ASSUME Defaults \in Full, "nobody" \notin People, IInv, [Next]_vars
  PROVE  IInv'
<1>1. /\ docs \in Seq(Document) /\ forms \in [People -> Form] /\ saves \in [People -> Submitted]
      /\ \A p \in People : (lock = p) <=> (saves[p].pc = "saving")
      /\ \A p \in People : Honest(forms[p]) /\ Honest(saves[p].form)
  BY DEF IInv, TypeOK, Opened
<1>2. ASSUME NEW p \in People, NEW v \in DOMAIN docs, Refresh(p, v) \/ Reload(p, v) PROVE IInv'
  <2>1. Shown(v) \in Form /\ Honest(Shown(v))
    BY <1>1, ShownIsHonest
  <2>2. forms' = [forms EXCEPT ![p] = Shown(v)] /\ UNCHANGED <<docs, lock, history, saves>>
    BY <1>2 DEF Refresh, Reload
  <2> QED BY <2>1, <2>2, FormChanges
<1>3. ASSUME NEW p \in People, NEW f \in Fields, EditField(p, f) PROVE IInv'
  <2> DEFINE form == [forms[p] EXCEPT !.data[f] = IF @ = "on" THEN "off" ELSE "on"]
  <2>1. form \in Form /\ form.version = forms[p].version /\ form.initial = forms[p].initial
    BY <1>1 DEF Form, Full
  <2>2. forms' = [forms EXCEPT ![p] = form] /\ UNCHANGED <<docs, lock, history, saves>>
    BY <1>3 DEF EditField
  <2> HIDE DEF form
  <2>3. Honest(form)
    BY <1>1, <2>1 DEF Honest
  <2> QED BY <2>1, <2>2, <2>3, FormChanges
<1>4. ASSUME NEW p \in People, Submit(p) PROVE IInv'
  <2> DEFINE s == [pc |-> "sent", form |-> forms[p]]
  <2>1. s \in Submitted /\ s.pc = "sent" /\ Honest(s.form)
    BY <1>1 DEF Submitted
  <2>2. /\ saves' = [saves EXCEPT ![p] = s] /\ UNCHANGED <<docs, lock, history, forms>>
        /\ lock # p
    BY <1>1, <1>4 DEF Submit
  <2> HIDE DEF s
  <2> QED BY <2>1, <2>2, SaveChanges
<1>5. ASSUME NEW p \in People, SaveBegins(p) PROVE IInv'
  <2> DEFINE s(pc) == [saves[p] EXCEPT !.pc = pc]
  <2>1. \A pc \in {"none", "saving"} : /\ s(pc) \in Submitted /\ s(pc).pc = pc
                                       /\ s(pc).form = saves[p].form
    BY <1>1 DEF Submitted
  <2>2. lock = "nobody" /\ lock # p /\ UNCHANGED <<docs, history, forms>>
    BY <1>5 DEF SaveBegins
  <2>3. CASE saves[p].form.version # Version
    <3>1. saves' = [saves EXCEPT ![p] = s("none")] /\ lock' = lock
      BY <1>5, <2>3 DEF SaveBegins
    <3> HIDE DEF s
    <3> QED BY <1>1, <2>1, <2>2, <3>1, SaveChanges
  <2>4. CASE saves[p].form.version = Version
    <3>1. saves' = [saves EXCEPT ![p] = s("saving")] /\ lock' = p
      BY <1>5, <2>4 DEF SaveBegins
    <3> HIDE DEF s
    <3> QED BY <1>1, <2>1, <2>2, <2>4, <3>1, SaveChanges
  <2> QED BY <2>3, <2>4
<1>6. ASSUME NEW p \in People, SaveRollsBack(p) PROVE IInv'
  <2> DEFINE s == [saves[p] EXCEPT !.pc = "none"]
  <2>1. s \in Submitted /\ s.pc = "none" /\ s.form = saves[p].form
    BY <1>1 DEF Submitted
  <2>2. /\ saves' = [saves EXCEPT ![p] = s] /\ lock' = "nobody" /\ lock = p
        /\ UNCHANGED <<docs, history, forms>>
    BY <1>1, <1>6 DEF SaveRollsBack
  <2> HIDE DEF s
  <2> QED BY <1>1, <2>1, <2>2, SaveChanges
<1>7. CASE UNCHANGED vars
  BY <1>7 DEF vars, IInv, TypeOK, Opened, Honest, Normalise, Holding, Version, SavesStand,
              NothingUndone, HistoryIsChain
<1> QED BY <1>2, <1>3, <1>4, <1>5, <1>6, <1>7, SaveEndsKeeps DEF Next

\* The types of the form and of the store; the row is held by the one who saves.
THEOREM TypeCorrect ==
  ASSUME Defaults \in Full, "nobody" \notin People
  PROVE  Spec => []TypeOK
<1>1. Init => IInv
  BY InitIInv
<1>2. IInv /\ [Next]_vars => IInv'
  BY NextKeeps
<1>3. IInv => TypeOK
  BY DEF IInv
<1> QED BY <1>1, <1>2, <1>3, PTL DEF Spec

\* However people edit, refresh, reload and save beside each other: what one left alone keeps the value
\* saved before, and the history is one chain that ends in the document stored.
THEOREM SavedStands ==
  ASSUME Defaults \in Full, "nobody" \notin People
  PROVE  Spec => []SavesStand
<1>1. Init => IInv
  BY InitIInv
<1>2. IInv /\ [Next]_vars => IInv'
  BY NextKeeps
<1>3. IInv => SavesStand
  BY DEF IInv
<1> QED BY <1>1, <1>2, <1>3, PTL DEF Spec
===============================================================================
