----------------------------- MODULE InboxProofs -----------------------------
(* Theorems about the inbound sync, for any records, deliveries and disturbances. *)
EXTENDS Inbox, TLAPS

(* What surrounds a run: it is about a stored delivery, and inside a turn it is the *)
(* one whose turn it is; what it has read is a state the record really had.         *)
Turn == \A r \in Runs : runs[r].pc \in Inside => holder[UidOf(r)] = {r}

Kind == \A r \in Runs :
          runs[r].pc \in Inside \cup {"gone"} =>
            (runs[r].pc = "mark" <=> KindOf(r) = "delete") /\ KindOf(r) # "unrouted"

Queued == \A r \in Runs : runs[r].pc = "waiting" => KindOf(r) # "unrouted"

NothingAhead ==
  /\ \A e \in sent : e.ver <= zuper[e.uid].ver
  /\ \A d \in DOMAIN inbox : inbox[d].ver <= zuper[inbox[d].uid].ver
  /\ \A u \in Uids : \A i \in DOMAIN rows[u] :
       rows[u][i].main <= zuper[u].ver /\ rows[u][i].detail <= zuper[u].ver

Reading == \A r \in Runs : runs[r].pc = "write" =>
             /\ Copy(UidOf(r)) <= runs[r].read
             /\ runs[r].read <= zuper[UidOf(r)].ver

Mapping == \A r \in Runs : runs[r].pc = "map" =>
             /\ runs[r].row \in DOMAIN rows[UidOf(r)]
             /\ map[UidOf(r)] \in {0, runs[r].row}

IInv == TypeOK /\ Turn /\ Kind /\ Queued /\ NothingAhead /\ Reading /\ Mapping

LEMMA InitIInv == Init => IInv
<1> SUFFICES ASSUME Init PROVE IInv
  OBVIOUS
<1> USE InboxAssumption
<1>1. Idle \in Run /\ Idle.pc = "idle"
  BY DEF Idle, Run, Inside
<1>2. TypeOK
  <2>1. runs \in [Runs -> Run]
    BY <1>1 DEF Init
  <2>2. \A r \in Runs : runs[r].pc = "idle"
    BY <1>1 DEF Init
  <2> QED BY <2>1, <2>2 DEF Init, TypeOK, Row, Delivery
<1>3. \A r \in Runs : runs[r].pc = "idle"
  BY <1>1 DEF Init
<1>4. Turn /\ Kind /\ Queued /\ Reading /\ Mapping
  BY <1>3 DEF Turn, Kind, Queued, Reading, Mapping, Inside
<1>5. NothingAhead
  BY DEF Init, NothingAhead
<1> QED BY <1>2, <1>4, <1>5 DEF IInv

(* The shape of one run, of one delivery and of one row. *)
LEMMA Shapes ==
  ASSUME TypeOK
  PROVE  /\ \A r \in Runs : /\ runs[r] \in Run /\ runs[r].d \in Nat /\ runs[r].attempt \in Nat
                            /\ runs[r].read \in Nat /\ runs[r].row \in Nat
                            /\ runs[r].pc # "idle" => runs[r].d \in DOMAIN inbox /\ UidOf(r) \in Uids
         /\ \A d \in DOMAIN inbox : /\ inbox[d] \in Delivery /\ inbox[d].uid \in Uids
                                    /\ inbox[d].ver \in Nat /\ inbox[d].attempts \in Nat
         /\ Len(inbox) \in Nat /\ DOMAIN inbox = 1 .. Len(inbox)
         /\ \A u \in Uids : /\ Len(rows[u]) \in Nat /\ DOMAIN rows[u] = 1 .. Len(rows[u])
                            /\ rows[u] \in Seq(Row) /\ map[u] \in 0 .. Len(rows[u])
                            /\ zuper[u].ver \in Nat
                            /\ \A i \in DOMAIN rows[u] : /\ rows[u][i] \in Row
                                                         /\ rows[u][i].main \in Nat
                                                         /\ rows[u][i].detail \in Nat
<1>1. \A d \in DOMAIN inbox : inbox[d] \in Delivery
  BY DEF TypeOK
<1>2. \A d \in DOMAIN inbox : inbox[d].uid \in Uids /\ inbox[d].ver \in Nat /\ inbox[d].attempts \in Nat
  BY <1>1 DEF Delivery
<1>3. \A r \in Runs : /\ runs[r] \in Run /\ runs[r].d \in Nat /\ runs[r].attempt \in Nat
                      /\ runs[r].read \in Nat /\ runs[r].row \in Nat
  BY DEF TypeOK, Run
<1>4. \A r \in Runs : runs[r].pc # "idle" => runs[r].d \in DOMAIN inbox /\ UidOf(r) \in Uids
  BY <1>2 DEF TypeOK, UidOf
<1>5. \A u \in Uids : rows[u] \in Seq(Row) /\ map[u] \in 0 .. Len(rows[u]) /\ zuper[u].ver \in Nat
  BY DEF TypeOK
<1>6. \A u \in Uids : /\ Len(rows[u]) \in Nat /\ DOMAIN rows[u] = 1 .. Len(rows[u])
                      /\ \A i \in DOMAIN rows[u] : rows[u][i] \in Row
  BY <1>5
<1>7. \A u \in Uids : \A i \in DOMAIN rows[u] : rows[u][i].main \in Nat /\ rows[u][i].detail \in Nat
  BY <1>6 DEF Row
<1>8. Len(inbox) \in Nat /\ DOMAIN inbox = 1 .. Len(inbox)
  BY DEF TypeOK
<1> QED BY <1>1, <1>2, <1>3, <1>4, <1>5, <1>6, <1>7, <1>8

(* Zuper's own steps: a version counts up, and the event says so. *)
LEMMA ZuperKeeps ==
  ASSUME IInv, NEW u \in Uids, ZuperChange(u) \/ ZuperDelete(u) \/ ZuperUnrouted(u)
  PROVE  IInv' /\ [M!MNext]_(M!mvars)
<1> USE Shapes
<1>1. /\ UNCHANGED <<inbox, rows, map, holder, runs, batch, inbound, disturbed>>
      /\ TypeOK
  BY DEF ZuperChange, ZuperDelete, ZuperUnrouted, IInv
<1>2. /\ zuper' \in [Uids -> [ver : Nat, live : BOOLEAN]]
      /\ \A w \in Uids : zuper'[w].ver \in Nat /\ zuper'[w].ver >= zuper[w].ver
      /\ \A w \in Uids : w # u => zuper'[w] = zuper[w]
      /\ zuper'[u].ver \in {zuper[u].ver, zuper[u].ver + 1}
  <2>1. CASE zuper' = zuper
    BY <2>1, <1>1 DEF TypeOK
  <2>2. ASSUME NEW b \in BOOLEAN, zuper' = [zuper EXCEPT ![u] = [ver |-> zuper[u].ver + 1, live |-> b]]
        PROVE  /\ zuper' \in [Uids -> [ver : Nat, live : BOOLEAN]]
               /\ \A w \in Uids : zuper'[w].ver \in Nat /\ zuper'[w].ver >= zuper[w].ver
               /\ \A w \in Uids : w # u => zuper'[w] = zuper[w]
               /\ zuper'[u].ver \in {zuper[u].ver, zuper[u].ver + 1}
    <3> DEFINE z == [ver |-> zuper[u].ver + 1, live |-> b]
    <3>1. zuper[u].ver \in Nat
      BY <1>1
    <3>2. z \in [ver : Nat, live : BOOLEAN] /\ z.ver = zuper[u].ver + 1
      BY <3>1
    <3>3. zuper' = [zuper EXCEPT ![u] = z] /\ zuper \in [Uids -> [ver : Nat, live : BOOLEAN]]
      BY <2>2, <1>1 DEF TypeOK
    <3> HIDE DEF z
    <3>4. \A w \in Uids : zuper'[w] = IF w = u THEN z ELSE zuper[w]
      BY <3>3
    <3> QED BY <3>1, <3>2, <3>3, <3>4
  <2> QED BY <2>1, <2>2 DEF ZuperChange, ZuperDelete, ZuperUnrouted
<1>3. sent' \subseteq Event /\ \A e \in sent' : e.ver <= zuper'[e.uid].ver
  <2>1. \A e \in sent : e.uid \in Uids /\ e.ver \in Nat /\ e.ver <= zuper[e.uid].ver
    BY <1>1 DEF TypeOK, Event, IInv, NothingAhead
  <2>2. \E k \in {"change", "delete", "unrouted"}, v \in {0, zuper'[u].ver} :
          sent' = sent \cup {[uid |-> u, kind |-> k, ver |-> v]}
    BY <1>1, <1>2 DEF ZuperChange, ZuperDelete, ZuperUnrouted, TypeOK
  <2> QED BY <2>1, <2>2, <1>1, <1>2 DEF TypeOK, Event
<1>4. TypeOK'
  BY <1>1, <1>2, <1>3 DEF TypeOK
<1>5. Turn' /\ Kind' /\ Queued' /\ Mapping'
  BY <1>1 DEF IInv, Turn, Kind, Queued, Mapping, UidOf, KindOf
<1>6. NothingAhead'
  <2>1. \A d \in DOMAIN inbox : inbox[d].ver <= zuper'[inbox[d].uid].ver
    BY <1>1, <1>2 DEF IInv, NothingAhead
  <2>2. ASSUME NEW w \in Uids, NEW i \in DOMAIN rows[w]
        PROVE  rows[w][i].main <= zuper'[w].ver /\ rows[w][i].detail <= zuper'[w].ver
    <3>1. rows[w][i].main <= zuper[w].ver /\ rows[w][i].detail <= zuper[w].ver
      BY DEF IInv, NothingAhead
    <3> QED BY <3>1, <1>1, <1>2
  <2> QED BY <2>1, <2>2, <1>1, <1>3 DEF NothingAhead
<1>7. Reading'
  <2>1. \A w \in Uids : Copy(w)' = Copy(w) /\ Copy(w) \in Nat
    BY <1>1 DEF Copy, Mapped, Held
  <2>2. \A q \in Runs : runs[q].pc = "write" => UidOf(q) \in Uids /\ runs[q].read \in Nat
    BY <1>1
  <2>3. \A q \in Runs : UidOf(q)' = UidOf(q)
    BY <1>1 DEF UidOf
  <2>4. \A q \in Runs : runs[q].pc = "write" =>
          Copy(UidOf(q)) <= runs[q].read /\ runs[q].read <= zuper[UidOf(q)].ver
    BY DEF IInv, Reading
  <2>5. \A q \in Runs : runs[q].pc = "write" =>
          Copy(UidOf(q))' <= runs[q].read /\ runs[q].read <= zuper'[UidOf(q)].ver
    BY <1>1, <1>2, <2>1, <2>2, <2>3, <2>4
  <2> QED BY <1>1, <2>3, <2>5 DEF Reading
<1>8. [M!MNext]_(M!mvars)
  <2>1. [w \in Uids |-> Copy(w)]' = [w \in Uids |-> Copy(w)]
    BY <1>1 DEF Copy, Mapped, Held
  <2> DEFINE s == [w \in Uids |-> zuper[w].ver]
  <2>2. CASE zuper'[u].ver = zuper[u].ver
    <3>1. s' = s
      BY <2>2, <1>2
    <3> QED BY <2>1, <3>1 DEF M!mvars
  <2>3. CASE zuper'[u].ver = zuper[u].ver + 1
    <3>1. s' = [s EXCEPT ![u] = @ + 1]
      BY <2>3, <1>2
    <3> QED BY <2>1, <3>1 DEF M!MNext, M!Change
  <2> QED BY <2>2, <2>3, <1>2
<1> QED BY <1>4, <1>5, <1>6, <1>7, <1>8 DEF IInv

(* A step of one run that writes neither the rows nor the map keeps the invariant, *)
(* as long as the run ends up somewhere it may be and takes no turn from another.  *)
LEMMA RunKeeps ==
  ASSUME IInv, NEW r \in Runs, NEW x \in Run,
         UNCHANGED <<zuper, sent, rows, map>>,
         runs' = [runs EXCEPT ![r] = x],
         holder' \in [Uids -> SUBSET Runs], batch' \subseteq DOMAIN inbox,
         inbound' \in BOOLEAN, disturbed' \in Nat,
         inbox' \in Seq(Delivery), DOMAIN inbox' = DOMAIN inbox,
         \A d \in DOMAIN inbox : /\ inbox'[d].uid = inbox[d].uid
                                /\ inbox'[d].kind = inbox[d].kind
                                /\ inbox'[d].ver = inbox[d].ver,
         x.pc # "idle" => x.d \in DOMAIN inbox,
         x.pc \in Inside => holder'[inbox[x.d].uid] = {r},
         \A q \in Runs \ {r} : runs[q].pc \in Inside => holder'[UidOf(q)] = {q},
         x.pc \in Inside \cup {"gone"} =>
           (x.pc = "mark" <=> inbox[x.d].kind = "delete") /\ inbox[x.d].kind # "unrouted",
         x.pc = "waiting" => inbox[x.d].kind # "unrouted",
         x.pc = "write" => /\ Copy(inbox[x.d].uid) <= x.read
                           /\ x.read <= zuper[inbox[x.d].uid].ver,
         x.pc = "map" => /\ x.row \in DOMAIN rows[inbox[x.d].uid]
                         /\ map[inbox[x.d].uid] \in {0, x.row}
  PROVE  IInv' /\ UNCHANGED M!mvars
<1> USE DEF IInv
<1>1. TypeOK /\ runs \in [Runs -> Run]
  BY DEF TypeOK
<1>2. runs'[r] = x /\ \A q \in Runs : q # r => runs'[q] = runs[q]
  BY <1>1
<1>3. \A q \in Runs : q # r /\ runs[q].pc # "idle" =>
        /\ runs[q].d \in DOMAIN inbox /\ UidOf(q)' = UidOf(q) /\ KindOf(q)' = KindOf(q)
  BY <1>1, <1>2, Shapes DEF UidOf, KindOf
<1>4. x.pc # "idle" => UidOf(r)' = inbox[x.d].uid /\ KindOf(r)' = inbox[x.d].kind
  BY <1>2 DEF UidOf, KindOf
<1>5. \A u \in Uids : Copy(u)' = Copy(u)
  BY DEF Copy, Mapped, Held
<1>6. TypeOK'
  BY <1>1, <1>2 DEF TypeOK
<1>7. Turn'
  BY <1>2, <1>3, <1>4 DEF Turn, Inside
<1>8. Kind'
  BY <1>2, <1>3, <1>4 DEF Kind, Inside
<1>13. Queued'
  BY <1>2, <1>3, <1>4 DEF Queued
<1>9. NothingAhead'
  BY DEF NothingAhead
<1>10. Reading'
  <2>1. \A q \in Runs : q # r /\ runs[q].pc = "write" => UidOf(q) \in Uids
    BY <1>1, Shapes
  <2>2. x.pc = "write" => inbox[x.d].uid \in Uids
    BY <1>1, Shapes
  <2> QED BY <1>2, <1>3, <1>4, <1>5, <2>1, <2>2 DEF Reading
<1>11. Mapping'
  BY <1>2, <1>3, <1>4 DEF Mapping
<1>12. UNCHANGED M!mvars
  BY <1>5 DEF M!mvars
<1> QED BY <1>6, <1>7, <1>8, <1>9, <1>10, <1>11, <1>12, <1>13

(* Where a run stands inside a turn, nobody else does under the same key. *)
LEMMA Alone ==
  ASSUME TypeOK, Turn, NEW r \in Runs, NEW q \in Runs, q # r,
         runs[r].pc \in Inside, runs[q].pc \in Inside
  PROVE  UidOf(q) # UidOf(r)
BY DEF Turn

(* Leaving a turn leaves the other turns alone. *)
LEMMA ReleasedKeeps ==
  ASSUME TypeOK, Turn, NEW r \in Runs, runs[r].pc \in Inside
  PROVE  /\ Released(r) \in [Uids -> SUBSET Runs]
         /\ \A q \in Runs \ {r} : runs[q].pc \in Inside => Released(r)[UidOf(q)] = {q}
<1>1. UidOf(r) \in Uids /\ \A q \in Runs : runs[q].pc \in Inside => UidOf(q) \in Uids
  BY Shapes DEF Inside
<1>2. holder \in [Uids -> SUBSET Runs]
  BY DEF TypeOK
<1> QED BY <1>1, <1>2, Alone DEF Released, Turn

(* No row is ahead of Zuper, so the copy the map names is not either. *)
LEMMA CopyBehind ==
  ASSUME TypeOK, NothingAhead, NEW u \in Uids
  PROVE  Copy(u) \in Nat /\ Copy(u) <= zuper[u].ver
BY Shapes DEF NothingAhead, Copy, Mapped, Held

LEMMA BeginKeeps ==
  ASSUME IInv, NEW r \in Runs, Begin(r)
  PROVE  IInv' /\ UNCHANGED M!mvars
<1> DEFINE d == runs[r].d
           x == [runs[r] EXCEPT !.attempt = inbox[d].attempts + 1,
                                !.pc = IF inbox[d].kind = "unrouted" THEN "finish" ELSE "waiting",
                                !.outcome = IF inbox[d].kind = "unrouted" THEN "skipped" ELSE "none"]
<1>1. TypeOK /\ Turn /\ d \in DOMAIN inbox /\ inbox[d].attempts + 1 \in Nat /\ runs[r] \in Run
  BY Shapes DEF IInv, Begin
<1>2. /\ x \in Run /\ x.pc \in {"finish", "waiting"} /\ x.d = d
      /\ x.pc = "waiting" => inbox[d].kind # "unrouted"
  BY <1>1 DEF Run
<1>3. runs' = [runs EXCEPT ![r] = x] /\ UNCHANGED <<zuper, sent, inbox, rows, map, holder, batch, inbound, disturbed>>
  BY <1>1 DEF Begin, TypeOK
<1> HIDE DEF x
<1> QED BY <1>1, <1>2, <1>3, RunKeeps DEF TypeOK, Turn, Inside

LEMMA AcquireKeeps ==
  ASSUME IInv, NEW r \in Runs, Acquire(r)
  PROVE  IInv' /\ UNCHANGED M!mvars
<1> DEFINE x == [runs[r] EXCEPT !.pc = IF KindOf(r) = "delete" THEN "mark" ELSE "fetch"]
<1>1. TypeOK /\ Turn /\ runs[r] \in Run /\ runs[r].d \in DOMAIN inbox /\ UidOf(r) \in Uids
  BY Shapes DEF IInv, Acquire
<1>2. x \in Run /\ x.pc = (IF KindOf(r) = "delete" THEN "mark" ELSE "fetch") /\ x.d = runs[r].d
  BY <1>1 DEF Run, Inside
<1>3. /\ runs' = [runs EXCEPT ![r] = x]
      /\ UNCHANGED <<zuper, sent, inbox, rows, map, batch, inbound, disturbed>>
  BY <1>1 DEF Acquire, Moved, TypeOK
<1>4. KindOf(r) # "unrouted"
  BY DEF IInv, Queued, Acquire
<1>5. holder' \in [Uids -> SUBSET Runs] /\ holder'[UidOf(r)] = {r}
  BY <1>1 DEF Acquire, TypeOK
<1>6. \A q \in Runs \ {r} : runs[q].pc \in Inside => holder'[UidOf(q)] = {q}
  BY <1>1, Shapes DEF Acquire, TypeOK, Turn, Inside
<1> HIDE DEF x
<1> QED BY <1>1, <1>2, <1>3, <1>4, <1>5, <1>6, RunKeeps DEF TypeOK, Inside, UidOf, KindOf

LEMMA FetchKeeps ==
  ASSUME IInv, NEW r \in Runs, Fetch(r)
  PROVE  IInv' /\ UNCHANGED M!mvars
<1> DEFINE u == UidOf(r)
           x == [runs[r] EXCEPT !.pc = "write", !.read = zuper[u].ver]
<1>1. TypeOK /\ Turn /\ runs[r] \in Run /\ runs[r].d \in DOMAIN inbox /\ u \in Uids
  BY Shapes DEF IInv, Fetch
<1>2. zuper[u].ver \in Nat /\ Copy(u) <= zuper[u].ver
  BY <1>1, Shapes, CopyBehind DEF IInv
<1>3. x \in Run /\ x.pc = "write" /\ x.d = runs[r].d /\ x.read = zuper[u].ver
  BY <1>1, <1>2 DEF Run, Inside
<1>4. /\ runs' = [runs EXCEPT ![r] = x]
      /\ UNCHANGED <<zuper, sent, inbox, rows, map, holder, batch, inbound, disturbed>>
  BY <1>1 DEF Fetch, TypeOK
<1>5. holder[u] = {r} /\ KindOf(r) \notin {"delete", "unrouted"}
  BY DEF IInv, Turn, Kind, Fetch, Inside
<1>6. u = inbox[x.d].uid /\ KindOf(r) = inbox[x.d].kind
  BY <1>3 DEF UidOf, KindOf
<1>7. \A q \in Runs \ {r} : runs[q].pc \in Inside => holder'[UidOf(q)] = {q}
  BY <1>1, <1>4 DEF Turn
<1>8. /\ holder' \in [Uids -> SUBSET Runs] /\ batch' \subseteq DOMAIN inbox /\ inbound' \in BOOLEAN
      /\ disturbed' \in Nat /\ inbox' \in Seq(Delivery)
  BY <1>1, <1>4 DEF TypeOK
<1>9. /\ x.pc \in Inside => holder'[inbox[x.d].uid] = {r}
      /\ x.pc \in Inside \cup {"gone"} =>
           (x.pc = "mark" <=> inbox[x.d].kind = "delete") /\ inbox[x.d].kind # "unrouted"
      /\ x.pc \notin {"idle", "waiting", "map"}
      /\ Copy(inbox[x.d].uid) <= x.read /\ x.read <= zuper[inbox[x.d].uid].ver
  BY <1>2, <1>3, <1>4, <1>5, <1>6
<1> HIDE DEF x, u
<1> QED BY <1>1, <1>3, <1>4, <1>7, <1>8, <1>9, RunKeeps

(* A run that leaves its turn, whatever it makes of it. *)
LEMMA LeavingKeeps ==
  ASSUME IInv, NEW r \in Runs, runs[r].pc \in Inside,
         NEW out \in {"none", "skipped", "failed"}, NEW pc \in {"gone", "finish"},
         pc = "gone" => runs[r].pc # "mark",
         runs' = [runs EXCEPT ![r] = [runs[r] EXCEPT !.pc = pc, !.outcome = out]],
         holder' = Released(r), disturbed' \in Nat,
         UNCHANGED <<zuper, sent, inbox, rows, map, batch, inbound>>
  PROVE  IInv' /\ UNCHANGED M!mvars
<1> DEFINE x == [runs[r] EXCEPT !.pc = pc, !.outcome = out]
<1>1. TypeOK /\ Turn /\ runs[r] \in Run /\ runs[r].d \in DOMAIN inbox
  BY Shapes DEF IInv, Inside
<1>2. x \in Run /\ x.pc = pc /\ x.d = runs[r].d
  BY <1>1 DEF Run
<1>3. holder' \in [Uids -> SUBSET Runs]
      /\ \A q \in Runs \ {r} : runs[q].pc \in Inside => holder'[UidOf(q)] = {q}
  BY <1>1, ReleasedKeeps
<1>4. pc = "gone" => inbox[x.d].kind \notin {"delete", "unrouted"}
  BY <1>2 DEF IInv, Kind, KindOf
<1>5. x.pc \notin Inside \cup {"idle", "waiting"} /\ (x.pc = "gone" <=> pc = "gone")
  BY <1>2 DEF Inside
<1>6. x.pc # "write" /\ x.pc # "map" /\ x.d \in DOMAIN inbox
  BY <1>1, <1>2
<1>7. /\ batch' \subseteq DOMAIN inbox /\ inbound' \in BOOLEAN /\ inbox' \in Seq(Delivery)
  BY <1>1 DEF TypeOK
<1>8. runs' = [runs EXCEPT ![r] = x]
  OBVIOUS
<1>9. x.pc \in Inside \cup {"gone"} =>
        (x.pc = "mark" <=> inbox[x.d].kind = "delete") /\ inbox[x.d].kind # "unrouted"
  BY <1>2, <1>4, <1>5
<1> HIDE DEF x
<1> QED BY <1>2, <1>3, <1>5, <1>6, <1>7, <1>8, <1>9, RunKeeps

LEMMA LeaveKeeps ==
  ASSUME IInv, NEW r \in Runs, FetchGone(r) \/ PassFails(r)
  PROVE  IInv' /\ UNCHANGED M!mvars
<1>1. TypeOK /\ runs[r] \in Run /\ runs[r].pc \in Inside
  BY Shapes DEF IInv, FetchGone, PassFails, Inside
<1>2. CASE FetchGone(r)
  <2>1. runs[r].outcome \in {"none", "skipped", "failed"}
    BY <1>1 DEF Run
  <2>2. runs' = [runs EXCEPT ![r] = [runs[r] EXCEPT !.pc = "gone", !.outcome = runs[r].outcome]]
    BY <1>1, <1>2 DEF FetchGone, Moved, Run, TypeOK
  <2> QED BY <1>1, <1>2, <2>1, <2>2, LeavingKeeps DEF FetchGone, TypeOK
<1>3. CASE PassFails(r)
  <2>1. runs' = [runs EXCEPT ![r] = [runs[r] EXCEPT !.pc = "finish", !.outcome = "failed"]]
    BY <1>1, <1>3 DEF PassFails, Ended, TypeOK
  <2>2. disturbed' \in Nat
    BY <1>1, <1>3 DEF PassFails, Disturb, TypeOK
  <2> QED BY <1>1, <1>3, <2>1, <2>2, LeavingKeeps DEF PassFails
<1> QED BY <1>2, <1>3

LEMMA CheckHeldKeeps ==
  ASSUME IInv, NEW r \in Runs, CheckHeld(r)
  PROVE  IInv' /\ UNCHANGED M!mvars
<1> DEFINE o == IF Mapped(UidOf(r)) /\ Held(UidOf(r)).deleted THEN "skipped" ELSE "failed"
           x == [runs[r] EXCEPT !.pc = "finish", !.outcome = o]
<1>1. TypeOK /\ Turn /\ runs[r] \in Run /\ runs[r].d \in DOMAIN inbox
  BY Shapes DEF IInv, CheckHeld
<1>2. o \in {"none", "skipped", "failed"}
  OBVIOUS
<1>3. /\ runs' = [runs EXCEPT ![r] = [runs[r] EXCEPT !.pc = "finish", !.outcome = o]]
      /\ UNCHANGED <<zuper, sent, inbox, rows, map, holder, batch, inbound, disturbed>>
  BY <1>1 DEF CheckHeld, Ended, TypeOK
<1> HIDE DEF o
<1>4. x \in Run /\ x.pc = "finish" /\ x.d = runs[r].d
  BY <1>1, <1>2 DEF Run
<1>5. runs' = [runs EXCEPT ![r] = x]
  BY <1>3
<1> HIDE DEF x
<1> QED BY <1>1, <1>3, <1>4, <1>5, RunKeeps DEF TypeOK, Turn, Inside

(* What finish makes of a delivery is a delivery, about the same event. *)
LEMMA FinishWrites ==
  ASSUME TypeOK, NEW r \in Runs, Finish(r)
  PROVE  /\ inbox' \in Seq(Delivery) /\ DOMAIN inbox' = DOMAIN inbox
         /\ \A d \in DOMAIN inbox : /\ inbox'[d].uid = inbox[d].uid
                                    /\ inbox'[d].kind = inbox[d].kind
                                    /\ inbox'[d].ver = inbox[d].ver
<1>1. CASE inbox' = inbox
  BY <1>1 DEF TypeOK
<1>2. CASE inbox' # inbox
  <2> DEFINE d == runs[r].d
             y == [inbox[d] EXCEPT !.closed = @ \/ runs[r].outcome # "failed",
                                   !.error = runs[r].outcome, !.attempts = runs[r].attempt]
  <2>1. /\ d \in DOMAIN inbox /\ inbox[d] \in Delivery /\ inbox \in Seq(Delivery)
        /\ runs[r].attempt \in Nat /\ runs[r].outcome \in {"none", "skipped", "failed"}
    BY Shapes DEF TypeOK, Finish, Run
  <2>2. y \in Delivery /\ y.uid = inbox[d].uid /\ y.kind = inbox[d].kind /\ y.ver = inbox[d].ver
    BY <2>1 DEF Delivery
  <2>3. inbox' = [inbox EXCEPT ![d] = y]
    BY <1>2, <2>1 DEF Finish, Delivery
  <2> HIDE DEF y
  <2> QED BY <2>1, <2>2, <2>3
<1> QED BY <1>1, <1>2

LEMMA FinishKeeps ==
  ASSUME IInv, NEW r \in Runs, Finish(r)
  PROVE  IInv' /\ UNCHANGED M!mvars
<1>1. TypeOK /\ Turn
  BY DEF IInv
<1>2. Idle \in Run /\ Idle.pc = "idle"
  BY DEF Idle, Run, Inside
<1>3. disturbed' \in Nat
  BY <1>1 DEF Finish, Disturb, TypeOK
<1>4. runs' = [runs EXCEPT ![r] = Idle] /\ UNCHANGED <<zuper, sent, rows, map, holder, batch, inbound>>
  BY DEF Finish
<1> QED BY <1>1, <1>2, <1>3, <1>4, FinishWrites, RunKeeps DEF TypeOK, Turn, Inside

LEMMA ReplayNextKeeps ==
  ASSUME IInv, ReplayNext
  PROVE  IInv' /\ UNCHANGED M!mvars
<1>1. TypeOK /\ Turn /\ 0 \in Runs
  BY InboxAssumption DEF IInv, Runs
<1>2. PICK d \in batch : batch' = batch \ {d} /\ runs' = [runs EXCEPT ![0] = Begun(d)]
  BY DEF ReplayNext
<1>3. d \in DOMAIN inbox /\ d \in Nat
  BY <1>1, Shapes DEF TypeOK
<1>4. Begun(d) \in Run /\ Begun(d).pc = "begun" /\ Begun(d).d = d
  BY <1>3 DEF Begun, Idle, Run, Inside
<1>5. UNCHANGED <<zuper, sent, inbox, rows, map, holder, inbound, disturbed>>
  BY DEF ReplayNext
<1> QED BY <1>1, <1>2, <1>3, <1>4, <1>5, RunKeeps DEF TypeOK, Turn, Inside

(* Steps that leave every run, row and turn where it is. *)
LEMMA AsideKeeps ==
  ASSUME IInv, Tick \/ Switch \/ ReplayFailed
  PROVE  IInv' /\ UNCHANGED M!mvars
<1>1. TypeOK
  BY DEF IInv
<1>2. /\ UNCHANGED <<zuper, sent, rows, map, holder, runs>>
      /\ inbound' \in BOOLEAN /\ disturbed' \in Nat /\ batch' \subseteq DOMAIN inbox
  <2>1. CASE Tick
    <3>1. Pending \subseteq DOMAIN inbox
      BY DEF Pending
    <3>2. batch' \subseteq Pending
      BY <2>1 DEF Tick
    <3> QED BY <1>1, <2>1, <3>1, <3>2 DEF Tick, TypeOK
  <2>2. CASE Switch
    <3>1. inbound' \in BOOLEAN
      BY <2>2, Zenon DEF Switch
    <3>2. disturbed' \in Nat
      BY <1>1, <2>2 DEF Switch, Disturb, TypeOK
    <3> QED BY <1>1, <2>2, <3>1, <3>2 DEF Switch, TypeOK
  <2>3. CASE ReplayFailed
    <3>1. disturbed' \in Nat
      BY <1>1, <2>3 DEF ReplayFailed, Disturb, TypeOK
    <3> QED BY <1>1, <2>3, <3>1 DEF ReplayFailed, TypeOK
  <2> QED BY <2>1, <2>2, <2>3
<1>3. /\ inbox' \in Seq(Delivery) /\ DOMAIN inbox' = DOMAIN inbox
      /\ \A d \in DOMAIN inbox : /\ inbox'[d].uid = inbox[d].uid
                                 /\ inbox'[d].kind = inbox[d].kind
                                 /\ inbox'[d].ver = inbox[d].ver
  <2>1. CASE inbox' = inbox
    BY <2>1, <1>1 DEF TypeOK
  <2>2. CASE ReplayFailed
    <3> DEFINE Y(d) == IF inbox[d].verified /\ ~inbox[d].closed /\ inbox[d].error = "failed"
                         THEN [inbox[d] EXCEPT !.attempts = 0] ELSE inbox[d]
    <3>1. \A d \in DOMAIN inbox : inbox[d] \in Delivery
      BY <1>1, Shapes
    <3>2. \A d \in DOMAIN inbox : /\ Y(d) \in Delivery /\ Y(d).uid = inbox[d].uid
                                  /\ Y(d).kind = inbox[d].kind /\ Y(d).ver = inbox[d].ver
      BY <3>1 DEF Delivery
    <3>3. inbox' = [d \in DOMAIN inbox |-> Y(d)]
      BY <2>2 DEF ReplayFailed
    <3>4. DOMAIN inbox = 1 .. Len(inbox) /\ Len(inbox) \in Nat
      BY <1>1, Shapes
    <3> HIDE DEF Y
    <3> QED BY <3>2, <3>3, <3>4
  <2> QED BY <2>1, <2>2 DEF Tick, Switch
<1>4. \A r \in Runs : runs[r].pc # "idle" =>
        /\ runs[r].d \in DOMAIN inbox /\ UidOf(r)' = UidOf(r) /\ KindOf(r)' = KindOf(r)
  BY <1>1, <1>2, <1>3, Shapes DEF UidOf, KindOf
<1>5. TypeOK'
  BY <1>1, <1>2, <1>3 DEF TypeOK
<1>6. \A u \in Uids : Copy(u)' = Copy(u)
  BY <1>2 DEF Copy, Mapped, Held
<1>7. Turn' /\ Kind' /\ Queued' /\ Mapping'
  BY <1>2, <1>4 DEF IInv, Turn, Kind, Queued, Mapping, Inside
<1>8. NothingAhead'
  BY <1>2, <1>3 DEF IInv, NothingAhead
<1>9. Reading'
  BY <1>1, <1>2, <1>4, <1>6, Shapes DEF IInv, Reading
<1> QED BY <1>2, <1>5, <1>6, <1>7, <1>8, <1>9 DEF IInv, M!mvars

LEMMA CrashKeeps ==
  ASSUME IInv, Crash
  PROVE  IInv' /\ UNCHANGED M!mvars
<1>1. TypeOK /\ NothingAhead
  BY DEF IInv
<1>2. Idle \in Run /\ Idle.pc = "idle"
  BY DEF Idle, Run, Inside
<1>3. /\ runs' = [r \in Runs |-> Idle] /\ holder' = [u \in Uids |-> {}] /\ batch' = {}
      /\ disturbed' \in Nat /\ UNCHANGED <<zuper, sent, inbox, rows, map, inbound>>
  BY <1>1 DEF Crash, Disturb, TypeOK
<1>4. TypeOK'
  BY <1>1, <1>2, <1>3 DEF TypeOK
<1>5. Turn' /\ Kind' /\ Queued' /\ Reading' /\ Mapping'
  BY <1>2, <1>3 DEF Turn, Kind, Queued, Reading, Mapping, Inside
<1>6. NothingAhead'
  BY <1>1, <1>3 DEF NothingAhead
<1>7. UNCHANGED M!mvars
  BY <1>3 DEF M!mvars, Copy, Mapped, Held
<1> QED BY <1>4, <1>5, <1>6, <1>7 DEF IInv

(* A delivery joins the end of the inbox, and at most the run of its own number. *)
LEMMA ReceiveKeeps ==
  ASSUME IInv, NEW e \in Event, e.ver <= zuper[e.uid].ver,
         NEW verified \in BOOLEAN, Receive(e, verified)
  PROVE  IInv' /\ UNCHANGED M!mvars
<1> DEFINE n == Len(inbox) + 1
<1>1. TypeOK /\ NothingAhead /\ n \in Runs
  BY Shapes, InboxAssumption DEF IInv, Receive, Runs
<1>2. /\ UNCHANGED <<zuper, sent, rows, map, holder, batch, inbound>> /\ disturbed' \in Nat
      /\ \E kept \in BOOLEAN : inbox' = Append(inbox, Stored(e, verified, kept))
  <2>1. UNCHANGED <<zuper, sent, rows, map, holder, batch, inbound>>
    BY DEF Receive
  <2>2. disturbed' \in Nat
    <3>1. disturbed' = disturbed \/ disturbed' = disturbed + 1
      BY DEF Receive, Disturb
    <3> QED BY <1>1, <3>1 DEF TypeOK
  <2>3. \/ inbox' = Append(inbox, Stored(e, verified, TRUE))
        \/ inbox' = Append(inbox, Stored(e, verified, FALSE))
    BY DEF Receive
  <2> QED BY <2>1, <2>2, <2>3
<1>3. PICK x \in Delivery : /\ inbox' = Append(inbox, x)
                            /\ x.ver = e.ver /\ x.uid = e.uid
  <2>1. \A kept \in BOOLEAN : /\ Stored(e, verified, kept) \in Delivery
                              /\ Stored(e, verified, kept).ver = e.ver
                              /\ Stored(e, verified, kept).uid = e.uid
    BY DEF Stored, Delivery, Event
  <2> QED BY <1>2, <2>1
<1>4. /\ inbox' \in Seq(Delivery) /\ DOMAIN inbox' = DOMAIN inbox \cup {n}
      /\ inbox'[n] = x /\ \A d \in DOMAIN inbox : inbox'[d] = inbox[d]
  <2>1. inbox \in Seq(Delivery)
    BY <1>1 DEF TypeOK
  <2> QED BY <1>3, <2>1
<1>5. Begun(n) \in Run /\ Begun(n).pc = "begun" /\ Begun(n).d = n
  <2>1. n \in Nat
    BY <1>1, Shapes
  <2> QED BY <2>1 DEF Begun, Idle, Run, Inside
<1>6. \A q \in Runs : /\ runs'[q] \in Run
                      /\ runs'[q] = runs[q] \/ runs'[q] = Begun(n)
  BY <1>1, <1>5 DEF Receive, TypeOK
<1>7. runs' \in [Runs -> Run]
  BY <1>1, <1>5 DEF Receive, TypeOK
<1>8. \A q \in Runs : runs[q].pc # "idle" => /\ runs[q].d \in DOMAIN inbox
                                              /\ inbox'[runs[q].d] = inbox[runs[q].d]
  BY <1>1, <1>4, Shapes
<1>9. \A q \in Runs : runs'[q].pc \notin {"idle", "begun"} =>
        runs'[q] = runs[q] /\ UidOf(q)' = UidOf(q) /\ KindOf(q)' = KindOf(q)
  BY <1>5, <1>6, <1>8 DEF UidOf, KindOf
<1>10. TypeOK'
  <2>1. \A q \in Runs : runs'[q].pc # "idle" => runs'[q].d \in DOMAIN inbox'
    BY <1>4, <1>5, <1>6, <1>8
  <2> QED BY <1>1, <1>2, <1>4, <1>7, <2>1 DEF TypeOK
<1>11. Turn' /\ Kind' /\ Queued' /\ Mapping'
  BY <1>2, <1>9 DEF IInv, Turn, Kind, Queued, Mapping, Inside
<1>12. NothingAhead'
  BY <1>1, <1>2, <1>3, <1>4 DEF NothingAhead
<1>13. \A u \in Uids : Copy(u)' = Copy(u)
  BY <1>2 DEF Copy, Mapped, Held
<1>14. Reading'
  BY <1>1, <1>2, <1>9, <1>13, Shapes DEF IInv, Reading
<1> QED BY <1>2, <1>10, <1>11, <1>12, <1>13, <1>14 DEF IInv, M!mvars

LEMMA ArriveKeeps ==
  ASSUME IInv, Arrive \/ ArriveUnverified
  PROVE  IInv' /\ UNCHANGED M!mvars
<1>1. TypeOK /\ NothingAhead
  BY DEF IInv
<1>2. CASE Arrive
  <2>1. PICK e \in sent : Receive(e, TRUE)
    BY <1>2 DEF Arrive
  <2>2. e \in Event /\ e.ver <= zuper[e.uid].ver
    BY <1>1 DEF TypeOK, NothingAhead
  <2> QED BY <2>1, <2>2, ReceiveKeeps
<1>3. CASE ArriveUnverified
  <2>1. PICK u \in Uids, k \in {"change", "delete"} :
          Receive([uid |-> u, kind |-> k, ver |-> 0], FALSE)
    BY <1>3 DEF ArriveUnverified
  <2> DEFINE e == [uid |-> u, kind |-> k, ver |-> 0]
  <2>2. e \in Event /\ e.ver = 0 /\ e.uid = u
    BY DEF Event
  <2>3. zuper[u].ver \in Nat
    BY <1>1, Shapes
  <2>4. e.ver <= zuper[e.uid].ver
    BY <2>2, <2>3
  <2>5. Receive(e, FALSE)
    BY <2>1
  <2> HIDE DEF e
  <2> QED BY <2>2, <2>4, <2>5, ReceiveKeeps
<1> QED BY <1>2, <1>3

(* Steps that write the rows or the map of one uid, made by the run whose turn it is. *)
LEMMA RowKeeps ==
  ASSUME IInv, NEW r \in Runs, runs[r].pc \in Inside, NEW u \in Uids, u = UidOf(r), NEW x \in Run,
         UNCHANGED <<zuper, sent, inbox, batch, inbound>>, disturbed' \in Nat,
         runs' = [runs EXCEPT ![r] = x], x.pc # "write", x.d = runs[r].d, x.pc # "waiting",
         x.pc \in Inside \cup {"gone"} => (x.pc = "mark" <=> KindOf(r) = "delete") /\ KindOf(r) # "unrouted",
         holder' \in [Uids -> SUBSET Runs], x.pc \in Inside => holder' = holder,
         \A q \in Runs \ {r} : runs[q].pc \in Inside => holder'[UidOf(q)] = {q},
         rows' \in [Uids -> Seq(Row)], map' \in [Uids -> Nat],
         \A w \in Uids : w # u => rows'[w] = rows[w] /\ map'[w] = map[w],
         map'[u] \in 0 .. Len(rows'[u]),
         \A i \in DOMAIN rows'[u] :
           /\ rows'[u][i].main <= zuper[u].ver
           /\ rows'[u][i].detail <= zuper[u].ver,
         x.pc = "map" => /\ x.row \in DOMAIN rows'[u]
                         /\ map'[u] \in {0, x.row},
         Copy(u)' >= Copy(u)
  PROVE  IInv' /\ [M!MNext]_(M!mvars)
<1>1. TypeOK /\ Turn /\ NothingAhead /\ runs[r].d \in DOMAIN inbox
  BY Shapes DEF IInv, Inside
<1>2. runs'[r] = x /\ \A q \in Runs : q # r => runs'[q] = runs[q]
  BY <1>1 DEF TypeOK
<1>3. \A q \in Runs : UidOf(q)' = inbox[runs'[q].d].uid /\ KindOf(q)' = inbox[runs'[q].d].kind
  BY DEF UidOf, KindOf
<1>4. UidOf(r)' = u /\ KindOf(r)' = KindOf(r)
  BY <1>2, <1>3 DEF UidOf, KindOf
<1>5. \A q \in Runs : q # r => UidOf(q)' = UidOf(q) /\ KindOf(q)' = KindOf(q)
  BY <1>2, <1>3 DEF UidOf, KindOf
<1>6. \A q \in Runs : q # r /\ runs[q].pc \in Inside =>
        UidOf(q) \in Uids /\ UidOf(q) # u
  BY <1>1, Alone, Shapes DEF Inside
<1>7. \A w \in Uids : w # u => Copy(w)' = Copy(w)
  BY DEF Copy, Mapped, Held
<1>8. TypeOK'
  <2>1. \A w \in Uids : map'[w] \in 0 .. Len(rows'[w])
    BY <1>1 DEF TypeOK
  <2>2. runs' \in [Runs -> Run]
    BY <1>1 DEF TypeOK
  <2>3. \A q \in Runs : runs'[q].pc # "idle" => runs'[q].d \in DOMAIN inbox
    BY <1>1, <1>2 DEF TypeOK
  <2>4. batch' \subseteq DOMAIN inbox' /\ inbound' \in BOOLEAN /\ inbox' \in Seq(Delivery)
    BY <1>1 DEF TypeOK
  <2> QED BY <1>1, <2>1, <2>2, <2>3, <2>4 DEF TypeOK
<1>9. Turn'
  <2>1. x.pc \in Inside => holder'[u] = {r}
    BY <1>1 DEF Turn
  <2> QED BY <1>2, <1>4, <1>5, <2>1 DEF Turn
<1>10. Kind' /\ Queued'
  BY <1>2, <1>4, <1>5 DEF IInv, Kind, Queued
<1>11. NothingAhead'
  <2>1. \A w \in Uids : \A i \in DOMAIN rows'[w] :
          rows'[w][i].main <= zuper[w].ver /\ rows'[w][i].detail <= zuper[w].ver
    BY <1>1 DEF NothingAhead
  <2> QED BY <1>1, <2>1 DEF NothingAhead
<1>12. Reading'
  <2>1. \A q \in Runs : runs'[q].pc = "write" =>
          /\ q # r /\ runs'[q] = runs[q] /\ UidOf(q)' = UidOf(q) /\ Copy(UidOf(q))' = Copy(UidOf(q))
    BY <1>2, <1>5, <1>6, <1>7 DEF Inside
  <2> QED BY <2>1 DEF IInv, Reading
<1>13. Mapping'
  <2>1. \A q \in Runs : q # r /\ runs'[q].pc = "map" =>
          /\ runs'[q] = runs[q] /\ UidOf(q)' = UidOf(q)
          /\ rows'[UidOf(q)] = rows[UidOf(q)] /\ map'[UidOf(q)] = map[UidOf(q)]
    BY <1>2, <1>5, <1>6 DEF Inside
  <2>2. \A q \in Runs : q # r /\ runs'[q].pc = "map" =>
          /\ runs'[q].row \in DOMAIN rows'[UidOf(q)']
          /\ map'[UidOf(q)'] \in {0, runs'[q].row}
    BY <2>1 DEF IInv, Mapping
  <2> QED BY <1>2, <1>4, <2>2 DEF Mapping
<1>14. [M!MNext]_(M!mvars)
  <2> DEFINE c == [w \in Uids |-> Copy(w)]
             s == [w \in Uids |-> zuper[w].ver]
  <2>1. Copy(u)' \in Nat /\ Copy(u)' <= zuper[u].ver /\ Copy(u) \in Nat
    <3>1. Copy(u) \in Nat
      BY <1>1, CopyBehind
    <3>2. rows'[u] \in Seq(Row) /\ map'[u] \in 0 .. Len(rows'[u])
      OBVIOUS
    <3>3. \A i \in DOMAIN rows'[u] : rows'[u][i] \in Row /\ rows'[u][i].main <= zuper[u].ver
      BY <3>2
    <3>4. map'[u] # 0 => map'[u] \in DOMAIN rows'[u]
      BY <3>2
    <3>5. \A i \in DOMAIN rows'[u] : rows'[u][i].main \in Nat
      BY <3>3 DEF Row
    <3>6. zuper[u].ver \in Nat
      BY <1>1, Shapes
    <3> QED BY <3>1, <3>3, <3>4, <3>5, <3>6 DEF Copy, Mapped, Held
  <2>2. c' = [c EXCEPT ![u] = Copy(u)'] /\ s' = s
    <3>1. c' = [w \in Uids |-> Copy(w)']
      OBVIOUS
    <3>2. \A w \in Uids : c'[w] = IF w = u THEN Copy(u)' ELSE c[w]
      BY <1>7, <3>1
    <3>3. c' = [w \in Uids |-> IF w = u THEN Copy(u)' ELSE c[w]]
      BY <3>1, <3>2
    <3>4. [c EXCEPT ![u] = Copy(u)'] = [w \in Uids |-> IF w = u THEN Copy(u)' ELSE c[w]]
      OBVIOUS
    <3> QED BY <3>3, <3>4
  <2>3. Copy(u)' \in c[u] .. s[u]
    BY <1>1, <2>1, Shapes
  <2> HIDE DEF c, s
  <2>4. \E w \in Uids : (\E v \in c[w] .. s[w] : c' = [c EXCEPT ![w] = v]) /\ s' = s
    BY <1>1, <2>2, <2>3
  <2> QED BY <2>4 DEF M!MNext, M!CatchUp, c, s
<1> QED BY <1>8, <1>9, <1>10, <1>11, <1>12, <1>13, <1>14 DEF IInv

(* One part of the mapped row is written. *)
LEMMA RowWritten ==
  ASSUME IInv, NEW u \in Uids, Mapped(u), NEW y \in Row,
         y.main <= zuper[u].ver, y.detail <= zuper[u].ver, y.main >= Held(u).main,
         rows' = [rows EXCEPT ![u] = [rows[u] EXCEPT ![map[u]] = y]], map' = map
  PROVE  /\ rows' \in [Uids -> Seq(Row)] /\ map' \in [Uids -> Nat]
         /\ \A w \in Uids : w # u => rows'[w] = rows[w] /\ map'[w] = map[w]
         /\ map'[u] \in 0 .. Len(rows'[u]) /\ map'[u] = map[u] /\ map[u] \in DOMAIN rows'[u]
         /\ \A i \in DOMAIN rows'[u] :
              rows'[u][i].main <= zuper[u].ver /\ rows'[u][i].detail <= zuper[u].ver
         /\ Copy(u)' = y.main /\ Copy(u)' >= Copy(u)
<1>1. TypeOK /\ NothingAhead
  BY DEF IInv
<1>2. rows \in [Uids -> Seq(Row)] /\ map \in [Uids -> Nat] /\ map[u] \in DOMAIN rows[u]
  BY <1>1, Shapes DEF TypeOK, Mapped
<1>3. /\ rows'[u] = [rows[u] EXCEPT ![map[u]] = y] /\ rows'[u] \in Seq(Row)
      /\ DOMAIN rows'[u] = DOMAIN rows[u] /\ Len(rows'[u]) = Len(rows[u])
      /\ rows'[u][map[u]] = y /\ \A i \in DOMAIN rows[u] : i # map[u] => rows'[u][i] = rows[u][i]
  BY <1>2
<1>4. rows' \in [Uids -> Seq(Row)] /\ \A w \in Uids : w # u => rows'[w] = rows[w]
  BY <1>2, <1>3
<1>5. \A i \in DOMAIN rows'[u] :
        rows'[u][i].main <= zuper[u].ver /\ rows'[u][i].detail <= zuper[u].ver
  BY <1>1, <1>3 DEF NothingAhead
<1>6. Copy(u)' = y.main /\ Copy(u) = Held(u).main
  BY <1>3 DEF Copy, Mapped, Held
<1> QED BY <1>1, <1>2, <1>3, <1>4, <1>5, <1>6 DEF TypeOK

LEMMA WriteKeeps ==
  ASSUME IInv, NEW r \in Runs, Write(r)
  PROVE  IInv' /\ [M!MNext]_(M!mvars)
<1>1. PICK u \in Uids : u = UidOf(r)
  BY Shapes DEF IInv, Write
<1> DEFINE v == runs[r].read
           id == IF Mapped(u) THEN map[u] ELSE Len(rows[u]) + 1
           x == [runs[r] EXCEPT !.pc = "map", !.row = id]
<1>2. TypeOK /\ Turn /\ runs[r] \in Run /\ v \in Nat /\ runs[r].pc \in Inside /\ zuper[u].ver \in Nat
  BY Shapes DEF IInv, Write, Inside
<1>3. Copy(u) <= v /\ v <= zuper[u].ver /\ KindOf(r) \notin {"delete", "unrouted"}
  BY <1>1 DEF IInv, Reading, Kind, Write, Inside
<1>4. id \in Nat
  BY <1>2, Shapes
<1>5. /\ runs' = [runs EXCEPT ![r] = x]
      /\ UNCHANGED <<zuper, sent, inbox, map, holder, batch, inbound, disturbed>>
  BY <1>1, <1>2 DEF Write, TypeOK
<1>6. /\ rows' \in [Uids -> Seq(Row)] /\ map' \in [Uids -> Nat]
      /\ \A w \in Uids : w # u => rows'[w] = rows[w] /\ map'[w] = map[w]
      /\ map'[u] \in 0 .. Len(rows'[u]) /\ id \in DOMAIN rows'[u] /\ map'[u] \in {0, id}
      /\ \A i \in DOMAIN rows'[u] :
           rows'[u][i].main <= zuper[u].ver /\ rows'[u][i].detail <= zuper[u].ver
      /\ Copy(u)' >= Copy(u)
  <2>1. CASE Mapped(u)
    <3> DEFINE y == [Held(u) EXCEPT !.main = v, !.deleted = FALSE]
    <3>1. map[u] \in DOMAIN rows[u] /\ Held(u) \in Row
      BY <1>2, <2>1, Shapes DEF Mapped, Held
    <3>2. Held(u).detail <= zuper[u].ver
      BY <3>1 DEF IInv, NothingAhead, Held
    <3>3. y \in Row /\ y.main = v /\ y.detail = Held(u).detail
      BY <1>2, <3>1 DEF Row
    <3>4. rows' = [rows EXCEPT ![u] = [rows[u] EXCEPT ![map[u]] = y]] /\ map' = map
      BY <1>1, <2>1, <3>1 DEF Write, Held, Row
    <3>5. v >= Held(u).main
      BY <1>3, <2>1, <1>2 DEF Copy
    <3> HIDE DEF y
    <3>6. /\ y.main <= zuper[u].ver /\ y.detail <= zuper[u].ver /\ y.main >= Held(u).main
      BY <1>3, <3>2, <3>3, <3>5
    <3>7. id = map[u]
      BY <2>1
    <3> QED BY <2>1, <3>3, <3>4, <3>6, <3>7, RowWritten
  <2>2. CASE ~Mapped(u)
    <3> DEFINE y == [main |-> v, detail |-> 0, deleted |-> FALSE]
    <3>1. y \in Row /\ y.main = v /\ y.detail = 0
      BY <1>2 DEF Row
    <3>2. rows' = [rows EXCEPT ![u] = Append(rows[u], y)] /\ map' = map
      BY <1>1, <2>2 DEF Write
    <3>3. rows \in [Uids -> Seq(Row)] /\ map \in [Uids -> Nat] /\ map[u] = 0
      BY <1>2, <2>2 DEF TypeOK, Mapped
    <3> HIDE DEF y
    <3>4. /\ rows'[u] = Append(rows[u], y) /\ rows'[u] \in Seq(Row)
          /\ DOMAIN rows'[u] = DOMAIN rows[u] \cup {id} /\ rows'[u][id] = y
          /\ \A i \in DOMAIN rows[u] : rows'[u][i] = rows[u][i]
      BY <2>2, <3>1, <3>2, <3>3
    <3>5. \A w \in Uids : w # u => rows'[w] = rows[w] /\ map'[w] = map[w]
      BY <3>2, <3>3
    <3>6. rows' \in [Uids -> Seq(Row)]
      BY <3>2, <3>3, <3>4
    <3>7. \A i \in DOMAIN rows'[u] :
            rows'[u][i].main <= zuper[u].ver /\ rows'[u][i].detail <= zuper[u].ver
      BY <1>2, <1>3, <3>1, <3>4 DEF IInv, NothingAhead
    <3>8. Copy(u)' = 0 /\ Copy(u) = 0
      BY <3>2, <3>3 DEF Copy, Mapped
    <3> QED BY <3>2, <3>3, <3>4, <3>5, <3>6, <3>7, <3>8
  <2> QED BY <2>1, <2>2
<1> HIDE DEF id
<1>7. x \in Run /\ x.pc = "map" /\ x.d = runs[r].d /\ x.row = id
  BY <1>2, <1>4 DEF Run, Inside
<1>8. \A q \in Runs \ {r} : runs[q].pc \in Inside => holder'[UidOf(q)] = {q}
  BY <1>2, <1>5 DEF Turn
<1> HIDE DEF x
<1>9. disturbed' \in Nat /\ holder' \in [Uids -> SUBSET Runs]
  BY <1>2, <1>5 DEF TypeOK
<1> QED BY <1>1, <1>2, <1>3, <1>5, <1>6, <1>7, <1>8, <1>9, RowKeeps

(* What a run that leaves its turn after writing a row still has to satisfy. *)
LEMMA LeavingRow ==
  ASSUME TypeOK, Turn, NEW r \in Runs, runs[r].pc \in Inside,
         NEW out \in {"none", "skipped", "failed"},
         runs' = Ended(r, out), holder' = Released(r)
  PROVE  \E x \in Run : /\ runs' = [runs EXCEPT ![r] = x]
                        /\ x.pc = "finish" /\ x.d = runs[r].d /\ x.pc \notin Inside
                        /\ holder' \in [Uids -> SUBSET Runs]
                        /\ \A q \in Runs \ {r} : runs[q].pc \in Inside => holder'[UidOf(q)] = {q}
<1> DEFINE x == [runs[r] EXCEPT !.pc = "finish", !.outcome = out]
<1>1. runs[r] \in Run
  BY DEF TypeOK
<1>2. x \in Run /\ x.pc = "finish" /\ x.d = runs[r].d
  BY <1>1 DEF Run
<1>3. runs' = [runs EXCEPT ![r] = x]
  BY DEF Ended, TypeOK
<1> HIDE DEF x
<1> QED BY <1>2, <1>3, ReleasedKeeps DEF Inside

LEMMA MarkKeeps ==
  ASSUME IInv, NEW r \in Runs, Mark(r)
  PROVE  IInv' /\ [M!MNext]_(M!mvars)
<1>1. PICK u \in Uids : u = UidOf(r)
  BY Shapes DEF IInv, Mark
<1>2. /\ TypeOK /\ Turn /\ runs[r].pc \in Inside /\ zuper[u].ver \in Nat
      /\ UNCHANGED <<zuper, sent, inbox, map, batch, inbound>>
      /\ runs' = Ended(r, "none") /\ holder' = Released(r)
  BY Shapes DEF IInv, Mark, Inside
<1>3. disturbed' \in Nat
  <2>1. disturbed' = disturbed \/ disturbed' = disturbed + 1
    BY DEF Mark, Disturb
  <2> QED BY <1>2, <2>1 DEF TypeOK
<1>4. CASE rows' = rows
  <2>1. runs' = [runs EXCEPT ![r] = [runs[r] EXCEPT !.pc = "finish", !.outcome = "none"]]
    BY <1>2 DEF Ended, TypeOK
  <2> QED BY <1>2, <1>3, <1>4, <2>1, LeavingKeeps
<1>5. CASE rows' # rows
  <2> DEFINE y == [Held(u) EXCEPT !.deleted = TRUE]
  <2>1. Mapped(u) /\ rows' = [rows EXCEPT ![u][map[u]].deleted = TRUE]
    BY <1>1, <1>5 DEF Mark
  <2>2. map[u] \in DOMAIN rows[u] /\ Held(u) \in Row
    BY <1>2, <2>1, Shapes DEF Mapped, Held
  <2>3. Held(u).detail <= zuper[u].ver /\ Held(u).main <= zuper[u].ver /\ Held(u).main \in Nat
    BY <1>2, <2>2, Shapes DEF IInv, NothingAhead, Held
  <2>4. y \in Row /\ y.main = Held(u).main /\ y.detail = Held(u).detail
    BY <2>2 DEF Row
  <2>5. rows' = [rows EXCEPT ![u] = [rows[u] EXCEPT ![map[u]] = y]] /\ map' = map
    BY <1>2, <2>1, <2>2 DEF Held, Row
  <2> HIDE DEF y
  <2>6. y.main <= zuper[u].ver /\ y.detail <= zuper[u].ver /\ y.main >= Held(u).main
    BY <2>3, <2>4
  <2>7. /\ rows' \in [Uids -> Seq(Row)] /\ map' \in [Uids -> Nat]
        /\ \A w \in Uids : w # u => rows'[w] = rows[w] /\ map'[w] = map[w]
        /\ map'[u] \in 0 .. Len(rows'[u])
        /\ \A i \in DOMAIN rows'[u] :
             rows'[u][i].main <= zuper[u].ver /\ rows'[u][i].detail <= zuper[u].ver
        /\ Copy(u)' >= Copy(u)
    BY <2>1, <2>4, <2>5, <2>6, RowWritten
  <2>8. PICK x \in Run : /\ runs' = [runs EXCEPT ![r] = x]
                         /\ x.pc = "finish" /\ x.d = runs[r].d /\ x.pc \notin Inside
                         /\ holder' \in [Uids -> SUBSET Runs]
                         /\ \A q \in Runs \ {r} : runs[q].pc \in Inside => holder'[UidOf(q)] = {q}
    BY <1>2, LeavingRow
  <2> QED BY <1>1, <1>2, <1>3, <2>7, <2>8, RowKeeps
<1> QED BY <1>4, <1>5

LEMMA EnrichKeeps ==
  ASSUME IInv, NEW r \in Runs, Enrich(r)
  PROVE  IInv' /\ [M!MNext]_(M!mvars)
<1>1. PICK u \in Uids : u = UidOf(r)
  BY Shapes DEF IInv, Enrich
<1>2. /\ TypeOK /\ Turn /\ runs[r].pc \in Inside /\ zuper[u].ver \in Nat
      /\ UNCHANGED <<zuper, sent, inbox, map, batch, inbound, disturbed>>
      /\ holder' = Released(r)
  BY Shapes DEF IInv, Enrich, Inside
<1>3. CASE ~Mapped(u)
  <2>1. rows' = rows /\ runs' = Ended(r, "failed")
    BY <1>1, <1>3 DEF Enrich
  <2>2. runs' = [runs EXCEPT ![r] = [runs[r] EXCEPT !.pc = "finish", !.outcome = "failed"]]
    BY <1>2, <2>1 DEF Ended, TypeOK
  <2> QED BY <1>2, <2>1, <2>2, LeavingKeeps DEF TypeOK
<1>4. CASE Mapped(u)
  <2> DEFINE y == [Held(u) EXCEPT !.detail = zuper[u].ver]
  <2>1. rows' = [rows EXCEPT ![u][map[u]].detail = zuper[u].ver] /\ runs' = Ended(r, "none")
    BY <1>1, <1>4 DEF Enrich
  <2>2. map[u] \in DOMAIN rows[u] /\ Held(u) \in Row
    BY <1>2, <1>4, Shapes DEF Mapped, Held
  <2>3. Held(u).main <= zuper[u].ver /\ Held(u).main \in Nat
    BY <1>2, <2>2, Shapes DEF IInv, NothingAhead, Held
  <2>4. y \in Row /\ y.main = Held(u).main /\ y.detail = zuper[u].ver
    BY <1>2, <2>2 DEF Row
  <2>5. rows' = [rows EXCEPT ![u] = [rows[u] EXCEPT ![map[u]] = y]] /\ map' = map
    BY <1>2, <2>1, <2>2 DEF Held, Row
  <2> HIDE DEF y
  <2>6. y.main <= zuper[u].ver /\ y.detail <= zuper[u].ver /\ y.main >= Held(u).main
    BY <1>2, <2>3, <2>4
  <2>7. /\ rows' \in [Uids -> Seq(Row)] /\ map' \in [Uids -> Nat]
        /\ \A w \in Uids : w # u => rows'[w] = rows[w] /\ map'[w] = map[w]
        /\ map'[u] \in 0 .. Len(rows'[u])
        /\ \A i \in DOMAIN rows'[u] :
             rows'[u][i].main <= zuper[u].ver /\ rows'[u][i].detail <= zuper[u].ver
        /\ Copy(u)' >= Copy(u)
    BY <1>4, <2>4, <2>5, <2>6, RowWritten
  <2>8. PICK x \in Run : /\ runs' = [runs EXCEPT ![r] = x]
                         /\ x.pc = "finish" /\ x.d = runs[r].d /\ x.pc \notin Inside
                         /\ holder' \in [Uids -> SUBSET Runs]
                         /\ \A q \in Runs \ {r} : runs[q].pc \in Inside => holder'[UidOf(q)] = {q}
    BY <1>2, <2>1, LeavingRow
  <2>9. disturbed' \in Nat
    BY <1>2 DEF TypeOK
  <2> QED BY <1>1, <1>2, <2>7, <2>8, <2>9, RowKeeps
<1> QED BY <1>3, <1>4

LEMMA SetMapKeeps ==
  ASSUME IInv, NEW r \in Runs, SetMap(r)
  PROVE  IInv' /\ [M!MNext]_(M!mvars)
<1>1. PICK u \in Uids : u = UidOf(r)
  BY Shapes DEF IInv, SetMap
<1> DEFINE id == runs[r].row
<1>2. /\ TypeOK /\ Turn /\ NothingAhead /\ runs[r] \in Run /\ runs[r].pc \in Inside
      /\ zuper[u].ver \in Nat /\ UNCHANGED <<zuper, sent, inbox, rows, batch, inbound>>
  BY Shapes DEF IInv, SetMap, Inside
<1>3. id \in DOMAIN rows[u] /\ map[u] \in {0, id} /\ KindOf(r) \notin {"delete", "unrouted"}
  BY <1>1 DEF IInv, Mapping, Kind, SetMap, Inside
<1>4. disturbed' \in Nat
  <2>1. disturbed' = disturbed \/ disturbed' = disturbed + 1
    BY DEF SetMap, Disturb
  <2> QED BY <1>2, <2>1 DEF TypeOK
<1>5. map' = map \/ map' = [map EXCEPT ![u] = id]
  BY <1>1 DEF SetMap
<1>6. /\ rows' \in [Uids -> Seq(Row)] /\ map' \in [Uids -> Nat]
      /\ \A w \in Uids : w # u => rows'[w] = rows[w] /\ map'[w] = map[w]
      /\ map'[u] \in 0 .. Len(rows'[u])
      /\ \A i \in DOMAIN rows'[u] :
           rows'[u][i].main <= zuper[u].ver /\ rows'[u][i].detail <= zuper[u].ver
  <2>1. rows \in [Uids -> Seq(Row)] /\ map \in [Uids -> Nat] /\ rows' = rows
    BY <1>2 DEF TypeOK
  <2>2. id \in 0 .. Len(rows[u]) /\ map[u] \in 0 .. Len(rows[u]) /\ id \in Nat
    BY <1>2, <1>3, Shapes
  <2> HIDE DEF id
  <2>3. /\ map' \in [Uids -> Nat] /\ map'[u] \in {map[u], id}
        /\ \A w \in Uids : w # u => map'[w] = map[w]
    BY <1>5, <2>1, <2>2
  <2> QED BY <1>2, <2>1, <2>2, <2>3 DEF NothingAhead
<1>7. Copy(u)' >= Copy(u)
  <2>1. Copy(u) = IF map[u] # 0 THEN rows[u][map[u]].main ELSE 0
    BY DEF Copy, Mapped, Held
  <2>2. Copy(u)' = IF map'[u] # 0 THEN rows[u][map'[u]].main ELSE 0
    BY <1>2 DEF Copy, Mapped, Held
  <2>3. rows[u][id].main \in Nat /\ id \in Nat
    BY <1>2, <1>3, Shapes
  <2>4. map'[u] = map[u] \/ map'[u] = id
    BY <1>2, <1>5 DEF TypeOK
  <2> QED BY <1>3, <2>1, <2>2, <2>3, <2>4
<1>8. CASE u \in Enriched
  <2> DEFINE x == [runs[r] EXCEPT !.pc = "enrich"]
  <2>1. runs' = [runs EXCEPT ![r] = x] /\ holder' = holder
    BY <1>1, <1>2, <1>8 DEF SetMap, Moved, TypeOK
  <2>2. x \in Run /\ x.pc = "enrich" /\ x.d = runs[r].d
    BY <1>2 DEF Run, Inside
  <2>3. /\ \A q \in Runs \ {r} : runs[q].pc \in Inside => holder'[UidOf(q)] = {q}
        /\ holder' \in [Uids -> SUBSET Runs]
    BY <1>2, <2>1 DEF Turn, TypeOK
  <2> HIDE DEF x
  <2> QED BY <1>1, <1>2, <1>3, <1>4, <1>6, <1>7, <2>1, <2>2, <2>3, RowKeeps
<1>9. CASE u \notin Enriched
  <2>1. runs' = Ended(r, "none") /\ holder' = Released(r)
    BY <1>1, <1>9 DEF SetMap
  <2>2. PICK x \in Run : /\ runs' = [runs EXCEPT ![r] = x]
                         /\ x.pc = "finish" /\ x.d = runs[r].d /\ x.pc \notin Inside
                         /\ holder' \in [Uids -> SUBSET Runs]
                         /\ \A q \in Runs \ {r} : runs[q].pc \in Inside => holder'[UidOf(q)] = {q}
    BY <1>2, <2>1, LeavingRow
  <2> QED BY <1>1, <1>2, <1>4, <1>6, <1>7, <2>2, RowKeeps
<1> QED BY <1>8, <1>9

LEMMA StepKeeps ==
  ASSUME IInv, [Next]_vars
  PROVE  IInv' /\ [M!MNext]_(M!mvars)
<1>1. CASE UNCHANGED vars
  <2>1. IInv'
    BY <1>1 DEF vars, IInv, TypeOK, Turn, Kind, Queued, NothingAhead, Reading, Mapping,
                UidOf, KindOf, Copy, Mapped, Held
  <2>2. UNCHANGED M!mvars
    BY <1>1 DEF vars, M!mvars, Copy, Mapped, Held
  <2> QED BY <2>1, <2>2
<1>2. ASSUME NEW u \in Uids, ZuperChange(u) \/ ZuperDelete(u) \/ ZuperUnrouted(u)
      PROVE  IInv' /\ [M!MNext]_(M!mvars)
  BY <1>2, ZuperKeeps
<1>3. ASSUME NEW r \in Runs, Acquire(r) \/ PassFails(r) \/ Step(r)
      PROVE  IInv' /\ [M!MNext]_(M!mvars)
  <2>1. CASE Acquire(r) \/ PassFails(r) \/ Begin(r) \/ Fetch(r) \/ FetchGone(r) \/ CheckHeld(r) \/ Finish(r)
    BY <2>1, AcquireKeeps, LeaveKeeps, BeginKeeps, FetchKeeps, CheckHeldKeeps, FinishKeeps
  <2>2. CASE Write(r) \/ SetMap(r) \/ Enrich(r) \/ Mark(r)
    BY <2>2, WriteKeeps, SetMapKeeps, EnrichKeeps, MarkKeeps
  <2> QED BY <1>3, <2>1, <2>2 DEF Step
<1>4. CASE Arrive \/ ArriveUnverified \/ Tick \/ ReplayNext \/ Switch \/ ReplayFailed \/ Crash
  BY <1>4, ArriveKeeps, AsideKeeps, ReplayNextKeeps, CrashKeeps
<1> QED BY <1>1, <1>2, <1>3, <1>4 DEF Next

LEMMA Inductive == Spec => []IInv
<1>1. IInv /\ [Next]_vars => IInv'
  BY StepKeeps
<1> QED BY InitIInv, <1>1, PTL DEF Spec

(* The state keeps its shape: above all, a map entry always names an existing row    *)
(* of its record and a run is always about a stored delivery.                        *)
THEOREM InboxTyped == Spec => []TypeOK
<1>1. IInv => TypeOK
  BY DEF IInv
<1> QED BY Inductive, <1>1, PTL

(* For any deliveries, replays, failures and crashes the copy in Tuper is some state *)
(* the record had and never steps back: the inbound sync implements Mirror.          *)
THEOREM CopyFollowsZuper == Spec => FollowsZuper
<1>1. Init => M!MInit
  <2> SUFFICES ASSUME Init PROVE M!MInit
    OBVIOUS
  <2>1. \A u \in Uids : Copy(u) = 0 /\ zuper[u].ver = 0
    BY DEF Init, Copy, Mapped
  <2> QED BY <2>1 DEF M!MInit
<1>2. IInv /\ [Next]_vars => [M!MNext]_(M!mvars)
  BY StepKeeps
<1> QED BY Inductive, <1>1, <1>2, PTL DEF Spec, FollowsZuper, M!MSpec

-------------------------------------------------------------------------------
(* What a closed delivery means, for any records, deliveries and disturbances but  *)
(* the ones each theorem names: the errors of the uid map that nobody reads.        *)

Acts(r) == Acquire(r) \/ PassFails(r) \/ Step(r)

(* A step is one run's, or leaves every run alone or at its start, or none. *)
LEMMA WhoActs ==
  ASSUME IInv, [Next]_vars
  PROVE  \A q \in Runs : runs'[q] = runs[q] \/ runs'[q].pc \in {"idle", "begun"} \/ Acts(q)
<1>1. TypeOK
  BY DEF IInv
<1>2. \A d : Begun(d).pc = "begun" /\ Idle.pc = "idle"
  BY DEF Begun, Idle
<1>3. ASSUME NEW r \in Runs, Acts(r)
      PROVE  \A q \in Runs : runs'[q] = runs[q] \/ q = r
  BY <1>1, <1>3 DEF Acts, Step, Acquire, PassFails, Begin, Fetch, FetchGone, Write, SetMap, Enrich,
                    Mark, CheckHeld, Finish, Moved, Ended, TypeOK
<1>4. CASE Arrive \/ ArriveUnverified
  BY <1>1, <1>2, <1>4 DEF Arrive, ArriveUnverified, Receive, TypeOK
<1>5. CASE ReplayNext \/ Crash
  BY <1>1, <1>2, <1>5 DEF ReplayNext, Crash, TypeOK
<1>6. CASE \/ UNCHANGED vars \/ Tick \/ Switch \/ ReplayFailed
           \/ \E u \in Uids : ZuperChange(u) \/ ZuperDelete(u) \/ ZuperUnrouted(u)
  BY <1>6 DEF vars, Tick, Switch, ReplayFailed, ZuperChange, ZuperDelete, ZuperUnrouted
<1> QED BY <1>3, <1>4, <1>5, <1>6 DEF Next, Acts

(* Zuper's side only moves on, and what it has sent stays sent. *)
LEMMA ZuperGrows ==
  ASSUME IInv, [Next]_vars
  PROVE  /\ sent \subseteq sent'
         /\ UNCHANGED zuper \/ (\E u \in Uids : ZuperChange(u) \/ ZuperDelete(u))
<1>1. CASE \E r \in Runs : Acts(r)
  BY <1>1 DEF Acts, Step, Acquire, PassFails, Begin, Fetch, FetchGone, Write, SetMap, Enrich,
              Mark, CheckHeld, Finish
<1>2. CASE Arrive \/ ArriveUnverified
  BY <1>2 DEF Arrive, ArriveUnverified, Receive
<1>3. CASE \/ UNCHANGED vars \/ Tick \/ Switch \/ ReplayFailed \/ ReplayNext \/ Crash
           \/ \E u \in Uids : ZuperChange(u) \/ ZuperDelete(u) \/ ZuperUnrouted(u)
  BY <1>3 DEF vars, Tick, Switch, ReplayFailed, ReplayNext, Crash, ZuperChange, ZuperDelete, ZuperUnrouted
<1> QED BY <1>1, <1>2, <1>3 DEF Next, Acts

(* A delivery stays about its event; only finish closes it or gives it an error. *)
SameEvent(d) == /\ inbox'[d].uid = inbox[d].uid /\ inbox'[d].kind = inbox[d].kind
                /\ inbox'[d].ver = inbox[d].ver /\ inbox'[d].verified = inbox[d].verified
SameState(d) == inbox'[d].closed = inbox[d].closed /\ inbox'[d].error = inbox[d].error
Announced(x) == x.verified => \E e \in sent : e.uid = x.uid /\ e.kind = x.kind

LEMMA Received ==
  ASSUME TypeOK, NEW e, NEW verified \in BOOLEAN, Receive(e, verified)
  PROVE  /\ \A d \in DOMAIN inbox : d \in DOMAIN inbox' /\ inbox'[d] = inbox[d]
         /\ DOMAIN inbox' = DOMAIN inbox \cup {Len(inbox) + 1}
         /\ \E kept \in BOOLEAN : inbox'[Len(inbox) + 1] = Stored(e, verified, kept)
<1>1. \/ inbox' = Append(inbox, Stored(e, verified, TRUE))
      \/ inbox' = Append(inbox, Stored(e, verified, FALSE))
  BY DEF Receive
<1>2. PICK kept \in BOOLEAN : inbox' = Append(inbox, Stored(e, verified, kept))
  BY <1>1
<1>3. inbox \in Seq(Delivery)
  BY DEF TypeOK
<1> QED BY <1>2, <1>3

LEMMA InboxGrows ==
  ASSUME IInv, [Next]_vars
  PROVE  /\ \A d \in DOMAIN inbox :
              /\ d \in DOMAIN inbox' /\ SameEvent(d)
              /\ SameState(d) \/ \E r \in Runs : Finish(r) /\ runs[r].d = d
         /\ \A d \in DOMAIN inbox' \ DOMAIN inbox :
              ~inbox'[d].closed /\ inbox'[d].error = "none" /\ Announced(inbox'[d])
<1>1. TypeOK /\ inbox \in Seq(Delivery)
  BY DEF IInv, TypeOK
<1>2. CASE inbox' = inbox
  BY <1>2 DEF SameEvent, SameState
<1>3. ASSUME NEW e, NEW verified \in BOOLEAN, Receive(e, verified), ~verified \/ e \in sent
      PROVE  /\ \A d \in DOMAIN inbox : d \in DOMAIN inbox' /\ SameEvent(d) /\ SameState(d)
             /\ \A d \in DOMAIN inbox' \ DOMAIN inbox :
                  ~inbox'[d].closed /\ inbox'[d].error = "none" /\ Announced(inbox'[d])
  <2>1. PICK kept \in BOOLEAN : inbox'[Len(inbox) + 1] = Stored(e, verified, kept)
    BY <1>1, <1>3, Received
  <2>2. \A d \in DOMAIN inbox : d \in DOMAIN inbox' /\ inbox'[d] = inbox[d]
    BY <1>1, <1>3, Received
  <2>3. DOMAIN inbox' = DOMAIN inbox \cup {Len(inbox) + 1}
    BY <1>1, <1>3, Received
  <2> DEFINE n == Len(inbox) + 1
  <2>4. /\ ~inbox'[n].closed /\ inbox'[n].error = "none" /\ inbox'[n].verified = verified
        /\ inbox'[n].uid = e.uid /\ inbox'[n].kind = e.kind
    BY <2>1 DEF Stored
  <2>5. \A d \in DOMAIN inbox' \ DOMAIN inbox : d = n
    BY <2>3
  <2>6. Announced(inbox'[n])
    BY <1>3, <2>4 DEF Announced
  <2> HIDE DEF n
  <2> QED BY <2>2, <2>4, <2>5, <2>6 DEF SameEvent, SameState
<1>4. CASE Arrive \/ ArriveUnverified
  <2>1. \E e : \E verified \in BOOLEAN : Receive(e, verified) /\ (~verified \/ e \in sent)
    BY <1>4 DEF Arrive, ArriveUnverified
  <2> QED BY <1>3, <2>1
<1>5. ASSUME NEW r \in Runs, Finish(r), inbox' # inbox
      PROVE  /\ DOMAIN inbox' = DOMAIN inbox
             /\ \A d \in DOMAIN inbox : SameEvent(d) /\ (SameState(d) \/ runs[r].d = d)
  <2> DEFINE d == runs[r].d
             y == [inbox[d] EXCEPT !.closed = @ \/ runs[r].outcome # "failed",
                                   !.error = runs[r].outcome, !.attempts = runs[r].attempt]
  <2>1. d \in DOMAIN inbox /\ inbox[d] \in Delivery
    BY <1>1, <1>5, Shapes DEF Finish
  <2>2. /\ y.uid = inbox[d].uid /\ y.kind = inbox[d].kind /\ y.ver = inbox[d].ver
        /\ y.verified = inbox[d].verified
    BY <2>1 DEF Delivery
  <2>3. inbox' = [inbox EXCEPT ![d] = y]
    BY <1>5, <2>1 DEF Finish, Delivery
  <2> HIDE DEF y
  <2> QED BY <1>1, <2>1, <2>2, <2>3 DEF SameEvent, SameState
<1>6. CASE ReplayFailed
  <2>1. \A d \in DOMAIN inbox : inbox[d] \in Delivery
    BY <1>1, Shapes
  <2> DEFINE Y(d) == IF inbox[d].verified /\ ~inbox[d].closed /\ inbox[d].error = "failed"
                       THEN [inbox[d] EXCEPT !.attempts = 0] ELSE inbox[d]
  <2>2. \A d \in DOMAIN inbox : /\ Y(d).uid = inbox[d].uid /\ Y(d).kind = inbox[d].kind
                                /\ Y(d).ver = inbox[d].ver /\ Y(d).verified = inbox[d].verified
                                /\ Y(d).closed = inbox[d].closed /\ Y(d).error = inbox[d].error
    BY <2>1 DEF Delivery
  <2>3. inbox' = [d \in DOMAIN inbox |-> Y(d)]
    BY <1>6 DEF ReplayFailed
  <2> HIDE DEF Y
  <2> QED BY <2>2, <2>3 DEF SameEvent, SameState
<1>7. CASE \E r \in Runs : Acts(r)
  <2>1. PICK r \in Runs : Acts(r)
    BY <1>7
  <2>2. inbox' = inbox \/ Finish(r)
    BY <2>1 DEF Acts, Step, Acquire, PassFails, Begin, Fetch, FetchGone, Write, SetMap, Enrich,
                Mark, CheckHeld
  <2> QED BY <1>2, <1>5, <2>2
<1>8. CASE \/ UNCHANGED vars \/ Tick \/ Switch \/ ReplayNext \/ Crash
           \/ \E u \in Uids : ZuperChange(u) \/ ZuperDelete(u) \/ ZuperUnrouted(u)
  BY <1>2, <1>8 DEF vars, Tick, Switch, ReplayNext, Crash, ZuperChange, ZuperDelete, ZuperUnrouted
<1> QED BY <1>3, <1>4, <1>6, <1>7, <1>8 DEF Next, Acts

(* No part of a row goes back, and a mapped record keeps its row. *)
RowKept(u) == \A i \in DOMAIN rows[u] : /\ i \in DOMAIN rows'[u]
                                        /\ rows'[u][i].main >= rows[u][i].main
                                        /\ rows'[u][i].detail >= rows[u][i].detail

LEMMA RowUntouched ==
  ASSUME TypeOK, NEW u \in Uids, rows'[u] = rows[u]
  PROVE  RowKept(u)
BY Shapes DEF RowKept

LEMMA RowsWritten ==
  ASSUME TypeOK, NEW u \in Uids, Mapped(u), NEW y \in Row,
         y.main >= Held(u).main, y.detail >= Held(u).detail,
         rows' = [rows EXCEPT ![u] = [rows[u] EXCEPT ![map[u]] = y]]
  PROVE  /\ \A w \in Uids : RowKept(w)
         /\ map[u] \in DOMAIN rows'[u] /\ rows'[u][map[u]] = y
<1>1. rows \in [Uids -> Seq(Row)] /\ map[u] \in DOMAIN rows[u]
  BY Shapes DEF TypeOK, Mapped
<1>2. /\ DOMAIN rows'[u] = DOMAIN rows[u] /\ rows'[u][map[u]] = y
      /\ \A i \in DOMAIN rows[u] : i # map[u] => rows'[u][i] = rows[u][i]
      /\ \A w \in Uids : w # u => rows'[w] = rows[w]
  BY <1>1
<1>3. RowKept(u)
  BY <1>1, <1>2, Shapes DEF RowKept, Held
<1> QED BY <1>1, <1>2, <1>3, RowUntouched

(* What Write leaves in the row it is about. *)
LEMMA WriteRows ==
  ASSUME IInv, NEW r \in Runs, Write(r)
  PROVE  /\ \A w \in Uids : RowKept(w)
         /\ runs'[r].row \in DOMAIN rows'[UidOf(r)]
         /\ rows'[UidOf(r)][runs'[r].row].main = runs[r].read
<1>1. PICK u \in Uids : u = UidOf(r)
  BY Shapes DEF IInv, Write
<1> DEFINE v == runs[r].read
           id == IF Mapped(u) THEN map[u] ELSE Len(rows[u]) + 1
<1>2. /\ TypeOK /\ v \in Nat /\ rows \in [Uids -> Seq(Row)] /\ rows[u] \in Seq(Row)
      /\ Copy(u) <= v
  BY <1>1, Shapes DEF IInv, TypeOK, Reading, Write
<1>3. runs'[r].row = id
  BY <1>1, <1>2 DEF Write, TypeOK
<1>4. CASE Mapped(u)
  <2> DEFINE y == [Held(u) EXCEPT !.main = v, !.deleted = FALSE]
  <2>1. map[u] \in DOMAIN rows[u] /\ Held(u) \in Row /\ Held(u).detail \in Nat
    BY <1>2, <1>4, Shapes DEF Mapped, Held
  <2>2. y \in Row /\ y.main = v /\ y.detail = Held(u).detail
    BY <1>2, <2>1 DEF Row
  <2>3. rows' = [rows EXCEPT ![u] = [rows[u] EXCEPT ![map[u]] = y]]
    BY <1>1, <1>4, <2>1 DEF Write, Held, Row
  <2>4. v >= Held(u).main
    BY <1>2, <1>4 DEF Copy
  <2>5. id = map[u]
    BY <1>4
  <2> HIDE DEF y, id
  <2>6. y.main >= Held(u).main /\ y.detail >= Held(u).detail
    BY <2>1, <2>2, <2>4
  <2>7. (\A w \in Uids : RowKept(w)) /\ map[u] \in DOMAIN rows'[u] /\ rows'[u][map[u]] = y
    BY <1>2, <1>4, <2>2, <2>3, <2>6, RowsWritten
  <2> QED BY <1>1, <1>3, <2>2, <2>5, <2>7
<1>5. CASE ~Mapped(u)
  <2> DEFINE y == [main |-> v, detail |-> 0, deleted |-> FALSE]
  <2>1. y \in Row /\ y.main = v
    BY <1>2 DEF Row
  <2>2. rows' = [rows EXCEPT ![u] = Append(rows[u], y)]
    BY <1>1, <1>5 DEF Write
  <2> HIDE DEF y
  <2>3. /\ DOMAIN rows'[u] = DOMAIN rows[u] \cup {id} /\ rows'[u][id] = y
        /\ \A i \in DOMAIN rows[u] : rows'[u][i] = rows[u][i]
        /\ \A w \in Uids : w # u => rows'[w] = rows[w]
    BY <1>2, <1>5, <2>1, <2>2
  <2>4. RowKept(u)
    BY <1>2, <2>3, Shapes DEF RowKept
  <2> HIDE DEF id
  <2> QED BY <1>1, <1>2, <1>3, <2>1, <2>3, <2>4, RowUntouched
<1> QED BY <1>4, <1>5

LEMMA EnrichRows ==
  ASSUME IInv, NEW r \in Runs, Enrich(r)
  PROVE  /\ \A w \in Uids : RowKept(w)
         /\ Mapped(UidOf(r)) =>
              /\ map[UidOf(r)] \in DOMAIN rows'[UidOf(r)]
              /\ rows'[UidOf(r)][map[UidOf(r)]].detail = zuper[UidOf(r)].ver
<1>1. PICK u \in Uids : u = UidOf(r)
  BY Shapes DEF IInv, Enrich
<1>2. TypeOK /\ zuper[u].ver \in Nat
  BY Shapes DEF IInv
<1>3. CASE ~Mapped(u)
  <2>1. rows' = rows
    BY <1>1, <1>3 DEF Enrich
  <2> QED BY <1>1, <1>2, <1>3, <2>1, RowUntouched
<1>4. CASE Mapped(u)
  <2> DEFINE y == [Held(u) EXCEPT !.detail = zuper[u].ver]
  <2>1. map[u] \in DOMAIN rows[u] /\ Held(u) \in Row /\ Held(u).detail \in Nat /\ Held(u).main \in Nat
    BY <1>2, <1>4, Shapes DEF Mapped, Held
  <2>2. y \in Row /\ y.main = Held(u).main /\ y.detail = zuper[u].ver
    BY <1>2, <2>1 DEF Row
  <2>3. rows' = [rows EXCEPT ![u] = [rows[u] EXCEPT ![map[u]] = y]]
    BY <1>1, <1>4, <2>1 DEF Enrich, Held, Row
  <2>4. zuper[u].ver >= Held(u).detail
    BY <2>1, <1>2 DEF IInv, NothingAhead, Held
  <2> HIDE DEF y
  <2>5. y.main >= Held(u).main /\ y.detail >= Held(u).detail
    BY <2>1, <2>2, <2>4
  <2>6. (\A w \in Uids : RowKept(w)) /\ map[u] \in DOMAIN rows'[u] /\ rows'[u][map[u]] = y
    BY <1>2, <1>4, <2>2, <2>3, <2>5, RowsWritten
  <2> QED BY <1>1, <2>2, <2>6
<1> QED BY <1>3, <1>4

LEMMA MarkRows ==
  ASSUME IInv, NEW r \in Runs, Mark(r), "readMap" \notin Disturbances
  PROVE  /\ Mapped(UidOf(r)) =>
              /\ map[UidOf(r)] \in DOMAIN rows'[UidOf(r)]
              /\ rows'[UidOf(r)][map[UidOf(r)]].deleted
<1>1. PICK u \in Uids : u = UidOf(r)
  BY Shapes DEF IInv, Mark
<1>2. TypeOK /\ rows \in [Uids -> Seq(Row)]
  BY DEF IInv, TypeOK
<1>3. CASE Mapped(u)
  <2>1. map[u] \in DOMAIN rows[u] /\ rows[u][map[u]] \in Row
    BY <1>2, <1>3, Shapes DEF Mapped
  <2>2. rows' = [rows EXCEPT ![u][map[u]].deleted = TRUE]
    BY <1>1, <1>3 DEF Mark, Disturb
  <2> QED BY <1>1, <1>2, <2>1, <2>2 DEF Row
<1> QED BY <1>1, <1>3

LEMMA MarkKeepsRows ==
  ASSUME IInv, NEW r \in Runs, Mark(r)
  PROVE  \A w \in Uids : RowKept(w)
<1>1. PICK u \in Uids : u = UidOf(r)
  BY Shapes DEF IInv, Mark
<1>2. TypeOK
  BY DEF IInv
<1>3. CASE rows' = rows
  BY <1>2, <1>3, RowUntouched
<1>4. CASE rows' # rows
  <2> DEFINE y == [Held(u) EXCEPT !.deleted = TRUE]
  <2>1. Mapped(u) /\ rows' = [rows EXCEPT ![u][map[u]].deleted = TRUE]
    BY <1>1, <1>4 DEF Mark
  <2>2. map[u] \in DOMAIN rows[u] /\ Held(u) \in Row /\ Held(u).main \in Nat /\ Held(u).detail \in Nat
    BY <1>2, <2>1, Shapes DEF Mapped, Held
  <2>3. y \in Row /\ y.main = Held(u).main /\ y.detail = Held(u).detail
    BY <2>2 DEF Row
  <2>4. rows' = [rows EXCEPT ![u] = [rows[u] EXCEPT ![map[u]] = y]]
    BY <2>1, <2>2 DEF Held, Row
  <2> HIDE DEF y
  <2>5. y.main >= Held(u).main /\ y.detail >= Held(u).detail
    BY <2>2, <2>3
  <2> QED BY <1>2, <2>1, <2>3, <2>4, <2>5, RowsWritten
<1> QED BY <1>3, <1>4

LEMMA RowsGrow ==
  ASSUME IInv, [Next]_vars
  PROVE  /\ \A u \in Uids : RowKept(u)
         /\ \A u \in Uids : map[u] # 0 => map'[u] = map[u]
<1>1. TypeOK
  BY DEF IInv
<1>2. ASSUME UNCHANGED rows PROVE \A u \in Uids : RowKept(u)
  BY <1>1, <1>2, RowUntouched
<1>3. ASSUME NEW r \in Runs, SetMap(r)
      PROVE  \A u \in Uids : map[u] # 0 => map'[u] = map[u]
  <2>1. map[UidOf(r)] \in {0, runs[r].row}
    BY <1>3 DEF IInv, Mapping, SetMap
  <2> QED BY <1>1, <1>3, <2>1 DEF SetMap, TypeOK
<1>4. ASSUME NEW r \in Runs, Acts(r)
      PROVE  /\ UNCHANGED rows \/ Write(r) \/ Enrich(r) \/ Mark(r)
             /\ UNCHANGED map \/ SetMap(r)
  BY <1>4 DEF Acts, Step, Acquire, PassFails, Begin, Fetch, FetchGone, Write, SetMap, Enrich,
              Mark, CheckHeld, Finish
<1>5. CASE \E r \in Runs : Acts(r)
  <2>1. PICK r \in Runs : Acts(r)
    BY <1>5
  <2>2. \A u \in Uids : RowKept(u)
    BY <1>2, <1>4, <2>1, WriteRows, EnrichRows, MarkKeepsRows, RowUntouched, <1>1
  <2>3. \A u \in Uids : map[u] # 0 => map'[u] = map[u]
    BY <1>3, <1>4, <2>1
  <2> QED BY <2>2, <2>3
<1>6. CASE Arrive \/ ArriveUnverified
  BY <1>2, <1>6 DEF Arrive, ArriveUnverified, Receive
<1>7. CASE \/ UNCHANGED vars \/ Tick \/ Switch \/ ReplayFailed \/ ReplayNext \/ Crash
           \/ \E u \in Uids : ZuperChange(u) \/ ZuperDelete(u) \/ ZuperUnrouted(u)
  BY <1>2, <1>7 DEF vars, Tick, Switch, ReplayFailed, ReplayNext, Crash,
                    ZuperChange, ZuperDelete, ZuperUnrouted
<1> QED BY <1>5, <1>6, <1>7 DEF Next, Acts

LEMMA NewRows ==
  ASSUME TypeOK', NEW u \in Uids, NEW i \in DOMAIN rows'[u]
  PROVE  rows'[u][i].main \in Nat /\ rows'[u][i].detail \in Nat
<1>1. rows'[u][i] \in Row
  BY DEF TypeOK
<1> QED BY <1>1 DEF Row

(* What has reached the row stays there. *)
Reached(u, v) == Mapped(u) /\ Held(u).main >= v

LEMMA ReachedKept ==
  ASSUME IInv, [Next]_vars, NEW u \in Uids, NEW v \in Nat
  PROVE  /\ Reached(u, v) => Reached(u, v)'
         /\ Mapped(u) /\ Held(u).detail >= v => Held(u)'.detail >= v
<1>1. TypeOK /\ IInv'
  BY StepKeeps DEF IInv
<1>2. ASSUME Mapped(u)
      PROVE  /\ Mapped(u)' /\ Held(u)' = rows'[u][map[u]] /\ map[u] \in DOMAIN rows[u]
  BY <1>1, <1>2, RowsGrow, Shapes DEF Mapped, Held
<1>3. ASSUME Mapped(u)
      PROVE  /\ map[u] \in DOMAIN rows'[u]
             /\ rows'[u][map[u]].main >= rows[u][map[u]].main
             /\ rows'[u][map[u]].detail >= rows[u][map[u]].detail
  BY <1>2, <1>3, RowsGrow DEF RowKept
<1>4. ASSUME Mapped(u)
      PROVE  /\ rows'[u][map[u]].main \in Nat /\ rows'[u][map[u]].detail \in Nat
             /\ rows[u][map[u]].main \in Nat /\ rows[u][map[u]].detail \in Nat
  BY <1>1, <1>2, <1>3, <1>4, NewRows, Shapes DEF IInv
<1> QED BY <1>2, <1>3, <1>4 DEF Reached, Held

LEMMA AppliedKept ==
  ASSUME IInv, [Next]_vars, NEW d \in DOMAIN inbox, Applied(d)
  PROVE  Applied(d)'
<1>1. PICK u \in Uids, v \in Nat : u = inbox[d].uid /\ v = inbox[d].ver
  BY Shapes DEF IInv
<1>2. inbox'[d].uid = u /\ inbox'[d].ver = v
  BY <1>1, InboxGrows DEF SameEvent
<1>3. Reached(u, v) /\ (u \in Enriched => Held(u).detail >= v)
  BY <1>1 DEF Applied, Reached
<1>4. Reached(u, v)' /\ (u \in Enriched => Held(u)'.detail >= v)
  BY <1>3, ReachedKept DEF Reached
<1> QED BY <1>2, <1>4 DEF Applied, Reached, Mapped, Held

(* How far a run has brought the change it is about. *)
Progress(r) ==
  KindOf(r) = "change" =>
    LET u == UidOf(r)
        v == inbox[runs[r].d].ver
    IN  /\ runs[r].pc = "write" => runs[r].read >= v
        /\ runs[r].pc = "map" => rows[u][runs[r].row].main >= v
        /\ runs[r].pc = "enrich" => Reached(u, v)
        /\ runs[r].pc = "finish" /\ runs[r].outcome = "none" => Applied(runs[r].d)

LEMMA ProgressKept ==
  ASSUME IInv, [Next]_vars, NEW q \in Runs, runs'[q] = runs[q], Progress(q)
  PROVE  Progress(q)'
<1>1. TypeOK /\ IInv'
  BY StepKeeps DEF IInv
<1>2. CASE runs[q].pc = "idle"
  BY <1>2 DEF Progress
<1>3. CASE runs[q].pc # "idle"
  <2>1. PICK d \in DOMAIN inbox, u \in Uids, v \in Nat :
          d = runs[q].d /\ u = UidOf(q) /\ u = inbox[d].uid /\ v = inbox[d].ver
    BY <1>1, <1>3, Shapes DEF UidOf
  <2>2. /\ d \in DOMAIN inbox' /\ inbox'[d].uid = inbox[d].uid /\ inbox'[d].kind = inbox[d].kind
        /\ inbox'[d].ver = inbox[d].ver
    BY <2>1, InboxGrows DEF SameEvent
  <2>3. UidOf(q)' = u /\ KindOf(q)' = KindOf(q) /\ inbox'[runs'[q].d].ver = v
    BY <2>1, <2>2 DEF UidOf, KindOf
  <2>4. ASSUME runs[q].pc = "map", rows[u][runs[q].row].main >= v
        PROVE  rows'[u][runs[q].row].main >= v
    <3>1. runs[q].row \in DOMAIN rows[u]
      BY <2>1, <2>4 DEF IInv, Mapping
    <3>2. /\ runs[q].row \in DOMAIN rows'[u]
          /\ rows'[u][runs[q].row].main >= rows[u][runs[q].row].main
      BY <2>1, <3>1, RowsGrow DEF RowKept
    <3>3. rows'[u][runs[q].row].main \in Nat /\ rows[u][runs[q].row].main \in Nat
      BY <1>1, <2>1, <3>1, <3>2, NewRows, Shapes DEF IInv
    <3> QED BY <2>1, <2>4, <3>2, <3>3
  <2>5. Reached(u, v) => Reached(u, v)'
    BY <2>1, ReachedKept
  <2>7. Applied(d) => Applied(d)'
    BY <2>1, AppliedKept
  <2>8. /\ KindOf(q) = "change" /\ runs[q].pc = "write" => runs[q].read >= v
        /\ KindOf(q) = "change" /\ runs[q].pc = "map" => rows'[u][runs[q].row].main >= v
        /\ KindOf(q) = "change" /\ runs[q].pc = "enrich" => Reached(u, v)'
        /\ KindOf(q) = "change" /\ runs[q].pc = "finish" /\ runs[q].outcome = "none" => Applied(d)'
    BY <2>1, <2>4, <2>5, <2>7 DEF Progress
  <2>9. Progress(q)' = (KindOf(q) = "change" =>
        /\ runs[q].pc = "write" => runs[q].read >= v
        /\ runs[q].pc = "map" => rows'[u][runs[q].row].main >= v
        /\ runs[q].pc = "enrich" => Reached(u, v)'
        /\ runs[q].pc = "finish" /\ runs[q].outcome = "none" => Applied(d)')
    BY <2>1, <2>3 DEF Progress
  <2> QED BY <2>8, <2>9
<1> QED BY <1>2, <1>3

LEMMA ProgressActs ==
  ASSUME "setMap" \notin Disturbances, IInv, [Next]_vars, NEW r \in Runs, Acts(r), Progress(r)
  PROVE  Progress(r)'
<1>1. TypeOK /\ IInv' /\ runs[r] \in Run /\ runs \in [Runs -> Run]
  BY StepKeeps DEF IInv, TypeOK
<1>2. runs[r].pc # "idle"
  BY DEF Acts, Step, Acquire, PassFails, Begin, Fetch, FetchGone, Write, SetMap, Enrich, Mark,
         CheckHeld, Finish
<1>3. PICK d \in DOMAIN inbox, u \in Uids, v \in Nat :
        d = runs[r].d /\ u = UidOf(r) /\ u = inbox[d].uid /\ v = inbox[d].ver
  BY <1>1, <1>2, Shapes DEF UidOf
<1>4. inbox'[d].uid = u /\ inbox'[d].kind = inbox[d].kind /\ inbox'[d].ver = v
  BY <1>3, InboxGrows DEF SameEvent
<1>5. zuper[u].ver \in Nat /\ v <= zuper[u].ver
  BY <1>1, <1>3, Shapes DEF IInv, NothingAhead
<1>6. ASSUME runs'[r].pc \notin {"write", "map", "enrich"},
             ~(runs'[r].pc = "finish" /\ runs'[r].outcome = "none")
      PROVE  Progress(r)'
  BY <1>6 DEF Progress
<1>7. CASE Begin(r) \/ Acquire(r) \/ FetchGone(r) \/ CheckHeld(r) \/ PassFails(r) \/ Finish(r)
  BY <1>1, <1>6, <1>7 DEF Begin, Acquire, FetchGone, CheckHeld, PassFails, Finish, Moved, Ended, Idle, Run
<1>8. ASSUME runs'[r].d = d PROVE UidOf(r)' = u /\ KindOf(r)' = KindOf(r) /\ inbox'[runs'[r].d].ver = v
  BY <1>3, <1>4, <1>8 DEF UidOf, KindOf
<1>9. CASE Fetch(r)
  <2>1. runs'[r].d = d /\ runs'[r].pc = "write" /\ runs'[r].read = zuper[u].ver
    BY <1>1, <1>3, <1>9 DEF Fetch, Run
  <2> QED BY <1>5, <1>8, <2>1 DEF Progress
<1>10. CASE Write(r)
  <2>1. runs'[r].d = d /\ runs'[r].pc = "map"
    BY <1>1, <1>3, <1>10 DEF Write, Run
  <2>2. rows'[u][runs'[r].row].main = runs[r].read
    BY <1>3, <1>10, WriteRows
  <2>3. KindOf(r) = "change" => runs[r].read >= v
    BY <1>3, <1>10 DEF Progress, Write
  <2> QED BY <1>8, <2>1, <2>2, <2>3 DEF Progress
<1>11. CASE SetMap(r)
  <2>1. rows' = rows /\ map'[u] = runs[r].row /\ runs[r].pc = "map"
    BY <1>1, <1>3, <1>11 DEF SetMap, Disturb, TypeOK
  <2>2. KindOf(r) = "change" => rows[u][runs[r].row].main >= v
    BY <1>3, <2>1 DEF Progress
  <2>3. runs[r].row # 0
    BY <1>1, <1>3, <2>1, Shapes DEF IInv, Mapping
  <2>4. KindOf(r) = "change" => Reached(u, v)'
    BY <2>1, <2>2, <2>3 DEF Reached, Mapped, Held
  <2>5. CASE u \in Enriched
    <3>1. runs'[r].d = d /\ runs'[r].pc = "enrich"
      BY <1>1, <1>3, <1>11, <2>5 DEF SetMap, Moved, Run
    <3> QED BY <1>8, <2>4, <3>1 DEF Progress, Reached, Mapped, Held
  <2>6. CASE u \notin Enriched
    <3>1. runs'[r].d = d /\ runs'[r].pc = "finish"
      BY <1>1, <1>3, <1>11, <2>6 DEF SetMap, Ended, Run
    <3>2. KindOf(r) = "change" => Applied(d)'
      BY <1>4, <2>4, <2>6 DEF Applied, Reached, Mapped, Held
    <3> QED BY <1>8, <3>1, <3>2 DEF Progress, Applied, Mapped, Held
  <2> QED BY <2>5, <2>6
<1>12. CASE Enrich(r)
  <2>1. CASE ~Mapped(u)
    BY <1>1, <1>3, <1>6, <1>12, <2>1 DEF Enrich, Ended, Run
  <2>2. CASE Mapped(u)
    <3>1. runs'[r].d = d /\ runs'[r].pc = "finish" /\ runs[r].pc = "enrich" /\ map' = map
      BY <1>1, <1>3, <1>12, <2>2 DEF Enrich, Ended, Run
    <3>2. KindOf(r) = "change" => Reached(u, v)
      BY <1>3, <3>1 DEF Progress
    <3>3. Reached(u, v) => Reached(u, v)'
      BY ReachedKept
    <3>4. rows'[u][map[u]].detail = zuper[u].ver
      BY <1>3, <1>12, <2>2, EnrichRows
    <3>5. KindOf(r) = "change" => Applied(d)'
      BY <1>4, <1>5, <3>1, <3>2, <3>3, <3>4 DEF Applied, Reached, Mapped, Held
    <3> QED BY <1>8, <3>1, <3>5 DEF Progress, Applied, Mapped, Held
  <2> QED BY <2>1, <2>2
<1>13. CASE Mark(r)
  <2>1. runs'[r].d = d /\ runs[r].pc = "mark"
    BY <1>1, <1>3, <1>13 DEF Mark, Ended, Run
  <2>2. KindOf(r) = "delete"
    BY <2>1 DEF IInv, Kind, Inside
  <2> QED BY <1>8, <2>1, <2>2 DEF Progress
<1> QED BY <1>7, <1>9, <1>10, <1>11, <1>12, <1>13 DEF Acts, Step

LEMMA ClosedKeeps ==
  ASSUME "setMap" \notin Disturbances, IInv, [Next]_vars,
         \A r \in Runs : Progress(r), ClosedMeansApplied
  PROVE  (\A r \in Runs : Progress(r)') /\ ClosedMeansApplied'
<1>1. TypeOK
  BY DEF IInv
<1>2. ASSUME NEW q \in Runs PROVE Progress(q)'
  <2>1. CASE runs'[q].pc \in {"idle", "begun"}
    BY <2>1 DEF Progress
  <2> QED BY <2>1, WhoActs, ProgressKept, ProgressActs
<1>3. ASSUME NEW d \in DOMAIN inbox',
             inbox'[d].kind = "change", inbox'[d].closed, inbox'[d].error = "none"
      PROVE  Applied(d)'
  <2>1. d \in DOMAIN inbox /\ inbox[d].kind = "change"
    BY <1>3, InboxGrows DEF SameEvent
  <2>2. CASE SameState(d)
    <3>1. Applied(d)
      BY <1>3, <2>1, <2>2 DEF SameState, ClosedMeansApplied
    <3> QED BY <2>1, <3>1, AppliedKept
  <2>3. ASSUME NEW r \in Runs, Finish(r), runs[r].d = d, ~SameState(d) PROVE Applied(d)'
    <3>1. inbox[d] \in Delivery
      BY <1>1, <2>1, Shapes
    <3> DEFINE y == [inbox[d] EXCEPT !.closed = @ \/ runs[r].outcome # "failed",
                                     !.error = runs[r].outcome, !.attempts = runs[r].attempt]
    <3>4. runs[r].pc = "finish" /\ inbox' = [inbox EXCEPT ![d] = y]
      BY <2>1, <2>3, <3>1 DEF Finish, SameState, Delivery
    <3>5. y.error = runs[r].outcome
      BY <3>1 DEF Delivery
    <3> HIDE DEF y
    <3>2. runs[r].pc = "finish" /\ inbox'[d].error = runs[r].outcome
      BY <1>1, <2>1, <3>4, <3>5 DEF TypeOK
    <3>3. Applied(d)
      BY <1>3, <2>1, <2>3, <3>2 DEF Progress, KindOf
    <3> QED BY <2>1, <3>3, AppliedKept
  <2> QED BY <2>1, <2>2, <2>3, InboxGrows
<1> QED BY <1>2, <1>3 DEF ClosedMeansApplied

(* A change closed without an error has reached the row with all its passes, whatever overlaps,   *)
(* fails, is replayed or dies in between, as long as no mapping upsert fails unnoticed.           *)
THEOREM ClosedApplied ==
  ASSUME "setMap" \notin Disturbances
  PROVE  Spec => []ClosedMeansApplied
<1> DEFINE J == (\A r \in Runs : Progress(r)) /\ ClosedMeansApplied
<1>1. Init => J
  BY DEF Init, Idle, Progress, ClosedMeansApplied
<1>2. IInv /\ J /\ [Next]_vars => J'
  BY ClosedKeeps
<1>3. J => ClosedMeansApplied
  OBVIOUS
<1> HIDE DEF J
<1> QED BY Inductive, <1>1, <1>2, <1>3, PTL DEF Spec

(* Only a deletion flags a row. *)
Unflagged(u) == \A i \in DOMAIN rows'[u] : rows'[u][i].deleted => i \in DOMAIN rows[u] /\ rows[u][i].deleted

LEMMA WriteUnflags ==
  ASSUME IInv, NEW r \in Runs, Write(r)
  PROVE  \A w \in Uids : Unflagged(w) /\ (w # UidOf(r) => rows'[w] = rows[w])
<1>1. PICK u \in Uids : u = UidOf(r)
  BY Shapes DEF IInv, Write
<1> DEFINE v == runs[r].read
<1>2. TypeOK /\ v \in Nat /\ rows \in [Uids -> Seq(Row)] /\ rows[u] \in Seq(Row)
  BY <1>1, Shapes DEF IInv, TypeOK, Write
<1>3. \A w \in Uids : w # u => rows'[w] = rows[w]
  BY <1>1, <1>2 DEF Write
<1>4. CASE Mapped(u)
  <2> DEFINE y == [Held(u) EXCEPT !.main = v, !.deleted = FALSE]
  <2>1. map[u] \in DOMAIN rows[u] /\ Held(u) \in Row
    BY <1>2, <1>4, Shapes DEF Mapped, Held
  <2>2. ~y.deleted
    BY <1>2, <2>1 DEF Row
  <2>3. rows' = [rows EXCEPT ![u] = [rows[u] EXCEPT ![map[u]] = y]]
    BY <1>1, <1>4, <2>1 DEF Write, Held, Row
  <2> HIDE DEF y
  <2> QED BY <1>1, <1>2, <1>3, <2>2, <2>3 DEF Unflagged
<1>5. CASE ~Mapped(u)
  <2> DEFINE y == [main |-> v, detail |-> 0, deleted |-> FALSE]
  <2>1. y \in Row /\ ~y.deleted
    BY <1>2 DEF Row
  <2>2. rows' = [rows EXCEPT ![u] = Append(rows[u], y)]
    BY <1>1, <1>5 DEF Write
  <2> HIDE DEF y
  <2> QED BY <1>1, <1>2, <1>3, <2>1, <2>2 DEF Unflagged
<1> QED BY <1>4, <1>5

LEMMA EnrichUnflags ==
  ASSUME IInv, NEW r \in Runs, Enrich(r)
  PROVE  \A w \in Uids : Unflagged(w) /\ (w # UidOf(r) => rows'[w] = rows[w])
<1>1. PICK u \in Uids : u = UidOf(r)
  BY Shapes DEF IInv, Enrich
<1>2. TypeOK /\ rows \in [Uids -> Seq(Row)] /\ zuper[u].ver \in Nat
  BY <1>1, Shapes DEF IInv, TypeOK
<1>3. CASE ~Mapped(u)
  <2>1. rows' = rows
    BY <1>1, <1>3 DEF Enrich
  <2> QED BY <2>1 DEF Unflagged
<1>4. CASE Mapped(u)
  <2> DEFINE y == [Held(u) EXCEPT !.detail = zuper[u].ver]
  <2>1. map[u] \in DOMAIN rows[u] /\ Held(u) \in Row
    BY <1>2, <1>4, Shapes DEF Mapped, Held
  <2>2. y.deleted = Held(u).deleted
    BY <2>1 DEF Row
  <2>3. rows' = [rows EXCEPT ![u] = [rows[u] EXCEPT ![map[u]] = y]]
    BY <1>1, <1>4, <2>1 DEF Enrich, Held, Row
  <2> HIDE DEF y
  <2> QED BY <1>1, <1>2, <2>1, <2>2, <2>3 DEF Unflagged, Held
<1> QED BY <1>3, <1>4

LEMMA WhoFlags ==
  ASSUME IInv, [Next]_vars, NEW u \in Uids
  PROVE  Unflagged(u) \/ \E r \in Runs : Mark(r) /\ UidOf(r) = u
<1>1. TypeOK
  BY DEF IInv
<1>2. ASSUME UNCHANGED rows PROVE Unflagged(u)
  BY <1>2 DEF Unflagged
<1>3. ASSUME NEW r \in Runs, Acts(r)
      PROVE  UNCHANGED rows \/ Write(r) \/ Enrich(r) \/ Mark(r)
  BY <1>3 DEF Acts, Step, Acquire, PassFails, Begin, Fetch, FetchGone, Write, SetMap, Enrich,
              Mark, CheckHeld, Finish
<1>4. ASSUME NEW r \in Runs, Mark(r), UidOf(r) # u PROVE Unflagged(u)
  <2>1. rows'[u] = rows[u]
    BY <1>1, <1>4 DEF Mark, TypeOK
  <2> QED BY <2>1 DEF Unflagged
<1>5. CASE \E r \in Runs : Acts(r)
  BY <1>2, <1>3, <1>4, <1>5, WriteUnflags, EnrichUnflags
<1>6. CASE Arrive \/ ArriveUnverified
  BY <1>2, <1>6 DEF Arrive, ArriveUnverified, Receive
<1>7. CASE \/ UNCHANGED vars \/ Tick \/ Switch \/ ReplayFailed \/ ReplayNext \/ Crash
           \/ \E w \in Uids : ZuperChange(w) \/ ZuperDelete(w) \/ ZuperUnrouted(w)
  BY <1>2, <1>7 DEF vars, Tick, Switch, ReplayFailed, ReplayNext, Crash,
                    ZuperChange, ZuperDelete, ZuperUnrouted
<1> QED BY <1>5, <1>6, <1>7 DEF Next, Acts

(* What is processed or waits to be replayed is verified, and Zuper did send it. Run n is only *)
(* ever about delivery n.                                                                      *)
Genuine ==
  /\ \A d \in DOMAIN inbox : Announced(inbox[d])
  /\ \A r \in Runs : runs[r].pc # "idle" => inbox[runs[r].d].verified
  /\ \A d \in batch : inbox[d].verified
  /\ \A r \in Runs : r # 0 /\ runs[r].pc # "idle" => runs[r].d = r

LEMMA StaysAbout ==
  ASSUME TypeOK, NEW r \in Runs, Acts(r)
  PROVE  runs[r].pc # "idle" /\ (runs'[r].d = runs[r].d \/ runs'[r].pc = "idle")
<1>1. runs[r].pc # "idle"
  BY DEF Acts, Step, Acquire, PassFails, Begin, Fetch, FetchGone, Write, SetMap, Enrich, Mark,
         CheckHeld, Finish
<1>2. runs[r] \in Run /\ runs \in [Runs -> Run]
  BY DEF TypeOK
<1>3. CASE Begin(r) \/ Acquire(r) \/ PassFails(r) \/ Fetch(r) \/ FetchGone(r) \/ Write(r)
  BY <1>2, <1>3 DEF Begin, Acquire, PassFails, Fetch, FetchGone, Write, Moved, Ended, Run
<1>4. CASE SetMap(r) \/ Enrich(r) \/ Mark(r) \/ CheckHeld(r) \/ Finish(r)
  BY <1>2, <1>4 DEF SetMap, Enrich, Mark, CheckHeld, Finish, Moved, Ended, Idle, Run
<1> QED BY <1>1, <1>3, <1>4 DEF Acts, Step

(* Who begins: the run of what has just come, or the replay. *)
BeginsOwn(q) == /\ runs'[q] = Begun(q) /\ q = Len(inbox) + 1
                /\ q \in DOMAIN inbox' /\ inbox'[q].verified
BeginsAgain(q) == \E d \in batch : runs'[q] = Begun(d) /\ q = 0 /\ runs[q].pc = "idle" /\ inbox' = inbox

LEMMA WhoBegins ==
  ASSUME IInv, [Next]_vars, NEW q \in Runs
  PROVE  \/ runs'[q] = runs[q] \/ Acts(q) \/ BeginsOwn(q) \/ BeginsAgain(q)
         \/ Crash /\ runs'[q].pc = "idle"
<1>1. TypeOK
  BY DEF IInv
<1>2. Idle.pc = "idle"
  BY DEF Idle
<1>3. ASSUME NEW r \in Runs, Acts(r), q # r PROVE runs'[q] = runs[q]
  BY <1>1, <1>3 DEF Acts, Step, Acquire, PassFails, Begin, Fetch, FetchGone, Write, SetMap, Enrich,
                    Mark, CheckHeld, Finish, Moved, Ended, TypeOK
<1>4. ASSUME NEW e, NEW verified \in BOOLEAN, Receive(e, verified), runs'[q] # runs[q]
      PROVE  BeginsOwn(q)
  <2>1. runs'[q] = Begun(q) /\ q = Len(inbox) + 1 /\ verified
    BY <1>1, <1>4 DEF Receive, TypeOK
  <2>2. q \in DOMAIN inbox' /\ \E kept \in BOOLEAN : inbox'[q] = Stored(e, verified, kept)
    BY <1>1, <1>4, <2>1, Received
  <2> QED BY <2>1, <2>2 DEF Stored, BeginsOwn
<1>5. CASE Arrive \/ ArriveUnverified
  <2>1. \E e : \E verified \in BOOLEAN : Receive(e, verified)
    BY <1>5 DEF Arrive, ArriveUnverified
  <2> QED BY <1>4, <2>1
<1>6. CASE ReplayNext \/ Crash
  BY <1>1, <1>2, <1>6 DEF ReplayNext, Crash, TypeOK, BeginsAgain
<1>7. CASE \/ UNCHANGED vars \/ Tick \/ Switch \/ ReplayFailed
           \/ \E u \in Uids : ZuperChange(u) \/ ZuperDelete(u) \/ ZuperUnrouted(u)
  BY <1>7 DEF vars, Tick, Switch, ReplayFailed, ZuperChange, ZuperDelete, ZuperUnrouted
<1> QED BY <1>3, <1>5, <1>6, <1>7 DEF Next, Acts

LEMMA BatchVerified ==
  ASSUME IInv, [Next]_vars, Genuine
  PROVE  \A d \in batch' : d \in DOMAIN inbox /\ inbox[d].verified
<1>1. TypeOK /\ batch \subseteq DOMAIN inbox
  BY DEF IInv, TypeOK
<1>2. CASE batch' \subseteq batch
  BY <1>1, <1>2 DEF Genuine
<1>3. CASE Tick
  BY <1>3 DEF Tick, Pending
<1>4. CASE \E r \in Runs : Acts(r)
  BY <1>2, <1>4 DEF Acts, Step, Acquire, PassFails, Begin, Fetch, FetchGone, Write, SetMap, Enrich,
                    Mark, CheckHeld, Finish
<1>5. CASE Arrive \/ ArriveUnverified
  BY <1>2, <1>5 DEF Arrive, ArriveUnverified, Receive
<1>6. CASE \/ UNCHANGED vars \/ Switch \/ ReplayFailed \/ ReplayNext \/ Crash
           \/ \E u \in Uids : ZuperChange(u) \/ ZuperDelete(u) \/ ZuperUnrouted(u)
  BY <1>2, <1>6 DEF vars, Switch, ReplayFailed, ReplayNext, Crash, ZuperChange, ZuperDelete, ZuperUnrouted
<1> QED BY <1>3, <1>4, <1>5, <1>6 DEF Next, Acts

LEMMA GenuineKeeps ==
  ASSUME IInv, [Next]_vars, Genuine
  PROVE  Genuine'
<1>1. TypeOK
  BY DEF IInv
<1>2. ASSUME NEW d \in DOMAIN inbox' PROVE Announced(inbox[d])' 
  <2>1. CASE d \in DOMAIN inbox
    BY <2>1, ZuperGrows, InboxGrows DEF Genuine, Announced, SameEvent
  <2>2. CASE d \notin DOMAIN inbox
    BY <1>2, <2>2, ZuperGrows, InboxGrows DEF Announced
  <2> QED BY <2>1, <2>2
<1>3. ASSUME NEW q \in Runs, runs'[q].pc # "idle"
      PROVE  inbox'[runs'[q].d].verified /\ (q # 0 => runs'[q].d = q)
  <2>1. ASSUME NEW d PROVE Begun(d).d = d
    BY DEF Begun, Idle
  <2>2. ASSUME runs[q].pc # "idle", runs'[q].d = runs[q].d
        PROVE  inbox'[runs'[q].d].verified /\ (q # 0 => runs'[q].d = q)
    <3>1. runs[q].d \in DOMAIN inbox
      BY <1>1, <2>2, Shapes
    <3> QED BY <2>2, <3>1, InboxGrows DEF Genuine, SameEvent
  <2>3. CASE runs'[q] = runs[q]
    BY <1>3, <2>2, <2>3
  <2>4. CASE Acts(q)
    BY <1>1, <1>3, <2>2, <2>4, StaysAbout
  <2>5. CASE BeginsOwn(q)
    BY <2>1, <2>5 DEF BeginsOwn
  <2>6. CASE BeginsAgain(q)
    BY <2>1, <2>6 DEF BeginsAgain, Genuine
  <2> QED BY <1>3, <2>3, <2>4, <2>5, <2>6, WhoBegins
<1>4. ASSUME NEW d \in batch' PROVE inbox'[d].verified
  BY BatchVerified, InboxGrows DEF SameEvent
<1> QED BY <1>2, <1>3, <1>4 DEF Genuine

LEMMA InitGenuine == Init => Genuine
BY DEF Init, Genuine, Idle

(* A run that marks is about a deletion Zuper has sent. *)
LEMMA MarksWhatWent ==
  ASSUME IInv, Genuine, NEW r \in Runs, KindOf(r) = "delete", runs[r].pc # "idle"
  PROVE  \E e \in sent : e.uid = UidOf(r) /\ e.kind = "delete"
<1>1. runs[r].d \in DOMAIN inbox
  BY Shapes DEF IInv
<1> QED BY <1>1 DEF Genuine, Announced, UidOf, KindOf

Flagged == \A u \in Uids : \A i \in DOMAIN rows[u] :
             rows[u][i].deleted => \E e \in sent : e.uid = u /\ e.kind = "delete"

LEMMA FlaggedKeeps ==
  ASSUME IInv, [Next]_vars, Genuine, Flagged
  PROVE  Flagged'
<1> SUFFICES ASSUME NEW u \in Uids, NEW i \in DOMAIN rows'[u], rows'[u][i].deleted
             PROVE  \E e \in sent' : e.uid = u /\ e.kind = "delete"
  BY DEF Flagged
<1>1. CASE Unflagged(u)
  BY <1>1, ZuperGrows DEF Unflagged, Flagged
<1>2. ASSUME NEW r \in Runs, Mark(r), UidOf(r) = u PROVE \E e \in sent' : e.uid = u /\ e.kind = "delete"
  <2>1. runs[r].pc = "mark" /\ KindOf(r) = "delete"
    BY <1>2 DEF Mark, IInv, Kind, Inside
  <2> QED BY <1>2, <2>1, MarksWhatWent, ZuperGrows
<1> QED BY <1>1, <1>2, WhoFlags

(* A row is flagged only for a record Zuper has deleted, and said so. *)
THEOREM FlaggedByZuper == Spec => []DeletedByZuper
<1>1. Init => Flagged
  BY DEF Init, Flagged
<1>2. IInv /\ Flagged => DeletedByZuper
  <2> SUFFICES ASSUME IInv, Flagged, NEW u \in Uids, Mapped(u), Held(u).deleted
               PROVE  \E e \in sent : e.uid = u /\ e.kind = "delete"
    BY DEF DeletedByZuper
  <2>1. map[u] \in DOMAIN rows[u]
    BY Shapes DEF IInv, Mapped
  <2> QED BY <2>1 DEF Flagged, Held
<1>3. IInv /\ [Next]_vars /\ Genuine /\ Flagged => Genuine' /\ Flagged'
  BY GenuineKeeps, FlaggedKeeps
<1> QED BY Inductive, InitGenuine, <1>1, <1>2, <1>3, PTL DEF Spec

(* One row: one that is not mapped yet is about to be, by the run that wrote it. *)
Single(u) == /\ Len(rows[u]) <= 1
             /\ map[u] = 0 /\ rows[u] # <<>> => \E r \in Runs : runs[r].pc = "map" /\ UidOf(r) = u

LEMMA MapperStays ==
  ASSUME "crash" \notin Disturbances, IInv, [Next]_vars, Genuine, NEW r \in Runs, runs[r].pc = "map"
  PROVE  (runs'[r] = runs[r] /\ UidOf(r)' = UidOf(r)) \/ SetMap(r)
<1>1. TypeOK /\ runs[r].d \in DOMAIN inbox
  BY Shapes DEF IInv
<1>2. CASE runs'[r] = runs[r]
  BY <1>1, <1>2, InboxGrows DEF UidOf, SameEvent
<1>3. CASE Acts(r)
  BY <1>3 DEF Acts, Step, Acquire, PassFails, Begin, Fetch, FetchGone, Write, Enrich, Mark,
              CheckHeld, Finish
<1>4. ~BeginsOwn(r)
  <2>1. r \in Nat /\ Len(inbox) \in Nat /\ runs[r].d <= Len(inbox)
    BY <1>1, Shapes DEF Runs
  <2>2. ASSUME r = Len(inbox) + 1 PROVE FALSE
    BY <2>1, <2>2 DEF Genuine
  <2> QED BY <2>2 DEF BeginsOwn
<1>5. ~BeginsAgain(r) /\ ~Crash
  BY DEF BeginsAgain, Crash, Disturb
<1> QED BY <1>2, <1>3, <1>4, <1>5, WhoBegins

LEMMA WhoWrites ==
  ASSUME IInv, [Next]_vars
  PROVE  UNCHANGED rows \/ \E r \in Runs : Write(r) \/ Enrich(r) \/ Mark(r)
<1>1. ASSUME NEW r \in Runs, Acts(r)
      PROVE  UNCHANGED rows \/ Write(r) \/ Enrich(r) \/ Mark(r)
  BY <1>1 DEF Acts, Step, Acquire, PassFails, Begin, Fetch, FetchGone, Write, SetMap, Enrich,
              Mark, CheckHeld, Finish
<1>2. CASE Arrive \/ ArriveUnverified
  BY <1>2 DEF Arrive, ArriveUnverified, Receive
<1>3. CASE \/ UNCHANGED vars \/ Tick \/ Switch \/ ReplayFailed \/ ReplayNext \/ Crash
           \/ \E w \in Uids : ZuperChange(w) \/ ZuperDelete(w) \/ ZuperUnrouted(w)
  BY <1>3 DEF vars, Tick, Switch, ReplayFailed, ReplayNext, Crash,
              ZuperChange, ZuperDelete, ZuperUnrouted
<1> QED BY <1>1, <1>2, <1>3 DEF Next, Acts

LEMMA SameLength ==
  ASSUME IInv, [Next]_vars, NEW u \in Uids
  PROVE  Len(rows'[u]) = Len(rows[u]) \/ \E r \in Runs : Write(r) /\ UidOf(r) = u /\ ~Mapped(u)
<1>1. TypeOK /\ rows \in [Uids -> Seq(Row)] /\ rows[u] \in Seq(Row)
  BY DEF IInv, TypeOK
<1>2. CASE UNCHANGED rows
  BY <1>2
<1>3. ASSUME NEW r \in Runs, Write(r) PROVE Len(rows'[u]) = Len(rows[u]) \/ (UidOf(r) = u /\ ~Mapped(u))
  BY <1>1, <1>3, Shapes DEF Write, Mapped
<1>4. ASSUME NEW r \in Runs, Enrich(r) \/ Mark(r) PROVE Len(rows'[u]) = Len(rows[u])
  BY <1>1, <1>4, Shapes DEF Enrich, Mark, Mapped
<1> QED BY <1>2, <1>3, <1>4, WhoWrites

LEMMA SingleKeeps ==
  ASSUME "setMap" \notin Disturbances, "crash" \notin Disturbances, IInv, [Next]_vars, Genuine,
         NEW u \in Uids, Single(u)
  PROVE  Single(u)'
<1>1. TypeOK /\ Turn /\ rows[u] \in Seq(Row) /\ rows'[u] \in Seq(Row) /\ rows \in [Uids -> Seq(Row)]
  BY StepKeeps DEF IInv, TypeOK
<1>2. ASSUME NEW r \in Runs, Write(r), UidOf(r) = u, ~Mapped(u) PROVE Single(u)'
  <2>1. runs[r].pc = "write" /\ runs[r] \in Run /\ runs[r].read \in Nat /\ runs[r].d \in DOMAIN inbox
    BY <1>1, <1>2, Shapes DEF Write
  <2>2. rows[u] = <<>>
    <3>1. ASSUME NEW q \in Runs, runs[q].pc = "map", UidOf(q) = u PROVE FALSE
      BY <1>1, <1>2, <2>1, <3>1, Alone DEF Inside
    <3> QED BY <1>2, <3>1 DEF Single, Mapped
  <2> DEFINE y == [main |-> runs[r].read, detail |-> 0, deleted |-> FALSE]
  <2>3. y \in Row
    BY <2>1 DEF Row
  <2>4. rows'[u] = Append(rows[u], y)
    BY <1>1, <1>2 DEF Write
  <2> HIDE DEF y
  <2>5. Len(rows'[u]) = 1
    BY <2>2, <2>3, <2>4
  <2>6. runs'[r].pc = "map" /\ UidOf(r)' = u
    BY <1>1, <1>2, <2>1 DEF Write, TypeOK, Run, UidOf
  <2> QED BY <2>5, <2>6 DEF Single
<1>3. CASE Len(rows'[u]) = Len(rows[u])
  <2>1. SUFFICES ASSUME map'[u] = 0, rows'[u] # <<>>
                 PROVE  \E r \in Runs : runs'[r].pc = "map" /\ UidOf(r)' = u
    BY <1>3 DEF Single
  <2>2. map[u] = 0 /\ rows[u] # <<>>
    <3>1. map[u] = 0
      BY <2>1, RowsGrow
    <3>2. Len(rows[u]) # 0
      BY <1>1, <1>3, <2>1
    <3> QED BY <3>1, <3>2
  <2>3. PICK q \in Runs : runs[q].pc = "map" /\ UidOf(q) = u
    BY <2>2 DEF Single
  <2>4. ~SetMap(q)
    <3>1. runs[q].row \in DOMAIN rows[u] /\ runs[q].row # 0
      BY <1>1, <2>3, Shapes DEF IInv, Mapping
    <3>2. SetMap(q) => map'[u] = runs[q].row
      BY <1>1, <2>3 DEF SetMap, Disturb, TypeOK
    <3> QED BY <2>1, <3>1, <3>2
  <2> QED BY <2>3, <2>4, MapperStays
<1> QED BY <1>2, <1>3, SameLength

(* A record has one row: overlapping deliveries about a new one do not insert it twice, unless the *)
(* process dies, or the mapping upsert fails, between the row and its mapping.                     *)
THEOREM OnlyOneRow ==
  ASSUME "setMap" \notin Disturbances, "crash" \notin Disturbances
  PROVE  Spec => []OneRow
<1> DEFINE J == Genuine /\ \A u \in Uids : Single(u)
<1>1. Init => J
  BY InitGenuine DEF Init, Single
<1>2. IInv /\ J /\ [Next]_vars => J'
  BY GenuineKeeps, SingleKeeps
<1>3. J => OneRow
  BY DEF Single, OneRow
<1> HIDE DEF J
<1> QED BY Inductive, <1>1, <1>2, <1>3, PTL DEF Spec

(* A deletion dealt with: Zuper has the record no more, nobody is about to write it, and its row, *)
(* if it has one, is flagged.                                                                     *)
Dead(u) == u \notin Recoverable /\ ~zuper[u].live /\ zuper[u].ver > 0
Laid(u) == /\ Dead(u)
           /\ \A q \in Runs : runs[q].pc \in {"write", "map"} => UidOf(q) # u
           /\ Mapped(u) => Held(u).deleted
SentDead == \A e \in sent : e.kind = "delete" /\ e.uid \notin Recoverable => Dead(e.uid)

LEMMA DeadStays ==
  ASSUME IInv, [Next]_vars, NEW u \in Uids, Dead(u)
  PROVE  Dead(u)'
<1>1. TypeOK /\ zuper[u].ver \in Nat /\ zuper \in [Uids -> [ver : Nat, live : BOOLEAN]]
  BY Shapes DEF IInv, TypeOK
<1>2. ASSUME NEW w \in Uids, ZuperChange(w) \/ ZuperDelete(w) PROVE zuper'[u] = zuper[u]
  <2>1. w # u
    BY <1>1, <1>2 DEF Dead, ZuperChange, ZuperDelete
  <2> QED BY <1>1, <1>2, <2>1 DEF ZuperChange, ZuperDelete
<1>3. zuper'[u] = zuper[u]
  BY <1>2, ZuperGrows
<1> QED BY <1>3 DEF Dead

LEMMA SentDeadKeeps ==
  ASSUME IInv, [Next]_vars, SentDead
  PROVE  SentDead'
<1>1. TypeOK /\ sent \subseteq Event /\ zuper \in [Uids -> [ver : Nat, live : BOOLEAN]]
  BY DEF IInv, TypeOK
<1>2. ASSUME NEW e \in sent, e.kind = "delete", e.uid \notin Recoverable PROVE Dead(e.uid)'
  <2>1. PICK u \in Uids : u = e.uid
    BY <1>1 DEF Event
  <2>2. Dead(u)
    BY <1>2, <2>1 DEF SentDead
  <2>3. Dead(u)'
    BY <2>2, DeadStays
  <2> QED BY <2>1, <2>3 DEF Dead
<1>3. ASSUME NEW e \in sent' \ sent, e.kind = "delete"
      PROVE  \E u \in Uids : ZuperDelete(u) /\ e.uid = u
  <2>1. CASE \E u \in Uids : ZuperChange(u) \/ ZuperUnrouted(u)
    BY <1>3, <2>1 DEF ZuperChange, ZuperUnrouted
  <2>2. CASE \E u \in Uids : ZuperDelete(u)
    <3>1. PICK u \in Uids : ZuperDelete(u)
      BY <2>2
    <3>2. e = [uid |-> u, kind |-> "delete", ver |-> zuper[u].ver + 1]
      BY <1>3, <3>1 DEF ZuperDelete
    <3>3. e.uid = u
      BY <3>2
    <3> QED BY <3>1, <3>3
  <2>3. CASE \E r \in Runs : Acts(r)
    BY <1>3, <2>3 DEF Acts, Step, Acquire, PassFails, Begin, Fetch, FetchGone, Write, SetMap, Enrich,
                      Mark, CheckHeld, Finish
  <2>4. CASE Arrive \/ ArriveUnverified
    BY <1>3, <2>4 DEF Arrive, ArriveUnverified, Receive
  <2>5. CASE UNCHANGED vars \/ Tick \/ Switch \/ ReplayFailed \/ ReplayNext \/ Crash
    BY <1>3, <2>5 DEF vars, Tick, Switch, ReplayFailed, ReplayNext, Crash
  <2> QED BY <2>1, <2>2, <2>3, <2>4, <2>5 DEF Next, Acts
<1>4. ASSUME NEW u \in Uids, ZuperDelete(u), u \notin Recoverable PROVE Dead(u)'
  <2>1. zuper[u].ver \in Nat /\ zuper'[u] = [ver |-> zuper[u].ver + 1, live |-> FALSE]
    BY <1>1, <1>4 DEF ZuperDelete
  <2> QED BY <1>4, <2>1 DEF Dead
<1>5. ASSUME NEW e \in sent', e.kind = "delete", e.uid \notin Recoverable PROVE Dead(e.uid)'
  <2>1. CASE e \in sent
    BY <1>2, <1>5, <2>1
  <2>2. CASE e \notin sent
    <3>1. PICK u \in Uids : ZuperDelete(u) /\ e.uid = u
      BY <1>3, <1>5, <2>2
    <3>2. Dead(u)'
      BY <1>4, <1>5, <3>1
    <3> QED BY <3>1, <3>2 DEF Dead
  <2> QED BY <2>1, <2>2
<1> QED BY <1>5 DEF SentDead, Dead

LEMMA LaidStays ==
  ASSUME "readMap" \notin Disturbances, IInv, [Next]_vars, NEW u \in Uids, Laid(u)
  PROVE  Laid(u)'
<1>1. TypeOK /\ rows \in [Uids -> Seq(Row)]
  BY DEF IInv, TypeOK
<1>2. Dead(u)' /\ ~zuper[u].live
  BY DeadStays DEF Laid, Dead
<1>3. ASSUME NEW q \in Runs, runs'[q].pc \in {"write", "map"}, UidOf(q)' = u PROVE FALSE
  <2>1. ASSUME runs[q].pc # "idle", runs'[q].d = runs[q].d PROVE UidOf(q) = u
    <3>1. runs[q].d \in DOMAIN inbox
      BY <1>1, <2>1, Shapes
    <3> QED BY <1>3, <2>1, <3>1, InboxGrows DEF UidOf, SameEvent
  <2>2. CASE runs'[q] = runs[q]
    BY <1>3, <2>1, <2>2 DEF Laid
  <2>3. CASE Acts(q)
    <3>1. UidOf(q) = u
      BY <1>1, <1>3, <2>1, <2>3, StaysAbout
    <3>2. Fetch(q) \/ Write(q)
      BY <1>1, <1>3, <2>3, SMTT(30) DEF Acts, Step, Acquire, PassFails, Begin, FetchGone, SetMap, Enrich, Mark,
                              CheckHeld, Finish, Moved, Ended, Idle, TypeOK, Run
    <3> QED BY <1>2, <3>1, <3>2 DEF Fetch, Write, Laid
  <2> QED BY <1>3, <2>2, <2>3, WhoActs
<1>4. map'[u] = map[u]
  <2>1. ASSUME NEW r \in Runs, SetMap(r) PROVE map'[u] = map[u]
    <3>1. UidOf(r) # u
      BY <2>1 DEF SetMap, Laid
    <3> QED BY <1>1, <2>1, <3>1 DEF SetMap, TypeOK
  <2>2. ASSUME NEW r \in Runs, Acts(r) PROVE UNCHANGED map \/ SetMap(r)
    BY <2>2 DEF Acts, Step, Acquire, PassFails, Begin, Fetch, FetchGone, Write, Enrich, Mark,
                CheckHeld, Finish
  <2>3. CASE Arrive \/ ArriveUnverified
    BY <2>3 DEF Arrive, ArriveUnverified, Receive
  <2>4. CASE \/ UNCHANGED vars \/ Tick \/ Switch \/ ReplayFailed \/ ReplayNext \/ Crash
             \/ \E w \in Uids : ZuperChange(w) \/ ZuperDelete(w) \/ ZuperUnrouted(w)
    BY <2>4 DEF vars, Tick, Switch, ReplayFailed, ReplayNext, Crash,
                ZuperChange, ZuperDelete, ZuperUnrouted
  <2> QED BY <2>1, <2>2, <2>3, <2>4 DEF Next, Acts
<1>5. ASSUME Mapped(u) PROVE rows'[u][map[u]].deleted
  <2>1. Held(u).deleted
    BY <1>5 DEF Laid
  <2>2. ASSUME NEW r \in Runs, Write(r) PROVE rows'[u] = rows[u]
    <3>1. UidOf(r) # u
      BY <2>2 DEF Write, Laid
    <3> QED BY <2>2, <3>1, WriteUnflags
  <2>3. ASSUME NEW r \in Runs, Enrich(r) PROVE rows'[u] = rows[u]
    <3>1. UidOf(r) # u
      BY <1>2, <2>3 DEF Enrich
    <3> QED BY <2>3, <3>1, EnrichUnflags
  <2>4. ASSUME NEW r \in Runs, Mark(r), UidOf(r) # u PROVE rows'[u] = rows[u]
    BY <1>1, <2>4 DEF Mark, TypeOK
  <2>5. ASSUME NEW r \in Runs, Mark(r), UidOf(r) = u PROVE rows'[u][map[u]].deleted
    BY <1>5, <2>5, MarkRows
  <2> QED BY <2>1, <2>2, <2>3, <2>4, <2>5, WhoWrites DEF Held
<1> QED BY <1>2, <1>3, <1>4, <1>5 DEF Laid, Mapped, Held

(* A run over a deletion has laid its record to rest, or failed. *)
Buried(r) == /\ KindOf(r) = "delete" /\ runs[r].pc = "finish" /\ runs[r].outcome # "failed"
             /\ UidOf(r) \notin Recoverable
             => Laid(UidOf(r))
ClosedLaid == \A d \in DOMAIN inbox :
                /\ inbox[d].kind = "delete" /\ inbox[d].verified /\ inbox[d].closed
                /\ inbox[d].uid \notin Recoverable
                => Laid(inbox[d].uid)

LEMMA MarkLays ==
  ASSUME "readMap" \notin Disturbances, IInv, [Next]_vars, Genuine, SentDead,
         NEW r \in Runs, Mark(r), NEW u \in Uids, u = UidOf(r), u \notin Recoverable
  PROVE  Laid(u)'
<1>1. TypeOK /\ Turn /\ runs[r].pc = "mark" /\ KindOf(r) = "delete"
  BY DEF IInv, Kind, Mark, Inside
<1>2. Dead(u)'
  <2>1. PICK e \in sent : e.uid = u /\ e.kind = "delete"
    BY <1>1, MarksWhatWent
  <2>2. Dead(u)
    BY <2>1 DEF SentDead
  <2> QED BY <2>2, DeadStays
<1>3. ASSUME NEW q \in Runs, runs'[q].pc \in {"write", "map"}, UidOf(q)' = u PROVE FALSE
  <2>1. q # r /\ runs'[q] = runs[q] /\ inbox' = inbox
    BY <1>1, <1>3 DEF Mark, Ended, TypeOK, Run
  <2>2. UidOf(q) = u
    BY <1>3, <2>1 DEF UidOf
  <2> QED BY <1>1, <1>3, <2>1, <2>2, Alone DEF Inside
<1>4. Mapped(u)' => Held(u)'.deleted
  <2>1. map' = map
    BY DEF Mark
  <2> QED BY <2>1, MarkRows DEF Mapped, Held
<1> QED BY <1>2, <1>3, <1>4 DEF Laid

LEMMA BuriedKeeps ==
  ASSUME "readMap" \notin Disturbances, IInv, [Next]_vars, Genuine, SentDead,
         NEW q \in Runs, Buried(q)
  PROVE  Buried(q)'
<1>1. TypeOK /\ runs[q] \in Run
  BY DEF IInv, TypeOK
<1>2. SUFFICES ASSUME KindOf(q)' = "delete", runs'[q].pc = "finish", runs'[q].outcome # "failed",
                      UidOf(q)' \notin Recoverable
               PROVE  Laid(UidOf(q))'
  BY DEF Buried
<1>3. runs[q].pc # "idle" /\ runs'[q].d = runs[q].d
  BY <1>1, <1>2, WhoActs, StaysAbout
<1>4. PICK u \in Uids : u = UidOf(q)
  BY <1>1, <1>3, Shapes
<1>5. UidOf(q)' = u /\ KindOf(q) = "delete"
  <2>1. runs[q].d \in DOMAIN inbox
    BY <1>1, <1>3, Shapes
  <2> QED BY <1>2, <1>3, <1>4, <2>1, InboxGrows DEF UidOf, KindOf, SameEvent
<1>6. SUFFICES Laid(u)'
  BY <1>5 DEF Laid, Dead, Mapped, Held
<1>7. CASE runs'[q] = runs[q]
  BY <1>2, <1>4, <1>5, <1>7, LaidStays DEF Buried
<1>8. CASE Acts(q)
  <2>1. Mark(q)
    <3>1. runs[q].pc \in Inside \cup {"gone"} => runs[q].pc = "mark"
      BY <1>5 DEF IInv, Kind
    <3>2. CASE Begin(q) \/ Acquire(q) \/ PassFails(q) \/ CheckHeld(q) \/ Finish(q)
      BY <1>1, <1>2, <1>5, <3>1, <3>2 DEF Begin, Acquire, PassFails, CheckHeld, Finish, Moved, Ended,
                                    Idle, TypeOK, Run, KindOf
    <3>3. CASE Fetch(q) \/ FetchGone(q) \/ Write(q) \/ SetMap(q) \/ Enrich(q)
      BY <3>1, <3>3 DEF Fetch, FetchGone, Write, SetMap, Enrich, Inside
    <3> QED BY <1>8, <3>2, <3>3 DEF Acts, Step
  <2> QED BY <1>2, <1>4, <1>5, <2>1, MarkLays
<1> QED BY <1>2, <1>7, <1>8, WhoActs

LEMMA ClosedLaidKeeps ==
  ASSUME "readMap" \notin Disturbances, IInv, [Next]_vars, \A r \in Runs : Buried(r), ClosedLaid
  PROVE  ClosedLaid'
<1>1. TypeOK
  BY DEF IInv
<1>2. ASSUME NEW d \in DOMAIN inbox', inbox'[d].kind = "delete", inbox'[d].verified,
             inbox'[d].closed, inbox'[d].uid \notin Recoverable
      PROVE  Laid(inbox[d].uid)'
  <2>1. /\ d \in DOMAIN inbox /\ inbox[d].kind = "delete" /\ inbox[d].verified
        /\ inbox'[d].uid = inbox[d].uid
    BY <1>2, InboxGrows DEF SameEvent
  <2>2. PICK u \in Uids : u = inbox[d].uid
    BY <1>1, <2>1, Shapes
  <2>3. Laid(u)
    <3>1. CASE inbox[d].closed
      BY <1>2, <2>1, <2>2, <3>1 DEF ClosedLaid
    <3>2. ASSUME ~inbox[d].closed PROVE Laid(u)
      <4>1. PICK r \in Runs : Finish(r) /\ runs[r].d = d
        BY <1>2, <2>1, <3>2, InboxGrows DEF SameState
      <4>2. inbox[d] \in Delivery
        BY <1>1, <2>1, Shapes
      <4> DEFINE y == [inbox[d] EXCEPT !.closed = @ \/ runs[r].outcome # "failed",
                                       !.error = runs[r].outcome, !.attempts = runs[r].attempt]
      <4>3. inbox' = [inbox EXCEPT ![d] = y]
        BY <1>2, <3>2, <4>1, <4>2 DEF Finish, Delivery
      <4>4. y.closed <=> inbox[d].closed \/ runs[r].outcome # "failed"
        BY <4>2 DEF Delivery
      <4> HIDE DEF y
      <4>5. runs[r].outcome # "failed" /\ runs[r].pc = "finish"
        BY <1>1, <1>2, <2>1, <3>2, <4>1, <4>3, <4>4 DEF TypeOK, Finish
      <4>6. UidOf(r) = u /\ KindOf(r) = "delete"
        BY <2>1, <2>2, <4>1 DEF UidOf, KindOf
      <4> QED BY <1>2, <2>1, <2>2, <4>5, <4>6 DEF Buried
    <3> QED BY <3>1, <3>2
  <2>4. Laid(u)'
    BY <2>3, LaidStays
  <2> QED BY <2>1, <2>2, <2>4 DEF Laid, Dead, Mapped, Held
<1> QED BY <1>2 DEF ClosedLaid, Laid, Dead, Mapped, Held

(* Once a deletion is dealt with, no late, repeated or overlapping delivery brings the row back, *)
(* for a record Zuper cannot recover, as long as no read of the map fails unnoticed.             *)
THEOREM DeletedStays ==
  ASSUME "readMap" \notin Disturbances
  PROVE  Spec => []DeletedStaysDeleted
<1> DEFINE J == Genuine /\ SentDead /\ (\A r \in Runs : Buried(r)) /\ ClosedLaid
<1>1. Init => J
  BY InitGenuine DEF Init, SentDead, Buried, ClosedLaid, Idle
<1>2. IInv /\ J /\ [Next]_vars => J'
  BY GenuineKeeps, SentDeadKeeps, BuriedKeeps, ClosedLaidKeeps
<1>3. J => DeletedStaysDeleted
  BY DEF ClosedLaid, Laid, DeletedStaysDeleted
<1> HIDE DEF J
<1> QED BY Inductive, <1>1, <1>2, <1>3, PTL DEF Spec
===============================================================================
