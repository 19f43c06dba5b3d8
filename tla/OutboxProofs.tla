----------------------------- MODULE OutboxProofs -----------------------------
(* Theorems about the outbox and the pusher, for any containers, records, values and attempts, *)
(* and any disturbances but the ones a theorem names.                                          *)
EXTENDS Outbox, FiniteSetTheorems, SequenceTheorems, WellFoundedInduction, TLAPS

(* What is not empty has a least member; what is bounded too has a greatest. *)
LEMMA Least ==
  ASSUME NEW S \in SUBSET Nat, S # {}
  PROVE  \E x \in S : \A y \in S : x <= y
<1>1. PICK x \in S : \A y \in S : ~ (<<y, x>> \in OpToRel(<, Nat))
  BY NatLessThanWellFounded, WFMin
<1>2. ASSUME NEW y \in S PROVE x <= y
  <2>1. y < x => <<y, x>> \in OpToRel(<, Nat)
    BY DEF OpToRel
  <2>2. ~ (y < x)
    BY <1>1, <2>1
  <2> QED BY <2>2
<1> QED BY <1>2

LEMMA MinIsOne ==
  ASSUME NEW S \in SUBSET Nat, S # {}
  PROVE  Min(S) \in S
BY Least DEF Min

LEMMA MaxIsOne ==
  ASSUME NEW S \in SUBSET Nat, S # {}, NEW b \in Nat, \A x \in S : x <= b
  PROVE  Max(S) \in S
<1> DEFINE U == {u \in Nat : \A x \in S : x <= u}
<1>1. PICK u \in U : \A v \in U : u <= v
  <2>1. U \subseteq Nat /\ U # {}
    OBVIOUS
  <2> HIDE DEF U
  <2> QED BY <2>1, Least
<1>2. u \in S
  <2> SUFFICES ASSUME u \notin S PROVE FALSE
    OBVIOUS
  <2>1. \A x \in S : x < u
    BY <1>1
  <2>2. PICK x \in S : x < u
    BY <2>1
  <2>3. u - 1 \in Nat
    BY <1>1, <2>2
  <2>4. \A y \in S : y <= u - 1
    BY <1>1, <2>1
  <2>5. u - 1 \in U
    BY <2>3, <2>4
  <2> QED BY <1>1, <2>3, <2>5
<1>3. \A x \in S : u >= x
  BY <1>1
<1> QED BY <1>2, <1>3 DEF Max

LEMMA Bounded ==
  ASSUME NEW s, NEW n \in Nat, \A i \in 1 .. n : s[i] \in Nat
  PROVE  \E b \in Nat : \A i \in 1 .. n : s[i] <= b
<1> DEFINE High(m) == \E b \in Nat : \A i \in 1 .. m : s[i] <= b
           N == {m \in 0 .. n : ~High(m)}
<1>1. SUFFICES ASSUME ~High(n) PROVE FALSE
  OBVIOUS
<1>2. n \in N
  BY <1>1
<1>3. PICK m \in N : \A k \in N : m <= k
  <2>1. N \subseteq Nat /\ N # {}
    BY <1>2
  <2> HIDE DEF N
  <2> QED BY <2>1, Least
<1>4. m # 0
  <2>1. High(0)
    <3>1. \A i \in 1 .. 0 : s[i] <= 0
      OBVIOUS
    <3> QED BY <3>1
  <2> QED BY <2>1
<1>5. High(m - 1)
  <2>1. m - 1 \in 0 .. n /\ ~(m <= m - 1)
    BY <1>4
  <2>2. m - 1 \notin N
    BY <1>3, <2>1
  <2> QED BY <2>1, <2>2
<1>6. PICK b \in Nat : \A i \in 1 .. m - 1 : s[i] <= b
  BY <1>5
<1>7. m \in 1 .. n /\ s[m] \in Nat
  BY <1>4
<1>8. \A i \in 1 .. m : s[i] <= b + s[m]
  <2> TAKE i \in 1 .. m
  <2>1. CASE i = m
    BY <1>7, <2>1
  <2>2. CASE i # m
    <3>1. i \in 1 .. m - 1 /\ s[i] \in Nat
      BY <1>7, <2>2
    <3> QED BY <1>6, <1>7, <3>1
  <2> QED BY <2>1, <2>2
<1>9. High(m)
  <2>1. b + s[m] \in Nat
    BY <1>7
  <2> QED BY <1>8, <2>1
<1> QED BY <1>9

(* What a run has in hand at each point, and that a record once linked stays so. *)
Fit(r) ==
  /\ runs[r].pc \in Claimed \cup {"claim"} => runs[r].ids # {}
  /\ runs[r].pc = "mark" => runs[r].out # "none"
  /\ runs[r].pc = "link" => runs[r].link \in 1 .. Len(zuper[RecOf(r)])
  /\ runs[r].pc # "idle" /\ r[2] # Tick => linked[r[2]] # 0
Typed ==
  /\ TypeOK
  /\ wait \in Seq(Int)
  /\ \A k \in Records : \A n \in DOMAIN zuper[k] : zuper[k][n] # <<>>
  /\ \A s \in Syncs : /\ sync[s].pc # "idle" => linked[s[2]] # 0
                      /\ sync[s].pc = "flush" => "live" \in Modes
  /\ \A r \in Runs : Fit(r)

LEMMA IdleTyped == Idle \in Run /\ Idle.pc = "idle" /\ Idle.ids = {} /\ Idle.age = 0 /\ Idle.todo = {}
<1>1. Idle.mode \in Modes
  BY OutboxAssumption DEF Idle
<1> QED BY <1>1 DEF Idle, Run

LEMMA InitTyped == ASSUME Init PROVE Typed
<1>1. runs \in [Runs -> Run] /\ \A r \in Runs : runs[r].pc = "idle" /\ runs[r].ids = {} /\ runs[r].todo = {}
  BY IdleTyped DEF Init
<1>2. wait \in Seq(Int) /\ outbox \in Seq(Row) /\ wait \in [DOMAIN outbox -> Int]
  BY DEF Init
<1>3. zuper \in [Records -> Seq(Seq(Nat))]
      /\ \A k \in Records : zuper[k] = IF k \in Known THEN << <<1>> >> ELSE <<>>
  BY DEF Init
<1>4. \A k \in Records : \A n \in DOMAIN zuper[k] : zuper[k][n] # <<>>
  BY <1>3
<1>5. linked \in [Records -> Nat] /\ \A k \in Records : linked[k] \in 0 .. Len(zuper[k])
  BY <1>3 DEF Init
<1>6. sync \in [Syncs -> [pc : {"idle", "flush", "read", "write"}, read : Nat]]
      /\ \A s \in Syncs : sync[s].pc = "idle"
  BY DEF Init, Asleep
<1>7. /\ row \in [Records -> Nat] /\ newest \in [Records -> Nat] /\ twins \in [Records -> SUBSET Nat]
      /\ mode \in Modes /\ disturbed \in Nat
  BY DEF Init
<1>8. TypeOK
  BY <1>1, <1>2, <1>3, <1>5, <1>6, <1>7 DEF TypeOK
<1>9. \A r \in Runs : Fit(r)
  BY <1>1 DEF Fit, Claimed
<1> QED BY <1>2, <1>4, <1>6, <1>8, <1>9 DEF Typed

(* The record a run is about. *)
LEMMA Recs ==
  ASSUME Typed, NEW r \in Runs, runs[r].ids # {}
  PROVE  /\ (CHOOSE i \in runs[r].ids : TRUE) \in DOMAIN outbox
         /\ RecOf(r) \in Records
<1>1. (CHOOSE i \in runs[r].ids : TRUE) \in runs[r].ids
  OBVIOUS
<1>2. runs[r].ids \subseteq DOMAIN outbox /\ outbox \in Seq(Row)
  BY DEF Typed, TypeOK
<1>3. ASSUME NEW i \in DOMAIN outbox PROVE outbox[i].rec \in Records
  <2>1. outbox[i] \in Row
    BY <1>2
  <2> QED BY <2>1 DEF Row
<1> QED BY <1>1, <1>2, <1>3 DEF RecOf

(* No step takes a row away or gives it to another record, nor a record of Zuper's. *)
Grows == /\ \A i \in DOMAIN outbox : i \in DOMAIN outbox' /\ outbox'[i].rec = outbox[i].rec
         /\ \A k \in Records : Len(zuper[k]) <= Len(zuper'[k])
         /\ \A k \in Records : linked[k] # 0 => linked'[k] # 0

(* Who does not move, or does not move on, stays fit. *)
LEMMA FitStays ==
  ASSUME Typed, Grows, zuper' \in [Records -> Seq(Seq(Nat))],
         NEW r \in Runs, runs'[r] \in Run,
         runs'[r].pc = runs[r].pc, runs'[r].ids = runs[r].ids, runs'[r].out = runs[r].out,
         runs'[r].link = runs[r].link
  PROVE  Fit(r)'
<1>1. Fit(r)
  BY DEF Typed
<1>2. r[2] # Tick => r[2] \in Records
  BY DEF Runs
<1>3. ASSUME runs[r].pc = "link" PROVE runs[r].link \in 1 .. Len(zuper'[RecOf(r)']) 
  <2>1. runs[r].ids # {}
    BY <1>1, <1>3 DEF Fit, Claimed
  <2>2. RecOf(r)' = RecOf(r) /\ RecOf(r) \in Records
    BY <2>1, Recs DEF Grows, RecOf
  <2>3. Len(zuper[RecOf(r)]) \in Nat /\ Len(zuper'[RecOf(r)]) \in Nat
    BY <2>2 DEF Typed, TypeOK
  <2> QED BY <1>1, <1>3, <2>2, <2>3 DEF Fit, Grows
<1> QED BY <1>1, <1>2, <1>3 DEF Fit, Grows

(* A step of run r alone: the others are as they were. *)
LEMMA OneMoves ==
  ASSUME Typed, Grows, zuper' \in [Records -> Seq(Seq(Nat))],
         NEW r \in Runs, NEW x \in Run, runs' = [runs EXCEPT ![r] = x],
         x.todo \cup x.ids \subseteq DOMAIN outbox,
         Fit(r)'
  PROVE  /\ runs' \in [Runs -> Run]
         /\ \A q \in Runs : runs'[q].todo \cup runs'[q].ids \subseteq DOMAIN outbox'
         /\ \A q \in Runs : Fit(q)'
<1>1. runs \in [Runs -> Run] /\ \A q \in Runs : runs[q].todo \cup runs[q].ids \subseteq DOMAIN outbox
  BY DEF Typed, TypeOK
<1>2. runs' \in [Runs -> Run]
  BY <1>1
<1>3. DOMAIN outbox \subseteq DOMAIN outbox'
  BY DEF Grows
<1>4. ASSUME NEW q \in Runs PROVE runs'[q].todo \cup runs'[q].ids \subseteq DOMAIN outbox'
  BY <1>1, <1>3
<1>5. ASSUME NEW q \in Runs, q # r PROVE Fit(q)'
  BY <1>1, <1>2, <1>5, FitStays
<1> QED BY <1>2, <1>4, <1>5

(* The rows and the world as they were: nothing else to say of a step but who moved. *)
LEMMA StillGrows ==
  ASSUME Typed, UNCHANGED <<world, outbox>>
  PROVE  Grows /\ zuper' \in [Records -> Seq(Seq(Nat))]
BY DEF Typed, TypeOK, Grows, world

(* What is chosen to be worked on is among what is due. *)
LEMMA ChosenAmong ==
  ASSUME NEW due, NEW limit
  PROVE  Chosen(due, limit) \subseteq due
BY DEF Chosen, Oldest

LEMMA SelectTyped ==
  ASSUME Typed, NEW r \in Runs, Select(r)
  PROVE  Typed'
<1> DEFINE m == IF r[2] = Tick THEN mode ELSE "live"
           limit == IF r[2] = Tick THEN Batch ELSE 1
           due == {i \in DOMAIN outbox : /\ outbox[i].status \in Statuses(m)
                                         /\ Due(i) /\ outbox[i].attempts < MaxAttempts
                                         /\ r[2] # Tick => outbox[i].rec = r[2]}
           got == Chosen(due, limit)
           x == [Idle EXCEPT !.pc = "group", !.mode = m, !.todo = got,
                    !.queued = {i \in got : outbox[i].status = "queued"},
                    !.fresh = {i \in got : outbox[i].age = "new"},
                    !.stale = {i \in got : outbox[i].age = "old" /\ outbox[i].status # "failed"}]
<1>1. TypeOK /\ Grows /\ zuper' \in [Records -> Seq(Seq(Nat))]
  BY StillGrows DEF Select, Typed
<1>2. got \subseteq DOMAIN outbox /\ got \subseteq Nat
  BY <1>1, ChosenAmong DEF TypeOK
<1> HIDE DEF got
<1>3. ASSUME r[2] # Tick PROVE r \in Syncs /\ sync[r].pc = "flush" /\ linked[r[2]] # 0
  <2>1. r \in Syncs
    BY <1>3 DEF Runs, Syncs
  <2>2. sync[r].pc = "flush"
    BY <1>3 DEF Select
  <2> QED BY <2>1, <2>2 DEF Typed
<1>4. CASE got = {}
  <2>1. runs' = runs /\ sync' = [sync EXCEPT ![r].pc = "read"] /\ r[2] # Tick
    BY <1>4 DEF Select, got
  <2>2. /\ sync' \in [Syncs -> [pc : {"idle", "flush", "read", "write"}, read : Nat]]
        /\ \A s \in Syncs : sync'[s].pc \in {sync[s].pc, "read"} /\ (s # r => sync'[s] = sync[s])
    BY <1>1, <1>3, <2>1 DEF TypeOK
  <2>3. \A q \in Runs : Fit(q)'
    BY <1>1, <2>1, FitStays DEF TypeOK
  <2> QED BY <1>1, <1>3, <2>1, <2>2, <2>3 DEF Select, world, Typed, TypeOK
<1>5. CASE got # {}
  <2>1. runs' = [runs EXCEPT ![r] = x] /\ sync' = sync
    BY <1>5 DEF Select, got
  <2>2. m \in Modes
    BY <1>1, <1>3 DEF Select, Typed, TypeOK
  <2>3. x \in Run /\ x.pc = "group" /\ x.ids = {} /\ x.todo = got /\ x.out = "none"
    <3> HIDE DEF m
    <3> QED BY <1>2, <2>2, IdleTyped DEF Idle, Run
  <2> HIDE DEF x
  <2>4. Fit(r)'
    BY <1>1, <1>3, <2>1, <2>3 DEF Fit, Claimed, Select, world, TypeOK
  <2>5. x.todo \cup x.ids \subseteq DOMAIN outbox
    BY <1>2, <2>3
  <2>6. /\ runs' \in [Runs -> Run]
        /\ \A q \in Runs : runs'[q].todo \cup runs'[q].ids \subseteq DOMAIN outbox'
        /\ \A q \in Runs : Fit(q)'
    BY <1>1, <2>1, <2>3, <2>4, <2>5, OneMoves
  <2> QED BY <1>1, <2>1, <2>6 DEF Select, world, Typed, TypeOK
<1> QED BY <1>4, <1>5

(* Whoever ends, or waits for its next records, or goes on to send what it has in hand. *)
LEMMA GoesOn ==
  ASSUME Typed, NEW r \in Runs, NEW x \in Run, runs' = [runs EXCEPT ![r] = x],
         runs[r].pc # "idle", UNCHANGED sync, UNCHANGED mode,
         x.pc \in Claimed \cup {"group", "claim"}, x.todo \cup x.ids \subseteq DOMAIN outbox,
         x.pc # "group" => x.ids # {}, x.pc = "mark" => x.out # "none",
         x.pc = "link" => x.link \in 1 .. Len(zuper'[RecOf(r)']),
         outbox' \in Seq(Row), wait' \in Seq(Int), DOMAIN wait' = DOMAIN outbox', Grows,
         zuper' \in [Records -> Seq(Seq(Nat))],
         \A k \in Records : \A n \in DOMAIN zuper'[k] : zuper'[k][n] # <<>>,
         disturbed' \in Nat, UNCHANGED <<row, newest, twins>>,
         linked' \in [Records -> Nat], \A k \in Records : linked'[k] \in 0 .. Len(zuper'[k])
  PROVE  Typed'
<1>1. TypeOK
  BY DEF Typed
<1>2. runs'[r] = x
  BY <1>1 DEF TypeOK
<1>3. r[2] # Tick => r[2] \in Records /\ linked[r[2]] # 0
  BY DEF Typed, Fit, Runs
<1>4. Fit(r)'
  BY <1>2, <1>3 DEF Fit, Grows, Claimed
<1>5. /\ runs' \in [Runs -> Run]
      /\ \A q \in Runs : runs'[q].todo \cup runs'[q].ids \subseteq DOMAIN outbox'
      /\ \A q \in Runs : Fit(q)'
  BY <1>4, OneMoves
<1>6. wait' \in [DOMAIN outbox' -> Int]
  OBVIOUS
<1>7. \A s \in Syncs : s[2] \in Records
  BY DEF Syncs
<1>8. TypeOK'
  BY <1>1, <1>5, <1>6 DEF TypeOK
<1>9. \A s \in Syncs : /\ sync'[s].pc # "idle" => linked'[s[2]] # 0
                       /\ sync'[s].pc = "flush" => "live" \in Modes
  <2>1. \A s \in Syncs : /\ sync[s].pc # "idle" => linked[s[2]] # 0
                         /\ sync[s].pc = "flush" => "live" \in Modes
    BY DEF Typed
  <2>2. \A k \in Records : linked[k] # 0 => linked'[k] # 0
    BY DEF Grows
  <2> QED BY <1>7, <2>1, <2>2
<1> QED BY <1>5, <1>8, <1>9 DEF Typed

(* The records as they were. *)
LEMMA WorldStays ==
  ASSUME Typed, UNCHANGED world
  PROVE  /\ zuper' = zuper /\ zuper \in [Records -> Seq(Seq(Nat))]
         /\ \A k \in Records : \A n \in DOMAIN zuper[k] : zuper[k][n] # <<>>
         /\ linked' = linked /\ linked \in [Records -> Nat]
         /\ \A k \in Records : linked[k] \in 0 .. Len(zuper[k])
         /\ UNCHANGED <<row, newest, twins>>
BY DEF world, Typed, TypeOK

(* Statuses change, not what rows there are. *)
LEMMA Relabelled ==
  ASSUME Typed, NEW ids, NEW status \in Status, outbox' = Marked(ids, status)
  PROVE  /\ outbox' \in Seq(Row) /\ DOMAIN outbox' = DOMAIN outbox
         /\ \A i \in DOMAIN outbox : outbox'[i].rec = outbox[i].rec
<1>1. outbox \in Seq(Row) /\ \A i \in DOMAIN outbox : outbox[i] \in Row
  BY DEF Typed, TypeOK
<1>2. \A i \in DOMAIN outbox : [outbox[i] EXCEPT !.status = status] \in Row
                               /\ [outbox[i] EXCEPT !.status = status].rec = outbox[i].rec
  BY <1>1 DEF Row
<1>3. DOMAIN outbox = 1 .. Len(outbox) /\ Len(outbox) \in Nat
  BY <1>1
<1>4. outbox' = [i \in 1 .. Len(outbox) |-> IF i \in ids THEN [outbox[i] EXCEPT !.status = status]
                                           ELSE outbox[i]]
  BY <1>3 DEF Marked
<1>5. \A i \in 1 .. Len(outbox) : outbox'[i] \in Row
  BY <1>1, <1>2, <1>3, <1>4
<1>6. outbox' \in Seq(Row)
  BY <1>3, <1>4, <1>5, IsASeq
<1> QED BY <1>1, <1>2, <1>3, <1>4, <1>6

LEMMA GroupTyped ==
  ASSUME Typed, NEW r \in Runs, Group(r)
  PROVE  Typed'
<1> DEFINE k == outbox[Min(runs[r].todo)].rec
           all == {i \in runs[r].todo : outbox[i].rec = k}
           live == Effective(runs[r].mode, k) = "live"
           rows == IF live THEN all ELSE all \cap runs[r].queued
           waiting == rows \cap runs[r].fresh # {} /\ \E i \in rows : outbox[i].op = "create"
           stale == IF live /\ ~waiting THEN rows \cap runs[r].stale ELSE {}
           ids == IF waiting THEN {} ELSE rows \ stale
           x == [runs[r] EXCEPT !.todo = @ \ all, !.ids = ids,
                                !.pc = IF ids = {} THEN "group" ELSE "claim"]
<1>1. runs \in [Runs -> Run] /\ runs[r] \in Run /\ runs[r].todo \cup runs[r].ids \subseteq DOMAIN outbox
      /\ outbox \in Seq(Row)
  BY DEF Typed, TypeOK
<1>2. ids \subseteq runs[r].todo /\ ids \subseteq DOMAIN outbox
  BY <1>1
<1>3. runs' = [runs EXCEPT ![r] = x]
  BY <1>1 DEF Group
<1>4. outbox' = Marked(stale, "skipped") /\ UNCHANGED <<world, wait, sync, mode, disturbed>>
      /\ runs[r].pc = "group"
  BY DEF Group
<1> HIDE DEF ids, stale, all
<1>5. ids \subseteq Nat
  BY <1>1, <1>2
<1>6. x \in Run /\ x.todo \subseteq runs[r].todo /\ x.ids = ids
      /\ x.pc = IF ids = {} THEN "group" ELSE "claim"
  BY <1>1, <1>5 DEF Run
<1> HIDE DEF x
<1>7. /\ outbox' \in Seq(Row) /\ DOMAIN outbox' = DOMAIN outbox
      /\ \A i \in DOMAIN outbox : outbox'[i].rec = outbox[i].rec
  BY <1>4, Relabelled DEF Status
<1>8. Grows
  BY <1>4, <1>7 DEF Grows, world, Typed, TypeOK
<1>9. /\ x.pc \in Claimed \cup {"group", "claim"} /\ x.todo \cup x.ids \subseteq DOMAIN outbox
      /\ x.pc # "group" => x.ids # {} 
      /\ x.pc # "mark" /\ x.pc # "link"
  BY <1>1, <1>2, <1>6
<1>10. /\ wait' \in Seq(Int) /\ DOMAIN wait' = DOMAIN outbox' /\ disturbed' \in Nat
       /\ UNCHANGED <<sync, mode>>
  BY <1>4, <1>7 DEF Typed, TypeOK
<1> QED BY <1>3, <1>4, <1>6, <1>7, <1>8, <1>9, <1>10, GoesOn, WorldStays

LEMMA TriesCount ==
  ASSUME Typed, NEW ids, ids \subseteq DOMAIN outbox, ids # {}
  PROVE  Max({outbox[i].attempts : i \in ids}) \in Nat
<1> DEFINE s == [i \in DOMAIN outbox |-> outbox[i].attempts]
           S == {outbox[i].attempts : i \in ids}
<1>1. outbox \in Seq(Row) /\ \A i \in DOMAIN outbox : outbox[i] \in Row
  BY DEF Typed, TypeOK
<1>2. \A i \in DOMAIN outbox : outbox[i].attempts \in Nat
  BY <1>1 DEF Row
<1>3. DOMAIN outbox = 1 .. Len(outbox) /\ Len(outbox) \in Nat
  BY <1>1
<1>4. PICK b \in Nat : \A i \in 1 .. Len(outbox) : s[i] <= b
  <2>1. \A i \in 1 .. Len(outbox) : s[i] \in Nat
    BY <1>2, <1>3
  <2> HIDE DEF s
  <2> QED BY <1>3, <2>1, Bounded
<1>5. S \subseteq Nat /\ S # {} /\ \A y \in S : y <= b
  BY <1>2, <1>3, <1>4
<1> HIDE DEF S
<1>6. Max(S) \in S
  BY <1>5, MaxIsOne
<1> QED BY <1>5, <1>6 DEF S

LEMMA ClaimTyped ==
  ASSUME Typed, NEW r \in Runs, Claim(r)
  PROVE  Typed'
<1> DEFINE mine == {i \in runs[r].ids : /\ outbox[i].status \in Statuses(runs[r].mode)
                                        /\ wait[i] + runs[r].age <= 0}
           n == IF mine = {} THEN 0 ELSE Max({outbox[i].attempts : i \in mine}) + 1
           x == [runs[r] EXCEPT !.ids = mine, !.pc = IF mine = {} THEN "group" ELSE "plan", !.tries = n]
<1>1. runs \in [Runs -> Run] /\ runs[r] \in Run /\ runs[r].todo \cup runs[r].ids \subseteq DOMAIN outbox
      /\ outbox \in Seq(Row)
  BY DEF Typed, TypeOK
<1>2. mine \subseteq DOMAIN outbox /\ mine \subseteq Nat
  BY <1>1
<1>3. runs' = [runs EXCEPT ![r] = x]
      /\ wait' = [i \in DOMAIN wait |-> IF i \in mine THEN Lease - runs[r].age ELSE wait[i]]
      /\ UNCHANGED <<world, outbox, sync, mode, disturbed>> /\ runs[r].pc = "claim"
  BY <1>1 DEF Claim
<1> HIDE DEF mine
<1>4. n \in Nat
  BY <1>2, TriesCount
<1> HIDE DEF n
<1>5. x \in Run /\ x.todo = runs[r].todo /\ x.ids = mine /\ x.pc = IF mine = {} THEN "group" ELSE "plan"
  BY <1>1, <1>2, <1>4 DEF Run, Claimed
<1> HIDE DEF x
<1>6. wait \in Seq(Int) /\ runs[r].age \in Nat /\ DOMAIN wait = DOMAIN outbox /\ disturbed' \in Nat
      /\ UNCHANGED <<sync, mode>>
  BY <1>1, <1>3 DEF Typed, TypeOK, Run
<1>7. wait' \in Seq(Int) /\ DOMAIN wait' = DOMAIN wait
  <2>1. DOMAIN wait = 1 .. Len(wait) /\ Len(wait) \in Nat
    BY <1>6
  <2>2. wait' = [i \in 1 .. Len(wait) |-> IF i \in mine THEN Lease - runs[r].age ELSE wait[i]]
    BY <1>3, <2>1
  <2>3. \A i \in 1 .. Len(wait) : wait'[i] \in Int
    BY <1>6, <2>1, <2>2, OutboxAssumption
  <2> QED BY <2>1, <2>2, <2>3, IsASeq
<1>8. Grows
  BY <1>3, StillGrows
<1>9. /\ x.pc \in Claimed \cup {"group", "claim"} /\ x.todo \cup x.ids \subseteq DOMAIN outbox
      /\ x.pc # "group" => x.ids # {} 
      /\ x.pc # "mark" /\ x.pc # "link"
  BY <1>1, <1>2, <1>5 DEF Claimed
<1>10. outbox' \in Seq(Row) /\ outbox' = outbox
  BY <1>1, <1>3
<1> QED BY <1>3, <1>5, <1>6, <1>7, <1>8, <1>9, <1>10, GoesOn, WorldStays

(* A step that changes no row and no record, and neither its own rows nor what the run has to do. *)
LEMMA PlansOn ==
  ASSUME Typed, NEW r \in Runs, NEW x \in Run, runs' = [runs EXCEPT ![r] = x],
         runs[r].pc \in Claimed, x.pc \in Claimed \ {"link"}, x.pc = "mark" => x.out # "none",
         x.ids = runs[r].ids, x.todo = runs[r].todo,
         UNCHANGED <<world, outbox, wait, sync, mode>>, disturbed' \in Nat
  PROVE  Typed'
<1>1. runs[r].todo \cup runs[r].ids \subseteq DOMAIN outbox /\ outbox \in Seq(Row) /\ wait \in Seq(Int)
      /\ DOMAIN wait = DOMAIN outbox
  BY DEF Typed, TypeOK
<1>2. runs[r].ids # {} /\ runs[r].pc # "idle"
  BY DEF Typed, Fit, Claimed
<1> QED BY <1>1, <1>2, GoesOn, WorldStays, StillGrows

LEMMA PlanTyped ==
  ASSUME Typed, NEW r \in Runs, PlanRow(r) \/ Compare(r) \/ Verify(r)
  PROVE  Typed'
<1>1. runs \in [Runs -> Run] /\ runs[r] \in Run /\ disturbed \in Nat
  BY DEF Typed, TypeOK
<1>2. CASE PlanRow(r)
  <2> DEFINE k == RecOf(r)
             x == [runs[r] EXCEPT !.want = row[k], !.link = linked[k],
                                  !.pc = IF linked[k] # 0 THEN "compare"
                                         ELSE IF Sends(r) THEN "send" ELSE "mark",
                                  !.out = IF linked[k] # 0 \/ Sends(r) THEN "none"
                                          ELSE "planned"]
  <2>1. runs' = [runs EXCEPT ![r] = x] /\ runs[r].pc = "plan"
        /\ UNCHANGED <<world, outbox, wait, sync, mode, disturbed>>
    BY <1>1, <1>2 DEF PlanRow
  <2>2. runs[r].ids # {}
    BY <2>1 DEF Typed, Fit, Claimed
  <2>3. row[k] \in Nat /\ linked[k] \in Nat
    BY <2>2, Recs DEF Typed, TypeOK
  <2>4. /\ x \in Run /\ x.ids = runs[r].ids /\ x.todo = runs[r].todo
        /\ x.pc \in {"compare", "send", "mark"} /\ (x.pc = "mark" => x.out = "planned")
    <3>1. "none" # "planned"
      OBVIOUS
    <3> DEFINE pc == IF linked[k] # 0 THEN "compare"
                     ELSE IF Sends(r) THEN "send" ELSE "mark"
               out == IF linked[k] # 0 \/ Sends(r) THEN "none" ELSE "planned"
               want == row[k]
               link == linked[k]
    <3>2. pc \in {"compare", "send", "mark"} /\ out \in {"none", "planned"}
          /\ (pc = "mark" => out = "planned") /\ want \in Nat /\ link \in Nat
      BY <2>3
    <3>3. x = [runs[r] EXCEPT !.want = want, !.link = link, !.pc = pc, !.out = out]
      OBVIOUS
    <3> HIDE DEF x, pc, out, want, link
    <3> QED BY <1>1, <3>2, <3>3 DEF Run, Claimed
  <2> HIDE DEF x
  <2> QED BY <1>1, <2>1, <2>4, PlansOn DEF Claimed
<1>3. CASE Compare(r) \/ Verify(r)
  <2>1. PICK x \in {[runs[r] EXCEPT !.pc = "send"]}
                   \cup {[runs[r] EXCEPT !.pc = "mark", !.out = out] :
                             out \in {"sent", "planned", "skipped", "failed"}} :
          runs' = [runs EXCEPT ![r] = x]
    BY <1>1, <1>3 DEF Compare, Verify, Go, End
  <2>2. /\ x \in Run /\ x.ids = runs[r].ids /\ x.todo = runs[r].todo
        /\ x.pc \in {"send", "mark"} /\ (x.pc = "mark" => x.out # "none")
    <3>1. CASE x = [runs[r] EXCEPT !.pc = "send"]
      BY <1>1, <3>1 DEF Run, Claimed
    <3>2. ASSUME NEW out \in {"sent", "planned", "skipped", "failed"},
                 x = [runs[r] EXCEPT !.pc = "mark", !.out = out]
          PROVE  x \in Run /\ x.ids = runs[r].ids /\ x.todo = runs[r].todo /\ x.pc = "mark"
                 /\ x.out = out
      BY <1>1, <3>2 DEF Run, Claimed
    <3> QED BY <2>1, <3>1, <3>2
  <2>3. UNCHANGED <<world, outbox, wait, sync, mode>> /\ disturbed' \in Nat /\ runs[r].pc \in Claimed
    BY <1>1, <1>3 DEF Compare, Verify, Calm, Disturb, Claimed
  <2> QED BY <2>1, <2>2, <2>3, PlansOn DEF Claimed
<1> QED BY <1>2, <1>3

LEMMA PutTyped ==
  ASSUME Typed, NEW r \in Runs, Put(r)
  PROVE  Typed'
<1> DEFINE k == RecOf(r)
           n == runs[r].link
           taken == [zuper EXCEPT ![k][n] = Append(@, runs[r].want)]
<1>1. /\ runs \in [Runs -> Run] /\ runs[r] \in Run /\ disturbed \in Nat /\ runs[r].pc = "send"
      /\ zuper \in [Records -> Seq(Seq(Nat))] /\ outbox \in Seq(Row) /\ wait \in Seq(Int)
      /\ DOMAIN wait = DOMAIN outbox /\ runs[r].todo \cup runs[r].ids \subseteq DOMAIN outbox
      /\ linked \in [Records -> Nat] /\ \A h \in Records : linked[h] \in 0 .. Len(zuper[h])
      /\ \A h \in Records : \A m \in DOMAIN zuper[h] : zuper[h][m] # <<>>
  BY DEF Put, Typed, TypeOK
<1>2. runs[r].ids # {} /\ k \in Records
  BY <1>1, Recs DEF Typed, Fit, Claimed
<1>3. PICK x \in {[runs[r] EXCEPT !.pc = "verify"],
                  [runs[r] EXCEPT !.pc = "mark", !.out = "failed"]} :
        runs' = [runs EXCEPT ![r] = x]
  BY <1>1 DEF Put, Go, End
<1>4. /\ x \in Run /\ x.ids = runs[r].ids /\ x.todo = runs[r].todo
      /\ x.pc \in {"verify", "mark"} /\ (x.pc = "mark" => x.out # "none")
  BY <1>1, <1>3, ZenonT(40) DEF Run, Claimed
<1>5. zuper' \in {zuper, taken} /\ disturbed' \in Nat
      /\ UNCHANGED <<row, newest, linked, twins, outbox, wait, sync, mode>>
  <2>1. zuper' = taken \/ zuper' = zuper
    BY DEF Put
  <2>2. disturbed' \in Nat
    <3>1. disturbed' = disturbed \/ disturbed' = disturbed + 1
      BY DEF Put, Calm, Disturb
    <3> QED BY <1>1, <3>1
  <2>3. UNCHANGED <<row, newest, linked, twins, outbox, wait, sync, mode>>
    BY DEF Put
  <2> QED BY <2>1, <2>2, <2>3
<1>6. /\ taken \in [Records -> Seq(Seq(Nat))]
      /\ \A h \in Records : Len(taken[h]) = Len(zuper[h])
      /\ \A h \in Records : \A m \in DOMAIN taken[h] : taken[h][m] # <<>>
  <2> DEFINE own == [zuper[k] EXCEPT ![n] = Append(@, runs[r].want)]
  <2>1. zuper[k] \in Seq(Seq(Nat)) /\ runs[r].want \in Nat /\ n \in Nat
    BY <1>1, <1>2 DEF Run
  <2>2. own \in Seq(Seq(Nat)) /\ Len(own) = Len(zuper[k]) /\ DOMAIN own = DOMAIN zuper[k]
        /\ \A m \in DOMAIN own : own[m] # <<>>
    <3>1. CASE n \in DOMAIN zuper[k]
      <4>1. zuper[k][n] \in Seq(Nat)
        BY <2>1, <3>1
      <4>2. Append(zuper[k][n], runs[r].want) \in Seq(Nat)
            /\ Append(zuper[k][n], runs[r].want) # <<>>
        <5> DEFINE held == zuper[k][n]
                   want == runs[r].want
        <5>1. held \in Seq(Nat) /\ want \in Nat
          BY <2>1, <4>1
        <5> HIDE DEF held, want
        <5>2. Append(held, want) \in Seq(Nat) /\ Append(held, want) # <<>>
          BY <5>1, AppendProperties
        <5> QED BY <5>2 DEF held, want
      <4> DEFINE seq == zuper[k]
                 new == Append(zuper[k][n], runs[r].want)
      <4>3. /\ seq \in Seq(Seq(Nat)) /\ n \in 1 .. Len(seq) /\ DOMAIN seq = 1 .. Len(seq)
            /\ new \in Seq(Nat) /\ new # <<>> /\ \A m \in DOMAIN seq : seq[m] # <<>>
        BY <1>1, <1>2, <2>1, <3>1, <4>2, SMTT(30)
      <4>4. own = [seq EXCEPT ![n] = new]
        OBVIOUS
      <4> HIDE DEF own, seq, new
      <4>5. /\ own \in Seq(Seq(Nat)) /\ Len(own) = Len(seq)
            /\ \A m \in 1 .. Len(seq) : own[m] = IF m = n THEN new ELSE seq[m]
        BY <4>3, <4>4, ExceptSeq
      <4>6. DOMAIN own = 1 .. Len(seq)
        BY <4>5
      <4> QED BY <4>3, <4>5, <4>6 DEF seq
    <3>2. CASE n \notin DOMAIN zuper[k]
      <4>1. own = zuper[k]
        BY <2>1, <3>2
      <4> QED BY <1>1, <1>2, <2>1, <4>1, ZenonT(40)
    <3> QED BY <3>1, <3>2
  <2>3. taken = [zuper EXCEPT ![k] = own]
    BY <1>1
  <2> HIDE DEF own
  <2> QED BY <1>1, <1>2, <2>2, <2>3
<1> HIDE DEF taken
<1>7. /\ zuper' \in [Records -> Seq(Seq(Nat))]
      /\ \A h \in Records : Len(zuper'[h]) = Len(zuper[h])
      /\ \A h \in Records : \A m \in DOMAIN zuper'[h] : zuper'[h][m] # <<>>
  BY <1>1, <1>5, <1>6
<1>8. Grows
  BY <1>1, <1>5, <1>7 DEF Grows
<1>9. \A h \in Records : linked'[h] \in 0 .. Len(zuper'[h])
  BY <1>1, <1>5, <1>7
<1>10. x.pc \in Claimed /\ x.pc # "link"
  BY <1>4 DEF Claimed
<1> QED BY <1>1, <1>2, <1>3, <1>4, <1>5, <1>7, <1>8, <1>9, <1>10, GoesOn

LEMMA PostTyped ==
  ASSUME Typed, NEW r \in Runs, Post(r)
  PROVE  Typed'
<1> DEFINE k == RecOf(r)
           n == Len(zuper[k]) + 1
           made == [zuper EXCEPT ![k] = Append(@, <<runs[r].want>>)]
<1>1. /\ runs \in [Runs -> Run] /\ runs[r] \in Run /\ disturbed \in Nat /\ runs[r].pc = "send"
      /\ zuper \in [Records -> Seq(Seq(Nat))] /\ outbox \in Seq(Row) /\ wait \in Seq(Int)
      /\ DOMAIN wait = DOMAIN outbox /\ runs[r].todo \cup runs[r].ids \subseteq DOMAIN outbox
      /\ linked \in [Records -> Nat] /\ \A h \in Records : linked[h] \in 0 .. Len(zuper[h])
      /\ \A h \in Records : \A m \in DOMAIN zuper[h] : zuper[h][m] # <<>>
  BY DEF Post, Typed, TypeOK
<1>2. runs[r].ids # {} /\ k \in Records
  BY <1>1, Recs DEF Typed, Fit, Claimed
<1>3. /\ made \in [Records -> Seq(Seq(Nat))] /\ n \in Nat /\ Len(made[k]) = n
      /\ \A h \in Records : Len(made[h]) = IF h = k THEN n ELSE Len(zuper[h])
      /\ \A h \in Records : \A m \in DOMAIN made[h] : made[h][m] # <<>>
  <2> DEFINE held == zuper[k]
             one == <<runs[r].want>>
  <2>1. held \in Seq(Seq(Nat)) /\ one \in Seq(Nat) /\ one # <<>> /\ Len(held) \in Nat
    BY <1>1, <1>2 DEF Run
  <2>2. \A m \in DOMAIN held : held[m] # <<>>
    BY <1>1, <1>2
  <2>3. made = [zuper EXCEPT ![k] = Append(held, one)]
    BY <1>1, <1>2
  <2> HIDE DEF held, one, made, k
  <2>4. /\ Append(held, one) \in Seq(Seq(Nat)) /\ Len(Append(held, one)) = Len(held) + 1
        /\ \A m \in 1 .. Len(held) : Append(held, one)[m] = held[m]
        /\ Append(held, one)[Len(held) + 1] = one
    BY <2>1, AppendProperties
  <2>5. \A m \in DOMAIN Append(held, one) : Append(held, one)[m] # <<>>
    BY <2>1, <2>2, <2>4
  <2>6. \A h \in Records : made[h] = IF h = k THEN Append(held, one) ELSE zuper[h]
    BY <1>1, <2>3
  <2> QED BY <1>1, <1>2, <2>1, <2>3, <2>4, <2>5, <2>6, SMTT(30) DEF held
<1>4. PICK x \in {[runs[r] EXCEPT !.pc = "link", !.link = n],
                  [runs[r] EXCEPT !.pc = "mark", !.out = "failed"],
                  [runs[r] EXCEPT !.pc = "mark", !.out = "stop"]} :
        runs' = [runs EXCEPT ![r] = x] /\ (x.pc = "link" => zuper' = made)
  <2>1. CASE zuper' = made /\ runs' = [runs EXCEPT ![r].pc = "link", ![r].link = Len(made[k])]
    <3>1. runs' = [runs EXCEPT ![r] = [runs[r] EXCEPT !.pc = "link", !.link = n]]
      BY <1>1, <1>3, <2>1
    <3> QED BY <2>1, <3>1
  <2>2. CASE runs' = End(r, "failed") \/ runs' = End(r, "stop")
    <3>1. PICK out \in {"failed", "stop"} :
            runs' = [runs EXCEPT ![r] = [runs[r] EXCEPT !.pc = "mark", !.out = out]]
      BY <1>1, <2>2 DEF End
    <3>2. [runs[r] EXCEPT !.pc = "mark", !.out = out].pc = "mark"
      BY <1>1 DEF Run
    <3> QED BY <3>1, <3>2
  <2> QED BY <2>1, <2>2 DEF Post
<1>5. /\ x \in Run /\ x.ids = runs[r].ids /\ x.todo = runs[r].todo
      /\ x.pc \in {"link", "mark"} /\ (x.pc = "mark" => x.out # "none") /\ (x.pc = "link" => x.link = n)
  <2>1. CASE x = [runs[r] EXCEPT !.pc = "link", !.link = n]
    BY <1>1, <1>3, <2>1 DEF Run, Claimed
  <2>2. CASE x = [runs[r] EXCEPT !.pc = "mark", !.out = "failed"]
    BY <1>1, <2>2 DEF Run, Claimed
  <2>3. CASE x = [runs[r] EXCEPT !.pc = "mark", !.out = "stop"]
    BY <1>1, <2>3 DEF Run, Claimed
  <2> QED BY <1>4, <2>1, <2>2, <2>3
<1>6. zuper' \in {zuper, made} /\ disturbed' \in Nat
      /\ UNCHANGED <<row, newest, linked, twins, outbox, wait, sync, mode>>
  <2>1. zuper' = made \/ zuper' = zuper
    BY DEF Post
  <2>2. disturbed' \in Nat
    <3>1. disturbed' = disturbed \/ disturbed' = disturbed + 1
      BY DEF Post, Calm, Disturb
    <3> QED BY <1>1, <3>1
  <2>3. UNCHANGED <<row, newest, linked, twins, outbox, wait, sync, mode>>
    BY DEF Post
  <2> QED BY <2>1, <2>2, <2>3
<1>7. /\ zuper' \in [Records -> Seq(Seq(Nat))]
      /\ \A h \in Records : Len(zuper[h]) \in Nat /\ Len(zuper'[h]) \in Nat /\ Len(zuper[h]) <= Len(zuper'[h])
      /\ \A h \in Records : \A m \in DOMAIN zuper'[h] : zuper'[h][m] # <<>>
      /\ x.pc = "link" => x.link \in 1 .. Len(zuper'[k])
  <2> HIDE DEF made, k
  <2>1. \A h \in Records : Len(zuper[h]) \in Nat
    BY <1>1
  <2>2. n >= 1
    BY <1>2, <2>1
  <2> HIDE DEF n
  <2>3. n = Len(zuper[k]) + 1
    BY DEF n
  <2>4. CASE zuper' = zuper
    <3>1. x.pc # "link" \/ zuper' = made
      BY <1>4
    <3>2. x.pc # "link" \/ Len(zuper[k]) = n
      BY <1>3, <2>4, <3>1
    <3>3. x.pc # "link"
      BY <1>2, <2>1, <2>3, <3>2
    <3> QED BY <1>1, <2>1, <2>4, <3>3
  <2>5. CASE zuper' = made
    <3>1. \A h \in Records : Len(zuper'[h]) = IF h = k THEN n ELSE Len(zuper[h])
      BY <1>3, <2>5
    <3>2. \A h \in Records : Len(zuper'[h]) \in Nat /\ Len(zuper[h]) <= Len(zuper'[h])
      BY <1>2, <1>3, <2>1, <2>3, <3>1
    <3>3. x.pc = "link" => x.link \in 1 .. Len(zuper'[k])
      BY <1>2, <1>3, <1>5, <2>2, <3>1
    <3> QED BY <1>3, <2>1, <2>5, <3>2, <3>3
  <2> QED BY <1>6, <2>4, <2>5
<1> HIDE DEF made, k, n
<1>8. Grows
  BY <1>1, <1>6, <1>7 DEF Grows
<1>9. \A h \in Records : linked'[h] \in 0 .. Len(zuper'[h])
  BY <1>1, <1>6, <1>7
<1>10. x.pc \in Claimed
  BY <1>5 DEF Claimed
<1>11. RecOf(r)' = k
  <2>1. runs'[r].ids = runs[r].ids
    BY <1>1, <1>4, <1>5
  <2> QED BY <1>6, <2>1 DEF RecOf, k
<1> QED BY <1>1, <1>2, <1>4, <1>5, <1>6, <1>7, <1>8, <1>9, <1>10, <1>11, GoesOn

LEMMA LinkTyped ==
  ASSUME Typed, NEW r \in Runs, Link(r)
  PROVE  Typed'
<1> DEFINE k == RecOf(r)
<1>1. /\ runs \in [Runs -> Run] /\ runs[r] \in Run /\ disturbed \in Nat /\ runs[r].pc = "link"
      /\ zuper \in [Records -> Seq(Seq(Nat))] /\ outbox \in Seq(Row) /\ wait \in Seq(Int)
      /\ DOMAIN wait = DOMAIN outbox /\ runs[r].todo \cup runs[r].ids \subseteq DOMAIN outbox
      /\ linked \in [Records -> Nat] /\ \A h \in Records : linked[h] \in 0 .. Len(zuper[h])
      /\ \A h \in Records : \A m \in DOMAIN zuper[h] : zuper[h][m] # <<>>
  BY DEF Link, Typed, TypeOK
<1>2. runs[r].ids # {} /\ k \in Records /\ runs[r].link \in 1 .. Len(zuper[k])
  BY <1>1, Recs DEF Typed, Fit, Claimed
<1>3. PICK x \in {[runs[r] EXCEPT !.pc = "follow"], [runs[r] EXCEPT !.pc = "mark", !.out = "stop"]} :
        runs' = [runs EXCEPT ![r] = x]
  BY <1>1 DEF Link, Go, End
<1>4. /\ x \in Run /\ x.ids = runs[r].ids /\ x.todo = runs[r].todo
      /\ x.pc \in {"follow", "mark"} /\ (x.pc = "mark" => x.out # "none")
  BY <1>1, <1>3, ZenonT(40) DEF Run, Claimed
<1>5. /\ linked' = linked \/ linked' = [linked EXCEPT ![k] = runs[r].link]
      /\ disturbed' = disturbed \/ disturbed' = disturbed + 1
      /\ UNCHANGED <<row, newest, zuper, twins, outbox, wait, sync, mode>>
  BY DEF Link, Calm, Disturb
<1> HIDE DEF k
<1>6. /\ linked' \in [Records -> Nat]
      /\ \A h \in Records : linked'[h] \in 0 .. Len(zuper[h]) /\ (linked[h] # 0 => linked'[h] # 0)
  <2>1. \A h \in Records : Len(zuper[h]) \in Nat
    BY <1>1
  <2>2. runs[r].link \in Nat /\ runs[r].link # 0
    BY <1>2, <2>1
  <2>3. CASE linked' = linked
    BY <1>1, <2>3
  <2>4. CASE linked' = [linked EXCEPT ![k] = runs[r].link]
    <3>1. \A h \in Records : linked'[h] = IF h = k THEN runs[r].link ELSE linked[h]
      BY <1>1, <2>4
    <3>2. linked' \in [Records -> Nat]
      BY <1>1, <2>2, <2>4
    <3> QED BY <1>1, <1>2, <2>1, <2>2, <3>1, <3>2
  <2> QED BY <1>5, <2>3, <2>4
<1>7. Grows
  BY <1>1, <1>5, <1>6 DEF Grows
<1>8. disturbed' \in Nat /\ x.pc \in Claimed /\ x.pc # "link"
  BY <1>1, <1>4, <1>5 DEF Claimed
<1> QED BY <1>1, <1>2, <1>3, <1>4, <1>5, <1>6, <1>7, <1>8, GoesOn, ZenonT(40)

(* A row more at the end. *)
LEMMA RowAdded ==
  ASSUME Typed, NEW new \in Row, NEW w \in Int, outbox' = Append(outbox, new), wait' = Append(wait, w)
  PROVE  /\ outbox' \in Seq(Row) /\ wait' \in Seq(Int) /\ DOMAIN wait' = DOMAIN outbox'
         /\ DOMAIN outbox' = DOMAIN outbox \cup {Len(outbox) + 1} /\ Len(outbox) + 1 \notin DOMAIN outbox
         /\ \A i \in DOMAIN outbox : outbox'[i] = outbox[i] /\ wait'[i] = wait[i]
<1>1. outbox \in Seq(Row) /\ wait \in Seq(Int) /\ DOMAIN wait = DOMAIN outbox
  BY DEF Typed, TypeOK
<1>2. Len(wait) = Len(outbox) /\ Len(outbox) \in Nat /\ DOMAIN outbox = 1 .. Len(outbox)
  BY <1>1
<1>3. /\ outbox' \in Seq(Row) /\ Len(outbox') = Len(outbox) + 1
      /\ \A i \in 1 .. Len(outbox) : outbox'[i] = outbox[i]
  BY <1>1, AppendProperties
<1>4. /\ wait' \in Seq(Int) /\ Len(wait') = Len(wait) + 1
      /\ \A i \in 1 .. Len(wait) : wait'[i] = wait[i]
  BY <1>1, AppendProperties
<1> QED BY <1>2, <1>3, <1>4

LEMMA FollowUpTyped ==
  ASSUME Typed, NEW r \in Runs, FollowUp(r)
  PROVE  Typed'
<1> DEFINE new == [NewRow(RecOf(r), "follow", runs[r].want) EXCEPT !.status = "queued"]
           x == [runs[r] EXCEPT !.pc = "mark", !.out = "sent"]
<1>1. /\ runs \in [Runs -> Run] /\ runs[r] \in Run /\ runs[r].pc = "follow"
      /\ runs[r].todo \cup runs[r].ids \subseteq DOMAIN outbox /\ disturbed \in Nat
  BY DEF FollowUp, Typed, TypeOK
<1>2. runs[r].ids # {} /\ RecOf(r) \in Records
  BY <1>1, Recs DEF Typed, Fit, Claimed
<1>3. new \in Row
  BY <1>1, <1>2 DEF NewRow, Row, Status, Run
<1>4. /\ x \in Run /\ x.ids = runs[r].ids /\ x.todo = runs[r].todo /\ x.pc = "mark" /\ x.out = "sent"
      /\ runs' = [runs EXCEPT ![r] = x]
  BY <1>1 DEF Run, Claimed, FollowUp, End
<1>5. /\ outbox' = Append(outbox, new) /\ wait' = Append(wait, 1)
      /\ UNCHANGED <<world, sync, mode, disturbed>>
  BY DEF FollowUp
<1> HIDE DEF new, x
<1>6. /\ outbox' \in Seq(Row) /\ wait' \in Seq(Int) /\ DOMAIN wait' = DOMAIN outbox'
      /\ \A i \in DOMAIN outbox : i \in DOMAIN outbox' /\ outbox'[i] = outbox[i]
  BY <1>3, <1>5, RowAdded
<1>7. Grows
  BY <1>5, <1>6 DEF Grows, world, Typed, TypeOK
<1>8. /\ x.pc \in Claimed \cup {"group", "claim"} /\ x.pc # "link" /\ x.out # "none"
      /\ x.todo \cup x.ids \subseteq DOMAIN outbox /\ x.ids # {} /\ runs[r].pc # "idle"
      /\ disturbed' \in Nat /\ UNCHANGED sync /\ UNCHANGED mode /\ UNCHANGED world
  BY <1>1, <1>2, <1>4, <1>5 DEF Claimed
<1>9. x \in Run /\ runs' = [runs EXCEPT ![r] = x]
  BY <1>4
<1> QED BY <1>6, <1>7, <1>8, <1>9, GoesOn, WorldStays

LEMMA BackoffCounts ==
  ASSUME NEW n \in Nat
  PROVE  Backoff(n) \in Int
<1>1. 2 ^ n \in Int
  OBVIOUS
<1> QED BY <1>1 DEF Backoff

LEMMA MarkTyped ==
  ASSUME Typed, NEW r \in Runs, Mark(r)
  PROVE  Typed'
<1> DEFINE ids == {i \in runs[r].ids : outbox[i].status # "gone"}
           out == runs[r].out
           failed == out \in {"failed", "stop"}
           n == IF out = "stop" THEN MaxAttempts ELSE runs[r].tries
           x == [runs[r] EXCEPT !.pc = "group", !.ids = {}, !.tries = 0,
                                !.want = 0, !.link = 0, !.out = "none"]
           marked(i) == IF i \notin ids THEN outbox[i]
                        ELSE IF failed THEN [outbox[i] EXCEPT !.status = "failed", !.attempts = n]
                        ELSE [outbox[i] EXCEPT !.status = out, !.planned = runs[r].want]
           waits(i) == IF failed /\ i \in ids THEN Backoff(runs[r].tries) ELSE wait[i]
<1>1. /\ runs \in [Runs -> Run] /\ runs[r] \in Run /\ runs[r].pc = "mark" /\ outbox \in Seq(Row)
      /\ wait \in Seq(Int) /\ DOMAIN wait = DOMAIN outbox /\ disturbed \in Nat
      /\ runs[r].todo \cup runs[r].ids \subseteq DOMAIN outbox
  BY DEF Mark, Typed, TypeOK
<1>2. out \in {"sent", "planned", "skipped", "failed", "stop"} /\ n \in Nat /\ runs[r].want \in Nat
  <2>1. out # "none"
    BY <1>1 DEF Typed, Fit
  <2> QED BY <1>1, <2>1, OutboxAssumption DEF Run
<1>3. /\ outbox' = [i \in DOMAIN outbox |-> marked(i)]
      /\ wait' = [i \in DOMAIN wait |-> waits(i)]
      /\ runs' = [runs EXCEPT ![r] = x]
      /\ UNCHANGED <<world, sync, mode, disturbed>>
  <2>1. wait = [i \in DOMAIN wait |-> wait[i]]
    BY <1>1
  <2> QED BY <1>1, <2>1 DEF Mark
<1>4. ASSUME NEW i \in DOMAIN outbox PROVE marked(i) \in Row /\ marked(i).rec = outbox[i].rec
  <2>1. outbox[i] \in Row
    BY <1>1
  <2> HIDE DEF ids, n
  <2> QED BY <1>2, <2>1 DEF Row, Status
<1>5. ASSUME NEW i \in DOMAIN wait PROVE waits(i) \in Int
  <2>1. wait[i] \in Int /\ Backoff(runs[r].tries) \in Int
    BY <1>1, BackoffCounts DEF Run
  <2> QED BY <2>1
<1>6. x \in Run /\ x.todo = runs[r].todo /\ x.ids = {} /\ x.pc = "group"
  BY <1>1 DEF Run
<1> HIDE DEF x, marked, waits
<1>7. outbox' \in Seq(Row) /\ wait' \in Seq(Int) /\ DOMAIN wait' = DOMAIN outbox'
      /\ \A i \in DOMAIN outbox : i \in DOMAIN outbox' /\ outbox'[i].rec = outbox[i].rec
  <2>1. DOMAIN outbox = 1 .. Len(outbox) /\ Len(outbox) \in Nat
    BY <1>1
  <2>2. outbox' = [i \in 1 .. Len(outbox) |-> marked(i)] /\ wait' = [i \in 1 .. Len(outbox) |-> waits(i)]
    BY <1>1, <1>3, <2>1
  <2>3. outbox' \in Seq(Row) /\ wait' \in Seq(Int)
    <3>1. \A i \in 1 .. Len(outbox) : outbox'[i] \in Row
      BY <1>4, <2>1, <2>2
    <3>2. \A i \in 1 .. Len(outbox) : wait'[i] \in Int
      BY <1>1, <1>5, <2>1, <2>2
    <3>3. outbox' = [i \in 1 .. Len(outbox) |-> outbox'[i]] /\ wait' = [i \in 1 .. Len(outbox) |-> wait'[i]]
      BY <2>2
    <3>4. outbox' \in Seq(Row)
      BY <2>1, <3>1, <3>3
    <3>5. wait' \in Seq(Int)
      BY <2>1, <3>2, <3>3
    <3> QED BY <3>4, <3>5
  <2> QED BY <1>4, <2>1, <2>2, <2>3
<1>8. Grows
  BY <1>3, <1>7 DEF Grows, world, Typed, TypeOK
<1> QED BY <1>1, <1>3, <1>6, <1>7, <1>8, GoesOn, WorldStays

LEMMA DoneTyped ==
  ASSUME Typed, NEW r \in Runs, Done(r)
  PROVE  Typed'
<1>1. TypeOK /\ Grows /\ zuper' \in [Records -> Seq(Seq(Nat))] /\ runs' = [runs EXCEPT ![r] = Idle]
      /\ runs[r].pc = "group"
  BY StillGrows DEF Done, Typed
<1>2. runs'[r] = Idle
  BY <1>1 DEF TypeOK
<1>3. Fit(r)'
  BY <1>2, IdleTyped DEF Fit, Claimed
<1>4. /\ runs' \in [Runs -> Run]
      /\ \A q \in Runs : runs'[q].todo \cup runs'[q].ids \subseteq DOMAIN outbox'
      /\ \A q \in Runs : Fit(q)'
  BY <1>1, <1>3, IdleTyped, OneMoves
<1>5. /\ sync' \in [Syncs -> [pc : {"idle", "flush", "read", "write"}, read : Nat]]
      /\ \A s \in Syncs : /\ sync'[s].pc # "idle" => linked[s[2]] # 0
                          /\ sync'[s].pc = "flush" => "live" \in Modes
  <2>1. CASE r[2] = Tick
    BY <1>1, <2>1 DEF Done, Typed, TypeOK
  <2>2. CASE r[2] # Tick
    <3>1. r \in Syncs
      BY <2>2 DEF Runs, Syncs
    <3>2. linked[r[2]] # 0
      BY <1>1, <2>2 DEF Typed, Fit
    <3>3. sync' = [sync EXCEPT ![r].pc = "read"]
      BY <2>2 DEF Done
    <3> QED BY <1>1, <3>1, <3>2, <3>3 DEF Typed, TypeOK
  <2> QED BY <2>1, <2>2
<1> QED BY <1>1, <1>4, <1>5 DEF Done, world, Typed, TypeOK

(* No run moves. *)
LEMMA NoneMoves ==
  ASSUME Typed, Grows, zuper' \in [Records -> Seq(Seq(Nat))], UNCHANGED runs
  PROVE  /\ runs' \in [Runs -> Run]
         /\ \A q \in Runs : runs'[q].todo \cup runs'[q].ids \subseteq DOMAIN outbox'
         /\ \A q \in Runs : Fit(q)'
<1>1. runs' \in [Runs -> Run] /\ \A q \in Runs : runs[q].todo \cup runs[q].ids \subseteq DOMAIN outbox
  BY DEF Typed, TypeOK
<1>2. \A q \in Runs : Fit(q)'
  BY <1>1, FitStays
<1> QED BY <1>1, <1>2 DEF Grows

(* Rows and records change, no run or sync moves. *)
LEMMA WorldMoves ==
  ASSUME Typed, Grows, UNCHANGED <<runs, sync, linked>>, mode' \in Modes, disturbed' \in Nat,
         row' \in [Records -> Nat], newest' \in [Records -> Nat], twins' \in [Records -> SUBSET Nat],
         outbox' \in Seq(Row), wait' \in Seq(Int), DOMAIN wait' = DOMAIN outbox',
         zuper' \in [Records -> Seq(Seq(Nat))],
         \A k \in Records : \A n \in DOMAIN zuper'[k] : zuper'[k][n] # <<>>
  PROVE  Typed'
<1>1. /\ runs' \in [Runs -> Run]
      /\ \A q \in Runs : runs'[q].todo \cup runs'[q].ids \subseteq DOMAIN outbox'
      /\ \A q \in Runs : Fit(q)'
  BY NoneMoves
<1>2. linked' \in [Records -> Nat] /\ \A k \in Records : linked'[k] \in 0 .. Len(zuper'[k])
  <2>1. linked \in [Records -> Nat] /\ \A k \in Records : linked[k] \in 0 .. Len(zuper[k])
    BY DEF Typed, TypeOK
  <2>2. \A k \in Records : Len(zuper[k]) \in Nat /\ Len(zuper'[k]) \in Nat
                           /\ Len(zuper[k]) <= Len(zuper'[k])
    BY DEF Typed, TypeOK, Grows
  <2>3. linked' = linked
    OBVIOUS
  <2>4. ASSUME NEW k \in Records PROVE linked'[k] \in 0 .. Len(zuper'[k])
    <3>1. linked[k] \in 0 .. Len(zuper[k])
      BY <2>1
    <3>2. Len(zuper[k]) \in Nat /\ Len(zuper'[k]) \in Nat /\ Len(zuper[k]) <= Len(zuper'[k])
      BY <2>2
    <3> QED BY <2>3, <3>1, <3>2
  <2> QED BY <2>1, <2>3, <2>4
<1>3. wait' \in [DOMAIN outbox' -> Int]
  OBVIOUS
<1> QED BY <1>1, <1>2, <1>3 DEF Typed, TypeOK

LEMMA EditInTuperTyped ==
  ASSUME Typed, NEW k \in Records, EditInTuper(k)
  PROVE  Typed'
<1> DEFINE new == NewRow(k, IF newest[k] = 0 THEN "create" ELSE "update", newest[k] + 1)
<1>1. newest \in [Records -> Nat] /\ row \in [Records -> Nat] /\ mode \in Modes /\ disturbed \in Nat
  BY DEF Typed, TypeOK
<1>2. newest' = [newest EXCEPT ![k] = @ + 1] /\ row' = [row EXCEPT ![k] = newest'[k]]
      /\ wait' = Append(wait, 0) /\ UNCHANGED <<zuper, linked, twins, runs, sync, mode, disturbed>>
  BY DEF EditInTuper
<1>3. newest' \in [Records -> Nat] /\ newest'[k] = newest[k] + 1
  BY <1>1, <1>2
<1>4. outbox' = Append(outbox, new) /\ row' \in [Records -> Nat]
  BY <1>1, <1>2, <1>3 DEF EditInTuper
<1>5. new \in Row
  BY <1>1 DEF NewRow, Row, Status
<1> HIDE DEF new
<1>6. /\ outbox' \in Seq(Row) /\ wait' \in Seq(Int) /\ DOMAIN wait' = DOMAIN outbox'
      /\ \A i \in DOMAIN outbox : i \in DOMAIN outbox' /\ outbox'[i] = outbox[i]
  BY <1>2, <1>4, <1>5, RowAdded
<1>7. Grows
  BY <1>2, <1>6 DEF Grows, Typed, TypeOK
<1> QED BY <1>1, <1>2, <1>3, <1>4, <1>6, <1>7, WorldMoves DEF Typed, TypeOK

LEMMA EditInZuperTyped ==
  ASSUME Typed, NEW k \in Records, EditInZuper(k)
  PROVE  Typed'
<1> DEFINE n == linked[k]
           v == newest[k] + 1
           own == [zuper[k] EXCEPT ![n] = Append(@, v)]
<1>1. /\ newest \in [Records -> Nat] /\ disturbed \in Nat /\ zuper \in [Records -> Seq(Seq(Nat))]
      /\ \A h \in Records : \A m \in DOMAIN zuper[h] : zuper[h][m] # <<>>
      /\ linked[k] \in 0 .. Len(zuper[k]) /\ linked[k] # 0
  BY DEF EditInZuper, Typed, TypeOK
<1>2. /\ newest' = [newest EXCEPT ![k] = @ + 1] /\ disturbed' = disturbed + 1
      /\ zuper' = [zuper EXCEPT ![k][n] = Append(@, newest'[k])]
      /\ UNCHANGED <<row, linked, twins, outbox, wait, runs, sync, mode>>
  BY DEF EditInZuper, Disturb
<1>3. newest' \in [Records -> Nat] /\ newest'[k] = v /\ v \in Nat
  BY <1>1, <1>2
<1>4. zuper[k] \in Seq(Seq(Nat)) /\ n \in 1 .. Len(zuper[k]) /\ DOMAIN zuper[k] = 1 .. Len(zuper[k])
  BY <1>1
<1>5. own \in Seq(Seq(Nat)) /\ Len(own) = Len(zuper[k]) /\ DOMAIN own = DOMAIN zuper[k]
      /\ \A m \in DOMAIN own : own[m] # <<>>
  <2> DEFINE held == zuper[k][n]
  <2>1. held \in Seq(Nat)
    BY <1>4
  <2> HIDE DEF held, v
  <2>2. Append(held, v) \in Seq(Nat) /\ Append(held, v) # <<>>
    BY <1>3, <2>1, AppendProperties
  <2>3. own = [zuper[k] EXCEPT ![n] = Append(held, v)]
    BY DEF held
  <2> HIDE DEF own, n
  <2> QED BY <1>1, <1>4, <2>2, <2>3, ExceptSeq, SMTT(30)
<1>6. zuper' = [zuper EXCEPT ![k] = own]
  BY <1>1, <1>2, <1>3
<1> HIDE DEF own
<1>7. /\ zuper' \in [Records -> Seq(Seq(Nat))]
      /\ \A h \in Records : Len(zuper'[h]) = Len(zuper[h]) /\ Len(zuper[h]) \in Nat
      /\ \A h \in Records : \A m \in DOMAIN zuper'[h] : zuper'[h][m] # <<>>
  BY <1>1, <1>5, <1>6
<1>8. Grows
  BY <1>2, <1>7 DEF Grows
<1>9. /\ row' \in [Records -> Nat] /\ twins' \in [Records -> SUBSET Nat] /\ mode' \in Modes
      /\ outbox' \in Seq(Row) /\ wait' \in Seq(Int) /\ DOMAIN wait' = DOMAIN outbox' /\ disturbed' \in Nat
  BY <1>1, <1>2 DEF Typed, TypeOK
<1> QED BY <1>2, <1>3, <1>7, <1>8, <1>9, WorldMoves

(* What only relabels rows, or switches the mode. *)
LEMMA LabelTyped ==
  ASSUME Typed, (\E i \in DOMAIN outbox : Told(i) \/ GrowOld(i)) \/ Switch \/ DiscardUnsent
  PROVE  Typed'
<1>1. /\ UNCHANGED <<world, wait, runs, sync>>
      /\ disturbed \in Nat /\ outbox \in Seq(Row) /\ mode \in Modes
      /\ wait \in Seq(Int) /\ DOMAIN wait = DOMAIN outbox
  BY DEF Told, GrowOld, Switch, DiscardUnsent, Typed, TypeOK
<1>2. disturbed' \in Nat /\ mode' \in Modes
  BY <1>1 DEF Told, GrowOld, Switch, DiscardUnsent, Disturb, Calm
<1>3. /\ outbox' \in Seq(Row) /\ DOMAIN outbox' = DOMAIN outbox
      /\ \A i \in DOMAIN outbox : outbox'[i].rec = outbox[i].rec
  <2>1. ASSUME NEW i \in DOMAIN outbox, Told(i) \/ GrowOld(i)
        PROVE  \E new \in Row : outbox' = [outbox EXCEPT ![i] = new] /\ new.rec = outbox[i].rec
    <3>1. outbox[i] \in Row
      BY <1>1
    <3>2. CASE Told(i)
      <4>1. PICK to \in {"dropped", "queued"} : outbox' = [outbox EXCEPT ![i].status = to]
        BY <3>2 DEF Told
      <4> DEFINE new == [outbox[i] EXCEPT !.status = to]
      <4>2. new \in Row /\ new.rec = outbox[i].rec
        BY <3>1 DEF Row, Status
      <4>3. outbox' = [outbox EXCEPT ![i] = new]
        BY <4>1
      <4> QED BY <4>2, <4>3
    <3>3. CASE GrowOld(i)
      <4> DEFINE new == [outbox[i] EXCEPT !.age = "old"]
      <4>1. new \in Row /\ new.rec = outbox[i].rec
        BY <3>1 DEF Row
      <4>2. outbox' = [outbox EXCEPT ![i] = new]
        BY <3>3 DEF GrowOld
      <4> QED BY <4>1, <4>2
    <3> QED BY <2>1, <3>2, <3>3
  <2>2. CASE \E i \in DOMAIN outbox : Told(i) \/ GrowOld(i)
    <3>1. PICK i \in DOMAIN outbox, new \in Row :
             outbox' = [outbox EXCEPT ![i] = new] /\ new.rec = outbox[i].rec
      BY <2>1, <2>2
    <3> QED BY <1>1, <3>1, ExceptSeq
  <2>3. CASE DiscardUnsent
    BY <2>3, Relabelled DEF DiscardUnsent, Status
  <2>4. CASE Switch
    BY <1>1, <2>4 DEF Switch
  <2> QED BY <2>2, <2>3, <2>4
<1>4. Grows
  BY <1>1, <1>3 DEF Grows, world, Typed, TypeOK
<1>5. UNCHANGED <<runs, sync, linked>>
  BY <1>1 DEF world
<1> QED BY <1>1, <1>2, <1>3, <1>4, <1>5, WorldStays, WorldMoves DEF Typed, TypeOK

LEMMA SyncTyped ==
  ASSUME Typed, \E s \in Syncs : SyncStarts(s) \/ SyncReads(s) \/ SyncWrites(s)
  PROVE  Typed'
<1> DEFINE State == [pc : {"idle", "flush", "read", "write"}, read : Nat]
<1>1. PICK s \in Syncs : SyncStarts(s) \/ SyncReads(s) \/ SyncWrites(s)
  OBVIOUS
<1>2. s[2] \in Records /\ sync \in [Syncs -> State] /\ sync[s] \in State
  BY DEF Typed, TypeOK, Syncs
<1>3. UNCHANGED <<newest, zuper, linked, twins, outbox, wait, runs, mode, disturbed>>
  BY <1>1 DEF SyncStarts, SyncReads, SyncWrites, world
<1>4. row' \in [Records -> Nat]
  BY <1>1, <1>2 DEF SyncStarts, SyncReads, SyncWrites, world, Typed, TypeOK
<1>5. ASSUME linked[s[2]] # 0 PROVE Now(s[2], linked[s[2]]) \in Nat
  <2> DEFINE held == zuper[s[2]][linked[s[2]]]
  <2>1. zuper[s[2]] \in Seq(Seq(Nat)) /\ linked[s[2]] \in 1 .. Len(zuper[s[2]])
    BY <1>2, <1>5 DEF Typed, TypeOK
  <2>2. held \in Seq(Nat) /\ held # <<>>
    BY <1>2, <2>1, SMTT(30) DEF Typed
  <2> HIDE DEF held
  <2>3. Len(held) \in 1 .. Len(held)
    BY <2>2
  <2>4. held[Len(held)] \in Nat
    BY <2>2, <2>3
  <2> QED BY <2>4 DEF Now, Last, held
<1>6. PICK to \in State : /\ sync' = [sync EXCEPT ![s] = to]
                          /\ to.pc # "idle" => linked[s[2]] # 0
                          /\ to.pc = "flush" => mode = "live"
  <2>1. CASE SyncStarts(s)
    <3> DEFINE flush == Effective(mode, s[2]) = "live"
               to == [sync[s] EXCEPT !.pc = IF flush THEN "flush" ELSE "read"]
    <3>1. sync' = [sync EXCEPT ![s] = to] /\ linked[s[2]] # 0
      BY <1>2, <2>1 DEF SyncStarts
    <3>2. flush => mode = "live"
      BY DEF Effective
    <3> HIDE DEF flush
    <3>3. to \in State /\ to.pc = IF flush THEN "flush" ELSE "read"
      BY <1>2
    <3> HIDE DEF to
    <3> QED BY <3>1, <3>2, <3>3
  <2>2. CASE SyncReads(s)
    <3> DEFINE to == [pc |-> "write", read |-> Now(s[2], linked[s[2]])]
    <3>1. sync' = [sync EXCEPT ![s] = to] /\ linked[s[2]] # 0
      BY <1>2, <2>2 DEF SyncReads, Typed
    <3>2. to \in State /\ to.pc = "write"
      BY <1>5, <3>1
    <3> HIDE DEF to
    <3> QED BY <3>1, <3>2
  <2>3. CASE SyncWrites(s)
    <3>1. Asleep \in State /\ Asleep.pc = "idle" /\ sync' = [sync EXCEPT ![s] = Asleep]
      BY <2>3 DEF SyncWrites, Asleep
    <3> QED BY <3>1
  <2> QED BY <1>1, <2>1, <2>2, <2>3
<1>7. /\ sync' \in [Syncs -> State]
      /\ \A t \in Syncs : /\ sync'[t].pc # "idle" => linked[t[2]] # 0
                          /\ sync'[t].pc = "flush" => "live" \in Modes
  BY <1>2, <1>6 DEF Typed, TypeOK
<1>8. Grows /\ zuper' \in [Records -> Seq(Seq(Nat))]
  BY <1>3 DEF Grows, Typed, TypeOK
<1>9. /\ runs' \in [Runs -> Run]
      /\ \A q \in Runs : runs'[q].todo \cup runs'[q].ids \subseteq DOMAIN outbox'
      /\ \A q \in Runs : Fit(q)'
  BY <1>3, <1>8, NoneMoves
<1> QED BY <1>3, <1>4, <1>7, <1>8, <1>9 DEF Typed, TypeOK

LEMMA ImportTyped ==
  ASSUME Typed, \E c \in Containers, k \in Records : Import(c, k)
  PROVE  Typed'
<1>0. PICK k \in Records : \E n \in DOMAIN zuper[k] : twins' = [twins EXCEPT ![k] = @ \cup {n}]
  BY DEF Import
<1>1. PICK n \in DOMAIN zuper[k] : twins' = [twins EXCEPT ![k] = @ \cup {n}]
  BY <1>0
<1>2. UNCHANGED <<row, newest, zuper, linked, outbox, wait, runs, sync, mode, disturbed>>
  BY DEF Import
<1>3. n \in Nat /\ twins \in [Records -> SUBSET Nat]
  BY <1>1 DEF Typed, TypeOK
<1>4. twins' \in [Records -> SUBSET Nat]
  <2>1. twins[k] \cup {n} \in SUBSET Nat
    BY <1>3
  <2> QED BY <1>1, <1>3, <2>1
<1>5. Grows
  BY <1>2 DEF Grows, Typed, TypeOK
<1> QED BY <1>2, <1>4, <1>5, WorldMoves DEF Typed, TypeOK

LEMMA CrashTyped ==
  ASSUME Typed, NEW c \in Containers, Crash(c)
  PROVE  Typed'
<1>1. /\ runs' = [r \in Runs |-> IF r[1] = c THEN Idle ELSE runs[r]]
      /\ sync' = [s \in Syncs |-> IF s[1] = c THEN Asleep ELSE sync[s]]
      /\ UNCHANGED <<world, outbox, wait, mode>> /\ disturbed' = disturbed + 1
  BY DEF Crash, Disturb
<1>2. Grows /\ zuper' \in [Records -> Seq(Seq(Nat))] /\ runs \in [Runs -> Run]
  BY <1>1, StillGrows DEF Typed, TypeOK
<1>3. \A q \in Runs : runs'[q] = Idle \/ runs'[q] = runs[q]
  BY <1>1
<1>4. runs' \in [Runs -> Run]
  BY <1>1, <1>2, IdleTyped
<1>5. ASSUME NEW q \in Runs PROVE runs'[q].todo \cup runs'[q].ids \subseteq DOMAIN outbox'
  BY <1>1, <1>3, IdleTyped DEF Typed, TypeOK
<1>6. ASSUME NEW q \in Runs PROVE Fit(q)'
  <2>1. CASE runs'[q] = Idle
    BY <2>1, IdleTyped DEF Fit, Claimed
  <2>2. CASE runs'[q] = runs[q]
    BY <1>2, <1>4, <2>2, FitStays
  <2> QED BY <1>3, <2>1, <2>2
<1>7. /\ sync' \in [Syncs -> [pc : {"idle", "flush", "read", "write"}, read : Nat]]
      /\ \A s \in Syncs : sync'[s] = sync[s] \/ sync'[s].pc = "idle"
  BY <1>1 DEF Typed, TypeOK, Asleep
<1>8. \A s \in Syncs : /\ sync'[s].pc # "idle" => linked[s[2]] # 0
                       /\ sync'[s].pc = "flush" => "live" \in Modes
  BY <1>7 DEF Typed
<1> QED BY <1>1, <1>4, <1>5, <1>6, <1>7, <1>8, WorldStays, SMTT(30) DEF Typed, TypeOK

LEMMA ElapseTyped ==
  ASSUME Typed, Elapse
  PROVE  Typed'
<1> DEFINE aged(i) == [outbox[i] EXCEPT !.age = IF @ = "new" /\ outbox[i].status # "told"
                                                THEN "settled" ELSE @]
           waits(i) == IF wait[i] > -MaxSlow THEN wait[i] - 1 ELSE wait[i]
<1>1. /\ wait' = [i \in DOMAIN wait |-> waits(i)]
      /\ outbox' = [i \in DOMAIN outbox |-> aged(i)]
      /\ runs' = [r \in Runs |-> IF runs[r].pc = "idle" THEN runs[r] ELSE [runs[r] EXCEPT !.age = @ + 1]]
      /\ UNCHANGED <<world, sync, mode, disturbed>>
  BY DEF Elapse
<1>2. /\ outbox \in Seq(Row) /\ wait \in Seq(Int) /\ DOMAIN wait = DOMAIN outbox /\ runs \in [Runs -> Run]
  BY DEF Typed, TypeOK
<1>3. ASSUME NEW i \in DOMAIN outbox PROVE aged(i) \in Row /\ aged(i).rec = outbox[i].rec
  <2>1. outbox[i] \in Row
    BY <1>2
  <2> QED BY <2>1 DEF Row
<1>4. ASSUME NEW i \in DOMAIN wait PROVE waits(i) \in Int
  BY <1>2
<1> HIDE DEF aged, waits
<1>5. outbox' \in Seq(Row) /\ wait' \in Seq(Int) /\ DOMAIN wait' = DOMAIN outbox'
      /\ \A i \in DOMAIN outbox : i \in DOMAIN outbox' /\ outbox'[i].rec = outbox[i].rec
  <2>1. DOMAIN outbox = 1 .. Len(outbox) /\ Len(outbox) \in Nat
    BY <1>2
  <2>2. outbox' = [i \in 1 .. Len(outbox) |-> aged(i)] /\ wait' = [i \in 1 .. Len(outbox) |-> waits(i)]
    BY <1>1, <1>2, <2>1
  <2>3. \A i \in 1 .. Len(outbox) : outbox'[i] \in Row
    BY <1>3, <2>1, <2>2
  <2>4. \A i \in 1 .. Len(outbox) : wait'[i] \in Int
    BY <1>2, <1>4, <2>1, <2>2
  <2>5. outbox' = [i \in 1 .. Len(outbox) |-> outbox'[i]] /\ wait' = [i \in 1 .. Len(outbox) |-> wait'[i]]
    BY <2>2
  <2>6. outbox' \in Seq(Row)
    BY <2>1, <2>3, <2>5
  <2>7. wait' \in Seq(Int)
    BY <2>1, <2>4, <2>5
  <2> QED BY <1>3, <2>1, <2>2, <2>6, <2>7
<1>6. Grows /\ zuper' \in [Records -> Seq(Seq(Nat))]
  BY <1>1, <1>5 DEF Grows, world, Typed, TypeOK
<1>7. ASSUME NEW q \in Runs
      PROVE  /\ runs'[q] \in Run
             /\ runs'[q].pc = runs[q].pc /\ runs'[q].ids = runs[q].ids /\ runs'[q].out = runs[q].out
             /\ runs'[q].link = runs[q].link /\ runs'[q].todo = runs[q].todo
  <2>1. runs[q] \in Run /\ runs'[q] \in {runs[q], [runs[q] EXCEPT !.age = @ + 1]}
    BY <1>1, <1>2
  <2> QED BY <2>1 DEF Run
<1>8. /\ runs' \in [Runs -> Run]
      /\ \A q \in Runs : runs'[q].todo \cup runs'[q].ids \subseteq DOMAIN outbox'
  <2>1. runs' \in [Runs -> Run]
    BY <1>1, <1>7
  <2> QED BY <1>6, <1>7, <2>1 DEF Typed, TypeOK, Grows
<1>9. ASSUME NEW q \in Runs PROVE Fit(q)'
  BY <1>6, <1>7, FitStays
<1> QED BY <1>1, <1>5, <1>6, <1>8, <1>9, WorldStays DEF Typed, TypeOK

LEMMA NextTyped ==
  ASSUME Typed, [Next]_vars
  PROVE  Typed'
<1>1. ASSUME NEW k \in Records, EditInTuper(k) \/ EditInZuper(k) PROVE Typed'
  BY <1>1, EditInTuperTyped, EditInZuperTyped
<1>2. ASSUME NEW r \in Runs, Select(r) \/ InTurn(r) \/ Step(r) PROVE Typed'
  BY <1>2, SelectTyped, GroupTyped, ClaimTyped, PlanTyped, PutTyped, PostTyped, LinkTyped,
     FollowUpTyped, MarkTyped, DoneTyped DEF InTurn, Step
<1>3. CASE UNCHANGED vars
  <2>1. UNCHANGED <<world, outbox>> /\ UNCHANGED <<runs, sync, linked, mode, disturbed, wait>>
    BY <1>3 DEF vars, world
  <2> QED BY <2>1, StillGrows, WorldStays, WorldMoves DEF Typed, TypeOK
<1> QED BY <1>1, <1>2, <1>3, LabelTyped, SyncTyped, ImportTyped, CrashTyped, ElapseTyped DEF Next

(* The queue, the runs and both systems' records keep their types, whatever goes wrong. *)
THEOREM OutboxTyped == Spec => []TypeOK
<1>1. Typed => TypeOK
  BY DEF Typed
<1>2. Init => Typed
  BY InitTyped
<1>3. Typed /\ [Next]_vars => Typed'
  BY NextTyped
<1> QED BY <1>1, <1>2, <1>3, PTL DEF Spec

(* A step of one run leaves the others where they are. *)
LEMMA OthersStay ==
  ASSUME Typed, NEW r \in Runs, Select(r) \/ InTurn(r) \/ Step(r), NEW q \in Runs, q # r
  PROVE  runs'[q] = runs[q]
BY DEF Typed, TypeOK, Select, InTurn, Step, Group, Claim, PlanRow, Compare, Put, Verify, Post,
       Link, FollowUp, Mark, Done, Go, End

(* Rows get into a run's hands by its claim alone, and stay there until it has marked them. *)
LEMMA WhoClaims ==
  ASSUME Typed, [Next]_vars, ~Elapse, NEW q \in Runs, runs'[q].pc \in Claimed
  PROVE  \/ runs[q].pc \in Claimed /\ runs'[q].ids = runs[q].ids /\ runs'[q].age = runs[q].age
         \/ Claim(q)
<1> DEFINE Kept == runs[q].pc \in Claimed /\ runs'[q].ids = runs[q].ids /\ runs'[q].age = runs[q].age
<1>1. runs \in [Runs -> Run] /\ \A r \in Runs : runs[r] \in Run
  BY DEF Typed, TypeOK
<1>2. CASE runs'[q] = runs[q]
  BY <1>2
<1>3. ASSUME NEW r \in Runs, Select(r) \/ InTurn(r) \/ Step(r) PROVE Kept \/ Claim(q)
  <2>1. CASE r # q
    <3>1. runs'[q] = runs[q]
      BY <1>3, <2>1, OthersStay
    <3> QED BY <1>2, <3>1
  <2>2. CASE Select(q)
    <3>1. runs'[q] = runs[q] \/ runs'[q].pc = "group"
      BY <1>1, <2>2 DEF Select, Idle
    <3> QED BY <1>2, <3>1 DEF Claimed
  <2>3. CASE Group(q)
    <3>1. runs'[q].pc \in {"group", "claim"}
      BY <1>1, <2>3 DEF Group, Run
    <3> QED BY <3>1 DEF Claimed
  <2>4. CASE PlanRow(q) \/ Compare(q) \/ Verify(q) \/ Put(q) \/ Post(q) \/ Link(q) \/ FollowUp(q)
    <3>1. runs[q].pc \in Claimed
      BY <2>4 DEF PlanRow, Compare, Put, Verify, Post, Link, FollowUp, Claimed
    <3>2. CASE PlanRow(q)
      BY <1>1, <3>1, <3>2 DEF PlanRow, Run
    <3>3. CASE Compare(q) \/ Verify(q) \/ Put(q) \/ FollowUp(q) \/ Link(q)
      BY <1>1, <3>1, <3>3 DEF Compare, Verify, Put, FollowUp, Link, Go, End, Run
    <3>4. CASE Post(q)
      BY <1>1, <3>1, <3>4 DEF Post, End, Run
    <3> QED BY <2>4, <3>2, <3>3, <3>4
  <2>5. CASE Mark(q) \/ Done(q)
    <3>1. runs'[q].pc \in {"group", "idle"}
      <4>1. CASE Mark(q)
        BY <1>1, <4>1 DEF Mark, Run
      <4>2. CASE Done(q)
        BY <1>1, <4>2, IdleTyped DEF Done
      <4> QED BY <2>5, <4>1, <4>2
    <3> QED BY <3>1 DEF Claimed
  <2> QED BY <1>3, <2>1, <2>2, <2>3, <2>4, <2>5 DEF InTurn, Step
<1>4. CASE \E c \in Containers : Crash(c)
  <2>1. runs'[q] = Idle \/ runs'[q] = runs[q]
    BY <1>4 DEF Crash
  <2> QED BY <1>2, <2>1, IdleTyped DEF Claimed
<1>5. CASE \/ UNCHANGED vars
           \/ \E k \in Records : EditInTuper(k) \/ EditInZuper(k)
           \/ \E i \in DOMAIN outbox : Told(i) \/ GrowOld(i)
           \/ \E s \in Syncs : SyncStarts(s) \/ SyncReads(s) \/ SyncWrites(s)
           \/ \E c \in Containers, k \in Records : Import(c, k)
           \/ Switch \/ DiscardUnsent
  <2>1. UNCHANGED runs
    BY <1>5 DEF vars, EditInTuper, EditInZuper, Told, GrowOld, SyncStarts, SyncReads, SyncWrites,
                Import, Switch, DiscardUnsent
  <2> QED BY <1>2, <2>1
<1> QED BY <1>3, <1>4, <1>5 DEF Next

(* A row's clock is set by the run that claims it, or by the one that marks it failed. *)
LEMMA WhoSetsClock ==
  ASSUME Typed, [Next]_vars, ~Elapse, NEW i \in DOMAIN outbox
  PROVE  \/ wait'[i] = wait[i]
         \/ \E r \in Runs : Claim(r) /\ i \in runs[r].ids /\ wait[i] + runs[r].age <= 0
         \/ \E r \in Runs : Mark(r) /\ i \in runs[r].ids
<1>1. wait \in Seq(Int) /\ DOMAIN wait = DOMAIN outbox
  BY DEF Typed, TypeOK
<1>2. ASSUME NEW r \in Runs, Claim(r) PROVE wait'[i] = wait[i]
             \/ (i \in runs[r].ids /\ wait[i] + runs[r].age <= 0)
  <2> DEFINE mine == {j \in runs[r].ids : /\ outbox[j].status \in Statuses(runs[r].mode)
                                          /\ wait[j] + runs[r].age <= 0}
  <2>1. wait' = [j \in DOMAIN wait |-> IF j \in mine THEN Lease - runs[r].age ELSE wait[j]]
    BY <1>2 DEF Claim
  <2>2. wait'[i] = wait[i] \/ i \in mine
    BY <1>1, <2>1
  <2> QED BY <2>2
<1>3. ASSUME NEW r \in Runs, Mark(r) PROVE wait'[i] = wait[i] \/ i \in runs[r].ids
  <2> DEFINE ids == {j \in runs[r].ids : outbox[j].status # "gone"}
  <2>1. \/ wait' = wait
        \/ wait' = [j \in DOMAIN wait |-> IF j \in ids THEN Backoff(runs[r].tries) ELSE wait[j]]
    BY <1>3 DEF Mark
  <2>2. wait'[i] = wait[i] \/ i \in ids
    BY <1>1, <2>1
  <2> QED BY <2>2
<1>4. ASSUME NEW w \in Int, wait' = Append(wait, w) PROVE wait'[i] = wait[i]
  BY <1>1, <1>4, AppendProperties
<1>5. ASSUME NEW r \in Runs, FollowUp(r) PROVE wait'[i] = wait[i]
  <2>1. wait' = Append(wait, 1)
    BY <1>5 DEF FollowUp
  <2>2. 1 \in Int
    OBVIOUS
  <2> QED BY <1>4, <2>1, <2>2
<1>6. ASSUME NEW k \in Records, EditInTuper(k) PROVE wait'[i] = wait[i]
  <2>1. wait' = Append(wait, 0)
    BY <1>6 DEF EditInTuper
  <2>2. 0 \in Int
    OBVIOUS
  <2> QED BY <1>4, <2>1, <2>2
<1>7. ASSUME NEW r \in Runs, Select(r) \/ Group(r) \/ PlanRow(r) \/ Compare(r) \/ Put(r) \/ Verify(r)
                             \/ Post(r) \/ Link(r) \/ Done(r)
      PROVE  UNCHANGED wait
  BY <1>7 DEF Select, Group, PlanRow, Compare, Put, Verify, Post, Link, Done
<1>8. CASE \/ UNCHANGED vars
           \/ \E k \in Records : EditInZuper(k)
           \/ \E j \in DOMAIN outbox : Told(j) \/ GrowOld(j)
           \/ \E s \in Syncs : SyncStarts(s) \/ SyncReads(s) \/ SyncWrites(s)
           \/ \E c \in Containers, k \in Records : Import(c, k)
           \/ \E c \in Containers : Crash(c)
           \/ Switch \/ DiscardUnsent
  <2>1. UNCHANGED wait
    BY <1>8 DEF vars, EditInZuper, Told, GrowOld, SyncStarts, SyncReads, SyncWrites,
                Import, Crash, Switch, DiscardUnsent
  <2> QED BY <2>1
<1> QED BY <1>2, <1>3, <1>5, <1>6, <1>7, <1>8 DEF Next, InTurn, Step

(* A claim outlives the batch that made it: from the moment the batch read the clock to the end of *)
(* the lease there is at least a whole lease, and a batch is over before that.                      *)
InTime == \A r \in Runs : runs[r].age < Lease
Leased == \A r \in Runs : runs[r].pc \in Claimed =>
            \A i \in runs[r].ids : wait[i] + runs[r].age >= Lease
Sole == Typed /\ InTime /\ Leased /\ OneRunner

LEMMA InitSole == ASSUME Init PROVE Sole
<1>1. Typed
  BY InitTyped
<1>2. \A r \in Runs : runs[r] = Idle
  BY DEF Init
<1>3. \A r \in Runs : runs[r].age = 0 /\ runs[r].pc \notin Claimed
  BY <1>2, IdleTyped DEF Claimed
<1>4. InTime
  BY <1>3, OutboxAssumption DEF InTime
<1> QED BY <1>1, <1>3, <1>4 DEF Sole, Leased, OneRunner

(* What is held cannot be claimed. *)
LEMMA HeldIsNotDue ==
  ASSUME Sole, NEW q \in Runs, NEW r \in Runs, runs[q].pc \in Claimed, NEW i \in runs[q].ids,
         wait[i] + runs[r].age <= 0
  PROVE  FALSE
<1>1. runs[q] \in Run /\ runs[r] \in Run /\ i \in DOMAIN outbox
  BY DEF Sole, Typed, TypeOK
<1>2. runs[q].age \in Nat /\ runs[r].age \in Nat /\ wait[i] \in Int
  BY <1>1 DEF Sole, Typed, TypeOK, Run
<1>3. wait[i] + runs[q].age >= Lease /\ runs[q].age < Lease
  BY DEF Sole, Leased, InTime
<1> QED BY <1>2, <1>3, OutboxAssumption

LEMMA AgesInTime ==
  ASSUME Sole, [Next]_vars, "slow" \notin Disturbances
  PROVE  InTime'
<1>1. Typed /\ runs \in [Runs -> Run] /\ \A r \in Runs : runs[r] \in Run
  BY DEF Sole, Typed, TypeOK
<1>2. SUFFICES ASSUME NEW q \in Runs PROVE runs'[q].age < Lease
  BY DEF InTime
<1>3. runs[q].age < Lease /\ runs[q].age \in Nat /\ Idle.age < Lease /\ Lease \in Nat
  BY <1>1, IdleTyped, OutboxAssumption DEF Sole, InTime, Run
<1>4. CASE Elapse
  <2>1. runs'[q] = IF runs[q].pc = "idle" THEN runs[q] ELSE [runs[q] EXCEPT !.age = @ + 1]
    BY <1>1, <1>4 DEF Elapse
  <2>2. runs[q].pc # "idle" => runs[q].age < Lease - 1
    BY <1>4 DEF Elapse
  <2>3. runs[q].pc # "idle" => runs'[q].age = runs[q].age + 1
    BY <1>1, <2>1 DEF Run
  <2> QED BY <1>3, <2>1, <2>2, <2>3
<1>5. CASE runs'[q].age = runs[q].age \/ runs'[q].age = Idle.age
  BY <1>3, <1>5
<1>6. ASSUME NEW r \in Runs, Select(r) \/ InTurn(r) \/ Step(r)
      PROVE  runs'[q].age = runs[q].age \/ runs'[q].age = Idle.age
  <2>1. CASE r # q
    BY <1>1, <1>6, <2>1, OthersStay
  <2>2. CASE Select(q)
    <3> DEFINE m == IF q[2] = Tick THEN mode ELSE "live"
               limit == IF q[2] = Tick THEN Batch ELSE 1
               due == {i \in DOMAIN outbox : /\ outbox[i].status \in Statuses(m)
                                             /\ Due(i) /\ outbox[i].attempts < MaxAttempts
                                             /\ q[2] # Tick => outbox[i].rec = q[2]}
               got == Chosen(due, limit)
               x == [Idle EXCEPT !.pc = "group", !.mode = m, !.todo = got,
                        !.queued = {i \in got : outbox[i].status = "queued"},
                        !.fresh = {i \in got : outbox[i].age = "new"},
                        !.stale = {i \in got : outbox[i].age = "old" /\ outbox[i].status # "failed"}]
    <3>1. runs' = runs \/ runs' = [runs EXCEPT ![q] = x]
      BY <2>2 DEF Select
    <3>2. x.age = Idle.age
      BY IdleTyped DEF Run
    <3> HIDE DEF x
    <3> QED BY <1>1, <3>1, <3>2
  <2>3. CASE Group(q)
    BY <1>1, <2>3, ZenonT(40) DEF Group, Run
  <2>4. CASE Claim(q)
    BY <1>1, <2>4 DEF Claim, Run
  <2>5. CASE PlanRow(q)
    BY <1>1, <2>5 DEF PlanRow, Run
  <2>6. CASE Compare(q) \/ Verify(q) \/ Put(q) \/ FollowUp(q) \/ Link(q)
    BY <1>1, <2>6, SMTT(30) DEF Compare, Verify, Put, FollowUp, Link, Go, End, Run
  <2>7. CASE Post(q)
    BY <1>1, <2>7 DEF Post, End, Run
  <2>8. CASE Mark(q)
    BY <1>1, <2>8 DEF Mark, Run
  <2>9. CASE Done(q)
    BY <1>1, <2>9 DEF Done
  <2> QED BY <1>6, <2>1, <2>2, <2>3, <2>4, <2>5, <2>6, <2>7, <2>8, <2>9 DEF InTurn, Step
<1>7. CASE \E c \in Containers : Crash(c)
  <2>1. runs'[q] = Idle \/ runs'[q] = runs[q]
    BY <1>7 DEF Crash
  <2> QED BY <1>5, <2>1
<1>8. CASE \/ UNCHANGED vars
           \/ \E k \in Records : EditInTuper(k) \/ EditInZuper(k)
           \/ \E i \in DOMAIN outbox : Told(i) \/ GrowOld(i)
           \/ \E s \in Syncs : SyncStarts(s) \/ SyncReads(s) \/ SyncWrites(s)
           \/ \E c \in Containers, k \in Records : Import(c, k)
           \/ Switch \/ DiscardUnsent
  <2>1. UNCHANGED runs
    BY <1>8 DEF vars, EditInTuper, EditInZuper, Told, GrowOld, SyncStarts, SyncReads, SyncWrites,
                Import, Switch, DiscardUnsent
  <2> QED BY <1>5, <2>1
<1> QED BY <1>4, <1>5, <1>6, <1>7, <1>8 DEF Next

(* A row that another run holds is not due for anyone, and only who holds it marks it. *)
LEMMA HeldKeepsClock ==
  ASSUME Sole, [Next]_vars, ~Elapse, NEW q \in Runs, runs[q].pc \in Claimed, runs'[q].pc \in Claimed,
         NEW i \in runs[q].ids
  PROVE  wait'[i] = wait[i]
<1>1. Typed /\ i \in DOMAIN outbox /\ runs \in [Runs -> Run] /\ \A r \in Runs : runs[r] \in Run
  BY DEF Sole, Typed, TypeOK
<1>2. ASSUME NEW r \in Runs, Claim(r), wait[i] + runs[r].age <= 0 PROVE FALSE
  BY <1>2, HeldIsNotDue
<1>3. ASSUME NEW r \in Runs, Mark(r), i \in runs[r].ids PROVE FALSE
  <2>1. runs[r].pc \in Claimed
    BY <1>3 DEF Mark, Claimed
  <2>2. r = q
    BY <1>3, <2>1 DEF Sole, OneRunner
  <2>3. runs'[r].pc = "group"
    BY <1>1, <1>3 DEF Mark, Run
  <2> QED BY <2>2, <2>3 DEF Claimed
<1> QED BY <1>1, <1>2, <1>3, WhoSetsClock

LEMMA LeaseLasts ==
  ASSUME Sole, [Next]_vars
  PROVE  Leased'
<1>1. /\ Typed /\ runs \in [Runs -> Run] /\ \A r \in Runs : runs[r] \in Run
      /\ wait \in Seq(Int) /\ DOMAIN wait = DOMAIN outbox
      /\ \A r \in Runs : runs[r].ids \subseteq DOMAIN outbox
  BY DEF Sole, Typed, TypeOK
<1>2. SUFFICES ASSUME NEW q \in Runs, runs'[q].pc \in Claimed, NEW i \in runs'[q].ids
               PROVE  wait'[i] + runs'[q].age >= Lease
  BY DEF Leased
<1>3. CASE Elapse
  <2>1. runs'[q] = IF runs[q].pc = "idle" THEN runs[q] ELSE [runs[q] EXCEPT !.age = @ + 1]
    BY <1>1, <1>3 DEF Elapse
  <2>2. runs'[q].pc = runs[q].pc /\ runs'[q].ids = runs[q].ids
        /\ (runs[q].pc # "idle" => runs'[q].age = runs[q].age + 1)
    BY <1>1, <2>1 DEF Run
  <2>3. runs[q].pc \in Claimed /\ runs[q].pc # "idle" /\ i \in runs[q].ids
    BY <1>2, <2>2 DEF Claimed
  <2>4. wait[i] + runs[q].age >= Lease /\ wait[i] \in Int /\ runs[q].age \in Nat
    BY <1>1, <2>3 DEF Sole, Leased, Run
  <2>5. wait'[i] = IF wait[i] > -MaxSlow THEN wait[i] - 1 ELSE wait[i]
    BY <1>1, <1>3, <2>3 DEF Elapse
  <2>6. wait'[i] >= wait[i] - 1 /\ wait'[i] \in Int
    BY <2>4, <2>5
  <2> QED BY <2>2, <2>3, <2>4, <2>6, OutboxAssumption
<1>4. CASE ~Elapse /\ Claim(q)
  <2> DEFINE mine == {j \in runs[q].ids : /\ outbox[j].status \in Statuses(runs[q].mode)
                                          /\ wait[j] + runs[q].age <= 0}
  <2>1. runs'[q].ids = mine /\ runs'[q].age = runs[q].age
    BY <1>1, <1>4 DEF Claim, Run
  <2>2. wait' = [j \in DOMAIN wait |-> IF j \in mine THEN Lease - runs[q].age ELSE wait[j]]
    BY <1>4 DEF Claim
  <2>3. i \in mine /\ i \in DOMAIN wait
    BY <1>1, <2>1
  <2>4. wait'[i] = Lease - runs[q].age
    BY <2>2, <2>3
  <2>5. runs[q].age \in Nat
    BY <1>1 DEF Run
  <2> QED BY <2>1, <2>4, <2>5, OutboxAssumption
<1>5. CASE ~Elapse /\ ~Claim(q)
  <2>1. runs[q].pc \in Claimed /\ runs'[q].ids = runs[q].ids /\ runs'[q].age = runs[q].age
    BY <1>1, <1>2, <1>5, WhoClaims
  <2>2. wait'[i] = wait[i]
    BY <1>2, <1>5, <2>1, HeldKeepsClock
  <2> QED BY <1>2, <2>1, <2>2 DEF Sole, Leased
<1> QED BY <1>3, <1>4, <1>5

LEMMA StillOneRunner ==
  ASSUME Sole, [Next]_vars
  PROVE  OneRunner'
<1>1. /\ Typed /\ runs \in [Runs -> Run] /\ \A r \in Runs : runs[r] \in Run
  BY DEF Sole, Typed, TypeOK
<1>2. SUFFICES ASSUME NEW q \in Runs, NEW r \in Runs, q # r,
                      runs'[q].pc \in Claimed, runs'[r].pc \in Claimed
               PROVE  runs'[q].ids \cap runs'[r].ids = {}
  BY DEF OneRunner
<1>3. CASE Elapse
  <2>1. \A p \in Runs : runs'[p] \in {runs[p], [runs[p] EXCEPT !.age = @ + 1]}
    BY <1>3 DEF Elapse
  <2>2. \A p \in Runs : runs'[p].pc = runs[p].pc /\ runs'[p].ids = runs[p].ids
    BY <1>1, <2>1 DEF Run
  <2> QED BY <1>2, <2>2 DEF Sole, OneRunner
<1>4. ASSUME ~Elapse, NEW a \in Runs, NEW b \in Runs, a # b, Claim(a), runs'[b].pc \in Claimed
      PROVE  runs'[a].ids \cap runs'[b].ids = {}
  <2>1. runs'[b] = runs[b]
    BY <1>1, <1>4, OthersStay DEF Step
  <2>2. \A i \in runs'[a].ids : i \in runs[a].ids /\ wait[i] + runs[a].age <= 0
    <3> DEFINE mine == {j \in runs[a].ids : /\ outbox[j].status \in Statuses(runs[a].mode)
                                            /\ wait[j] + runs[a].age <= 0}
    <3>1. runs'[a].ids = mine
      BY <1>1, <1>4 DEF Claim, Run
    <3> QED BY <3>1
  <2>3. ASSUME NEW i \in runs[b].ids, wait[i] + runs[a].age <= 0 PROVE FALSE
    BY <1>4, <2>1, <2>3, HeldIsNotDue
  <2> QED BY <2>1, <2>2, <2>3
<1>5. CASE ~Elapse /\ ~Claim(q) /\ ~Claim(r)
  <2>1. /\ runs[q].pc \in Claimed /\ runs'[q].ids = runs[q].ids
        /\ runs[r].pc \in Claimed /\ runs'[r].ids = runs[r].ids
    BY <1>1, <1>2, <1>5, WhoClaims
  <2> QED BY <1>2, <2>1 DEF Sole, OneRunner
<1> QED BY <1>2, <1>3, <1>4, <1>5

(* A row is in one run's hands at a time: loops and flushes of any containers, whatever fails,  *)
(* crashes or is done beside them, as long as a batch ends within its lease.                     *)
THEOREM SoleRunner ==
  ASSUME "slow" \notin Disturbances
  PROVE  Spec => []OneRunner
<1>1. Init => Sole
  BY InitSole
<1>2. Sole /\ [Next]_vars => Sole'
  <2> SUFFICES ASSUME Sole, [Next]_vars PROVE Sole'
    OBVIOUS
  <2>1. Typed'
    BY NextTyped DEF Sole
  <2> QED BY <2>1, AgesInTime, LeaseLasts, StillOneRunner DEF Sole
<1>3. Sole => OneRunner
  BY DEF Sole
<1> QED BY <1>1, <1>2, <1>3, PTL DEF Spec

(* What changes a row's status: the webhook's arrival, a discard of what was not sent, the end of a *)
(* push of it, and the age check on what was too old when selected.                                  *)
Relabels(i) ==
  \/ outbox'[i].status = outbox[i].status
  \/ outbox[i].status = "told"
  \/ outbox[i].status \in {"queued", "planned", "failed"} /\ outbox'[i].status = "gone"
  \/ \E r \in Runs : Mark(r) /\ i \in runs[r].ids /\ outbox[i].status # "gone"
  \/ \E r \in Runs : Group(r) /\ i \in runs[r].stale
Settles == /\ \A i \in DOMAIN outbox : /\ i \in DOMAIN outbox' /\ Relabels(i)
                                        /\ outbox'[i].age \in {outbox[i].age, "settled"}
           /\ \A i \in DOMAIN outbox' \ DOMAIN outbox : outbox'[i].age = "new"

LEMMA WhoLabels ==
  ASSUME Typed, [Next]_vars, "old" \notin Disturbances
  PROVE  Settles
<1>1. outbox \in Seq(Row) /\ \A i \in DOMAIN outbox : outbox[i] \in Row
  BY DEF Typed, TypeOK
<1>2. CASE UNCHANGED outbox
  BY <1>2 DEF Settles, Relabels
<1>3. ASSUME NEW x \in Row, x.age = "new", outbox' = Append(outbox, x) PROVE Settles
  <2>1. \A i \in DOMAIN outbox : i \in DOMAIN outbox' /\ outbox'[i] = outbox[i]
    BY <1>1, <1>3, AppendProperties
  <2>2. \A i \in DOMAIN outbox' \ DOMAIN outbox : outbox'[i] = x
    BY <1>1, <1>3, AppendProperties
  <2> QED BY <1>3, <2>1, <2>2 DEF Settles, Relabels
<1>4. ASSUME NEW k \in Records, EditInTuper(k) PROVE Settles
  <2> DEFINE x == NewRow(k, IF newest[k] = 0 THEN "create" ELSE "update", newest'[k])
  <2>1. outbox' = Append(outbox, x)
    BY <1>4 DEF EditInTuper
  <2>2. newest'[k] \in Nat
    BY <1>4, EditInTuperTyped DEF Typed, TypeOK
  <2>3. x \in Row /\ x.age = "new"
    BY <2>2 DEF NewRow, Row, Status
  <2> QED BY <1>3, <2>1, <2>3
<1>5. ASSUME NEW r \in Runs, FollowUp(r) PROVE Settles
  <2> DEFINE x == [NewRow(RecOf(r), "follow", runs[r].want) EXCEPT !.status = "queued"]
  <2>1. outbox' = Append(outbox, x)
    BY <1>5 DEF FollowUp
  <2>2. Fit(r) /\ runs[r] \in Run
    BY DEF Typed, TypeOK
  <2>3. RecOf(r) \in Records /\ runs[r].want \in Nat
    BY <1>5, <2>2, Recs DEF FollowUp, Fit, Claimed, Run
  <2>4. x \in Row /\ x.age = "new"
    BY <2>3 DEF NewRow, Row, Status
  <2> QED BY <1>3, <2>1, <2>4
<1>6. ASSUME NEW j \in DOMAIN outbox, Told(j) PROVE Settles
  <2>1. DOMAIN outbox' = DOMAIN outbox /\ \A i \in DOMAIN outbox : i # j => outbox'[i] = outbox[i]
    BY <1>1, <1>6 DEF Told
  <2>2. outbox[j].status = "told" /\ outbox'[j].age = outbox[j].age
    BY <1>1, <1>6 DEF Told, Row
  <2> QED BY <2>1, <2>2 DEF Settles, Relabels
<1>7. ASSUME NEW j \in DOMAIN outbox, GrowOld(j) PROVE Settles
  BY <1>7 DEF GrowOld, Disturb
<1>8. ASSUME NEW ids, NEW status, outbox' = Marked(ids, status)
      PROVE  /\ DOMAIN outbox' = DOMAIN outbox
             /\ \A i \in DOMAIN outbox : /\ outbox'[i].age = outbox[i].age
                                         /\ i \in ids => outbox'[i].status = status
                                         /\ i \notin ids => outbox'[i].status = outbox[i].status
  BY <1>1, <1>8 DEF Marked, Row
<1>9. CASE DiscardUnsent
  <2> DEFINE ids == {i \in DOMAIN outbox : outbox[i].status \in {"queued", "planned", "failed"}}
  <2>1. outbox' = Marked(ids, "gone")
    BY <1>9 DEF DiscardUnsent
  <2>2. \A i \in DOMAIN outbox : i \in ids => outbox[i].status \in {"queued", "planned", "failed"}
    OBVIOUS
  <2> HIDE DEF ids
  <2> QED BY <1>8, <2>1, <2>2 DEF Settles, Relabels
<1>10. ASSUME NEW r \in Runs, Group(r) PROVE Settles
  <2> DEFINE k == outbox[Min(runs[r].todo)].rec
             all == {i \in runs[r].todo : outbox[i].rec = k}
             live == Effective(runs[r].mode, k) = "live"
             rows == IF live THEN all ELSE all \cap runs[r].queued
             waiting == rows \cap runs[r].fresh # {} /\ \E i \in rows : outbox[i].op = "create"
             stale == IF live /\ ~waiting THEN rows \cap runs[r].stale ELSE {}
  <2>1. outbox' = Marked(stale, "skipped")
    BY <1>10 DEF Group
  <2>2. stale \subseteq runs[r].stale
    OBVIOUS
  <2> HIDE DEF stale
  <2> QED BY <1>8, <1>10, <2>1, <2>2 DEF Settles, Relabels
<1>11. ASSUME NEW r \in Runs, Mark(r) PROVE Settles
  <2> DEFINE ids == {i \in runs[r].ids : outbox[i].status # "gone"}
             out == runs[r].out
             failed == out \in {"failed", "stop"}
             new(i) == IF i \notin ids THEN outbox[i]
                       ELSE IF failed THEN [outbox[i] EXCEPT !.status = "failed",
                              !.attempts = IF out = "stop" THEN MaxAttempts ELSE runs[r].tries]
                       ELSE [outbox[i] EXCEPT !.status = out, !.planned = runs[r].want]
  <2>1. outbox' = [i \in DOMAIN outbox |-> new(i)]
    BY <1>11 DEF Mark
  <2>2. ASSUME NEW i \in DOMAIN outbox PROVE new(i).age = outbox[i].age
    BY <1>1 DEF Row
  <2>3. ASSUME NEW i \in DOMAIN outbox, i \notin ids PROVE new(i) = outbox[i]
    BY <2>3
  <2>4. \A i \in ids : i \in runs[r].ids /\ outbox[i].status # "gone"
    OBVIOUS
  <2> HIDE DEF ids, new
  <2>5. ASSUME NEW i \in DOMAIN outbox PROVE Relabels(i)
    BY <1>11, <2>1, <2>3, <2>4 DEF Relabels
  <2> QED BY <2>1, <2>2, <2>5 DEF Settles
<1>12. CASE Elapse
  <2>1. outbox' = [i \in DOMAIN outbox |-> [outbox[i] EXCEPT !.age =
                  IF @ = "new" /\ outbox[i].status # "told" THEN "settled" ELSE @]]
    BY <1>12 DEF Elapse
  <2>2. \A i \in DOMAIN outbox : outbox'[i].status = outbox[i].status
                                 /\ outbox'[i].age \in {outbox[i].age, "settled"}
    BY <1>1, <2>1 DEF Row
  <2> QED BY <2>1, <2>2 DEF Settles, Relabels
<1>13. ASSUME NEW r \in Runs, Select(r) \/ Claim(r) \/ PlanRow(r) \/ Compare(r) \/ Put(r) \/ Verify(r)
                              \/ Post(r) \/ Link(r) \/ Done(r)
       PROVE  UNCHANGED outbox
  BY <1>13 DEF Select, Claim, PlanRow, Compare, Put, Verify, Post, Link, Done
<1>14. CASE \/ UNCHANGED vars
            \/ \E k \in Records : EditInZuper(k)
            \/ \E s \in Syncs : SyncStarts(s) \/ SyncReads(s) \/ SyncWrites(s)
            \/ \E c \in Containers, k \in Records : Import(c, k)
            \/ \E c \in Containers : Crash(c)
            \/ Switch
  <2>1. UNCHANGED outbox
    BY <1>14 DEF vars, EditInZuper, SyncStarts, SyncReads, SyncWrites, Import, Crash, Switch
  <2> QED BY <1>2, <2>1
<1> QED BY <1>2, <1>4, <1>5, <1>6, <1>7, <1>9, <1>10, <1>11, <1>12, <1>13, <1>14 DEF Next, InTurn, Step

(* While no row grows too old to be sent, no run has one in hand, and what a run holds is open: no *)
(* one else ends it meanwhile, unless a discard takes it away.                                       *)
Young == /\ \A i \in DOMAIN outbox : outbox[i].age # "old"
         /\ \A r \in Runs : runs[r].stale = {}
Open == \A r \in Runs : runs[r].pc \in Claimed =>
          \A i \in runs[r].ids : outbox[i].status \in {"queued", "planned", "failed", "gone"}
Held == Sole /\ Young /\ Open

LEMMA StaysYoung ==
  ASSUME Typed, Young, [Next]_vars, "old" \notin Disturbances
  PROVE  Young'
<1>1. runs \in [Runs -> Run] /\ \A r \in Runs : runs[r] \in Run
  BY DEF Typed, TypeOK
<1>2. \A i \in DOMAIN outbox' : outbox'[i].age # "old"
  BY WhoLabels DEF Settles, Young
<1>3. SUFFICES ASSUME NEW q \in Runs PROVE runs'[q].stale = {}
  BY <1>2 DEF Young
<1>4. Idle.stale = {}
  BY DEF Idle
<1>5. CASE runs'[q].stale \in {runs[q].stale, Idle.stale}
  BY <1>4, <1>5 DEF Young
<1>6. ASSUME NEW r \in Runs, Select(r) \/ InTurn(r) \/ Step(r)
      PROVE  runs'[q].stale \in {runs[q].stale, Idle.stale}
  <2>1. CASE r # q
    BY <1>1, <1>6, <2>1, OthersStay
  <2>2. CASE Select(q)
    <3> DEFINE m == IF q[2] = Tick THEN mode ELSE "live"
               limit == IF q[2] = Tick THEN Batch ELSE 1
               due == {i \in DOMAIN outbox : /\ outbox[i].status \in Statuses(m)
                                             /\ Due(i) /\ outbox[i].attempts < MaxAttempts
                                             /\ q[2] # Tick => outbox[i].rec = q[2]}
               got == Chosen(due, limit)
               old == {i \in got : outbox[i].age = "old" /\ outbox[i].status # "failed"}
               x == [Idle EXCEPT !.pc = "group", !.mode = m, !.todo = got,
                        !.queued = {i \in got : outbox[i].status = "queued"},
                        !.fresh = {i \in got : outbox[i].age = "new"},
                        !.stale = old]
    <3>1. runs' = runs \/ runs' = [runs EXCEPT ![q] = x]
      BY <2>2 DEF Select
    <3>2. old = {}
      BY ChosenAmong DEF Young
    <3>3. x.stale = old
      BY IdleTyped DEF Run
    <3> HIDE DEF x, old
    <3> QED BY <1>1, <1>4, <3>1, <3>2, <3>3
  <2>3. CASE Group(q)
    BY <1>1, <2>3, ZenonT(40) DEF Group, Run
  <2>4. CASE Claim(q)
    BY <1>1, <2>4 DEF Claim, Run
  <2>5. CASE PlanRow(q)
    BY <1>1, <2>5 DEF PlanRow, Run
  <2>6. CASE Compare(q) \/ Verify(q) \/ Put(q) \/ FollowUp(q) \/ Link(q)
    BY <1>1, <2>6 DEF Compare, Verify, Put, FollowUp, Link, Go, End, Run
  <2>7. CASE Post(q)
    BY <1>1, <2>7 DEF Post, End, Run
  <2>8. CASE Mark(q)
    BY <1>1, <2>8 DEF Mark, Run
  <2>9. CASE Done(q)
    BY <1>1, <2>9 DEF Done
  <2> QED BY <1>6, <2>1, <2>2, <2>3, <2>4, <2>5, <2>6, <2>7, <2>8, <2>9 DEF InTurn, Step
<1>7. CASE Elapse
  <2>1. runs'[q] = IF runs[q].pc = "idle" THEN runs[q] ELSE [runs[q] EXCEPT !.age = @ + 1]
    BY <1>1, <1>7 DEF Elapse
  <2>2. runs'[q].stale = runs[q].stale
    BY <1>1, <2>1 DEF Run
  <2> QED BY <1>5, <2>2
<1>8. CASE \E c \in Containers : Crash(c)
  <2>1. runs'[q] = Idle \/ runs'[q] = runs[q]
    BY <1>8 DEF Crash
  <2> QED BY <1>5, <2>1
<1>9. CASE \/ UNCHANGED vars
           \/ \E k \in Records : EditInTuper(k) \/ EditInZuper(k)
           \/ \E i \in DOMAIN outbox : Told(i) \/ GrowOld(i)
           \/ \E s \in Syncs : SyncStarts(s) \/ SyncReads(s) \/ SyncWrites(s)
           \/ \E c \in Containers, k \in Records : Import(c, k)
           \/ Switch \/ DiscardUnsent
  <2>1. UNCHANGED runs
    BY <1>9 DEF vars, EditInTuper, EditInZuper, Told, GrowOld, SyncStarts, SyncReads, SyncWrites,
                Import, Switch, DiscardUnsent
  <2> QED BY <1>5, <2>1
<1> QED BY <1>5, <1>6, <1>7, <1>8, <1>9 DEF Next

(* Only who holds a row marks it. *)
LEMMA StaysOpen ==
  ASSUME Held, [Next]_vars, "old" \notin Disturbances
  PROVE  Open'
<1>1. /\ Typed /\ runs \in [Runs -> Run] /\ \A r \in Runs : runs[r] \in Run
      /\ \A r \in Runs : runs[r].ids \subseteq DOMAIN outbox
  BY DEF Held, Sole, Typed, TypeOK
<1>2. SUFFICES ASSUME NEW q \in Runs, runs'[q].pc \in Claimed, NEW i \in runs'[q].ids
               PROVE  outbox'[i].status \in {"queued", "planned", "failed", "gone"}
  BY DEF Open
<1>3. CASE ~Elapse /\ Claim(q)
  <2> DEFINE mine == {j \in runs[q].ids : /\ outbox[j].status \in Statuses(runs[q].mode)
                                          /\ wait[j] + runs[q].age <= 0}
  <2>1. runs'[q].ids = mine /\ outbox' = outbox
    BY <1>1, <1>3 DEF Claim, Run
  <2>2. outbox[i].status \in Statuses(runs[q].mode)
    BY <2>1
  <2> QED BY <2>1, <2>2 DEF Statuses
<1>4. CASE Elapse \/ ~Claim(q)
  <2>1. runs[q].pc \in Claimed /\ i \in runs[q].ids
    <3>1. CASE Elapse
      <4>1. runs'[q] = IF runs[q].pc = "idle" THEN runs[q] ELSE [runs[q] EXCEPT !.age = @ + 1]
        BY <1>1, <3>1 DEF Elapse
      <4>2. runs'[q].pc = runs[q].pc /\ runs'[q].ids = runs[q].ids
        BY <1>1, <4>1 DEF Run
      <4> QED BY <1>2, <4>2
    <3>2. CASE ~Elapse
      BY <1>1, <1>2, <1>4, <3>2, WhoClaims
    <3> QED BY <3>1, <3>2
  <2>2. outbox[i].status \in {"queued", "planned", "failed", "gone"} /\ i \in DOMAIN outbox
    BY <1>1, <2>1 DEF Held, Open
  <2>3. ASSUME NEW r \in Runs, Mark(r), i \in runs[r].ids PROVE FALSE
    <3>1. runs[r].pc \in Claimed
      BY <2>3 DEF Mark, Claimed
    <3>2. r = q
      BY <2>1, <2>3, <3>1 DEF Held, Sole, OneRunner
    <3>3. runs'[r].pc = "group"
      BY <1>1, <2>3 DEF Mark, Run
    <3> QED BY <1>2, <3>2, <3>3 DEF Claimed
  <2>4. \A r \in Runs : i \notin runs[r].stale
    BY DEF Held, Young
  <2>5. Relabels(i)
    BY <1>1, <2>2, WhoLabels DEF Settles
  <2> QED BY <2>2, <2>3, <2>4, <2>5 DEF Relabels
<1> QED BY <1>3, <1>4

LEMMA InitHeld == ASSUME Init PROVE Held
<1>1. Sole
  BY InitSole
<1>2. \A r \in Runs : runs[r] = Idle
  BY DEF Init
<1>3. \A r \in Runs : runs[r].stale = {} /\ runs[r].pc \notin Claimed
  BY <1>2, IdleTyped DEF Idle, Claimed
<1>4. DOMAIN outbox = {}
  BY DEF Init
<1> QED BY <1>1, <1>3, <1>4 DEF Held, Young, Open

LEMMA NextHeld ==
  ASSUME Held, [Next]_vars, "slow" \notin Disturbances, "old" \notin Disturbances
  PROVE  Held'
<1>1. Typed'
  BY NextTyped DEF Held, Sole
<1>2. Sole'
  BY <1>1, AgesInTime, LeaseLasts, StillOneRunner DEF Held, Sole
<1> QED BY <1>2, StaysYoung, StaysOpen DEF Held, Sole

LEMMA OverStays ==
  ASSUME Held, [Next]_vars, "old" \notin Disturbances
  PROVE  \A i \in DOMAIN outbox : outbox[i].status \in {"sent", "skipped", "dropped", "gone"}
                                   => outbox'[i].status = outbox[i].status
<1>1. SUFFICES ASSUME NEW i \in DOMAIN outbox, outbox[i].status \in {"sent", "skipped", "dropped", "gone"}
               PROVE  outbox'[i].status = outbox[i].status
  OBVIOUS
<1>2. Relabels(i)
  BY WhoLabels DEF Held, Sole, Settles
<1>3. ASSUME NEW r \in Runs, Mark(r), i \in runs[r].ids, outbox[i].status # "gone" PROVE FALSE
  <2>1. runs[r].pc \in Claimed
    BY <1>3 DEF Mark, Claimed
  <2> QED BY <1>1, <1>3, <2>1 DEF Held, Open
<1>4. \A r \in Runs : i \notin runs[r].stale
  BY DEF Held, Young
<1> QED BY <1>1, <1>2, <1>3, <1>4 DEF Relabels

(* A row that was sent, skipped, dropped or discarded is over: whatever batches, flushes, failures and *)
(* crashes there are, no late runner re-opens it, as long as batches end within their lease and no row  *)
(* grows too old between its selection and its turn.                                                     *)
THEOREM OverStaysOver ==
  ASSUME "slow" \notin Disturbances, "old" \notin Disturbances
  PROVE  Spec => OverIsOver
<1>1. Init => Held
  BY InitHeld
<1>2. Held /\ [Next]_vars => Held'
  BY NextHeld
<1>3. Held /\ [Next]_vars => [\A i \in DOMAIN outbox : outbox[i].status \in {"sent", "skipped", "dropped", "gone"}
                                   => outbox'[i].status = outbox[i].status]_vars
  BY OverStays
<1> QED BY <1>1, <1>2, <1>3, PTL DEF Spec, OverIsOver

(* What Zuper has been told of a record it has been told for good: histories only grow. *)
Has(k, v) == \E n \in DOMAIN zuper[k] : v \in Range(zuper[k][n])
HistoryGrows == \A k \in Records : \A n \in DOMAIN zuper[k] :
                  n \in DOMAIN zuper'[k] /\ Range(zuper[k][n]) \subseteq Range(zuper'[k][n])

LEMMA LongerHas ==
  ASSUME NEW S, NEW s \in Seq(S), NEW x \in S
  PROVE  Range(s) \subseteq Range(Append(s, x)) /\ x \in Range(Append(s, x))
<1>1. /\ Append(s, x) \in Seq(S) /\ Len(Append(s, x)) = Len(s) + 1
      /\ \A i \in 1 .. Len(s) : Append(s, x)[i] = s[i]
      /\ Append(s, x)[Len(s) + 1] = x
  BY AppendProperties
<1>2. Len(s) \in Nat /\ DOMAIN s = 1 .. Len(s) /\ DOMAIN Append(s, x) = 1 .. Len(s) + 1
  BY <1>1
<1> QED BY <1>1, <1>2 DEF Range

(* A value added to the history of one of Zuper's records. *)
LEMMA Added ==
  ASSUME Typed, NEW k \in Records, NEW n \in Nat, NEW v \in Nat,
         zuper' = [zuper EXCEPT ![k][n] = Append(@, v)]
  PROVE  HistoryGrows
<1> DEFINE own == [zuper[k] EXCEPT ![n] = Append(@, v)]
<1>1. zuper \in [Records -> Seq(Seq(Nat))] /\ zuper[k] \in Seq(Seq(Nat))
  BY DEF Typed, TypeOK
<1>2. zuper' = [zuper EXCEPT ![k] = own]
  BY <1>1
<1>3. ASSUME NEW m \in DOMAIN zuper[k] PROVE m \in DOMAIN own /\ Range(zuper[k][m]) \subseteq Range(own[m])
  <2>1. zuper[k][m] \in Seq(Nat) /\ m \in DOMAIN own
    BY <1>1
  <2>2. own[m] = IF m = n THEN Append(zuper[k][m], v) ELSE zuper[k][m]
    BY <1>1
  <2> QED BY <2>1, <2>2, LongerHas
<1> HIDE DEF own
<1>4. \A h \in Records : zuper'[h] = IF h = k THEN own ELSE zuper[h]
  BY <1>1, <1>2
<1> QED BY <1>3, <1>4 DEF HistoryGrows

(* A record made in Zuper. *)
LEMMA Made ==
  ASSUME Typed, NEW k \in Records, NEW v \in Nat, zuper' = [zuper EXCEPT ![k] = Append(@, <<v>>)]
  PROVE  HistoryGrows /\ Len(zuper'[k]) \in DOMAIN zuper'[k] /\ Has(k, v)'
<1> DEFINE held == zuper[k]
           one == <<v>>
<1>1. zuper \in [Records -> Seq(Seq(Nat))] /\ held \in Seq(Seq(Nat)) /\ one \in Seq(Nat)
  BY DEF Typed, TypeOK
<1>2. v \in Range(one)
  BY DEF Range
<1>3. zuper' = [zuper EXCEPT ![k] = Append(held, one)]
  BY <1>1
<1>4. \A h \in Records : zuper'[h] = IF h = k THEN Append(held, one) ELSE zuper[h]
  BY <1>1, <1>3
<1> HIDE DEF one
<1>5. /\ Append(held, one) \in Seq(Seq(Nat)) /\ Len(Append(held, one)) = Len(held) + 1
      /\ \A m \in 1 .. Len(held) : Append(held, one)[m] = held[m]
      /\ Append(held, one)[Len(held) + 1] = one
  BY <1>1, AppendProperties
<1>6. /\ Len(held) \in Nat /\ DOMAIN held = 1 .. Len(held)
      /\ DOMAIN Append(held, one) = 1 .. Len(held) + 1
  BY <1>1, <1>5
<1>7. HistoryGrows
  BY <1>4, <1>5, <1>6 DEF HistoryGrows
<1>8. Len(zuper'[k]) = Len(held) + 1 /\ Len(held) + 1 \in DOMAIN zuper'[k]
      /\ zuper'[k][Len(held) + 1] = one
  <2>1. zuper'[k] = Append(held, one)
    BY <1>4
  <2> QED BY <1>5, <1>6, <2>1
<1> QED BY <1>2, <1>7, <1>8 DEF Has

LEMMA ZuperRemembers ==
  ASSUME Typed, [Next]_vars
  PROVE  HistoryGrows
<1>1. CASE UNCHANGED zuper
  BY <1>1 DEF HistoryGrows
<1>2. ASSUME NEW r \in Runs, Put(r) PROVE HistoryGrows
  <2>1. RecOf(r) \in Records /\ runs[r].link \in Nat /\ runs[r].want \in Nat
    BY <1>2, Recs DEF Put, Typed, TypeOK, Fit, Claimed, Run
  <2>2. zuper' = zuper \/ zuper' = [zuper EXCEPT ![RecOf(r)][runs[r].link] = Append(@, runs[r].want)]
    BY <1>2 DEF Put
  <2> QED BY <1>1, <2>1, <2>2, Added
<1>3. ASSUME NEW r \in Runs, Post(r) PROVE HistoryGrows
  <2>1. RecOf(r) \in Records /\ runs[r].want \in Nat
    BY <1>3, Recs DEF Post, Typed, TypeOK, Fit, Claimed, Run
  <2>2. zuper' = zuper \/ zuper' = [zuper EXCEPT ![RecOf(r)] = Append(@, <<runs[r].want>>)]
    BY <1>3 DEF Post
  <2> QED BY <1>1, <2>1, <2>2, Made
<1>4. ASSUME NEW k \in Records, EditInZuper(k) PROVE HistoryGrows
  <2>1. newest \in [Records -> Nat] /\ newest'[k] = newest[k] + 1 /\ linked[k] \in Nat
    BY <1>4 DEF EditInZuper, Typed, TypeOK
  <2>2. zuper' = [zuper EXCEPT ![k][linked[k]] = Append(@, newest'[k])] /\ newest'[k] \in Nat
    BY <1>4, <2>1 DEF EditInZuper
  <2> QED BY <2>1, <2>2, Added
<1>5. ASSUME NEW r \in Runs, Select(r) \/ PlanRow(r) \/ Step(r)
      PROVE  UNCHANGED zuper
  BY <1>5 DEF Step, Select, Group, Claim, PlanRow, Compare, Verify, Link, FollowUp, Mark, Done, world
<1>6. CASE \/ UNCHANGED vars
           \/ \E k \in Records : EditInTuper(k)
           \/ \E j \in DOMAIN outbox : Told(j) \/ GrowOld(j)
           \/ \E s \in Syncs : SyncStarts(s) \/ SyncReads(s) \/ SyncWrites(s)
           \/ \E c \in Containers, k \in Records : Import(c, k)
           \/ \E c \in Containers : Crash(c)
           \/ Elapse \/ Switch \/ DiscardUnsent
  <2>1. UNCHANGED zuper
    BY <1>6 DEF vars, EditInTuper, Told, GrowOld, SyncStarts, SyncReads, SyncWrites,
                Import, Crash, Elapse, Switch, DiscardUnsent, world
  <2> QED BY <1>1, <2>1
<1> QED BY <1>1, <1>2, <1>3, <1>4, <1>5, <1>6 DEF Next, InTurn

(* Rows keep their record, and become sent when a push that ended so marks them. *)
Becomes(i) ==
  \/ outbox'[i].status = outbox[i].status /\ outbox'[i].planned = outbox[i].planned
  \/ outbox'[i].status # "sent"
  \/ \E r \in Runs : Mark(r) /\ i \in runs[r].ids /\ runs[r].out = "sent" /\ outbox'[i].planned = runs[r].want
Follows == /\ \A i \in DOMAIN outbox : i \in DOMAIN outbox' /\ outbox'[i].rec = outbox[i].rec /\ Becomes(i)
           /\ \A i \in DOMAIN outbox' \ DOMAIN outbox : outbox'[i].status # "sent"

LEMMA RowsFollow ==
  ASSUME Typed, [Next]_vars
  PROVE  Follows
<1>1. outbox \in Seq(Row) /\ \A i \in DOMAIN outbox : outbox[i] \in Row
  BY DEF Typed, TypeOK
<1>2. CASE UNCHANGED outbox
  BY <1>2 DEF Follows, Becomes
<1>3. ASSUME NEW x \in Row, x.status # "sent", outbox' = Append(outbox, x) PROVE Follows
  <2>1. \A i \in DOMAIN outbox : i \in DOMAIN outbox' /\ outbox'[i] = outbox[i]
    BY <1>1, <1>3, AppendProperties
  <2>2. \A i \in DOMAIN outbox' \ DOMAIN outbox : outbox'[i] = x
    BY <1>1, <1>3, AppendProperties
  <2> QED BY <1>3, <2>1, <2>2 DEF Follows, Becomes
<1>4. ASSUME NEW k \in Records, EditInTuper(k) PROVE Follows
  <2> DEFINE x == NewRow(k, IF newest[k] = 0 THEN "create" ELSE "update", newest'[k])
  <2>1. outbox' = Append(outbox, x)
    BY <1>4 DEF EditInTuper
  <2>2. newest'[k] \in Nat
    BY <1>4, EditInTuperTyped DEF Typed, TypeOK
  <2>3. x \in Row /\ x.status # "sent"
    BY <2>2 DEF NewRow, Row, Status
  <2> QED BY <1>3, <2>1, <2>3
<1>5. ASSUME NEW r \in Runs, FollowUp(r) PROVE Follows
  <2> DEFINE x == [NewRow(RecOf(r), "follow", runs[r].want) EXCEPT !.status = "queued"]
  <2>1. outbox' = Append(outbox, x)
    BY <1>5 DEF FollowUp
  <2>2. Fit(r) /\ runs[r] \in Run
    BY DEF Typed, TypeOK
  <2>3. RecOf(r) \in Records /\ runs[r].want \in Nat
    BY <1>5, <2>2, Recs DEF FollowUp, Fit, Claimed, Run
  <2>4. x \in Row /\ x.status # "sent"
    BY <2>3 DEF NewRow, Row, Status
  <2> QED BY <1>3, <2>1, <2>4
<1>6. ASSUME NEW j \in DOMAIN outbox, Told(j) PROVE Follows
  <2>1. DOMAIN outbox' = DOMAIN outbox /\ \A i \in DOMAIN outbox : i # j => outbox'[i] = outbox[i]
    BY <1>1, <1>6 DEF Told
  <2>2. outbox'[j].status \in {"dropped", "queued"} /\ outbox'[j].rec = outbox[j].rec
    BY <1>1, <1>6 DEF Told, Row
  <2> QED BY <2>1, <2>2 DEF Follows, Becomes
<1>7. ASSUME NEW j \in DOMAIN outbox, GrowOld(j) PROVE Follows
  <2>1. DOMAIN outbox' = DOMAIN outbox /\ \A i \in DOMAIN outbox : i # j => outbox'[i] = outbox[i]
    BY <1>1, <1>7 DEF GrowOld
  <2>2. /\ outbox'[j].status = outbox[j].status /\ outbox'[j].rec = outbox[j].rec
        /\ outbox'[j].planned = outbox[j].planned
    BY <1>1, <1>7 DEF GrowOld, Row
  <2> QED BY <2>1, <2>2 DEF Follows, Becomes
<1>8. ASSUME NEW ids, NEW status, status # "sent", outbox' = Marked(ids, status) PROVE Follows
  <2>1. \A i \in DOMAIN outbox : /\ outbox'[i].rec = outbox[i].rec
                                 /\ outbox'[i].status = status \/ outbox'[i] = outbox[i]
    BY <1>1, <1>8 DEF Marked, Row
  <2>2. DOMAIN outbox' = DOMAIN outbox
    BY <1>8 DEF Marked
  <2> QED BY <1>8, <2>1, <2>2 DEF Follows, Becomes
<1>9. CASE DiscardUnsent
  BY <1>8, <1>9 DEF DiscardUnsent
<1>10. ASSUME NEW r \in Runs, Group(r) PROVE Follows
  <2>1. PICK ids : outbox' = Marked(ids, "skipped")
    BY <1>10 DEF Group
  <2> QED BY <1>8, <2>1
<1>11. ASSUME NEW r \in Runs, Mark(r) PROVE Follows
  <2> DEFINE ids == {i \in runs[r].ids : outbox[i].status # "gone"}
             out == runs[r].out
             failed == out \in {"failed", "stop"}
             new(i) == IF i \notin ids THEN outbox[i]
                       ELSE IF failed THEN [outbox[i] EXCEPT !.status = "failed",
                              !.attempts = IF out = "stop" THEN MaxAttempts ELSE runs[r].tries]
                       ELSE [outbox[i] EXCEPT !.status = out, !.planned = runs[r].want]
  <2>1. outbox' = [i \in DOMAIN outbox |-> new(i)]
    BY <1>11 DEF Mark
  <2>2. ASSUME NEW i \in DOMAIN outbox PROVE new(i).rec = outbox[i].rec
    BY <1>1 DEF Row
  <2>3. ASSUME NEW i \in DOMAIN outbox
        PROVE  \/ new(i) = outbox[i]
               \/ new(i).status # "sent"
               \/ i \in ids /\ out = "sent" /\ new(i).planned = runs[r].want
    BY <1>1 DEF Row
  <2>4. \A i \in ids : i \in runs[r].ids
    OBVIOUS
  <2> HIDE DEF ids, new
  <2>5. ASSUME NEW i \in DOMAIN outbox PROVE Becomes(i)
    BY <1>11, <2>1, <2>3, <2>4 DEF Becomes
  <2> QED BY <2>1, <2>2, <2>5 DEF Follows
<1>12. CASE Elapse
  <2>1. outbox' = [i \in DOMAIN outbox |-> [outbox[i] EXCEPT !.age =
                  IF @ = "new" /\ outbox[i].status # "told" THEN "settled" ELSE @]]
    BY <1>12 DEF Elapse
  <2>2. \A i \in DOMAIN outbox : /\ outbox'[i].status = outbox[i].status /\ outbox'[i].rec = outbox[i].rec
                                 /\ outbox'[i].planned = outbox[i].planned
    BY <1>1, <2>1 DEF Row
  <2> QED BY <2>1, <2>2 DEF Follows, Becomes
<1>13. ASSUME NEW r \in Runs, Select(r) \/ Claim(r) \/ PlanRow(r) \/ Compare(r) \/ Put(r) \/ Verify(r)
                              \/ Post(r) \/ Link(r) \/ Done(r)
       PROVE  UNCHANGED outbox
  BY <1>13 DEF Select, Claim, PlanRow, Compare, Put, Verify, Post, Link, Done
<1>14. CASE \/ UNCHANGED vars
            \/ \E k \in Records : EditInZuper(k)
            \/ \E s \in Syncs : SyncStarts(s) \/ SyncReads(s) \/ SyncWrites(s)
            \/ \E c \in Containers, k \in Records : Import(c, k)
            \/ \E c \in Containers : Crash(c)
            \/ Switch
  <2>1. UNCHANGED outbox
    BY <1>14 DEF vars, EditInZuper, SyncStarts, SyncReads, SyncWrites, Import, Crash, Switch
  <2> QED BY <1>2, <2>1
<1> QED BY <1>2, <1>4, <1>5, <1>6, <1>7, <1>9, <1>10, <1>11, <1>12, <1>13, <1>14 DEF Next, InTurn, Step

(* What a run holds is of one record; what it reads back is there to be read; and from the moment it *)
(* knows that Zuper took the value, Zuper's history of the record has it: a 200 tells it of an update *)
(* only where the field is read back.                                                                 *)
Read(r) == RecOf(r) \in ReadBack
Grounded(r) ==
  /\ \A i, j \in runs[r].ids : outbox[i].rec = outbox[j].rec
  /\ runs[r].pc \in {"compare", "verify"} => runs[r].link \in DOMAIN zuper[RecOf(r)]
  /\ runs[r].pc = "send" /\ runs[r].link # 0 => runs[r].link \in DOMAIN zuper[RecOf(r)]
  /\ runs[r].pc \in {"link", "follow"} => Has(RecOf(r), runs[r].want)
  /\ runs[r].pc = "mark" /\ runs[r].out = "sent" /\ Read(r) => Has(RecOf(r), runs[r].want)
Shown == Typed /\ (\A r \in Runs : Grounded(r)) /\ SentWasTaken

(* A run that keeps its rows keeps their record. *)
LEMMA SameRecord ==
  ASSUME Shown, [Next]_vars, NEW r \in Runs, runs'[r].ids = runs[r].ids
  PROVE  /\ \A i, j \in runs'[r].ids : outbox'[i].rec = outbox'[j].rec
         /\ runs[r].ids # {} => RecOf(r)' = RecOf(r) /\ RecOf(r) \in Records
<1>1. Typed /\ Grounded(r) /\ runs[r].ids \subseteq DOMAIN outbox
  BY DEF Shown, Typed, TypeOK
<1>2. \A i \in runs[r].ids : outbox'[i].rec = outbox[i].rec
  BY <1>1, RowsFollow DEF Follows
<1>3. \A i, j \in runs'[r].ids : outbox'[i].rec = outbox'[j].rec
  BY <1>1, <1>2 DEF Grounded
<1>4. runs[r].ids # {} => RecOf(r)' = RecOf(r)
  BY <1>2 DEF RecOf
<1> QED BY <1>1, <1>3, <1>4, Recs

LEMMA HasStays ==
  ASSUME Typed, [Next]_vars, NEW k \in Records, NEW v
  PROVE  /\ DOMAIN zuper[k] \subseteq DOMAIN zuper'[k]
         /\ Has(k, v) => Has(k, v)'
BY ZuperRemembers DEF HistoryGrows, Has

(* A run that stands where it stood, with the same in hand. *)
LEMMA StandsStill ==
  ASSUME Shown, [Next]_vars, NEW r \in Runs, runs'[r].pc = runs[r].pc, runs'[r].ids = runs[r].ids,
         runs'[r].link = runs[r].link, runs'[r].want = runs[r].want, runs'[r].out = runs[r].out
  PROVE  Grounded(r)'
<1>1. Typed /\ Grounded(r) /\ Fit(r)
  BY DEF Shown, Typed
<1>2. \A i, j \in runs'[r].ids : outbox'[i].rec = outbox'[j].rec
  BY SameRecord
<1>3. CASE runs[r].pc \notin Claimed
  BY <1>2, <1>3 DEF Grounded, Claimed
<1>4. CASE runs[r].pc \in Claimed
  <2>1. RecOf(r)' = RecOf(r) /\ RecOf(r) \in Records
    BY <1>1, <1>4, SameRecord DEF Fit
  <2>2. /\ DOMAIN zuper[RecOf(r)] \subseteq DOMAIN zuper'[RecOf(r)]
        /\ Has(RecOf(r), runs[r].want) => Has(RecOf(r), runs[r].want)'
    BY <1>1, <2>1, HasStays
  <2> QED BY <1>1, <1>2, <2>1, <2>2 DEF Grounded, Has, Read
<1> QED BY <1>3, <1>4

(* A run that moves on with the rows it has. *)
LEMMA MovesOn ==
  ASSUME Shown, [Next]_vars, NEW r \in Runs, runs[r].pc \in Claimed, runs'[r].ids = runs[r].ids,
         NEW k, k = RecOf(r),
         runs'[r].pc \in {"compare", "verify"} => runs'[r].link \in DOMAIN zuper'[k],
         runs'[r].pc = "send" /\ runs'[r].link # 0 => runs'[r].link \in DOMAIN zuper'[k],
         runs'[r].pc \in {"link", "follow"} =>
           \E n \in DOMAIN zuper'[k] : runs'[r].want \in Range(zuper'[k][n]),
         runs'[r].pc = "mark" /\ runs'[r].out = "sent" /\ k \in ReadBack =>
           \E n \in DOMAIN zuper'[k] : runs'[r].want \in Range(zuper'[k][n])
  PROVE  Grounded(r)'
<1>1. runs[r].ids # {}
  BY DEF Shown, Typed, Fit
<1>2. RecOf(r)' = k /\ \A i, j \in runs'[r].ids : outbox'[i].rec = outbox'[j].rec
  BY <1>1, SameRecord
<1> QED BY <1>2 DEF Grounded, Has, Read

LEMMA SelectGrounds ==
  ASSUME Shown, [Next]_vars, NEW r \in Runs, Select(r)
  PROVE  Grounded(r)'
<1> DEFINE m == IF r[2] = Tick THEN mode ELSE "live"
           limit == IF r[2] = Tick THEN Batch ELSE 1
           due == {i \in DOMAIN outbox : /\ outbox[i].status \in Statuses(m)
                                         /\ Due(i) /\ outbox[i].attempts < MaxAttempts
                                         /\ r[2] # Tick => outbox[i].rec = r[2]}
           got == Chosen(due, limit)
           x == [Idle EXCEPT !.pc = "group", !.mode = m, !.todo = got,
                    !.queued = {i \in got : outbox[i].status = "queued"},
                    !.fresh = {i \in got : outbox[i].age = "new"},
                    !.stale = {i \in got : outbox[i].age = "old" /\ outbox[i].status # "failed"}]
<1>1. runs \in [Runs -> Run]
  BY DEF Shown, Typed, TypeOK
<1>2. runs' = runs \/ runs' = [runs EXCEPT ![r] = x]
  BY DEF Select
<1>3. x.pc = "group" /\ x.ids = {}
  BY IdleTyped DEF Idle
<1> HIDE DEF x
<1>4. CASE runs' = runs
  BY <1>4, StandsStill
<1>5. CASE runs' = [runs EXCEPT ![r] = x]
  BY <1>1, <1>3, <1>5 DEF Grounded
<1> QED BY <1>2, <1>4, <1>5

LEMMA GroupGrounds ==
  ASSUME Shown, [Next]_vars, NEW r \in Runs, Group(r)
  PROVE  Grounded(r)'
<1> DEFINE k == outbox[Min(runs[r].todo)].rec
           all == {i \in runs[r].todo : outbox[i].rec = k}
           live == Effective(runs[r].mode, k) = "live"
           rows == IF live THEN all ELSE all \cap runs[r].queued
           waiting == rows \cap runs[r].fresh # {} /\ \E i \in rows : outbox[i].op = "create"
           stale == IF live /\ ~waiting THEN rows \cap runs[r].stale ELSE {}
           ids == IF waiting THEN {} ELSE rows \ stale
<1>1. runs \in [Runs -> Run] /\ runs[r] \in Run /\ runs[r].todo \subseteq DOMAIN outbox
  BY DEF Shown, Typed, TypeOK
<1>2. runs' = [runs EXCEPT ![r].todo = @ \ all, ![r].ids = ids,
                           ![r].pc = IF ids = {} THEN "group" ELSE "claim"]
  BY DEF Group
<1>3. \A i \in ids : i \in DOMAIN outbox /\ outbox[i].rec = k
  BY <1>1
<1> HIDE DEF ids, k, all
<1>4. runs'[r].ids = ids /\ runs'[r].pc \in {"group", "claim"}
  BY <1>1, <1>2 DEF Run
<1>5. \A i \in ids : outbox'[i].rec = k
  BY <1>3, RowsFollow DEF Shown, Follows
<1> QED BY <1>4, <1>5 DEF Grounded

LEMMA ClaimGrounds ==
  ASSUME Shown, [Next]_vars, NEW r \in Runs, Claim(r)
  PROVE  Grounded(r)'
<1> DEFINE mine == {i \in runs[r].ids : /\ outbox[i].status \in Statuses(runs[r].mode)
                                        /\ wait[i] + runs[r].age <= 0}
<1>1. runs \in [Runs -> Run] /\ runs[r] \in Run /\ Grounded(r)
  BY DEF Shown, Typed, TypeOK
<1>2. runs'[r].ids = mine /\ runs'[r].pc \in {"group", "plan"} /\ outbox' = outbox
  BY <1>1 DEF Claim, Run
<1>3. mine \subseteq runs[r].ids
  OBVIOUS
<1> HIDE DEF mine
<1> QED BY <1>1, <1>2, <1>3 DEF Grounded

LEMMA PlanGrounds ==
  ASSUME Shown, [Next]_vars, NEW r \in Runs, PlanRow(r)
  PROVE  Grounded(r)'
<1> DEFINE k == RecOf(r)
<1>1. runs \in [Runs -> Run] /\ runs[r] \in Run /\ runs[r].pc \in Claimed /\ zuper' = zuper
  BY DEF Shown, Typed, TypeOK, PlanRow, Claimed, world
<1>2. k \in Records
  BY <1>1, Recs DEF Shown, Typed, Fit
<1>3. linked[k] \in 0 .. Len(zuper[k]) /\ zuper[k] \in Seq(Seq(Nat))
  BY <1>2 DEF Shown, Typed, TypeOK
<1>4. linked[k] # 0 => linked[k] \in DOMAIN zuper[k]
  BY <1>3
<1>5. runs' = [runs EXCEPT ![r].want = row[k], ![r].link = linked[k],
                          ![r].pc = IF linked[k] # 0 THEN "compare"
                                    ELSE IF Sends(r) THEN "send" ELSE "mark",
                          ![r].out = IF linked[k] # 0 \/ Sends(r) THEN "none" ELSE "planned"]
  BY DEF PlanRow
<1>6. /\ runs'[r].ids = runs[r].ids /\ runs'[r].link = linked[k]
      /\ runs'[r].pc \in {"compare", "send", "mark"} /\ runs'[r].out # "sent"
      /\ runs'[r].pc = "compare" => linked[k] # 0
  BY <1>1, <1>5 DEF Run
<1> QED BY <1>1, <1>4, <1>6, MovesOn

LEMMA PushGrounds ==
  ASSUME Shown, [Next]_vars, NEW r \in Runs,
         Compare(r) \/ Put(r) \/ Post(r) \/ Verify(r) \/ Link(r) \/ FollowUp(r)
  PROVE  Grounded(r)'
<1> DEFINE k == RecOf(r)
<1>1. runs \in [Runs -> Run] /\ runs[r] \in Run /\ runs[r].pc \in Claimed /\ Grounded(r) /\ Typed
  BY DEF Shown, Typed, TypeOK, Compare, Put, Post, Verify, Link, FollowUp, Claimed
<1>2. k \in Records /\ runs[r].want \in Nat
  BY <1>1, Recs DEF Typed, Fit, Run
<1>3. DOMAIN zuper[k] \subseteq DOMAIN zuper'[k]
      /\ \A v : Has(k, v) => \E n \in DOMAIN zuper'[k] : v \in Range(zuper'[k][n])
  BY <1>1, <1>2, ZuperRemembers DEF HistoryGrows, Has
<1>4. ASSUME runs' \in {Go(r, "send"), Go(r, "verify"), Go(r, "follow"), End(r, "skipped"), End(r, "planned"),
                        End(r, "failed"), End(r, "stop"), End(r, "sent")}
      PROVE  runs'[r].ids = runs[r].ids /\ runs'[r].link = runs[r].link /\ runs'[r].want = runs[r].want
  BY <1>1, <1>4 DEF Go, End, Run
<1>5. CASE Compare(r) \/ Put(r)
  <2>1. runs' \in {Go(r, "send"), Go(r, "verify"), End(r, "skipped"), End(r, "planned"), End(r, "failed")}
    BY <1>5 DEF Compare, Put
  <2>2. runs'[r].pc \in {"send", "verify", "mark"} /\ runs'[r].out \in {runs[r].out, "skipped", "planned", "failed"}
        /\ (runs'[r].pc = "mark" => runs'[r].out # "sent")
    BY <1>1, <2>1 DEF Go, End, Run
  <2>3. runs[r].link \in DOMAIN zuper[k]
    BY <1>1, <1>5 DEF Grounded, Compare, Put
  <2> QED BY <1>1, <1>3, <1>4, <2>1, <2>2, <2>3, MovesOn
<1>6. CASE Post(r)
  <2>1. CASE zuper' = [zuper EXCEPT ![k] = Append(@, <<runs[r].want>>)]
             /\ runs' = [runs EXCEPT ![r].pc = "link", ![r].link = Len(zuper'[k])]
    <3>1. \E n \in DOMAIN zuper'[k] : runs[r].want \in Range(zuper'[k][n])
      BY <1>1, <1>2, <2>1, Made DEF Has
    <3>2. runs'[r].ids = runs[r].ids /\ runs'[r].want = runs[r].want /\ runs'[r].pc = "link"
      BY <1>1, <2>1 DEF Run
    <3> QED BY <1>1, <3>1, <3>2, MovesOn
  <2>2. CASE runs' \in {End(r, "failed"), End(r, "stop")}
    <3>1. runs'[r].pc = "mark" /\ runs'[r].out # "sent"
      BY <1>1, <2>2 DEF End, Run
    <3> QED BY <1>1, <1>4, <2>2, <3>1, MovesOn
  <2>3. \/ /\ zuper' = [zuper EXCEPT ![k] = Append(@, <<runs[r].want>>)]
           /\ runs' = [runs EXCEPT ![r].pc = "link", ![r].link = Len(zuper'[k])]
        \/ runs' \in {End(r, "failed"), End(r, "stop")}
    BY <1>6 DEF Post
  <2> QED BY <2>1, <2>2, <2>3
<1>7. CASE Verify(r)
  <2>1. runs' \in {End(r, "sent"), End(r, "failed")} /\ zuper' = zuper
        /\ (k \in ReadBack => runs' = End(r, "failed") \/ Now(k, runs[r].link) = runs[r].want)
    BY <1>7 DEF Verify, world
  <2>2. runs'[r].pc = "mark" /\ (runs' = End(r, "failed") => runs'[r].out = "failed")
    BY <1>1, <2>1 DEF End, Run
  <2>3. runs[r].link \in DOMAIN zuper[k]
    BY <1>1, <1>7 DEF Grounded, Verify
  <2>4. Now(k, runs[r].link) \in Range(zuper[k][runs[r].link])
    <3> DEFINE held == zuper[k][runs[r].link]
    <3>1. held \in Seq(Nat) /\ held # <<>>
      BY <1>1, <1>2, <2>3 DEF Typed, TypeOK
    <3> HIDE DEF held
    <3>2. Len(held) \in DOMAIN held
      BY <3>1
    <3>3. held[Len(held)] \in Range(held)
      BY <3>2 DEF Range
    <3> QED BY <3>3 DEF Now, Last, held
  <2>5. runs'[r].out = "sent" /\ k \in ReadBack => \E n \in DOMAIN zuper'[k] : runs[r].want \in Range(zuper'[k][n])
    BY <2>1, <2>2, <2>3, <2>4
  <2> QED BY <1>1, <1>4, <2>1, <2>2, <2>5, MovesOn
<1>8. CASE Link(r) \/ FollowUp(r)
  <2>1. Has(k, runs[r].want)
    BY <1>1, <1>8 DEF Grounded, Link, FollowUp
  <2>2. \E n \in DOMAIN zuper'[k] : runs[r].want \in Range(zuper'[k][n])
    BY <1>3, <2>1
  <2>3. runs' \in {Go(r, "follow"), End(r, "stop"), End(r, "sent")}
    BY <1>8 DEF Link, FollowUp
  <2>4. runs'[r].pc \in {"follow", "mark"}
    BY <1>1, <2>3 DEF Go, End, Run
  <2> QED BY <1>1, <1>4, <2>2, <2>3, <2>4, MovesOn
<1> QED BY <1>5, <1>6, <1>7, <1>8

LEMMA StaysGrounded ==
  ASSUME Shown, [Next]_vars, NEW q \in Runs
  PROVE  Grounded(q)'
<1>1. Typed /\ runs \in [Runs -> Run] /\ \A r \in Runs : runs[r] \in Run
  BY DEF Shown, Typed, TypeOK
<1>2. CASE runs'[q] = runs[q]
  BY <1>2, StandsStill
<1>3. ASSUME runs'[q].pc \in {"group", "idle"}, runs'[q].ids = {} PROVE Grounded(q)'
  BY <1>3 DEF Grounded
<1>4. ASSUME NEW r \in Runs, Select(r) \/ InTurn(r) \/ Step(r) PROVE Grounded(q)'
  <2>1. CASE r # q
    BY <1>1, <1>2, <1>4, <2>1, OthersStay
  <2>2. CASE Mark(q)
    <3>1. runs'[q].pc = "group" /\ runs'[q].ids = {}
      BY <1>1, <2>2 DEF Mark, Run
    <3> QED BY <1>3, <3>1
  <2>3. CASE Done(q)
    <3>1. runs'[q] = Idle
      BY <1>1, <2>3 DEF Done
    <3> QED BY <1>3, <3>1, IdleTyped
  <2> QED BY <1>4, <2>1, <2>2, <2>3, SelectGrounds, GroupGrounds, ClaimGrounds, PlanGrounds, PushGrounds
          DEF InTurn, Step
<1>5. CASE Elapse
  <2>1. runs'[q] = IF runs[q].pc = "idle" THEN runs[q] ELSE [runs[q] EXCEPT !.age = @ + 1]
    BY <1>1, <1>5 DEF Elapse
  <2>2. /\ runs'[q].pc = runs[q].pc /\ runs'[q].ids = runs[q].ids /\ runs'[q].link = runs[q].link
        /\ runs'[q].want = runs[q].want /\ runs'[q].out = runs[q].out
    BY <1>1, <2>1 DEF Run
  <2> QED BY <2>2, StandsStill
<1>6. CASE \E c \in Containers : Crash(c)
  <2>1. runs'[q] = Idle \/ runs'[q] = runs[q]
    BY <1>6 DEF Crash
  <2> QED BY <1>2, <1>3, <2>1, IdleTyped
<1>7. CASE \/ UNCHANGED vars
           \/ \E k \in Records : EditInTuper(k) \/ EditInZuper(k)
           \/ \E i \in DOMAIN outbox : Told(i) \/ GrowOld(i)
           \/ \E s \in Syncs : SyncStarts(s) \/ SyncReads(s) \/ SyncWrites(s)
           \/ \E c \in Containers, k \in Records : Import(c, k)
           \/ Switch \/ DiscardUnsent
  <2>1. UNCHANGED runs
    BY <1>7 DEF vars, EditInTuper, EditInZuper, Told, GrowOld, SyncStarts, SyncReads, SyncWrites,
                Import, Switch, DiscardUnsent
  <2> QED BY <1>2, <2>1
<1> QED BY <1>4, <1>5, <1>6, <1>7 DEF Next

LEMMA SentStaysTaken ==
  ASSUME Shown, [Next]_vars
  PROVE  SentWasTaken'
<1>1. Typed /\ outbox \in Seq(Row) /\ \A i \in DOMAIN outbox : outbox[i] \in Row
  BY DEF Shown, Typed, TypeOK
<1>2. SUFFICES ASSUME NEW i \in DOMAIN outbox', outbox'[i].status = "sent", outbox'[i].rec \in ReadBack
               PROVE  \E n \in DOMAIN zuper'[outbox'[i].rec] :
                        outbox'[i].planned \in Range(zuper'[outbox'[i].rec][n])
  BY DEF SentWasTaken
<1>3. i \in DOMAIN outbox /\ outbox'[i].rec = outbox[i].rec /\ Becomes(i)
  BY <1>1, <1>2, RowsFollow DEF Follows
<1>4. outbox[i].rec \in Records
  BY <1>1, <1>3 DEF Row
<1>5. \A v : Has(outbox[i].rec, v) =>
        \E n \in DOMAIN zuper'[outbox[i].rec] : v \in Range(zuper'[outbox[i].rec][n])
  BY <1>1, <1>4, ZuperRemembers DEF HistoryGrows, Has
<1>6. Has(outbox[i].rec, outbox'[i].planned)
  <2>1. CASE outbox'[i].status = outbox[i].status /\ outbox'[i].planned = outbox[i].planned
    BY <1>2, <1>3, <2>1 DEF Shown, SentWasTaken, Has
  <2>2. ASSUME NEW r \in Runs, Mark(r), i \in runs[r].ids, runs[r].out = "sent",
               outbox'[i].planned = runs[r].want
        PROVE  Has(outbox[i].rec, outbox'[i].planned)
    <3>1. Grounded(r) /\ runs[r].pc = "mark"
      BY <2>2 DEF Shown, Mark
    <3>2. RecOf(r) = outbox[i].rec
      BY <2>2, <3>1 DEF Grounded, RecOf
    <3>3. Read(r)
      BY <1>2, <1>3, <3>2 DEF Read
    <3> QED BY <2>2, <3>1, <3>2, <3>3 DEF Grounded
  <2> QED BY <1>2, <1>3, <2>1, <2>2 DEF Becomes
<1> QED BY <1>3, <1>5, <1>6

LEMMA InitShown == ASSUME Init PROVE Shown
<1>1. Typed
  BY InitTyped
<1>2. \A r \in Runs : runs[r].pc = "idle" /\ runs[r].ids = {}
  BY IdleTyped DEF Init
<1>3. DOMAIN outbox = {}
  BY DEF Init
<1> QED BY <1>1, <1>2, <1>3 DEF Shown, Grounded, SentWasTaken

(* Of the fields that are read back, what is marked sent Zuper has held: for any containers, records, *)
(* attempts and limits and under every disturbance, answers 200 to what was not taken among them.     *)
THEOREM SentIsTaken == Spec => []SentWasTaken
<1>1. Init => Shown
  BY InitShown
<1>2. Shown /\ [Next]_vars => Shown'
  <2> SUFFICES ASSUME Shown, [Next]_vars PROVE Shown'
    OBVIOUS
  <2>1. Typed'
    BY NextTyped DEF Shown
  <2> QED BY <2>1, StaysGrounded, SentStaysTaken DEF Shown
<1>3. Shown => SentWasTaken
  BY DEF Shown
<1> QED BY <1>1, <1>2, <1>3, PTL DEF Spec

(* A batch that has just been selected has nothing in hand yet. *)
LEMMA Selected ==
  ASSUME Typed, NEW q \in Runs, Select(q)
  PROVE  \/ UNCHANGED runs
         \/ /\ runs' = [runs EXCEPT ![q] = runs'[q]]
            /\ runs[q].pc = "idle" /\ runs'[q].pc = "group" /\ runs'[q].ids = {} /\ runs'[q].age = 0
            /\ runs'[q].link = 0 /\ runs'[q].want = 0 /\ runs'[q].out = "none" /\ runs'[q].stale \subseteq runs'[q].todo
            /\ \A i \in runs'[q].todo : /\ i \in DOMAIN outbox /\ wait[i] <= 0
                                        /\ outbox[i].attempts < MaxAttempts
                                        /\ outbox[i].status \in {"queued", "planned", "failed"}
                                        /\ q[2] # Tick => outbox[i].rec = q[2]
<1> DEFINE m == IF q[2] = Tick THEN mode ELSE "live"
           limit == IF q[2] = Tick THEN Batch ELSE 1
           due == {i \in DOMAIN outbox : /\ outbox[i].status \in Statuses(m)
                                         /\ Due(i) /\ outbox[i].attempts < MaxAttempts
                                         /\ q[2] # Tick => outbox[i].rec = q[2]}
           got == Chosen(due, limit)
           old == {i \in got : outbox[i].age = "old" /\ outbox[i].status # "failed"}
           x == [Idle EXCEPT !.pc = "group", !.mode = m, !.todo = got,
                    !.queued = {i \in got : outbox[i].status = "queued"},
                    !.fresh = {i \in got : outbox[i].age = "new"},
                    !.stale = old]
<1>1. runs \in [Runs -> Run]
  BY DEF Typed, TypeOK
<1>2. runs' = runs \/ runs' = [runs EXCEPT ![q] = x]
  BY DEF Select
<1>3. runs[q].pc = "idle"
  BY DEF Select
<1>4. \A i \in got : /\ i \in DOMAIN outbox /\ wait[i] <= 0
                     /\ outbox[i].attempts < MaxAttempts
                     /\ outbox[i].status \in {"queued", "planned", "failed"}
                     /\ q[2] # Tick => outbox[i].rec = q[2]
  BY ChosenAmong DEF Statuses, Due
<1>5. old \subseteq got
  OBVIOUS
<1> HIDE DEF got, old, m
<1>6. /\ x.pc = "group" /\ x.ids = {} /\ x.age = 0 /\ x.link = 0 /\ x.want = 0 /\ x.out = "none"
      /\ x.todo = got /\ x.stale = old
  BY DEF Idle
<1> HIDE DEF x
<1>7. CASE runs' = [runs EXCEPT ![q] = x]
  <2>1. runs'[q] = x
    BY <1>1, <1>7
  <2> QED BY <1>3, <1>4, <1>5, <1>6, <1>7, <2>1
<1> QED BY <1>2, <1>7

(* The next record of a batch: some of the rows it selected, all of that record. *)
LEMMA Grouped ==
  ASSUME Typed, NEW q \in Runs, Group(q)
  PROVE  /\ runs[q].pc = "group" /\ runs'[q].pc \in {"group", "claim"}
         /\ runs'[q].age = runs[q].age /\ runs'[q].mode = runs[q].mode /\ runs'[q].link = runs[q].link
         /\ runs'[q].want = runs[q].want /\ runs'[q].out = runs[q].out /\ runs'[q].stale = runs[q].stale
         /\ runs'[q].ids \subseteq runs[q].todo /\ runs'[q].todo \subseteq runs[q].todo
         /\ runs'[q].pc = "claim" => runs'[q].ids # {}
         /\ \E k : \A i \in runs'[q].ids : outbox[i].rec = k
         /\ \E ids : ids \subseteq runs[q].stale /\ outbox' = Marked(ids, "skipped")
<1> DEFINE k == outbox[Min(runs[q].todo)].rec
           all == {i \in runs[q].todo : outbox[i].rec = k}
           live == Effective(runs[q].mode, k) = "live"
           rows == IF live THEN all ELSE all \cap runs[q].queued
           waiting == rows \cap runs[q].fresh # {} /\ \E i \in rows : outbox[i].op = "create"
           stale == IF live /\ ~waiting THEN rows \cap runs[q].stale ELSE {}
           ids == IF waiting THEN {} ELSE rows \ stale
<1>1. runs \in [Runs -> Run] /\ runs[q] \in Run
  BY DEF Typed, TypeOK
<1>2. /\ runs[q].pc = "group" /\ outbox' = Marked(stale, "skipped")
      /\ runs' = [runs EXCEPT ![q].todo = @ \ all, ![q].ids = ids,
                              ![q].pc = IF ids = {} THEN "group" ELSE "claim"]
  BY DEF Group
<1>3. \A i \in ids : i \in runs[q].todo /\ outbox[i].rec = k
  OBVIOUS
<1>4. stale \subseteq runs[q].stale
  OBVIOUS
<1> HIDE DEF ids, k, all, stale
<1>5. /\ runs'[q].pc \in {"group", "claim"}
      /\ runs'[q].age = runs[q].age /\ runs'[q].mode = runs[q].mode /\ runs'[q].link = runs[q].link
      /\ runs'[q].want = runs[q].want /\ runs'[q].out = runs[q].out /\ runs'[q].stale = runs[q].stale
      /\ runs'[q].ids = ids /\ runs'[q].todo = runs[q].todo \ all
      /\ runs'[q].pc = "claim" => ids # {}
  BY <1>1, <1>2 DEF Run
<1> QED BY <1>2, <1>3, <1>4, <1>5

(* A claim: the rows that are due yet and not over. *)
LEMMA ClaimTakes ==
  ASSUME Typed, NEW q \in Runs, Claim(q)
  PROVE  /\ runs[q].pc = "claim" /\ runs'[q].pc \in {"group", "plan"}
         /\ runs'[q].age = runs[q].age /\ runs'[q].mode = runs[q].mode /\ runs'[q].link = runs[q].link
         /\ runs'[q].want = runs[q].want /\ runs'[q].out = runs[q].out /\ runs'[q].stale = runs[q].stale
         /\ runs'[q].todo = runs[q].todo
         /\ runs'[q].ids = {i \in runs[q].ids : /\ outbox[i].status \in Statuses(runs[q].mode)
                                                /\ wait[i] + runs[q].age <= 0}
         /\ wait' = [i \in DOMAIN wait |-> IF i \in runs'[q].ids THEN Lease - runs[q].age ELSE wait[i]]
         /\ runs'[q].pc = IF runs'[q].ids = {} THEN "group" ELSE "plan"
         /\ UNCHANGED <<world, outbox>>
<1> DEFINE mine == {i \in runs[q].ids : /\ outbox[i].status \in Statuses(runs[q].mode)
                                        /\ wait[i] + runs[q].age <= 0}
           n == IF mine = {} THEN 0 ELSE Max({outbox[i].attempts : i \in mine}) + 1
<1>1. runs \in [Runs -> Run] /\ runs[q] \in Run
  BY DEF Typed, TypeOK
<1>2. /\ runs[q].pc = "claim" /\ UNCHANGED <<world, outbox>>
      /\ runs' = [runs EXCEPT ![q].ids = mine, ![q].pc = IF mine = {} THEN "group" ELSE "plan", ![q].tries = n]
      /\ wait' = [i \in DOMAIN wait |-> IF i \in mine THEN Lease - runs[q].age ELSE wait[i]]
  BY DEF Claim
<1> HIDE DEF n, mine
<1>3. /\ runs'[q].pc = IF mine = {} THEN "group" ELSE "plan"
      /\ runs'[q].age = runs[q].age /\ runs'[q].mode = runs[q].mode /\ runs'[q].link = runs[q].link
      /\ runs'[q].want = runs[q].want /\ runs'[q].out = runs[q].out /\ runs'[q].stale = runs[q].stale
      /\ runs'[q].ids = mine /\ runs'[q].todo = runs[q].todo
  BY <1>1, <1>2 DEF Run
<1> QED BY <1>2, <1>3 DEF mine

(* What is planned: Tuper's value now, for Zuper's record that the map names now. *)
LEMMA Plans ==
  ASSUME Typed, NEW q \in Runs, PlanRow(q)
  PROVE  /\ runs[q].pc = "plan" /\ runs'[q].pc \in {"compare", "send", "mark"}
         /\ runs'[q].age = runs[q].age /\ runs'[q].mode = runs[q].mode
         /\ runs'[q].ids = runs[q].ids /\ runs'[q].todo = runs[q].todo /\ runs'[q].stale = runs[q].stale
         /\ runs'[q].want = row[RecOf(q)] /\ runs'[q].link = linked[RecOf(q)]
         /\ runs'[q].pc = "compare" <=> linked[RecOf(q)] # 0
         /\ runs'[q].out \in {"none", "planned"}
         /\ UNCHANGED <<world, outbox, wait>>
<1> DEFINE k == RecOf(q)
<1>1. runs \in [Runs -> Run] /\ runs[q] \in Run
  BY DEF Typed, TypeOK
<1>2. /\ runs[q].pc = "plan" /\ UNCHANGED <<world, outbox, wait>>
      /\ runs' = [runs EXCEPT ![q].want = row[k], ![q].link = linked[k],
                          ![q].pc = IF linked[k] # 0 THEN "compare"
                                    ELSE IF Sends(q) THEN "send" ELSE "mark",
                          ![q].out = IF linked[k] # 0 \/ Sends(q) THEN "none" ELSE "planned"]
  BY DEF PlanRow
<1> HIDE DEF k
<1>3. /\ runs'[q].pc \in {"compare", "send", "mark"}
      /\ runs'[q].age = runs[q].age /\ runs'[q].mode = runs[q].mode
      /\ runs'[q].ids = runs[q].ids /\ runs'[q].todo = runs[q].todo /\ runs'[q].stale = runs[q].stale
      /\ runs'[q].want = row[k] /\ runs'[q].link = linked[k]
      /\ runs'[q].pc = "compare" <=> linked[k] # 0
      /\ runs'[q].out \in {"none", "planned"}
  BY <1>1, <1>2 DEF Run
<1> QED BY <1>2, <1>3 DEF k

(* From there to the mark a run keeps its rows and what it planned; a post gives it a record to link. *)
Keeps(q) == /\ runs'[q].age = runs[q].age /\ runs'[q].mode = runs[q].mode /\ runs'[q].ids = runs[q].ids
            /\ runs'[q].todo = runs[q].todo /\ runs'[q].stale = runs[q].stale /\ runs'[q].want = runs[q].want

LEMMA GoesTo ==
  ASSUME Typed, NEW q \in Runs, NEW pc, runs' = Go(q, pc)
  PROVE  Keeps(q) /\ runs'[q].pc = pc /\ runs'[q].link = runs[q].link /\ runs'[q].out = runs[q].out
<1>1. runs \in [Runs -> Run] /\ runs[q] \in Run
  BY DEF Typed, TypeOK
<1> QED BY <1>1 DEF Go, Keeps, Run

LEMMA EndsWith ==
  ASSUME Typed, NEW q \in Runs, NEW out, runs' = End(q, out)
  PROVE  Keeps(q) /\ runs'[q].pc = "mark" /\ runs'[q].link = runs[q].link /\ runs'[q].out = out
<1>1. runs \in [Runs -> Run] /\ runs[q] \in Run
  BY DEF Typed, TypeOK
<1> QED BY <1>1 DEF End, Keeps, Run

LEMMA Compares ==
  ASSUME Typed, NEW q \in Runs, Compare(q)
  PROVE  /\ Keeps(q) /\ runs'[q].link = runs[q].link /\ UNCHANGED <<world, outbox, wait>>
         /\ \/ /\ runs'[q].pc = "send" /\ runs'[q].out = runs[q].out
               /\ RecOf(q) \in Compared => Now(RecOf(q), runs[q].link) # runs[q].want
            \/ runs'[q].pc = "mark" /\ runs'[q].out \in {"skipped", "planned", "failed"}
<1>1. UNCHANGED <<world, outbox, wait>>
  BY DEF Compare
<1>2. \/ /\ runs' = Go(q, "send")
         /\ RecOf(q) \in Compared => Now(RecOf(q), runs[q].link) # runs[q].want
      \/ runs' = End(q, "skipped") \/ runs' = End(q, "planned") \/ runs' = End(q, "failed")
  BY DEF Compare
<1> QED BY <1>1, <1>2, GoesTo, EndsWith

LEMMA Puts ==
  ASSUME Typed, NEW q \in Runs, Put(q)
  PROVE  /\ Keeps(q) /\ runs'[q].link = runs[q].link
         /\ UNCHANGED <<row, newest, linked, twins, outbox, wait, sync>>
         /\ \/ runs'[q].pc = "verify" /\ runs'[q].out = runs[q].out
            \/ runs'[q].pc = "mark" /\ runs'[q].out = "failed"
<1>1. UNCHANGED <<row, newest, linked, twins, outbox, wait, sync>>
  BY DEF Put
<1>2. runs' = Go(q, "verify") \/ runs' = End(q, "failed")
  BY DEF Put
<1> QED BY <1>1, <1>2, GoesTo, EndsWith

LEMMA Verifies ==
  ASSUME Typed, NEW q \in Runs, Verify(q)
  PROVE  /\ Keeps(q) /\ runs'[q].link = runs[q].link /\ UNCHANGED <<world, outbox, wait>>
         /\ runs'[q].pc = "mark" /\ runs'[q].out \in {"sent", "failed"}
<1>1. UNCHANGED <<world, outbox, wait>>
  BY DEF Verify
<1>2. runs' = End(q, "sent") \/ runs' = End(q, "failed")
  BY DEF Verify
<1> QED BY <1>1, <1>2, EndsWith

LEMMA Posts ==
  ASSUME Typed, NEW q \in Runs, Post(q)
  PROVE  /\ Keeps(q) /\ UNCHANGED <<row, newest, linked, twins, outbox, wait, sync>>
         /\ \/ /\ runs'[q].pc = "link" /\ runs'[q].link = Len(zuper[RecOf(q)]) + 1
               /\ zuper' = [zuper EXCEPT ![RecOf(q)] = Append(@, <<runs[q].want>>)]
            \/ zuper' = zuper /\ runs'[q].pc = "mark" /\ runs'[q].out = "failed"
            \/ /\ runs'[q].pc = "mark" /\ runs'[q].out = "stop"
               /\ zuper' \in {zuper, [zuper EXCEPT ![RecOf(q)] = Append(@, <<runs[q].want>>)]}
<1> DEFINE k == RecOf(q)
           one == <<runs[q].want>>
           made == [zuper EXCEPT ![k] = Append(@, one)]
<1>1. runs \in [Runs -> Run] /\ runs[q] \in Run /\ zuper \in [Records -> Seq(Seq(Nat))]
  BY DEF Typed, TypeOK
<1>2. runs[q].ids # {} /\ runs[q].want \in Nat
  BY <1>1 DEF Typed, Fit, Claimed, Post, Run
<1>3. k \in Records /\ one \in Seq(Nat)
  BY <1>2, Recs
<1>4. UNCHANGED <<row, newest, linked, twins, outbox, wait, sync>>
  BY DEF Post
<1>5. \/ zuper' = made /\ runs' = [runs EXCEPT ![q].pc = "link", ![q].link = Len(made[k])]
      \/ zuper' = zuper /\ runs' = End(q, "failed")
      \/ zuper' \in {zuper, made} /\ runs' = End(q, "stop")
  BY DEF Post
<1> HIDE DEF one, k
<1>6. Len(made[k]) = Len(zuper[k]) + 1
  <2>1. made[k] = Append(zuper[k], one) /\ zuper[k] \in Seq(Seq(Nat))
    BY <1>1, <1>3
  <2> QED BY <1>3, <2>1, AppendProperties
<1>7. CASE zuper' = made /\ runs' = [runs EXCEPT ![q].pc = "link", ![q].link = Len(made[k])]
  <2>1. runs' = [runs EXCEPT ![q].pc = "link", ![q].link = Len(zuper[k]) + 1]
    BY <1>6, <1>7
  <2>2. Keeps(q) /\ runs'[q].pc = "link" /\ runs'[q].link = Len(zuper[k]) + 1
    BY <1>1, <2>1 DEF Keeps, Run
  <2> QED BY <1>4, <1>7, <2>2 DEF one, k
<1>8. CASE zuper' = zuper /\ runs' = End(q, "failed")
  BY <1>4, <1>8, EndsWith
<1>9. CASE zuper' \in {zuper, made} /\ runs' = End(q, "stop")
  BY <1>4, <1>9, EndsWith DEF one, k
<1> QED BY <1>5, <1>7, <1>8, <1>9

LEMMA Links ==
  ASSUME Typed, NEW q \in Runs, Link(q)
  PROVE  /\ Keeps(q) /\ runs'[q].link = runs[q].link
         /\ UNCHANGED <<row, newest, zuper, twins, outbox, wait, sync>>
         /\ \/ runs'[q].pc = "follow" /\ runs'[q].out = runs[q].out
               /\ linked' = [linked EXCEPT ![RecOf(q)] = runs[q].link]
            \/ runs'[q].pc = "mark" /\ runs'[q].out = "stop" /\ linked' = linked
<1>1. UNCHANGED <<row, newest, zuper, twins, outbox, wait, sync>>
  BY DEF Link
<1>2. \/ runs' = Go(q, "follow") /\ linked' = [linked EXCEPT ![RecOf(q)] = runs[q].link]
      \/ runs' = End(q, "stop") /\ linked' = linked
  BY DEF Link
<1> QED BY <1>1, <1>2, GoesTo, EndsWith

LEMMA FollowsUp ==
  ASSUME Typed, NEW q \in Runs, FollowUp(q)
  PROVE  /\ Keeps(q) /\ runs'[q].link = runs[q].link /\ UNCHANGED world
         /\ runs'[q].pc = "mark" /\ runs'[q].out = "sent"
         /\ outbox' = Append(outbox, [NewRow(RecOf(q), "follow", runs[q].want) EXCEPT !.status = "queued"])
         /\ wait' = Append(wait, 1)
<1>1. /\ UNCHANGED world /\ runs' = End(q, "sent") /\ wait' = Append(wait, 1)
      /\ outbox' = Append(outbox, [NewRow(RecOf(q), "follow", runs[q].want) EXCEPT !.status = "queued"])
  BY DEF FollowUp
<1> QED BY <1>1, EndsWith

LEMMA Marks ==
  ASSUME Typed, NEW q \in Runs, Mark(q)
  PROVE  /\ runs[q].pc = "mark" /\ runs'[q].pc = "group" /\ runs'[q].ids = {}
         /\ runs'[q].age = runs[q].age /\ runs'[q].mode = runs[q].mode /\ runs'[q].todo = runs[q].todo
         /\ runs'[q].stale = runs[q].stale /\ runs'[q].link = 0 /\ runs'[q].want = 0
         /\ runs'[q].out = "none" /\ UNCHANGED world
<1>1. runs \in [Runs -> Run] /\ runs[q] \in Run
  BY DEF Typed, TypeOK
<1>2. /\ runs[q].pc = "mark" /\ UNCHANGED world
      /\ runs' = [runs EXCEPT ![q] = [@ EXCEPT !.pc = "group", !.ids = {}, !.tries = 0,
                                               !.want = 0, !.link = 0, !.out = "none"]]
  BY DEF Mark
<1> QED BY <1>1, <1>2 DEF Run

(* Of all a run is, only the age of its batch changes without a step of its own, unless its *)
(* container dies.                                                                          *)
Rests(q) ==
  /\ runs'[q].pc = runs[q].pc /\ runs'[q].mode = runs[q].mode /\ runs'[q].todo = runs[q].todo
  /\ runs'[q].ids = runs[q].ids /\ runs'[q].tries = runs[q].tries /\ runs'[q].want = runs[q].want
  /\ runs'[q].link = runs[q].link /\ runs'[q].out = runs[q].out
  /\ Elapse \/ runs'[q].age = runs[q].age

LEMMA WhoMoves ==
  ASSUME Typed, [Next]_vars, NEW q \in Runs
  PROVE  \/ Rests(q)
         \/ runs'[q] = Idle /\ (\E c \in Containers : Crash(c))
         \/ Select(q) \/ InTurn(q) \/ Step(q)
<1>1. runs \in [Runs -> Run] /\ \A r \in Runs : runs[r] \in Run
  BY DEF Typed, TypeOK
<1>2. CASE runs'[q] = runs[q]
  BY <1>2 DEF Rests
<1>3. ASSUME NEW r \in Runs, r # q, Select(r) \/ InTurn(r) \/ Step(r) PROVE runs'[q] = runs[q]
  BY <1>3, OthersStay
<1>4. CASE Elapse
  <2>1. runs'[q] = runs[q] \/ runs'[q] = [runs[q] EXCEPT !.age = @ + 1]
    BY <1>4 DEF Elapse
  <2> QED BY <1>1, <1>4, <2>1 DEF Rests, Run
<1>5. CASE \E c \in Containers : Crash(c)
  BY <1>2, <1>5 DEF Crash
<1>6. CASE \/ UNCHANGED vars
           \/ \E k \in Records : EditInTuper(k) \/ EditInZuper(k)
           \/ \E i \in DOMAIN outbox : Told(i) \/ GrowOld(i)
           \/ \E s \in Syncs : SyncStarts(s) \/ SyncReads(s) \/ SyncWrites(s)
           \/ \E c \in Containers, k \in Records : Import(c, k)
           \/ Switch \/ DiscardUnsent
  <2>1. UNCHANGED runs
    BY <1>6 DEF vars, EditInTuper, EditInZuper, Told, GrowOld, SyncStarts, SyncReads, SyncWrites,
                Import, Switch, DiscardUnsent
  <2> QED BY <1>2, <2>1
<1> QED BY <1>2, <1>3, <1>4, <1>5, <1>6 DEF Next

(* A record once it has rows in a run's hands is the same record while they are there. *)
LEMMA RecKept ==
  ASSUME Typed, [Next]_vars, NEW r \in Runs, runs'[r].ids = runs[r].ids, runs[r].ids # {}
  PROVE  RecOf(r)' = RecOf(r) /\ RecOf(r) \in Records
<1>1. runs[r].ids \subseteq DOMAIN outbox
  BY DEF Typed, TypeOK
<1>2. \A i \in runs[r].ids : outbox'[i].rec = outbox[i].rec
  BY <1>1, RowsFollow DEF Follows
<1> QED BY <1>2, Recs DEF RecOf

(* Zuper's histories of k change by a push of k, or by an edit made in Zuper. *)
Edits(k) == /\ EditInZuper(k) /\ linked[k] \in DOMAIN zuper[k] /\ newest' = [newest EXCEPT ![k] = @ + 1]
            /\ zuper'[k] = [zuper[k] EXCEPT ![linked[k]] = Append(@, newest[k] + 1)]
Writes(r, k) == \/ /\ Put(r) /\ RecOf(r) = k /\ UNCHANGED newest
                   /\ zuper'[k] = [zuper[k] EXCEPT ![runs[r].link] = Append(@, runs[r].want)]
                \/ /\ Post(r) /\ RecOf(r) = k /\ UNCHANGED newest
                   /\ zuper'[k] = Append(zuper[k], <<runs[r].want>>)

LEMMA WhoWrites ==
  ASSUME Typed, [Next]_vars, NEW k \in Records
  PROVE  zuper'[k] = zuper[k] \/ Edits(k) \/ \E r \in Runs : Writes(r, k)
<1>1. zuper \in [Records -> Seq(Seq(Nat))] /\ runs \in [Runs -> Run] /\ newest \in [Records -> Nat]
      /\ \A h \in Records : linked[h] \in 0 .. Len(zuper[h])
  BY DEF Typed, TypeOK
<1>2. CASE UNCHANGED zuper
  BY <1>2
<1>4. ASSUME NEW r \in Runs, Put(r) PROVE zuper'[k] = zuper[k] \/ Writes(r, k)
  <2>1. RecOf(r) \in Records
    BY <1>4, Recs DEF Put, Typed, Fit, Claimed
  <2>2. zuper' = zuper \/ zuper' = [zuper EXCEPT ![RecOf(r)][runs[r].link] = Append(@, runs[r].want)]
    BY <1>4 DEF Put
  <2>3. \/ zuper'[k] = zuper[k]
        \/ RecOf(r) = k /\ zuper'[k] = [zuper[k] EXCEPT ![runs[r].link] = Append(@, runs[r].want)]
    BY <1>1, <2>1, <2>2
  <2>4. UNCHANGED newest
    BY <1>4 DEF Put
  <2> QED BY <1>4, <2>3, <2>4 DEF Writes
<1>5. ASSUME NEW r \in Runs, Post(r) PROVE zuper'[k] = zuper[k] \/ Writes(r, k)
  <2>1. RecOf(r) \in Records
    BY <1>5, Recs DEF Post, Typed, Fit, Claimed
  <2>2. zuper' = zuper \/ zuper' = [zuper EXCEPT ![RecOf(r)] = Append(@, <<runs[r].want>>)]
    BY <1>5 DEF Post
  <2>3. \/ zuper'[k] = zuper[k]
        \/ RecOf(r) = k /\ zuper'[k] = Append(zuper[k], <<runs[r].want>>)
    BY <1>1, <2>1, <2>2
  <2>4. UNCHANGED newest
    BY <1>5 DEF Post
  <2> QED BY <1>5, <2>3, <2>4 DEF Writes
<1>6. ASSUME NEW h \in Records, EditInZuper(h) PROVE zuper'[k] = zuper[k] \/ Edits(k)
  <2>1. newest' = [newest EXCEPT ![h] = @ + 1] /\ newest'[h] = newest[h] + 1 /\ linked[h] # 0
    BY <1>1, <1>6 DEF EditInZuper
  <2>2. zuper' = [zuper EXCEPT ![h][linked[h]] = Append(@, newest[h] + 1)]
    BY <1>6, <2>1 DEF EditInZuper
  <2>3. linked[h] \in DOMAIN zuper[h]
    BY <1>1, <2>1
  <2>4. \/ zuper'[k] = zuper[k]
        \/ h = k /\ zuper'[k] = [zuper[k] EXCEPT ![linked[k]] = Append(@, newest[k] + 1)]
    BY <1>1, <2>2
  <2> QED BY <1>6, <2>1, <2>3, <2>4 DEF Edits
<1>7. ASSUME NEW r \in Runs, Select(r) \/ PlanRow(r) \/ Step(r)
      PROVE  UNCHANGED zuper
  BY <1>7 DEF Step, Select, Group, Claim, PlanRow, Compare, Verify, Link, FollowUp, Mark, Done, world
<1>8. CASE \/ UNCHANGED vars
           \/ \E h \in Records : EditInTuper(h)
           \/ \E j \in DOMAIN outbox : Told(j) \/ GrowOld(j)
           \/ \E s \in Syncs : SyncStarts(s) \/ SyncReads(s) \/ SyncWrites(s)
           \/ \E c \in Containers, h \in Records : Import(c, h)
           \/ \E c \in Containers : Crash(c)
           \/ Elapse \/ Switch \/ DiscardUnsent
  <2>1. UNCHANGED zuper
    BY <1>8 DEF vars, EditInTuper, Told, GrowOld, SyncStarts, SyncReads, SyncWrites,
                Import, Crash, Elapse, Switch, DiscardUnsent, world
  <2> QED BY <1>2, <2>1
<1> QED BY <1>2, <1>4, <1>5, <1>6, <1>7, <1>8 DEF Next, InTurn

(* A record is linked by the run that posted it, and imported while no post is being linked. *)
LEMMA WhoLinks ==
  ASSUME Typed, [Next]_vars, NEW k \in Records
  PROVE  linked'[k] = linked[k] \/ \E r \in Runs : Link(r) /\ RecOf(r) = k /\ linked'[k] = runs[r].link
<1>1. linked \in [Records -> Nat]
  BY DEF Typed, TypeOK
<1>2. CASE UNCHANGED linked
  BY <1>2
<1>3. ASSUME NEW r \in Runs, Link(r)
      PROVE  linked'[k] = linked[k] \/ (RecOf(r) = k /\ linked'[k] = runs[r].link)
  BY <1>1, <1>3 DEF Link
<1>4. ASSUME NEW r \in Runs, Select(r) \/ InTurn(r) \/ Step(r), ~Link(r)
      PROVE  UNCHANGED linked
  BY <1>4 DEF Step, InTurn, Select, Group, Claim, PlanRow, Compare, Put, Post, Verify, FollowUp, Mark, Done, world
<1>5. CASE \/ UNCHANGED vars
           \/ \E h \in Records : EditInTuper(h) \/ EditInZuper(h)
           \/ \E j \in DOMAIN outbox : Told(j) \/ GrowOld(j)
           \/ \E s \in Syncs : SyncStarts(s) \/ SyncReads(s) \/ SyncWrites(s)
           \/ \E c \in Containers, h \in Records : Import(c, h)
           \/ \E c \in Containers : Crash(c)
           \/ Elapse \/ Switch \/ DiscardUnsent
  <2>1. UNCHANGED linked
    BY <1>5 DEF vars, EditInTuper, EditInZuper, Told, GrowOld, SyncStarts, SyncReads, SyncWrites,
                Import, Crash, Elapse, Switch, DiscardUnsent, world
  <2> QED BY <1>2, <2>1
<1> QED BY <1>2, <1>3, <1>4, <1>5 DEF Next, InTurn, Step

LEMMA WhoImports ==
  ASSUME Typed, [Next]_vars, NEW k \in Records
  PROVE  \/ twins'[k] = twins[k]
         \/ \E c \in Containers : /\ Import(c, k)
                                  /\ \E n \in DOMAIN zuper[k] \ (twins[k] \cup {linked[k]}) :
                                       twins'[k] = twins[k] \cup {n}
<1>1. twins \in [Records -> SUBSET Nat]
  BY DEF Typed, TypeOK
<1>2. CASE UNCHANGED twins
  BY <1>2
<1>3. ASSUME NEW c \in Containers, NEW h \in Records, Import(c, h)
      PROVE  \/ twins'[k] = twins[k]
             \/ h = k /\ \E n \in DOMAIN zuper[k] \ (twins[k] \cup {linked[k]}) : twins'[k] = twins[k] \cup {n}
  <2>1. PICK n \in DOMAIN zuper[h] \ (twins[h] \cup {linked[h]}) : twins' = [twins EXCEPT ![h] = @ \cup {n}]
    BY <1>3 DEF Import
  <2> QED BY <1>1, <2>1
<1>4. ASSUME NEW r \in Runs, Select(r) \/ InTurn(r) \/ Step(r)
      PROVE  UNCHANGED twins
  BY <1>4 DEF Step, InTurn, Select, Group, Claim, PlanRow, Compare, Put, Post, Verify, Link, FollowUp, Mark,
              Done, world
<1>5. CASE \/ UNCHANGED vars
           \/ \E h \in Records : EditInTuper(h) \/ EditInZuper(h)
           \/ \E j \in DOMAIN outbox : Told(j) \/ GrowOld(j)
           \/ \E s \in Syncs : SyncStarts(s) \/ SyncReads(s) \/ SyncWrites(s)
           \/ \E c \in Containers : Crash(c)
           \/ Elapse \/ Switch \/ DiscardUnsent
  <2>1. UNCHANGED twins
    BY <1>5 DEF vars, EditInTuper, EditInZuper, Told, GrowOld, SyncStarts, SyncReads, SyncWrites,
                Crash, Elapse, Switch, DiscardUnsent, world
  <2> QED BY <1>2, <2>1
<1> QED BY <1>2, <1>3, <1>4, <1>5 DEF Next

(* Only what Zuper has is imported, and not what a run is about to link. *)
Unlinked == \A r \in Runs : runs[r].pc = "link" => runs[r].link \notin twins[RecOf(r)]
Single == Typed /\ NoTwin /\ Unlinked /\ \A k \in Records : twins[k] \subseteq DOMAIN zuper[k]

LEMMA StaysUnlinked ==
  ASSUME Single, [Next]_vars, \A c, d \in Containers : c = d
  PROVE  Unlinked'
<1>1. Typed /\ runs \in [Runs -> Run] /\ \A r \in Runs : runs[r] \in Run
  BY DEF Single, Typed, TypeOK
<1>2. SUFFICES ASSUME NEW q \in Runs, runs'[q].pc = "link" PROVE runs'[q].link \notin twins'[RecOf(q)']
  BY DEF Unlinked
<1>3. ASSUME runs[q].pc = "link", runs'[q].link = runs[q].link, runs'[q].ids = runs[q].ids
      PROVE  runs'[q].link \notin twins'[RecOf(q)']
  <2>1. RecOf(q)' = RecOf(q) /\ RecOf(q) \in Records
    BY <1>1, <1>3, RecKept DEF Typed, Fit, Claimed
  <2>2. runs[q].link \notin twins[RecOf(q)]
    BY <1>3 DEF Single, Unlinked
  <2>3. \A c \in Containers : Creating(c)
    BY <1>3 DEF Creating, Runs
  <2>4. twins'[RecOf(q)] = twins[RecOf(q)]
    BY <1>1, <2>1, <2>3, WhoImports DEF Import
  <2> QED BY <1>3, <2>1, <2>2, <2>4
<1>4. CASE Rests(q)
  BY <1>2, <1>3, <1>4 DEF Rests
<1>5. CASE runs'[q] = Idle
  BY <1>2, <1>5, IdleTyped
<1>6. CASE Post(q)
  <2> DEFINE k == RecOf(q)
  <2>1. runs[q].ids # {} /\ runs'[q].ids = runs[q].ids /\ twins' = twins
        /\ runs'[q].link = Len(zuper[k]) + 1
    BY <1>1, <1>2, <1>6, Posts DEF Typed, Fit, Claimed, Post, Keeps
  <2>2. k \in Records /\ RecOf(q)' = k
    BY <1>1, <2>1, RecKept
  <2>3. zuper[k] \in Seq(Seq(Nat)) /\ twins[k] \subseteq DOMAIN zuper[k]
    BY <1>1, <2>2 DEF Single, Typed, TypeOK
  <2> HIDE DEF k
  <2>4. Len(zuper[k]) + 1 \notin twins[k]
    BY <2>3
  <2> QED BY <2>1, <2>2, <2>4
<1>7. CASE Select(q) \/ PlanRow(q) \/ Put(q) \/ Step(q)
  <2>1. runs'[q].pc # "link" \/ UNCHANGED runs
    <3>1. CASE Done(q)
      BY <1>1, <3>1, IdleTyped DEF Done
    <3>2. CASE Select(q) \/ Group(q) \/ Claim(q) \/ PlanRow(q)
      BY <1>1, <3>2, Selected, Grouped, ClaimTakes, Plans
    <3>3. CASE Put(q) \/ Compare(q) \/ Verify(q)
      BY <1>1, <3>3, Puts, Compares, Verifies
    <3>4. CASE Link(q) \/ FollowUp(q) \/ Mark(q)
      BY <1>1, <3>4, Links, FollowsUp, Marks
    <3> QED BY <1>7, <3>1, <3>2, <3>3, <3>4 DEF Step
  <2> QED BY <1>2, <1>3, <2>1
<1> QED BY <1>1, <1>4, <1>5, <1>6, <1>7, WhoMoves DEF InTurn

LEMMA NextSingle ==
  ASSUME Single, [Next]_vars, \A c, d \in Containers : c = d
  PROVE  Single'
<1>1. Typed /\ Typed'
  BY NextTyped DEF Single
<1>2. ASSUME NEW k \in Records
      PROVE  linked'[k] \notin twins'[k] /\ twins'[k] \subseteq DOMAIN zuper'[k]
  <2>1. linked[k] \notin twins[k] /\ twins[k] \subseteq DOMAIN zuper[k]
    BY DEF Single, NoTwin
  <2>2. DOMAIN zuper[k] \subseteq DOMAIN zuper'[k]
    BY <1>1, ZuperRemembers DEF HistoryGrows
  <2>3. CASE linked'[k] # linked[k]
    <3>1. PICK r \in Runs : Link(r) /\ RecOf(r) = k /\ linked'[k] = runs[r].link
      BY <1>1, <2>3, WhoLinks
    <3>2. runs[r].link \notin twins[k] /\ twins' = twins
      BY <3>1 DEF Link, Single, Unlinked
    <3> QED BY <2>1, <2>2, <3>1, <3>2
  <2>4. CASE linked'[k] = linked[k]
    <3>1. twins'[k] = twins[k] \/ \E n \in DOMAIN zuper[k] \ (twins[k] \cup {linked[k]}) :
                                       twins'[k] = twins[k] \cup {n}
      BY <1>1, WhoImports
    <3> QED BY <2>1, <2>2, <2>4, <3>1
  <2> QED BY <2>3, <2>4
<1> QED BY <1>1, <1>2, StaysUnlinked DEF Single, NoTwin

(* A job that a push has made and linked is not imported as another row as well, whatever fails, *)
(* crashes or is edited meanwhile, in one container: its imports wait for its own creates, and a *)
(* second container knows nothing of them (src/processor.ts, JOB_CREATE_LOCK).                    *)
THEOREM CreatesAreNotImported ==
  ASSUME \A c, d \in Containers : c = d
  PROVE  Spec => []NoTwin
<1>1. Init => Single
  <2> SUFFICES ASSUME Init PROVE Single
    OBVIOUS
  <2>1. Typed
    BY InitTyped
  <2>2. \A k \in Records : twins[k] = {}
    BY DEF Init
  <2>3. \A r \in Runs : runs[r].pc = "idle"
    BY IdleTyped DEF Init
  <2> QED BY <2>1, <2>2, <2>3 DEF Single, NoTwin, Unlinked
<1>2. Single /\ [Next]_vars => Single'
  BY NextSingle
<1>3. Single => NoTwin
  BY DEF Single
<1> QED BY <1>1, <1>2, <1>3, PTL DEF Spec

(* Without inbound syncs there are no flushes, and one container has one batch at a time. *)
Solo == /\ \A s \in Syncs : sync[s].pc = "idle"
        /\ \A r \in Runs : runs[r].pc # "idle" => r[2] = Tick

LEMMA StaysSolo ==
  ASSUME Typed, Solo, [Next]_vars, "inbound" \notin Disturbances
  PROVE  Solo'
<1>1. /\ runs \in [Runs -> Run] /\ sync \in [Syncs -> [pc : {"idle", "flush", "read", "write"}, read : Nat]]
      /\ \A s \in Syncs : sync[s].pc = "idle"
  BY DEF Typed, TypeOK, Solo
<1>2. ASSUME NEW s \in Syncs, sync'[s].pc # "idle" PROVE FALSE
  <2>1. CASE UNCHANGED sync
    BY <1>1, <1>2, <2>1
  <2>2. ASSUME NEW r \in Runs, Select(r) PROVE UNCHANGED sync
    BY <1>1, <2>2 DEF Select, Runs, Syncs
  <2>3. ASSUME NEW r \in Runs, Done(r) PROVE UNCHANGED sync
    BY <2>3 DEF Done, Solo
  <2>4. ASSUME NEW r \in Runs, InTurn(r) \/ Step(r), ~Done(r) PROVE UNCHANGED sync
    BY <2>4 DEF Step, InTurn, Group, Claim, PlanRow, Put, Post, Compare, Verify, Link, FollowUp, Mark
  <2>5. ASSUME NEW t \in Syncs, SyncStarts(t) \/ SyncReads(t) \/ SyncWrites(t) PROVE FALSE
    BY <1>1, <2>5 DEF SyncStarts, SyncReads, SyncWrites
  <2>6. CASE \E c \in Containers : Crash(c)
    BY <1>1, <1>2, <2>6 DEF Crash, Asleep
  <2>7. CASE \/ UNCHANGED vars
             \/ \E k \in Records : EditInTuper(k) \/ EditInZuper(k)
             \/ \E i \in DOMAIN outbox : Told(i) \/ GrowOld(i)
             \/ \E c \in Containers, k \in Records : Import(c, k)
             \/ Elapse \/ Switch \/ DiscardUnsent
    <3>1. UNCHANGED sync
      BY <2>7 DEF vars, EditInTuper, EditInZuper, Told, GrowOld, Import, Elapse, Switch, DiscardUnsent
    <3> QED BY <2>1, <3>1
  <2> QED BY <2>1, <2>2, <2>3, <2>4, <2>5, <2>6, <2>7 DEF Next
<1>3. ASSUME NEW q \in Runs, runs'[q].pc # "idle" PROVE q[2] = Tick
  <2>1. CASE runs[q].pc # "idle"
    BY <2>1 DEF Solo
  <2>2. CASE Select(q)
    BY <1>1, <2>2 DEF Select, Runs, Syncs
  <2>3. CASE Rests(q) \/ runs'[q] = Idle
    BY <1>3, <2>1, <2>3, IdleTyped DEF Rests
  <2>4. CASE InTurn(q) \/ Step(q)
    <3>1. runs[q].pc # "idle"
      BY <2>4 DEF Step, InTurn, Group, Claim, PlanRow, Put, Post, Compare, Verify, Link, FollowUp, Mark, Done
    <3> QED BY <2>1, <3>1
  <2> QED BY <2>2, <2>3, <2>4, WhoMoves
<1> QED BY <1>2, <1>3 DEF Solo

LEMMA OneBatch ==
  ASSUME Solo, \A c, d \in Containers : c = d, NEW q \in Runs, NEW r \in Runs,
         runs[q].pc # "idle", runs[r].pc # "idle"
  PROVE  q = r
<1>1. q[2] = Tick /\ r[2] = Tick
  BY DEF Solo
<1> QED BY <1>1 DEF Runs

(* What Zuper shows of a record, after its history got longer. *)
LEMMA Longer ==
  ASSUME NEW s \in Seq(Nat), s # <<>>, NEW v \in Nat
  PROVE  LET t == Append(s, v) IN
         /\ t \in Seq(Nat) /\ Last(t) = v /\ Last(s) \in Range(s)
         /\ \A x \in Range(t) : x \in Range(s) \/ x = v
         /\ \A i \in 1 .. Len(t) - 1 : \/ i \in 1 .. Len(s) - 1 /\ t[i] = s[i] /\ t[i + 1] = s[i + 1]
                                       \/ t[i] = Last(s) /\ t[i + 1] = v
<1> DEFINE t == Append(s, v)
<1>1. /\ t \in Seq(Nat) /\ Len(t) = Len(s) + 1 /\ t[Len(s) + 1] = v
      /\ \A i \in 1 .. Len(s) : t[i] = s[i]
  BY AppendProperties
<1>2. Len(s) \in Nat \ {0} /\ DOMAIN s = 1 .. Len(s) /\ DOMAIN t = 1 .. Len(s) + 1
  BY <1>1
<1> HIDE DEF t
<1>3. Last(t) = v /\ Last(s) = s[Len(s)]
  BY <1>1 DEF Last
<1>4. s[Len(s)] \in Range(s)
  BY <1>2 DEF Range
<1>5. ASSUME NEW x \in Range(t) PROVE x \in Range(s) \/ x = v
  <2>1. PICK i \in 1 .. Len(s) + 1 : x = t[i]
    BY <1>2 DEF Range
  <2>2. CASE i = Len(s) + 1
    BY <1>1, <2>1, <2>2
  <2>3. CASE i \in 1 .. Len(s)
    BY <1>1, <1>2, <2>1, <2>3 DEF Range
  <2> QED BY <1>2, <2>2, <2>3
<1>6. ASSUME NEW i \in 1 .. Len(t) - 1
      PROVE  \/ i \in 1 .. Len(s) - 1 /\ t[i] = s[i] /\ t[i + 1] = s[i + 1]
             \/ t[i] = Last(s) /\ t[i + 1] = v
  <2>1. CASE i = Len(s)
    BY <1>1, <1>2, <1>3, <2>1
  <2>2. CASE i # Len(s)
    <3>1. i \in 1 .. (Len(s) + 1) - 1
      BY <1>1
    <3>2. \A m \in Nat : \A j \in 1 .. (m + 1) - 1 : j # m => /\ j \in 1 .. m - 1 /\ j \in 1 .. m
                                                               /\ j + 1 \in 1 .. m
      OBVIOUS
    <3>3. i \in 1 .. Len(s) - 1 /\ i \in 1 .. Len(s) /\ i + 1 \in 1 .. Len(s)
      BY <1>2, <2>2, <3>1, <3>2
    <3> QED BY <1>1, <3>3
  <2> QED BY <2>1, <2>2
<1> QED BY <1>1, <1>3, <1>4, <1>5, <1>6 DEF t

(* Zuper's histories of a record, one by one: as they were, longer by what the step wrote, or of that alone. *)
Wrote(k, n, v) ==
  /\ n \in DOMAIN zuper[k]
  /\ zuper'[k][n] = Append(zuper[k][n], v)

LEMMA HistoryStep ==
  ASSUME Typed, [Next]_vars, NEW k \in Records, NEW n \in DOMAIN zuper'[k]
  PROVE  \/ n \in DOMAIN zuper[k] /\ zuper'[k][n] = zuper[k][n]
         \/ Edits(k) /\ n = linked[k] /\ Wrote(k, n, newest[k] + 1)
         \/ \E r \in Runs : /\ Put(r) /\ RecOf(r) = k /\ n = runs[r].link
                            /\ Wrote(k, n, runs[r].want)
         \/ \E r \in Runs : Post(r) /\ RecOf(r) = k /\ zuper'[k][n] = <<runs[r].want>>
<1>1. zuper \in [Records -> Seq(Seq(Nat))] /\ zuper[k] \in Seq(Seq(Nat))
  BY DEF Typed, TypeOK
<1>2. CASE zuper'[k] = zuper[k]
  BY <1>2
<1>3. CASE Edits(k)
  <2>1. DOMAIN zuper'[k] = DOMAIN zuper[k]
        /\ zuper'[k][n] = IF n = linked[k] THEN Append(zuper[k][n], newest[k] + 1) ELSE zuper[k][n]
    BY <1>1, <1>3 DEF Edits
  <2> QED BY <1>3, <2>1 DEF Wrote
<1>4. ASSUME NEW r \in Runs, Put(r), RecOf(r) = k,
             zuper'[k] = [zuper[k] EXCEPT ![runs[r].link] = Append(@, runs[r].want)]
      PROVE  \/ n \in DOMAIN zuper[k] /\ zuper'[k][n] = zuper[k][n]
             \/ Put(r) /\ RecOf(r) = k /\ n = runs[r].link /\ Wrote(k, n, runs[r].want)
  <2>1. DOMAIN zuper'[k] = DOMAIN zuper[k]
        /\ zuper'[k][n] = IF n = runs[r].link THEN Append(zuper[k][n], runs[r].want) ELSE zuper[k][n]
    BY <1>1, <1>4
  <2> QED BY <1>4, <2>1 DEF Wrote
<1>5. ASSUME NEW r \in Runs, Post(r), RecOf(r) = k, zuper'[k] = Append(zuper[k], <<runs[r].want>>)
      PROVE  \/ n \in DOMAIN zuper[k] /\ zuper'[k][n] = zuper[k][n]
             \/ zuper'[k][n] = <<runs[r].want>>
  <2> DEFINE one == <<runs[r].want>>
  <2>1. one \in Seq(Nat)
    <3>1. runs[r].want \in Nat
      BY DEF Typed, TypeOK, Run
    <3> QED BY <3>1
  <2>2. zuper'[k] = Append(zuper[k], one)
    BY <1>5
  <2> HIDE DEF one
  <2>3. /\ Append(zuper[k], one) \in Seq(Seq(Nat)) /\ Len(Append(zuper[k], one)) = Len(zuper[k]) + 1
        /\ \A i \in 1 .. Len(zuper[k]) : Append(zuper[k], one)[i] = zuper[k][i]
        /\ Append(zuper[k], one)[Len(zuper[k]) + 1] = one
    BY <1>1, <2>1, AppendProperties
  <2>4. n \in 1 .. Len(zuper[k]) + 1 /\ DOMAIN zuper[k] = 1 .. Len(zuper[k]) /\ Len(zuper[k]) \in Nat
    BY <1>1, <2>2, <2>3
  <2>5. zuper'[k][n] = one \/ (n \in DOMAIN zuper[k] /\ zuper'[k][n] = zuper[k][n])
    BY <2>2, <2>3, <2>4
  <2> QED BY <2>5 DEF one
<1> QED BY <1>2, <1>3, <1>4, <1>5, WhoWrites DEF Writes
(* No value is newer than the last one given, in Zuper, in Tuper or in a run's hands. *)
Aged == /\ \A k \in Records : row[k] <= newest[k]
        /\ \A k \in Records : \A n \in DOMAIN zuper[k] : \A v \in Range(zuper[k][n]) : v <= newest[k]
        /\ \A r \in Runs : runs[r].pc \in Claimed \ {"plan"} => runs[r].want <= newest[RecOf(r)]
\* Of what is compared a run sends only what Zuper did not show when it looked, and nothing else
\* is sent meanwhile.
Differs == \A r \in Runs : runs[r].pc = "send" /\ runs[r].link # 0 /\ RecOf(r) \in Compared =>
             Now(RecOf(r), runs[r].link) # runs[r].want
Fresh == Shown /\ Solo /\ Aged /\ Differs /\ NoRepeat

LEMMA NextShown == ASSUME Shown, [Next]_vars PROVE Shown'
<1>1. Typed'
  BY NextTyped DEF Shown
<1> QED BY <1>1, StaysGrounded, SentStaysTaken DEF Shown

(* Values are given one after the other. *)
LEMMA NewestGrows ==
  ASSUME Typed, [Next]_vars, NEW k \in Records
  PROVE  /\ newest[k] <= newest'[k] /\ newest[k] \in Nat /\ newest'[k] \in Nat
         /\ \/ row'[k] = row[k]
            \/ row'[k] = newest'[k] /\ EditInTuper(k)
            \/ \E s \in Syncs : sync[s].pc = "write"
<1>1. newest \in [Records -> Nat] /\ row \in [Records -> Nat]
  BY DEF Typed, TypeOK
<1>2. CASE UNCHANGED newest /\ UNCHANGED row
  BY <1>1, <1>2
<1>3. ASSUME NEW h \in Records, EditInTuper(h)
      PROVE  /\ newest[k] <= newest'[k] /\ newest'[k] \in Nat
             /\ row'[k] = row[k] \/ (row'[k] = newest'[k] /\ EditInTuper(k))
  <2>1. newest' = [newest EXCEPT ![h] = @ + 1] /\ row' = [row EXCEPT ![h] = newest'[h]]
    BY <1>3 DEF EditInTuper
  <2> QED BY <1>1, <1>3, <2>1
<1>4. ASSUME NEW h \in Records, EditInZuper(h)
      PROVE  newest[k] <= newest'[k] /\ newest'[k] \in Nat /\ row'[k] = row[k]
  <2>1. newest' = [newest EXCEPT ![h] = @ + 1] /\ row' = row
    BY <1>4 DEF EditInZuper
  <2> QED BY <1>1, <2>1
<1>5. ASSUME NEW s \in Syncs, SyncWrites(s) PROVE UNCHANGED newest /\ sync[s].pc = "write"
  BY <1>5 DEF SyncWrites
<1>6. ASSUME NEW r \in Runs, Select(r) \/ InTurn(r) \/ Step(r)
      PROVE  UNCHANGED newest /\ UNCHANGED row
  BY <1>6 DEF Step, InTurn, Select, Group, Claim, PlanRow, Compare, Put, Post, Verify, Link, FollowUp, Mark,
              Done, world
<1>7. CASE \/ UNCHANGED vars
           \/ \E j \in DOMAIN outbox : Told(j) \/ GrowOld(j)
           \/ \E s \in Syncs : SyncStarts(s) \/ SyncReads(s)
           \/ \E c \in Containers, h \in Records : Import(c, h)
           \/ \E c \in Containers : Crash(c)
           \/ Elapse \/ Switch \/ DiscardUnsent
  <2>1. UNCHANGED newest /\ UNCHANGED row
    BY <1>7 DEF vars, Told, GrowOld, SyncStarts, SyncReads, Import, Crash, Elapse, Switch, DiscardUnsent, world
  <2> QED BY <1>2, <2>1
<1> QED BY <1>1, <1>2, <1>3, <1>4, <1>5, <1>6, <1>7 DEF Next

(* What a run is about to write it planned: it is the same from the plan to the mark. *)
LEMMA WantsSame ==
  ASSUME Typed, [Next]_vars, NEW q \in Runs, runs'[q].pc \in Claimed \ {"plan"}
  PROVE  /\ runs[q].pc \in Claimed /\ runs'[q].ids = runs[q].ids
         /\ RecOf(q)' = RecOf(q) /\ RecOf(q) \in Records
         /\ \/ PlanRow(q) /\ runs'[q].want = row[RecOf(q)] /\ runs'[q].link = linked[RecOf(q)]
            \/ runs[q].pc # "plan" /\ runs'[q].want = runs[q].want
<1>1. runs \in [Runs -> Run] /\ runs[q] \in Run
  BY DEF Typed, TypeOK
<1>2. /\ runs[q].pc \in Claimed /\ runs'[q].ids = runs[q].ids
      /\ \/ PlanRow(q) /\ runs'[q].want = row[RecOf(q)] /\ runs'[q].link = linked[RecOf(q)]
         \/ runs[q].pc # "plan" /\ runs'[q].want = runs[q].want
  <2>1. CASE Rests(q)
    BY <2>1 DEF Rests
  <2>2. CASE runs'[q] = Idle
    BY <2>2, IdleTyped DEF Claimed
  <2>3. CASE UNCHANGED runs
    BY <2>3
  <2>4. CASE Select(q) \/ Group(q) \/ Claim(q) \/ Mark(q)
    <3>1. UNCHANGED runs \/ runs'[q].pc \in {"group", "claim", "plan"}
      BY <2>4, Selected, Grouped, ClaimTakes, Marks
    <3> QED BY <2>3, <3>1 DEF Claimed
  <2>5. CASE Done(q)
    BY <1>1, <2>5, IdleTyped DEF Done, Claimed
  <2>6. CASE PlanRow(q)
    BY <2>6, Plans DEF Claimed
  <2>7. CASE Put(q) \/ Compare(q) \/ Verify(q)
    <3>1. runs[q].pc \in {"send", "compare", "verify"}
      BY <2>7 DEF Put, Compare, Verify
    <3> QED BY <2>7, <3>1, Puts, Compares, Verifies DEF Keeps, Claimed
  <2>8. CASE Post(q) \/ Link(q) \/ FollowUp(q)
    <3>1. runs[q].pc \in {"send", "link", "follow"}
      BY <2>8 DEF Post, Link, FollowUp
    <3> QED BY <2>8, <3>1, Posts, Links, FollowsUp DEF Keeps, Claimed
  <2> QED BY <2>1, <2>2, <2>4, <2>5, <2>6, <2>7, <2>8, WhoMoves DEF InTurn, Step
<1>3. runs[q].ids # {}
  BY <1>2 DEF Typed, Fit
<1> QED BY <1>2, <1>3, RecKept
(* A history is of numbers and is never empty. *)
LEMMA Histories ==
  ASSUME Typed, NEW k \in Records, NEW n \in DOMAIN zuper[k]
  PROVE  zuper[k][n] \in Seq(Nat) /\ zuper[k][n] # <<>> /\ Now(k, n) = Last(zuper[k][n])
         /\ Now(k, n) \in Range(zuper[k][n])
<1>1. zuper[k] \in Seq(Seq(Nat)) /\ zuper[k][n] # <<>>
  BY DEF Typed, TypeOK
<1>2. zuper[k][n] \in Seq(Nat)
  BY <1>1
<1>3. Last(zuper[k][n]) \in Range(zuper[k][n])
  BY <1>1, <1>2, Longer, 0 \in Nat
<1> QED BY <1>1, <1>2, <1>3 DEF Now

LEMMA StaysAged ==
  ASSUME Fresh, [Next]_vars
  PROVE  Aged'
<1>1. Typed /\ (\A s \in Syncs : sync[s].pc # "write") /\ row \in [Records -> Nat] /\ newest \in [Records -> Nat]
      /\ \A r \in Runs : runs[r].want \in Nat
  <2>1. Typed /\ runs \in [Runs -> Run] /\ \A r \in Runs : runs[r] \in Run
    BY DEF Fresh, Shown, Typed, TypeOK
  <2>2. \A r \in Runs : runs[r].want \in Nat
    BY <2>1 DEF Run
  <2> QED BY <2>1, <2>2 DEF Fresh, Solo, Typed, TypeOK
<1>2. ASSUME NEW k \in Records PROVE row'[k] <= newest'[k]
  BY <1>1, NewestGrows DEF Fresh, Aged
<1>3. ASSUME NEW k \in Records, NEW n \in DOMAIN zuper'[k], NEW v \in Range(zuper'[k][n])
      PROVE  v <= newest'[k]
  <2>1. newest[k] <= newest'[k] /\ newest[k] \in Nat /\ newest'[k] \in Nat
    BY <1>1, NewestGrows
  <2>2. CASE n \in DOMAIN zuper[k] /\ zuper'[k][n] = zuper[k][n]
    <3>1. v <= newest[k] /\ v \in Nat
      <4>1. v \in Range(zuper[k][n]) /\ zuper[k][n] \in Seq(Nat)
        BY <1>1, <1>3, <2>2, Histories
      <4>2. v \in Nat
        BY <4>1 DEF Range
      <4> QED BY <2>2, <4>1, <4>2 DEF Fresh, Aged
    <3> QED BY <2>1, <3>1
  <2>3. ASSUME NEW w \in Nat, w <= newest'[k], Wrote(k, n, w) PROVE v <= newest'[k]
    <3>1. zuper[k][n] \in Seq(Nat) /\ zuper[k][n] # <<>> /\ n \in DOMAIN zuper[k]
          /\ zuper'[k][n] = Append(zuper[k][n], w)
      BY <1>1, <2>3, Histories DEF Wrote
    <3>2. v \in Range(zuper[k][n]) \/ v = w
      BY <1>3, <3>1, Longer
    <3>3. v \in Range(zuper[k][n]) => v \in Nat /\ v <= newest[k]
      BY <3>1 DEF Fresh, Aged, Range
    <3> QED BY <2>1, <2>3, <3>2, <3>3
  <2>4. CASE Edits(k) /\ Wrote(k, n, newest[k] + 1)
    <3>1. newest'[k] = newest[k] + 1
      BY <1>1, <2>4 DEF Edits
    <3> QED BY <2>1, <2>3, <2>4, <3>1
  <2>5. ASSUME NEW r \in Runs, Put(r) \/ Post(r), RecOf(r) = k
        PROVE  runs[r].want \in Nat /\ runs[r].want <= newest'[k]
    <3>1. runs[r].pc = "send"
      BY <2>5 DEF Put, Post
    <3>2. runs[r].want <= newest[k]
      BY <2>5, <3>1 DEF Fresh, Aged, Claimed
    <3> QED BY <1>1, <2>1, <3>2
  <2>6. ASSUME NEW r \in Runs, Post(r), RecOf(r) = k, zuper'[k][n] = <<runs[r].want>> PROVE v <= newest'[k]
    <3>1. v = runs[r].want
      BY <1>3, <2>6 DEF Range
    <3> QED BY <2>5, <2>6, <3>1
  <2> QED BY <1>1, <2>2, <2>3, <2>4, <2>5, <2>6, HistoryStep
<1>4. ASSUME NEW q \in Runs, runs'[q].pc \in Claimed \ {"plan"} PROVE runs'[q].want <= newest'[RecOf(q)']
  <2>1. /\ runs[q].pc \in Claimed /\ runs'[q].ids = runs[q].ids
        /\ RecOf(q)' = RecOf(q) /\ RecOf(q) \in Records
        /\ \/ PlanRow(q) /\ runs'[q].want = row[RecOf(q)]
           \/ runs[q].pc # "plan" /\ runs'[q].want = runs[q].want
    BY <1>1, <1>4, WantsSame
  <2>2. runs'[q].want <= newest[RecOf(q)] /\ runs'[q].want \in Nat
    BY <1>1, <2>1 DEF Fresh, Aged
  <2>3. /\ newest[RecOf(q)] <= newest'[RecOf(q)] /\ newest[RecOf(q)] \in Nat /\ newest'[RecOf(q)] \in Nat
    BY <1>1, <2>1, NewestGrows
  <2> QED BY <2>1, <2>2, <2>3
<1> QED BY <1>2, <1>3, <1>4 DEF Aged

LEMMA StaysDifferent ==
  ASSUME Fresh, [Next]_vars, \A c, d \in Containers : c = d
  PROVE  Differs'
<1>1. Typed /\ Shown /\ runs \in [Runs -> Run] /\ \A r \in Runs : runs[r] \in Run
  BY DEF Fresh, Shown, Typed, TypeOK
<1>2. SUFFICES ASSUME NEW q \in Runs, runs'[q].pc = "send", runs'[q].link # 0, RecOf(q)' \in Compared
               PROVE  Last(zuper'[RecOf(q)'][runs'[q].link]) # runs'[q].want
  BY DEF Differs, Now
<1>3. /\ RecOf(q)' = RecOf(q) /\ RecOf(q) \in Records /\ runs[q].pc \in Claimed
      /\ (PlanRow(q) /\ runs'[q].link = linked[RecOf(q)]) \/ (runs[q].pc # "plan" /\ runs'[q].want = runs[q].want)
  BY <1>1, <1>2, WantsSame DEF Claimed
<1>4. ASSUME PlanRow(q) PROVE FALSE
  BY <1>1, <1>2, <1>3, <1>4, Plans
<1> DEFINE k == RecOf(q)
           n == runs[q].link
<1>5. CASE Compare(q)
  <2>1. zuper' = zuper /\ Now(k, n) # runs[q].want /\ runs'[q].link = n
    BY <1>1, <1>2, <1>3, <1>5, Compares DEF world
  <2> QED BY <1>3, <1>4, <2>1 DEF Now
<1>6. CASE Rests(q) \/ UNCHANGED runs
  <2>1. runs[q].pc = "send" /\ runs'[q].link = n /\ n # 0 /\ runs'[q].want = runs[q].want
    BY <1>2, <1>6 DEF Rests
  <2>2. /\ n \in DOMAIN zuper[k] /\ Now(k, n) # runs[q].want /\ runs[q].want <= newest[k]
        /\ runs[q].want \in Nat /\ newest[k] \in Nat
    <3>1. runs[q].want \in Nat /\ newest[k] \in Nat
      BY <1>1, <1>3 DEF Typed, TypeOK, Run
    <3> QED BY <1>2, <1>3, <2>1, <3>1 DEF Fresh, Shown, Grounded, Differs, Aged, Claimed
  <2>3. n \in DOMAIN zuper'[k]
    BY <1>1, <1>3, <2>2, HasStays
  <2>4. CASE zuper'[k][n] = zuper[k][n]
    BY <1>3, <2>1, <2>2, <2>4 DEF Now
  <2>5. CASE Edits(k) /\ Wrote(k, n, newest[k] + 1)
    <3>1. Last(zuper'[k][n]) = newest[k] + 1
      BY <1>1, <1>3, <2>2, <2>5, Histories, Longer DEF Wrote
    <3> QED BY <1>3, <2>1, <2>2, <3>1 DEF Now
  <2>6. ASSUME NEW r \in Runs, Put(r) \/ Post(r) PROVE FALSE
    <3>1. r = q
      BY <2>1, <2>6, OneBatch DEF Put, Post, Fresh
    <3>2. CASE Put(q)
      BY <1>1, <1>2, <3>2, Puts
    <3>3. CASE Post(q)
      BY <2>1, <3>3 DEF Post
    <3> QED BY <2>6, <3>1, <3>2, <3>3
  <2> QED BY <1>1, <1>3, <2>3, <2>4, <2>5, <2>6, HistoryStep
<1>7. CASE runs'[q] = Idle
  BY <1>2, <1>7, IdleTyped
<1>8. CASE Select(q) \/ Group(q) \/ Claim(q) \/ Mark(q)
  <2>1. UNCHANGED runs
    BY <1>1, <1>2, <1>8, Selected, Grouped, ClaimTakes, Marks
  <2> QED BY <1>6, <2>1
<1>9. CASE Done(q)
  BY <1>1, <1>2, <1>9, IdleTyped DEF Done
<1>10. CASE Put(q) \/ Verify(q) \/ Post(q)
  BY <1>1, <1>2, <1>10, Puts, Verifies, Posts
<1>11. CASE Link(q) \/ FollowUp(q)
  BY <1>1, <1>2, <1>11, Links, FollowsUp
<1> QED BY <1>1, <1>4, <1>5, <1>6, <1>7, <1>8, <1>9, <1>10, <1>11, WhoMoves DEF InTurn, Step

LEMMA StillNoRepeat ==
  ASSUME Fresh, [Next]_vars
  PROVE  NoRepeat'
<1>1. Typed /\ newest \in [Records -> Nat] /\ \A r \in Runs : runs[r].want \in Nat
  <2>1. Typed /\ runs \in [Runs -> Run] /\ \A r \in Runs : runs[r] \in Run
    BY DEF Fresh, Shown, Typed, TypeOK
  <2>2. \A r \in Runs : runs[r].want \in Nat
    BY <2>1 DEF Run
  <2> QED BY <2>1, <2>2 DEF Typed, TypeOK
<1>2. SUFFICES ASSUME NEW k \in Compared, NEW n \in DOMAIN zuper'[k], NEW i \in 1 .. Len(zuper'[k][n]) - 1
               PROVE  zuper'[k][n][i] # zuper'[k][n][i + 1]
  BY DEF NoRepeat
<1> k \in Records
  BY OutboxAssumption
<1>3. CASE n \in DOMAIN zuper[k] /\ zuper'[k][n] = zuper[k][n]
  BY <1>3 DEF Fresh, NoRepeat
<1>4. ASSUME NEW v \in Nat, Wrote(k, n, v), Now(k, n) # v PROVE zuper'[k][n][i] # zuper'[k][n][i + 1]
  <2>1. zuper[k][n] \in Seq(Nat) /\ zuper[k][n] # <<>> /\ n \in DOMAIN zuper[k]
        /\ zuper'[k][n] = Append(zuper[k][n], v) /\ Now(k, n) = Last(zuper[k][n])
    BY <1>1, <1>4, Histories DEF Wrote
  <2>2. \/ /\ i \in 1 .. Len(zuper[k][n]) - 1 /\ zuper'[k][n][i] = zuper[k][n][i]
           /\ zuper'[k][n][i + 1] = zuper[k][n][i + 1]
        \/ zuper'[k][n][i] = Last(zuper[k][n]) /\ zuper'[k][n][i + 1] = v
    BY <2>1, Longer
  <2> QED BY <1>4, <2>1, <2>2 DEF Fresh, NoRepeat
<1>5. CASE Edits(k) /\ Wrote(k, n, newest[k] + 1)
  <2>1. Now(k, n) \in Nat /\ Now(k, n) <= newest[k] /\ newest[k] \in Nat
    <3>1. n \in DOMAIN zuper[k] /\ newest[k] \in Nat
      BY <1>1, <1>5 DEF Wrote
    <3>2. Now(k, n) \in Range(zuper[k][n]) /\ zuper[k][n] \in Seq(Nat)
      BY <1>1, <3>1, Histories
    <3>3. Now(k, n) \in Nat
      BY <3>2 DEF Range
    <3> QED BY <3>1, <3>2, <3>3 DEF Fresh, Aged
  <2> QED BY <1>4, <1>5, <2>1
<1>6. ASSUME NEW r \in Runs, Put(r), RecOf(r) = k, n = runs[r].link, Wrote(k, n, runs[r].want)
      PROVE  zuper'[k][n][i] # zuper'[k][n][i + 1]
  <2>1. Now(k, n) # runs[r].want
    BY <1>6 DEF Put, Fresh, Differs
  <2> QED BY <1>1, <1>4, <1>6, <2>1
<1>7. ASSUME NEW r \in Runs, zuper'[k][n] = <<runs[r].want>> PROVE FALSE
  <2>1. Len(zuper'[k][n]) = 1
    BY <1>7
  <2> QED BY <2>1
<1> QED BY <1>1, <1>3, <1>5, <1>6, <1>7, HistoryStep

(* What a container that starts has, and no one else: nothing pushed, nothing synced. *)
LEMMA InitQuiet ==
  ASSUME Init
  PROVE  Typed /\ Shown /\ Solo /\ \A r \in Runs : runs[r].pc = "idle"
<1>1. \A r \in Runs : runs[r].pc = "idle"
  BY IdleTyped DEF Init
<1>2. \A s \in Syncs : sync[s].pc = "idle"
  BY DEF Init, Asleep
<1> QED BY <1>1, <1>2, InitTyped, InitShown DEF Solo

LEMMA InitValues ==
  ASSUME Init, NEW k \in Records, NEW n \in DOMAIN zuper[k]
  PROVE  zuper[k][n] = <<1>> /\ row[k] = 1 /\ newest[k] = 1
<1>1. zuper[k] = IF k \in Known THEN << <<1>> >> ELSE <<>>
  BY DEF Init
<1>2. k \in Known /\ n = 1
  BY <1>1
<1>3. row[k] = 1 /\ newest[k] = 1
  BY <1>2 DEF Init
<1> QED BY <1>1, <1>2, <1>3

LEMMA InitFresh == ASSUME Init PROVE Fresh
<1>1. ASSUME NEW k \in Records PROVE row[k] <= newest[k]
  <2>1. row = newest /\ row[k] \in {0, 1}
    BY DEF Init
  <2> QED BY <2>1
<1>2. ASSUME NEW k \in Records, NEW n \in DOMAIN zuper[k]
      PROVE  /\ \A v \in Range(zuper[k][n]) : v <= newest[k]
             /\ Len(zuper[k][n]) = 1
  <2>1. zuper[k][n] = <<1>> /\ newest[k] = 1
    BY InitValues
  <2>2. \A v \in Range(zuper[k][n]) : v = 1
    BY <2>1 DEF Range
  <2> QED BY <2>1, <2>2
<1>3. NoRepeat
  BY <1>2, OutboxAssumption DEF NoRepeat
<1> QED BY <1>1, <1>2, <1>3, InitQuiet DEF Fresh, Aged, Differs, Claimed

(* Of the fields the planner compares, Zuper is never sent the value it already shows, whatever       *)
(* answers are lost, whatever it ignores or refuses, and whoever edits the record there: one loop,    *)
(* with its retries and restarts.                                                                     *)
THEOREM NeverTwiceTheSame ==
  ASSUME "inbound" \notin Disturbances, \A c, d \in Containers : c = d
  PROVE  Spec => []NoRepeat
<1>1. Init => Fresh
  BY InitFresh
<1>2. Fresh /\ [Next]_vars => Fresh'
  <2> SUFFICES ASSUME Fresh, [Next]_vars PROVE Fresh'
    OBVIOUS
  <2>1. Shown' /\ Solo'
    BY NextShown, StaysSolo DEF Fresh, Shown
  <2> QED BY <2>1, StaysAged, StaysDifferent, StillNoRepeat DEF Fresh
<1>3. Fresh => NoRepeat
  BY DEF Fresh
<1> QED BY <1>1, <1>2, <1>3, PTL DEF Spec

(* While no one edits a record in Zuper and no sync writes Tuper's row, the row is the newest there is:  *)
(* what Zuper was sent is no newer, and what a run is about to send is newer than what Zuper was sent.   *)
Rises == /\ \A k \in Records : row[k] <= newest[k]
         /\ \A k \in Records : \A n \in DOMAIN zuper[k] : \A v \in Range(zuper[k][n]) : v <= row[k]
         /\ \A r \in Runs : runs[r].pc \in Claimed \ {"plan"} => runs[r].want <= row[RecOf(r)]
Newer == \A r \in Runs : runs[r].pc \in {"compare", "send"} =>
           \A n \in DOMAIN zuper[RecOf(r)] : \A v \in Range(zuper[RecOf(r)][n]) : v <= runs[r].want
Rising == Shown /\ Solo /\ Rises /\ Newer /\ NeverResurrects

LEMMA RowRises ==
  ASSUME Rising, [Next]_vars, NEW k \in Records
  PROVE  row[k] \in Nat /\ row'[k] \in Nat /\ row[k] <= row'[k] /\ row'[k] <= newest'[k] /\ newest'[k] \in Nat
<1>1. Typed /\ Typed' /\ (\A s \in Syncs : sync[s].pc # "write") /\ row[k] \in Nat /\ row'[k] \in Nat
      /\ newest[k] \in Nat /\ newest'[k] \in Nat
  <2>1. Typed /\ Typed'
    BY NextTyped DEF Rising, Shown
  <2> QED BY <2>1 DEF Rising, Solo, Typed, TypeOK
<1>2. row'[k] = row[k] \/ row'[k] = newest'[k]
  BY <1>1, NewestGrows
<1>3. newest[k] <= newest'[k] /\ row[k] <= newest[k]
  BY <1>1, NewestGrows DEF Rising, Rises
<1> QED BY <1>1, <1>2, <1>3

LEMMA Wants ==
  ASSUME Typed, NEW r \in Runs
  PROVE  runs[r].want \in Nat
<1>1. runs[r] \in Run
  BY DEF Typed, TypeOK
<1> QED BY <1>1 DEF Run

LEMMA StaysRisen ==
  ASSUME Rising, [Next]_vars, "zuper-edit" \notin Disturbances
  PROVE  Rises'
<1>1. Typed /\ \A k \in Records : ~Edits(k)
  BY DEF Rising, Shown, Edits, EditInZuper, Disturb
<1>2. ASSUME NEW k \in Records, NEW n \in DOMAIN zuper'[k], NEW v \in Range(zuper'[k][n])
      PROVE  v <= row'[k]
  <2>1. row[k] <= row'[k] /\ row[k] \in Nat /\ row'[k] \in Nat
    BY RowRises
  <2>2. ASSUME n \in DOMAIN zuper[k], v \in Range(zuper[k][n]) PROVE v <= row'[k]
    <3>1. v <= row[k] /\ zuper[k][n] \in Seq(Nat)
      BY <1>1, <2>2, Histories DEF Rising, Rises
    <3>2. v \in Nat
      BY <2>2, <3>1 DEF Range
    <3> QED BY <2>1, <3>1, <3>2
  <2>3. ASSUME NEW r \in Runs, Put(r) \/ Post(r), RecOf(r) = k
        PROVE  runs[r].want \in Nat /\ runs[r].want <= row'[k]
    <3>1. runs[r].pc = "send"
      BY <2>3 DEF Put, Post
    <3>2. runs[r].want <= row[k] /\ runs[r].want \in Nat
      BY <1>1, <2>3, <3>1, Wants DEF Rising, Rises, Claimed
    <3> QED BY <2>1, <3>2
  <2>4. ASSUME NEW r \in Runs, Put(r), RecOf(r) = k, Wrote(k, n, runs[r].want) PROVE v <= row'[k]
    <3>1. zuper[k][n] \in Seq(Nat) /\ zuper[k][n] # <<>> /\ n \in DOMAIN zuper[k]
          /\ zuper'[k][n] = Append(zuper[k][n], runs[r].want)
      BY <1>1, <2>4, Histories DEF Wrote
    <3>2. runs[r].want \in Nat /\ runs[r].want <= row'[k]
      BY <2>3, <2>4
    <3>3. v \in Range(zuper[k][n]) \/ v = runs[r].want
      BY <1>2, <3>1, <3>2, Longer
    <3> QED BY <2>2, <3>1, <3>2, <3>3
  <2>5. ASSUME NEW r \in Runs, Post(r), RecOf(r) = k, zuper'[k][n] = <<runs[r].want>> PROVE v <= row'[k]
    <3>1. v = runs[r].want
      BY <1>2, <2>5 DEF Range
    <3> QED BY <2>3, <2>5, <3>1
  <2> QED BY <1>1, <1>2, <2>2, <2>4, <2>5, HistoryStep
<1>3. ASSUME NEW q \in Runs, runs'[q].pc \in Claimed \ {"plan"} PROVE runs'[q].want <= row'[RecOf(q)']
  <2>1. /\ RecOf(q)' = RecOf(q) /\ RecOf(q) \in Records /\ runs[q].pc \in Claimed
        /\ \/ runs'[q].want = row[RecOf(q)]
           \/ runs[q].pc # "plan" /\ runs'[q].want = runs[q].want
    BY <1>1, <1>3, WantsSame
  <2>2. row[RecOf(q)] <= row'[RecOf(q)] /\ row[RecOf(q)] \in Nat /\ row'[RecOf(q)] \in Nat
    BY <2>1, RowRises
  <2>3. runs'[q].want <= row[RecOf(q)] /\ runs'[q].want \in Nat
    BY <1>1, <2>1, <2>2, Wants DEF Rising, Rises
  <2> QED BY <2>1, <2>2, <2>3
<1> QED BY <1>2, <1>3, RowRises DEF Rises

LEMMA StaysNewer ==
  ASSUME Rising, [Next]_vars, "zuper-edit" \notin Disturbances, \A c, d \in Containers : c = d
  PROVE  Newer'
<1>1. Typed /\ runs \in [Runs -> Run] /\ \A k \in Records : ~Edits(k)
  BY DEF Rising, Shown, Typed, TypeOK, Edits, EditInZuper, Disturb
<1>2. SUFFICES ASSUME NEW q \in Runs, runs'[q].pc \in {"compare", "send"},
                      NEW n \in DOMAIN zuper'[RecOf(q)'], NEW v \in Range(zuper'[RecOf(q)'][n])
               PROVE  v <= runs'[q].want
  BY DEF Newer
<1> DEFINE k == RecOf(q)
<1>3. /\ RecOf(q)' = k /\ k \in Records /\ runs[q].pc \in Claimed
      /\ \/ PlanRow(q) /\ runs'[q].want = row[k]
         \/ runs[q].pc # "plan" /\ runs'[q].want = runs[q].want
  BY <1>1, <1>2, WantsSame DEF Claimed
<1>4. CASE PlanRow(q)
  <2>1. zuper' = zuper /\ runs'[q].want = row[k]
    BY <1>1, <1>4, Plans DEF world
  <2> QED BY <1>2, <1>3, <2>1 DEF Rising, Rises
<1>5. CASE Compare(q)
  <2>1. zuper' = zuper /\ runs'[q].want = runs[q].want /\ runs[q].pc = "compare"
    BY <1>1, <1>5, Compares DEF world, Keeps, Compare
  <2> QED BY <1>2, <1>3, <2>1 DEF Rising, Newer
<1>6. CASE Rests(q) \/ UNCHANGED runs
  <2>1. runs[q].pc \in {"compare", "send"} /\ runs'[q].want = runs[q].want /\ runs[q].pc # "idle"
    BY <1>2, <1>6 DEF Rests
  <2>2. ASSUME NEW r \in Runs, Put(r) \/ Post(r) PROVE FALSE
    <3>1. r = q
      BY <2>1, <2>2, OneBatch DEF Put, Post, Rising
    <3> QED BY <1>1, <1>2, <2>2, <3>1, Puts, Posts
  <2>3. n \in DOMAIN zuper[k] /\ zuper'[k][n] = zuper[k][n]
    BY <1>1, <1>2, <1>3, <2>2, HistoryStep
  <2> QED BY <1>2, <1>3, <2>1, <2>3 DEF Rising, Newer
<1>7. CASE runs'[q] = Idle
  BY <1>2, <1>7, IdleTyped
<1>8. CASE Select(q) \/ Group(q) \/ Claim(q) \/ Mark(q)
  <2>1. UNCHANGED runs
    BY <1>1, <1>2, <1>8, Selected, Grouped, ClaimTakes, Marks
  <2> QED BY <1>6, <2>1
<1>9. CASE Done(q)
  BY <1>1, <1>2, <1>9, IdleTyped DEF Done
<1>10. CASE Put(q) \/ Verify(q) \/ Post(q)
  BY <1>1, <1>2, <1>10, Puts, Verifies, Posts
<1>11. CASE Link(q) \/ FollowUp(q)
  BY <1>1, <1>2, <1>11, Links, FollowsUp
<1> QED BY <1>1, <1>4, <1>5, <1>6, <1>7, <1>8, <1>9, <1>10, <1>11, WhoMoves DEF InTurn, Step

LEMMA StillNoneOlder ==
  ASSUME Rising, [Next]_vars, "zuper-edit" \notin Disturbances
  PROVE  NeverResurrects'
<1>1. Typed /\ \A k \in Records : ~Edits(k)
  BY DEF Rising, Shown, Edits, EditInZuper, Disturb
<1>2. SUFFICES ASSUME NEW k \in Records, NEW n \in DOMAIN zuper'[k], NEW i \in 1 .. Len(zuper'[k][n]) - 1
               PROVE  zuper'[k][n][i] <= zuper'[k][n][i + 1]
  BY DEF NeverResurrects
<1>3. CASE n \in DOMAIN zuper[k] /\ zuper'[k][n] = zuper[k][n]
  BY <1>3 DEF Rising, NeverResurrects
<1>4. ASSUME NEW r \in Runs, Put(r), RecOf(r) = k, n = runs[r].link, Wrote(k, n, runs[r].want)
      PROVE  zuper'[k][n][i] <= zuper'[k][n][i + 1]
  <2>1. zuper[k][n] \in Seq(Nat) /\ zuper[k][n] # <<>> /\ n \in DOMAIN zuper[k] /\ runs[r].want \in Nat
        /\ zuper'[k][n] = Append(zuper[k][n], runs[r].want) /\ Last(zuper[k][n]) \in Range(zuper[k][n])
    BY <1>1, <1>4, Histories, Wants DEF Wrote
  <2>2. Last(zuper[k][n]) <= runs[r].want
    BY <1>4, <2>1 DEF Put, Rising, Newer
  <2>3. \/ /\ i \in 1 .. Len(zuper[k][n]) - 1 /\ zuper'[k][n][i] = zuper[k][n][i]
           /\ zuper'[k][n][i + 1] = zuper[k][n][i + 1]
        \/ zuper'[k][n][i] = Last(zuper[k][n]) /\ zuper'[k][n][i + 1] = runs[r].want
    BY <2>1, Longer
  <2> QED BY <2>1, <2>2, <2>3 DEF Rising, NeverResurrects
<1>5. ASSUME NEW r \in Runs, zuper'[k][n] = <<runs[r].want>> PROVE FALSE
  <2>1. Len(zuper'[k][n]) = 1
    BY <1>5
  <2> QED BY <2>1
<1> QED BY <1>1, <1>3, <1>4, <1>5, HistoryStep

LEMMA InitRising == ASSUME Init PROVE Rising
<1>1. ASSUME NEW k \in Records PROVE row[k] <= newest[k]
  <2>1. row = newest /\ row[k] \in {0, 1}
    BY DEF Init
  <2> QED BY <2>1
<1>2. ASSUME NEW k \in Records, NEW n \in DOMAIN zuper[k]
      PROVE  /\ \A v \in Range(zuper[k][n]) : v <= row[k]
             /\ Len(zuper[k][n]) = 1
  <2>1. zuper[k][n] = <<1>> /\ row[k] = 1
    BY InitValues
  <2>2. \A v \in Range(zuper[k][n]) : v = 1
    BY <2>1 DEF Range
  <2> QED BY <2>1, <2>2
<1>3. NeverResurrects
  BY <1>2 DEF NeverResurrects
<1> QED BY <1>1, <1>2, <1>3, InitQuiet DEF Rising, Rises, Newer, Claimed

(* What Zuper holds of a record only gets newer while its edits are made in Tuper: a push that was *)
(* lost, refused or broken off by a restart is not made again over a newer one, by one loop.       *)
THEOREM PushesOnlyForward ==
  ASSUME "inbound" \notin Disturbances, "zuper-edit" \notin Disturbances, \A c, d \in Containers : c = d
  PROVE  Spec => []NeverResurrects
<1>1. Init => Rising
  BY InitRising
<1>2. Rising /\ [Next]_vars => Rising'
  <2> SUFFICES ASSUME Rising, [Next]_vars PROVE Rising'
    OBVIOUS
  <2>1. Shown' /\ Solo'
    BY NextShown, StaysSolo DEF Rising, Shown
  <2> QED BY <2>1, StaysRisen, StaysNewer, StillNoneOlder DEF Rising
<1>3. Rising => NeverResurrects
  BY DEF Rising
<1> QED BY <1>1, <1>2, <1>3, PTL DEF Spec

(* A row that has been given up: it failed and has no attempt left. *)
Given(i) == outbox[i].status = "failed" /\ outbox[i].attempts >= MaxAttempts
\* What a mark makes of a row: after a failure it waits, after a create without an answer it is given up.
Outcome(r, i) ==
  IF runs[r].out \in {"failed", "stop"}
  THEN /\ outbox'[i].status = "failed" /\ wait'[i] = Backoff(runs[r].tries)
       /\ outbox'[i].attempts = IF runs[r].out = "stop" THEN MaxAttempts ELSE runs[r].tries
  ELSE outbox'[i].status = runs[r].out /\ runs[r].out \in {"sent", "planned", "skipped"}
Turns(i) ==
  \/ i \in DOMAIN outbox /\ outbox'[i].status = outbox[i].status /\ outbox'[i].attempts = outbox[i].attempts
  \/ i \in DOMAIN outbox /\ outbox[i].status = "told" /\ outbox'[i].status \in {"queued", "dropped"}
  \/ i \notin DOMAIN outbox /\ outbox'[i].status \in {"told", "queued"}
  \/ i \in DOMAIN outbox /\ \E r \in Runs : Mark(r) /\ i \in runs[r].ids /\ Outcome(r, i)
NotGone == \A i \in DOMAIN outbox : outbox[i].status # "gone"

LEMMA BackoffIsSome == ASSUME NEW n \in Nat PROVE Backoff(n) \in Int /\ Backoff(n) >= 1
<1>1. 2 ^ 0 = 1 /\ 2 ^ 1 = 2 /\ 2 ^ 2 = 4 /\ 2 ^ 3 = 8 /\ 2 ^ 4 = 16 /\ 2 ^ 5 = 32 /\ 2 ^ 6 = 64 /\ 2 ^ 7 = 128
  OBVIOUS
<1>2. n \in {0, 1, 2, 3, 4, 5, 6, 7} \/ n >= 8
  OBVIOUS
<1>3. n >= 8 => Backoff(n) = 240
  BY DEF Backoff
<1>4. n \in {0, 1, 2, 3, 4, 5, 6, 7} => Backoff(n) = 2 ^ n
  BY DEF Backoff
<1>5. n \in {0, 1, 2, 3, 4, 5, 6, 7} => 2 ^ n \in {1, 2, 4, 8, 16, 32, 64, 128}
  <2>1. n = 0 => 2 ^ n = 1
    BY <1>1, Zenon
  <2>2. n = 1 => 2 ^ n = 2
    BY <1>1, Zenon
  <2>3. n = 2 => 2 ^ n = 4
    BY <1>1, Zenon
  <2>4. n = 3 => 2 ^ n = 8
    BY <1>1, Zenon
  <2>5. n = 4 => 2 ^ n = 16
    BY <1>1, Zenon
  <2>6. n = 5 => 2 ^ n = 32
    BY <1>1, Zenon
  <2>7. n = 6 => 2 ^ n = 64
    BY <1>1, Zenon
  <2>8. n = 7 => 2 ^ n = 128
    BY <1>1, Zenon
  <2> QED BY <2>1, <2>2, <2>3, <2>4, <2>5, <2>6, <2>7, <2>8
<1> QED BY <1>2, <1>3, <1>4, <1>5

LEMMA RowsTurn ==
  ASSUME Typed, Young, NotGone, [Next]_vars, "old" \notin Disturbances, "discard" \notin Disturbances,
         NEW i \in DOMAIN outbox'
  PROVE  Turns(i)
<1>1. outbox \in Seq(Row) /\ \A j \in DOMAIN outbox : outbox[j] \in Row
  BY DEF Typed, TypeOK
<1>2. CASE UNCHANGED outbox
  BY <1>2 DEF Turns
<1>3. ASSUME NEW x \in Row, x.status \in {"told", "queued"}, outbox' = Append(outbox, x) PROVE Turns(i)
  <2>1. i \in DOMAIN outbox => outbox'[i] = outbox[i]
    BY <1>1, <1>3, AppendProperties
  <2>2. i \notin DOMAIN outbox => outbox'[i] = x
    BY <1>1, <1>3, AppendProperties
  <2> QED BY <1>3, <2>1, <2>2 DEF Turns
<1>4. ASSUME NEW k \in Records, EditInTuper(k) PROVE Turns(i)
  <2> DEFINE x == NewRow(k, IF newest[k] = 0 THEN "create" ELSE "update", newest'[k])
  <2>1. outbox' = Append(outbox, x)
    BY <1>4 DEF EditInTuper
  <2>2. newest'[k] \in Nat
    BY <1>4, EditInTuperTyped DEF Typed, TypeOK
  <2>3. x \in Row /\ x.status = "told"
    BY <2>2 DEF NewRow, Row, Status
  <2> QED BY <1>3, <2>1, <2>3
<1>5. ASSUME NEW r \in Runs, FollowUp(r) PROVE Turns(i)
  <2> DEFINE x == [NewRow(RecOf(r), "follow", runs[r].want) EXCEPT !.status = "queued"]
  <2>1. outbox' = Append(outbox, x)
    BY <1>5 DEF FollowUp
  <2>2. Fit(r) /\ runs[r] \in Run
    BY DEF Typed, TypeOK
  <2>3. RecOf(r) \in Records /\ runs[r].want \in Nat
    BY <1>5, <2>2, Recs DEF FollowUp, Fit, Claimed, Run
  <2>4. x \in Row /\ x.status = "queued"
    BY <2>3 DEF NewRow, Row, Status
  <2> QED BY <1>3, <2>1, <2>4
<1>6. ASSUME NEW j \in DOMAIN outbox, Told(j) PROVE Turns(i)
  <2>1. DOMAIN outbox' = DOMAIN outbox /\ (i # j => outbox'[i] = outbox[i])
    BY <1>1, <1>6 DEF Told
  <2>2. outbox[j].status = "told" /\ outbox'[j].status \in {"queued", "dropped"}
    BY <1>1, <1>6 DEF Told, Row
  <2> QED BY <2>1, <2>2 DEF Turns
<1>7. ASSUME NEW j \in DOMAIN outbox, GrowOld(j) PROVE FALSE
  BY <1>7 DEF GrowOld, Disturb
<1>8. ASSUME DiscardUnsent PROVE FALSE
  BY <1>8 DEF DiscardUnsent, Disturb
<1>9. ASSUME NEW r \in Runs, Group(r) PROVE Turns(i)
  <2>1. PICK ids : ids \subseteq runs[r].stale /\ outbox' = Marked(ids, "skipped")
    BY <1>9, Grouped
  <2>2. DOMAIN outbox' = DOMAIN outbox /\ outbox'[i] = outbox[i]
    BY <2>1 DEF Marked, Young
  <2> QED BY <2>2 DEF Turns
<1>10. ASSUME NEW r \in Runs, Mark(r) PROVE Turns(i)
  <2> DEFINE ids == {j \in runs[r].ids : outbox[j].status # "gone"}
             out == runs[r].out
             failed == out \in {"failed", "stop"}
             new(j) == IF j \notin ids THEN outbox[j]
                       ELSE IF failed THEN [outbox[j] EXCEPT !.status = "failed",
                              !.attempts = IF out = "stop" THEN MaxAttempts ELSE runs[r].tries]
                       ELSE [outbox[j] EXCEPT !.status = out, !.planned = runs[r].want]
  <2>1. /\ outbox' = [j \in DOMAIN outbox |-> new(j)]
        /\ wait' = IF failed THEN [j \in DOMAIN wait |-> IF j \in ids THEN Backoff(runs[r].tries) ELSE wait[j]]
                   ELSE wait
    BY <1>10 DEF Mark
  <2>2. i \in DOMAIN outbox /\ outbox'[i] = new(i) /\ DOMAIN wait = DOMAIN outbox /\ outbox[i] \in Row
    BY <1>1, <2>1 DEF Typed, TypeOK
  <2>3. CASE i \notin runs[r].ids
    <3>1. outbox'[i] = outbox[i]
      BY <2>2, <2>3
    <3> QED BY <2>2, <3>1 DEF Turns
  <2>4. CASE i \in runs[r].ids
    <3>1. i \in ids
      BY <2>2, <2>4 DEF NotGone
    <3>2. out \in {"sent", "planned", "skipped", "failed", "stop"}
      <4>1. runs[r] \in Run /\ out # "none"
        BY <1>10 DEF Typed, TypeOK, Fit, Mark
      <4> QED BY <4>1 DEF Run
    <3>3. CASE failed
      <4>1. outbox'[i] = [outbox[i] EXCEPT !.status = "failed",
                            !.attempts = IF out = "stop" THEN MaxAttempts ELSE runs[r].tries]
        BY <2>2, <3>1, <3>3
      <4>2. outbox'[i].status = "failed"
            /\ outbox'[i].attempts = IF out = "stop" THEN MaxAttempts ELSE runs[r].tries
        BY <2>2, <4>1 DEF Row
      <4>3. wait'[i] = Backoff(runs[r].tries)
        BY <2>1, <2>2, <3>1, <3>3
      <4>4. Outcome(r, i)
        BY <3>3, <4>2, <4>3 DEF Outcome
      <4> QED BY <1>10, <2>2, <2>4, <4>4 DEF Turns
    <3>4. CASE ~failed
      <4>1. outbox'[i] = [outbox[i] EXCEPT !.status = out, !.planned = runs[r].want]
        BY <2>2, <3>1, <3>4
      <4>2. outbox'[i].status = out
        BY <2>2, <4>1 DEF Row
      <4>3. Outcome(r, i)
        BY <3>2, <3>4, <4>2 DEF Outcome
      <4> QED BY <1>10, <2>2, <2>4, <4>3 DEF Turns
    <3> QED BY <3>3, <3>4
  <2> QED BY <2>3, <2>4
<1>11. CASE Elapse
  <2>1. outbox' = [j \in DOMAIN outbox |-> [outbox[j] EXCEPT !.age =
                  IF @ = "new" /\ outbox[j].status # "told" THEN "settled" ELSE @]]
    BY <1>11 DEF Elapse
  <2>2. i \in DOMAIN outbox /\ outbox'[i].status = outbox[i].status /\ outbox'[i].attempts = outbox[i].attempts
    BY <1>1, <2>1 DEF Row
  <2> QED BY <2>2 DEF Turns
<1>12. ASSUME NEW r \in Runs, Select(r) \/ Claim(r) \/ PlanRow(r) \/ Compare(r) \/ Put(r) \/ Verify(r)
                              \/ Post(r) \/ Link(r) \/ Done(r)
       PROVE  UNCHANGED outbox
  BY <1>12 DEF Select, Claim, PlanRow, Compare, Put, Verify, Post, Link, Done
<1>13. CASE \/ UNCHANGED vars
            \/ \E k \in Records : EditInZuper(k)
            \/ \E s \in Syncs : SyncStarts(s) \/ SyncReads(s) \/ SyncWrites(s)
            \/ \E c \in Containers, k \in Records : Import(c, k)
            \/ \E c \in Containers : Crash(c)
            \/ Switch
  <2>1. UNCHANGED outbox
    BY <1>13 DEF vars, EditInZuper, SyncStarts, SyncReads, SyncWrites, Import, Crash, Switch
  <2> QED BY <1>2, <2>1
<1> QED BY <1>2, <1>4, <1>5, <1>6, <1>7, <1>8, <1>9, <1>10, <1>11, <1>12, <1>13 DEF Next, InTurn, Step
(* A row that was given up waits from then on longer than any batch that had selected it before, so  *)
(* that no claim takes it; what a run holds has not been given up.                                    *)
Sealed == \A r \in Runs : runs[r].pc # "idle" =>
            \A i \in runs[r].todo \cup (IF runs[r].pc = "claim" THEN runs[r].ids ELSE {}) :
              Given(i) => wait[i] + runs[r].age > 0
Ungiven == \A r \in Runs : runs[r].pc \in Claimed => \A i \in runs[r].ids : ~Given(i)
\* A flush is of its own record.
Owned == \A r \in Runs : r[2] # Tick => \A i \in runs[r].todo \cup runs[r].ids : outbox[i].rec = r[2]
\* Whoever makes a record, or has made it and cannot link it, is the loop, and it is not linked.
Pending(r) == runs[r].pc = "link" \/ (runs[r].pc = "mark" /\ runs[r].out = "stop")
Making(r) == Pending(r) \/ (runs[r].pc = "send" /\ runs[r].link = 0)
NewOnly == \A r \in Runs : Making(r) => r[2] = Tick /\ linked[RecOf(r)] = 0
Once == Held /\ Shown /\ NotGone /\ Sealed /\ Ungiven /\ Owned /\ NewOnly
Undisturbed == /\ "slow" \notin Disturbances /\ "old" \notin Disturbances
               /\ "discard" \notin Disturbances /\ "crash" \notin Disturbances

LEMMA OnceRuns ==
  ASSUME Once
  PROVE  /\ Typed /\ Young /\ NotGone /\ runs \in [Runs -> Run] /\ OneRunner
         /\ outbox \in Seq(Row) /\ \A i \in DOMAIN outbox : outbox[i] \in Row
         /\ wait \in Seq(Int) /\ DOMAIN wait = DOMAIN outbox
         /\ \A r \in Runs : /\ runs[r] \in Run /\ runs[r].age \in Nat /\ runs[r].tries \in Nat
                            /\ runs[r].todo \subseteq DOMAIN outbox /\ runs[r].ids \subseteq DOMAIN outbox
<1>1. Typed /\ runs \in [Runs -> Run] /\ \A r \in Runs : runs[r] \in Run
  BY DEF Once, Shown, Typed, TypeOK
<1>2. \A r \in Runs : runs[r].age \in Nat /\ runs[r].tries \in Nat
  BY <1>1 DEF Run
<1> QED BY <1>1, <1>2 DEF Once, Held, Sole, Typed, TypeOK

LEMMA RowsTurnNow ==
  ASSUME Once, [Next]_vars, Undisturbed, NEW i \in DOMAIN outbox'
  PROVE  Turns(i)
BY OnceRuns, RowsTurn DEF Undisturbed

LEMMA NoneGone ==
  ASSUME Once, [Next]_vars, Undisturbed
  PROVE  NotGone'
<1>1. SUFFICES ASSUME NEW i \in DOMAIN outbox' PROVE outbox'[i].status # "gone"
  BY DEF NotGone
<1>2. Turns(i)
  BY RowsTurnNow
<1> QED BY <1>2 DEF Turns, Outcome, Once, NotGone

(* Only the mark of who holds a row gives it up. *)
LEMMA WhoGives ==
  ASSUME Once, [Next]_vars, Undisturbed, NEW i \in DOMAIN outbox', Given(i)'
  PROVE  /\ i \in DOMAIN outbox
         /\ \/ Given(i)
            \/ \E r \in Runs : Mark(r) /\ i \in runs[r].ids /\ wait'[i] >= 1
<1>1. Turns(i) /\ outbox'[i].status = "failed"
  BY RowsTurnNow DEF Given
<1>2. ASSUME NEW r \in Runs, Mark(r), i \in runs[r].ids, Outcome(r, i) PROVE wait'[i] >= 1
  <2>1. wait'[i] = Backoff(runs[r].tries)
    BY <1>1, <1>2 DEF Outcome
  <2> QED BY <2>1, OnceRuns, BackoffIsSome
<1> QED BY <1>1, <1>2 DEF Turns, Given

LEMMA GivenStays ==
  ASSUME Once, [Next]_vars, Undisturbed, NEW i \in DOMAIN outbox, Given(i)
  PROVE  i \in DOMAIN outbox' /\ Given(i)' /\ outbox'[i].rec = outbox[i].rec
<1>1. i \in DOMAIN outbox' /\ outbox'[i].rec = outbox[i].rec
  BY OnceRuns, RowsFollow DEF Follows
<1>2. Turns(i)
  BY <1>1, RowsTurnNow
<1>3. ASSUME NEW r \in Runs, Mark(r), i \in runs[r].ids PROVE FALSE
  BY <1>3 DEF Mark, Claimed, Once, Ungiven
<1> QED BY <1>1, <1>2, <1>3 DEF Turns, Given

LEMMA NotIdle == Idle.todo = {} /\ Idle.pc = "idle" /\ Idle.ids = {}
BY IdleTyped

(* A batch has what it selected, or less. *)
LEMMA BatchShrinks ==
  ASSUME Typed, [Next]_vars, "crash" \notin Disturbances, NEW q \in Runs, runs'[q].pc # "idle"
  PROVE  \/ UNCHANGED runs
         \/ /\ Select(q) /\ runs'[q].pc = "group" /\ runs'[q].ids = {} /\ UNCHANGED <<outbox, wait>>
            /\ \A i \in runs'[q].todo : /\ outbox[i].attempts < MaxAttempts
                                        /\ q[2] # Tick => outbox[i].rec = q[2]
         \/ /\ runs[q].pc # "idle" /\ (Elapse \/ runs'[q].age = runs[q].age)
            /\ runs'[q].todo \subseteq runs[q].todo
            /\ \/ runs'[q].ids \subseteq runs[q].ids /\ (runs'[q].pc = "claim" => runs[q].pc = "claim")
               \/ runs'[q].ids \subseteq runs[q].todo
<1>1. runs \in [Runs -> Run] /\ \A c \in Containers : ~Crash(c)
  BY DEF Typed, TypeOK, Crash, Disturb
<1>2. CASE Rests(q)
  BY <1>2 DEF Rests
<1>3. CASE Select(q)
  <2>1. UNCHANGED <<outbox, wait>>
    BY <1>3 DEF Select
  <2> QED BY <1>3, <2>1, Selected
<1>4. CASE Group(q)
  BY <1>4, Grouped
<1>5. CASE Claim(q)
  <2>1. runs'[q].ids \subseteq runs[q].ids /\ runs'[q].todo = runs[q].todo /\ runs[q].pc = "claim"
        /\ runs'[q].age = runs[q].age
    BY <1>5, ClaimTakes
  <2> QED BY <2>1
<1>6. CASE PlanRow(q)
  BY <1>6, Plans
<1>7. CASE Put(q) \/ Compare(q) \/ Verify(q)
  <2>1. runs[q].pc # "idle"
    BY <1>7 DEF Put, Compare, Verify
  <2> QED BY <1>7, <2>1, Puts, Compares, Verifies DEF Keeps
<1>8. CASE Post(q) \/ Link(q) \/ FollowUp(q)
  <2>1. runs[q].pc # "idle"
    BY <1>8 DEF Post, Link, FollowUp
  <2> QED BY <1>8, <2>1, Posts, Links, FollowsUp DEF Keeps
<1>9. CASE Mark(q)
  BY <1>9, Marks
<1>10. CASE Done(q)
  BY <1>1, <1>10, IdleTyped DEF Done
<1> QED BY <1>1, <1>2, <1>3, <1>4, <1>5, <1>6, <1>7, <1>8, <1>9, <1>10, WhoMoves DEF InTurn, Step

LEMMA StaysSealed ==
  ASSUME Once, [Next]_vars, Undisturbed
  PROVE  Sealed'
<1>1. SUFFICES ASSUME NEW q \in Runs, runs'[q].pc # "idle",
                      NEW i \in runs'[q].todo \cup (IF runs'[q].pc = "claim" THEN runs'[q].ids ELSE {}),
                      Given(i)'
               PROVE  wait'[i] + runs'[q].age > 0
  BY DEF Sealed
<1>2. Typed /\ Typed' /\ "crash" \notin Disturbances
  BY OnceRuns, NextTyped DEF Undisturbed
<1>3. i \in DOMAIN outbox' /\ runs'[q].age \in Nat /\ wait'[i] \in Int
  <2>1. runs'[q] \in Run /\ i \in DOMAIN outbox'
    BY <1>1, <1>2 DEF Typed, TypeOK
  <2> QED BY <1>2, <2>1 DEF Typed, TypeOK, Run
<1>4. i \in DOMAIN outbox
  BY <1>1, <1>3, WhoGives
<1>5. CASE wait'[i] >= 1
  BY <1>3, <1>5
<1>6. CASE Given(i)
  <2>1. /\ runs[q].pc # "idle" /\ i \in runs[q].todo \cup (IF runs[q].pc = "claim" THEN runs[q].ids ELSE {})
        /\ Elapse \/ runs'[q].age = runs[q].age
    <3>1. CASE UNCHANGED runs
      BY <1>1, <3>1
    <3>2. CASE Select(q) /\ runs'[q].ids = {} /\ \A j \in runs'[q].todo : outbox[j].attempts < MaxAttempts
      <4>1. outbox[i].attempts < MaxAttempts /\ outbox[i].attempts >= MaxAttempts
        BY <1>1, <1>6, <3>2 DEF Given
      <4>2. outbox[i].attempts \in Nat
        BY <1>4, OnceRuns DEF Row
      <4> QED BY <4>1, <4>2, OutboxAssumption
    <3> QED BY <1>1, <1>2, <3>1, <3>2, BatchShrinks
  <2>2. wait[i] + runs[q].age > 0 /\ wait[i] \in Int /\ runs[q].age \in Nat
    BY <1>4, <1>6, <2>1, OnceRuns DEF Once, Sealed
  <2>3. CASE Elapse
    <3>1. runs'[q] = [runs[q] EXCEPT !.age = @ + 1]
      BY <1>2, <2>1, <2>3 DEF Elapse
    <3>2. runs'[q].age = runs[q].age + 1
      BY <3>1, OnceRuns DEF Run
    <3>3. wait'[i] = IF wait[i] > -MaxSlow THEN wait[i] - 1 ELSE wait[i]
      BY <1>4, <2>3, OnceRuns DEF Elapse
    <3> QED BY <2>2, <3>2, <3>3, OutboxAssumption
  <2>4. CASE ~Elapse
    <3>1. ASSUME NEW r \in Runs, Claim(r), i \in runs[r].ids, wait[i] + runs[r].age <= 0 PROVE FALSE
      <4>1. wait[i] + runs[r].age > 0
        BY <1>6, <3>1 DEF Claim, Once, Sealed
      <4> QED BY <1>4, <3>1, <4>1, OnceRuns
    <3>2. ASSUME NEW r \in Runs, Mark(r), i \in runs[r].ids PROVE FALSE
      BY <1>6, <3>2 DEF Mark, Claimed, Once, Ungiven
    <3>3. wait'[i] = wait[i]
      BY <1>2, <1>4, <2>4, <3>1, <3>2, WhoSetsClock
    <3> QED BY <2>1, <2>2, <2>4, <3>3
  <2> QED BY <2>3, <2>4
<1> QED BY <1>1, <1>3, <1>5, <1>6, WhoGives

LEMMA StaysUngiven ==
  ASSUME Once, [Next]_vars, Undisturbed
  PROVE  Ungiven'
<1>1. SUFFICES ASSUME NEW q \in Runs, runs'[q].pc \in Claimed, NEW i \in runs'[q].ids, Given(i)'
               PROVE  FALSE
  BY DEF Ungiven
<1>2. Typed /\ Typed' /\ i \in DOMAIN outbox'
  <2>1. Typed /\ Typed'
    BY OnceRuns, NextTyped
  <2> QED BY <1>1, <2>1 DEF Typed, TypeOK
<1>3. i \in DOMAIN outbox
  BY <1>1, <1>2, WhoGives
<1>4. CASE ~Elapse /\ Claim(q)
  <2>1. runs[q].pc = "claim" /\ i \in runs[q].ids /\ wait[i] + runs[q].age <= 0 /\ outbox' = outbox
    BY <1>1, <1>2, <1>4, ClaimTakes
  <2>2. Given(i)
    BY <1>1, <2>1 DEF Given
  <2>3. wait[i] + runs[q].age > 0
    BY <2>1, <2>2 DEF Once, Sealed
  <2> QED BY <1>3, <2>1, <2>3, OnceRuns
<1>5. CASE Elapse \/ ~Claim(q)
  <2>1. runs[q].pc \in Claimed /\ i \in runs[q].ids
    <3>1. CASE Elapse
      <4>1. runs'[q] = IF runs[q].pc = "idle" THEN runs[q] ELSE [runs[q] EXCEPT !.age = @ + 1]
        BY <1>2, <3>1 DEF Elapse
      <4>2. runs'[q].pc = runs[q].pc /\ runs'[q].ids = runs[q].ids
        BY <4>1, OnceRuns DEF Run
      <4> QED BY <1>1, <4>2
    <3>2. CASE ~Elapse
      BY <1>1, <1>2, <1>5, <3>2, WhoClaims
    <3> QED BY <3>1, <3>2
  <2>2. ~Given(i)
    BY <2>1 DEF Once, Ungiven
  <2>3. PICK r \in Runs : Mark(r) /\ i \in runs[r].ids
    BY <1>1, <1>2, <2>2, WhoGives
  <2>4. r = q
    BY <2>1, <2>3, OnceRuns DEF OneRunner, Mark, Claimed
  <2>5. runs'[q].pc = "group"
    BY <1>2, <2>3, <2>4, Marks
  <2> QED BY <1>1, <2>5 DEF Claimed
<1> QED BY <1>4, <1>5

LEMMA StaysOwned ==
  ASSUME Once, [Next]_vars, Undisturbed
  PROVE  Owned'
<1>1. SUFFICES ASSUME NEW q \in Runs, q[2] # Tick, NEW i \in runs'[q].todo \cup runs'[q].ids
               PROVE  outbox'[i].rec = q[2]
  BY DEF Owned
<1>2. Typed /\ "crash" \notin Disturbances
  BY OnceRuns DEF Undisturbed
<1>3. i \in DOMAIN outbox => outbox'[i].rec = outbox[i].rec
  BY <1>2, RowsFollow DEF Follows
<1>4. \A j \in runs[q].todo \cup runs[q].ids : j \in DOMAIN outbox /\ outbox[j].rec = q[2]
  BY <1>1, OnceRuns DEF Once, Owned
<1>5. CASE runs'[q].pc # "idle"
  <2>1. CASE Select(q) /\ runs'[q].ids = {} /\ UNCHANGED outbox
             /\ \A j \in runs'[q].todo : q[2] # Tick => outbox[j].rec = q[2]
    BY <1>1, <2>1
  <2> QED BY <1>1, <1>2, <1>3, <1>4, <1>5, <2>1, BatchShrinks
<1>6. CASE runs'[q].pc = "idle"
  <2>1. runs'[q] = Idle \/ (runs'[q].todo = runs[q].todo /\ runs'[q].ids = runs[q].ids)
    <3>1. CASE Rests(q) \/ runs'[q] = Idle
      BY <3>1 DEF Rests
    <3>2. CASE Select(q) \/ Group(q) \/ Claim(q) \/ PlanRow(q) \/ Mark(q)
      BY <1>2, <1>6, <3>2, Selected, Grouped, ClaimTakes, Plans, Marks
    <3>3. CASE Put(q) \/ Compare(q) \/ Verify(q)
      BY <1>2, <3>3, Puts, Compares, Verifies DEF Keeps
    <3>4. CASE Post(q) \/ Link(q) \/ FollowUp(q)
      BY <1>2, <3>4, Posts, Links, FollowsUp DEF Keeps
    <3>5. CASE Done(q)
      BY <3>5, OnceRuns DEF Done
    <3> QED BY <1>2, <3>1, <3>2, <3>3, <3>4, <3>5, WhoMoves DEF InTurn, Step
  <2> QED BY <1>1, <1>3, <1>4, <2>1, NotIdle
<1> QED BY <1>5, <1>6
LEMMA OneMaker ==
  ASSUME Once, \A c, d \in Containers : c = d, NEW q \in Runs, NEW r \in Runs, Making(q), Making(r)
  PROVE  q = r
<1>1. q[2] = Tick /\ r[2] = Tick
  BY DEF Once, NewOnly
<1> QED BY <1>1 DEF Runs

LEMMA StaysNewOnly ==
  ASSUME Once, [Next]_vars, Undisturbed, \A c, d \in Containers : c = d
  PROVE  NewOnly'
<1>1. SUFFICES ASSUME NEW q \in Runs, Making(q)' PROVE q[2] = Tick /\ linked'[RecOf(q)'] = 0
  BY DEF NewOnly
<1>2. Typed /\ "crash" \notin Disturbances
  BY OnceRuns DEF Undisturbed
<1>3. runs'[q].pc \in {"link", "send", "mark"} /\ (runs'[q].pc = "send" => runs'[q].link = 0)
      /\ (runs'[q].pc = "mark" => runs'[q].out = "stop")
  BY <1>1 DEF Making, Pending
<1>4. /\ runs[q].pc \in Claimed /\ runs'[q].ids = runs[q].ids
      /\ RecOf(q)' = RecOf(q) /\ RecOf(q) \in Records
  BY <1>2, <1>3, WantsSame DEF Claimed
<1> DEFINE k == RecOf(q)
<1>5. ASSUME Making(q), linked'[k] = linked[k] PROVE q[2] = Tick /\ linked'[RecOf(q)'] = 0
  BY <1>4, <1>5 DEF Once, NewOnly
<1>6. CASE Rests(q) \/ UNCHANGED runs
  <2>1. Making(q) /\ runs'[q].pc = runs[q].pc
    BY <1>1, <1>6 DEF Making, Pending, Rests
  <2>2. ASSUME NEW r \in Runs, Link(r) PROVE FALSE
    <3>1. Making(r)
      BY <2>2 DEF Link, Making, Pending
    <3>2. r = q
      BY <2>1, <3>1, OneMaker
    <3> QED BY <1>2, <2>1, <2>2, <3>2, Links DEF Link
  <2>3. linked'[k] = linked[k]
    BY <1>2, <1>4, <2>2, WhoLinks
  <2> QED BY <1>5, <2>1, <2>3
<1>7. CASE PlanRow(q)
  <2>1. runs'[q].link = linked[k] /\ linked' = linked /\ linked[k] = 0
    BY <1>2, <1>3, <1>7, Plans DEF world
  <2>2. CASE q[2] # Tick
    <3>1. linked[q[2]] # 0 /\ runs[q].ids # {}
      BY <1>2, <1>4, <2>2 DEF Typed, Fit, Claimed
    <3>2. RecOf(q) = q[2]
      BY <2>2, <3>1 DEF RecOf, Once, Owned
    <3> QED BY <2>1, <3>1, <3>2
  <2> QED BY <1>4, <2>1, <2>2
<1>8. CASE Compare(q)
  <2>1. runs'[q].pc = "send" /\ runs'[q].link = runs[q].link
    BY <1>2, <1>3, <1>8, Compares
  <2>2. runs[q].link \in DOMAIN zuper[k] /\ zuper[k] \in Seq(Seq(Nat))
    BY <1>2, <1>4, <1>8 DEF Once, Shown, Grounded, Compare, Typed, TypeOK
  <2> QED BY <1>3, <2>1, <2>2, SMTT(30)
<1>9. CASE Post(q)
  <2>1. Making(q) /\ linked' = linked
    BY <1>9 DEF Post, Making
  <2> QED BY <1>5, <2>1
<1>10. CASE Link(q)
  <2>1. Making(q)
    BY <1>10 DEF Link, Making, Pending
  <2>2. linked' = linked
    BY <1>2, <1>3, <1>10, Links
  <2> QED BY <1>5, <2>1, <2>2
<1>11. CASE Put(q) \/ Verify(q) \/ FollowUp(q)
  BY <1>2, <1>3, <1>11, Puts, Verifies, FollowsUp
<1>12. CASE Select(q) \/ Group(q) \/ Claim(q) \/ Mark(q)
  <2>1. UNCHANGED runs
    BY <1>2, <1>3, <1>12, Selected, Grouped, ClaimTakes, Marks
  <2> QED BY <1>6, <2>1
<1>13. CASE Done(q) \/ runs'[q] = Idle
  <2>1. runs'[q] = Idle
    BY <1>13, OnceRuns DEF Done
  <2> QED BY <1>3, <2>1, IdleTyped
<1> QED BY <1>2, <1>6, <1>7, <1>8, <1>9, <1>10, <1>11, <1>12, <1>13, WhoMoves DEF InTurn, Step

LEMMA InitOnce == ASSUME Init PROVE Once
<1>1. DOMAIN outbox = {}
  BY DEF Init
<1>2. \A r \in Runs : runs[r] = Idle
  BY DEF Init
<1>3. \A r \in Runs : runs[r].pc = "idle" /\ runs[r].todo = {} /\ runs[r].ids = {}
  BY <1>2, NotIdle
<1> QED BY <1>1, <1>3, InitHeld, InitShown DEF Once, NotGone, Sealed, Ungiven, Owned, NewOnly, Making, Pending,
           Claimed

LEMMA NextOnce ==
  ASSUME Once, [Next]_vars, Undisturbed, \A c, d \in Containers : c = d
  PROVE  Once'
<1>1. Held' /\ Shown'
  BY NextHeld, NextShown DEF Once, Undisturbed
<1> QED BY <1>1, NoneGone, StaysSealed, StaysUngiven, StaysOwned, StaysNewOnly DEF Once

(* Rows given up are counted, and stay so. *)
LEMMA Gives ==
  ASSUME Typed, NEW k
  PROVE  /\ GivenUp(k) = {i \in DOMAIN outbox : outbox[i].rec = k /\ Given(i)}
         /\ IsFiniteSet(GivenUp(k)) /\ Cardinality(GivenUp(k)) \in Nat
<1>1. DOMAIN outbox = 1 .. Len(outbox) /\ Len(outbox) \in Nat
  BY DEF Typed, TypeOK
<1>2. IsFiniteSet(DOMAIN outbox)
  BY <1>1, FS_Interval, 1 \in Int
<1>3. GivenUp(k) = {i \in DOMAIN outbox : outbox[i].rec = k /\ Given(i)}
  BY DEF GivenUp, Given
<1>4. IsFiniteSet(GivenUp(k))
  BY <1>2, <1>3, FS_Subset
<1> QED BY <1>3, <1>4, FS_CardinalityType

LEMMA GivesMore ==
  ASSUME Once, [Next]_vars, Undisturbed, NEW k \in Records
  PROVE  /\ GivenUp(k) \subseteq GivenUp(k)'
         /\ Cardinality(GivenUp(k)) \in Nat /\ Cardinality(GivenUp(k)') \in Nat
         /\ Cardinality(GivenUp(k)) <= Cardinality(GivenUp(k)')
         /\ \A i \in GivenUp(k)' \ GivenUp(k) : Cardinality(GivenUp(k)) + 1 <= Cardinality(GivenUp(k)')
<1>1. Typed /\ Typed'
  BY OnceRuns, NextTyped
<1>2. /\ GivenUp(k)' = {i \in DOMAIN outbox' : outbox'[i].rec = k /\ Given(i)'}
      /\ IsFiniteSet(GivenUp(k)') /\ Cardinality(GivenUp(k)') \in Nat
  <2>1. DOMAIN outbox' = 1 .. Len(outbox') /\ Len(outbox') \in Nat
    BY <1>1 DEF Typed, TypeOK
  <2>2. IsFiniteSet(DOMAIN outbox')
    BY <2>1, FS_Interval, 1 \in Int
  <2>3. GivenUp(k)' = {i \in DOMAIN outbox' : outbox'[i].rec = k /\ Given(i)'}
    BY DEF GivenUp, Given
  <2>4. IsFiniteSet(GivenUp(k)')
    BY <2>2, <2>3, FS_Subset
  <2> QED BY <2>3, <2>4, FS_CardinalityType
<1>3. /\ GivenUp(k) = {i \in DOMAIN outbox : outbox[i].rec = k /\ Given(i)}
      /\ IsFiniteSet(GivenUp(k)) /\ Cardinality(GivenUp(k)) \in Nat
  BY <1>1, Gives
<1>4. GivenUp(k) \subseteq GivenUp(k)'
  BY <1>2, <1>3, GivenStays
<1> DEFINE S == GivenUp(k)
           T == GivenUp(k)'
<1> HIDE DEF S, T
<1>5. S \subseteq T /\ IsFiniteSet(S) /\ IsFiniteSet(T) /\ Cardinality(S) \in Nat /\ Cardinality(T) \in Nat
  BY <1>2, <1>3, <1>4 DEF S, T
<1>6. Cardinality(S) <= Cardinality(T)
  BY <1>5, FS_Subset
<1>7. ASSUME NEW i \in T \ S PROVE Cardinality(S) + 1 <= Cardinality(T)
  <2>1. IsFiniteSet(S \cup {i}) /\ Cardinality(S \cup {i}) = Cardinality(S) + 1
    BY <1>5, <1>7, FS_AddElement
  <2>2. S \cup {i} \subseteq T
    BY <1>5, <1>7
  <2>3. Cardinality(S \cup {i}) <= Cardinality(T)
    BY <1>5, <2>2, FS_Subset
  <2> QED BY <2>1, <2>3
<1> QED BY <1>5, <1>6, <1>7 DEF S, T

(* Zuper has at most one record of k for each row given up, and one more for k's own: the one that is linked, *)
(* or is being linked, or is about to be given up.                                                             *)
Own(k) == linked[k] # 0 \/ \E r \in Runs : Pending(r) /\ RecOf(r) = k
Counted == \A k \in Records : Len(zuper[k]) <= Cardinality(GivenUp(k)) + (IF Own(k) THEN 1 ELSE 0)

LEMMA LinksSome ==
  ASSUME Typed, NEW r \in Runs, Link(r)
  PROVE  runs[r].link # 0
<1>1. runs[r].link \in 1 .. Len(zuper[RecOf(r)])
  BY DEF Typed, Fit, Link
<1> QED BY <1>1

(* Who is done with a record of its own that is not linked has given a row up. *)
LEMMA OwnOrGiven ==
  ASSUME Once, [Next]_vars, Undisturbed, NEW k \in Records, Own(k), ~Own(k)'
  PROVE  \E i : i \in GivenUp(k)' \ GivenUp(k)
<1>1. Typed /\ Typed' /\ "crash" \notin Disturbances /\ \A c \in Containers : ~Crash(c)
  BY OnceRuns, NextTyped DEF Undisturbed, Crash, Disturb
<1>2. linked'[k] = 0 /\ linked \in [Records -> Nat]
  BY <1>1 DEF Own, Typed, TypeOK
<1>3. linked[k] = 0
  BY <1>1, <1>2, WhoLinks, LinksSome
<1>4. PICK r \in Runs : Pending(r) /\ RecOf(r) = k
  BY <1>3 DEF Own
<1>5. ~(Pending(r)' /\ RecOf(r)' = k) /\ runs[r].pc \in {"link", "mark"} /\ runs[r].ids # {}
  BY <1>1, <1>4 DEF Own, Pending, Typed, Fit, Claimed
<1>6. runs'[r].ids = runs[r].ids => RecOf(r)' = k
  BY <1>1, <1>4, <1>5, RecKept
<1>7. Mark(r) /\ runs[r].out = "stop"
  <2>1. CASE Rests(r)
    BY <1>4, <1>5, <1>6, <2>1 DEF Rests, Pending
  <2>2. CASE Link(r)
    <3>1. runs[r].link \in 1 .. Len(zuper[k]) /\ Keeps(r)
      BY <1>1, <1>4, <2>2, Links DEF Typed, Fit, Link
    <3>2. runs'[r].pc = "mark" /\ runs'[r].out = "stop"
      BY <1>1, <1>2, <1>4, <2>2, <3>1, Links
    <3> QED BY <1>5, <1>6, <3>1, <3>2 DEF Keeps, Pending
  <2>3. CASE Mark(r)
    BY <1>4, <2>3 DEF Mark, Pending
  <2>4. ASSUME Select(r) \/ Group(r) \/ Claim(r) \/ PlanRow(r) \/ Compare(r) \/ Put(r) \/ Post(r) \/ Verify(r)
               \/ FollowUp(r) \/ Done(r)
        PROVE  FALSE
    BY <1>5, <2>4 DEF Select, Group, Claim, PlanRow, Compare, Put, Post, Verify, FollowUp, Done
  <2> QED BY <1>1, <2>1, <2>2, <2>3, <2>4, WhoMoves DEF InTurn, Step
<1>8. PICK i \in runs[r].ids : i = CHOOSE j \in runs[r].ids : TRUE
  BY <1>5
<1>9. i \in DOMAIN outbox /\ outbox[i].rec = k /\ ~Given(i)
  BY <1>4, <1>7, <1>8, OnceRuns DEF RecOf, Once, Ungiven, Mark, Claimed
<1>10. i \in DOMAIN outbox' /\ outbox'[i].rec = k
  BY <1>1, <1>9, RowsFollow DEF Follows
<1>11. Given(i)'
  <2> DEFINE ids == {j \in runs[r].ids : outbox[j].status # "gone"}
             out == runs[r].out
             failed == out \in {"failed", "stop"}
  <2>1. outbox' = [j \in DOMAIN outbox |->
           IF j \notin ids THEN outbox[j]
           ELSE IF failed THEN [outbox[j] EXCEPT !.status = "failed",
                              !.attempts = IF out = "stop" THEN MaxAttempts ELSE runs[r].tries]
           ELSE [outbox[j] EXCEPT !.status = out, !.planned = runs[r].want]]
    BY <1>7 DEF Mark
  <2>2. i \in ids /\ failed /\ outbox[i] \in Row
    BY <1>7, <1>8, <1>9, OnceRuns DEF NotGone
  <2>3. outbox'[i] = [outbox[i] EXCEPT !.status = "failed", !.attempts = MaxAttempts]
    BY <1>7, <1>9, <2>1, <2>2
  <2>4. outbox'[i].status = "failed" /\ outbox'[i].attempts = MaxAttempts
    BY <2>2, <2>3 DEF Row
  <2> QED BY <2>4, OutboxAssumption DEF Given
<1> QED BY <1>1, <1>9, <1>10, <1>11 DEF GivenUp, Given

(* Zuper's records of k grow in number by a create alone, and by one. *)
LEMMA WhoMakes ==
  ASSUME Typed, [Next]_vars, NEW k \in Records
  PROVE  \/ Len(zuper'[k]) = Len(zuper[k])
         \/ Len(zuper'[k]) = Len(zuper[k]) + 1 /\ \E r \in Runs : Post(r) /\ RecOf(r) = k
<1>1. zuper[k] \in Seq(Seq(Nat))
  BY DEF Typed, TypeOK
<1>2. CASE zuper'[k] = zuper[k]
  BY <1>2
<1>3. CASE Edits(k)
  BY <1>1, <1>3, ExceptSeq DEF Edits
<1>4. ASSUME NEW r \in Runs, Writes(r, k) PROVE \/ Len(zuper'[k]) = Len(zuper[k])
                                              \/ /\ Len(zuper'[k]) = Len(zuper[k]) + 1
                                                 /\ Post(r) /\ RecOf(r) = k
  <2>1. CASE Put(r) /\ zuper'[k] = [zuper[k] EXCEPT ![runs[r].link] = Append(@, runs[r].want)]
    BY <1>1, <2>1, ExceptSeq
  <2>2. CASE Post(r) /\ RecOf(r) = k /\ zuper'[k] = Append(zuper[k], <<runs[r].want>>)
    <3> DEFINE one == <<runs[r].want>>
    <3>1. one \in Seq(Nat)
      BY Wants
    <3>2. zuper'[k] = Append(zuper[k], one)
      BY <2>2
    <3> HIDE DEF one
    <3>3. Len(zuper'[k]) = Len(zuper[k]) + 1
      BY <1>1, <3>1, <3>2, AppendProperties
    <3> QED BY <2>2, <3>3
  <2> QED BY <1>4, <2>1, <2>2 DEF Writes
<1> QED BY <1>2, <1>3, <1>4, WhoWrites

LEMMA StaysCounted ==
  ASSUME Once, Counted, [Next]_vars, Undisturbed, \A c, d \in Containers : c = d
  PROVE  Counted'
<1>1. SUFFICES ASSUME NEW k \in Records
               PROVE  Len(zuper'[k]) <= Cardinality(GivenUp(k)') + (IF Own(k)' THEN 1 ELSE 0)
  BY DEF Counted
<1>2. Typed /\ Typed' /\ Len(zuper[k]) \in Nat /\ Len(zuper'[k]) \in Nat
  <2>1. Typed /\ Typed'
    BY OnceRuns, NextTyped
  <2>2. zuper[k] \in Seq(Seq(Nat)) /\ zuper'[k] \in Seq(Seq(Nat))
    BY <2>1 DEF Typed, TypeOK
  <2> QED BY <2>1, <2>2, LenProperties
<1>3. Len(zuper[k]) <= Cardinality(GivenUp(k)) + (IF Own(k) THEN 1 ELSE 0)
  BY DEF Counted
<1>4. /\ Cardinality(GivenUp(k)) \in Nat /\ Cardinality(GivenUp(k)') \in Nat
      /\ Cardinality(GivenUp(k)) <= Cardinality(GivenUp(k)')
      /\ \A i \in GivenUp(k)' \ GivenUp(k) : Cardinality(GivenUp(k)) + 1 <= Cardinality(GivenUp(k)')
  BY GivesMore
<1>5. CASE Len(zuper'[k]) = Len(zuper[k])
  <2>1. CASE Own(k) /\ ~Own(k)'
    <3>1. Cardinality(GivenUp(k)) + 1 <= Cardinality(GivenUp(k)')
      BY <1>4, <2>1, OwnOrGiven
    <3> QED BY <1>2, <1>3, <1>4, <1>5, <2>1, <3>1
  <2>2. CASE ~Own(k) \/ Own(k)'
    BY <1>2, <1>3, <1>4, <1>5, <2>2
  <2> QED BY <2>1, <2>2
<1>6. ASSUME NEW r \in Runs, Post(r), RecOf(r) = k, Len(zuper'[k]) = Len(zuper[k]) + 1
      PROVE  ~Own(k) /\ Own(k)'
  <2>1. Making(r) /\ runs[r].pc = "send"
    BY <1>6 DEF Post, Making
  <2>2. linked[k] = 0
    BY <1>6, <2>1 DEF Once, NewOnly
  <2>3. ASSUME NEW q \in Runs, Pending(q) PROVE FALSE
    <3>1. q = r
      BY <2>1, <2>3, OneMaker DEF Making
    <3> QED BY <2>1, <2>3, <3>1 DEF Pending
  <2>4. Keeps(r) /\ runs[r].ids # {} /\ Pending(r)'
    <3>1. zuper' # zuper
      BY <1>2, <1>6
    <3> QED BY <1>2, <1>6, <2>1, <3>1, Posts DEF Pending, Typed, Fit, Claimed
  <2>5. RecOf(r)' = k
    BY <1>2, <1>6, <2>4, RecKept DEF Keeps
  <2> QED BY <2>2, <2>3, <2>4, <2>5 DEF Own
<1>7. CASE Len(zuper'[k]) = Len(zuper[k]) + 1 /\ \E r \in Runs : Post(r) /\ RecOf(r) = k
  <2>1. ~Own(k) /\ Own(k)'
    BY <1>6, <1>7
  <2> QED BY <1>2, <1>3, <1>4, <1>7, <2>1
<1> QED BY <1>2, <1>5, <1>7, WhoMakes

(* A record made in Tuper is made in Zuper once, and once more for each of its changes given up for want of an *)
(* answer or of a link: by one container that does not stop, whose batches end within their lease, while       *)
(* answers are lost, pushes refused and ignored, and flushes, imports and edits go on beside it.                *)
THEOREM CreatesOnce ==
  ASSUME Undisturbed, \A c, d \in Containers : c = d
  PROVE  Spec => []MadeOnce
<1>1. Init => Once /\ Counted
  <2> SUFFICES ASSUME Init PROVE Counted
    BY InitOnce
  <2>1. ASSUME NEW k \in Records PROVE Len(zuper[k]) <= (IF Own(k) THEN 1 ELSE 0)
    <3>1. zuper[k] = IF k \in Known THEN << <<1>> >> ELSE <<>>
      BY DEF Init
    <3>2. linked[k] = IF k \in Known THEN 1 ELSE 0
      BY DEF Init
    <3> QED BY <3>1, <3>2 DEF Own
  <2>2. \A k \in Records : Cardinality(GivenUp(k)) \in Nat
    BY InitTyped, Gives
  <2>3. \A k \in Records : Len(zuper[k]) \in Nat
    BY InitTyped DEF Typed, TypeOK
  <2> QED BY <2>1, <2>2, <2>3 DEF Counted
<1>2. (Once /\ Counted) /\ [Next]_vars => (Once /\ Counted)'
  BY NextOnce, StaysCounted
<1>3. Once /\ Counted => MadeOnce
  <2> SUFFICES ASSUME Once, Counted, NEW k \in Records PROVE Len(zuper[k]) <= 1 + Cardinality(GivenUp(k))
    BY DEF MadeOnce
  <2>1. Cardinality(GivenUp(k)) \in Nat /\ Len(zuper[k]) \in Nat
    BY OnceRuns, Gives DEF Typed, TypeOK
  <2> QED BY <2>1 DEF Counted
<1> QED BY <1>1, <1>2, <1>3, PTL DEF Spec
===============================================================================
