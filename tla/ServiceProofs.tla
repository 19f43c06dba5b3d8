---------------------------- MODULE ServiceProofs ----------------------------
(* Theorems about what runs beside the records (MCService), for every value of the   *)
(* constants: of each component about its own behaviours - the log of calls (ApiLog), *)
(* the settings form (Dashboard), the settings (Settings), whole lists (Collections)  *)
(* and the sweep (Sweep) - and then of all of them together, as the run has them.     *)
EXTENDS MCService, CommandsProofs, SequenceTheorems, FiniteSetTheorems, TLAPS

(* ------------------------------ The log of calls ----------------------------- *)

(* What a sequence of rows holds, and the rows in memory. *)
Rng(s) == {s[i] : i \in DOMAIN s}
Mem == Rng(buffers["writes"]) \cup Rng(buffers["calls"]) \cup Rng(flight.rows)
Lost == {r \in A!Rows \ (squeezed \cup Mem) : stored[r] = 0}

(* The rows of one log, in the order they were recorded. *)
Of(s, l) == s \in Seq(Nat) /\ A!InOrder(s) /\ Rng(s) \subseteq A!Rows /\ \A r \in Rng(s) : recorded[r] = l
Good(b) == DOMAIN b = A!Logs /\ b = [l \in A!Logs |-> b[l]] /\ \A l \in A!Logs : Of(b[l], l) /\ Len(b[l]) <= MaxBuffer
Before(s, t) == \A x \in Rng(s), y \in Rng(t) : x < y
Flying(f, b) ==
  /\ f \in [log : A!Logs \cup {"none"}, rows : Seq(Nat)]
  /\ Of(f.rows, f.log) /\ Len(f.rows) <= Batch
  /\ f = A!Quiet <=> f.log = "none"
  /\ f = A!Quiet <=> f.rows = <<>>
  /\ f.log # "none" => Before(f.rows, b[f.log])

LogTyped ==
  /\ recorded \in Seq(A!Logs) /\ Len(recorded) <= MaxRecorded
  /\ Good(buffers) /\ Flying(flight, buffers)
  /\ stored \in [1 .. MaxRecorded -> Nat] /\ \A r \in 1 .. MaxRecorded : r > Len(recorded) => stored[r] = 0
  /\ dropped \in Nat /\ unsure \in Nat /\ squeezed \subseteq A!Rows /\ owed \subseteq A!Rows
  /\ squeezed \cap Mem = {}

(* A call in memory was stored only by inserts whose answer was lost. *)
StoredOnce ==
  /\ \A r \in A!Rows : stored[r] <= IF recorded[r] = "writes" THEN 1 ELSE IF r \in Mem THEN unsure ELSE 1 + unsure
  /\ unsure = 0 => \A r \in Mem : stored[r] = 0

Tally == Cardinality(Lost) <= dropped /\ (unsure = 0 => Cardinality(Lost) = dropped)

(* Of what a process told to stop owes, the writes go first. *)
Paid ==
  /\ running = "gone" => owed \cap Mem = {}
  /\ flight.log = "calls" => owed \cap Rng(buffers["writes"]) = {}

LogInv == LogTyped /\ StoredOnce /\ Tally /\ Paid

Bounds == MaxRecorded \in Nat /\ MaxBuffer \in Nat \ {0} /\ Batch \in Nat \ {0}

(* A sequence of rows is split in two, put together, and cut to the newest. *)
LEMMA Splits ==
  ASSUME NEW s \in Seq(Nat), A!InOrder(s), NEW n \in 1 .. Len(s)
  PROVE  LET a == SubSeq(s, 1, n)
             z == SubSeq(s, n + 1, Len(s))
         IN  /\ a \in Seq(Nat) /\ z \in Seq(Nat) /\ Len(a) = n /\ Len(z) = Len(s) - n
             /\ A!InOrder(a) /\ A!InOrder(z) /\ Rng(a) \cup Rng(z) = Rng(s) /\ Before(a, z)
<1> DEFINE a == SubSeq(s, 1, n)
           z == SubSeq(s, n + 1, Len(s))
<1>1. a \in Seq(Nat) /\ Len(a) = n /\ \A i \in 1 .. n : a[i] = s[i]
  OBVIOUS
<1>2. z \in Seq(Nat) /\ Len(z) = Len(s) - n /\ \A i \in 1 .. Len(s) - n : z[i] = s[n + i]
  OBVIOUS
<1> HIDE DEF a, z
<1>3. DOMAIN a = 1 .. n /\ DOMAIN z = 1 .. Len(s) - n /\ DOMAIN s = 1 .. Len(s) /\ Len(s) \in Nat
  BY <1>1, <1>2
<1>4. A!InOrder(a)
  BY <1>1, <1>3 DEF A!InOrder
<1>5. A!InOrder(z)
  <2>1. ASSUME NEW i \in DOMAIN z, NEW j \in DOMAIN z, i < j PROVE z[i] < z[j]
    <3>1. n + i \in DOMAIN s /\ n + j \in DOMAIN s /\ n + i < n + j
      BY <1>3, <2>1, SMTT(30)
    <3>2. s[n + i] < s[n + j]
      BY <3>1 DEF A!InOrder
    <3>3. z[i] = s[n + i] /\ z[j] = s[n + j]
      BY <1>2, <1>3
    <3> QED BY <3>2, <3>3
  <2> QED BY <2>1 DEF A!InOrder
<1>6. \A i \in DOMAIN s : s[i] \in Rng(a) \cup Rng(z)
  <2> SUFFICES ASSUME NEW i \in DOMAIN s PROVE s[i] \in Rng(a) \cup Rng(z)
    OBVIOUS
  <2>1. CASE i <= n
    <3>1. i \in DOMAIN a /\ a[i] = s[i]
      BY <1>1, <1>3, <2>1
    <3> QED BY <3>1 DEF Rng
  <2>2. CASE ~(i <= n)
    <3>1. i - n \in DOMAIN z /\ z[i - n] = s[n + (i - n)] /\ n + (i - n) = i
      BY <1>2, <1>3, <2>2, SMTT(30)
    <3> QED BY <3>1 DEF Rng
  <2> QED BY <2>1, <2>2
<1>7. Rng(a) \subseteq Rng(s) /\ Rng(z) \subseteq Rng(s)
  <2>1. \A i \in DOMAIN a : i \in DOMAIN s /\ a[i] = s[i]
    BY <1>1, <1>3
  <2>2. ASSUME NEW i \in DOMAIN z PROVE n + i \in DOMAIN s /\ z[i] = s[n + i]
    <3>1. n + i \in DOMAIN s
      BY <1>3
    <3>2. z[i] = s[n + i]
      BY <1>2, <1>3
    <3> QED BY <3>1, <3>2
  <2> QED BY <2>1, <2>2 DEF Rng
<1>8. Before(a, z)
  <2>1. ASSUME NEW i \in DOMAIN a, NEW j \in DOMAIN z PROVE a[i] < z[j]
    <3>1. i \in DOMAIN s /\ n + j \in DOMAIN s /\ i < n + j
      BY <1>3
    <3>2. s[i] < s[n + j]
      BY <3>1 DEF A!InOrder
    <3> QED BY <1>1, <1>2, <1>3, <3>2
  <2> QED BY <2>1 DEF Before, Rng
<1>9. Rng(s) \subseteq Rng(a) \cup Rng(z)
  BY <1>6 DEF Rng
<1> QED BY <1>1, <1>2, <1>4, <1>5, <1>7, <1>8, <1>9 DEF a, z

LEMMA Joins ==
  ASSUME NEW s \in Seq(Nat), NEW t \in Seq(Nat), A!InOrder(s), A!InOrder(t), Before(s, t)
  PROVE  /\ s \o t \in Seq(Nat) /\ A!InOrder(s \o t) /\ Rng(s \o t) = Rng(s) \cup Rng(t)
         /\ Len(s \o t) = Len(s) + Len(t)
<1> DEFINE w == s \o t
<1>1. w \in Seq(Nat) /\ Len(w) = Len(s) + Len(t)
      /\ \A i \in 1 .. Len(s) + Len(t) : w[i] = IF i <= Len(s) THEN s[i] ELSE t[i - Len(s)]
  BY ConcatProperties
<1> HIDE DEF w
<1>2. /\ DOMAIN w = 1 .. Len(s) + Len(t) /\ DOMAIN s = 1 .. Len(s) /\ DOMAIN t = 1 .. Len(t)
      /\ Len(s) \in Nat /\ Len(t) \in Nat
  BY <1>1
<1>3. \A i \in DOMAIN w : \/ i \in DOMAIN s /\ w[i] = s[i] /\ i <= Len(s)
                          \/ i - Len(s) \in DOMAIN t /\ w[i] = t[i - Len(s)] /\ i > Len(s)
  BY <1>1, <1>2, SMTT(30)
<1>4. ASSUME NEW i \in DOMAIN w, NEW j \in DOMAIN w, i < j PROVE w[i] < w[j]
  <2>1. CASE j <= Len(s)
    <3>1. i \in DOMAIN s /\ j \in DOMAIN s /\ w[i] = s[i] /\ w[j] = s[j]
      BY <1>2, <1>3, <1>4, <2>1
    <3> QED BY <1>4, <3>1 DEF A!InOrder
  <2>2. CASE i > Len(s)
    <3>1. i - Len(s) \in DOMAIN t /\ j - Len(s) \in DOMAIN t /\ i - Len(s) < j - Len(s)
          /\ w[i] = t[i - Len(s)] /\ w[j] = t[j - Len(s)]
      BY <1>2, <1>3, <1>4, <2>2
    <3> QED BY <3>1 DEF A!InOrder
  <2>3. CASE i <= Len(s) /\ j > Len(s)
    <3>1. i \in DOMAIN s /\ w[i] = s[i] /\ j - Len(s) \in DOMAIN t /\ w[j] = t[j - Len(s)]
      BY <1>2, <1>3, <2>3
    <3> QED BY <3>1 DEF Before, Rng
  <2> QED BY <1>2, <2>1, <2>2, <2>3
<1>5. Rng(w) \subseteq Rng(s) \cup Rng(t)
  BY <1>3 DEF Rng
<1>6. Rng(s) \subseteq Rng(w)
  <2>1. \A i \in DOMAIN s : i \in DOMAIN w /\ w[i] = s[i]
    BY <1>1, <1>2
  <2> QED BY <2>1 DEF Rng
<1>7. Rng(t) \subseteq Rng(w)
  <2>1. ASSUME NEW i \in DOMAIN t PROVE Len(s) + i \in DOMAIN w /\ w[Len(s) + i] = t[i]
    <3>1. Len(s) + i \in DOMAIN w /\ ~(Len(s) + i <= Len(s)) /\ (Len(s) + i) - Len(s) = i
      BY <1>2
    <3>2. w[Len(s) + i] = t[(Len(s) + i) - Len(s)]
      BY <1>1, <1>2, <3>1
    <3> QED BY <3>1, <3>2
  <2> QED BY <2>1 DEF Rng
<1> QED BY <1>1, <1>4, <1>5, <1>6, <1>7 DEF w, A!InOrder

Cut(s) == {s[i] : i \in 1 .. Len(s) - MaxBuffer}

LEMMA NewestKept ==
  ASSUME Bounds, NEW s \in Seq(Nat), A!InOrder(s)
  PROVE  /\ A!Newest(s) \in Seq(Nat) /\ A!InOrder(A!Newest(s)) /\ Len(A!Newest(s)) <= MaxBuffer
         /\ Len(s) - Len(A!Newest(s)) = IF Len(s) > MaxBuffer THEN Len(s) - MaxBuffer ELSE 0
         /\ Rng(s) = Rng(A!Newest(s)) \cup Cut(s) /\ Rng(A!Newest(s)) \cap Cut(s) = {}
<1>1. Len(s) \in Nat /\ MaxBuffer \in Nat \ {0} /\ DOMAIN s = 1 .. Len(s)
  BY DEF Bounds
<1>2. CASE Len(s) <= MaxBuffer
  <2>1. A!Newest(s) = s /\ Cut(s) = {}
    BY <1>1, <1>2 DEF A!Newest, Cut
  <2>2. Len(s) - Len(A!Newest(s)) = 0
    BY <1>1, <2>1
  <2>3. ~(Len(s) > MaxBuffer)
    BY <1>1, <1>2
  <2>4. Rng(s) = Rng(A!Newest(s)) \cup Cut(s) /\ Rng(A!Newest(s)) \cap Cut(s) = {}
    BY <2>1
  <2>5. A!Newest(s) \in Seq(Nat) /\ A!InOrder(A!Newest(s)) /\ Len(A!Newest(s)) <= MaxBuffer
    BY <1>2, <2>1
  <2> QED BY <2>2, <2>3, <2>4, <2>5
<1>3. CASE Len(s) > MaxBuffer
  <2> DEFINE n == Len(s) - MaxBuffer
             a == SubSeq(s, 1, n)
             z == SubSeq(s, n + 1, Len(s))
  <2>1. n \in 1 .. Len(s) /\ A!Newest(s) = z
    BY <1>1, <1>3 DEF A!Newest
  <2>2. \A i \in 1 .. n : a[i] = s[i]
    BY <1>1, <2>1
  <2> HIDE DEF n
  <2>3. /\ a \in Seq(Nat) /\ z \in Seq(Nat) /\ Len(a) = n /\ Len(z) = Len(s) - n
        /\ A!InOrder(z) /\ Rng(a) \cup Rng(z) = Rng(s) /\ Before(a, z)
    BY <2>1, Splits
  <2> HIDE DEF a, z
  <2>4. Rng(a) = Cut(s)
    <3>1. DOMAIN a = 1 .. n /\ Cut(s) = {s[i] : i \in 1 .. n}
      BY <2>1, <2>3 DEF Cut, n
    <3> QED BY <2>2, <3>1 DEF Rng
  <2>5. Rng(a) \subseteq Nat
    BY <2>3 DEF Rng
  <2>6. Rng(z) \cap Cut(s) = {}
    BY <2>3, <2>4, <2>5 DEF Before
  <2> QED BY <1>1, <1>3, <2>1, <2>3, <2>4, <2>6 DEF n
<1> QED BY <1>1, <1>2, <1>3

(* A batch is taken off the front of a log. *)
LEMMA Sends ==
  ASSUME Bounds, NEW b, Good(b), NEW l \in A!Logs, b[l] # <<>>, A!Send(b, l), UNCHANGED recorded
  PROVE  /\ Good(buffers)' /\ Flying(flight, buffers)' /\ flight'.log = l
         /\ Rng(b["writes"]) \cup Rng(b["calls"]) = Mem'
         /\ \A k \in A!Logs : k # l => buffers'[k] = b[k]
<1> DEFINE n == IF Len(b[l]) < Batch THEN Len(b[l]) ELSE Batch
           a == SubSeq(b[l], 1, n)
           z == SubSeq(b[l], n + 1, Len(b[l]))
<1>1. b[l] \in Seq(Nat) /\ A!InOrder(b[l]) /\ Len(b[l]) <= MaxBuffer /\ Rng(b[l]) \subseteq A!Rows
      /\ \A r \in Rng(b[l]) : recorded[r] = l
  BY DEF Good, Of
<1>2. n \in 1 .. Len(b[l]) /\ n <= Batch /\ Len(b[l]) \in Nat
  BY <1>1 DEF Bounds
<1>3. flight' = [log |-> l, rows |-> a] /\ buffers' = [b EXCEPT ![l] = z]
  BY DEF A!Send
<1> HIDE DEF n
<1>4. /\ a \in Seq(Nat) /\ z \in Seq(Nat) /\ Len(a) = n /\ Len(z) = Len(b[l]) - n
      /\ A!InOrder(a) /\ A!InOrder(z) /\ Rng(a) \cup Rng(z) = Rng(b[l]) /\ Before(a, z)
  BY <1>1, <1>2, Splits
<1> HIDE DEF a, z
<1>5. /\ DOMAIN buffers' = A!Logs /\ buffers'[l] = z /\ \A k \in A!Logs : k # l => buffers'[k] = b[k]
      /\ flight'.log = l /\ flight'.rows = a
  BY <1>3 DEF Good
<1>6. Of(a, l) /\ Of(z, l) /\ Len(z) <= MaxBuffer
  BY <1>1, <1>2, <1>4 DEF Of, Bounds
<1>7. Good(buffers)'
  <2>1. \A k \in A!Logs : Of(buffers'[k], k) /\ Len(buffers'[k]) <= MaxBuffer
    BY <1>5, <1>6 DEF Good
  <2>2. \A k \in A!Logs : Of(buffers[k], k)' /\ Len(buffers'[k]) <= MaxBuffer
    BY <2>1 DEF Of, A!Rows
  <2>3. buffers' = [k \in A!Logs |-> buffers'[k]]
    BY <1>3 DEF Good
  <2> QED BY <1>5, <2>2, <2>3 DEF Good
<1>8. Flying(flight, buffers)'
  <2>1. a # <<>> /\ Len(a) <= Batch
    BY <1>2, <1>4
  <2>2. l # "none"
    BY DEF A!Logs
  <2>3. Of(flight.rows, flight.log)'
    BY <1>5, <1>6 DEF Of, A!Rows
  <2>4. flight' # A!Quiet /\ flight' \in [log : A!Logs \cup {"none"}, rows : Seq(Nat)]
    BY <1>3, <1>4, <2>2 DEF A!Quiet
  <2> QED BY <1>4, <1>5, <2>1, <2>2, <2>3, <2>4 DEF Flying, Before, Rng
<1>9. Rng(b["writes"]) \cup Rng(b["calls"]) = Mem'
  <2>0. Mem' = Rng(buffers'["writes"]) \cup Rng(buffers'["calls"]) \cup Rng(flight'.rows)
    BY DEF Mem, Rng
  <2>1. CASE l = "writes"
    <3>1. buffers'["writes"] = z /\ buffers'["calls"] = b["calls"] /\ Rng(a) \cup Rng(z) = Rng(b["writes"])
      BY <1>4, <1>5, <2>1 DEF A!Logs
    <3> QED BY <1>5, <2>0, <3>1
  <2>2. CASE l = "calls"
    <3>1. buffers'["calls"] = z /\ buffers'["writes"] = b["writes"] /\ Rng(a) \cup Rng(z) = Rng(b["calls"])
      BY <1>4, <1>5, <2>2 DEF A!Logs
    <3> QED BY <1>5, <2>0, <3>1
  <2> QED BY <2>1, <2>2 DEF A!Logs
<1> QED BY <1>5, <1>7, <1>8, <1>9

(* A flush goes on with the first log that has rows, or is over. *)
LEMMA GoesOn ==
  ASSUME Bounds, NEW b, Good(b), NEW ls \in SUBSET A!Logs, A!Onward(b, ls), UNCHANGED recorded
  PROVE  /\ Good(buffers)' /\ Flying(flight, buffers)' /\ Rng(b["writes"]) \cup Rng(b["calls"]) = Mem'
         /\ flight'.log = "calls" => /\ buffers'["writes"] = b["writes"]
                                     /\ "writes" \in ls => b["writes"] = <<>>
         /\ \/ running' = running
            \/ running = "stopping" /\ \A l \in ls : b[l] = <<>>
<1>1. CASE A!Due(b, ls) # {}
  <2> DEFINE l == A!First(A!Due(b, ls))
  <2>1. l \in A!Logs /\ b[l] # <<>> /\ (l = "calls" /\ "writes" \in ls => b["writes"] = <<>>)
    BY <1>1 DEF A!First, A!Due, A!Logs
  <2>2. A!Send(b, l) /\ running' = running
    BY <1>1 DEF A!Onward
  <2> HIDE DEF l
  <2>3. /\ Good(buffers)' /\ Flying(flight, buffers)' /\ flight'.log = l
        /\ Rng(b["writes"]) \cup Rng(b["calls"]) = Mem'
        /\ \A k \in A!Logs : k # l => buffers'[k] = b[k]
    BY <2>1, <2>2, Sends
  <2>4. l = "calls" => buffers'["writes"] = b["writes"]
    BY <2>3 DEF A!Logs
  <2> QED BY <2>1, <2>2, <2>3, <2>4
<1>2. CASE A!Due(b, ls) = {}
  <2>1. buffers' = b /\ flight' = A!Quiet /\ (running' = running \/ running = "stopping")
    BY <1>2 DEF A!Onward
  <2>2. Good(buffers)' /\ flight'.log = "none" /\ flight'.rows = <<>>
    BY <2>1 DEF Good, Of, A!Rows, A!Quiet
  <2>3. Of(<<>>, "none")'
    BY DEF Of, A!InOrder, Rng
  <2>4. Flying(flight, buffers)'
    <3>1. flight' \in [log : A!Logs \cup {"none"}, rows : Seq(Nat)] /\ Len(flight'.rows) <= Batch
      BY <2>1 DEF A!Quiet, Bounds
    <3>2. Of(flight.rows, flight.log)'
      BY <2>2, <2>3
    <3> QED BY <2>1, <2>2, <3>1, <3>2 DEF Flying
  <2>5. Mem' = Rng(b["writes"]) \cup Rng(b["calls"])
    BY <2>1, <2>2 DEF Mem, Rng
  <2> QED BY <1>2, <2>1, <2>2, <2>4, <2>5 DEF A!Due
<1> QED BY <1>1, <1>2

(* Rows are numbers, and the ones in memory are rows. *)
LEMMA RowsAre ==
  ASSUME LogTyped, Bounds
  PROVE  /\ A!Rows = 1 .. Len(recorded) /\ Len(recorded) \in Nat /\ A!Rows \subseteq 1 .. MaxRecorded
         /\ Mem \subseteq A!Rows /\ IsFiniteSet(A!Rows) /\ IsFiniteSet(Lost) /\ Cardinality(Lost) \in Nat
         /\ \A l \in A!Logs : Rng(buffers[l]) \cap Rng(flight.rows) = {}
<1>1. A!Rows = 1 .. Len(recorded) /\ Len(recorded) \in Nat /\ A!Rows \subseteq 1 .. MaxRecorded
  BY DEF A!Rows, LogTyped, Bounds
<1>2. Mem \subseteq A!Rows
  BY DEF Mem, LogTyped, Good, Of, Flying, A!Logs
<1>3. IsFiniteSet(A!Rows)
  BY <1>1, FS_Interval, 1 \in Int
<1>4. IsFiniteSet(Lost) /\ Cardinality(Lost) \in Nat
  BY <1>3, FS_Subset, FS_CardinalityType DEF Lost
<1>5. ASSUME NEW l \in A!Logs, NEW r \in Rng(buffers[l]), r \in Rng(flight.rows) PROVE FALSE
  <2>1. recorded[r] = l /\ recorded[r] = flight.log /\ l # "none"
    BY <1>5 DEF LogTyped, Good, Flying, Of, A!Logs
  <2>2. r < r
    BY <1>5, <2>1 DEF LogTyped, Flying, Before
  <2>3. r \in Nat
    BY <1>1, <1>2, <1>5 DEF Mem
  <2> QED BY <2>2, <2>3
<1> QED BY <1>1, <1>2, <1>3, <1>4, <1>5

LEMMA InsertedIs ==
  ASSUME LogTyped, Bounds
  PROVE  /\ A!Inserted \in [1 .. MaxRecorded -> Nat]
         /\ \A r \in 1 .. MaxRecorded : A!Inserted[r] = IF r \in Rng(flight.rows)
                                                      THEN IF flight.log = "writes" THEN 1 ELSE stored[r] + 1
                                                      ELSE stored[r]
<1>1. stored \in [1 .. MaxRecorded -> Nat]
  BY DEF LogTyped
<1>2. \A r : (\E i \in DOMAIN flight.rows : flight.rows[i] = r) <=> r \in Rng(flight.rows)
  BY DEF Rng
<1>3. A!Inserted = [r \in 1 .. MaxRecorded |-> IF r \in Rng(flight.rows)
                                             THEN IF flight.log = "writes" THEN 1 ELSE stored[r] + 1
                                             ELSE stored[r]]
  BY <1>1, <1>2 DEF A!Inserted
<1> QED BY <1>1, <1>3

(* A step that moves rows about in memory and does no more. *)
LEMMA Moves ==
  ASSUME LogInv, Bounds, Good(buffers)', Flying(flight, buffers)', Mem' = Mem, owed' \subseteq A!Rows,
         UNCHANGED <<recorded, stored, dropped, squeezed, unsure>>
  PROVE  LogTyped' /\ StoredOnce' /\ Tally'
<1>1. A!Rows' = A!Rows /\ Lost' = Lost
  BY DEF A!Rows, Lost
<1>2. LogTyped'
  BY <1>1 DEF LogInv, LogTyped
<1>3. StoredOnce'
  BY <1>1 DEF LogInv, StoredOnce
<1>4. Tally'
  BY <1>1 DEF LogInv, Tally
<1> QED BY <1>2, <1>3, <1>4

LEMMA FlushStays ==
  ASSUME LogInv, Bounds, A!Flush
  PROVE  LogInv'
<1>1. A!Onward(buffers, A!Logs) /\ UNCHANGED <<recorded, stored, dropped, squeezed, unsure, owed>> /\ running = "up"
      /\ flight = A!Quiet
  BY DEF A!Flush
<1>2. /\ Good(buffers)' /\ Flying(flight, buffers)' /\ Rng(buffers["writes"]) \cup Rng(buffers["calls"]) = Mem'
      /\ flight'.log = "calls" => buffers'["writes"] = buffers["writes"] /\ buffers["writes"] = <<>>
      /\ running' = running
  BY <1>1, GoesOn DEF LogInv, LogTyped, A!Logs
<1>3. Mem' = Mem
  <2>1. Rng(flight.rows) = {}
    BY <1>1 DEF A!Quiet, Rng
  <2> QED BY <1>2, <2>1 DEF Mem
<1>4. LogTyped' /\ StoredOnce' /\ Tally'
  BY <1>1, <1>2, <1>3, Moves DEF LogInv, LogTyped
<1>5. Paid'
  BY <1>1, <1>2 DEF Paid, Rng
<1> QED BY <1>4, <1>5 DEF LogInv

LEMMA InsertStays ==
  ASSUME LogInv, Bounds, A!Insert
  PROVE  LogInv'
<1> DEFINE ls == IF flight.log = "writes" THEN A!Logs ELSE {"calls"}
<1>1. A!Onward(buffers, ls) /\ UNCHANGED <<recorded, dropped, squeezed, unsure, owed>> /\ stored' = A!Inserted
      /\ flight # A!Quiet
  BY DEF A!Insert
<1>2. LogTyped /\ ls \in SUBSET A!Logs /\ "calls" \in ls /\ ("writes" \notin ls => flight.log # "writes")
  BY DEF LogInv, A!Logs
<1> HIDE DEF ls
<1>3. /\ Good(buffers)' /\ Flying(flight, buffers)' /\ Rng(buffers["writes"]) \cup Rng(buffers["calls"]) = Mem'
      /\ flight'.log = "calls" => /\ buffers'["writes"] = buffers["writes"]
                                  /\ "writes" \in ls => buffers["writes"] = <<>>
      /\ \/ running' = running
         \/ running = "stopping" /\ \A l \in ls : buffers[l] = <<>>
  BY <1>1, <1>2, GoesOn DEF LogTyped
<1>4. Mem' \cap Rng(flight.rows) = {} /\ Mem = Mem' \cup Rng(flight.rows)
  BY <1>2, <1>3, RowsAre DEF Mem, A!Logs
<1>5. /\ A!Rows = 1 .. Len(recorded) /\ Len(recorded) \in Nat /\ A!Rows \subseteq 1 .. MaxRecorded
      /\ Mem \subseteq A!Rows /\ A!Rows' = A!Rows /\ unsure \in Nat /\ unsure' = unsure /\ A!Rows \subseteq Nat
  BY <1>1, <1>2, RowsAre DEF A!Rows, LogTyped
<1>6. /\ stored' \in [1 .. MaxRecorded -> Nat]
      /\ \A r \in 1 .. MaxRecorded : stored'[r] = IF r \in Rng(flight.rows)
                                                  THEN IF flight.log = "writes" THEN 1 ELSE stored[r] + 1
                                                  ELSE stored[r]
  BY <1>1, <1>2, InsertedIs
<1>7. \A r \in A!Rows : stored[r] \in Nat
  BY <1>2, <1>5 DEF LogTyped
<1>8. flight.log \in A!Logs /\ \A r \in Rng(flight.rows) : recorded[r] = flight.log
  BY <1>1, <1>2 DEF LogTyped, Flying, Of
<1>9. LogTyped'
  <2>1. \A r \in 1 .. MaxRecorded : r > Len(recorded) => stored'[r] = 0
    BY <1>2, <1>4, <1>5, <1>6 DEF LogTyped
  <2>2. squeezed \cap Mem' = {}
    BY <1>2, <1>4 DEF LogTyped
  <2> QED BY <1>1, <1>2, <1>3, <1>5, <1>6, <2>1, <2>2 DEF LogTyped
<1>10. StoredOnce'
  <2>1. ASSUME NEW r \in A!Rows
        PROVE  stored'[r] <= IF recorded[r] = "writes" THEN 1 ELSE IF r \in Mem' THEN unsure ELSE 1 + unsure
    <3>1. stored[r] <= IF recorded[r] = "writes" THEN 1 ELSE IF r \in Mem THEN unsure ELSE 1 + unsure
      BY DEF LogInv, StoredOnce
    <3>2. CASE r \in Rng(flight.rows)
      BY <1>4, <1>5, <1>6, <1>7, <1>8, <3>1, <3>2
    <3>3. CASE r \notin Rng(flight.rows)
      BY <1>4, <1>5, <1>6, <1>7, <3>1, <3>3
    <3> QED BY <3>2, <3>3
  <2>2. unsure = 0 => \A r \in Mem' : stored'[r] = 0
    BY <1>4, <1>5, <1>6 DEF LogInv, StoredOnce
  <2> QED BY <1>1, <1>5, <2>1, <2>2 DEF StoredOnce
<1>11. Tally'
  <2>1. \A r \in A!Rows : r \in Rng(flight.rows) => stored'[r] # 0
    BY <1>5, <1>6, <1>7
  <2>2. Lost' = Lost
    BY <1>1, <1>4, <1>5, <1>6, <2>1 DEF Lost
  <2> QED BY <1>1, <2>2 DEF LogInv, Tally
<1>12. Paid'
  <2>1. running' = "gone" => owed \cap Mem' = {}
    <3>1. CASE running' = running
      BY <1>4, <3>1 DEF LogInv, Paid
    <3>2. CASE \A l \in ls : buffers[l] = <<>>
      <4>1. buffers["calls"] = <<>> /\ (flight.log = "writes" => buffers["writes"] = <<>>)
        BY <1>2, <3>2
      <4>2. flight.log = "calls" => owed \cap Rng(buffers["writes"]) = {}
        BY DEF LogInv, Paid
      <4> QED BY <1>3, <1>8, <4>1, <4>2 DEF Rng, A!Logs
    <3> QED BY <1>3, <3>1, <3>2
  <2>2. flight'.log = "calls" => owed \cap Rng(buffers'["writes"]) = {}
    <3>1. "writes" \in ls => buffers["writes"] = <<>> \/ flight'.log # "calls"
      BY <1>3
    <3>2. "writes" \notin ls => owed \cap Rng(buffers["writes"]) = {}
      BY <1>2, <1>8 DEF LogInv, Paid, A!Logs
    <3> QED BY <1>3, <3>1, <3>2 DEF Rng
  <2> QED BY <1>1, <2>1, <2>2 DEF Paid, Rng
<1> QED BY <1>9, <1>10, <1>11, <1>12 DEF LogInv

(* A row recorded at the cap costs the oldest one of its log. *)
LEMMA RecordStays ==
  ASSUME LogInv, Bounds, NEW l \in A!Logs, A!Record(l)
  PROVE  LogInv'
<1> DEFINE n == Len(recorded) + 1
           s == Append(buffers[l], n)
<1>1. /\ running # "gone" /\ Len(recorded) < MaxRecorded /\ recorded' = Append(recorded, l)
      /\ buffers' = [buffers EXCEPT ![l] = A!Newest(s)] /\ dropped' = dropped + Len(s) - Len(A!Newest(s))
      /\ UNCHANGED <<flight, stored, squeezed, unsure, running, owed>>
  BY DEF A!Record
<1>2. /\ A!Rows = 1 .. Len(recorded) /\ Len(recorded) \in Nat /\ A!Rows \subseteq 1 .. MaxRecorded
      /\ Mem \subseteq A!Rows /\ IsFiniteSet(Lost) /\ Cardinality(Lost) \in Nat /\ LogTyped
      /\ \A k \in A!Logs : Rng(buffers[k]) \cap Rng(flight.rows) = {}
  BY RowsAre DEF LogInv
<1>3. /\ recorded' \in Seq(A!Logs) /\ Len(recorded') = n /\ n \in 1 .. MaxRecorded /\ n \notin A!Rows
      /\ A!Rows' = A!Rows \cup {n} /\ recorded'[n] = l /\ \A r \in A!Rows : recorded'[r] = recorded[r]
  <2>1. recorded \in Seq(A!Logs)
    BY <1>2 DEF LogTyped
  <2>2. /\ recorded' \in Seq(A!Logs) /\ Len(recorded') = n /\ recorded'[n] = l
        /\ \A r \in 1 .. Len(recorded) : recorded'[r] = recorded[r]
    BY <1>1, <2>1
  <2>3. A!Rows' = 1 .. n
    BY <2>2 DEF A!Rows
  <2>4. MaxRecorded \in Nat
    BY DEF Bounds
  <2> QED BY <1>1, <1>2, <2>2, <2>3, <2>4
<1>4. /\ buffers[l] \in Seq(Nat) /\ A!InOrder(buffers[l]) /\ Rng(buffers[l]) \subseteq A!Rows /\ Len(buffers[l]) <= MaxBuffer
      /\ \A r \in Rng(buffers[l]) : recorded[r] = l
  BY <1>2 DEF LogTyped, Good, Of
<1> HIDE DEF n
<1>5. n \in Nat /\ \A r \in A!Rows : r < n
  BY <1>2 DEF n
<1>6. s \in Seq(Nat) /\ A!InOrder(s) /\ Rng(s) = Rng(buffers[l]) \cup {n} /\ Len(s) = Len(buffers[l]) + 1
  <2>1. /\ s \in Seq(Nat) /\ Len(s) = Len(buffers[l]) + 1 /\ s[Len(buffers[l]) + 1] = n
        /\ \A i \in 1 .. Len(buffers[l]) : s[i] = buffers[l][i]
    BY <1>4, <1>5, AppendProperties
  <2>2. DOMAIN s = DOMAIN buffers[l] \cup {Len(buffers[l]) + 1} /\ DOMAIN buffers[l] = 1 .. Len(buffers[l])
        /\ Len(buffers[l]) \in Nat
    BY <1>4, <2>1
  <2>3. \A i \in DOMAIN buffers[l] : buffers[l][i] < n /\ s[i] = buffers[l][i]
    BY <1>4, <1>5, <2>1, <2>2 DEF Rng
  <2> HIDE DEF s
  <2>4. ASSUME NEW i \in DOMAIN s, NEW j \in DOMAIN s, i < j PROVE s[i] < s[j]
    <3>1. i \in DOMAIN buffers[l]
      BY <2>2, <2>4
    <3>2. CASE j \in DOMAIN buffers[l]
      BY <1>4, <2>3, <2>4, <3>1, <3>2 DEF A!InOrder
    <3>3. CASE j = Len(buffers[l]) + 1
      BY <2>1, <2>3, <3>1, <3>3
    <3> QED BY <2>2, <3>2, <3>3
  <2>5. Rng(s) = Rng(buffers[l]) \cup {n}
    BY <2>1, <2>2, <2>3 DEF Rng
  <2> QED BY <2>1, <2>4, <2>5 DEF A!InOrder
<1> HIDE DEF s
<1> DEFINE w == A!Newest(s)
<1>7. /\ w \in Seq(Nat) /\ A!InOrder(w) /\ Len(w) <= MaxBuffer
      /\ Len(s) - Len(w) = IF Len(s) > MaxBuffer THEN Len(s) - MaxBuffer ELSE 0
      /\ Rng(s) = Rng(w) \cup Cut(s) /\ Rng(w) \cap Cut(s) = {}
  BY <1>6, NewestKept
<1> HIDE DEF w
<1>8. buffers'[l] = w /\ DOMAIN buffers' = A!Logs /\ \A k \in A!Logs : k # l => buffers'[k] = buffers[k]
  BY <1>1, <1>2 DEF LogTyped, Good, w
<1>9. Mem' = (Mem \cup {n}) \ Cut(s)
  <2>0. Mem' = Rng(buffers'["writes"]) \cup Rng(buffers'["calls"]) \cup Rng(flight.rows)
    BY <1>1 DEF Mem, Rng
  <2>1. ASSUME NEW k \in A!Logs, k # l PROVE Rng(buffers[k]) \cap Cut(s) = {}
    <3>1. \A r \in Rng(buffers[k]) : recorded[r] = k /\ r \in A!Rows
      BY <1>2 DEF LogTyped, Good, Of
    <3> QED BY <1>3, <1>4, <1>6, <1>7, <2>1, <3>1
  <2>2. Rng(flight.rows) \cap Cut(s) = {}
    <3>1. Rng(flight.rows) \subseteq A!Rows
      BY <1>2 DEF Mem
    <3> QED BY <1>2, <1>3, <1>6, <1>7, <3>1
  <2>3. CASE l = "writes"
    <3>1. buffers'["calls"] = buffers["calls"] /\ Rng(buffers["calls"]) \cap Cut(s) = {}
      BY <1>8, <2>1, <2>3 DEF A!Logs
    <3> QED BY <1>6, <1>7, <1>8, <2>0, <2>2, <2>3, <3>1 DEF Mem
  <2>4. CASE l = "calls"
    <3>1. buffers'["writes"] = buffers["writes"] /\ Rng(buffers["writes"]) \cap Cut(s) = {}
      BY <1>8, <2>1, <2>4 DEF A!Logs
    <3> QED BY <1>6, <1>7, <1>8, <2>0, <2>2, <2>4, <3>1 DEF Mem
  <2> QED BY <2>3, <2>4 DEF A!Logs
<1>10. \/ Cut(s) = {} /\ dropped' = dropped
       \/ dropped' = dropped + 1 /\ \E c \in Rng(s) : Cut(s) = {c}
  <2>1. Len(s) \in Nat /\ Len(s) <= MaxBuffer + 1 /\ MaxBuffer \in Nat /\ Len(w) \in Nat /\ dropped \in Nat
    BY <1>2, <1>4, <1>6, <1>7 DEF Bounds, LogTyped
  <2>2. CASE Len(s) <= MaxBuffer
    <3>1. Cut(s) = {}
      BY <2>1, <2>2 DEF Cut
    <3>2. Len(s) - Len(w) = 0
      BY <1>7, <2>1, <2>2
    <3> QED BY <1>1, <2>1, <3>1, <3>2 DEF w
  <2>3. CASE Len(s) = MaxBuffer + 1
    <3>1. Len(s) - MaxBuffer = 1 /\ 1 \in DOMAIN s
      BY <1>6, <2>1, <2>3
    <3>2. Cut(s) = {s[1]} /\ s[1] \in Rng(s)
      BY <2>1, <3>1 DEF Cut, Rng
    <3>3. Len(s) - Len(w) = 1
      BY <1>7, <2>1, <2>3
    <3> QED BY <1>1, <2>1, <3>2, <3>3 DEF w
  <2> QED BY <2>1, <2>2, <2>3
<1>11. Rng(s) \subseteq Mem \cup {n}
  BY <1>6 DEF Mem, A!Logs
<1>12. Good(buffers)'
  <2>1. ASSUME NEW k \in A!Logs PROVE Of(buffers[k], k)' /\ Len(buffers'[k]) <= MaxBuffer
    <3>1. CASE k = l
      <4>1. Rng(w) \subseteq Rng(buffers[l]) \cup {n}
        BY <1>6, <1>7
      <4>2. Rng(w) \subseteq A!Rows' /\ \A r \in Rng(w) : recorded'[r] = l
        BY <1>3, <1>4, <4>1
      <4> QED BY <1>7, <1>8, <3>1, <4>2 DEF Of, Rng, A!InOrder
    <3>2. CASE k # l
      <4>1. /\ buffers[k] \in Seq(Nat) /\ A!InOrder(buffers[k]) /\ Rng(buffers[k]) \subseteq A!Rows
            /\ Len(buffers[k]) <= MaxBuffer /\ \A r \in Rng(buffers[k]) : recorded[r] = k
        BY <1>2 DEF LogTyped, Good, Of
      <4>2. Rng(buffers[k]) \subseteq A!Rows' /\ \A r \in Rng(buffers[k]) : recorded'[r] = k
        BY <1>3, <4>1
      <4> QED BY <1>8, <3>2, <4>1, <4>2 DEF Of, Rng, A!InOrder
    <3> QED BY <3>1, <3>2
  <2>2. buffers' = [k \in A!Logs |-> buffers'[k]]
    BY <1>1, <1>2 DEF LogTyped, Good
  <2> QED BY <1>8, <2>1, <2>2 DEF Good
<1>13. Flying(flight, buffers)'
  <2>1. Flying(flight, buffers) /\ flight' = flight
    BY <1>1, <1>2 DEF LogTyped
  <2>2. Of(flight.rows, flight.log)'
    <3>1. /\ flight.rows \in Seq(Nat) /\ A!InOrder(flight.rows) /\ Rng(flight.rows) \subseteq A!Rows
          /\ \A r \in Rng(flight.rows) : recorded[r] = flight.log
      BY <2>1 DEF Flying, Of
    <3>2. Rng(flight.rows) \subseteq A!Rows' /\ \A r \in Rng(flight.rows) : recorded'[r] = flight.log
      BY <1>3, <3>1
    <3> QED BY <2>1, <3>1, <3>2 DEF Of, Rng, A!InOrder
  <2>3. flight.log # "none" => Before(flight.rows, buffers'[flight.log])
    <3>1. SUFFICES ASSUME flight.log # "none" PROVE Before(flight.rows, buffers'[flight.log])
      OBVIOUS
    <3>2. flight.log \in A!Logs /\ Before(flight.rows, buffers[flight.log]) /\ Rng(flight.rows) \subseteq A!Rows
      BY <2>1, <3>1 DEF Flying, Of
    <3>3. CASE flight.log = l
      BY <1>5, <1>6, <1>7, <1>8, <3>2, <3>3 DEF Before
    <3>4. CASE flight.log # l
      BY <1>8, <3>2, <3>4
    <3> QED BY <3>3, <3>4
  <2> QED BY <2>1, <2>2, <2>3 DEF Flying, Before, Rng
<1>14. LogTyped'
  <2>1. \A r \in 1 .. MaxRecorded : r > n => stored[r] = 0
    BY <1>2, <1>3 DEF LogTyped, n
  <2>2. dropped' \in Nat /\ unsure' \in Nat /\ squeezed' \subseteq A!Rows' /\ owed' \subseteq A!Rows'
    BY <1>1, <1>2, <1>3, <1>10 DEF LogTyped
  <2>3. squeezed' \cap Mem' = {}
    BY <1>1, <1>2, <1>3, <1>9 DEF LogTyped
  <2>4. Len(recorded') <= MaxRecorded
    BY <1>3 DEF Bounds
  <2> QED BY <1>1, <1>2, <1>3, <1>12, <1>13, <2>1, <2>2, <2>3, <2>4 DEF LogTyped
<1>15. stored[n] = 0 /\ unsure \in Nat
  BY <1>2, <1>3 DEF LogTyped, n
<1>16. StoredOnce'
  <2>1. ASSUME NEW r \in A!Rows'
        PROVE  stored'[r] <= IF recorded'[r] = "writes" THEN 1 ELSE IF r \in Mem' THEN unsure' ELSE 1 + unsure'
    <3>1. CASE r = n
      BY <1>1, <1>15, <3>1
    <3>2. CASE r \in A!Rows /\ r # n
      <4>1. stored[r] <= IF recorded[r] = "writes" THEN 1 ELSE IF r \in Mem THEN unsure ELSE 1 + unsure
        BY <3>2 DEF LogInv, StoredOnce
      <4>2. r \in Mem' => r \in Mem
        BY <1>9, <3>2
      <4>3. stored[r] \in Nat /\ recorded'[r] = recorded[r]
        BY <1>2, <1>3, <3>2 DEF LogTyped
      <4> QED BY <1>1, <1>15, <4>1, <4>2, <4>3
    <3> QED BY <1>3, <3>1, <3>2
  <2>2. unsure' = 0 => \A r \in Mem' : stored'[r] = 0
    BY <1>1, <1>9, <1>15 DEF LogInv, StoredOnce
  <2> QED BY <2>1, <2>2 DEF StoredOnce
<1>17. Tally'
  <2>1. CASE Cut(s) = {} /\ dropped' = dropped
    <3>1. Lost' = Lost
      BY <1>1, <1>2, <1>3, <1>9, <2>1 DEF Lost
    <3> QED BY <1>1, <2>1, <3>1 DEF LogInv, Tally
  <2>2. ASSUME dropped' = dropped + 1, NEW c \in Rng(s), Cut(s) = {c} PROVE Tally'
    <3>1. c \in Mem \cup {n} /\ c \notin Lost /\ c \notin squeezed /\ c \in A!Rows'
      BY <1>2, <1>3, <1>11, <2>2 DEF Lost, LogTyped
    <3>2. Lost' = IF stored[c] = 0 THEN Lost \cup {c} ELSE Lost
      <4>1. Lost' = {r \in (A!Rows \cup {n}) \ (squeezed \cup ((Mem \cup {n}) \ {c})) : stored[r] = 0}
        BY <1>1, <1>3, <1>9, <2>2 DEF Lost
      <4> QED BY <1>2, <1>3, <3>1, <4>1 DEF Lost
    <3>3. unsure = 0 => stored[c] = 0
      BY <1>15, <3>1 DEF LogInv, StoredOnce
    <3>4. Cardinality(Lost \cup {c}) = Cardinality(Lost) + 1
      BY <1>2, <3>1, FS_AddElement
    <3>5. dropped \in Nat
      BY <1>2 DEF LogTyped
    <3> QED BY <1>1, <1>2, <2>2, <3>2, <3>3, <3>4, <3>5 DEF LogInv, Tally
  <2> QED BY <1>10, <2>1, <2>2
<1>18. Paid'
  <2>1. running' = "gone" => owed' \cap Mem' = {}
    BY <1>1
  <2>2. flight'.log = "calls" => owed' \cap Rng(buffers'["writes"]) = {}
    <3>1. flight.log = "calls" => owed \cap Rng(buffers["writes"]) = {}
      BY DEF LogInv, Paid
    <3>2. n \notin owed
      BY <1>2, <1>3 DEF LogTyped
    <3>3. Rng(buffers'["writes"]) \subseteq Rng(buffers["writes"]) \cup {n}
      <4>1. CASE l = "writes"
        BY <1>6, <1>7, <1>8, <4>1
      <4>2. CASE l # "writes"
        BY <1>8, <4>2 DEF A!Logs
      <4> QED BY <4>1, <4>2
    <3> QED BY <1>1, <3>1, <3>2, <3>3
  <2> QED BY <2>1, <2>2 DEF Paid, Rng
<1> QED BY <1>14, <1>16, <1>17, <1>18 DEF LogInv

(* A batch put back stands before what was recorded meanwhile; what the cap then costs is known. *)
LEMMA InsertFailsStays ==
  ASSUME LogInv, Bounds, A!InsertFails
  PROVE  LogInv'
<1> DEFINE l == flight.log
           whole == flight.rows \o buffers[l]
           w == A!Newest(whole)
           b == [buffers EXCEPT ![l] = w]
           ls == IF l = "writes" THEN {"calls"} ELSE {}
<1>1. /\ flight # A!Quiet /\ A!Onward(b, ls) /\ squeezed' = squeezed \cup Cut(whole)
      /\ owed' = {} /\ UNCHANGED <<recorded, dropped>>
      /\ \/ stored' = stored /\ unsure' = unsure
         \/ stored' = A!Inserted /\ unsure' = unsure + 1
  BY DEF A!InsertFails, A!PutBack, Cut
<1>2. LogTyped /\ ls \in SUBSET A!Logs /\ l \in A!Logs
  BY <1>1 DEF LogInv, A!Logs, LogTyped, Flying
<1>3. /\ A!Rows = 1 .. Len(recorded) /\ Len(recorded) \in Nat /\ A!Rows \subseteq 1 .. MaxRecorded
      /\ Mem \subseteq A!Rows /\ A!Rows' = A!Rows /\ unsure \in Nat /\ A!Rows \subseteq Nat
  BY <1>1, <1>2, RowsAre DEF A!Rows, LogTyped
<1>4. /\ buffers[l] \in Seq(Nat) /\ A!InOrder(buffers[l]) /\ Rng(buffers[l]) \subseteq A!Rows
      /\ \A r \in Rng(buffers[l]) : recorded[r] = l
      /\ flight.rows \in Seq(Nat) /\ A!InOrder(flight.rows) /\ Rng(flight.rows) \subseteq A!Rows
      /\ \A r \in Rng(flight.rows) : recorded[r] = l
      /\ Before(flight.rows, buffers[l])
  BY <1>1, <1>2 DEF LogTyped, Good, Of, Flying, A!Logs
<1>5. whole \in Seq(Nat) /\ A!InOrder(whole) /\ Rng(whole) = Rng(flight.rows) \cup Rng(buffers[l])
  BY <1>4, Joins
<1> HIDE DEF whole
<1>6. /\ w \in Seq(Nat) /\ A!InOrder(w) /\ Len(w) <= MaxBuffer
      /\ Rng(whole) = Rng(w) \cup Cut(whole) /\ Rng(w) \cap Cut(whole) = {}
  BY <1>5, NewestKept
<1> HIDE DEF w
<1>7. DOMAIN b = A!Logs /\ b[l] = w /\ \A k \in A!Logs : k # l => b[k] = buffers[k]
  BY <1>2 DEF LogTyped, Good
<1>8. Good(b)
  <2>1. Of(w, l)
    BY <1>4, <1>5, <1>6 DEF Of
  <2>2. b = [k \in A!Logs |-> b[k]]
    BY <1>2 DEF LogTyped, Good
  <2> QED BY <1>2, <1>6, <1>7, <2>1, <2>2 DEF LogTyped, Good
<1> HIDE DEF b, ls, l
<1>9. /\ Good(buffers)' /\ Flying(flight, buffers)' /\ Rng(b["writes"]) \cup Rng(b["calls"]) = Mem'
  BY <1>1, <1>2, <1>8, GoesOn
<1>10. Mem' = Mem \ Cut(whole) /\ Cut(whole) \subseteq Mem
  <2>1. ASSUME NEW k \in A!Logs, k # l PROVE Rng(buffers[k]) \cap Cut(whole) = {}
    <3>1. \A r \in Rng(buffers[k]) : recorded[r] = k
      BY <1>2 DEF LogTyped, Good, Of
    <3>2. \A r \in Cut(whole) : recorded[r] = l
      BY <1>4, <1>5, <1>6
    <3> QED BY <2>1, <3>1, <3>2
  <2>2. CASE l = "writes"
    <3>1. b["calls"] = buffers["calls"] /\ Rng(buffers["calls"]) \cap Cut(whole) = {}
      BY <1>7, <2>1, <2>2 DEF A!Logs
    <3> QED BY <1>5, <1>6, <1>7, <1>9, <2>2, <3>1 DEF Mem
  <2>3. CASE l = "calls"
    <3>1. b["writes"] = buffers["writes"] /\ Rng(buffers["writes"]) \cap Cut(whole) = {}
      BY <1>7, <2>1, <2>3 DEF A!Logs
    <3> QED BY <1>5, <1>6, <1>7, <1>9, <2>3, <3>1 DEF Mem
  <2> QED BY <1>2, <2>2, <2>3 DEF A!Logs
<1>11. /\ A!Inserted \in [1 .. MaxRecorded -> Nat]
       /\ \A r \in 1 .. MaxRecorded : A!Inserted[r] = IF r \in Rng(flight.rows)
                                                   THEN IF l = "writes" THEN 1 ELSE stored[r] + 1
                                                   ELSE stored[r]
  BY <1>2, InsertedIs DEF l
<1>12. Rng(flight.rows) \subseteq Mem
  BY DEF Mem
<1>13. \A r \in A!Rows : stored[r] \in Nat
  BY <1>2, <1>3 DEF LogTyped
<1>14. stored' \in [1 .. MaxRecorded -> Nat] /\ unsure' \in Nat
  BY <1>1, <1>2, <1>3, <1>11 DEF LogTyped
<1>15. LogTyped'
  <2>1. \A r \in 1 .. MaxRecorded : r > Len(recorded) => stored'[r] = 0
    <3> SUFFICES ASSUME NEW r \in 1 .. MaxRecorded, r > Len(recorded) PROVE stored'[r] = 0
      OBVIOUS
    <3>1. stored[r] = 0
      BY <1>2 DEF LogTyped
    <3>2. r \notin Rng(flight.rows)
      BY <1>3, <1>12
    <3> QED BY <1>1, <1>11, <3>1, <3>2
  <2>2. squeezed' \cap Mem' = {} /\ squeezed' \subseteq A!Rows
    BY <1>1, <1>2, <1>3, <1>10 DEF LogTyped
  <2> QED BY <1>1, <1>2, <1>3, <1>9, <1>14, <2>1, <2>2 DEF LogTyped
<1>16. StoredOnce'
  <2>1. ASSUME NEW r \in A!Rows
        PROVE  stored'[r] <= IF recorded[r] = "writes" THEN 1 ELSE IF r \in Mem' THEN unsure' ELSE 1 + unsure'
    <3>1. stored[r] <= IF recorded[r] = "writes" THEN 1 ELSE IF r \in Mem THEN unsure ELSE 1 + unsure
      BY DEF LogInv, StoredOnce
    <3>2. CASE stored' = stored /\ unsure' = unsure
      BY <1>3, <1>10, <1>13, <3>1, <3>2
    <3>3. CASE stored' = A!Inserted /\ unsure' = unsure + 1 /\ r \in Rng(flight.rows)
      <4>1. recorded[r] = l /\ r \in Mem /\ stored'[r] = IF l = "writes" THEN 1 ELSE stored[r] + 1
        BY <1>3, <1>4, <1>11, <1>12, <3>3
      <4> QED BY <1>3, <1>13, <3>1, <3>3, <4>1
    <3>4. CASE stored' = A!Inserted /\ unsure' = unsure + 1 /\ r \notin Rng(flight.rows)
      <4>1. stored'[r] = stored[r] /\ (r \in Mem' => r \in Mem)
        BY <1>3, <1>10, <1>11, <3>4
      <4> QED BY <1>3, <1>13, <3>1, <3>4, <4>1
    <3> QED BY <1>1, <3>2, <3>3, <3>4
  <2>2. unsure' = 0 => \A r \in Mem' : stored'[r] = 0
    BY <1>1, <1>3, <1>10 DEF LogInv, StoredOnce
  <2> QED BY <1>1, <1>3, <2>1, <2>2 DEF StoredOnce
<1>17. Tally'
  <2>1. Lost' = {r \in A!Rows \ (squeezed \cup Mem) : stored'[r] = 0}
    BY <1>1, <1>3, <1>10 DEF Lost
  <2>2. \A r \in A!Rows \ Mem : stored'[r] = stored[r]
    BY <1>1, <1>3, <1>11, <1>12
  <2>3. Lost' = Lost
    BY <2>1, <2>2 DEF Lost
  <2> QED BY <1>1, <1>3, <2>3 DEF LogInv, Tally
<1>18. Paid'
  BY <1>1 DEF Paid, Rng
<1> QED BY <1>15, <1>16, <1>17, <1>18 DEF LogInv

LEMMA TerminateStays ==
  ASSUME LogInv, Bounds, A!Terminate
  PROVE  LogInv'
<1>1. UNCHANGED <<recorded, stored, dropped, squeezed, unsure>> /\ owed' = IF flight = A!Quiet THEN A!Rows ELSE {}
  BY DEF A!Terminate
<1>2. LogTyped /\ Good(buffers) /\ Flying(flight, buffers)
  BY DEF LogInv, LogTyped
<1>3. CASE flight = A!Quiet /\ A!Due(buffers, A!Logs) # {}
  <2> DEFINE l == A!First(A!Due(buffers, A!Logs))
  <2>1. l \in A!Logs /\ buffers[l] # <<>> /\ (l = "calls" => buffers["writes"] = <<>>)
    BY <1>3 DEF A!First, A!Due, A!Logs
  <2>2. A!Send(buffers, l) /\ running' = "stopping"
    BY <1>3 DEF A!Terminate
  <2> HIDE DEF l
  <2>3. /\ Good(buffers)' /\ Flying(flight, buffers)' /\ flight'.log = l
        /\ Rng(buffers["writes"]) \cup Rng(buffers["calls"]) = Mem'
        /\ \A k \in A!Logs : k # l => buffers'[k] = buffers[k]
    BY <1>1, <1>2, <2>1, <2>2, Sends
  <2>4. Mem' = Mem
    <3>1. Rng(flight.rows) = {}
      BY <1>3 DEF A!Quiet, Rng
    <3> QED BY <2>3, <3>1 DEF Mem
  <2>5. LogTyped' /\ StoredOnce' /\ Tally'
    BY <1>1, <2>3, <2>4, Moves
  <2>6. Paid'
    <3>1. flight'.log = "calls" => buffers'["writes"] = <<>>
      BY <2>1, <2>3 DEF A!Logs
    <3> QED BY <2>2, <3>1 DEF Paid, Rng
  <2> QED BY <2>5, <2>6 DEF LogInv
<1>4. CASE ~(flight = A!Quiet /\ A!Due(buffers, A!Logs) # {})
  <2>1. UNCHANGED <<buffers, flight>>
    BY <1>4 DEF A!Terminate
  <2>2. Mem' = Mem
    BY <2>1 DEF Mem, Rng
  <2>3. Good(buffers)' /\ Flying(flight, buffers)'
    BY <1>1, <1>2, <2>1 DEF Good, Flying, Of, A!InOrder, Rng, Before, A!Rows
  <2>4. LogTyped' /\ StoredOnce' /\ Tally'
    BY <1>1, <2>2, <2>3, Moves
  <2>5. owed' # {} => Mem' = {} /\ flight'.log = "none"
    <3>1. SUFFICES ASSUME owed' # {} PROVE Mem' = {} /\ flight'.log = "none"
      OBVIOUS
    <3>2. flight = A!Quiet /\ buffers["writes"] = <<>> /\ buffers["calls"] = <<>>
      BY <1>1, <1>4, <3>1 DEF A!Due, A!Logs
    <3> QED BY <2>1, <2>2, <3>2 DEF Mem, Rng, A!Quiet
  <2>6. Paid'
    BY <2>5 DEF Paid
  <2> QED BY <2>4, <2>6 DEF LogInv
<1> QED BY <1>3, <1>4

LEMMA TimeUpStays ==
  ASSUME LogInv, Bounds, A!TimeUp
  PROVE  LogInv'
<1>1. UNCHANGED <<recorded, buffers, flight, stored, dropped, squeezed, unsure>> /\ owed' = {}
  BY DEF A!TimeUp
<1>2. Mem' = Mem
  BY <1>1 DEF Mem, Rng
<1>3. Good(buffers)' /\ Flying(flight, buffers)'
  BY <1>1 DEF LogInv, LogTyped, Good, Flying, Of, A!InOrder, Rng, Before, A!Rows
<1>4. LogTyped' /\ StoredOnce' /\ Tally'
  BY <1>1, <1>2, <1>3, Moves
<1>5. Paid'
  BY <1>1 DEF Paid
<1> QED BY <1>4, <1>5 DEF LogInv

LEMMA LogInit ==
  ASSUME A!Init, Bounds
  PROVE  LogInv
<1>1. /\ recorded = <<>> /\ buffers = [l \in A!Logs |-> <<>>] /\ flight = A!Quiet
      /\ stored = [r \in 1 .. MaxRecorded |-> 0] /\ dropped = 0 /\ squeezed = {}
      /\ unsure = 0 /\ running = "up" /\ owed = {}
  BY DEF A!Init
<1>2. A!Rows = {} /\ Mem = {} /\ Lost = {}
  BY <1>1 DEF A!Rows, Mem, Lost, Rng, A!Quiet, A!Logs
<1>3. Good(buffers) /\ Flying(flight, buffers)
  BY <1>1 DEF Good, Flying, Of, Rng, A!InOrder, A!Quiet, Bounds, Before, A!Logs
<1>4. LogTyped
  BY <1>1, <1>2, <1>3 DEF LogTyped, Bounds
<1>5. Tally
  BY <1>1, <1>2, FS_EmptySet DEF Tally
<1> QED BY <1>1, <1>2, <1>4, <1>5 DEF LogInv, StoredOnce, Paid

LEMMA LogNext ==
  ASSUME LogInv, Bounds, [A!Next]_(A!logVars)
  PROVE  LogInv'
<1>1. CASE UNCHANGED A!logVars
  <2>1. UNCHANGED <<recorded, buffers, flight, stored, dropped, squeezed, unsure, running, owed>>
    BY <1>1 DEF A!logVars
  <2>2. Mem' = Mem
    BY <2>1 DEF Mem, Rng
  <2>3. Good(buffers)' /\ Flying(flight, buffers)' /\ owed' \subseteq A!Rows
    BY <2>1 DEF LogInv, LogTyped, Good, Flying, Of, A!InOrder, Rng, Before, A!Rows
  <2>4. LogTyped' /\ StoredOnce' /\ Tally'
    BY <2>1, <2>2, <2>3, Moves
  <2>5. Paid'
    BY <2>1, <2>2 DEF LogInv, Paid, Rng
  <2> QED BY <2>4, <2>5 DEF LogInv
<1> QED BY <1>1, RecordStays, FlushStays, InsertStays, InsertFailsStays, TerminateStays, TimeUpStays DEF A!Next

(* Held is being in memory. *)
LEMMA HeldIs ==
  ASSUME LogTyped, Bounds, NEW r
  PROVE  A!Held(r) <=> r \in Mem
<1>1. ASSUME NEW l \in A!Logs, NEW i \in DOMAIN buffers[l] PROVE i \in 1 .. MaxBuffer
  <2>1. buffers[l] \in Seq(Nat) /\ Len(buffers[l]) <= MaxBuffer
    BY DEF LogTyped, Good, Of
  <2> QED BY <2>1 DEF Bounds
<1>2. (\E l \in A!Logs, i \in 1 .. MaxBuffer : i \in DOMAIN buffers[l] /\ buffers[l][i] = r)
      <=> \E l \in A!Logs : r \in Rng(buffers[l])
  BY <1>1 DEF Rng
<1> QED BY <1>2 DEF A!Held, Mem, Rng, A!Logs

(* Counting means the same there as here. *)
LEMMA CountIs == \A rows : A!Cardinality(rows) = Cardinality(rows)
  BY DEF A!Cardinality, Cardinality

LEMMA LogStands ==
  ASSUME Bounds, LogInv
  PROVE  A!TypeOK /\ Accounted
<1>1. LogTyped /\ IsFiniteSet(Lost) /\ Cardinality(Lost) \in Nat /\ dropped \in Nat /\ unsure \in Nat
      /\ Mem \subseteq A!Rows
  BY RowsAre DEF LogInv, LogTyped
<1>2. {r \in A!Unstored : ~A!Held(r)} = Lost
  BY <1>1, HeldIs DEF A!Unstored, Lost
<1>3. running = "gone" => Cardinality(A!Unstored \cap owed) <= dropped
  <2>1. SUFFICES ASSUME running = "gone" PROVE Cardinality(A!Unstored \cap owed) <= dropped
    OBVIOUS
  <2>2. A!Unstored \cap owed \subseteq Lost
    BY <2>1 DEF LogInv, Paid, A!Unstored, Lost
  <2>3. Cardinality(A!Unstored \cap owed) \in Nat /\ Cardinality(A!Unstored \cap owed) <= Cardinality(Lost)
    BY <1>1, <2>2, FS_Subset, FS_CardinalityType
  <2> QED BY <1>1, <2>3 DEF LogInv, Tally
<1>4. \A r \in A!Rows : stored[r] <= IF recorded[r] = "writes" THEN 1 ELSE 1 + unsure
  <2>1. \A r \in A!Rows : stored[r] \in Nat
    BY <1>1, RowsAre DEF LogTyped
  <2> QED BY <1>1, <2>1 DEF LogInv, StoredOnce
<1>5. \A l \in A!Logs : A!InOrder(buffers[l])
  BY <1>1 DEF LogTyped, Good, Of
<1>6. Cardinality(Lost) <= dropped /\ (unsure = 0 => Cardinality(Lost) = dropped)
  BY DEF LogInv, Tally
<1>7. A!TypeOK
  BY <1>1 DEF LogInv, LogTyped, Good, Of, Flying, A!TypeOK
<1> QED BY <1>2, <1>3, <1>4, <1>5, <1>6, <1>7, CountIs DEF Accounted, A!Accounted

(* Every row recorded is accounted for, whatever batches fail, are put back or are stored though their *)
(* answer was lost, however full memory was, and whenever the process is told to stop: for any number  *)
(* of rows and outages, and any cap and size of a batch.                                               *)
THEOREM LogAccounted ==
  ASSUME Bounds
  PROVE  A!Spec => []Accounted
  BY LogStands, LogInit, LogNext, PTL DEF A!Spec

(* ------------------------------ The settings form ---------------------------- *)

DP == INSTANCE DashboardProofs
        WITH Fields <- FormFields, docs <- saved, MaxVersion <- MaxSaves,
             Defaults <- [f \in FormFields |-> IF f = "inbound" THEN "on" ELSE "off"]

(* The form here is the form there. *)
LEMMA FormIs ==
  /\ DP!Init <=> D!Init
  /\ [D!Next]_(D!vars) => [DP!Next]_(DP!vars)
  /\ DP!TypeOK <=> D!TypeOK
  /\ DP!SavesStand <=> SavesStand
<1>1. DP!SavesStand <=> SavesStand
  BY DEF SavesStand, DP!SavesStand, D!SavesStand, DP!NothingUndone, D!NothingUndone, DP!HistoryIsChain,
         D!HistoryIsChain, DP!Version, D!Version
<1>2. DP!Init <=> D!Init
  BY DEF DP!Init, D!Init, DP!Full, D!Full, DP!Shown, D!Shown, DP!Normalise, D!Normalise
<1>3. DP!Next <=> D!Next
  BY DEF DP!Next, D!Next, DP!Refresh, D!Refresh, DP!Reload, D!Reload, DP!EditField, D!EditField,
         DP!Submit, D!Submit, DP!SaveBegins, D!SaveBegins, DP!SaveEnds, D!SaveEnds, DP!SaveRollsBack,
         D!SaveRollsBack, DP!Version, D!Version, DP!Dirty, D!Dirty, DP!Shown, D!Shown, DP!Normalise,
         D!Normalise
<1>4. [D!Next]_(D!vars) => [DP!Next]_(DP!vars)
  BY <1>3 DEF D!vars, DP!vars
<1>5. DP!TypeOK <=> D!TypeOK
  BY DEF DP!TypeOK, D!TypeOK, DP!Document, D!Document, DP!Form, D!Form, DP!Full, D!Full, DP!Saved, D!Saved,
         DP!Submitted, D!Submitted
<1> QED BY <1>1, <1>2, <1>4, <1>5

(* The form keeps its invariant, and from it what was saved stands. *)
LEMMA FormKeeps ==
  ASSUME "nobody" \notin People
  PROVE  /\ D!Init => DP!IInv
         /\ DP!IInv /\ [D!Next]_(D!vars) => DP!IInv'
         /\ DP!IInv => D!TypeOK /\ SavesStand
<1>1. [f \in FormFields |-> IF f = "inbound" THEN "on" ELSE "off"] \in DP!Full
  BY DEF DP!Full
<1>2. D!Init => DP!IInv
  BY <1>1, FormIs, DP!InitIInv
<1>3. DP!IInv /\ [D!Next]_(D!vars) => DP!IInv'
  BY <1>1, FormIs, DP!NextKeeps
<1>4. DP!IInv => D!TypeOK /\ SavesStand
  BY FormIs DEF DP!IInv
<1> QED BY <1>2, <1>3, <1>4

(* What was saved stands, with the form and the fields the dashboard has: no save undoes a field *)
(* its author left alone, and the history is one chain of saves. It rests on DashboardProofs,    *)
(* whose assumptions the form's own defaults meet.                                               *)
THEOREM SavedStands ==
  ASSUME "nobody" \notin People
  PROVE  D!Spec => []SavesStand
  BY FormKeeps, PTL DEF D!Spec

(* ---------------------------------- The settings ------------------------------ *)

(* What a load brings is a version that is stored, and a document. *)
LoadsAre == /\ loads \in [MCLoads -> S!Load]
            /\ \A l \in MCLoads : loads[l].version <= S!Version
FollowInv == S!TypeOK /\ LoadsAre

(* The loads are those of containers. *)
LoadsOf == {c1, c2} \subseteq Containers

LEMMA FollowBegins ==
  ASSUME S!Init
  PROVE  FollowInv
<1>1. /\ docs \in Seq(S!Document) /\ S!Version \in Nat
  <2> DEFINE d == [f \in Lacking |-> IF f \in Lacking THEN "missing" ELSE [g \in Lacking |-> "on"][f]]
  <2>1. d \in S!Document
    BY DEF S!Document
  <2>2. docs = <<>> \/ docs = <<d>>
    BY DEF S!Init
  <2> HIDE DEF d
  <2>3. docs \in Seq(S!Document)
    <3>1. CASE docs = <<>>
      BY <3>1
    <3>2. CASE docs = <<d>>
      BY <2>1, <3>2
    <3> QED BY <2>2, <3>1, <3>2
  <2> QED BY <2>3 DEF S!Version
<1>2. [f \in Lacking |-> "on"] \in S!Document /\ [f \in Lacking |-> "on"] \in S!Full
  BY DEF S!Document, S!Full
<1>3. S!NoLoad \in S!Load /\ S!NoLoad.version = 0
  BY <1>2 DEF S!NoLoad, S!Load
<1>4. S!None \in [version : Nat, settings : S!Full] /\ S!None.version = 0
  BY <1>2 DEF S!None
<1>5. /\ up = [c \in Containers |-> "down"] /\ applied = [c \in Containers |-> S!None]
      /\ loads = [l \in MCLoads |-> S!NoLoad] /\ firsts = 0 /\ engine = 0 /\ slowed = 0
  BY DEF S!Init
<1>6. LoadsAre
  BY <1>1, <1>3, <1>5 DEF LoadsAre
<1>7. applied \in [Containers -> [version : Nat, settings : S!Full]]
      /\ \A c \in Containers : applied[c].version <= S!Version
  BY <1>1, <1>4, <1>5
<1>8. up \in [Containers -> {"down", "starting", "up"}] /\ engine \in 0 .. S!Version /\ firsts \in Nat /\ slowed \in Nat
  BY <1>1, <1>5
<1> QED BY <1>1, <1>6, <1>7, <1>8 DEF FollowInv, S!TypeOK, LoadsAre

(* One load goes on, and nothing else changes. *)
LEMMA LoadGoesOn ==
  ASSUME FollowInv, NEW l, NEW x \in S!Load, x.version <= S!Version,
         loads' = [loads EXCEPT ![l] = x], docs' = docs
  PROVE  LoadsAre'
<1>1. \A k \in MCLoads : loads'[k] = x \/ loads'[k] = loads[k]
  BY DEF FollowInv, LoadsAre
<1>2. S!Version' = S!Version
  BY DEF S!Version
<1>3. S!Load' = S!Load
  BY DEF S!Load, S!Document
<1> QED BY <1>1, <1>2, <1>3 DEF FollowInv, LoadsAre

(* The documents are stored one after the other, and what is applied is one of them. *)
LEMMA FollowKeeps ==
  ASSUME LoadsOf, FollowInv, [S!Next]_(S!vars)
  PROVE  FollowInv'
<1>0. /\ S!TypeOK /\ LoadsAre
      /\ docs \in Seq(S!Document) /\ S!Version \in Nat /\ S!Version = Len(docs)
      /\ \A l \in MCLoads : loads[l] \in S!Load /\ loads[l].version \in Nat /\ loads[l].version <= S!Version
      /\ \A l \in MCLoads : l[1] \in Containers
      /\ S!Document' = S!Document /\ S!Full' = S!Full /\ S!Load' = S!Load
  <2>1. S!TypeOK /\ LoadsAre
    BY DEF FollowInv
  <2>2. docs \in Seq(S!Document) /\ S!Version \in Nat /\ S!Version = Len(docs)
    BY <2>1 DEF S!TypeOK, S!Version
  <2>3. \A l \in MCLoads : loads[l] \in S!Load /\ loads[l].version <= S!Version
    BY <2>1 DEF LoadsAre
  <2>4. \A x \in S!Load : x.version \in Nat
    BY DEF S!Load
  <2>5. S!Document' = S!Document /\ S!Full' = S!Full /\ S!Load' = S!Load
    BY DEF S!Document, S!Full, S!Load
  <2>6. \A l \in MCLoads : l[1] \in Containers
    BY DEF MCLoads, LoadsOf
  <2> QED BY <2>1, <2>2, <2>3, <2>4, <2>5, <2>6
<1>1. ASSUME NEW d \in S!Full, S!Save(d) PROVE FollowInv'
  <2>1. d \in S!Document
    BY DEF S!Full, S!Document
  <2>2. docs' = Append(docs, d) /\ UNCHANGED <<firsts, up, applied, loads, engine, slowed>>
    BY <1>1 DEF S!Save
  <2>3. docs' \in Seq(S!Document) /\ S!Version' = S!Version + 1
    BY <1>0, <2>1, <2>2 DEF S!Version
  <2> QED BY <1>0, <2>2, <2>3 DEF FollowInv, S!TypeOK, LoadsAre
<1>2. ASSUME NEW c \in Containers, S!Start(c) PROVE FollowInv'
  <2>1. /\ up' = [up EXCEPT ![c] = "starting"] /\ loads' = [loads EXCEPT ![<<c, 1>>].pc = "read"]
        /\ UNCHANGED <<docs, firsts, applied, engine, slowed>>
    BY <1>2 DEF S!Start, S!Step
  <2>2. S!Version' = S!Version
    BY <2>1 DEF S!Version
  <2>3. \A l \in MCLoads : loads'[l] = loads[l] \/ loads'[l] = [loads[l] EXCEPT !.pc = "read"]
    BY <1>0, <2>1 DEF LoadsAre
  <2>4. \A l \in MCLoads : loads'[l] \in S!Load /\ loads'[l].version = loads[l].version
    BY <1>0, <2>3 DEF S!Load
  <2>5. loads' \in [MCLoads -> S!Load]
    BY <1>0, <2>1, <2>4 DEF LoadsAre
  <2> QED BY <1>0, <2>1, <2>2, <2>4, <2>5 DEF FollowInv, S!TypeOK, LoadsAre
<1>3. ASSUME NEW c \in Containers, S!Stop(c) PROVE FollowInv'
  <2>1. /\ up' = [up EXCEPT ![c] = "down"] /\ applied' = [applied EXCEPT ![c] = S!None]
        /\ loads' = [l \in MCLoads |-> IF l[1] = c THEN S!NoLoad ELSE loads[l]]
        /\ slowed' = slowed + 1 /\ UNCHANGED <<docs, firsts, engine>>
    BY <1>3 DEF S!Stop, S!Disturb
  <2>2. S!Version' = S!Version
    BY <2>1 DEF S!Version
  <2>3. [f \in Lacking |-> "on"] \in S!Document /\ [f \in Lacking |-> "on"] \in S!Full
    BY DEF S!Document, S!Full
  <2>4. S!NoLoad \in S!Load /\ S!NoLoad.version = 0
    BY <2>3 DEF S!NoLoad, S!Load
  <2>5. S!None \in [version : Nat, settings : S!Full] /\ S!None.version = 0
    BY <2>3 DEF S!None
  <2>6. applied' \in [Containers -> [version : Nat, settings : S!Full]]
        /\ \A k \in Containers : applied'[k].version <= S!Version
    BY <1>0, <2>1, <2>5 DEF S!TypeOK
  <2>7. LoadsAre'
    BY <1>0, <2>1, <2>2, <2>4 DEF LoadsAre
  <2> QED BY <1>0, <2>1, <2>2, <2>6, <2>7 DEF FollowInv, S!TypeOK, LoadsAre
<1>4. ASSUME NEW l \in MCLoads, S!Tick(l) PROVE FollowInv'
  <2> DEFINE x == [loads[l] EXCEPT !.pc = "read"]
  <2>1. x \in S!Load /\ x.version <= S!Version
    BY <1>0 DEF S!Load
  <2>2. loads' = [loads EXCEPT ![l] = x] /\ UNCHANGED <<docs, firsts, up, applied, engine, slowed>>
    BY <1>4 DEF S!Tick, S!Step
  <2> HIDE DEF x
  <2>3. LoadsAre' /\ S!Version' = S!Version
    BY <2>1, <2>2, LoadGoesOn DEF S!Version
  <2> QED BY <1>0, <2>2, <2>3 DEF FollowInv, S!TypeOK, LoadsAre
<1>5. ASSUME NEW l \in MCLoads, S!Read(l) PROVE FollowInv'
  <2> DEFINE x == IF docs = <<>> THEN [loads[l] EXCEPT !.pc = "insert"]
                  ELSE [pc |-> "apply", version |-> S!Version, data |-> S!Doc]
  <2>1. x \in S!Load /\ x.version <= S!Version
    <3>1. CASE docs = <<>>
      BY <1>0, <3>1 DEF S!Load
    <3>2. CASE docs # <<>>
      <4>1. S!Doc \in S!Document
        BY <1>0, <3>2 DEF S!Doc
      <4> QED BY <1>0, <3>2, <4>1 DEF S!Load
    <3> QED BY <3>1, <3>2
  <2>2. loads' = [loads EXCEPT ![l] = x] /\ UNCHANGED <<docs, firsts, up, applied, engine, slowed>>
    BY <1>0, <1>5 DEF S!Read, LoadsAre
  <2> HIDE DEF x
  <2>3. LoadsAre' /\ S!Version' = S!Version
    BY <2>1, <2>2, LoadGoesOn DEF S!Version
  <2> QED BY <1>0, <2>2, <2>3 DEF FollowInv, S!TypeOK, LoadsAre
<1>6. ASSUME NEW l \in MCLoads, S!Insert(l) PROVE FollowInv'
  <2> DEFINE env == [f \in Lacking |-> "on"]
             x == [pc |-> "history", version |-> Len(docs'), data |-> docs'[Len(docs')]]
  <2>1. docs' = (IF docs = <<>> THEN <<env>> ELSE docs) /\ loads' = [loads EXCEPT ![l] = x]
        /\ UNCHANGED <<firsts, up, applied, engine, slowed>>
    BY <1>6 DEF S!Insert
  <2>2. env \in S!Document
    BY DEF S!Document
  <2> HIDE DEF env
  <2>3. docs' \in Seq(S!Document) /\ Len(docs') \in Nat \ {0} /\ S!Version <= Len(docs') /\ S!Version' = Len(docs')
    BY <1>0, <2>1, <2>2 DEF S!Version
  <2>4. x \in S!Load /\ x.version = Len(docs')
    BY <2>3 DEF S!Load
  <2> HIDE DEF x
  <2>5. LoadsAre'
    <3>1. \A k \in MCLoads : loads'[k] = x \/ loads'[k] = loads[k]
      BY <1>0, <2>1 DEF LoadsAre
    <3> QED BY <1>0, <2>1, <2>3, <2>4, <3>1 DEF LoadsAre
  <2> QED BY <1>0, <2>1, <2>3, <2>5 DEF FollowInv, S!TypeOK, LoadsAre
<1>7. ASSUME NEW l \in MCLoads, S!FirstHistory(l) PROVE FollowInv'
  <2> DEFINE x == [loads[l] EXCEPT !.pc = "apply"]
  <2>1. x \in S!Load /\ x.version <= S!Version
    BY <1>0 DEF S!Load
  <2>2. loads' = [loads EXCEPT ![l] = x] /\ firsts' = firsts + 1 /\ UNCHANGED <<docs, up, applied, engine, slowed>>
    BY <1>7 DEF S!FirstHistory, S!Step
  <2> HIDE DEF x
  <2>3. LoadsAre' /\ S!Version' = S!Version
    BY <2>1, <2>2, LoadGoesOn DEF S!Version
  <2> QED BY <1>0, <2>2, <2>3 DEF FollowInv, S!TypeOK, LoadsAre
<1>8. ASSUME NEW l \in MCLoads, S!Apply(l) PROVE FollowInv'
  <2> DEFINE c == l[1]
             nx == IF loads[l].version = applied[c].version THEN applied[c]
                     ELSE [version |-> loads[l].version,
                           settings |-> S!Normalise(loads[l].data, applied[c].settings)]
             x == [S!NoLoad EXCEPT !.pc = "beat", !.version = nx.version]
  <2>1. applied[c] \in [version : Nat, settings : S!Full] /\ applied[c].version <= S!Version /\ c \in Containers
    BY <1>0 DEF S!TypeOK
  <2>2. nx \in [version : Nat, settings : S!Full] /\ nx.version <= S!Version
    <3>1. S!Normalise(loads[l].data, applied[c].settings) \in S!Full
      <4>1. loads[l].data \in S!Document /\ applied[c].settings \in S!Full
        BY <1>0, <2>1 DEF S!Load
      <4> QED BY <4>1 DEF S!Normalise, S!Document, S!Full
    <3> QED BY <1>0, <2>1, <3>1
  <2>3. applied' = [applied EXCEPT ![c] = nx] /\ loads' = [loads EXCEPT ![l] = x]
        /\ UNCHANGED <<docs, firsts, up, engine, slowed>>
    BY <1>8 DEF S!Apply, S!Beating
  <2> HIDE DEF nx, c
  <2>4. x \in S!Load /\ x.version <= S!Version
    <3>1. [f \in Lacking |-> "on"] \in S!Document
      BY DEF S!Document
    <3> QED BY <2>2, <3>1 DEF S!NoLoad, S!Load
  <2> HIDE DEF x
  <2>5. LoadsAre' /\ S!Version' = S!Version
    BY <2>3, <2>4, LoadGoesOn DEF S!Version
  <2>6. applied' \in [Containers -> [version : Nat, settings : S!Full]]
        /\ \A k \in Containers : applied'[k].version <= S!Version
    BY <1>0, <2>1, <2>2, <2>3 DEF S!TypeOK
  <2> QED BY <1>0, <2>3, <2>5, <2>6 DEF FollowInv, S!TypeOK, LoadsAre
<1>9. ASSUME NEW l \in MCLoads, S!Beat(l) PROVE FollowInv'
  <2>1. [f \in Lacking |-> "on"] \in S!Document
    BY DEF S!Document
  <2>2. S!NoLoad \in S!Load /\ S!NoLoad.version <= S!Version
    BY <1>0, <2>1 DEF S!NoLoad, S!Load
  <2>3. loads' = [loads EXCEPT ![l] = S!NoLoad] /\ engine' = loads[l].version /\ up' = [up EXCEPT ![l[1]] = "up"]
        /\ UNCHANGED <<docs, firsts, applied, slowed>>
    BY <1>9 DEF S!Beat
  <2>4. LoadsAre' /\ S!Version' = S!Version
    BY <2>2, <2>3, LoadGoesOn DEF S!Version
  <2> QED BY <1>0, <2>3, <2>4 DEF FollowInv, S!TypeOK, LoadsAre
<1>10. ASSUME NEW l \in MCLoads, S!QueryFails(l) PROVE FollowInv'
  <2>1. [f \in Lacking |-> "on"] \in S!Document
    BY DEF S!Document
  <2> DEFINE x == IF loads[l].pc = "beat" THEN S!NoLoad
                  ELSE [S!NoLoad EXCEPT !.pc = "beat", !.version = applied[l[1]].version]
  <2>2. x \in S!Load /\ x.version <= S!Version
    <3>1. applied[l[1]].version \in Nat /\ applied[l[1]].version <= S!Version
      BY <1>0 DEF S!TypeOK
    <3>2. S!NoLoad \in S!Load /\ S!NoLoad.version = 0
      BY <2>1 DEF S!NoLoad, S!Load
    <3>3. CASE loads[l].pc = "beat"
      BY <1>0, <3>2, <3>3
    <3>4. CASE loads[l].pc # "beat"
      BY <2>1, <3>1, <3>4 DEF S!NoLoad, S!Load
    <3> QED BY <3>3, <3>4
  <2>3. loads' = [loads EXCEPT ![l] = x] /\ (up' = [up EXCEPT ![l[1]] = "up"] \/ up' = up) /\ slowed' = slowed + 1
        /\ UNCHANGED <<docs, firsts, applied, engine>>
    BY <1>10 DEF S!QueryFails, S!Disturb, S!Beating
  <2> HIDE DEF x
  <2>4. LoadsAre' /\ S!Version' = S!Version
    BY <2>2, <2>3, LoadGoesOn DEF S!Version
  <2>5. up' \in [Containers -> {"down", "starting", "up"}] /\ slowed' \in Nat
    BY <1>0, <2>3 DEF S!TypeOK
  <2> QED BY <1>0, <2>3, <2>4, <2>5 DEF FollowInv, S!TypeOK, LoadsAre
<1>11. CASE UNCHANGED S!vars
  BY <1>11 DEF S!vars, FollowInv, S!TypeOK, LoadsAre, S!Version
<1> QED BY <1>1, <1>2, <1>3, <1>4, <1>5, <1>6, <1>7, <1>8, <1>9, <1>10, <1>11 DEF S!Next, S!Loading

(* However loads overlap, fail or outlive their container: what a container runs by, and what is    *)
(* reported of it, is a version that was stored. The environment's document is written only once,   *)
(* so that no version a load has in hand goes away.                                                 *)
THEOREM StoredIsFollowed ==
  ASSUME LoadsOf
  PROVE  S!Spec => []S!TypeOK
<1>1. FollowInv => S!TypeOK
  BY DEF FollowInv
<1> QED BY <1>1, FollowBegins, FollowKeeps, PTL DEF S!Spec

(* ---------------------------------- Whole lists ------------------------------- *)

(* The pass that runs, and who waits for it or for the next. *)
PassIs ==
  /\ zlist \in [rows : SUBSET Listed, edits : Nat] /\ errors \in Nat
  /\ current \in [step : {"none", "reading", "writing"}, read : SUBSET Listed, at : Nat,
                  todo : SUBSET Listed, failed : Nat]
  /\ current.at <= zlist.edits /\ current.failed <= errors
  /\ current.step = "none" => current = K!NoPass
  /\ current.step # "writing" => current.read = {} /\ current.todo = {}
  /\ asked \in [Askers -> Nat] /\ answers \in [Askers -> [state : {"none", "waiting", "done", "failed"}, at : Nat]]
  /\ \A a \in Askers : asked[a] <= zlist.edits /\ answers[a].at <= zlist.edits
  /\ waiting \cup serving \subseteq {a \in Askers : answers[a].state = "waiting"}

(* Where no call failed, what a pass has written stands, and a pass that read the list as it is now *)
(* read all of it. A pass reads after those before it.                                              *)
PassReads ==
  /\ current.step = "writing" /\ errors = 0 => current.read \ current.todo \subseteq alive
  /\ current.step = "writing" /\ errors = 0 /\ current.at = zlist.edits => current.read = zlist.rows
  /\ current.step = "writing" => \A a \in serving : asked[a] <= current.at
  /\ current.step = "writing" => \A a \in Askers : answers[a].at <= current.at

Answered == \A a \in Askers : K!Fresh(a) /\ K!Follows(a)

ListInv == K!TypeOK /\ PassIs /\ PassReads /\ Answered

LEMMA ListBegins ==
  ASSUME K!Init
  PROVE  ListInv
<1>1. /\ mapped \subseteq Listed /\ alive = mapped /\ zlist = [rows |-> mapped, edits |-> 0]
      /\ current = K!NoPass /\ waiting = {} /\ serving = {} /\ errors = 0
      /\ asked = [a \in Askers |-> 0] /\ answers = [a \in Askers |-> [state |-> "none", at |-> 0]]
  BY DEF K!Init
<1>2. PassIs
  BY <1>1 DEF PassIs, K!NoPass
<1> QED BY <1>1, <1>2 DEF ListInv, K!TypeOK, PassReads, Answered, K!Fresh, K!Follows, K!NoPass

(* An ask is answered by a pass that has not read yet. *)
LEMMA AskStays ==
  ASSUME ListInv, NEW a \in Askers, K!Ask(a)
  PROVE  ListInv'
<1>1. /\ answers[a].state = "none" /\ answers' = [answers EXCEPT ![a].state = "waiting"]
      /\ asked' = [asked EXCEPT ![a] = zlist.edits]
      /\ UNCHANGED <<removal, zlist, mapped, alive, errors>>
      /\ \/ current = K!NoPass /\ current' = K!Pass /\ serving' = {a} /\ waiting' = waiting
         \/ current # K!NoPass /\ waiting' = waiting \cup {a} /\ UNCHANGED <<current, serving>>
  BY DEF K!Ask, K!Join
<1>2. K!TypeOK /\ PassIs /\ PassReads /\ Answered
  BY DEF ListInv
<1>3. /\ a \notin waiting \cup serving
      /\ asked' \in [Askers -> Nat] /\ asked'[a] = zlist.edits
      /\ answers' \in [Askers -> [state : {"none", "waiting", "done", "failed"}, at : Nat]]
      /\ answers'[a].state = "waiting" /\ answers'[a].at = answers[a].at
      /\ \A b \in Askers : b # a => asked'[b] = asked[b] /\ answers'[b] = answers[b]
  BY <1>1, <1>2 DEF PassIs
<1>4. Answered'
  BY <1>1, <1>2, <1>3 DEF Answered, K!Fresh, K!Follows, K!Refused, K!TooMany, K!Gone, K!Quarter
<1>5. CASE current = K!NoPass
  <2>1. current' = K!Pass /\ serving' = {a} /\ waiting' = waiting /\ waiting = {}
    BY <1>1, <1>2, <1>5 DEF K!TypeOK
  <2>2. /\ K!Pass \in [step : {"none", "reading", "writing"}, read : SUBSET Listed, at : Nat,
                       todo : SUBSET Listed, failed : Nat]
        /\ K!Pass.step = "reading" /\ K!Pass.read = {} /\ K!Pass.todo = {} /\ K!Pass.at = 0 /\ K!Pass.failed = 0
    BY DEF K!Pass, K!NoPass
  <2>3. PassIs'
    BY <1>1, <1>2, <1>3, <2>1, <2>2 DEF PassIs
  <2>4. K!TypeOK'
    <3>1. K!Pass # K!NoPass
      BY <2>2 DEF K!NoPass
    <3> QED BY <1>1, <1>2, <2>1, <2>2, <3>1 DEF K!TypeOK
  <2> QED BY <1>4, <2>1, <2>2, <2>3, <2>4 DEF ListInv, PassReads
<1>6. CASE current # K!NoPass
  <2>1. waiting' = waiting \cup {a} /\ UNCHANGED <<current, serving>>
    BY <1>1, <1>6
  <2>2. PassIs'
    BY <1>1, <1>2, <1>3, <2>1 DEF PassIs
  <2>3. K!TypeOK'
    BY <1>1, <1>2, <1>3, <1>6, <2>1 DEF K!TypeOK
  <2>4. PassReads'
    BY <1>1, <1>2, <1>3, <2>1 DEF PassReads
  <2> QED BY <1>4, <2>2, <2>3, <2>4 DEF ListInv
<1> QED BY <1>5, <1>6

(* A pass is over, and the next begins: what is answered was asked before it read. *)
LEMMA PassEnds ==
  ASSUME ListInv, NEW state \in {"done", "failed"}, K!Over(state), current.step = "writing" \/ state = "failed",
         UNCHANGED <<removal, zlist, asked>>,
         alive' \subseteq mapped', mapped' \subseteq Listed, errors' \in Nat, errors <= errors',
         ASSUME \/ state = "done" /\ current.at = zlist.edits /\ errors' = 0
                \/ \E a \in Askers : K!Follows(a) /\ answers[a].state = "done" /\ answers[a].at = zlist.edits /\ errors' = 0
         PROVE  zlist.rows \subseteq alive' /\ (K!Refused(zlist.rows)' \/ alive' \subseteq zlist.rows)
  PROVE  ListInv'
<1>1. /\ answers' = [a \in Askers |-> IF a \in serving THEN [state |-> state, at |-> current.at] ELSE answers[a]]
      /\ serving' = waiting /\ waiting' = {} /\ current' = IF waiting = {} THEN K!NoPass ELSE K!Pass
  BY DEF K!Over
<1>2. K!TypeOK /\ PassIs /\ PassReads /\ Answered
  BY DEF ListInv
<1>3. /\ current' \in [step : {"none", "reading", "writing"}, read : SUBSET Listed, at : Nat,
                       todo : SUBSET Listed, failed : Nat]
      /\ current'.step # "writing" /\ current'.read = {} /\ current'.todo = {} /\ current'.at = 0 /\ current'.failed = 0
      /\ (current'.step = "none" <=> current' = K!NoPass)
      /\ (current' = K!NoPass => waiting = {})
  BY <1>1 DEF K!Pass, K!NoPass
<1>4. /\ answers' \in [Askers -> [state : {"none", "waiting", "done", "failed"}, at : Nat]]
      /\ \A a \in Askers : answers'[a].at <= zlist.edits
      /\ \A a \in Askers : a \notin serving => answers'[a] = answers[a]
      /\ \A a \in Askers : a \in serving => answers'[a].state = state /\ answers'[a].at = current.at
  BY <1>1, <1>2 DEF PassIs
<1>5. waiting \cap serving = {}
  BY <1>2 DEF K!TypeOK
<1>6. PassIs'
  BY <1>1, <1>2, <1>3, <1>4, <1>5 DEF PassIs
<1>7. K!TypeOK'
  BY <1>1, <1>2, <1>3 DEF K!TypeOK
<1>8. Answered'
  <2>1. ASSUME NEW a \in Askers PROVE K!Fresh(a)'
    BY <1>2, <1>4 DEF Answered, PassReads, K!Fresh
  <2>2. ASSUME NEW a \in Askers PROVE K!Follows(a)'
    <3>1. SUFFICES ASSUME answers'[a].state = "done", answers'[a].at = zlist.edits, errors' = 0
                   PROVE  zlist.rows \subseteq alive' /\ (K!Refused(zlist.rows)' \/ alive' \subseteq zlist.rows)
      BY DEF K!Follows, K!Refused, K!TooMany, K!Gone, K!Quarter
    <3>2. CASE a \in serving
      BY <1>4, <3>1, <3>2
    <3>3. CASE a \notin serving
      BY <1>2, <1>4, <3>1, <3>3 DEF Answered
    <3> QED BY <3>2, <3>3
  <2> QED BY <2>1, <2>2 DEF Answered
<1> QED BY <1>3, <1>6, <1>7, <1>8 DEF ListInv, PassReads

(* The list changes: whatever was read, was read of an earlier one. *)
LEMMA EditStays ==
  ASSUME ListInv, K!Edit
  PROVE  ListInv'
<1>1. K!TypeOK /\ PassIs /\ PassReads /\ Answered
  BY DEF ListInv
<1>2. PICK rows \in SUBSET Listed : zlist' = [rows |-> rows, edits |-> zlist.edits + 1]
  <2>1. PICK rows \in {zlist.rows \cup {r} : r \in Listed \ zlist.rows} \cup K!Shortened :
               zlist' = [rows |-> rows, edits |-> zlist.edits + 1]
    BY DEF K!Edit
  <2>2. zlist.rows \subseteq Listed
    BY <1>1 DEF PassIs
  <2>3. rows \subseteq Listed
    BY <2>1, <2>2 DEF K!Shortened
  <2> QED BY <2>1, <2>3
<1>3. UNCHANGED <<removal, mapped, alive, current, waiting, serving, asked, answers, errors>>
  BY DEF K!Edit
<1>4. zlist.edits \in Nat /\ zlist' \in [rows : SUBSET Listed, edits : Nat] /\ zlist'.edits = zlist.edits + 1
  BY <1>1, <1>2 DEF PassIs
<1>5. PassIs'
  BY <1>1, <1>3, <1>4 DEF PassIs, K!NoPass
<1>6. K!TypeOK'
  BY <1>1, <1>3 DEF K!TypeOK, K!NoPass
<1>7. current.at \in Nat /\ current.at <= zlist.edits /\ \A a \in Askers : answers[a].at \in Nat /\ answers[a].at <= zlist.edits
  BY <1>1 DEF PassIs
<1>8. PassReads'
  BY <1>1, <1>3, <1>4, <1>7 DEF PassReads
<1>9. Answered'
  BY <1>1, <1>3, <1>4, <1>7 DEF Answered, K!Fresh, K!Follows
<1> QED BY <1>5, <1>6, <1>8, <1>9 DEF ListInv

(* What has been answered stands while a pass goes on. *)
LEMMA AnswersStand ==
  ASSUME Answered, PassIs, UNCHANGED <<removal, zlist, asked, answers, mapped, alive>>, errors' \in Nat, errors <= errors'
  PROVE  Answered'
<1>1. errors \in Nat
  BY DEF PassIs
<1>2. errors' = 0 => errors = 0
  BY <1>1
<1> QED BY <1>2 DEF Answered, K!Fresh, K!Follows, K!Refused, K!TooMany, K!Gone, K!Quarter

(* A pass reads the list, or part of it. *)
LEMMA ReadStays ==
  ASSUME ListInv, K!Read
  PROVE  ListInv'
<1>1. K!TypeOK /\ PassIs /\ PassReads /\ Answered /\ errors \in Nat
  BY DEF ListInv, PassIs
<1>2. PICK read \in SUBSET zlist.rows :
        /\ IF read = zlist.rows THEN errors' = errors ELSE errors' = errors + 1
        /\ current' = [current EXCEPT !.step = "writing", !.read = read, !.todo = read, !.at = zlist.edits]
  BY DEF K!Read, K!Error
<1>3. UNCHANGED <<removal, zlist, asked, mapped, alive, waiting, serving, answers>> /\ current.step = "reading"
  BY DEF K!Read, K!Elsewhere
<1>4. errors' \in Nat /\ errors <= errors' /\ (errors' = 0 => read = zlist.rows)
  BY <1>1, <1>2
<1>5. /\ current' \in [step : {"none", "reading", "writing"}, read : SUBSET Listed, at : Nat,
                       todo : SUBSET Listed, failed : Nat]
      /\ current'.step = "writing" /\ current'.read = read /\ current'.todo = read
      /\ current'.at = zlist.edits /\ current'.failed = current.failed
  BY <1>1, <1>2 DEF PassIs
<1>6. PassIs'
  BY <1>1, <1>3, <1>4, <1>5 DEF PassIs
<1>7. K!TypeOK'
  <2>1. current' # K!NoPass
    BY <1>5 DEF K!NoPass
  <2> QED BY <1>1, <1>3, <1>5, <2>1 DEF K!TypeOK
<1>8. PassReads'
  <2>1. \A a \in serving : a \in Askers
    BY <1>1 DEF PassIs
  <2> QED BY <1>1, <1>3, <1>4, <1>5, <2>1 DEF PassReads, PassIs
<1>9. Answered'
  BY <1>1, <1>3, <1>4, AnswersStand
<1> QED BY <1>6, <1>7, <1>8, <1>9 DEF ListInv

(* A pass writes a row, or fails to. *)
LEMMA WriteStays ==
  ASSUME ListInv, K!WriteRow
  PROVE  ListInv'
<1>1. K!TypeOK /\ PassIs /\ PassReads /\ Answered /\ errors \in Nat
  BY DEF ListInv, PassIs
<1>2. PICK r \in current.todo :
        \/ /\ mapped' = mapped \cup {r} /\ alive' = alive \cup {r} /\ errors' = errors
           /\ current' = [current EXCEPT !.todo = @ \ {r}]
        \/ /\ errors' = errors + 1 /\ UNCHANGED <<mapped, alive>>
           /\ current' = [current EXCEPT !.todo = @ \ {r}, !.failed = @ + 1]
  BY DEF K!WriteRow, K!Error
<1>3. UNCHANGED <<removal, zlist, asked, waiting, serving, answers>> /\ current.step = "writing"
  BY DEF K!WriteRow, K!Elsewhere
<1>4. r \in Listed /\ r \in current.read
  BY <1>1 DEF K!TypeOK, PassIs
<1>5. errors' \in Nat /\ errors <= errors' /\ (errors' = 0 => errors = 0 /\ mapped' = mapped \cup {r} /\ alive' = alive \cup {r})
  BY <1>1, <1>2
<1>6. /\ current' \in [step : {"none", "reading", "writing"}, read : SUBSET Listed, at : Nat,
                       todo : SUBSET Listed, failed : Nat]
      /\ current'.step = "writing" /\ current'.read = current.read /\ current'.todo = current.todo \ {r}
      /\ current'.at = current.at /\ current'.failed <= errors'
  <2>1. /\ current \in [step : {"none", "reading", "writing"}, read : SUBSET Listed, at : Nat,
                        todo : SUBSET Listed, failed : Nat]
        /\ current.failed <= errors /\ current.failed \in Nat
    BY <1>1 DEF PassIs
  <2>2. CASE current' = [current EXCEPT !.todo = @ \ {r}] /\ errors' = errors
    BY <1>3, <2>1, <2>2
  <2>3. CASE current' = [current EXCEPT !.todo = @ \ {r}, !.failed = @ + 1] /\ errors' = errors + 1
    <3>1. current.todo \ {r} \in SUBSET Listed /\ current.failed + 1 \in Nat /\ current.failed + 1 <= errors'
      BY <1>1, <2>1, <2>3
    <3>2. /\ current'.step = "writing" /\ current'.read = current.read /\ current'.todo = current.todo \ {r}
          /\ current'.at = current.at /\ current'.failed = current.failed + 1
          /\ DOMAIN current' = DOMAIN current /\ current' = [current EXCEPT !.todo = current'.todo, !.failed = current'.failed]
      BY <1>3, <2>1, <2>3
    <3> QED BY <2>1, <3>1, <3>2
  <2> QED BY <1>2, <2>2, <2>3
<1>7. PassIs'
  BY <1>1, <1>3, <1>5, <1>6 DEF PassIs
<1>8. K!TypeOK'
  <2>1. current' # K!NoPass
    BY <1>6 DEF K!NoPass
  <2>2. alive' \subseteq mapped' /\ mapped' \subseteq Listed
    BY <1>1, <1>2, <1>4 DEF K!TypeOK
  <2> QED BY <1>1, <1>3, <1>6, <2>1, <2>2 DEF K!TypeOK
<1>9. PassReads'
  BY <1>1, <1>3, <1>5, <1>6 DEF PassReads
<1>10. Answered'
  <2>1. CASE errors' # 0
    BY <1>1, <1>3, <2>1 DEF Answered, K!Fresh, K!Follows
  <2>2. CASE errors' = 0
    <3>1. ASSUME NEW a \in Askers, answers[a].state = "done", answers[a].at = zlist.edits PROVE mapped' = mapped /\ alive' = alive
      <4>1. current.at = zlist.edits
        <5>1. zlist.edits \in Nat /\ current.at \in Nat /\ current.at <= zlist.edits
          BY <1>1 DEF PassIs
        <5>2. zlist.edits <= current.at
          BY <1>1, <1>3, <3>1 DEF PassReads
        <5> QED BY <5>1, <5>2
      <4>2. r \in alive
        BY <1>1, <1>3, <1>4, <1>5, <2>2, <3>1, <4>1 DEF PassReads, Answered, K!Follows
      <4> QED BY <1>1, <1>5, <2>2, <4>2 DEF K!TypeOK
    <3>2. ASSUME NEW a \in Askers PROVE K!Follows(a)'
      BY <1>1, <1>3, <1>5, <2>2, <3>1 DEF Answered, K!Follows, K!Refused, K!TooMany, K!Gone, K!Quarter
    <3>3. ASSUME NEW a \in Askers PROVE K!Fresh(a)'
      BY <1>1, <1>3 DEF Answered, K!Fresh
    <3> QED BY <3>2, <3>3 DEF Answered
  <2> QED BY <2>1, <2>2
<1> QED BY <1>7, <1>8, <1>9, <1>10 DEF ListInv

(* A pass ends: its rows are all there are, unless it refuses to remove the others. *)
LEMMA FinishStays ==
  ASSUME ListInv, K!Finish
  PROVE  ListInv'
<1> DEFINE state == IF current.failed = 0 THEN "done" ELSE "failed"
           gone == K!GoneFromList(current.read)
<1>1. K!TypeOK /\ PassIs /\ PassReads /\ Answered /\ errors \in Nat /\ errors <= errors
  BY DEF ListInv, PassIs
<1>2. /\ current.step = "writing" /\ current.todo = {} /\ errors' = errors /\ UNCHANGED <<removal, zlist, asked>>
      /\ K!Over(state) /\ alive' = alive \ gone
      /\ mapped' = IF removal = "removed" THEN mapped \ gone ELSE mapped
  BY DEF K!Finish, K!Elsewhere
<1>3. gone \subseteq mapped \ current.read /\ (~K!Refused(current.read) => gone = mapped \ current.read)
      /\ (K!Refused(current.read) => gone = {})
  BY DEF K!GoneFromList, K!Gone
<1>4. state \in {"done", "failed"}
  OBVIOUS
<1> HIDE DEF gone, state
<1>5. alive' \subseteq mapped' /\ mapped' \subseteq Listed
  BY <1>1, <1>2 DEF K!TypeOK
<1>6. ASSUME \/ state = "done" /\ current.at = zlist.edits /\ errors' = 0
             \/ \E a \in Askers : K!Follows(a) /\ answers[a].state = "done" /\ answers[a].at = zlist.edits /\ errors' = 0
      PROVE  zlist.rows \subseteq alive' /\ (K!Refused(zlist.rows)' \/ alive' \subseteq zlist.rows)
  <2>1. current.at = zlist.edits /\ errors = 0
    <3>1. zlist.edits \in Nat /\ current.at \in Nat /\ current.at <= zlist.edits
      BY <1>1 DEF PassIs
    <3>2. \A a \in Askers : answers[a].at <= current.at
      BY <1>1, <1>2 DEF PassReads
    <3> QED BY <1>2, <1>6, <3>1, <3>2
  <2>2. current.read = zlist.rows /\ current.read \subseteq alive
    BY <1>1, <1>2, <2>1 DEF PassReads
  <2>3. zlist.rows \subseteq alive'
    BY <1>2, <1>3, <2>2
  <2>4. CASE K!Refused(zlist.rows)
    <3>1. mapped' = mapped /\ removal' = removal /\ zlist' = zlist
      BY <1>2, <1>3, <2>2, <2>4
    <3>2. K!Refused(zlist.rows)'
      BY <2>4, <3>1 DEF K!Refused, K!TooMany, K!Gone, K!Quarter
    <3> QED BY <2>3, <3>2
  <2>5. CASE ~K!Refused(zlist.rows)
    BY <1>1, <1>2, <1>3, <2>2, <2>3, <2>5 DEF K!TypeOK
  <2> QED BY <2>4, <2>5
<1>7. errors' \in Nat /\ errors <= errors'
  BY <1>1, <1>2
<1> QED BY <1>2, <1>4, <1>5, <1>6, <1>7, PassEnds

(* A pass fails, and with it what was asked of it. *)
LEMMA PassFailsStays ==
  ASSUME ListInv, K!PassFails
  PROVE  ListInv'
<1>1. K!TypeOK /\ errors \in Nat
  BY DEF ListInv, PassIs
<1>2. K!Over("failed") /\ errors' = errors + 1 /\ UNCHANGED <<removal, zlist, asked, mapped, alive>>
  BY DEF K!PassFails, K!Error, K!Elsewhere
<1>3. errors' \in Nat /\ errors <= errors' /\ errors' # 0
  BY <1>1, <1>2
<1>4. alive' \subseteq mapped' /\ mapped' \subseteq Listed
  BY <1>1, <1>2 DEF K!TypeOK
<1> QED BY <1>2, <1>3, <1>4, PassEnds

LEMMA ListGoesOn ==
  ASSUME ListInv, [K!Next]_(K!collectionVars)
  PROVE  ListInv'
<1>1. CASE UNCHANGED K!collectionVars
  BY <1>1 DEF K!collectionVars, ListInv, K!TypeOK, K!NoPass, PassIs, PassReads, Answered, K!Fresh, K!Follows,
              K!Refused, K!TooMany, K!Gone, K!Quarter
<1> QED BY <1>1, AskStays, EditStays, ReadStays, WriteStays, FinishStays, PassFailsStays DEF K!Next, K!PassStep

(* An ask is answered as done only by a pass that read the list after it: not by the pass that was   *)
(* running. And where no call failed, a pass that read the list as it is now has left just its rows,  *)
(* unless it refuses to remove any. For any list and any number of asks, changes and errors.         *)
THEOREM AsksAnswered == K!Spec => []Answered
<1>1. ListInv => Answered
  BY DEF ListInv
<1> QED BY <1>1, ListBegins, ListGoesOn, PTL DEF K!Spec

(* ----------------------------------- The sweep -------------------------------- *)

(* What is read or listed of a record is not newer than the record. *)
SweptBounds == SweptRecords \subseteq Nat /\ MaxResyncs \in Nat
Versions(f) == f \in [SweptRecords -> Nat] /\ \A r \in SweptRecords : f[r] <= theirs[r]
(* What Tuper has of a record is what Zuper has, unless the record looks changed, or what was written *)
(* is older than what Zuper had by then.                                                             *)
Seen == \A r \in SweptRecords : mine[r] = theirs[r] \/ r \in newer \/ r \in crossed
SweepInv ==
  /\ theirs \in [SweptRecords -> Nat] /\ Versions(mine) /\ Versions(writing) /\ Seen
  /\ W!Pending \subseteq SweptRecords /\ \A r \in W!Pending : todo[r] \in Nat /\ todo[r] <= theirs[r]
  /\ left \in 0 .. MaxResyncs /\ (~sweeping => W!Pending = {})

LEMMA SweepBegins ==
  ASSUME SweptBounds, W!Init
  PROVE  SweepInv
<1>1. W!Pending = {} /\ theirs = [r \in SweptRecords |-> 0] /\ mine = theirs /\ writing = theirs /\ left = 0
  BY DEF W!Init, W!NoneOf, W!Pending
<1> QED BY <1>1 DEF SweptBounds, SweepInv, Versions, Seen

(* The record next in turn is one of those still to be written. *)
LEMMA ItemIsOne ==
  ASSUME SweptBounds, SweepInv, W!Going
  PROVE  W!Item \in W!Pending
<1>1. W!Pending \subseteq Nat /\ W!Pending # {}
  BY DEF SweptBounds, SweepInv, W!Going
<1>2. PICK x \in W!Pending : \A y \in W!Pending : ~ (<<y, x>> \in OpToRel(<, Nat))
  BY <1>1, NatLessThanWellFounded, WFMin
<1>3. ASSUME NEW y \in W!Pending PROVE x <= y
  <2>1. y < x => <<y, x>> \in OpToRel(<, Nat)
    BY <1>1 DEF OpToRel
  <2>2. ~ (y < x) /\ x \in Nat /\ y \in Nat
    BY <1>1, <1>2, <2>1
  <2> QED BY <2>2
<1> QED BY <1>3 DEF W!Item, W!Min

(* A pass goes on to the next record. *)
LEMMA ItemIsDone ==
  ASSUME SweptBounds, SweepInv, W!Going, W!Next1, theirs' = theirs, sweeping' = sweeping
  PROVE  /\ W!Pending' \subseteq SweptRecords /\ \A r \in W!Pending' : todo'[r] \in Nat /\ todo'[r] <= theirs'[r]
         /\ left' \in 0 .. MaxResyncs /\ (~sweeping' => W!Pending' = {})
<1>1. todo' = [r \in W!Pending \ {W!Item} |-> todo[r]] /\ left' = left - 1
  BY DEF W!Next1, W!Restrict
<1>2. W!Pending' = W!Pending \ {W!Item} /\ \A r \in W!Pending' : todo'[r] = todo[r]
  BY <1>1 DEF W!Pending
<1>3. left \in Nat /\ left > 0 /\ left <= MaxResyncs /\ sweeping
  BY DEF W!Going, SweepInv, SweptBounds
<1>4. left' \in 0 .. MaxResyncs
  BY <1>1, <1>3 DEF SweptBounds
<1>5. W!Pending \subseteq SweptRecords /\ \A r \in W!Pending : todo[r] \in Nat /\ todo[r] <= theirs[r]
  BY DEF SweepInv
<1> QED BY <1>2, <1>3, <1>4, <1>5

(* A version is written: it is what Zuper has, or the record is crossed. *)
LEMMA WrittenIs ==
  ASSUME SweepInv, NEW r \in SweptRecords, NEW v \in Nat, v <= theirs[r], W!Written(r, v), theirs' = theirs
  PROVE  Versions(mine)' /\ Seen'
<1>1. /\ mine' = [mine EXCEPT ![r] = v] /\ newer' = newer \ {r}
      /\ crossed' = IF v < theirs[r] THEN crossed \cup {r} ELSE crossed \ {r}
  BY DEF W!Written
<1>2. theirs[r] \in Nat
  BY DEF SweepInv
<1> QED BY <1>1, <1>2 DEF SweepInv, Versions, Seen

LEMMA SweepGoesOn ==
  ASSUME SweptBounds, SweepInv, [W!Next]_(W!sweepVars)
  PROVE  SweepInv'
<1>0. theirs \in [SweptRecords -> Nat] /\ Versions(mine) /\ Versions(writing) /\ Seen
  BY DEF SweepInv
<1>1. ASSUME NEW r \in SweptRecords, W!ZuperChange(r) PROVE SweepInv'
  <2>1. /\ theirs' = [theirs EXCEPT ![r] = @ + 1] /\ newer' = newer \cup {r}
        /\ UNCHANGED <<mine, writing, todo, sweeping, left, crossed>>
    BY <1>1 DEF W!ZuperChange
  <2>2. /\ theirs' \in [SweptRecords -> Nat] /\ \A q \in SweptRecords : theirs[q] <= theirs'[q]
        /\ \A q \in SweptRecords : q # r => theirs'[q] = theirs[q]
    BY <1>0, <2>1
  <2>3. Versions(mine)' /\ Versions(writing)' /\ Seen'
    BY <1>0, <2>1, <2>2 DEF Versions, Seen
  <2>4. W!Pending' = W!Pending
    BY <2>1 DEF W!Pending
  <2>5. \A q \in W!Pending : todo'[q] \in Nat /\ todo'[q] <= theirs'[q]
    BY <1>0, <2>1, <2>2 DEF SweepInv
  <2> QED BY <2>1, <2>2, <2>3, <2>4, <2>5 DEF SweepInv
<1>2. ASSUME NEW r \in SweptRecords, W!HookReads(r) PROVE SweepInv'
  <2>1. /\ writing' = [writing EXCEPT ![r] = theirs[r]]
        /\ UNCHANGED <<theirs, mine, newer, todo, sweeping, left, crossed>>
    BY <1>2 DEF W!HookReads
  <2>2. Versions(mine)' /\ Versions(writing)' /\ Seen'
    BY <1>0, <2>1 DEF Versions, Seen
  <2> QED BY <2>1, <2>2 DEF SweepInv, W!Pending
<1>3. ASSUME NEW r \in SweptRecords, W!HookWrites(r) PROVE SweepInv'
  <2>1. /\ writing' = [writing EXCEPT ![r] = 0] /\ W!Written(r, writing[r])
        /\ UNCHANGED <<theirs, todo, sweeping, left>>
    BY <1>3 DEF W!HookWrites, W!Zuper
  <2>2. Versions(mine)' /\ Seen'
    BY <1>0, <2>1, WrittenIs DEF Versions
  <2>3. Versions(writing)'
    BY <1>0, <2>1 DEF Versions
  <2> QED BY <2>1, <2>2, <2>3 DEF SweepInv, W!Pending
<1>4. CASE W!Begin
  <2>1. todo' = W!Listing /\ sweeping' = TRUE /\ left' = MaxResyncs /\ UNCHANGED <<theirs, mine, newer, writing, crossed>>
    BY <1>4 DEF W!Begin, W!Zuper
  <2>2. W!Pending' \subseteq SweptRecords /\ \A r \in W!Pending' : todo'[r] = theirs[r]
    BY <2>1 DEF W!Listing, W!Pending
  <2>3. Versions(mine)' /\ Versions(writing)' /\ Seen'
    BY <1>0, <2>1 DEF Versions, Seen
  <2> QED BY <1>0, <2>1, <2>2, <2>3 DEF SweepInv, SweptBounds
<1>5. CASE W!NotRun
  <2>1. UNCHANGED <<theirs, mine, newer, writing, todo, sweeping, left, crossed>>
    BY <1>5 DEF W!NotRun, W!Zuper
  <2> QED BY <2>1 DEF SweepInv, Versions, Seen, W!Pending
<1>6. CASE W!ReadAgain
  <2>1. /\ W!Going /\ W!Next1 /\ writing' = [writing EXCEPT ![W!Item] = theirs[W!Item]]
        /\ UNCHANGED <<theirs, mine, newer, sweeping, crossed>>
    BY <1>6 DEF W!ReadAgain, W!Zuper
  <2>2. Versions(mine)' /\ Versions(writing)' /\ Seen'
    <3>1. W!Item \in SweptRecords
      BY <2>1, ItemIsOne DEF SweepInv
    <3> QED BY <1>0, <2>1, <3>1 DEF Versions, Seen
  <2> QED BY <1>0, <2>1, <2>2, ItemIsDone DEF SweepInv
<1>7. CASE W!WriteRow
  <2>1. W!Going /\ W!Next1 /\ W!Written(W!Item, todo[W!Item]) /\ UNCHANGED <<theirs, writing, sweeping>>
    BY <1>7 DEF W!WriteRow, W!Zuper
  <2>2. W!Item \in SweptRecords /\ todo[W!Item] \in Nat /\ todo[W!Item] <= theirs[W!Item]
    BY <2>1, ItemIsOne DEF SweepInv
  <2>3. Versions(mine)' /\ Seen'
    BY <2>1, <2>2, WrittenIs
  <2>4. Versions(writing)'
    BY <1>0, <2>1 DEF Versions
  <2> QED BY <1>0, <2>1, <2>3, <2>4, ItemIsDone DEF SweepInv
<1>8. CASE W!WriteFails
  <2>1. W!Going /\ W!Next1 /\ UNCHANGED <<theirs, mine, newer, writing, sweeping, crossed>>
    BY <1>8 DEF W!WriteFails, W!Zuper
  <2>2. Versions(mine)' /\ Versions(writing)' /\ Seen'
    BY <1>0, <2>1 DEF Versions, Seen
  <2> QED BY <1>0, <2>1, <2>2, ItemIsDone DEF SweepInv
<1>9. CASE W!EndPass
  <2>1. todo' = <<>> /\ UNCHANGED <<theirs, mine, newer, writing, left, crossed>>
    BY <1>9 DEF W!EndPass, W!Zuper
  <2>2. W!Pending' = {}
    BY <2>1 DEF W!Pending
  <2>3. Versions(mine)' /\ Versions(writing)' /\ Seen'
    BY <1>0, <2>1 DEF Versions, Seen
  <2> QED BY <1>0, <2>1, <2>2, <2>3 DEF SweepInv
<1>10. CASE UNCHANGED W!sweepVars
  BY <1>10 DEF W!sweepVars, SweepInv, Versions, Seen, W!Pending
<1> QED BY <1>1, <1>2, <1>3, <1>4, <1>5, <1>6, <1>7, <1>8, <1>9, <1>10 DEF W!Next, W!Sweeping

(* Whatever webhooks are lost and writes fail or overtake each other: what Tuper does not have as    *)
(* Zuper has it, the next comparison finds, or it is compared by time and was changed between the    *)
(* read and the write of another writing. For any records, window and cap.                           *)
NothingSlips == \A r \in SweptRecords : mine[r] # theirs[r] => W!Behind(r) \/ (~W!ByValue /\ r \in crossed)
THEOREM SweepFinds ==
  ASSUME SweptBounds
  PROVE  W!Spec => []NothingSlips
<1>1. ASSUME SweepInv, NEW r \in SweptRecords, mine[r] # theirs[r]
      PROVE  W!Behind(r) \/ (~W!ByValue /\ r \in crossed)
  <2>1. theirs[r] \in Nat /\ mine[r] \in Nat /\ mine[r] <= theirs[r] /\ (r \in newer \/ r \in crossed)
    BY <1>1 DEF SweepInv, Versions, Seen
  <2>2. theirs[r] > 0
    BY <1>1, <2>1
  <2> QED BY <1>1, <2>1, <2>2 DEF W!Behind
<1>2. SweepInv => NothingSlips
  BY <1>1 DEF NothingSlips
<1> QED BY <1>2, SweepBegins, SweepGoesOn, PTL DEF W!Spec

(* ------------------------------ All of it together ---------------------------- *)

(* Each part goes on by itself while the others stand still, so what holds of each holds of them    *)
(* together: the types of all, and what the run checks of the form, the commands and the log.       *)
THEOREM ServiceStands ==
  ASSUME LoadsOf, "nobody" \notin People, SweptBounds, Bounds
  PROVE  MCSpec => [](TypesOK /\ SavesStand /\ RunAtMostOnce /\ Accounted)
<1> DEFINE AllInv == IInv /\ FollowInv /\ DP!IInv /\ ListInv /\ SweepInv /\ LogInv
<1>1. MCInit => AllInv
  BY InitIInv, FollowBegins, FormKeeps, ListBegins, SweepBegins, LogInit DEF MCInit
<1>2. ASSUME [MCNext]_mcVars
      PROVE  /\ [Next]_vars /\ [S!Next]_(S!vars) /\ [D!Next]_(D!vars)
             /\ [K!Next]_(K!collectionVars) /\ [W!Next]_(W!sweepVars) /\ [A!Next]_(A!logVars)
  <2>1. /\ UNCHANGED settingsVars => UNCHANGED S!vars
        /\ UNCHANGED formVars => UNCHANGED D!vars
        /\ UNCHANGED listVars => UNCHANGED K!collectionVars
        /\ UNCHANGED sweepVars => UNCHANGED W!sweepVars
        /\ UNCHANGED logVars => UNCHANGED A!logVars
    BY DEF settingsVars, S!vars, formVars, D!vars, listVars, K!collectionVars, sweepVars, W!sweepVars,
           logVars, A!logVars
  <2>2. UNCHANGED mcVars => UNCHANGED <<vars, settingsVars, formVars, listVars, sweepVars, logVars>>
    BY DEF mcVars
  <2>3. MCNext => /\ Next \/ UNCHANGED vars
                  /\ S!Next \/ UNCHANGED settingsVars
                  /\ D!Next \/ UNCHANGED formVars
                  /\ K!Next \/ UNCHANGED listVars
                  /\ W!Next \/ UNCHANGED sweepVars
                  /\ A!Next \/ UNCHANGED logVars
    BY DEF MCNext, Others
  <2> QED BY <1>2, <2>1, <2>2, <2>3
<1>3. AllInv /\ [MCNext]_mcVars => AllInv'
  BY <1>2, NextKeeps, FollowKeeps, FormKeeps, ListGoesOn, SweepGoesOn, LogNext
<1>4. AllInv => TypesOK /\ SavesStand /\ RunAtMostOnce /\ Accounted
  <2>1. IInv => TypeOK /\ RunAtMostOnce
    BY DEF IInv
  <2>2. FollowInv => S!TypeOK
    BY DEF FollowInv
  <2>3. ListInv => K!TypeOK
    BY DEF ListInv
  <2>4. SweepInv => W!TypeOK
    BY DEF SweepInv, Versions, W!TypeOK, SweptBounds
  <2> QED BY <2>1, <2>2, <2>3, <2>4, FormKeeps, LogStands DEF TypesOK
<1> QED BY <1>1, <1>3, <1>4, PTL DEF MCSpec
==============================================================================
