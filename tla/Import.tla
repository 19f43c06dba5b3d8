-------------------------------- MODULE Import --------------------------------
(* A pass of the importer over Zuper's records of one kind (syncEntity in       *)
(* src/lib/migration/zuper-sync.ts): records are worked on side by side, each   *)
(* names another record that may have to be made on sight, and the uid maps are *)
(* kept in memory and in the database. A pass may stop half way and be run      *)
(* again. Of a pass of the Catalogue only its shape matters here: how many       *)
(* records at once, what is loaded before them, how rows are found and made.     *)
EXTENDS Catalogue, Integers, Sequences, FiniteSets

CONSTANTS Records,    \* the records Zuper lists, 1..n in the list's order
          Named,      \* uids of the other records they name, from 1; they bear one name
          Widths,     \* what ZUPER_SYNC_CONCURRENCY may be; 0 where it is not set
          MaxRuns,    \* passes in a row
          MaxFaults   \* calls that fail, and stops

\* What a record of pass e finds where it calls maker m. The setting runs a pass wider than its
\* own, one that goes record by record too; lone: side by side for that, and no attempt is shared.
Width(e, n) == IF n = 0 THEN e.side ELSE n
Shape(e, m, n) == [enrich |-> e.enrich, wide |-> Width(e, n) > 1, insert |-> e.insert,
                   held |-> m.map \in e.deps, must |-> m.map \in e.must,
                   by |-> m.by, once |-> m.once, forgets |-> m.forgets,
                   lone |-> ~m.once /\ Width(e, n) > 1 /\ e.side = 1]
Shapes == UNION {{Shape(e, m, n) : m \in {k \in MakersOf(e) : k.by # "match" /\ k.map # e.map},
                                   n \in Widths} : e \in Entities}

VARIABLES
    shape,    \* the pass that runs
    names,    \* the uid each record names, or none
    linked,   \* the map of named uids in the database: uid -> row
    map,      \* the same in memory: loaded or not, and what it holds
    stale,    \* the copy of it a record is still loading
    rows,     \* the table of named records: the uid each row was made for, in order
    shared,   \* once: uid -> no attempt, one under way, its row, or failed
    own,      \* record -> how many rows the pass's table holds for it
    mapped,   \* the records the database maps
    torn,     \* the records and the uids that got a row and no mapping
    pc, at,   \* where each record is, and the row it has for the uid it names
    count,    \* upserted and failed
    run, ended, faults
vars == <<shape, names, linked, map, stale, rows, shared, own, mapped, torn, pc, at,
          count, run, ended, faults>>

None == 0
Failed == -1
Busy == -2
Over == {"done", "failed"}
NotMapped == [u \in Named |-> None]
Counted == [upserted |-> 0, failed |-> 0]

Init ==
    /\ shape \in Shapes /\ names \in [Records -> Named \cup {None}]
    /\ \A r \in Records : names[r] > 1 => \E q \in Records : q < r /\ names[q] = names[r] - 1
    /\ mapped \in {{}, Records} /\ own = [r \in Records |-> IF r \in mapped THEN 1 ELSE 0]
    /\ linked = NotMapped /\ rows = <<>> /\ torn = [own |-> {}, named |-> {}]
    /\ map = [loaded |-> shape.held, of |-> NotMapped]
    /\ stale = [r \in Records |-> NotMapped] /\ at = [r \in Records |-> None]
    /\ shared = NotMapped /\ pc = [r \in Records |-> "waiting"] /\ count = Counted
    /\ run = 1 /\ ended = FALSE /\ faults = 0

\* inChunks: a record's turn comes when those of earlier chunks are over; two make a chunk.
Chunk(r) == IF shape.wide THEN (r + 1) \div 2 ELSE r
InTurn(r) == \A q \in Records : Chunk(q) < Chunk(r) => pc[q] \in Over
Go(r, from, to) == pc[r] = from /\ pc' = [pc EXCEPT ![r] = to]
Fault == faults < MaxFaults /\ faults' = faults + 1
SameName(u) == {x \in DOMAIN rows : shape.by = "person" => rows[x] = u}
Took(r, x) == at' = [at EXCEPT ![r] = x]
Same == UNCHANGED <<shape, names, run, ended>>
Naming == UNCHANGED <<own, mapped, torn, count, faults>> /\ Same

(* ctxMap: what is in memory, or a load; the load that ends last is kept.         *)
Look(r) ==
    /\ ~ended /\ InTurn(r)
    /\ \/ names[r] = None /\ Go(r, "waiting", "writing") /\ UNCHANGED stale
       \/ names[r] # None /\ map.loaded /\ Go(r, "waiting", "looking") /\ UNCHANGED stale
       \/ names[r] # None /\ ~map.loaded /\ Go(r, "waiting", "loading")
          /\ stale' = [stale EXCEPT ![r] = linked]
    /\ UNCHANGED <<linked, map, rows, shared, at>> /\ Naming
Loaded(r) ==
    /\ Go(r, "loading", "looking") /\ map' = [loaded |-> TRUE, of |-> stale[r]]
    /\ stale' = [stale EXCEPT ![r] = NotMapped]
    /\ UNCHANGED <<linked, rows, shared, at>> /\ Naming

(* A maker: the row the map has; the attempt another record of the run has made;   *)
(* or an attempt of its own.                                                      *)
Hit(r) ==
    /\ Go(r, "looking", "writing") /\ map.of[names[r]] # None /\ Took(r, map.of[names[r]])
    /\ UNCHANGED <<linked, map, stale, rows, shared>> /\ Naming
Join(r) ==
    /\ Go(r, "looking", "writing") /\ map.of[names[r]] = None /\ shared[names[r]] > None
    /\ Took(r, shared[names[r]])
    /\ UNCHANGED <<linked, map, stale, rows, shared>> /\ Naming
\* A mutant: nobody waits for the attempt of another record.
AttemptAnew(r) ==
    /\ Go(r, "looking", IF shape.by \in {"find", "person"} THEN "finding" ELSE "making")
    /\ map.of[names[r]] = None /\ shared[names[r]] \in {None, Busy}
    /\ UNCHANGED <<linked, map, stale, rows, shared, at>> /\ Naming
Attempt(r) ==
    /\ Go(r, "looking", IF shape.by \in {"find", "person"} THEN "finding" ELSE "making")
    /\ map.of[names[r]] = None /\ shared[names[r]] = None
    /\ shared' = IF shape.once THEN [shared EXCEPT ![names[r]] = Busy] ELSE shared
    /\ UNCHANGED <<linked, map, stale, rows, at>> /\ Naming
Find(r) ==
    LET found == SameName(names[r]) IN
    /\ \/ found = {} /\ Go(r, "finding", "making") /\ UNCHANGED at
       \/ Go(r, "finding", "keeping") /\ \E x \in found : Took(r, x)
    /\ UNCHANGED <<linked, map, stale, rows, shared>> /\ Naming
Make(r) ==
    /\ Go(r, "making", "keeping")
    /\ IF shape.by = "adopt" /\ SameName(names[r]) # {}
       THEN (\E x \in SameName(names[r]) : Took(r, x)) /\ UNCHANGED rows
       ELSE rows' = Append(rows, names[r]) /\ Took(r, Len(rows) + 1)
    /\ UNCHANGED <<linked, map, stale, shared>> /\ Naming
(* setMap: in memory at once, in the database with the answer, which nobody reads.     *)
Keep(r) ==
    /\ Go(r, "keeping", "kept") /\ map' = [map EXCEPT !.of[names[r]] = at[r]]
    /\ UNCHANGED <<linked, stale, rows, shared, at>> /\ Naming
Kept(r) ==
    /\ Go(r, "kept", "writing") /\ linked' = [linked EXCEPT ![names[r]] = at[r]]
    /\ shared' = IF shape.once THEN [shared EXCEPT ![names[r]] = at[r]] ELSE shared
    /\ UNCHANGED <<map, stale, rows, at>> /\ Naming
\* The mapping is refused: the record goes on with what is in memory.
KeptNowhere(r) ==
    /\ Go(r, "kept", "writing") /\ Fault /\ torn' = [torn EXCEPT !.named = @ \cup {names[r]}]
    /\ shared' = IF shape.once THEN [shared EXCEPT ![names[r]] = at[r]] ELSE shared
    /\ UNCHANGED <<linked, map, stale, rows, at, own, mapped, count>> /\ Same

(* The record's own row, then its mapping, then the lists that hang off it.          *)
Refused(r) == (shape.enrich /\ r \notin mapped) \/ (shape.must /\ at[r] = None)
Rest == UNCHANGED <<shape, names, linked, map, stale, rows, shared, torn, at, run, ended>>
Update(r) == /\ Go(r, "writing", "parts") /\ r \in mapped /\ ~Refused(r)
             /\ UNCHANGED <<own, mapped, count, faults>> /\ Rest
Inserts(r) == own' = [own EXCEPT ![r] = IF shape.insert = "insert" \/ @ = 0 THEN @ + 1 ELSE @]
Insert(r) == /\ Go(r, "writing", "unmapped") /\ r \notin mapped /\ ~Refused(r) /\ Inserts(r)
             /\ UNCHANGED <<mapped, count, faults>> /\ Rest
MapOwn(r) == /\ Go(r, "unmapped", "parts") /\ mapped' = mapped \cup {r}
             /\ UNCHANGED <<own, count, faults>> /\ Rest
OwnKeptNowhere(r) ==
    /\ Go(r, "unmapped", "parts") /\ Fault /\ torn' = [torn EXCEPT !.own = @ \cup {r}]
    /\ UNCHANGED <<linked, map, stale, rows, shared, own, mapped, at, count>> /\ Same
\* A mutant: a record is not counted once its lists are written.
WroteUncounted(r) == Go(r, "parts", "done") /\ UNCHANGED <<own, mapped, count, faults>> /\ Rest
Wrote(r) == /\ Go(r, "parts", "done") /\ count' = [count EXCEPT !.upserted = @ + 1]
            /\ UNCHANGED <<own, mapped, faults>> /\ Rest

(* A call of a record fails, or the record is refused: it is counted and passed over.  *)
(* A failed attempt to make what it names stays with the run, unless it is forgotten.  *)
\* A mutant: those who wait for a failed attempt are not told.
FailsHeld(r, from) ==
    /\ Go(r, from, "failed") /\ count' = [count EXCEPT !.failed = @ + 1]
    /\ UNCHANGED <<linked, map, stale, rows, shared, own, mapped, torn, at>> /\ Same
Passed(r, from) ==
    /\ Go(r, from, "failed") /\ count' = [count EXCEPT !.failed = @ + 1]
    /\ shared' = IF from \in {"finding", "making"} /\ shape.once
                 THEN [shared EXCEPT ![names[r]] = IF shape.forgets THEN None ELSE Failed]
                 ELSE shared
    /\ UNCHANGED <<linked, map, stale, mapped, at>> /\ Same
Fails(r, from) == Passed(r, from) /\ UNCHANGED <<rows, own, torn>>
Refuse(r) == Refused(r) /\ Fails(r, "writing") /\ UNCHANGED faults
JoinFailed(r) == /\ Fails(r, "looking") /\ UNCHANGED faults
                 /\ map.of[names[r]] = None /\ shared[names[r]] = Failed
\* An insert may be done though its connection broke: it fails as one that is not.
MadeUnheard(r) ==
    /\ Passed(r, "making") /\ Fault /\ UNCHANGED own
    /\ shape.by = "adopt" => SameName(names[r]) = {}
    /\ rows' = Append(rows, names[r]) /\ torn' = [torn EXCEPT !.named = @ \cup {names[r]}]
InsertUnheard(r) ==
    /\ Passed(r, "writing") /\ Fault /\ UNCHANGED rows
    /\ r \notin mapped /\ ~Refused(r) /\ Inserts(r)
    /\ torn' = [torn EXCEPT !.own = @ \cup {r}]
CallFails(r) == Fault /\ \E from \in {"loading", "finding", "making", "writing", "parts"} : Fails(r, from)

(* The last record is over: the run's own row is closed.                               *)
End ==
    /\ ~ended /\ \A r \in Records : pc[r] \in Over
    /\ ended' = TRUE
    /\ UNCHANGED <<shape, names, linked, map, stale, rows, shared, own, mapped, torn, pc, at, count,
                   run, faults>>

(* A pass is run again, after it ended or was stopped: with nothing in memory.           *)
Again(cut) ==
    /\ run < MaxRuns /\ run' = run + 1 /\ ended' = FALSE
    /\ map' = [loaded |-> shape.held, of |-> IF shape.held THEN linked ELSE NotMapped]
    /\ shared' = NotMapped /\ stale' = [r \in Records |-> NotMapped]
    /\ at' = [r \in Records |-> None]
    /\ pc' = [r \in Records |-> "waiting"] /\ count' = Counted
    /\ torn' = [own |-> torn.own \cup cut.own, named |-> torn.named \cup cut.named]
    /\ UNCHANGED <<shape, names, linked, rows, own, mapped>>
RunAgain == ended /\ Again([own |-> {}, named |-> {}]) /\ UNCHANGED faults
Stop == /\ ~ended /\ Fault
        /\ Again([own |-> {r \in Records : pc[r] = "unmapped"},
                  named |-> {names[r] : r \in {q \in Records : pc[q] \in {"keeping", "kept"}}}])

Step(r) == Look(r) \/ Loaded(r) \/ Hit(r) \/ Join(r) \/ Attempt(r) \/ Find(r) \/ Make(r) \/ Keep(r)
           \/ Kept(r) \/ Update(r) \/ Insert(r) \/ MapOwn(r) \/ Wrote(r) \/ Refuse(r) \/ JoinFailed(r)
Work == (\E r \in Records : Step(r)) \/ End
Trouble(r) == KeptNowhere(r) \/ OwnKeptNowhere(r) \/ MadeUnheard(r) \/ InsertUnheard(r) \/ CallFails(r)
Next == Work \/ (\E r \in Records : Trouble(r)) \/ RunAgain \/ Stop
Spec == Init /\ [][Next]_vars /\ WF_vars(Work)

TypeOK == /\ shape \in Shapes /\ at \in [Records -> DOMAIN rows \cup {None}]
          /\ linked \in [Named -> DOMAIN rows \cup {None}]
          /\ count.upserted + count.failed = Cardinality({r \in Records : pc[r] \in Over})

\* No record is given a second row, and none that is named is made twice, however the records
\* of a pass race to load the map and to make what they name, and whatever fails or stops. But a
\* plain insert is done again by a later pass where its mapping was refused, or its answer or the
\* pass was lost before it; and all of this only where makers that share no attempt do not run
\* side by side, which no pass does unless the setting makes it.
Copies(u) == Cardinality({x \in DOMAIN rows : rows[x] = u})
NoTwin == /\ \A r \in Records : own[r] > 1 => shape.insert = "insert" /\ r \in torn.own
          /\ ~shape.lone => /\ \A u \in Named : Copies(u) > 1 => shape.by = "insert" /\ u \in torn.named
                            /\ shape.by = "adopt" => Len(rows) <= 1

\* When a pass ends, each record counted as written has a row, is mapped, and is linked to the row
\* the database maps the named uid to, the one every later pass will find. A mapping that was
\* refused is counted as written all the same: it may be missing, but it is never another.
WrittenIsLinked ==
    ended => \A r \in Records : pc[r] = "done" =>
        /\ own[r] >= 1 /\ (r \in mapped \/ r \in torn.own)
        /\ names[r] # None /\ ~shape.lone =>
             at[r] # None /\ (at[r] = linked[names[r]] \/ (linked[names[r]] = None /\ names[r] \in torn.named))

\* Every pass ends: records that wait for another's attempt are let go, made or failed.
PassEnds == <>[]ended
==============================================================================
