------------------------------- MODULE MCRecords -------------------------------
(* How records come over from Zuper, one mechanism of it at a time: a pass of the  *)
(* importer over records (Import), the rows that hang off one (ChildRows), the     *)
(* walk over a list (ZuperLists), what kind a field is (FieldDefinitions), what a  *)
(* delivery asks for (Deliveries over Routes), a record's notes (NoteHosts) and    *)
(* the numbers of two systems (RecordNumbers). They share tables and no state, so  *)
(* a behaviour is one of them at work, and part says which; the others stand still *)
(* in a state they may start from.                                                 *)
EXTENDS Deliveries, Integers
CONSTANTS Records, NamedItems, Widths, MaxRuns, MaxFaults,
          Items, MaxGone, MaxChanges, MaxSlips,
          MaxLen, PageSize, Cap, Tries, GiveUp, MaxBlips, MaxGrow,
          FieldKinds, Times, MaxPasses, EventRuns, Lanes,
          HostNotes, NotePage, MaxNoteEdits, MaxNoteErrors,
          FromZuper, FromTuper, MaxPushed
VARIABLES part,
    shape, named, linked, map, stale, rows, shared, own, mapped, torn, pc, at, count, run, ended, faults,
    kind, listed, changes, slips, held, deleted, kept, known, untold, first, answer, unknown, step, due,
    way, size, counted, list, bad, grown, blips, down, page, rec, tried, back, missed, before,
    number, got, skipped, walk,
    definition, metSoFar, inMemory, deciding, newest, unsaid, apart,
    carries, imported, shown, version, copy, flagged, behind, queue, noteStep, notePage, read, unread,
    passed, astray, edits, errors,
    zuperNumber, numberOf, inBoth, dueNow, failedNow, import, holder, next, moves, allowed, crossed
I == INSTANCE Import WITH Named <- NamedItems, names <- named
C == INSTANCE ChildRows WITH ours <- kept
L == INSTANCE ZuperLists WITH tries <- tried
F == INSTANCE FieldDefinitions WITH seen <- metSoFar, rows <- inMemory, doing <- deciding
H == INSTANCE NoteHosts WITH step <- noteStep, page <- notePage, missed <- passed, todo <- unread
R == INSTANCE RecordNumbers WITH theirs <- zuperNumber, number <- numberOf, mapped <- inBoth, due <- dueNow,
                                 failed <- failedNow, tries <- moves

importVars == <<shape, named, linked, map, stale, rows, shared, own, mapped, torn, pc, at, count, run,
                ended, faults>>
rowVars == <<kind, listed, changes, slips, held, deleted, kept, known, untold, first, answer, unknown, step, due>>
walkVars == <<way, size, counted, list, bad, grown, blips, down, page, rec, tried, back, missed,
              before, number, got, skipped, walk>>
fieldVars == <<definition, metSoFar, inMemory, deciding, newest, unsaid, apart>>
noteVars == <<carries, imported, shown, version, copy, flagged, behind, queue, noteStep, notePage, read,
              unread, passed, astray, edits, errors>>
numberVars == <<zuperNumber, numberOf, inBoth, dueNow, failedNow, import, holder, next, moves, allowed,
                crossed>>
mcVars == <<part, vars, importVars, rowVars, walkVars, fieldVars, noteVars, numberVars>>

\* The modules all of whose rules no other has: what Zuper can tell of the rest, it can of one of these.
Rules(m) == {<<what, Modules[m].rules[what]>> : what \in DOMAIN Modules[m].rules}
Within(m, n) == Modules[m].later = Modules[n].later /\ Rules(m) \subseteq Rules(n)
Widest == {m \in DOMAIN Modules : \A n \in DOMAIN Modules : Within(m, n) => Within(n, m)}

Parts == {"import", "rows", "lists", "fields", "deliveries", "notes", "numbers"}
MCInit ==
  /\ part \in Parts
  /\ I!Init
  /\ part # "import" => /\ shape = CHOOSE s \in I!Shapes : TRUE
                        /\ named = [r \in Records |-> I!None]
  \* A pass over records that are mapped is the second one, but for one that only enriches them.
  /\ mapped = IF shape.enrich THEN Records ELSE {}
  \* Two of a chunk stand for each other: the one that names nothing is the second, and where they
  \* name two others, the one after them names the first's.
  /\ named[1] = I!None => named[2] = I!None
  /\ named[2] = 2 => named[3] = 1
  /\ C!Init
  /\ part # "rows" => kind = (CHOOSE k \in C!Kinds : TRUE) /\ listed = {}
  /\ L!Init
  /\ part # "lists" => list = <<>> /\ way = "map"
  /\ Init /\ module \in Widest
  /\ part # "deliveries" => /\ module = "JOB"
                            /\ \A u \in Named : ours[u] = "live"
  /\ H!Init
  /\ part # "notes" => carries /\ imported
  /\ R!Init
  /\ part # "numbers" => allowed
  /\ F!Init

Others(p) ==
  /\ part = p /\ UNCHANGED part
  /\ p = "import" \/ UNCHANGED importVars
  /\ p = "rows" \/ UNCHANGED rowVars
  /\ p = "lists" \/ UNCHANGED walkVars
  /\ p = "fields" \/ UNCHANGED fieldVars
  /\ p = "deliveries" \/ UNCHANGED vars
  /\ p = "notes" \/ UNCHANGED noteVars
  /\ p = "numbers" \/ UNCHANGED numberVars
MCNext ==
  \/ Others("import") /\ I!Next
  \/ Others("rows") /\ C!Next
  \/ Others("lists") /\ L!Next
  \/ Others("fields") /\ F!Next
  \/ Others("deliveries") /\ Next
  \/ Others("notes") /\ H!Next
  \/ Others("numbers") /\ R!Next
\* Only one part is at work, so its fairness is that of all of them together. Deliveries and field
\* definitions have none: no liveness is asked of them here.
MCWork ==
  \/ Others("import") /\ I!Work
  \/ Others("rows") /\ C!Write
  \/ Others("lists") /\ L!Walk
  \/ Others("notes") /\ H!Sync
  \/ Others("numbers") /\ R!Work
MCSpec == MCInit /\ [][MCNext]_mcVars /\ WF_mcVars(MCWork)

\* Every part's types.
TypesOK == TypeOK /\ I!TypeOK /\ C!TypeOK /\ L!TypeOK /\ F!TypeOK /\ H!TypeOK /\ R!TypeOK
\* No second row: no record gets one, what a pass writes is linked to its record (Import!NoTwin,
\* Import!WrittenIsLinked), and no item of a record's gets one (ChildRows!RowsStand).
NoSecondRow == I!NoTwin /\ I!WrittenIsLinked /\ C!RowsStand
\* Child rows: they come to be Zuper's list (ChildRows!ListFollows).
ListFollows == <>[](part = "rows" => C!Settled)
\* Lists: a walk that ends has read every record that was there (ZuperLists!NothingMissed).
NothingMissed == L!NothingMissed
\* Fields: the newest record decides what a field is (FieldDefinitions!NewestDecides).
NewestDecides == F!NewestDecides
\* Deliveries: ClosedIsDone and DeletedIsGone are those of Deliveries itself.
\* Notes: they come to be Zuper's (NoteHosts!NotesFollow).
NotesFollow == H!NotesFollow
\* Numbers: a record in Zuper comes to hold Zuper's number (RecordNumbers!EveryNumberArrives).
EveryNumberArrives == R!EveryNumberArrives
\* Whatever walks comes to an end: a pass of records (Import!PassEnds), a walk over a list
\* (ZuperLists!WalkEnds).
WorkEnds == <>[](/\ part = "import" => ended
                 /\ part = "lists" => walk # "on")
================================================================================
