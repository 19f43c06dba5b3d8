------------------------------ MODULE ZuperLists ------------------------------
(* How the importer walks a list a page at a time, in                           *)
(* src/lib/migration/zuper-sync.ts: Zuper's filter lists (zuperFilterPages),     *)
(* its plain lists (zuperListPages), and the table of uids (loadMap). The list   *)
(* grows while it is walked, calls fail, some records Zuper cannot answer.       *)
EXTENDS Naturals, Sequences, SequencesExt

CONSTANTS MaxLen,    \* records in the list at first
          PageSize,  \* asked for at once
          Cap,       \* what some plain lists answer at most
          Tries,     \* attempts at a call (6)
          GiveUp,    \* failing records, with none come back, that end a walk (5)
          MaxBlips,  \* calls that fail for no reason of the record's
          MaxGrow    \* records made meanwhile

VARIABLES
    way,      \* "filter", "list" or "map"
    size,     \* the page it is answered
    counted,  \* whether the answer says how many there are
    list, bad, grown, blips, down,
    page, rec,      \* the page that is read, and the record of it when it failed: 0 is the page
    tries,          \* failed attempts at the call
    back, missed,   \* of a failed page: records read, and failed
    before,         \* the first row of the page before, 0 if none
    number,         \* rows answered so far
    got, skipped, walk
listVars == <<way, size, counted, list, bad, grown, blips, down, page, rec, tries, back, missed,
              before, number, got, skipped, walk>>

Init ==
    /\ way \in {"filter", "list", "map"}
    /\ size \in IF way = "list" THEN {PageSize, Cap} ELSE {PageSize}
    /\ counted \in IF way = "list" THEN BOOLEAN ELSE {FALSE}
    /\ \E n \in 0..MaxLen : list = [i \in 1..n |-> i]
    /\ bad \in IF way = "map" THEN {{}} ELSE SUBSET ToSet(list)
    /\ grown = 0 /\ blips = 0 /\ down = FALSE
    /\ page = 1 /\ rec = 0 /\ tries = 0 /\ back = 0 /\ missed = 0 /\ before = 0 /\ number = 0
    /\ got = {} /\ skipped = {} /\ walk = "on"

LastPage == (MaxLen + MaxGrow) \div Cap + 2    \* pages from here on are alike: empty
Onward(p) == IF p < LastPage THEN p + 1 ELSE p
Rows(first, n) == SubSeq(list, first, IF first + n - 1 > Len(list) THEN Len(list) ELSE first + n - 1)
Answer == IF rec = 0 THEN Rows((page - 1) * size + 1, size) ELSE Rows((page - 1) * size + rec, 1)
Fixed == UNCHANGED <<way, size, counted, bad>>
World == UNCHANGED <<list, grown, blips, down>> /\ Fixed

(* Outside: a record is made, anywhere in the list's order; Zuper goes away for good.  *)
Grow ==
    /\ walk = "on" /\ grown < MaxGrow /\ grown' = grown + 1
    /\ \E i \in 1..(Len(list) + 1) : list' = InsertAt(list, i, MaxLen + grown + 1)
    /\ UNCHANGED <<blips, down, page, rec, tries, back, missed, before, number, got, skipped, walk>>
    /\ Fixed
GoDown ==
    /\ walk = "on" /\ ~down /\ down' = TRUE
    /\ UNCHANGED <<list, grown, blips, page, rec, tries, back, missed, before, number, got, skipped,
                   walk>>
    /\ Fixed

(* A page is answered. The walk goes on after it, or it was the last.                   *)
\* A mutant: a page shorter than asked for is taken for the last one of a plain list too.
MoreFull == Len(Answer) = PageSize
More == CASE way \in {"filter", "map"} -> Len(Answer) = size
          [] way = "list" -> ~(counted /\ number + Len(Answer) >= Len(list))
Over == way = "list" /\ (Answer = <<>> \/ Head(Answer) = before)
Good == ~down /\ ToSet(Answer) \cap bad = {}
Page ==
    /\ walk = "on" /\ rec = 0 /\ Good
    /\ IF Over
       THEN walk' = "ended" /\ UNCHANGED <<page, before, number, got>>
       ELSE /\ got' = got \cup ToSet(Answer) /\ number' = number + Len(Answer)
            /\ before' = IF Answer = <<>> THEN before ELSE Head(Answer)
            /\ walk' = IF More THEN "on" ELSE "ended"
            /\ page' = IF More THEN Onward(page) ELSE page
    /\ tries' = 0 /\ UNCHANGED <<rec, back, missed, skipped>> /\ World

(* A failed page of a filter list is read a record at a time.                           *)
NextRecord == IF rec = size THEN page' = Onward(page) /\ rec' = 0 ELSE rec' = rec + 1 /\ UNCHANGED page
Record ==
    /\ walk = "on" /\ rec > 0 /\ Good
    /\ IF Answer = <<>>
       THEN walk' = "ended" /\ UNCHANGED <<page, rec, back, got>>
       ELSE back' = back + 1 /\ got' = got \cup ToSet(Answer) /\ NextRecord /\ UNCHANGED walk
    /\ tries' = 0 /\ UNCHANGED <<missed, before, number, skipped>> /\ World

(* A call fails for good: after so many attempts, or at once where it is not tried again. *)
\* A mutant: failing records are passed over however many they are.
PassOver == /\ skipped' = skipped \cup ToSet(Answer) /\ NextRecord /\ UNCHANGED walk
GiveUpOn == IF back = 0 /\ missed + 1 >= GiveUp
            THEN walk' = "threw" /\ UNCHANGED <<page, rec, skipped>>
            ELSE skipped' = skipped \cup ToSet(Answer) /\ NextRecord /\ UNCHANGED walk
Failed ==
    /\ tries' = 0
    /\ \/ way # "filter" /\ walk' = "threw" /\ UNCHANGED <<page, rec, back, missed, skipped>>
       \/ way = "filter" /\ rec = 0 /\ rec' = 1 /\ back' = 0 /\ missed' = 0
          /\ UNCHANGED <<page, skipped, walk>>
       \/ way = "filter" /\ rec > 0 /\ missed' = missed + 1 /\ GiveUpOn /\ UNCHANGED back
    /\ UNCHANGED <<before, number, got>>
Again == tries' = tries + 1
         /\ UNCHANGED <<page, rec, back, missed, before, number, got, skipped, walk>>
Fail == IF way # "map" /\ tries + 1 < Tries THEN Again ELSE Failed
CallFails == /\ walk = "on" /\ ~Good /\ Fail /\ World
Blip ==
    /\ walk = "on" /\ Good /\ blips < MaxBlips /\ blips' = blips + 1
    /\ Fail \/ Failed
    /\ UNCHANGED <<list, grown, down>> /\ Fixed

Walk == Page \/ Record \/ CallFails
Next == Walk \/ Blip \/ Grow \/ GoDown
Spec == Init /\ [][Next]_listVars /\ WF_listVars(Walk)

TypeOK == /\ walk \in {"on", "ended", "threw"} /\ rec \in 0..size /\ tries \in 0..(Tries - 1)
          /\ got \subseteq ToSet(list) /\ skipped \subseteq ToSet(list)

\* A walk that ends by itself has read every record that was there from the start, or has said of
\* it that it was skipped, however the list grew and whatever calls failed and were made again; a
\* plain list that grew by a page between two pages is not told from one that repeats itself.
NothingMissed ==
    walk = "ended" => \/ \A i \in ToSet(list) : i <= MaxLen => i \in got \cup skipped
                      \/ way = "list" /\ grown >= size

\* Every walk ends, also when Zuper answers nothing any more: no walk skips record after record
\* for ever.
WalkEnds == <>(walk # "on")
==============================================================================
