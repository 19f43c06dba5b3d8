----------------------------- MODULE RecordNumbers -----------------------------
(* The numbers of jobs, requests, contracts and parts (releaseNumber and           *)
(* moveToNext in src/lib/list-contract/record-numbers.ts, called by writeOne in    *)
(* src/processor.ts and by syncEntity). Tuper and Zuper each hand out the next     *)
(* number of their own count, a number is Zuper's to give once a record is in both *)
(* systems, and one index lets no two rows of Tuper hold the same. A record made   *)
(* in Tuper moves out of the way of one that comes from Zuper.                     *)
EXTENDS Naturals, FiniteSets

CONSTANTS FromZuper, FromTuper, \* records made in Zuper, and in Tuper
          MaxPushed             \* bound: records made in Tuper that are pushed to Zuper

Numbered == FromZuper \cup FromTuper
Attempts == 3                   \* updates moveToNext tries

VARIABLES
    theirs,     \* the number Zuper gave a record, 0 before it has it
    number,     \* the number of its row in Tuper, 0 before there is one
    mapped,     \* rows the map says came from, or were made in, Zuper
    due,        \* records an import of which is due
    failed,     \* those whose import failed: it is due again in the next replay pass
    import,     \* record -> how far its import is
    holder,     \* the row found on its number; itself while none is
    next,       \* the number next_* gave for that row, 0 before it is asked
    tries,
    allowed,    \* Tuper's sync API lets renumber_* be called
    crossed     \* records pushed after an import made sure they are not in Zuper
vars == <<theirs, number, mapped, due, failed, import, holder, next, tries, allowed, crossed>>

Highest(f) == CHOOSE n \in {0} \cup {f[r] : r \in Numbered} : \A r \in Numbered : f[r] <= n
Taken(n, r) == \E h \in Numbered \ {r} : number[h] = n
Idle == [r \in Numbered |-> "none"]

Init ==
    /\ theirs = [r \in Numbered |-> 0] /\ number = theirs /\ next = theirs /\ tries = theirs
    /\ mapped = {} /\ due = {} /\ failed = {} /\ import = Idle /\ holder = [r \in Numbered |-> r]
    /\ allowed \in BOOLEAN /\ crossed = {}

ZuperMakes(r) ==
    /\ r \in FromZuper /\ theirs[r] = 0
    /\ theirs' = [theirs EXCEPT ![r] = Highest(theirs) + 1] /\ due' = due \cup {r}
    /\ UNCHANGED <<number, mapped, failed, import, holder, next, tries, allowed, crossed>>

\* The database gives a new row the number past the highest in use.
TuperMakes(r) ==
    /\ r \in FromTuper /\ number[r] = 0
    /\ number' = [number EXCEPT ![r] = Highest(number) + 1]
    /\ UNCHANGED <<theirs, mapped, due, failed, import, holder, next, tries, allowed, crossed>>

\* A push makes the record in Zuper, which numbers it, and maps it in the same turn.
Push(r) ==
    /\ r \in FromTuper /\ number[r] # 0 /\ r \notin mapped
    /\ Cardinality(mapped \cap FromTuper) < MaxPushed
    /\ theirs' = [theirs EXCEPT ![r] = Highest(theirs) + 1]
    /\ mapped' = mapped \cup {r} /\ due' = due \cup {r}
    /\ crossed' = crossed \cup (IF \E s \in Numbered : import[s] = "moving" /\ holder[s] = r
                              THEN {r} ELSE {})
    /\ UNCHANGED <<number, failed, import, holder, next, tries, allowed>>

Over(r) == /\ import' = [import EXCEPT ![r] = "none"]
           /\ holder' = [holder EXCEPT ![r] = r]
           /\ next' = [next EXCEPT ![r] = 0] /\ tries' = [tries EXCEPT ![r] = 0]
\* The write goes through when no other row holds the number.
Write(r) ==
    /\ number' = [number EXCEPT ![r] = theirs[r]] /\ mapped' = mapped \cup {r}
    /\ Over(r) /\ UNCHANGED <<theirs, due, failed, allowed, crossed>>
\* The import fails: its delivery stays open and is replayed.
Fail(r) ==
    /\ Over(r) /\ failed' = failed \cup {r}
    /\ UNCHANGED <<theirs, number, mapped, due, allowed, crossed>>
To(r, step) == import' = [import EXCEPT ![r] = step]

\* writeOne: update the row or insert it; refused (23505), see who holds the number.
Begin(r) ==
    /\ r \in due /\ import[r] = "none" /\ due' = due \ {r}
    /\ UNCHANGED <<theirs, failed, holder, next, tries, allowed, crossed>>
    /\ \/ Taken(theirs[r], r) /\ To(r, "refused") /\ UNCHANGED <<number, mapped>>
       \/ /\ ~Taken(theirs[r], r) /\ number' = [number EXCEPT ![r] = theirs[r]]
          /\ mapped' = mapped \cup {r} /\ UNCHANGED import

\* releaseNumber: a row that is gone from the number meanwhile is not looked for again.
Find(r) ==
    /\ import[r] = "refused"
    /\ IF Taken(theirs[r], r)
       THEN /\ holder' = [holder EXCEPT ![r] = CHOOSE h \in Numbered \ {r} : number[h] = theirs[r]]
            /\ To(r, "found") /\ UNCHANGED <<theirs, number, mapped, due, failed, next, tries, allowed, crossed>>
       ELSE Fail(r)

\* A record that is in Zuper is never moved.
Check(r) ==
    /\ import[r] = "found"
    /\ IF holder[r] \in mapped THEN Fail(r)
       ELSE /\ To(r, "moving")
            /\ UNCHANGED <<theirs, number, mapped, due, failed, holder, next, tries, allowed, crossed>>

(* moveToNext: renumber_* in one call where it may be called, else next_* and an update, up  *)
(* to three times while someone else takes the number in between.                            *)
Moved(r, n) == number' = [number EXCEPT ![holder[r]] = n] /\ To(r, "again")
Renumber(r) ==
    /\ import[r] = "moving" /\ allowed /\ Moved(r, Highest(number) + 1)
    /\ UNCHANGED <<theirs, mapped, due, failed, holder, next, tries, allowed, crossed>>
\* Before 2026-09-18 the refusal was the end of it.
AskNextNever(r) == import[r] = "moving" /\ ~allowed /\ next[r] = 0 /\ Fail(r)
AskNext(r) ==
    /\ import[r] = "moving" /\ ~allowed /\ next[r] = 0
    /\ next' = [next EXCEPT ![r] = Highest(number) + 1]
    /\ UNCHANGED <<theirs, number, mapped, due, failed, import, holder, tries, allowed, crossed>>
MoveToNext(r) ==
    /\ import[r] = "moving" /\ next[r] # 0
    /\ \/ /\ ~Taken(next[r], holder[r]) /\ Moved(r, next[r])
          /\ UNCHANGED <<theirs, mapped, due, failed, holder, next, tries, allowed, crossed>>
       \/ /\ Taken(next[r], holder[r]) /\ tries[r] + 1 < Attempts
          /\ next' = [next EXCEPT ![r] = 0] /\ tries' = [tries EXCEPT ![r] = @ + 1]
          /\ UNCHANGED <<theirs, number, mapped, due, failed, import, holder, allowed, crossed>>
       \/ Taken(next[r], holder[r]) /\ tries[r] + 1 = Attempts /\ Fail(r)

\* The second write is the last one of this import.
Again(r) ==
    /\ import[r] = "again"
    /\ IF Taken(theirs[r], r) THEN Fail(r) ELSE Write(r)

\* A replay pass takes every delivery that failed before; those are over when the next begins.
ReplayPass ==
    /\ failed # {} /\ due = {} /\ import = Idle /\ due' = failed /\ failed' = {}
    /\ UNCHANGED <<theirs, number, mapped, import, holder, next, tries, allowed, crossed>>

Import(r) == Begin(r) \/ Find(r) \/ Check(r) \/ Renumber(r) \/ AskNext(r) \/ MoveToNext(r)
                \/ Again(r)
Make(r) == ZuperMakes(r) \/ TuperMakes(r) \/ Push(r)
Work == ReplayPass \/ \E r \in Numbered : Import(r)
Next == Work \/ \E r \in Numbered : Make(r)
Spec == Init /\ [][Next]_vars
FairSpec == Spec /\ WF_vars(Work)

TypeOK ==
    /\ \A r \in Numbered : theirs[r] \in Nat /\ number[r] \in Nat /\ next[r] \in Nat
    /\ mapped \subseteq Numbered /\ crossed \subseteq mapped /\ due \cup failed \subseteq Numbered /\ allowed \in BOOLEAN
    /\ \A r \in Numbered : holder[r] \in Numbered /\ tries[r] < Attempts
    /\ \A r, s \in Numbered : r # s /\ number[r] # 0 => number[r] # number[s]

\* A record that is in Zuper comes to hold the number Zuper gave it: a number Tuper already used
\* is moved, not refused, however the two counts, the moves and the imports cross. Once a record
\* has been pushed between the check and the move, it has lost Zuper's number and may keep others
\* from theirs until it changes again: nothing is claimed.
Arrived == \A r \in Numbered : theirs[r] # 0 => number[r] = theirs[r]
EveryNumberArrives == <>[](crossed = {} => Arrived)
================================================================================
