------------------------------- MODULE NoteHosts -------------------------------
(* The notes of one record (syncHostNotes in src/processor.ts). An event about a    *)
(* note makes the engine list the record's notes page by page, write those that    *)
(* are new or changed, and for a deletion flag the one that went: by its uid when  *)
(* the delivery carries one, else every note held that the list no longer has.     *)
(* Passes over one record take turns (Chains). Notes are what the list serves,     *)
(* newest first; what the sweep writes beside the turns is in Sweep.               *)
EXTENDS Naturals, Sequences, FiniteSets, SequencesExt

CONSTANTS HostNotes,     \* notes, as numbers
          NotePage,      \* notes on a page of the list
          MaxNoteEdits,  \* bound: changes and removals made in Zuper
          MaxNoteErrors  \* bound: reads and writes that fail

VARIABLES
    carries,   \* whether the deliveries carry the note's uid
    imported,  \* whether the record itself is imported
    shown,     \* Zuper's list
    version,   \* note -> changes made of it in Zuper, from 1 once it is there
    copy,      \* note -> the version of its row in Tuper, 0 when there is none
    flagged,   \* notes whose row is marked deleted
    behind,    \* notes changed after the map says they were synced
    queue,     \* deliveries about the record, in the order of their turns; the first is at work
    step,      \* how far it is: waiting, listing, writing or flagging
    page,      \* the page it asks for next
    read,      \* the notes it has read: note -> version, 0 when not listed
    todo,      \* those it has still to write, or to flag
    missed,    \* notes this pass cannot be held to: passed over, or changed after they were read
    astray,    \* notes nothing is claimed of any more
    edits, errors
vars == <<carries, imported, shown, version, copy, flagged, behind, queue, step, page, read, todo,
          missed, astray, edits, errors>>

Nothing == [n \in HostNotes |-> 0]
InZuper == ToSet(shown)
Gone == {n \in HostNotes : version[n] > 0} \ InZuper
Deliver(n, deletion) == queue' = Append(queue, [note |-> n, deletion |-> deletion])
Init ==
    /\ carries \in BOOLEAN /\ imported \in BOOLEAN
    /\ shown = <<>> /\ version = Nothing /\ copy = Nothing /\ flagged = {} /\ behind = {}
    /\ queue = <<>> /\ step = "waiting" /\ page = 1 /\ read = Nothing /\ todo = {}
    /\ missed = {} /\ astray = {} /\ edits = 0 /\ errors = 0

Ours == <<carries, copy, flagged, step, page, read, todo, errors>>
ImportHost == /\ ~imported /\ imported' = TRUE
              /\ UNCHANGED <<carries, shown, version, copy, flagged, behind, queue, step, page,
                             read, todo, missed, astray, edits, errors>>
NewNote(n) ==
    /\ version[n] = 0 /\ version' = [version EXCEPT ![n] = 1] /\ shown' = <<n>> \o shown
    /\ behind' = behind \cup {n} /\ Deliver(n, FALSE)
    /\ UNCHANGED <<imported, missed, astray, edits>> /\ UNCHANGED Ours
Edit == edits < MaxNoteEdits /\ edits' = edits + 1
\* A change made once the note is read, and before it is written: the copy's time says it is newer,
\* so its own delivery writes it only when that names the note.
ChangeNote(n) ==
    /\ n \in InZuper /\ Edit /\ version' = [version EXCEPT ![n] = @ + 1]
    /\ behind' = behind \cup {n} /\ Deliver(n, FALSE)
    /\ missed' = IF ~carries /\ read[n] # 0 THEN missed \cup {n} ELSE missed
    /\ UNCHANGED <<imported, shown, astray>> /\ UNCHANGED Ours
\* The notes after it move up by one: when it was among those already read, or passed over, the next
\* page begins one note too late. Without a uid the note passed over is taken for the one that went;
\* and if it was written once too late (above), its own delivery does not find it.
RemoveNote(n) ==
    LET first == (page - 1) * NotePage IN
    /\ Edit /\ Deliver(n, TRUE)
    /\ \E k \in DOMAIN shown :
        /\ shown[k] = n /\ shown' = RemoveAt(shown, k)
        /\ missed' = IF step = "listing" /\ k <= first /\ first < Len(shown) THEN missed \cup {shown[first + 1]}
                     ELSE missed
    /\ UNCHANGED <<imported, version, behind, astray>> /\ UNCHANGED Ours

Zupers == <<carries, imported, shown, version, edits>>
Over == /\ step' = "waiting" /\ page' = 1 /\ read' = Nothing /\ todo' = {} /\ missed' = {}
Now == Head(queue)
NoteUid == IF carries THEN {Now.note} ELSE {}
\* A pass that fails leaves its delivery open: it is replayed after those that wait.
Fail == /\ queue' = Append(Tail(queue), Now) /\ Over /\ UNCHANGED <<Zupers, copy, flagged, behind>>
Error == errors < MaxNoteErrors /\ errors' = errors + 1

\* The record must be imported; its own event, or a replay of this one, sees to that.
Begin == /\ queue # <<>> /\ step = "waiting" /\ imported /\ step' = "listing"
         /\ UNCHANGED <<Zupers, copy, flagged, behind, queue, page, read, todo, missed, astray,
                        errors>>
NotImported == /\ Len(queue) > 1 /\ step = "waiting" /\ ~imported /\ Fail
               /\ UNCHANGED <<astray, errors>>

PageOf(k) == {shown[i] : i \in {j \in DOMAIN shown : (k - 1) * NotePage < j /\ j <= k * NotePage}}
LastPage(k) == k * NotePage >= Len(shown)
ToWrite(r) == {n \in HostNotes : r[n] # 0 /\ (copy[n] = 0 \/ n \in behind \/ n \in NoteUid)}
ReadPage ==
    LET now == [n \in HostNotes |-> IF n \in PageOf(page) THEN version[n] ELSE read[n]] IN
    /\ step = "listing" /\ read' = now
    /\ IF LastPage(page) THEN step' = "writing" /\ todo' = ToWrite(now) /\ UNCHANGED page
       ELSE page' = page + 1 /\ UNCHANGED <<step, todo>>
    /\ UNCHANGED <<Zupers, copy, flagged, behind, queue, missed, astray, errors>>
\* A page that cannot be read ends the pass before anything is written or flagged.
PageFailsQuietly ==
    /\ step = "listing" /\ Error /\ step' = "writing" /\ todo' = ToWrite(read)
    /\ UNCHANGED <<Zupers, copy, flagged, behind, queue, page, read, missed, astray>>
PageFails == step = "listing" /\ Error /\ Fail /\ UNCHANGED astray

\* A note is written as it was read, and synced now; a row of the list may say it is not deleted.
WriteNote(n) ==
    /\ step = "writing" /\ n \in todo /\ todo' = todo \ {n}
    /\ copy' = [copy EXCEPT ![n] = read[n]] /\ behind' = behind \ {n}
    /\ flagged' \in {flagged, flagged \ {n}}
    /\ UNCHANGED <<Zupers, queue, step, page, read, missed, astray, errors>>
WriteFails == step = "writing" /\ todo # {} /\ Error /\ Fail /\ astray' = astray \cup missed

Held == {n \in HostNotes : copy[n] # 0} \ flagged
Absent == {n \in HostNotes : read[n] = 0}
ToFlag == IF ~Now.deletion THEN {} ELSE Held \cap Absent \cap (IF carries THEN NoteUid ELSE HostNotes)
Written ==
    /\ step = "writing" /\ todo = {} /\ step' = "flagging" /\ todo' = ToFlag
    /\ astray' = astray \cup missed
    /\ UNCHANGED <<Zupers, copy, flagged, behind, queue, page, read, missed, errors>>
Flag(n) ==
    /\ step = "flagging" /\ n \in todo /\ todo' = todo \ {n} /\ flagged' = flagged \cup {n}
    /\ UNCHANGED <<Zupers, copy, behind, queue, step, page, read, missed, astray, errors>>
FlagFails == step = "flagging" /\ todo # {} /\ Error /\ Fail /\ astray' = astray \cup missed
End == /\ step = "flagging" /\ todo = {} /\ queue' = Tail(queue) /\ Over
       /\ UNCHANGED <<Zupers, copy, flagged, behind, astray, errors>>

Sync == \/ ImportHost \/ Begin \/ ReadPage \/ Written \/ End
        \/ \E n \in HostNotes : WriteNote(n) \/ Flag(n)
Next == \/ Sync \/ NotImported \/ PageFails \/ WriteFails \/ FlagFails
        \/ \E n \in HostNotes : NewNote(n) \/ ChangeNote(n) \/ RemoveNote(n)
Spec == Init /\ [][Next]_vars
FairSpec == Spec /\ WF_vars(Sync)

TypeOK ==
    /\ step \in {"waiting", "listing", "writing", "flagging"} /\ page \in 1 .. Cardinality(HostNotes) + 1
    /\ \A n \in HostNotes : copy[n] <= version[n] /\ read[n] <= version[n]
    /\ flagged \subseteq HostNotes /\ todo \subseteq HostNotes
    /\ step = "waiting" => todo = {} /\ read = Nothing

\* The notes come to be Zuper's: each one it lists is here as it says, and each one it removed is
\* flagged, if it ever came over; and no note it lists is flagged. Not claimed of a note that a page
\* boundary passed over while its list was read, nor, when deliveries carry no uid, of one that
\* changed after it was read.
NotesFollow == <>[](\A n \in HostNotes \ astray :
                       /\ n \in InZuper => copy[n] = version[n] /\ n \notin flagged
                       /\ n \in Gone /\ copy[n] # 0 => n \in flagged)
================================================================================
