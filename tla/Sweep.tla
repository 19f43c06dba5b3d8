-------------------------------- MODULE Sweep --------------------------------
(* The sweep (src/sweep.ts, src/sweep-records.ts): a timed pass that lists what  *)
(* Zuper holds of a kind, compares it with what Tuper has, and writes what is      *)
(* behind or missing, while webhooks write the same records and some never come.  *)
(* Records of one kind; a write is a read of Zuper and the writing, one at a time  *)
(* for a record (Chains).                                                         *)
EXTENDS Integers, FiniteSetsExt

CONSTANTS SweptRecords, \* records of the kind, 1..n in the list's order
          Window,       \* passes a change stays in the window that is listed (minutesBack)
          MaxResyncs,   \* the cap of a pass
          MaxEdited,    \* changes in Zuper
          MaxFailed     \* writes and lists that fail, passes that do not run

(* "window" is jobs: those changed lately are listed, and read again before they are written. *)
(* "listed" is what is listed whole, compared by time, and read again. "rows" is customers,   *)
(* compared column by column, and "notes", compared by time: both are written from the row    *)
(* the list gave, outside the record's turn. Of notes, those on the pages a pass reads, the    *)
(* newest three hundred.                                                                    *)
SweptKinds == {"window", "listed", "rows", "notes"}

VARIABLES
    swept,    \* the kind
    theirs,   \* record -> how many times it has changed in Zuper
    mine,     \* record -> the version Tuper holds, 0 for none
    newer,    \* the records changed since they were last written: updated_at > synced_at
    passes,   \* record -> passes due since its last change
    hooks,    \* webhooks on the way; those lost never come
    writing,  \* record -> the version a webhook's write has read, 0 for none
    todo,     \* the pass under way: the records it has yet to write -> the version listed
    sweeping, left,
    crossed,  \* what was changed, or written anew, between the read and the write of another
    excused,  \* what a pass failed on, left to the next one, or was not run for
    edited, failed
sweepVars == <<swept, theirs, mine, newer, passes, hooks, writing, todo, sweeping, left, crossed,
               excused, edited, failed>>

ByValue == swept = "rows"
AsListed == swept \in {"rows", "notes"}
NoneOf == [r \in SweptRecords |-> 0]

Init ==
    /\ swept \in SweptKinds /\ theirs = NoneOf /\ mine = NoneOf /\ newer = {}
    /\ passes = NoneOf /\ hooks = {} /\ writing = NoneOf
    /\ todo = <<>> /\ sweeping = FALSE /\ left = 0
    /\ crossed = {} /\ excused = {} /\ edited = 0 /\ failed = 0

Failure == failed < MaxFailed /\ failed' = failed + 1
Zuper == UNCHANGED <<swept, theirs, hooks, edited>>

(* Zuper: a record is made or changed, and says so, or its webhook is lost.               *)
ZuperChange(r) ==
    /\ edited < MaxEdited /\ edited' = edited + 1
    /\ theirs' = [theirs EXCEPT ![r] = @ + 1] /\ newer' = newer \cup {r}
    /\ passes' = [passes EXCEPT ![r] = 0] /\ excused' = excused \ {r}
    /\ hooks' \in {hooks, hooks \cup {r}}
    /\ UNCHANGED <<swept, mine, writing, todo, sweeping, left, crossed, failed>>

\* What a write leaves: the version read stands, and the record looks written now.
Written(r, v) ==
    /\ mine' = [mine EXCEPT ![r] = v] /\ newer' = newer \ {r}
    /\ crossed' = IF v < theirs[r] THEN crossed \cup {r} ELSE crossed \ {r}
HookReads(r) ==
    /\ r \in hooks /\ writing[r] = 0 /\ theirs[r] > 0
    /\ writing' = [writing EXCEPT ![r] = theirs[r]] /\ hooks' = hooks \ {r}
    /\ UNCHANGED <<swept, theirs, mine, newer, passes, todo, sweeping, left, crossed, excused,
                   edited, failed>>
HookWrites(r) ==
    /\ writing[r] > 0 /\ Written(r, writing[r]) /\ writing' = [writing EXCEPT ![r] = 0]
    /\ UNCHANGED <<passes, todo, sweeping, left, excused, failed>> /\ Zuper

(* A pass lists and compares, then writes what it found in turn, up to its cap.            *)
\* A mutant: records Tuper does not have are left out.
BehindMapped(r) == mine[r] > 0 /\ IF ByValue THEN mine[r] # theirs[r] ELSE r \in newer
Behind(r) == theirs[r] > 0 /\ (mine[r] = 0 \/ IF ByValue THEN mine[r] # theirs[r] ELSE r \in newer)
Due == passes' = [r \in SweptRecords |-> IF passes[r] <= Window THEN passes[r] + 1 ELSE passes[r]]
InWindow(r) == swept = "window" => passes[r] < Window
Listing == [r \in {r \in SweptRecords : InWindow(r) /\ Behind(r)} |-> theirs[r]]
Begin ==
    /\ ~sweeping /\ sweeping' = TRUE /\ todo' = Listing /\ left' = MaxResyncs /\ Due
    /\ UNCHANGED <<mine, newer, writing, crossed, excused, failed>> /\ Zuper
\* The list cannot be read, or the engine is down or the inbound switch off when a pass is due.
NotRun ==
    /\ ~sweeping /\ Failure /\ Due /\ excused' = SweptRecords
    /\ UNCHANGED <<mine, newer, writing, todo, sweeping, left, crossed>> /\ Zuper
Pending == DOMAIN todo
Item == Min(Pending)
Going == sweeping /\ Pending # {} /\ left > 0
Next1 == todo' = Restrict(todo, Pending \ {Item}) /\ left' = left - 1
\* The pass reads the record again in its turn, as a webhook does, and the write follows in it
\* (HookWrites).
ReadAgain ==
    /\ Going /\ ~AsListed /\ writing[Item] = 0 /\ Next1
    /\ writing' = [writing EXCEPT ![Item] = theirs[Item]]
    /\ UNCHANGED <<mine, newer, passes, sweeping, crossed, excused, failed>> /\ Zuper
WriteRow ==
    /\ Going /\ AsListed /\ Next1 /\ Written(Item, todo[Item])
    /\ UNCHANGED <<passes, writing, sweeping, excused, failed>> /\ Zuper
WriteFails ==
    /\ Going /\ Next1 /\ Failure /\ excused' = excused \cup {Item}
    /\ UNCHANGED <<mine, newer, passes, writing, sweeping, crossed>> /\ Zuper
EndPass ==
    /\ sweeping /\ (Pending = {} \/ left = 0)
    /\ sweeping' = FALSE /\ todo' = <<>> /\ excused' = excused \cup Pending
    /\ UNCHANGED <<mine, newer, passes, writing, left, crossed, failed>> /\ Zuper

Sweeping == Begin \/ ReadAgain \/ WriteRow \/ EndPass
Next == \/ \E r \in SweptRecords : ZuperChange(r) \/ HookReads(r) \/ HookWrites(r)
        \/ Sweeping \/ NotRun \/ WriteFails
Spec == /\ Init /\ [][Next]_sweepVars /\ WF_sweepVars(Sweeping)
        /\ \A r \in SweptRecords : WF_sweepVars(HookWrites(r))

TypeOK == /\ \A r \in SweptRecords : mine[r] <= theirs[r] /\ writing[r] <= theirs[r]
          /\ left <= MaxResyncs /\ (~sweeping => Pending = {})

\* Webhooks lost, writes failing, passes not run: what Zuper holds comes to be what Tuper holds.
\* What is compared by time is missed when it was changed in Zuper between the read and the write
\* of another writing; what is compared by value is not. A job is also missed when a pass failed on
\* it, was capped or was not run, and it left the window before the next.
Missed(r) == \/ ~ByValue /\ r \in crossed
             \/ swept = "window" /\ passes[r] >= Window /\ r \in excused
EveryChangeArrives == <>[](\A r \in SweptRecords : mine[r] = theirs[r] \/ Missed(r))
==============================================================================
