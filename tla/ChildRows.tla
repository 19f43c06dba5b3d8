------------------------------ MODULE ChildRows ------------------------------
(* The rows that hang off one imported record, and the writer that keeps them   *)
(* (Writers): Zuper's list of them changes, an answer carries it or does not,    *)
(* the writer removes and adds in separate statements, any of which may fail,    *)
(* unheard of or done, and the record is then written again.                     *)
EXTENDS Writers, Naturals, FiniteSets

CONSTANTS Items,      \* what Zuper may list
          MaxGone,    \* MAX_FILES_REMOVED_AT_ONCE
          MaxChanges, \* edits of the list in Zuper
          MaxSlips    \* failures, partial answers, and passes run for nothing

VARIABLES
    kind,    \* the writer's way: gate, how, kept, spares
    listed,  \* Zuper's list now
    changes, slips,
    held,    \* item -> how many rows came over for it
    deleted, \* the items whose row is marked deleted
    ours,    \* the row made in Tuper under the same parent: none, there, gone
    known,   \* the items the map of uids has
    untold,    \* the items a row was added for, and the map not told
    first,   \* the record itself is new: it has not been written before
    answer,  \* what the writer works from: whether it carries the list, and the list
    unknown, \* what was passed over in the last list: what it refers to had not come over then
    step,    \* the writer's next statement
    due      \* Zuper's list has changed, or the last writing of it failed
childVars == <<kind, listed, changes, slips, held, deleted, ours, known, untold, first, answer, unknown, step, due>>

Kind(w) == [gate |-> w.gate, how |-> w.how, kept |-> w.kept, spares |-> w.spares]
Kinds == {Kind(w) : w \in {x \in Writers : x.how # "marks"}}
Removes == kind.how \in {"replace", "diff"}
HasRows == {i \in Items : held[i] > 0} \ deleted
NoAnswer == [told |-> FALSE, list |-> {}]

Init ==
    /\ kind \in Kinds /\ listed \in SUBSET Items /\ changes = 0 /\ slips = 0
    /\ held = [i \in Items |-> 0] /\ deleted = {} /\ ours = "none" /\ known = {} /\ untold = {}
    /\ first = TRUE /\ unknown = {} /\ answer = NoAnswer /\ step = "idle" /\ due = TRUE

Slip == slips < MaxSlips /\ slips' = slips + 1
Outside == UNCHANGED <<kind, listed, changes>>
\* A statement is done: the next follows, or its answer is lost and the writing ends there.
Then(next) == \/ step' = next /\ UNCHANGED <<slips, due>>
              \/ Slip /\ step' = "idle" /\ due' = TRUE

Change ==
    /\ changes < MaxChanges /\ changes' = changes + 1
    /\ listed' \in SUBSET Items \ {listed} /\ due' = TRUE
    /\ UNCHANGED <<kind, slips, held, deleted, ours, known, untold, first, answer, unknown, step>>
MadeInTuper ==
    /\ ours = "none" /\ ~first /\ ours' = "there"
    /\ UNCHANGED <<kind, listed, changes, slips, held, deleted, known, untold, first, answer, unknown, step, due>>

\* Where the writer begins: the gate, and the order of its statements.
\* A mutant: an answer without the list is taken for an empty one.
PassesAbsent(a) == kind.gate \in {"always", "told"} \/ a.list # {}
Passes(a) == \/ kind.gate = "always"
             \/ kind.gate = "told" /\ a.told
             \/ kind.gate = "some" /\ a.list # {}
\* A mutant: the removal is skipped for every record, not only for a new one.
BeginKept == IF kind.how = "replace" THEN (IF kind.kept THEN "insert" ELSE "clear")
             ELSE IF kind.how = "diff" /\ ~kind.spares THEN "prune" ELSE "each"
Begin == IF kind.how = "replace" THEN (IF kind.kept /\ first THEN "insert" ELSE "clear")
         ELSE IF kind.how = "diff" /\ ~kind.spares THEN "prune" ELSE "each"
\* The record is written from a read of Zuper, by an event or a pass; a row of a list may lack
\* what the record's own read carries.
Read ==
    /\ step = "idle"
    /\ \E told \in BOOLEAN :
        /\ IF told /\ due THEN UNCHANGED slips ELSE Slip
        /\ IF told THEN unknown' \in SUBSET listed ELSE UNCHANGED unknown
        /\ answer' = [told |-> told, list |-> IF told THEN listed \ unknown' ELSE {}]
        /\ due' = (due /\ ~told)
    /\ step' = IF Passes(answer') THEN Begin ELSE "idle"
    /\ first' = FALSE /\ Outside /\ UNCHANGED <<held, deleted, ours, known, untold>>

OursGoes == ours' = IF ours = "there" /\ ~kind.spares THEN "gone" ELSE ours
\* Every row of the parent, then the new ones in one insert.
Clear ==
    /\ step = "clear" /\ held' = [i \in Items |-> 0] /\ OursGoes /\ Then("insert")
    /\ Outside /\ UNCHANGED <<deleted, known, untold, first, answer, unknown>>
Insert ==
    /\ step = "insert" /\ Then("idle")
    /\ held' = [i \in Items |->
                   IF i \in answer.list /\ (kind.how = "replace" \/ held[i] = 0) THEN held[i] + 1
                   ELSE held[i]]
    /\ Outside /\ UNCHANGED <<deleted, ours, known, untold, first, answer, unknown>>
\* The rows whose item is not listed any more. A record's files are only marked deleted, and many
\* at once is a wrong answer.
TooMany == kind.spares /\ Cardinality(HasRows \ answer.list) > MaxGone
Prune ==
    /\ step = "prune" /\ Then(IF kind.spares THEN "idle" ELSE "insert")
    /\ IF kind.spares
       THEN deleted' = (IF TooMany THEN deleted ELSE deleted \cup (HasRows \ answer.list)) /\ UNCHANGED held
       ELSE held' = [i \in Items |-> IF i \in answer.list THEN held[i] ELSE 0] /\ UNCHANGED deleted
    /\ OursGoes
    /\ Outside /\ UNCHANGED <<known, untold, first, answer, unknown>>
\* A row an item, looked for first, among those marked deleted too; when all are there the writer
\* goes on.
There(i) == IF kind.how = "mapped" THEN i \in known ELSE held[i] > 0
Each ==
    /\ step = "each"
    /\ \E i \in answer.list :
        /\ ~There(i) /\ held' = [held EXCEPT ![i] = @ + 1]
        /\ \/ known' = known \cup {i} /\ UNCHANGED <<untold, step, slips, due>>
           \/ untold' = untold \cup {i} /\ Slip /\ step' = "idle" /\ due' = TRUE /\ UNCHANGED known
    /\ Outside /\ UNCHANGED <<deleted, ours, first, answer, unknown>>
AllThere ==
    /\ step = "each" /\ \A i \in answer.list : There(i)
    /\ step' = IF kind.how = "diff" THEN "prune" ELSE "idle"
    /\ Outside /\ UNCHANGED <<slips, held, deleted, ours, known, untold, first, answer, unknown, due>>
\* A statement fails: nothing is rolled back, and the record is written again.
Fails ==
    /\ step # "idle" /\ Slip /\ step' = "idle" /\ due' = TRUE
    /\ Outside /\ UNCHANGED <<held, deleted, ours, known, untold, first, answer, unknown>>

Write == Read \/ Clear \/ Insert \/ Prune \/ Each \/ AllThere
Next == Change \/ MadeInTuper \/ Write \/ Fails
Spec == Init /\ [][Next]_childVars /\ WF_childVars(Write)

TypeOK == /\ kind \in Kinds /\ listed \subseteq Items /\ answer.list \subseteq Items
          /\ known \subseteq HasRows \/ Removes
          /\ deleted \subseteq Items /\ unknown \subseteq Items
          /\ step \in {"idle", "clear", "insert", "prune", "each"}

\* However a writing is cut and begun again, no item gets a second row, but where only the map
\* knew it and was not told; and a row made in Tuper goes only with a list that is replaced or
\* compared whole.
RowsStand ==
    /\ \A i \in Items : held[i] > 1 => kind.how = "mapped" /\ i \in untold
    /\ ours = "gone" => Removes /\ ~kind.spares

\* Partial answers and writings cut half way undone, the rows come to be Zuper's list: exactly it
\* where the writer removes, all of it where it does not; but for what was passed over when the
\* record was last written, and a file taken off the list and put back, which stays deleted. An
\* empty list of a writer that only writes a list with something in it, an answer without the list
\* last, where that is taken for an empty one, and too many files gone at once are the exceptions.
Follows ==
    LET follow == listed \ (unknown \cup deleted) IN
    \/ kind.gate = "always" /\ ~answer.told /\ ~first /\ HasRows = {}
    \/ /\ follow \subseteq HasRows
       /\ Removes => \/ HasRows = follow
                     \/ kind.gate = "some" /\ listed \ unknown = {}
                     \/ kind.spares /\ kind.how = "diff" /\ Cardinality(HasRows \ follow) > MaxGone
Settled == step = "idle" /\ Follows
ListFollows == <>[]Settled
==============================================================================
