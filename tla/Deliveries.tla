------------------------------ MODULE Deliveries ------------------------------
(* Which work a delivery asks for, and when it is closed (processEvent in          *)
(* src/processor.ts over the routes of Routes): nothing, a list to read again, one *)
(* record or the several a bulk action names, to be read again or marked deleted,  *)
(* or the notes of a record. Inbox has the turns, the passes and the failures of   *)
(* one record's sync; here a record is read and written in one step.               *)
EXTENDS Routes, FiniteSets, Naturals

CONSTANTS Named,      \* records of one module that deliveries name
          Slots,      \* deliveries, numbered as what they tell of happens
          MaxTries,   \* replayMaxAttempts
          MaxTrouble  \* bound: reads and writes that fail

VARIABLES
    module,    \* the module all of them are of
    theirs,    \* record -> live or gone in Zuper
    ours,      \* record -> live, deleted, or none before it is imported
    told,      \* delivery -> its event
    names,     \* delivery -> the uids found in its body
    status,    \* delivery -> none, open, bulk while it goes through them, or closed
    noted,     \* delivery -> whether it was closed with a reason or an error
    tries, todo, failures,
    owed,      \* delivery -> what its event changed and Tuper does not show
    trouble
vars == <<module, theirs, ours, told, names, status, noted, tries, todo, failures, owed, trouble>>

Quiet == [module |-> "JOB", what |-> "later", prefixed |-> FALSE, deletes |-> FALSE]

Init ==
    /\ module \in DOMAIN Modules
    /\ theirs = [u \in Named |-> "live"] /\ ours \in {[u \in Named |-> IF u \in ns THEN "none" ELSE "live"] : ns \in {{}, {1}}}
    /\ told = [d \in Slots |-> Quiet] /\ names = [d \in Slots |-> {}]
    /\ status = [d \in Slots |-> "none"] /\ noted = [d \in Slots |-> FALSE]
    /\ tries = [d \in Slots |-> 0] /\ todo = names /\ failures = [d \in Slots |-> FALSE]
    /\ owed = names /\ trouble = 0

Goes(e) == e.what = "removed" \/ (e.what = "bulk" /\ e.deletes)
Whose(e) == CASE e.what = "bulk" -> SUBSET Named \ {{}}
              [] e.what = "listed" \/ e.module = "TIMESHEET" -> {{}}
              [] e.what = "later" -> {{}} \cup {{u} : u \in Named}
              [] OTHER -> {{u} : u \in Named}
Tells(e) == CASE e.what \in {"aside", "listed"} -> {}
              [] e.what \in {"noted", "unnoted"} -> {"notes"}
              [] OTHER -> {"record"}
\* Something happens in Zuper to records of the module, and the delivery that tells of it is stored.
Happen(d, e) ==
    /\ status[d] = "none" /\ (\A c \in Slots : c < d => status[c] # "none")
    /\ e.deletes => e.what = "bulk"
    /\ e.prefixed \/ e.what = "later"
    /\ \E us \in Whose(e) :
          /\ Goes(e) => \A u \in us : theirs[u] = "live"
          /\ theirs' = [u \in Named |-> IF Goes(e) /\ u \in us THEN "gone" ELSE theirs[u]]
          /\ names' = [names EXCEPT ![d] = us] /\ owed' = [owed EXCEPT ![d] = us \X Tells(e)]
    /\ told' = [told EXCEPT ![d] = e] /\ status' = [status EXCEPT ![d] = "open"]
    /\ UNCHANGED <<module, ours, noted, tries, todo, failures, trouble>>

Route(d) == ResolveRoute(told[d])
One(d) == CHOOSE u \in names[d] : TRUE
Trouble == trouble < MaxTrouble /\ trouble' = trouble + 1
\* What is written shows every change of it made by then.
Shows(u, part) == owed' = [d \in Slots |-> owed[d] \ {<<u, part>>}]
Unwritten == UNCHANGED <<ours, owed>>

\* finish: closed, with what there is to say of it, or left open for a replay.
Close(d, reason) == /\ status' = [status EXCEPT ![d] = "closed"]
                    /\ noted' = [noted EXCEPT ![d] = reason] /\ UNCHANGED <<tries, todo, failures>>
Fail(d) == /\ tries' = [tries EXCEPT ![d] = @ + 1] /\ Unwritten
           /\ UNCHANGED <<status, noted, todo, failures>>
Still == UNCHANGED <<module, theirs, told, names>>

Begins(d) == status[d] = "open" /\ tries[d] < MaxTries /\ Still
Skip(d) == Begins(d) /\ Route(d).skip /\ Close(d, TRUE) /\ Unwritten /\ UNCHANGED trouble
\* A list pass that wrote nothing and failed on rows is closed with its error, one that wrote some
\* without; one that could not read the list is tried again.
List(d) ==
    /\ Begins(d) /\ ~Route(d).skip /\ Route(d).collection /\ Unwritten
    /\ \/ Close(d, FALSE) /\ UNCHANGED trouble
       \/ Trouble /\ Close(d, TRUE)
       \/ Trouble /\ Fail(d)
Routed(d) == Begins(d) /\ ~Route(d).skip /\ ~Route(d).collection
\* No uid in the body: not closed, and tried again.
Unnamed(d) == Routed(d) /\ names[d] = {} /\ Fail(d) /\ UNCHANGED trouble

MarkDeleted(u) ==
    IF ours[u] = "none" THEN Shows(u, "record") /\ UNCHANGED ours
    ELSE ours' = [ours EXCEPT ![u] = "deleted"] /\ Shows(u, "record")
Reread(u) == /\ theirs[u] = "live" /\ ours' = [ours EXCEPT ![u] = "live"] /\ Shows(u, "record")

\* The one record a delivery names. A record Zuper no longer has answers 404, and that is the end
\* of it only when the copy is already marked.
Notes1(d) == /\ Routed(d) /\ Cardinality(names[d]) = 1 /\ Route(d).noteHost
             /\ \/ /\ ours[One(d)] # "none" /\ Shows(One(d), "notes") /\ UNCHANGED <<ours, trouble>>
                   /\ Close(d, FALSE)
                \/ ours[One(d)] = "none" /\ Fail(d) /\ UNCHANGED trouble
                \/ Trouble /\ Fail(d)
Delete1(d) == /\ Routed(d) /\ Cardinality(names[d]) = 1
              /\ Route(d).deletion /\ ~Route(d).noteHost
              /\ \/ MarkDeleted(One(d)) /\ Close(d, FALSE) /\ UNCHANGED trouble
                 \/ Trouble /\ Fail(d)
Sync1(d) == /\ Routed(d) /\ Cardinality(names[d]) = 1
            /\ ~Route(d).deletion /\ ~Route(d).noteHost
            /\ \/ Reread(One(d)) /\ Close(d, FALSE) /\ UNCHANGED trouble
               \/ /\ theirs[One(d)] = "gone" /\ UNCHANGED trouble
                  /\ IF ours[One(d)] = "deleted" THEN Close(d, TRUE) /\ Unwritten ELSE Fail(d)
               \/ Trouble /\ Fail(d)

\* The several records of a bulk action, one after the other; one that fails stops none of them.
Begin(d) == /\ Routed(d) /\ Cardinality(names[d]) > 1
            /\ status' = [status EXCEPT ![d] = "bulk"] /\ todo' = [todo EXCEPT ![d] = names[d]]
            /\ failures' = [failures EXCEPT ![d] = FALSE]
            /\ Unwritten /\ UNCHANGED <<noted, tries, trouble>>
Deleting(d) == Route(d).deletion \/ told[d].deletes
BulkRecord(d, u) ==
    /\ status[d] = "bulk" /\ u \in todo[d] /\ todo' = [todo EXCEPT ![d] = @ \ {u}]
    /\ \/ /\ IF Deleting(d) THEN MarkDeleted(u) ELSE Reread(u)
          /\ UNCHANGED <<failures, trouble>>
       \/ /\ Trouble \/ (~Deleting(d) /\ theirs[u] = "gone" /\ UNCHANGED trouble)
          /\ failures' = [failures EXCEPT ![d] = TRUE] /\ Unwritten
    /\ Still /\ UNCHANGED <<status, noted, tries>>
\* Closed whatever failed: a failed record is named in the reason, and nothing replays it.
EndBulkQuietly(d) == /\ status[d] = "bulk" /\ todo[d] = {} /\ Close(d, FALSE)
                     /\ Still /\ Unwritten /\ UNCHANGED trouble
EndBulk(d) == /\ status[d] = "bulk" /\ todo[d] = {} /\ Close(d, failures[d])
              /\ Still /\ Unwritten /\ UNCHANGED trouble

ProcessEvent(d) == \/ Skip(d) \/ List(d) \/ Unnamed(d) \/ Notes1(d) \/ Delete1(d) \/ Sync1(d)
                   \/ Begin(d) \/ EndBulk(d) \/ \E u \in Named : BulkRecord(d, u)
Events == [module : {module}, what : Offered(module), prefixed : BOOLEAN, deletes : BOOLEAN]
Next == \E d \in Slots : ProcessEvent(d) \/ \E e \in Events : Happen(d, e)
Spec == Init /\ [][Next]_vars

TypeOK ==
    /\ \A d \in Slots : /\ status[d] \in {"none", "open", "bulk", "closed"} /\ tries[d] <= MaxTries
                        /\ todo[d] \subseteq names[d] /\ names[d] \subseteq Named
                        /\ status[d] # "bulk" => todo[d] = {}
    /\ \A u \in Named : theirs[u] \in {"live", "gone"} /\ ours[u] \in {"none", "live", "deleted"}

\* A delivery closed without a word is done: what its event changed, in every record it names, is
\* shown, whatever else happened to them and to the other deliveries.
ClosedIsDone == \A d \in Slots : status[d] = "closed" /\ ~noted[d] => owed[d] = {}

\* A copy is marked deleted only when Zuper has no such record: not for a note or a file that
\* went, and not for a rule or a series that did.
DeletedIsGone == \A u \in Named : ours[u] = "deleted" => theirs[u] = "gone"

\* A bulk action that deletes is carried out: once its delivery is closed or given up, with
\* nothing failing on the way, what it names is not live here.
BulkDeletes == \A d \in Slots : told[d].deletes /\ trouble = 0
                    /\ (status[d] = "closed" \/ tries[d] = MaxTries)
                        => \A u \in names[d] : ours[u] # "live"
===============================================================================
