----------------------------- MODULE Collections -----------------------------
(* Lists Zuper only answers whole (src/collections.ts): every event and every    *)
(* sweep asks for a pass over the list, a burst of asks shares the pass queued    *)
(* behind the one that runs, and a pass that read the list whole also removes     *)
(* what the list no longer holds. One list, of one process.                      *)
EXTENDS Naturals, FiniteSets

CONSTANTS Listed,      \* what Zuper may list, from 1, in the list's order
          Askers,      \* events and sweeps, from 1, in the order they ask
          MaxEdits,    \* changes of the list
          MaxErrors    \* short answers, failed writes, failed reads

VARIABLES
    removal,   \* what becomes of a row no longer listed: it "stays", is "marked" deleted, or is
               \* "removed" with its mapping
    zlist,     \* Zuper's list, and how many times it has changed
    mapped,    \* the rows the sync brought over, as the map of uids has them
    alive,     \* those of them not marked deleted
    current,   \* the pass that runs: its step, what it read and when, what is left to write
    waiting,   \* the asks the queued pass will answer, and those the running one will
    serving,
    asked,     \* asker -> the edits there had been when it asked, before 0
    answers,   \* asker -> not asked, waiting, done or failed; and the edits its pass had read
    errors
collectionVars == <<removal, zlist, mapped, alive, current, waiting, serving, asked, answers, errors>>

NoPass == [step |-> "none", read |-> {}, at |-> 0, todo |-> {}, failed |-> 0]
Pass == [NoPass EXCEPT !.step = "reading"]

Init ==
    /\ removal \in {"stays", "marked", "removed"}
    /\ \E n \in 0 .. Cardinality(Listed) : mapped = {r \in Listed : r <= n}
    /\ alive = mapped /\ zlist = [rows |-> mapped, edits |-> 0]
    /\ current = NoPass /\ waiting = {} /\ serving = {}
    /\ asked = [a \in Askers |-> 0]
    /\ answers = [a \in Askers |-> [state |-> "none", at |-> 0]]
    /\ errors = 0

Error == errors < MaxErrors /\ errors' = errors + 1
Elsewhere == UNCHANGED <<removal, zlist, asked>>

\* Rows are alike, so the one removed is the last.
Shortened == {{r \in zlist.rows : r < q} : q \in {q \in zlist.rows : \A r \in zlist.rows : r <= q}}
Edit ==
    /\ zlist.edits < MaxEdits
    /\ \E rows \in {zlist.rows \cup {r} : r \in Listed \ zlist.rows} \cup Shortened :
        zlist' = [rows |-> rows, edits |-> zlist.edits + 1]
    /\ UNCHANGED <<removal, mapped, alive, current, waiting, serving, asked, answers, errors>>

(* coalesce: an ask starts a pass when none runs, and shares the next one when one does.  *)
\* A mutant: an ask shares the pass that runs.
JoinRunning(a) == IF current = NoPass THEN current' = Pass /\ serving' = {a} /\ UNCHANGED waiting
                  ELSE serving' = serving \cup {a} /\ UNCHANGED <<current, waiting>>
Join(a) == IF current = NoPass THEN current' = Pass /\ serving' = {a} /\ UNCHANGED waiting
           ELSE waiting' = waiting \cup {a} /\ UNCHANGED <<current, serving>>
Ask(a) ==
    /\ answers[a].state = "none" /\ \A e \in Askers : e < a => answers[e].state # "none"
    /\ answers' = [answers EXCEPT ![a].state = "waiting"]
    /\ asked' = [asked EXCEPT ![a] = zlist.edits]
    /\ Join(a)
    /\ UNCHANGED <<removal, zlist, mapped, alive, errors>>

(* A pass: the list is read, which a short answer cuts; its rows are written one by one;  *)
(* then what is mapped and was not listed goes, unless the answer is improbable.          *)
Read ==
    /\ current.step = "reading"
    /\ \E read \in {zlist.rows} \cup {{r \in zlist.rows : r < q} : q \in zlist.rows} :
        /\ IF read = zlist.rows THEN UNCHANGED errors ELSE Error
        /\ current' = [current EXCEPT !.step = "writing", !.read = read, !.todo = read,
                                      !.at = zlist.edits]
    /\ Elsewhere /\ UNCHANGED <<mapped, alive, waiting, serving, answers>>
WriteRow ==
    /\ current.step = "writing"
    /\ \E r \in current.todo : (\A q \in current.todo : r <= q) /\
        \/ /\ mapped' = mapped \cup {r} /\ alive' = alive \cup {r} /\ UNCHANGED errors
           /\ current' = [current EXCEPT !.todo = @ \ {r}]
        \/ /\ Error /\ UNCHANGED <<mapped, alive>>
           /\ current' = [current EXCEPT !.todo = @ \ {r}, !.failed = @ + 1]
    /\ Elsewhere /\ UNCHANGED <<waiting, serving, answers>>
Quarter(n) == IF n <= 4 THEN 1 ELSE (n + 3) \div 4
Gone(read) == mapped \ read
TooMany(read) == Cardinality(Gone(read)) > Quarter(Cardinality(mapped))
Refused(read) == removal = "stays" \/ read = {} \/ TooMany(read)
GoneFromList(read) == IF Refused(read) THEN {} ELSE Gone(read)
\* The pass is over: its asks are answered, and the queued pass begins.
Over(state) ==
    /\ answers' = [a \in Askers |-> IF a \in serving THEN [state |-> state, at |-> current.at]
                                    ELSE answers[a]]
    /\ serving' = waiting /\ waiting' = {}
    /\ current' = IF waiting = {} THEN NoPass ELSE Pass
Finish ==
    /\ current.step = "writing" /\ current.todo = {}
    /\ alive' = alive \ GoneFromList(current.read)
    /\ mapped' = IF removal = "removed" THEN mapped \ GoneFromList(current.read) ELSE mapped
    /\ Over(IF current.failed = 0 THEN "done" ELSE "failed")
    /\ Elsewhere /\ UNCHANGED errors
PassFails ==
    /\ current # NoPass /\ Error /\ Over("failed")
    /\ Elsewhere /\ UNCHANGED <<mapped, alive>>

PassStep == Read \/ WriteRow \/ Finish
Next == Edit \/ (\E a \in Askers : Ask(a)) \/ PassStep \/ PassFails
Spec == Init /\ [][Next]_collectionVars /\ WF_collectionVars(PassStep)

TypeOK == /\ alive \subseteq mapped /\ mapped \subseteq Listed /\ current.todo \subseteq current.read
          /\ serving \cap waiting = {} /\ (current = NoPass => serving \cup waiting = {})

\* Every ask is answered, and as done only by a pass that read the list after the ask, so that what
\* made the event is in it: an ask that comes while a pass runs is not answered by that pass. And
\* where no call failed, a pass that read the list as it is now has left just its rows, except those
\* it refuses to remove - which it does for good, once the rows marked deleted, counted again by
\* every pass, are more than a quarter.
Fresh(a) == answers[a].state = "done" => answers[a].at >= asked[a]
Follows(a) == answers[a].state = "done" /\ answers[a].at = zlist.edits /\ errors = 0 =>
    zlist.rows \subseteq alive /\ (Refused(zlist.rows) \/ alive \subseteq zlist.rows)
AllServed == \A a \in Askers : answers[a].state # "waiting" /\ Fresh(a) /\ Follows(a)
EveryAskIsServed == <>[]AllServed
==============================================================================
