------------------------------ MODULE MCService ------------------------------
(* What runs beside the records, in one run: the settings (Settings) and their form *)
(* (Dashboard), the command queue (Commands), the passes over whole lists           *)
(* (Collections), the sweep (Sweep) and the log of calls (ApiLog). They share no     *)
(* state here, so a behaviour is one of them at work, and part says which; the      *)
(* others stand still in a state they may start from.                              *)
EXTENDS Commands
CONSTANTS c1, c2, Lacking, MaxSaves, MaxVersion,
          Listed, Askers, MaxEdits, MaxErrors,
          SweptRecords, Window, MaxResyncs, MaxEdited, MaxFailed,
          MaxRecorded, MaxBuffer, Batch, MaxOutages
VARIABLES part,
    docs, firsts, up, applied, loads, engine, slowed,
    saved, lock, history, forms, saves,
    removal, zlist, mapped, alive, current, waiting, serving, asked, answers, errors,
    swept, theirs, mine, newer, passes, hooks, writing, todo, sweeping, left, crossed, excused,
    edited, failed,
    recorded, buffers, flight, stored, dropped, squeezed, unsure, running, owed, outages

\* c1 may have two loads on the way, c2 one; the engine has the one field of the settings that an
\* older version of the form did not save, the form one more.
MCLoads == {<<c1, 1>>, <<c1, 2>>, <<c2, 1>>}
FormFields == Lacking \cup {"inbound"}
S == INSTANCE Settings WITH Fields <- Lacking, Loads <- MCLoads, disturbed <- slowed,
                            Environment <- [f \in Lacking |-> "on"]
D == INSTANCE Dashboard WITH Fields <- FormFields, docs <- saved, MaxVersion <- MaxSaves,
                             Defaults <- [f \in FormFields |-> IF f = "inbound" THEN "on" ELSE "off"]
K == INSTANCE Collections
W == INSTANCE Sweep
A == INSTANCE ApiLog

settingsVars == <<docs, firsts, up, applied, loads, engine, slowed>>
formVars == <<saved, lock, history, forms, saves>>
listVars == <<removal, zlist, mapped, alive, current, waiting, serving, asked, answers, errors>>
sweepVars == <<swept, theirs, mine, newer, passes, hooks, writing, todo, sweeping, left, crossed,
               excused, edited, failed>>
logVars == <<recorded, buffers, flight, stored, dropped, squeezed, unsure, running, owed, outages>>
mcVars == <<part, vars, settingsVars, formVars, listVars, sweepVars, logVars>>

Parts == {"commands", "settings", "form", "lists", "sweep", "log"}
MCInit ==
  /\ part \in Parts /\ Init /\ S!Init /\ D!Init /\ K!Init /\ W!Init /\ A!Init
  /\ part # "settings" => docs = <<>>
  /\ part # "form" => saved[1]["inbound"] = "on"
  /\ part # "lists" => removal = "stays" /\ mapped = {}
  /\ part # "sweep" => swept = "rows"

Others(p) ==
  /\ part = p /\ UNCHANGED part
  /\ p = "commands" \/ UNCHANGED vars
  /\ p = "settings" \/ UNCHANGED settingsVars
  /\ p = "form" \/ UNCHANGED formVars
  /\ p = "lists" \/ UNCHANGED listVars
  /\ p = "sweep" \/ UNCHANGED sweepVars
  /\ p = "log" \/ UNCHANGED logVars
MCNext ==
  \/ Others("commands") /\ Next
  \/ Others("settings") /\ S!Next
  \/ Others("form") /\ D!Next
  \/ Others("lists") /\ K!Next
  \/ Others("sweep") /\ W!Next
  \/ Others("log") /\ A!Next

\* Each part's own fairness, at most three conjuncts of it; the parts at rest have no step to take.
Fair1 == \/ Others("commands") /\ Working(c1)
         \/ Others("settings") /\ S!Following(<<c1, 1>>)
         \/ Others("lists") /\ K!PassStep
         \/ Others("sweep") /\ W!Sweeping
Fair2 == \/ Others("commands") /\ Working(c2)
         \/ Others("settings") /\ S!Following(<<c1, 2>>)
         \/ Others("sweep") /\ W!HookWrites(1)
Fair3 == \/ Others("settings") /\ S!Following(<<c2, 1>>)
         \/ Others("sweep") /\ W!HookWrites(2)
MCSpec == MCInit /\ [][MCNext]_mcVars /\ WF_mcVars(Fair1) /\ WF_mcVars(Fair2) /\ WF_mcVars(Fair3)

\* Every part's types.
TypesOK == TypeOK /\ S!TypeOK /\ D!TypeOK /\ K!TypeOK /\ W!TypeOK /\ A!TypeOK
\* Settings: each container comes to run by the last version (Settings!NewestInForce) and, while one
\* runs, the report comes to name it (Settings!ReportSettles).
SettingsSettle ==
    <>[](/\ \A c \in Containers : up[c] = "up" => S!InForce(c)
         /\ (\E c \in Containers : up[c] = "up") => engine = S!Version)
\* The form: a save undoes nothing its author left alone (Dashboard!NothingUndone), and the history
\* is one chain of saves (Dashboard!HistoryIsChain).
SavesStand == D!SavesStand
\* Commands: each is taken or expires (Commands!EveryAskIsTaken). Whole lists: every ask is answered
\* by a pass begun after it (Collections!EveryAskIsServed).
AsksMet == <>[](Waiting = {} /\ K!AllServed)
\* The sweep: what Zuper holds comes to be what Tuper holds (Sweep!EveryChangeArrives).
EveryChangeArrives == W!EveryChangeArrives
\* The log: every row recorded is accounted for (ApiLog!Accounted).
Accounted == A!Accounted
=============================================================================
