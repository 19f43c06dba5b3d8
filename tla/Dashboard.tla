------------------------------ MODULE Dashboard ------------------------------
(***************************************************************************)
(* The settings form of the dashboard and the saving of it: fromForm and   *)
(* saveSettingsAction (dashboard/src/app/actions.ts), the form's own state *)
(* (settings-form.tsx) and saveSettings (dashboard/src/lib/control.ts).    *)
(*                                                                         *)
(* A document gives each field a value, or lacks it when an older version  *)
(* of the dashboard saved it.  docs keeps the document of every version,   *)
(* because a page may still show an earlier one.                           *)
(***************************************************************************)
EXTENDS Naturals, Sequences

CONSTANTS People, Fields,
          Defaults,     \* what the form shows for a field the document lacks
          Lacking,      \* the fields the first document lacks
          MaxVersion    \* bound: versions saved

Full == [Fields -> {"on", "off"}]
Document == [Fields -> {"on", "off", "missing"}]

VARIABLES docs,     \* sync.settings: the document of each version, the last one stored
          lock,     \* whose transaction holds the row
          history,  \* sync.settings_history
          forms,    \* the form each person has open
          saves     \* the save each person has submitted, as the form was then

vars == <<docs, lock, history, forms, saves>>

Form == [version : Nat, initial : Full, data : Full]
Submitted == [pc : {"none", "sent", "saving"}, form : Form]
Saved == [version : Nat, before : Document, after : Full, initial : Full]

Version == Len(docs)

\* normalise: what is valid is kept, anything else is taken from the base.
Normalise(raw, base) == [f \in Fields |-> IF raw[f] = "missing" THEN base[f] ELSE raw[f]]

\* The form as opened on a version.
Shown(v) ==
  LET d == Normalise(docs[v], Defaults) IN [version |-> v, initial |-> d, data |-> d]

TypeOK ==
  /\ docs \in Seq(Document) /\ history \in Seq(Saved)
  /\ lock \in People \cup {"nobody"}
  /\ forms \in [People -> Form] /\ saves \in [People -> Submitted]
  /\ \A p \in People : (lock = p) <=> (saves[p].pc = "saving")

\* The engine has made the first document, from any environment.
Init ==
  /\ \E env \in Full : docs = <<[f \in Fields |-> IF f \in Lacking THEN "missing" ELSE env[f]]>>
  /\ lock = "nobody" /\ history = <<>>
  /\ forms = [p \in People |-> Shown(1)]
  /\ saves = [p \in People |-> [pc |-> "none", form |-> Shown(1)]]
-----------------------------------------------------------------------------
Dirty(p) == forms[p].data # forms[p].initial

\* Slip: a new version is noted, and the edits in progress are kept as if made on it.
RefreshVersion(p, v) ==
  /\ v # forms[p].version /\ Version < MaxVersion
  /\ forms' = [forms EXCEPT ![p] = IF Dirty(p) THEN [@ EXCEPT !.version = v] ELSE Shown(v)]
  /\ UNCHANGED <<docs, lock, history, saves>>

\* The page shows a version saved so far: its own refresh may be late, or overtaken.  The form takes
\* it in only while nothing is unsaved in it, or when it is exactly what is in it.
Refresh(p, v) ==
  /\ v # forms[p].version /\ Version < MaxVersion
  /\ ~Dirty(p) \/ Shown(v).data = forms[p].data
  /\ forms' = [forms EXCEPT ![p] = Shown(v)]
  /\ UNCHANGED <<docs, lock, history, saves>>

\* "Discard", "Load version": what the page shows replaces what is unsaved.
Reload(p, v) ==
  /\ Dirty(p) /\ Version < MaxVersion
  /\ forms' = [forms EXCEPT ![p] = Shown(v)]
  /\ UNCHANGED <<docs, lock, history, saves>>

\* A form can be edited while its save is under way.
EditField(p, f) ==
  /\ Version < MaxVersion
  /\ forms' = [forms EXCEPT ![p].data[f] = IF @ = "on" THEN "off" ELSE "on"]
  /\ UNCHANGED <<docs, lock, history, saves>>

Submit(p) ==
  /\ saves[p].pc = "none" /\ Dirty(p) /\ Version < MaxVersion
  /\ saves' = [saves EXCEPT ![p] = [pc |-> "sent", form |-> forms[p]]]
  /\ UNCHANGED <<docs, lock, history, forms>>

\* Slip: the stored version is looked at without locking the row.
SaveBeginsUnlocked(p) ==
  /\ saves[p].pc = "sent"
  /\ IF saves[p].form.version # Version
       THEN saves' = [saves EXCEPT ![p].pc = "none"] /\ UNCHANGED lock
       ELSE saves' = [saves EXCEPT ![p].pc = "saving"] /\ lock' = p
  /\ UNCHANGED <<docs, history, forms>>

\* SELECT ... FOR UPDATE.  A version other than the one the form was opened on is refused.
SaveBegins(p) ==
  /\ saves[p].pc = "sent" /\ lock = "nobody"
  /\ IF saves[p].form.version # Version
       THEN saves' = [saves EXCEPT ![p].pc = "none"] /\ UNCHANGED lock
       ELSE saves' = [saves EXCEPT ![p].pc = "saving"] /\ lock' = p
  /\ UNCHANGED <<docs, history, forms>>

\* The update and its line of history are one transaction.  before is the document it started from.
SaveEnds(p) ==
  LET form == saves[p].form IN
  /\ saves[p].pc = "saving"
  /\ docs' = Append(SubSeq(docs, 1, form.version), form.data)
  /\ history' = Append(history, [version |-> form.version + 1, before |-> docs[form.version],
                                 after |-> form.data, initial |-> form.initial])
  /\ saves' = [saves EXCEPT ![p].pc = "none"]
  /\ lock' = "nobody"
  /\ UNCHANGED forms

\* The transaction fails, or its connection is lost: nothing is written.
SaveRollsBack(p) ==
  /\ saves[p].pc = "saving"
  /\ saves' = [saves EXCEPT ![p].pc = "none"]
  /\ lock' = "nobody"
  /\ UNCHANGED <<docs, history, forms>>
-----------------------------------------------------------------------------
Next ==
  \E p \in People :
    \/ \E v \in DOMAIN docs : Refresh(p, v) \/ Reload(p, v)
    \/ \E f \in Fields : EditField(p, f)
    \/ Submit(p) \/ SaveBegins(p) \/ SaveEnds(p) \/ SaveRollsBack(p)

Spec == Init /\ [][Next]_vars
-----------------------------------------------------------------------------
\* Two people's edits: a field its author left alone in the form keeps the value of the version before,
\* whoever saved in between, and however the form and the page's refreshes interleaved.
NothingUndone ==
  \A i \in DOMAIN history :
    LET h == history[i] IN
    \A f \in Fields : h.after[f] = h.initial[f] /\ h.before[f] # "missing" => h.after[f] = h.before[f]

\* The history is the chain of saves, none lost under another of the same version: each line starts
\* from the document the line before it left, and the last line is the document stored.
HistoryIsChain ==
  /\ \A i \in 1 .. Len(history) - 1 : history[i + 1].before = history[i].after
  /\ history # <<>> => docs[Version] = history[Len(history)].after

\* What was saved stands: no save undoes another person's, and none is lost from the history.
SavesStand == NothingUndone /\ HistoryIsChain
=============================================================================
