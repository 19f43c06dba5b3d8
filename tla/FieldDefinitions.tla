--------------------------- MODULE FieldDefinitions ---------------------------
(* How the definition of a custom field is kept (ensureZuperFieldDefinitions in *)
(* src/lib/migration/zuper-sync.ts): every record names the field's kind and     *)
(* key as they were when it was made, the newest record is to decide, and what    *)
(* decided is kept with the definition for the runs that come later. A run reads  *)
(* the definitions once and compares every record with that; its records, and the *)
(* runs, go side by side. The column type a definition is added with is not here: *)
(* no later record changes it.                                                   *)
EXTENDS Naturals

CONSTANTS FieldKinds, \* what a record may say of the field
          Times,      \* when a record was made, from 1; 0 is a record without a time
          MaxPasses,  \* runs: passes over many records,
          EventRuns,  \* and those of them that are events, which read one
          Lanes       \* the records of a pass that are worked on side by side, by number

VARIABLES
    definition, \* what is stored: the kind, and the time of the record that decided (zuper_seen_at)
    seen,       \* a run's memory of the field: the newest record it has met, or unmet
    rows,       \* the definition as the run has it in memory, or not read
    doing,      \* the record in each lane: asking for the definition, writing it, or none
    newest,     \* the newest record the runs have met
    unsaid,     \* the newest record did not get to say what it is, or not that it was the newest
    apart       \* so far one record at a time, one run after the other, and every answer heard
vars == <<definition, seen, rows, doing, newest, unsaid, apart>>

Runs == 1 .. MaxPasses
Answers == [at : Times \cup {0}, says : FieldKinds]
Missing == [says |-> "none", at |-> 0]
Unmet == [met |-> FALSE, at |-> 0]
Unread == [read |-> FALSE, row |-> Missing]
Idle == [step |-> "idle", rec |-> Missing, image |-> Missing, kept |-> FALSE]

Init == /\ definition = Missing /\ newest = Missing /\ unsaid = FALSE /\ apart = TRUE
        /\ seen = [c \in Runs |-> Unmet] /\ rows = [c \in Runs |-> Unread]
        /\ doing = [c \in Runs |-> [l \in Lanes |-> Idle]]

\* A record no newer than what the run has met says nothing.
Fresh(c, r) == ~seen[c].met \/ r.at > seen[c].at
OlderNever(r, row) == FALSE
Older(r, row) == r.at # 0 /\ row.at # 0 /\ r.at < row.at
\* What the run has in memory is changed where the record differs and is not older, or left alone.
Leaves(r, row) == row # Missing /\ (r.says = row.says \/ Older(r, row))

\* A record is over that was compared with a row. What it says is in doubt when that row was not
\* what is stored, when it has no time, or when it is newer and agreed: no time is kept for it then.
Meets(r, row) ==
    LET doubt == \/ row # definition \/ (r.at = 0 /\ definition # Missing)
                 \/ Leaves(r, row) /\ r.at > row.at
    IN IF r.at >= newest.at THEN newest' = r /\ unsaid' = doubt
       ELSE UNCHANGED newest /\ unsaid' = (unsaid \/ doubt)

\* The comparison, and what is sent for it.
Compare(c, l, r, row, others) ==
    IF Leaves(r, row)
    THEN doing' = [others EXCEPT ![c][l] = Idle] /\ Meets(r, row)
    ELSE /\ doing' = [others EXCEPT ![c][l] = [step |-> "writing", rec |-> r, image |-> row, kept |-> TRUE]]
         /\ UNCHANGED <<newest, unsaid>>
\* The rows a run has in memory are read anew, or forgotten: another lane's are its own from then on.
Apart(c) == [doing EXCEPT ![c] = [k \in Lanes |-> [doing[c][k] EXCEPT !.kept = FALSE]]]

Take(c, l, r) ==
    /\ \A k \in Lanes : k < l => doing[c][k] # Idle
    /\ doing[c][l] = Idle /\ Fresh(c, r) /\ (c \in EventRuns => ~seen[c].met)
    /\ seen' = [seen EXCEPT ![c] = [met |-> TRUE, at |-> r.at]]
    /\ IF rows[c].read THEN Compare(c, l, r, rows[c].row, doing)
       ELSE /\ doing' = [doing EXCEPT ![c][l] = [Idle EXCEPT !.step = "asking", !.rec = r]]
            /\ UNCHANGED <<newest, unsaid>>
    /\ apart' = (apart /\ \A d \in Runs : (\A k \in Lanes : doing[d][k] = Idle) /\ (d > c => ~seen[d].met))
    /\ UNCHANGED <<definition, rows>>
Read(c, l) ==
    /\ doing[c][l].step = "asking" /\ rows' = [rows EXCEPT ![c] = [read |-> TRUE, row |-> definition]]
    /\ Compare(c, l, doing[c][l].rec, definition, Apart(c))
    /\ UNCHANGED <<definition, seen, apart>>

\* It is added, unless somebody has added it since, and the run reads again; or changed, whatever it
\* is by now, and what the run has in memory with it. The answer may be lost, and the record fails.
Stands(r, row) == [says |-> r.says, at |-> IF r.at # 0 THEN r.at ELSE row.at]
Write(c, l) ==
    LET d == doing[c][l]
    IN /\ d.step = "writing" /\ Meets(d.rec, d.image)
       /\ definition' = IF d.image = Missing /\ definition # Missing THEN definition ELSE Stands(d.rec, d.image)
       /\ \/ /\ d.image = Missing /\ rows' = [rows EXCEPT ![c] = Unread]
             /\ doing' = [Apart(c) EXCEPT ![c][l] = Idle] /\ UNCHANGED apart
          \/ /\ d.image # Missing /\ doing' = [doing EXCEPT ![c][l] = Idle] /\ UNCHANGED apart
             /\ rows' = IF d.kept THEN [rows EXCEPT ![c].row = Stands(d.rec, d.image)] ELSE rows
          \/ doing' = [doing EXCEPT ![c][l] = Idle] /\ apart' = FALSE /\ UNCHANGED rows
       /\ UNCHANGED seen
\* The read or the write fails: the run has met the record all the same.
Fails(c, l) ==
    LET r == doing[c][l].rec IN
    /\ doing[c][l] # Idle /\ doing' = [doing EXCEPT ![c][l] = Idle]
    /\ IF r.at >= newest.at THEN newest' = r /\ unsaid' = TRUE ELSE UNCHANGED <<newest, unsaid>>
    /\ UNCHANGED <<definition, seen, rows, apart>>

Next == \E c \in Runs, l \in Lanes :
            (\E r \in Answers : Take(c, l, r)) \/ Read(c, l) \/ Write(c, l) \/ Fails(c, l)
Spec == Init /\ [][Next]_vars

TypeOK == /\ definition \in Answers \cup {Missing} /\ newest \in Answers \cup {Missing}
          /\ \A c \in Runs, l \in Lanes : doing[c][l].step \in {"idle", "asking", "writing"}

\* The newest record met says what the definition is, over all runs and not only within the one
\* that met it; unless it failed, was compared with what another record or run had changed in the
\* meantime, had no time, or only agreed with what was decided, which is then not remembered as
\* decided so lately. And what a record is compared with is what is stored, as long as they come
\* one at a time: the run keeps what it has in memory as it changes it.
NewestDecides ==
    /\ ~unsaid => definition.says = newest.says
    /\ apart => \A c \in Runs, l \in Lanes :
                   doing[c][l].step = "writing" => doing[c][l].image = definition
===============================================================================
