-------------------------------- MODULE ApiLog --------------------------------
(* The two logs of what the engine did (src/api-log.ts): the calls it made and the *)
(* records it wrote to Tuper, kept in memory and written in batches while more is  *)
(* recorded. A store that is down costs rows, never work. What the rows say, and    *)
(* the warnings, are left out; dropped counts on, where the code starts over once   *)
(* it has warned. One process; a row is a number, in the order they were recorded. *)
EXTENDS Integers, Sequences, FiniteSets

CONSTANTS MaxRecorded,   \* rows recorded
          MaxBuffer, Batch,
          MaxOutages     \* inserts that fail, or whose answer is lost

Logs == {"writes", "calls"}

VARIABLES
    recorded,   \* row -> its log
    buffers,    \* log -> rows in memory
    flight,     \* the batch being inserted, and its log: "none" when no flush runs
    stored,     \* row -> how often the store holds it
    dropped,    \* how many the cap of a buffer cost, as counted
    squeezed,   \* rows a failed batch put back beyond the cap cost, which nobody counts
    unsure,     \* inserts done whose answer was lost
    running,    \* whether the process runs, is stopping, or is gone
    owed,       \* once SIGTERM came to a quiet process: the rows recorded by then
    outages
logVars == <<recorded, buffers, flight, stored, dropped, squeezed, unsure, running, owed, outages>>

Quiet == [log |-> "none", rows |-> <<>>]
Rows == DOMAIN recorded
InOrder(s) == \A i, j \in DOMAIN s : i < j => s[i] < s[j]
Held(r) == \/ \E l \in Logs, i \in 1 .. MaxBuffer : i \in DOMAIN buffers[l] /\ buffers[l][i] = r
           \/ \E i \in DOMAIN flight.rows : flight.rows[i] = r

Init ==
    /\ recorded = <<>> /\ buffers = [l \in Logs |-> <<>>] /\ flight = Quiet
    /\ stored = [r \in 1 .. MaxRecorded |-> 0] /\ dropped = 0 /\ squeezed = {}
    /\ unsure = 0 /\ running = "up" /\ owed = {} /\ outages = 0

Newest(s) == IF Len(s) > MaxBuffer THEN SubSeq(s, Len(s) - MaxBuffer + 1, Len(s)) ELSE s
Outage == outages < MaxOutages /\ outages' = outages + 1

(* logCall, logWrite: never waits for the store; at the cap the oldest goes.               *)
Record(l) ==
    LET s == Append(buffers[l], Len(recorded) + 1) IN
    /\ running # "gone" /\ Len(recorded) < MaxRecorded
    /\ recorded' = Append(recorded, l)
    /\ buffers' = [buffers EXCEPT ![l] = Newest(s)]
    /\ dropped' = dropped + Len(s) - Len(Newest(s))
    /\ UNCHANGED <<flight, stored, squeezed, unsure, running, owed, outages>>

(* flush: batch by batch, the writes first and then the calls; it is over when none is     *)
(* left, and the process with it when it is stopping.                                       *)
Due(b, ls) == {l \in ls : b[l] # <<>>}
First(ls) == IF "writes" \in ls THEN "writes" ELSE "calls"
Send(b, l) ==
    LET n == IF Len(b[l]) < Batch THEN Len(b[l]) ELSE Batch IN
    /\ flight' = [log |-> l, rows |-> SubSeq(b[l], 1, n)]
    /\ buffers' = [b EXCEPT ![l] = SubSeq(@, n + 1, Len(@))]
Onward(b, ls) ==
    IF Due(b, ls) # {} THEN Send(b, First(Due(b, ls))) /\ UNCHANGED running
    ELSE /\ buffers' = b /\ flight' = Quiet
         /\ running' = IF running = "stopping" THEN "gone" ELSE running
Flush ==
    /\ running = "up" /\ flight = Quiet /\ Due(buffers, Logs) # {}
    /\ Onward(buffers, Logs)
    /\ UNCHANGED <<recorded, stored, dropped, squeezed, unsure, owed, outages>>
\* A row of the writes carries a key and is inserted once; a row of the calls has none.
Inserted == [r \in DOMAIN stored |->
    IF \E i \in DOMAIN flight.rows : flight.rows[i] = r
    THEN IF flight.log = "writes" THEN 1 ELSE stored[r] + 1 ELSE stored[r]]
Insert ==
    /\ flight # Quiet /\ stored' = Inserted
    /\ Onward(buffers, IF flight.log = "writes" THEN Logs ELSE {"calls"})
    /\ UNCHANGED <<recorded, dropped, squeezed, unsure, owed, outages>>
\* A mutant: what was recorded meanwhile is forgotten.
PutBackOver(s, rows) == rows
PutBack(s, rows) == Newest(rows \o s)
\* The insert fails, or its answer is lost; the batch goes back in front and this log waits.
InsertFails ==
    LET l == flight.log
        back == PutBack(buffers[l], flight.rows)
        whole == flight.rows \o buffers[l] IN
    /\ flight # Quiet /\ Outage
    /\ \/ stored' = stored /\ unsure' = unsure
       \/ stored' = Inserted /\ unsure' = unsure + 1
    /\ squeezed' = squeezed \cup {whole[i] : i \in 1 .. Len(whole) - MaxBuffer}
    /\ Onward([buffers EXCEPT ![l] = back], IF l = "writes" THEN {"calls"} ELSE {})
    /\ owed' = {} /\ UNCHANGED <<recorded, dropped>>

(* SIGTERM: one flush more, and then the end; a flush that runs already lets it end at     *)
(* once, with what is in memory, and five seconds end it in any case.                       *)
Terminate ==
    /\ running = "up"
    /\ IF flight = Quiet /\ Due(buffers, Logs) # {}
       THEN running' = "stopping" /\ Send(buffers, First(Due(buffers, Logs)))
       ELSE running' = "gone" /\ UNCHANGED <<buffers, flight>>
    /\ owed' = IF flight = Quiet THEN Rows ELSE {}
    /\ UNCHANGED <<recorded, stored, dropped, squeezed, unsure, outages>>
TimeUp ==
    /\ running = "stopping" /\ running' = "gone" /\ owed' = {}
    /\ UNCHANGED <<recorded, buffers, flight, stored, dropped, squeezed, unsure, outages>>

Next == (\E l \in Logs : Record(l)) \/ Flush \/ Insert \/ InsertFails \/ Terminate \/ TimeUp
Spec == Init /\ [][Next]_logVars

TypeOK == /\ recorded \in Seq(Logs) /\ owed \subseteq Rows /\ squeezed \subseteq Rows
          /\ \A l \in Logs : Len(buffers[l]) <= MaxBuffer
          /\ Len(flight.rows) <= Batch /\ (flight = Quiet <=> flight.rows = <<>>)

\* While batches fail, are put back in front of what was recorded meanwhile, and come in again
\* because only their answer was lost: a row is in memory or in the store, or was counted as
\* dropped, or was squeezed out by a batch put back at the cap; a record written is stored once
\* at most, a call once for every answer lost; and memory keeps the order things happened in.
\* A process told to stop while it was quiet has stored what it had recorded.
Unstored == {r \in Rows \ squeezed : stored[r] = 0}
Accounted ==
    /\ LET lost == Cardinality({r \in Unstored : ~Held(r)}) IN
       lost <= dropped /\ (unsure = 0 => lost = dropped)
    /\ running = "gone" => Cardinality(Unstored \cap owed) <= dropped
    /\ \A r \in Rows : stored[r] <= IF recorded[r] = "writes" THEN 1 ELSE 1 + unsure
    /\ \A l \in Logs : InOrder(buffers[l])
==============================================================================
