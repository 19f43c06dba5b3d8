-------------------------------- MODULE Inbox --------------------------------
(***************************************************************************)
(* Zuper -> Tuper: the webhook receiver (src/receiver.ts), the processing  *)
(* of one stored delivery (processEvent, syncRecord, markDeleted in        *)
(* src/processor.ts) and the replay of the unfinished ones                 *)
(* (src/reconcile.ts, processPending).                                     *)
(*                                                                         *)
(* A record is reduced to the version of it that was read.  A row has two  *)
(* parts, because a job's row is written by a first pass and then by its   *)
(* later passes, each from a read of its own.  The per-record turn of      *)
(* oneAtATime is a holder per uid; Chains shows the code provides it.      *)
(***************************************************************************)
EXTENDS Naturals, Sequences, FiniteSets

CONSTANTS Uids,         \* Zuper records
          Enriched,     \* those whose entity has later passes (jobs)
          Recoverable,  \* those Zuper can bring back after deleting them
          MaxAttempts,  \* replayMaxAttempts
          Batch,        \* replayBatch
          MaxVer,       \* bound: versions of one record
          MaxInbox,     \* bound: deliveries that arrive
          Disturbances, \* what may go wrong, or be switched, in this model
          MaxDisturbed  \* bound: how often it does

ASSUME InboxAssumption ==
  /\ Enriched \subseteq Uids /\ Recoverable \subseteq Uids
  /\ MaxAttempts \in Nat \ {0} /\ Batch \in Nat \ {0}
  /\ MaxVer \in Nat /\ MaxInbox \in Nat /\ MaxDisturbed \in Nat

VARIABLES zuper,     \* zuper[u]: the version Zuper holds, and whether it is live
          sent,      \* the events Zuper has sent; any may arrive never, late or again
          inbox,     \* sync.webhook_events, oldest first
          rows,      \* rows[u]: the Tuper rows made for u
          map,       \* jms.zuper_sync_map: which of rows[u] is u's, 0 when unmapped
          holder,    \* holder[u]: the run whose turn it is under key u
          runs,      \* the executions of processEvent
          batch,     \* the deliveries the replay selected and has not reached yet
          inbound,   \* config.inbound
          disturbed  \* how many disturbances there have been

vars == <<zuper, sent, inbox, rows, map, holder, runs, batch, inbound, disturbed>>

\* Run n > 0 is the one setImmediate starts for the n-th delivery; run 0 is the replay's.
Runs == 0 .. MaxInbox

Event == [uid : Uids, kind : {"change", "delete", "unrouted"}, ver : Nat]
Delivery == [uid : Uids, kind : {"change", "delete", "unrouted"}, ver : Nat,
             stored : BOOLEAN, verified : BOOLEAN, closed : BOOLEAN,
             error : {"none", "skipped", "failed"}, attempts : Nat]
Row == [main : Nat, detail : Nat, deleted : BOOLEAN]
Inside == {"fetch", "write", "map", "enrich", "mark"}
Run == [pc : {"idle", "begun", "waiting", "gone", "finish"} \cup Inside,
        d : Nat, attempt : Nat, read : Nat, row : Nat,
        outcome : {"none", "skipped", "failed"}]

Idle == [pc |-> "idle", d |-> 0, attempt |-> 0, read |-> 0, row |-> 0, outcome |-> "none"]
Begun(d) == [Idle EXCEPT !.pc = "begun", !.d = d]

TypeOK ==
  /\ zuper \in [Uids -> [ver : Nat, live : BOOLEAN]]
  /\ sent \subseteq Event
  /\ inbox \in Seq(Delivery)
  /\ rows \in [Uids -> Seq(Row)]
  /\ \A u \in Uids : map[u] \in 0 .. Len(rows[u])
  /\ map \in [Uids -> Nat]
  /\ holder \in [Uids -> SUBSET Runs]
  /\ runs \in [Runs -> Run]
  /\ \A r \in Runs : runs[r].pc # "idle" => runs[r].d \in DOMAIN inbox
  /\ batch \subseteq DOMAIN inbox
  /\ inbound \in BOOLEAN
  /\ disturbed \in Nat

Init ==
  /\ zuper = [u \in Uids |-> [ver |-> 0, live |-> FALSE]]
  /\ sent = {} /\ inbox = <<>> /\ batch = {}
  /\ rows = [u \in Uids |-> <<>>]
  /\ map = [u \in Uids |-> 0]
  /\ holder = [u \in Uids |-> {}]
  /\ runs = [r \in Runs |-> Idle]
  /\ inbound = TRUE /\ disturbed = 0

Disturb(what) ==
  /\ what \in Disturbances /\ disturbed < MaxDisturbed
  /\ disturbed' = disturbed + 1
-----------------------------------------------------------------------------
(* Zuper.  Each change, creation or recovery of a record, and each deletion, *)
(* sends an event carrying the uid; ver says which state it announces.       *)
ZuperChange(u) ==
  /\ zuper[u].ver < MaxVer
  /\ zuper[u].live \/ zuper[u].ver = 0 \/ u \in Recoverable
  /\ zuper' = [zuper EXCEPT ![u] = [ver |-> @.ver + 1, live |-> TRUE]]
  /\ sent' = sent \cup {[uid |-> u, kind |-> "change", ver |-> zuper[u].ver + 1]}
  /\ UNCHANGED <<inbox, rows, map, holder, runs, batch, inbound, disturbed>>

ZuperDelete(u) ==
  /\ zuper[u].ver < MaxVer /\ zuper[u].live
  /\ zuper' = [zuper EXCEPT ![u] = [ver |-> @.ver + 1, live |-> FALSE]]
  /\ sent' = sent \cup {[uid |-> u, kind |-> "delete", ver |-> zuper[u].ver + 1]}
  /\ UNCHANGED <<inbox, rows, map, holder, runs, batch, inbound, disturbed>>

\* An event of a module or kind the routes do not know, or skip on purpose.
ZuperUnrouted(u) ==
  /\ zuper[u].live
  /\ sent' = sent \cup {[uid |-> u, kind |-> "unrouted", ver |-> 0]}
  /\ UNCHANGED <<zuper, inbox, rows, map, holder, runs, batch, inbound, disturbed>>
-----------------------------------------------------------------------------
(* The receiver stores the delivery, answers 200 and, unless the header did  *)
(* not match or inbound is off, processes it.  A delivery that could not be  *)
(* stored is processed all the same, and leaves no trace to replay.          *)
Stored(e, verified, kept) ==
  [uid |-> e.uid, kind |-> e.kind, ver |-> e.ver, stored |-> kept, verified |-> verified,
   closed |-> FALSE, error |-> "none", attempts |-> 0]

Receive(e, verified) ==
  LET n == Len(inbox) + 1 IN
  /\ n <= MaxInbox
  /\ \/ inbox' = Append(inbox, Stored(e, verified, TRUE)) /\ UNCHANGED disturbed
     \/ inbox' = Append(inbox, Stored(e, verified, FALSE)) /\ Disturb("capture")
  /\ runs' = [runs EXCEPT ![n] = IF verified /\ inbound THEN Begun(n) ELSE @]
  /\ UNCHANGED <<zuper, sent, rows, map, holder, batch, inbound>>

\* Zuper's deliveries, and posts that claim to be its.
Arrive == \E e \in sent : Receive(e, TRUE)
ArriveUnverified ==
  /\ "unverified" \in Disturbances
  /\ \E u \in Uids, k \in {"change", "delete"} : Receive([uid |-> u, kind |-> k, ver |-> 0], FALSE)
-----------------------------------------------------------------------------
UidOf(r) == inbox[runs[r].d].uid
KindOf(r) == inbox[runs[r].d].kind
Moved(r, pc) == [runs EXCEPT ![r].pc = pc]
Ended(r, outcome) == [runs EXCEPT ![r].pc = "finish", ![r].outcome = outcome]
Released(r) == [holder EXCEPT ![UidOf(r)] = {}]
Mapped(u) == map[u] # 0
\* The row the map names for u.
Held(u) == rows[u][map[u]]

\* The attempt is counted from what the row says now, and written only by finish.
Begin(r) ==
  LET d == runs[r].d IN
  /\ runs[r].pc = "begun"
  /\ runs' = [runs EXCEPT ![r].attempt = inbox[d].attempts + 1,
                          ![r].pc = IF inbox[d].kind = "unrouted" THEN "finish" ELSE "waiting",
                          ![r].outcome = IF inbox[d].kind = "unrouted" THEN "skipped" ELSE "none"]
  /\ UNCHANGED <<zuper, sent, inbox, rows, map, holder, batch, inbound, disturbed>>

\* Slip: nobody waits for anybody.
AcquireAnyway(r) ==
  /\ runs[r].pc = "waiting"
  /\ holder' = [holder EXCEPT ![UidOf(r)] = {r}]
  /\ runs' = Moved(r, IF KindOf(r) = "delete" THEN "mark" ELSE "fetch")
  /\ UNCHANGED <<zuper, sent, inbox, rows, map, batch, inbound, disturbed>>

\* Slip: the deletion is applied without waiting for its turn.
AcquireUnlessDelete(r) ==
  /\ runs[r].pc = "waiting"
  /\ KindOf(r) # "delete" => holder[UidOf(r)] = {}
  /\ holder' = IF KindOf(r) = "delete" THEN holder ELSE [holder EXCEPT ![UidOf(r)] = {r}]
  /\ runs' = Moved(r, IF KindOf(r) = "delete" THEN "mark" ELSE "fetch")
  /\ UNCHANGED <<zuper, sent, inbox, rows, map, batch, inbound, disturbed>>

\* oneAtATime(uid, ...)
Acquire(r) ==
  /\ runs[r].pc = "waiting"
  /\ holder[UidOf(r)] = {}
  /\ holder' = [holder EXCEPT ![UidOf(r)] = {r}]
  /\ runs' = Moved(r, IF KindOf(r) = "delete" THEN "mark" ELSE "fetch")
  /\ UNCHANGED <<zuper, sent, inbox, rows, map, batch, inbound, disturbed>>

Fetch(r) ==
  LET u == UidOf(r) IN
  /\ runs[r].pc = "fetch" /\ zuper[u].live
  /\ runs' = [runs EXCEPT ![r].pc = "write", ![r].read = zuper[u].ver]
  /\ UNCHANGED <<zuper, sent, inbox, rows, map, holder, batch, inbound, disturbed>>

\* Zuper answers 404 to a read of a record it has deleted.
FetchGone(r) ==
  /\ runs[r].pc \in {"fetch", "enrich"} /\ ~zuper[UidOf(r)].live
  /\ runs' = Moved(r, "gone")
  /\ holder' = Released(r)
  /\ UNCHANGED <<zuper, sent, inbox, rows, map, batch, inbound, disturbed>>

\* Slip: the failure of a pass is logged and forgotten.
PassFailsQuietly(r) ==
  /\ \/ runs[r].pc \in {"fetch", "enrich"} /\ Disturb("fetch")
     \/ runs[r].pc \in {"write", "enrich", "mark"} /\ Disturb("write")
  /\ runs' = Ended(r, "none")
  /\ holder' = Released(r)
  /\ UNCHANGED <<zuper, sent, inbox, rows, map, batch, inbound>>

\* A Zuper 500 or timeout, or a write Tuper refuses.
PassFails(r) ==
  /\ \/ runs[r].pc \in {"fetch", "enrich"} /\ Disturb("fetch")
     \/ runs[r].pc \in {"write", "enrich", "mark"} /\ Disturb("write")
  /\ runs' = Ended(r, "failed")
  /\ holder' = Released(r)
  /\ UNCHANGED <<zuper, sent, inbox, rows, map, batch, inbound>>

\* Slip: the answer to the insert is not looked at, and there was no row.
WriteNothing(r) ==
  LET u == UidOf(r)
      id == IF Mapped(u) THEN map[u] ELSE Len(rows[u]) + 1
  IN
  /\ runs[r].pc = "write"
  /\ runs' = [runs EXCEPT ![r].pc = "map", ![r].row = id]
  /\ UNCHANGED <<zuper, sent, inbox, rows, map, holder, batch, inbound, disturbed>>

\* The mapped row is updated, or a row is inserted; either way it is live again.
Write(r) ==
  LET u == UidOf(r)
      v == runs[r].read
      id == IF Mapped(u) THEN map[u] ELSE Len(rows[u]) + 1
  IN
  /\ runs[r].pc = "write"
  /\ rows' = [rows EXCEPT ![u] =
       IF Mapped(u) THEN [@ EXCEPT ![id].main = v, ![id].deleted = FALSE]
                    ELSE Append(@, [main |-> v, detail |-> 0, deleted |-> FALSE])]
  /\ runs' = [runs EXCEPT ![r].pc = "map", ![r].row = id]
  /\ UNCHANGED <<zuper, sent, inbox, map, holder, batch, inbound, disturbed>>

\* setMap: the answer to the upsert is not looked at, so one that failed goes unnoticed.
SetMap(r) ==
  LET u == UidOf(r) IN
  /\ runs[r].pc = "map"
  /\ \/ map' = [map EXCEPT ![u] = runs[r].row] /\ UNCHANGED disturbed
     \/ UNCHANGED map /\ Disturb("setMap")
  /\ IF u \in Enriched
       THEN runs' = Moved(r, "enrich") /\ UNCHANGED holder
       ELSE runs' = Ended(r, "none") /\ holder' = Released(r)
  /\ UNCHANGED <<zuper, sent, inbox, rows, batch, inbound>>

\* The later passes read Zuper again; they only ever add to a mapped row.
Enrich(r) ==
  LET u == UidOf(r) IN
  /\ runs[r].pc = "enrich" /\ zuper[u].live
  /\ IF Mapped(u)
       THEN /\ rows' = [rows EXCEPT ![u][map[u]].detail = zuper[u].ver]
            /\ runs' = Ended(r, "none")
       ELSE /\ runs' = Ended(r, "failed")   \* "is not imported yet"
            /\ UNCHANGED rows
  /\ holder' = Released(r)
  /\ UNCHANGED <<zuper, sent, inbox, map, batch, inbound, disturbed>>

\* markDeleted.  A read of the map that fails looks like an unmapped record.
Mark(r) ==
  LET u == UidOf(r) IN
  /\ runs[r].pc = "mark"
  /\ \/ /\ rows' = IF Mapped(u) THEN [rows EXCEPT ![u][map[u]].deleted = TRUE] ELSE rows
        /\ UNCHANGED disturbed
     \/ UNCHANGED rows /\ Disturb("readMap")
  /\ runs' = Ended(r, "none")
  /\ holder' = Released(r)
  /\ UNCHANGED <<zuper, sent, inbox, map, batch, inbound>>

\* After a 404: nothing is left to do when the row is already flagged deleted.
CheckHeld(r) ==
  LET u == UidOf(r) IN
  /\ runs[r].pc = "gone"
  /\ runs' = Ended(r, IF Mapped(u) /\ Held(u).deleted THEN "skipped" ELSE "failed")
  /\ UNCHANGED <<zuper, sent, inbox, rows, map, holder, batch, inbound, disturbed>>

\* finish: processed_at only ever goes from null to a time; the rest is overwritten.
Finish(r) ==
  LET d == runs[r].d
      out == runs[r].outcome
  IN
  /\ runs[r].pc = "finish"
  /\ \/ /\ inbox' = IF inbox[d].stored
                      THEN [inbox EXCEPT ![d].closed = @ \/ out # "failed",
                                         ![d].error = out,
                                         ![d].attempts = runs[r].attempt]
                      ELSE inbox
        /\ UNCHANGED disturbed
     \/ UNCHANGED inbox /\ Disturb("finish")
  /\ runs' = [runs EXCEPT ![r] = Idle]
  /\ UNCHANGED <<zuper, sent, rows, map, holder, batch, inbound>>
-----------------------------------------------------------------------------
(* The replay: a tick selects the oldest unfinished deliveries, then takes   *)
(* them one by one; the next tick waits for the whole batch.                 *)
\* Slips: the replay takes what failed verification; it takes only what was never tried.
PendingUnverified ==
  {d \in DOMAIN inbox : inbox[d].stored /\ ~inbox[d].closed /\ inbox[d].attempts < MaxAttempts}
PendingUntried ==
  {d \in DOMAIN inbox : /\ inbox[d].stored /\ inbox[d].verified
                        /\ ~inbox[d].closed /\ inbox[d].error = "none"}

Pending ==
  {d \in DOMAIN inbox : /\ inbox[d].stored /\ inbox[d].verified
                        /\ ~inbox[d].closed /\ inbox[d].attempts < MaxAttempts}

Tick ==
  /\ inbound /\ runs[0].pc = "idle" /\ batch = {} /\ Pending # {}
  /\ batch' = {d \in Pending : Cardinality({e \in Pending : e < d}) < Batch}
  /\ UNCHANGED <<zuper, sent, inbox, rows, map, holder, runs, inbound, disturbed>>

ReplayNext ==
  /\ runs[0].pc = "idle"
  /\ \E d \in batch :
       /\ \A e \in batch : d <= e
       /\ batch' = batch \ {d}
       /\ runs' = [runs EXCEPT ![0] = Begun(d)]
  /\ UNCHANGED <<zuper, sent, inbox, rows, map, holder, inbound, disturbed>>
-----------------------------------------------------------------------------
\* The dashboard switches Zuper -> Tuper off, or on again.
Switch ==
  /\ Disturb("switch")
  /\ inbound' = ~inbound
  /\ UNCHANGED <<zuper, sent, inbox, rows, map, holder, runs, batch>>

\* The command replay-failed: every failed delivery gets its attempts back.
ReplayFailed ==
  /\ Disturb("replay-failed")
  /\ inbox' = [d \in DOMAIN inbox |->
       IF inbox[d].verified /\ ~inbox[d].closed /\ inbox[d].error = "failed"
         THEN [inbox[d] EXCEPT !.attempts = 0] ELSE inbox[d]]
  /\ UNCHANGED <<zuper, sent, rows, map, holder, runs, batch, inbound>>

\* The process dies and is started again: only the databases remain.
Crash ==
  /\ Disturb("crash")
  /\ runs' = [r \in Runs |-> Idle]
  /\ holder' = [u \in Uids |-> {}]
  /\ batch' = {}
  /\ UNCHANGED <<zuper, sent, inbox, rows, map, inbound>>
-----------------------------------------------------------------------------
Step(r) ==
  \/ Begin(r) \/ Fetch(r) \/ FetchGone(r) \/ Write(r) \/ SetMap(r)
  \/ Enrich(r) \/ Mark(r) \/ CheckHeld(r) \/ Finish(r)

Next ==
  \/ \E u \in Uids : ZuperChange(u) \/ ZuperDelete(u) \/ ZuperUnrouted(u)
  \/ Arrive \/ ArriveUnverified
  \/ \E r \in Runs : Acquire(r) \/ PassFails(r) \/ Step(r)
  \/ Tick \/ ReplayNext
  \/ Switch \/ ReplayFailed \/ Crash

Spec == Init /\ [][Next]_vars

\* Awaits return and the timer fires; turns come in the order they were asked for
\* (Chains), so a run that keeps seeing the turn free gets it.
Fairness ==
  /\ \A r \in Runs : WF_vars(Step(r)) /\ SF_vars(Acquire(r))
  /\ WF_vars(Tick) /\ WF_vars(ReplayNext)

FairSpec == Spec /\ Fairness
-----------------------------------------------------------------------------
Copy(u) == IF Mapped(u) THEN Held(u).main ELSE 0

(* Tuper's copy of a record is always a state the record really had, and no step   *)
(* takes it back to an earlier one, whatever the order deliveries come in and      *)
(* however webhook and replay runs overlap (src/processor.ts, oneAtATime).         *)
M == INSTANCE Mirror WITH source <- [u \in Uids |-> zuper[u].ver],
                          copy <- [u \in Uids |-> Copy(u)]
FollowsZuper == M!MSpec

(* A change delivery that was closed without an error has reached the row, and all *)
(* passes of it: the row shows the state the event announced, or a later one.      *)
Applied(d) ==
  LET u == inbox[d].uid IN
  /\ Mapped(u)
  /\ Held(u).main >= inbox[d].ver
  /\ u \in Enriched => Held(u).detail >= inbox[d].ver

ClosedMeansApplied ==
  \A d \in DOMAIN inbox :
    inbox[d].kind = "change" /\ inbox[d].closed /\ inbox[d].error = "none" => Applied(d)

(* Once a deletion has been dealt with, no late or repeated event brings the row   *)
(* of a record Zuper cannot recover back to life.                                  *)
DeletedStaysDeleted ==
  \A d \in DOMAIN inbox :
    /\ inbox[d].kind = "delete" /\ inbox[d].verified /\ inbox[d].closed
    /\ inbox[d].uid \notin Recoverable
    => ~Mapped(inbox[d].uid) \/ Held(inbox[d].uid).deleted

(* A row is flagged deleted only for a record Zuper has deleted: a delivery that   *)
(* failed verification is stored, and neither the receiver nor the replay acts on  *)
(* it (src/processor.ts:665-670).                                                  *)
DeletedByZuper ==
  \A u \in Uids : Mapped(u) /\ Held(u).deleted =>
    \E e \in sent : e.uid = u /\ e.kind = "delete"

(* One Zuper record has one Tuper row: two deliveries about a new record never     *)
(* insert it twice.                                                                *)
OneRow == \A u \in Uids : Len(rows[u]) <= 1

(* A stored, verified delivery is not left behind: unless inbound is off it is     *)
(* closed or uses up its attempts, through crashes, failed reads and a restart,    *)
(* and a delivery that can never succeed does not keep the ones behind it waiting. *)
Settled(d) == inbox[d].closed \/ inbox[d].attempts >= MaxAttempts
EveryDeliverySettles ==
  \A d \in 1 .. MaxInbox :
    (d \in DOMAIN inbox /\ inbox[d].stored /\ inbox[d].verified)
      ~> (~inbound \/ (d \in DOMAIN inbox /\ Settled(d)))
=============================================================================
