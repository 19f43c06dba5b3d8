------------------------------- MODULE Outbox -------------------------------
(***************************************************************************)
(* Tuper -> Zuper: the queue of changes made in Tuper (sync.outbox, filled *)
(* by src/receiver-tuper.ts) and the pusher that sends them                *)
(* (src/pusher.ts), with the inbound sync that pushes a record's pending   *)
(* edits before it rewrites the record (src/processor.ts, syncRecord).     *)
(*                                                                         *)
(* A record is reduced to one field, numbered by the edit that set it.     *)
(* What the pusher does about a field depends on which it is: most it      *)
(* compares with Zuper's before sending, and some it reads back after.     *)
(* Time is relative: wait is next_try_at minus now, and a batch knows how  *)
(* long ago it read the clock, because claims and leases are computed from *)
(* that reading and not from the present.                                  *)
(***************************************************************************)
EXTENDS Integers, SequencesExt, FiniteSetsExt

CONSTANTS Containers,   \* processes of this service alive at once (two during a deploy)
          Records, Known, \* records, and those both systems start with
          Listed,       \* records of the kinds PUSH_ENTITIES names
          Compared,     \* those whose field the planner compares with Zuper's
          ReadBack,     \* those whose field is read back after an update
          Tick,         \* names the push loop among the callers of pushPending
          Modes,        \* the values config.push.mode takes in this model
          MaxAttempts,  \* PUSH_MAX_ATTEMPTS
          Batch,        \* PUSH_BATCH: how many records the loop takes at a time
          PerRecord,    \* how many rows are read for each of them (10 in the code)
          Lease,        \* LEASE_MS in minutes: how long a claim lasts
          MaxSlow,      \* bound: the age a batch can reach
          MaxVal,       \* bound: values a record's field takes
          MaxRows,      \* bound: rows that people's edits add to the outbox
          Disturbances, \* what may go wrong, or happen beside a push, in this model
          MaxDisturbed  \* bound: how often it does

ASSUME OutboxAssumption ==
  /\ Known \subseteq Records /\ Listed \subseteq Records /\ Tick \notin Records
  /\ ReadBack \subseteq Compared /\ Compared \subseteq Records
  /\ Modes \subseteq {"off", "dry-run", "live"} /\ Modes # {}
  /\ MaxAttempts \in Nat \ {0} /\ Batch \in Nat \ {0} /\ PerRecord \in Nat \ {0}
  /\ Lease \in Nat \ {0} /\ MaxSlow \in Nat
  /\ MaxVal \in Nat \ {0} /\ MaxRows \in Nat \ {0} /\ MaxDisturbed \in Nat

VARIABLES row,       \* row[k]: the value Tuper shows
          newest,    \* newest[k]: the last value given to k, in either system
          zuper,     \* zuper[k][n]: what Zuper's n-th record for k has held, oldest first
          linked,    \* linked[k]: which of them the map names as k's, 0 when none
          twins,     \* twins[k]: those imported as another Tuper row
          outbox,    \* sync.outbox, oldest first
          wait,      \* wait[i]: minutes until row i is due; not above 0 once it is
          runs,      \* the executions of pushPending
          sync,      \* the inbound sync of a record, in a container
          mode,      \* config.push.mode
          disturbed  \* how many disturbances there have been

vars == <<row, newest, zuper, linked, twins, outbox, wait, runs, sync, mode, disturbed>>
world == <<row, newest, zuper, linked, twins>>

Runs == Containers \X (Records \cup {Tick})   \* <<c, k>> is c's flush of record k
Syncs == Containers \X Records

\* "told": Tuper's webhook is on its way.  "dropped": it came while pushing was off, or
\* could not be queued.  The follow-up of a create names a job's status and people.
\* "gone": the row has been deleted.  edit and planned are the values a row is about.
Status == {"told", "dropped", "queued", "planned", "sent", "failed", "skipped", "gone"}
Row == [rec : Records, op : {"create", "update", "follow"}, edit : Nat, status : Status,
        attempts : Nat, age : {"new", "settled", "old"}, planned : Nat]
Claimed == {"plan", "compare", "send", "verify", "link", "follow", "mark"}
Run == [pc : {"idle", "group", "claim"} \cup Claimed, mode : Modes, age : Nat,
        todo : SUBSET Nat, ids : SUBSET Nat,
        queued : SUBSET Nat, fresh : SUBSET Nat, stale : SUBSET Nat, tries : Nat, want : Nat, link : Nat,
        out : {"none", "sent", "planned", "skipped", "failed", "stop"}]

Idle == [pc |-> "idle", mode |-> CHOOSE m \in Modes : TRUE, age |-> 0, todo |-> {}, ids |-> {},
         queued |-> {}, fresh |-> {}, stale |-> {}, tries |-> 0, want |-> 0, link |-> 0, out |-> "none"]
Asleep == [pc |-> "idle", read |-> 0]

TypeOK ==
  /\ row \in [Records -> Nat] /\ newest \in [Records -> Nat]
  /\ zuper \in [Records -> Seq(Seq(Nat))]
  /\ linked \in [Records -> Nat] /\ \A k \in Records : linked[k] \in 0 .. Len(zuper[k])
  /\ twins \in [Records -> SUBSET Nat]
  /\ outbox \in Seq(Row)
  /\ wait \in [DOMAIN outbox -> Int]
  /\ runs \in [Runs -> Run]
  /\ \A r \in Runs : runs[r].todo \cup runs[r].ids \subseteq DOMAIN outbox
  /\ sync \in [Syncs -> [pc : {"idle", "flush", "read", "write"}, read : Nat]]
  /\ mode \in Modes /\ disturbed \in Nat

Init ==
  /\ row = [k \in Records |-> IF k \in Known THEN 1 ELSE 0]
  /\ newest = row
  /\ zuper = [k \in Records |-> IF k \in Known THEN << <<1>> >> ELSE <<>>]
  /\ linked = [k \in Records |-> IF k \in Known THEN 1 ELSE 0]
  /\ twins = [k \in Records |-> {}]
  /\ outbox = <<>> /\ wait = <<>>
  /\ runs = [r \in Runs |-> Idle]
  /\ sync = [s \in Syncs |-> Asleep]
  /\ mode \in Modes /\ disturbed = 0

Disturb(what) ==
  /\ what \in Disturbances /\ disturbed < MaxDisturbed
  /\ disturbed' = disturbed + 1
Calm == UNCHANGED disturbed
-----------------------------------------------------------------------------
(* Changes.  Each one made in Tuper is told to this service by a webhook.    *)
NewRow(k, op, v) == [rec |-> k, op |-> op, edit |-> v, status |-> "told",
                     attempts |-> 0, age |-> "new", planned |-> 0]

EditInTuper(k) ==
  /\ newest[k] < MaxVal /\ Len(outbox) < MaxRows
  /\ newest[k] = 0 \/ row[k] # 0
  /\ newest' = [newest EXCEPT ![k] = @ + 1]
  /\ row' = [row EXCEPT ![k] = newest'[k]]
  /\ outbox' = Append(outbox, NewRow(k, IF newest[k] = 0 THEN "create" ELSE "update", newest'[k]))
  /\ wait' = Append(wait, 0)
  /\ UNCHANGED <<zuper, linked, twins, runs, sync, mode, disturbed>>

\* Nothing replays a change that cannot be queued, or is queued under a wrong id.
Told(i) ==
  /\ outbox[i].status = "told"
  /\ \/ /\ outbox' = [outbox EXCEPT ![i].status = IF mode = "off" THEN "dropped" ELSE "queued"]
        /\ Calm
     \/ outbox' = [outbox EXCEPT ![i].status = "dropped"] /\ Disturb("unqueued")
  /\ UNCHANGED <<world, wait, runs, sync, mode>>

\* A technician changes the record in Zuper.
EditInZuper(k) ==
  /\ Disturb("zuper-edit")
  /\ linked[k] # 0 /\ newest[k] < MaxVal
  /\ newest' = [newest EXCEPT ![k] = @ + 1]
  /\ zuper' = [zuper EXCEPT ![k][linked[k]] = Append(@, newest'[k])]
  /\ UNCHANGED <<row, linked, twins, outbox, wait, runs, sync, mode>>
-----------------------------------------------------------------------------
Now(k, n) == Last(zuper[k][n])
RecOf(r) == outbox[CHOOSE i \in runs[r].ids : TRUE].rec
Effective(m, k) == IF m = "live" /\ k \notin Listed THEN "dry-run" ELSE m   \* modeFor
Sends(r) == Effective(runs[r].mode, RecOf(r)) = "live"

\* The oldest rows are read, and those of the first records among them kept.
Oldest(S, n) == {i \in S : Cardinality({j \in S : j < i}) < n}
Chosen(due, limit) ==
  LET rows == Oldest(due, limit * PerRecord)
      heads == {i \in rows : \A j \in rows : j < i => outbox[j].rec # outbox[i].rec}
      first == Oldest(heads, limit)
  IN {i \in rows : \E j \in first : outbox[j].rec = outbox[i].rec}
\* Slip: what failed is left where it is, in every mode.
StatusesOnce(m) == IF m = "live" THEN {"queued", "planned"} ELSE {"queued"}
Statuses(m) == IF m = "live" THEN {"queued", "planned", "failed"} ELSE {"queued", "failed"}
Due(i) == wait[i] <= 0
Backoff(attempts) == IF attempts >= 8 THEN 240 ELSE 2 ^ attempts

Go(r, pc) == [runs EXCEPT ![r].pc = pc]
End(r, out) == [runs EXCEPT ![r].pc = "mark", ![r].out = out]

\* oneAtATime("push:<record>"): no other run of this container is inside it for the record.
Inside == {"compare", "verify", "link", "follow"}
Turn(r) == \A q \in Runs \ {r} :
  q[1] = r[1] /\ runs[q].pc \in Inside => RecOf(q) # RecOf(r)
\* JOB_CREATE_LOCK of one container: a create that has been posted is being linked.
Creating(c) == \E q \in Runs : q[1] = c /\ runs[q].pc = "link"

\* The select.  The loop starts one batch at a time, in any mode but off; a flush is live
\* and of one record.
Select(r) ==
  LET m == IF r[2] = Tick THEN mode ELSE "live"
      limit == IF r[2] = Tick THEN Batch ELSE 1
      due == {i \in DOMAIN outbox : /\ outbox[i].status \in Statuses(m)
                                    /\ Due(i) /\ outbox[i].attempts < MaxAttempts
                                    /\ r[2] # Tick => outbox[i].rec = r[2]}
      got == Chosen(due, limit)
  IN
  /\ runs[r].pc = "idle"
  /\ IF r[2] = Tick THEN mode # "off" ELSE sync[r].pc = "flush"
  /\ IF got = {}
       THEN /\ r[2] # Tick
            /\ sync' = [sync EXCEPT ![r].pc = "read"]
            /\ UNCHANGED runs
       ELSE /\ runs' = [runs EXCEPT ![r] = [Idle EXCEPT !.pc = "group", !.mode = m, !.todo = got,
                           !.queued = {i \in got : outbox[i].status = "queued"},
                           !.fresh = {i \in got : outbox[i].age = "new"},
                           !.stale = {i \in got : outbox[i].age = "old" /\ outbox[i].status # "failed"}]]
            /\ UNCHANGED sync
  /\ UNCHANGED <<world, outbox, wait, mode, disturbed>>

Marked(ids, status) ==
  [i \in DOMAIN outbox |-> IF i \in ids THEN [outbox[i] EXCEPT !.status = status] ELSE outbox[i]]

\* The next record of the batch.  Where nothing is sent only fresh rows are taken; a new
\* record is given time to arrive in full; a row that waited too long is not sent any more.
Group(r) ==
  LET k == outbox[Min(runs[r].todo)].rec
      all == {i \in runs[r].todo : outbox[i].rec = k}
      live == Effective(runs[r].mode, k) = "live"
      rows == IF live THEN all ELSE all \cap runs[r].queued
      waiting == rows \cap runs[r].fresh # {} /\ \E i \in rows : outbox[i].op = "create"
      stale == IF live /\ ~waiting THEN rows \cap runs[r].stale ELSE {}
      ids == IF waiting THEN {} ELSE rows \ stale
  IN
  /\ runs[r].pc = "group" /\ runs[r].todo # {}
  /\ outbox' = Marked(stale, "skipped")
  /\ runs' = [runs EXCEPT ![r].todo = @ \ all, ![r].ids = ids,
                          ![r].pc = IF ids = {} THEN "group" ELSE "claim"]
  /\ UNCHANGED <<world, wait, sync, mode, disturbed>>

\* Slip: the claim takes every row the select returned.
ClaimAnyway(r) ==
  /\ runs[r].pc = "claim"
  /\ wait' = [i \in DOMAIN wait |-> IF i \in runs[r].ids THEN Lease - runs[r].age ELSE wait[i]]
  /\ runs' = [runs EXCEPT ![r].pc = "plan", ![r].tries = Max({outbox[i].attempts : i \in runs[r].ids}) + 1]
  /\ UNCHANGED <<world, outbox, sync, mode, disturbed>>

\* The claim: one statement, on the rows no one has claimed or finished meanwhile.
Claim(r) ==
  LET mine == {i \in runs[r].ids : /\ outbox[i].status \in Statuses(runs[r].mode)
                                   /\ wait[i] + runs[r].age <= 0}
  IN
  /\ runs[r].pc = "claim"
  /\ wait' = [i \in DOMAIN wait |-> IF i \in mine THEN Lease - runs[r].age ELSE wait[i]]
  /\ runs' = [runs EXCEPT ![r].ids = mine, ![r].pc = IF mine = {} THEN "group" ELSE "plan",
                          ![r].tries = IF mine = {} THEN 0
                                       ELSE Max({outbox[i].attempts : i \in mine}) + 1]
  /\ UNCHANGED <<world, outbox, sync, mode, disturbed>>

\* Slip: the value pushed is the one queued, not the one the row has by now.
PlanQueued(r) ==
  LET k == RecOf(r) IN
  /\ runs[r].pc = "plan" /\ Turn(r)
  /\ runs' = [runs EXCEPT ![r].want = outbox[Min(runs[r].ids)].edit, ![r].link = linked[k],
                          ![r].pc = IF linked[k] # 0 THEN "compare"
                                    ELSE IF Sends(r) THEN "send" ELSE "mark",
                          ![r].out = IF linked[k] # 0 \/ Sends(r) THEN "none" ELSE "planned"]
  /\ UNCHANGED <<world, outbox, wait, sync, mode, disturbed>>

\* Planning, in the record's turn: Tuper's row and the map are read, then Zuper's record.
PlanRow(r) ==
  LET k == RecOf(r) IN
  /\ runs[r].pc = "plan" /\ Turn(r)
  /\ runs' = [runs EXCEPT ![r].want = row[k], ![r].link = linked[k],
                          ![r].pc = IF linked[k] # 0 THEN "compare"
                                    ELSE IF Sends(r) THEN "send" ELSE "mark",
                          ![r].out = IF linked[k] # 0 \/ Sends(r) THEN "none" ELSE "planned"]
  /\ UNCHANGED <<world, outbox, wait, sync, mode, disturbed>>

\* Slip: a retry does not look at what Zuper already has.
CompareBlindly(r) ==
  /\ runs[r].pc = "compare"
  /\ runs' = IF Sends(r) THEN Go(r, "send") ELSE End(r, "planned")
  /\ UNCHANGED <<world, outbox, wait, sync, mode, disturbed>>

\* Slip: what needs no push is written with a status the queue does not know.
CompareUnchanged(r) ==
  /\ runs[r].pc = "compare"
  /\ runs' = IF Now(RecOf(r), runs[r].link) = runs[r].want THEN End(r, "unchanged")
             ELSE IF Sends(r) THEN Go(r, "send") ELSE End(r, "planned")
  /\ UNCHANGED <<world, outbox, wait, sync, mode, disturbed>>

\* Zuper's record is read and what it shows is left out; a job's description, customer,
\* organization and asset are not looked at and sent anyway.  A create queued for a record
\* that is linked by now names no column to push, and a follow-up only those read back.
Compare(r) ==
  LET k == RecOf(r)
      columns == \E i \in runs[r].ids : \/ outbox[i].op = "update"
                                        \/ outbox[i].op = "follow" /\ k \in ReadBack
      same == k \in Compared /\ Now(k, runs[r].link) = runs[r].want
  IN
  /\ runs[r].pc = "compare"
  /\ \/ /\ Calm
        /\ runs' = IF ~columns \/ same THEN End(r, "skipped")
                   ELSE IF Sends(r) THEN Go(r, "send") ELSE End(r, "planned")
     \/ Disturb("read") /\ runs' = End(r, "failed")
  /\ UNCHANGED <<world, outbox, wait, sync, mode>>

\* Sending an update, in a turn of its own.  Zuper may take it, say so and not take it,
\* refuse it, or take it and never answer.
Put(r) ==
  LET k == RecOf(r)
      taken == [zuper EXCEPT ![k][runs[r].link] = Append(@, runs[r].want)]
  IN
  /\ runs[r].pc = "send" /\ runs[r].link # 0 /\ Turn(r)
  /\ \/ zuper' = taken /\ Calm /\ runs' = Go(r, "verify")
     \/ zuper' = zuper /\ Disturb("ignored") /\ runs' = Go(r, "verify")
     \/ zuper' = zuper /\ Disturb("refused") /\ runs' = End(r, "failed")
     \/ zuper' = taken /\ Disturb("lost") /\ runs' = End(r, "failed")
  /\ UNCHANGED <<row, newest, linked, twins, outbox, wait, sync, mode>>

\* Slip: Zuper's 200 is taken for proof.
VerifyNothing(r) ==
  /\ runs[r].pc = "verify"
  /\ runs' = End(r, "sent")
  /\ UNCHANGED <<world, outbox, wait, sync, mode, disturbed>>

\* The record is read, and some of its fields are looked at: of a job the start of its
\* schedule, status, title and people, of a customer all but the description.  For the
\* others Zuper's 200 is proof.
Verify(r) ==
  LET k == RecOf(r)
      kept == k \in ReadBack /\ Now(k, runs[r].link) # runs[r].want   \* Zuper kept its old value
  IN
  /\ runs[r].pc = "verify"
  /\ \/ /\ runs' = End(r, IF kept THEN "failed" ELSE "sent")
        /\ Calm
     \/ Disturb("read") /\ runs' = End(r, "failed")
  /\ UNCHANGED <<world, outbox, wait, sync, mode>>

\* Slip: a create that got no answer is tried again like any other failure.
PostAgain(r) ==
  LET k == RecOf(r)
      made == [zuper EXCEPT ![k] = Append(@, <<runs[r].want>>)]
  IN
  /\ runs[r].pc = "send" /\ runs[r].link = 0 /\ Turn(r) /\ ~Creating(r[1])
  /\ \/ zuper' = made /\ Calm
        /\ runs' = [runs EXCEPT ![r].pc = "link", ![r].link = Len(made[k])]
     \/ zuper' = zuper /\ Disturb("refused") /\ runs' = End(r, "failed")
     \/ zuper' \in {zuper, made} /\ Disturb("lost") /\ runs' = End(r, "failed")
  /\ UNCHANGED <<row, newest, linked, twins, outbox, wait, sync, mode>>

\* Sending a create.  Without an answer nobody knows whether Zuper made the record, so it
\* is left to a person.
Post(r) ==
  LET k == RecOf(r)
      made == [zuper EXCEPT ![k] = Append(@, <<runs[r].want>>)]
  IN
  /\ runs[r].pc = "send" /\ runs[r].link = 0 /\ Turn(r) /\ ~Creating(r[1])
  /\ \/ zuper' = made /\ Calm
        /\ runs' = [runs EXCEPT ![r].pc = "link", ![r].link = Len(made[k])]
     \/ zuper' = zuper /\ Disturb("refused") /\ runs' = End(r, "failed")
     \/ zuper' \in {zuper, made} /\ Disturb("lost") /\ runs' = End(r, "stop")
  /\ UNCHANGED <<row, newest, linked, twins, outbox, wait, sync, mode>>

\* The map names the new record as k's.  Without that nobody knows it is there: it is
\* left to a person, as when no answer came.
Link(r) ==
  /\ runs[r].pc = "link"
  /\ \/ /\ linked' = [linked EXCEPT ![RecOf(r)] = runs[r].link] /\ Calm
        /\ runs' = Go(r, "follow")
     \/ linked' = linked /\ Disturb("unlinked") /\ runs' = End(r, "stop")
  /\ UNCHANGED <<row, newest, zuper, twins, outbox, wait, sync, mode>>

\* A follow-up is queued for a minute from now: status and people are compared again.
FollowUp(r) ==
  /\ runs[r].pc = "follow"
  /\ outbox' = Append(outbox, [NewRow(RecOf(r), "follow", runs[r].want) EXCEPT !.status = "queued"])
  /\ wait' = Append(wait, 1)
  /\ runs' = End(r, "sent")
  /\ UNCHANGED <<world, sync, mode, disturbed>>

\* The outcome is written on the claimed rows, whoever they belong to by now.
Mark(r) ==
  LET ids == {i \in runs[r].ids : outbox[i].status # "gone"}
      out == runs[r].out
      failed == out \in {"failed", "stop"}
  IN
  /\ runs[r].pc = "mark"
  /\ outbox' = [i \in DOMAIN outbox |->
       IF i \notin ids THEN outbox[i]
       ELSE IF failed THEN [outbox[i] EXCEPT !.status = "failed",
                              !.attempts = IF out = "stop" THEN MaxAttempts ELSE runs[r].tries]
       ELSE [outbox[i] EXCEPT !.status = out, !.planned = runs[r].want]]
  /\ wait' = IF failed THEN [i \in DOMAIN wait |-> IF i \in ids THEN Backoff(runs[r].tries) ELSE wait[i]]
             ELSE wait
  /\ runs' = [runs EXCEPT ![r] = [@ EXCEPT !.pc = "group", !.ids = {}, !.tries = 0,
                                           !.want = 0, !.link = 0, !.out = "none"]]
  /\ UNCHANGED <<world, sync, mode, disturbed>>

\* The batch is over; after a flush the inbound sync reads the record.
Done(r) ==
  /\ runs[r].pc = "group" /\ runs[r].todo = {}
  /\ runs' = [runs EXCEPT ![r] = Idle]
  /\ sync' = IF r[2] = Tick THEN sync ELSE [sync EXCEPT ![r].pc = "read"]
  /\ UNCHANGED <<world, outbox, wait, mode, disturbed>>
-----------------------------------------------------------------------------
(* The inbound sync of a linked record: flush, read Zuper, write the row.    *)
SyncStarts(s) ==
  /\ "inbound" \in Disturbances
  /\ sync[s].pc = "idle" /\ linked[s[2]] # 0
  /\ sync' = [sync EXCEPT ![s].pc = IF Effective(mode, s[2]) = "live" THEN "flush" ELSE "read"]
  /\ UNCHANGED <<world, outbox, wait, runs, mode, disturbed>>

SyncReads(s) ==
  /\ sync[s].pc = "read"
  /\ sync' = [sync EXCEPT ![s] = [pc |-> "write", read |-> Now(s[2], linked[s[2]])]]
  /\ UNCHANGED <<world, outbox, wait, runs, mode, disturbed>>

SyncWrites(s) ==
  /\ sync[s].pc = "write"
  /\ row' = [row EXCEPT ![s[2]] = sync[s].read]
  /\ sync' = [sync EXCEPT ![s] = Asleep]
  /\ UNCHANGED <<newest, zuper, linked, twins, outbox, wait, runs, mode, disturbed>>

\* Slip: the webhook of a job just made is handled without waiting for its link.
ImportAtOnce(c, k) ==
  /\ \E n \in DOMAIN zuper[k] \ (twins[k] \cup {linked[k]}) :
       twins' = [twins EXCEPT ![k] = @ \cup {n}]
  /\ UNCHANGED <<row, newest, zuper, linked, outbox, wait, runs, sync, mode, disturbed>>

\* The webhook of a job Zuper has just made waits until no create is being linked; what
\* the map does not name then is imported as another row.
Import(c, k) ==
  /\ ~Creating(c)
  /\ \E n \in DOMAIN zuper[k] \ (twins[k] \cup {linked[k]}) :
       twins' = [twins EXCEPT ![k] = @ \cup {n}]
  /\ UNCHANGED <<row, newest, zuper, linked, outbox, wait, runs, sync, mode, disturbed>>
-----------------------------------------------------------------------------
\* A minute passes.  A batch is over within the lease unless "slow" is one of the disturbances.
Elapse ==
  /\ \A r \in Runs : runs[r].pc # "idle" =>
       runs[r].age < (IF "slow" \in Disturbances THEN MaxSlow ELSE Lease - 1)
  /\ wait' = [i \in DOMAIN wait |-> IF wait[i] > -MaxSlow THEN wait[i] - 1 ELSE wait[i]]
  /\ outbox' = [i \in DOMAIN outbox |-> [outbox[i] EXCEPT !.age =
                  IF @ = "new" /\ outbox[i].status # "told" THEN "settled" ELSE @]]
  /\ runs' = [r \in Runs |-> IF runs[r].pc = "idle" THEN runs[r] ELSE [runs[r] EXCEPT !.age = @ + 1]]
  /\ UNCHANGED <<world, sync, mode, disturbed>>

\* Hours pass for one row: it was queued too long ago to be sent.
GrowOld(i) ==
  /\ Disturb("old")
  /\ outbox[i].status \in {"queued", "planned"} /\ outbox[i].age = "settled"
  /\ outbox' = [outbox EXCEPT ![i].age = "old"]
  /\ UNCHANGED <<world, wait, runs, sync, mode>>

\* The dashboard changes the mode.
Switch ==
  /\ Disturb("switch")
  /\ mode' \in Modes \ {mode}
  /\ UNCHANGED <<world, outbox, wait, runs, sync>>

\* The command discard-unsent deletes what has not been sent.
DiscardUnsent ==
  /\ Disturb("discard")
  /\ outbox' = Marked({i \in DOMAIN outbox : outbox[i].status \in {"queued", "planned", "failed"}}, "gone")
  /\ UNCHANGED <<world, wait, runs, sync, mode>>

\* A container dies and is started again.
Crash(c) ==
  /\ Disturb("crash")
  /\ runs' = [r \in Runs |-> IF r[1] = c THEN Idle ELSE runs[r]]
  /\ sync' = [s \in Syncs |-> IF s[1] = c THEN Asleep ELSE sync[s]]
  /\ UNCHANGED <<world, outbox, wait, mode>>
-----------------------------------------------------------------------------
InTurn(r) == PlanRow(r) \/ Put(r) \/ Post(r)
Step(r) ==
  \/ Group(r) \/ Claim(r) \/ Compare(r) \/ Verify(r) \/ Link(r)
  \/ FollowUp(r) \/ Mark(r) \/ Done(r)

Next ==
  \/ \E k \in Records : EditInTuper(k) \/ EditInZuper(k)
  \/ \E i \in DOMAIN outbox : Told(i) \/ GrowOld(i)
  \/ \E r \in Runs : Select(r) \/ InTurn(r) \/ Step(r)
  \/ \E s \in Syncs : SyncStarts(s) \/ SyncReads(s) \/ SyncWrites(s)
  \/ \E c \in Containers, k \in Records : Import(c, k)
  \/ \E c \in Containers : Crash(c)
  \/ Elapse \/ Switch \/ DiscardUnsent

Spec == Init /\ [][Next]_vars

\* Timers fire, awaits return, turns come (Chains), Tuper's webhook arrives, time passes.
Fairness ==
  /\ \A r \in Runs : WF_vars(Step(r)) /\ SF_vars(InTurn(r)) /\ SF_vars(Select(r))
  /\ WF_vars(Elapse) /\ WF_vars(\E i \in DOMAIN outbox : Told(i))
  /\ \A s \in Syncs : WF_vars(SyncReads(s) \/ SyncWrites(s))

FairSpec == Spec /\ Fairness
-----------------------------------------------------------------------------
(* A row is in one run's hands at a time: neither the loop and a flush, nor the     *)
(* loops of two containers, work on the same change (src/pusher.ts:790-792).        *)
OneRunner ==
  \A q, r \in Runs : q # r /\ runs[q].pc \in Claimed /\ runs[r].pc \in Claimed
    => runs[q].ids \cap runs[r].ids = {}

(* A record made in Tuper is made in Zuper once.  Only a change of the record that  *)
(* follows a create given up for want of an answer may make it again, never a retry *)
(* or the follow-up of the create itself (src/pusher.ts:640-647).                   *)
GivenUp(k) == {i \in DOMAIN outbox : /\ outbox[i].rec = k /\ outbox[i].status = "failed"
                                     /\ outbox[i].attempts >= MaxAttempts}
MadeOnce == \A k \in Records : Len(zuper[k]) <= 1 + Cardinality(GivenUp(k))

(* README.md:504-505: "A create whose answer never arrived is not retried: a second *)
(* POST would make a second record."                                                *)
NeverMadeTwice == \A k \in Records : Len(zuper[k]) <= 1

(* The job a push has made and linked is not imported as another Tuper row as well: *)
(* its webhook is not handled while the link is being written, and finds it after   *)
(* (src/processor.ts:306-311).                                                      *)
NoTwin == \A k \in Records : linked[k] \notin twins[k]

(* Of the fields that are read back: what is marked sent, Zuper has held, so that an *)
(* answer 200 alone is not taken for it.  A job's priority, type, tags, due date,    *)
(* addresses, description, customer, organization and asset are not read back, so of *)
(* them "A 200 is not proof" (src/pusher.ts:32-34, README.md:540-541) is not true.   *)
SentWasTaken ==
  \A i \in DOMAIN outbox : outbox[i].status = "sent" /\ outbox[i].rec \in ReadBack =>
    \E n \in DOMAIN zuper[outbox[i].rec] : outbox[i].planned \in Range(zuper[outbox[i].rec][n])

(* A row that was sent or skipped is over: no late runner re-opens or re-labels it.  *)
OverIsOver ==
  [][\A i \in DOMAIN outbox : outbox[i].status \in {"sent", "skipped", "dropped", "gone"}
                              => outbox'[i].status = outbox[i].status]_vars

(* Of the fields that are compared: Zuper is never sent the value it already shows,  *)
(* after a lost answer either; every status call adds an entry to the job's history  *)
(* (src/pusher.ts:26-30).  A job's description, customer, organization and asset are *)
(* not compared, and a retry sends them again, against README.md:511.                *)
NoRepeat ==
  \A k \in Compared : \A n \in DOMAIN zuper[k] :
    \A i \in 1 .. Len(zuper[k][n]) - 1 : zuper[k][n][i] # zuper[k][n][i + 1]

(* A push never puts back a value that someone has overwritten since                 *)
(* (src/pusher.ts:29-31): what Zuper holds of a record only gets newer.              *)
NeverResurrects ==
  \A k \in Records : \A n \in DOMAIN zuper[k] :
    \A i \in 1 .. Len(zuper[k][n]) - 1 : zuper[k][n][i] <= zuper[k][n][i + 1]

(* An update is skipped because Zuper shows it or something newer; the edit is not   *)
(* dropped because an inbound sync put Zuper's old value over it (README.md, Pushing *)
(* back: "the edit is sent, even if the row no longer shows it").                    *)
SkippedWasMoot ==
  \A i \in DOMAIN outbox :
    outbox[i].status = "skipped" /\ outbox[i].op = "update" /\ outbox[i].planned # 0 =>
      \E n \in DOMAIN zuper[outbox[i].rec] : \E v \in Range(zuper[outbox[i].rec][n]) : v >= outbox[i].edit

(* Every change of a listed kind queued while pushing is live is sent, skipped with a  *)
(* reason, or given up after its attempts; it is never left in the queue, crashes      *)
(* included.  Excused is one behind rows of other kinds that fill a batch: they stay   *)
(* selected once they are planned, and nothing takes them out of the way, against      *)
(* src/pusher.ts:684-686 ("so a kind of record goes live on its own").                 *)
Over(i) == outbox[i].status \in {"sent", "skipped", "gone", "dropped"} \/ outbox[i].attempts >= MaxAttempts
Parked == {i \in DOMAIN outbox : /\ outbox[i].rec \notin Listed /\ ~Over(i)
                                 /\ outbox[i].status \in Statuses("live")}
Crowded(i) == LET older == {j \in Parked : j < i} IN
  \/ Cardinality(older) >= Batch * PerRecord
  \/ Cardinality({outbox[j].rec : j \in older}) >= Batch
EveryChangeSettles ==
  \A i \in 1 .. MaxRows :
    (i \in DOMAIN outbox /\ outbox[i].rec \in Listed)
      ~> (mode # "live" \/ Crowded(i) \/ (i \in DOMAIN outbox /\ Over(i)))
=============================================================================
