------------------------------- MODULE Commands -------------------------------
(***************************************************************************)
(* The command queue: asked for on the dashboard (requestCommand in        *)
(* dashboard/src/lib/control.ts), carried out by the engine                *)
(* (src/commands.ts).  Two containers are alive during a deploy, and one   *)
(* of them is stopped in the middle of whatever it does.  What a command   *)
(* does is left out: running it is one step, ending well or not.           *)
(***************************************************************************)
EXTENDS Naturals, Sequences

CONSTANTS People, Containers, Names,
          MaxAsked,     \* bound: commands asked for
          Disturbances, \* what may go wrong in this model
          MaxDisturbed  \* bound: how often it does

ASSUME CommandsAssumption ==
  /\ MaxAsked \in Nat /\ MaxDisturbed \in Nat /\ "none" \notin Names

VARIABLES commands, \* sync.commands, oldest first
          asks,     \* the command each person has found not pending, and is about to insert
          loops,    \* what next() does in each container
          disturbed

vars == <<commands, asks, loops, disturbed>>

\* ran counts how often the handler was called.
Command == [name : Names, state : {"waiting", "started", "finished"}, late : BOOLEAN,
            result : {"none", "ok", "failed", "expired"}, ran : Nat]
Loop == [pc : {"idle", "expire", "claim", "run", "finish"}, cmd : Nat, ok : BOOLEAN]

Idle == [pc |-> "idle", cmd |-> 0, ok |-> FALSE]
Asked(n) == [name |-> n, state |-> "waiting", late |-> FALSE, result |-> "none", ran |-> 0]

TypeOK ==
  /\ commands \in Seq(Command)
  /\ asks \in [People -> Names \cup {"none"}]
  /\ loops \in [Containers -> Loop]
  /\ \A c \in Containers : loops[c].pc \in {"run", "finish"} =>
       /\ loops[c].cmd \in DOMAIN commands
       /\ commands[loops[c].cmd].state = "started"
  /\ disturbed \in Nat

Init ==
  /\ commands = <<>>
  /\ asks = [p \in People |-> "none"]
  /\ loops = [c \in Containers |-> Idle]
  /\ disturbed = 0

Disturb(what) ==
  /\ what \in Disturbances /\ disturbed < MaxDisturbed
  /\ disturbed' = disturbed + 1
-----------------------------------------------------------------------------
(* The dashboard: a look for one not finished, then the insert.  The        *)
(* transaction does not keep another from doing the same in between.        *)
Look(p, n) ==
  /\ asks[p] = "none" /\ Len(commands) < MaxAsked
  /\ ~\E i \in DOMAIN commands : commands[i].name = n /\ commands[i].state # "finished"
  /\ asks' = [asks EXCEPT ![p] = n]
  /\ UNCHANGED <<commands, loops, disturbed>>

Ask(p) ==
  /\ asks[p] # "none"
  /\ commands' = Append(commands, Asked(asks[p]))
  /\ asks' = [asks EXCEPT ![p] = "none"]
  /\ UNCHANGED <<loops, disturbed>>

\* Ten minutes pass before anyone has taken it.
GrowLate(i) ==
  /\ commands[i].state = "waiting" /\ ~commands[i].late
  /\ commands' = [commands EXCEPT ![i].late = TRUE]
  /\ UNCHANGED <<asks, loops, disturbed>>
-----------------------------------------------------------------------------
At(c, pc) == loops[c].pc = pc
Go(c, pc) == [loops EXCEPT ![c].pc = pc]
Waiting == {i \in DOMAIN commands : commands[i].state = "waiting"}
Unfinished == {i \in DOMAIN commands : commands[i].state # "finished"}

\* The timer; nothing while the call before is still running.
Wake(c) ==
  /\ At(c, "idle")
  /\ loops' = Go(c, "expire")
  /\ UNCHANGED <<commands, asks, disturbed>>

Expire(c) ==
  /\ At(c, "expire")
  /\ commands' = [i \in DOMAIN commands |->
       IF i \in Waiting /\ commands[i].late
         THEN [commands[i] EXCEPT !.state = "finished", !.result = "expired"] ELSE commands[i]]
  /\ loops' = Go(c, "claim")
  /\ UNCHANGED <<asks, disturbed>>

Oldest(S) == CHOOSE i \in S : \A j \in S : i <= j

\* With nothing to take, next() is over.
Take(c, S) ==
  /\ At(c, "claim")
  /\ IF S = {}
       THEN loops' = [loops EXCEPT ![c] = Idle] /\ UNCHANGED commands
       ELSE /\ commands' = [commands EXCEPT ![Oldest(S)].state = "started"]
            /\ loops' = [loops EXCEPT ![c] = [@ EXCEPT !.pc = "run", !.cmd = Oldest(S)]]
  /\ UNCHANGED <<asks, disturbed>>

\* Slip: what is not finished is taken for what is not started.
ClaimUnfinished(c) == Take(c, Unfinished)

\* Slip: only the oldest unfinished is looked at.
ClaimOldest(c) == Take(c, {i \in Waiting : i = Oldest(Unfinished)})

\* One statement: the oldest not started is marked started.
Claim(c) == Take(c, Waiting)

\* The handler's end: it returned or threw.
Run(c) ==
  /\ At(c, "run")
  /\ commands' = [commands EXCEPT ![loops[c].cmd].ran = @ + 1]
  /\ \E ok \in BOOLEAN : loops' = [loops EXCEPT ![c].pc = "finish", ![c].ok = ok]
  /\ UNCHANGED <<asks, disturbed>>

Finish(c) ==
  /\ At(c, "finish")
  /\ commands' = [commands EXCEPT ![loops[c].cmd] =
       [@ EXCEPT !.state = "finished", !.result = IF loops[c].ok THEN "ok" ELSE "failed"]]
  /\ loops' = [loops EXCEPT ![c] = [Idle EXCEPT !.pc = "claim"]]
  /\ UNCHANGED <<asks, disturbed>>

\* A query fails: next() gives up until the next tick.  The outcome of a command that was run is lost.
QueryFails(c) ==
  /\ loops[c].pc \in {"expire", "claim", "finish"} /\ Disturb("query")
  /\ loops' = [loops EXCEPT ![c] = Idle]
  /\ UNCHANGED <<commands, asks>>

\* The container stops, and a new one takes its place.
Crash(c) ==
  /\ ~At(c, "idle") /\ Disturb("crash")
  /\ loops' = [loops EXCEPT ![c] = Idle]
  /\ UNCHANGED <<commands, asks>>
-----------------------------------------------------------------------------
Working(c) == Wake(c) \/ Expire(c) \/ Claim(c) \/ Run(c) \/ Finish(c)

Next ==
  \/ \E p \in People : Ask(p) \/ \E n \in Names : Look(p, n)
  \/ \E i \in DOMAIN commands : GrowLate(i)
  \/ \E c \in Containers : Working(c) \/ QueryFails(c) \/ Crash(c)

Spec == Init /\ [][Next]_vars

\* The timer fires in a running container, and queries and handlers end.
FairSpec == Spec /\ \A c \in Containers : WF_vars(Working(c))
-----------------------------------------------------------------------------
\* Two containers, a failing query, a restart: no command is run twice, and none that was closed as
\* expired is run, before or after.
RunAtMostOnce ==
  \A i \in DOMAIN commands :
    commands[i].ran <= (IF commands[i].result = "expired" THEN 0 ELSE 1)

\* Whatever fails or restarts, a command asked for is taken by some container, or expires: once
\* nobody asks any more, none is left waiting.
EveryAskIsTaken == <>[](Waiting = {})

\* src/commands.ts:4: the engine "picks it up within five seconds, runs it, and writes back whether it
\* worked": a command asked for comes to be finished.
EveryAskIsAnswered ==
  \A i \in 1 .. MaxAsked :
    i \in Waiting ~> i \in DOMAIN commands /\ commands[i].state = "finished"
=============================================================================
