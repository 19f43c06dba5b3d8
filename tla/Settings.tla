------------------------------- MODULE Settings -------------------------------
(***************************************************************************)
(* The settings, as the engine follows them (src/settings.ts): one         *)
(* versioned document, saved on the dashboard (Dashboard) and read by      *)
(* every container every few seconds.                                      *)
(*                                                                         *)
(* A document gives each field a value, or lacks it when an older version  *)
(* of the dashboard saved it.  config and the timers follow applied in the *)
(* same step.  A read of the store is two steps, its snapshot and what is  *)
(* done with the answer, and a container may have several on the way: the  *)
(* timer does not wait for the load before.                                *)
(***************************************************************************)
EXTENDS Naturals, Sequences

CONSTANTS Containers, Fields,
          Loads,        \* the loads that may be on the way: <<container, n>>
          Environment,  \* fromEnvironment: the first document
          Lacking,      \* the fields a document stored before this version lacks
          MaxVersion,   \* bound: versions saved
          Disturbances, \* what may go wrong in this model
          MaxDisturbed  \* bound: how often it does

Full == [Fields -> {"on", "off"}]
Document == [Fields -> {"on", "off", "missing"}]

VARIABLES docs,     \* sync.settings: the document of each version, the last one stored
          firsts,   \* how often the history says that the environment made version 1
          up,       \* whether a container runs
          applied,  \* the settings a container runs by, and their version
          loads,    \* the reads on the way
          engine,   \* sync.engine: the version last reported as applied
          disturbed

vars == <<docs, firsts, up, applied, loads, engine, disturbed>>

Load == [pc : {"idle", "read", "insert", "history", "apply", "beat"}, version : Nat, data : Document]

NoLoad == [pc |-> "idle", version |-> 0, data |-> Environment]
None == [version |-> 0, settings |-> Environment]
Version == Len(docs)
Doc == docs[Version]

\* normalise: what is valid is kept, anything else is taken from the base.
Normalise(raw, base) == [f \in Fields |-> IF raw[f] = "missing" THEN base[f] ELSE raw[f]]

TypeOK ==
  /\ docs \in Seq(Document) /\ firsts \in Nat
  /\ up \in [Containers -> {"down", "starting", "up"}]
  /\ applied \in [Containers -> [version : Nat, settings : Full]]
  /\ loads \in [Loads -> Load]
  /\ \A c \in Containers : applied[c].version <= Version
  /\ engine \in 0 .. Version
  /\ disturbed \in Nat

Init ==
  /\ docs \in {<<>>, <<[f \in Fields |-> IF f \in Lacking THEN "missing" ELSE Environment[f]]>>}
  /\ firsts = 0
  /\ up = [c \in Containers |-> "down"]
  /\ applied = [c \in Containers |-> None]
  /\ loads = [l \in Loads |-> NoLoad]
  /\ engine = 0 /\ disturbed = 0

Disturb(what) ==
  /\ what \in Disturbances /\ disturbed < MaxDisturbed
  /\ disturbed' = disturbed + 1
-----------------------------------------------------------------------------
\* A save on the dashboard; without a document there is nothing to save over.
Save(d) ==
  /\ docs # <<>> /\ Version < MaxVersion
  /\ docs' = Append(docs, d)
  /\ UNCHANGED <<firsts, up, applied, loads, engine, disturbed>>

(* The engine.  A container loads once and reports, then does so on a timer. *)
Step(l, pc) == [loads EXCEPT ![l].pc = pc]
\* load() is over: the heartbeat goes out with what is applied by now.
Beating(l, version) == [loads EXCEPT ![l] = [NoLoad EXCEPT !.pc = "beat", !.version = version]]

Start(c) ==
  /\ up[c] = "down"
  /\ up' = [up EXCEPT ![c] = "starting"]
  /\ loads' = Step(<<c, 1>>, "read")
  /\ UNCHANGED <<docs, firsts, applied, engine, disturbed>>

Tick(l) ==
  /\ up[l[1]] = "up" /\ loads[l].pc = "idle"
  /\ loads' = Step(l, "read")
  /\ UNCHANGED <<docs, firsts, up, applied, engine, disturbed>>

Read(l) ==
  /\ loads[l].pc = "read"
  /\ loads' = [loads EXCEPT ![l] = IF docs = <<>> THEN [@ EXCEPT !.pc = "insert"]
                                   ELSE [pc |-> "apply", version |-> Version, data |-> Doc]]
  /\ UNCHANGED <<docs, firsts, up, applied, engine, disturbed>>

\* Slip: the conflict is settled by writing the first document again.
InsertOver(l) ==
  /\ loads[l].pc = "insert"
  /\ docs' = <<Environment>>
  /\ loads' = [loads EXCEPT ![l] = [pc |-> "history", version |-> 1, data |-> Environment]]
  /\ UNCHANGED <<firsts, up, applied, engine, disturbed>>

\* No row was found: one is inserted, or the one inserted meanwhile is returned.
Insert(l) ==
  /\ loads[l].pc = "insert"
  /\ docs' = IF docs = <<>> THEN <<Environment>> ELSE docs
  /\ loads' = [loads EXCEPT ![l] = [pc |-> "history", version |-> Len(docs'), data |-> docs'[Len(docs')]]]
  /\ UNCHANGED <<firsts, up, applied, engine, disturbed>>

FirstHistory(l) ==
  /\ loads[l].pc = "history"
  /\ firsts' = firsts + 1
  /\ loads' = Step(l, "apply")
  /\ UNCHANGED <<docs, up, applied, engine, disturbed>>

\* Slip: settings once applied stay until a restart.
ApplyOnce(l) ==
  LET c == l[1]
      next == IF applied[c].version # 0 THEN applied[c]
              ELSE [version |-> loads[l].version,
                    settings |-> Normalise(loads[l].data, applied[c].settings)]
  IN
  /\ loads[l].pc = "apply"
  /\ applied' = [applied EXCEPT ![c] = next]
  /\ loads' = Beating(l, next.version)
  /\ UNCHANGED <<docs, firsts, up, engine, disturbed>>

\* apply: a version other than the one in force, whichever is newer.
Apply(l) ==
  LET c == l[1]
      next == IF loads[l].version = applied[c].version THEN applied[c]
              ELSE [version |-> loads[l].version,
                    settings |-> Normalise(loads[l].data, applied[c].settings)]
  IN
  /\ loads[l].pc = "apply"
  /\ applied' = [applied EXCEPT ![c] = next]
  /\ loads' = Beating(l, next.version)
  /\ UNCHANGED <<docs, firsts, up, engine, disturbed>>

\* Slip: only the heartbeat of a start is written.
BeatOnce(l) ==
  /\ loads[l].pc = "beat"
  /\ engine' = IF up[l[1]] = "starting" THEN loads[l].version ELSE engine
  /\ up' = [up EXCEPT ![l[1]] = "up"]
  /\ loads' = [loads EXCEPT ![l] = NoLoad]
  /\ UNCHANGED <<docs, firsts, applied, disturbed>>

Beat(l) ==
  /\ loads[l].pc = "beat"
  /\ engine' = loads[l].version
  /\ up' = [up EXCEPT ![l[1]] = "up"]
  /\ loads' = [loads EXCEPT ![l] = NoLoad]
  /\ UNCHANGED <<docs, firsts, applied, disturbed>>

\* A query fails: load() gives up until the next tick, a heartbeat is not written.
QueryFails(l) ==
  /\ loads[l].pc \notin {"idle", "apply"} /\ Disturb("query")
  /\ IF loads[l].pc = "beat"
       THEN /\ up' = [up EXCEPT ![l[1]] = "up"]
            /\ loads' = [loads EXCEPT ![l] = NoLoad]
       ELSE /\ loads' = Beating(l, applied[l[1]].version)
            /\ UNCHANGED up
  /\ UNCHANGED <<docs, firsts, applied, engine>>

Stop(c) ==
  /\ up[c] # "down" /\ Disturb("crash")
  /\ up' = [up EXCEPT ![c] = "down"]
  /\ applied' = [applied EXCEPT ![c] = None]
  /\ loads' = [l \in Loads |-> IF l[1] = c THEN NoLoad ELSE loads[l]]
  /\ UNCHANGED <<docs, firsts, engine>>
-----------------------------------------------------------------------------
Loading(l) == Read(l) \/ Insert(l) \/ FirstHistory(l) \/ Apply(l) \/ Beat(l)

Next ==
  \/ \E d \in Full : Save(d)
  \/ \E c \in Containers : Start(c) \/ Stop(c)
  \/ \E l \in Loads : Tick(l) \/ Loading(l) \/ QueryFails(l)

Spec == Init /\ [][Next]_vars

\* Queries answer and the timers fire; nobody has to save or start anything.  A load is either to be
\* started by the timer or under way, and nothing else moves it on.
Following(l) == Tick(l) \/ Loading(l)
FairSpec == Spec /\ \A l \in Loads : WF_vars(Following(l))
-----------------------------------------------------------------------------
\* Reads of one container overtake each other, queries fail, containers restart: once nobody saves any
\* more, every container that runs comes to run by the last version, and no late read takes it back.
InForce(c) == /\ Version # 0 /\ applied[c].version = Version
              /\ applied[c].settings = Normalise(Doc, Environment)
NewestInForce == <>[](\A c \in Containers : up[c] = "up" => InForce(c))

\* The page says "applied" from the engine's report: while a container runs, the report comes to name
\* the last version, and the late heartbeat of another container or of an earlier load does not undo it.
ReportSettles ==
  <>[](\E c \in Containers : up[c] = "up") => <>[](engine = Version)
=============================================================================
