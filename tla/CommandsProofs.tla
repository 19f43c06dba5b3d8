---------------------------- MODULE CommandsProofs ----------------------------
(* Theorems about the command queue, for any people, containers, commands and disturbances. *)
EXTENDS Commands, WellFoundedInduction, TLAPS

(* A command in hand is in one container's hands only, and has no outcome yet; one that is *)
(* run next has never been run. One that waits has neither been run nor got an outcome.     *)
InHand(c) == loops[c].pc \in {"run", "finish"}
Owned ==
  \A c \in Containers : InHand(c) =>
    /\ \A d \in Containers : InHand(d) /\ loops[d].cmd = loops[c].cmd => d = c
    /\ commands[loops[c].cmd].result = "none"
    /\ loops[c].pc = "run" => commands[loops[c].cmd].ran = 0
Fresh == \A i \in Waiting : commands[i].ran = 0 /\ commands[i].result = "none"

IInv == TypeOK /\ Owned /\ Fresh /\ RunAtMostOnce

(* Where anything waits, there is an oldest of it. *)
LEMMA OldestIsOne ==
  ASSUME NEW S \in SUBSET Nat, S # {}
  PROVE  Oldest(S) \in S
<1>1. PICK x \in S : \A y \in S : ~ (<<y, x>> \in OpToRel(<, Nat))
  BY NatLessThanWellFounded, WFMin
<1>2. ASSUME NEW y \in S PROVE x <= y
  <2>1. y < x => <<y, x>> \in OpToRel(<, Nat)
    BY DEF OpToRel
  <2>2. ~ (y < x)
    BY <1>1, <2>1
  <2> QED BY <2>2
<1> QED BY <1>2 DEF Oldest

LEMMA InitIInv == Init => IInv
<1> SUFFICES ASSUME Init PROVE IInv
  OBVIOUS
<1>1. commands = <<>> /\ DOMAIN commands = {} /\ commands \in Seq(Command)
  BY DEF Init
<1>2. loops \in [Containers -> Loop] /\ \A c \in Containers : loops[c].pc = "idle"
  BY DEF Init, Loop, Idle
<1> QED BY <1>1, <1>2, CommandsAssumption
        DEF Init, IInv, TypeOK, Owned, InHand, Fresh, Waiting, RunAtMostOnce

(* The shape of a command and of a loop. *)
LEMMA Shapes ==
  ASSUME TypeOK
  PROVE  /\ DOMAIN commands = 1 .. Len(commands) /\ Len(commands) \in Nat
         /\ \A i \in DOMAIN commands : commands[i] \in Command /\ commands[i].ran \in Nat
         /\ \A c \in Containers : loops[c] \in Loop
<1>1. /\ DOMAIN commands = 1 .. Len(commands) /\ Len(commands) \in Nat
      /\ \A i \in DOMAIN commands : commands[i] \in Command
  BY DEF TypeOK
<1> QED BY <1>1 DEF TypeOK, Command

(* One command is changed. *)
LEMMA OneChanges ==
  ASSUME TypeOK, NEW i \in DOMAIN commands, NEW x \in Command,
         commands' = [commands EXCEPT ![i] = x]
  PROVE  /\ commands' \in Seq(Command) /\ DOMAIN commands' = DOMAIN commands
         /\ \A j \in DOMAIN commands : commands'[j] = IF j = i THEN x ELSE commands[j]
BY DEF TypeOK

(* What a person or a clock does leaves whatever a container has in hand alone. *)
LEMMA AskKeeps ==
  ASSUME IInv, NEW p \in People, Ask(p)
  PROVE  IInv'
<1> USE Shapes
<1> DEFINE x == Asked(asks[p])
<1>1. TypeOK /\ x \in Command /\ x.state = "waiting" /\ x.ran = 0 /\ x.result = "none"
  BY DEF IInv, Ask, TypeOK, Command, Asked
<1> HIDE DEF x
<1>2. commands' = Append(commands, x) /\ UNCHANGED <<loops, disturbed>>
  BY DEF Ask, x
<1>3. /\ commands' \in Seq(Command) /\ DOMAIN commands' = DOMAIN commands \cup {Len(commands) + 1}
      /\ \A i \in DOMAIN commands : commands'[i] = commands[i]
      /\ commands'[Len(commands) + 1] = x
  BY <1>1, <1>2 DEF TypeOK
<1>4. TypeOK'
  BY <1>1, <1>2, <1>3 DEF TypeOK, Ask
<1>5. \A c \in Containers : InHand(c) => loops[c].cmd \in DOMAIN commands
  BY <1>1 DEF TypeOK, InHand
<1>6. Owned'
  BY <1>2, <1>3, <1>5 DEF IInv, Owned, InHand
<1>7. Fresh' /\ RunAtMostOnce'
  BY <1>1, <1>3 DEF IInv, Fresh, Waiting, RunAtMostOnce
<1> QED BY <1>4, <1>6, <1>7 DEF IInv

LEMMA GrowLateKeeps ==
  ASSUME IInv, NEW i \in DOMAIN commands, GrowLate(i)
  PROVE  IInv'
<1> USE Shapes
<1> DEFINE x == [commands[i] EXCEPT !.late = TRUE]
<1>1. TypeOK /\ x \in Command /\ x.state = commands[i].state /\ x.ran = commands[i].ran
      /\ x.result = commands[i].result
  BY DEF IInv, Command
<1> HIDE DEF x
<1>2. commands' = [commands EXCEPT ![i] = x] /\ UNCHANGED <<asks, loops, disturbed>>
  BY DEF GrowLate, x
<1>3. /\ commands' \in Seq(Command) /\ DOMAIN commands' = DOMAIN commands
      /\ \A j \in DOMAIN commands : /\ commands'[j].state = commands[j].state
                                    /\ commands'[j].ran = commands[j].ran
                                    /\ commands'[j].result = commands[j].result
  BY <1>1, <1>2, OneChanges
<1>4. \A c \in Containers : InHand(c) => loops[c].cmd \in DOMAIN commands
  BY <1>1 DEF TypeOK, InHand
<1> QED BY <1>1, <1>2, <1>3, <1>4 DEF IInv, TypeOK, Owned, InHand, Fresh, Waiting, RunAtMostOnce

(* A container that takes up nothing new: what the others have in hand is as it was. *)
LEMMA LetsGo ==
  ASSUME IInv, NEW c \in Containers, NEW l \in Loop, l.pc \notin {"run", "finish"},
         loops' = [loops EXCEPT ![c] = l], UNCHANGED <<commands, asks>>, disturbed' \in Nat
  PROVE  IInv'
<1>1. loops' \in [Containers -> Loop] /\ \A d \in Containers : loops'[d] = IF d = c THEN l ELSE loops[d]
  BY DEF IInv, TypeOK
<1>2. TypeOK'
  BY <1>1 DEF IInv, TypeOK
<1>3. Owned'
  BY <1>1 DEF IInv, Owned, InHand
<1> QED BY <1>2, <1>3 DEF IInv, Fresh, Waiting, RunAtMostOnce

LEMMA ExpireKeeps ==
  ASSUME IInv, NEW c \in Containers, Expire(c)
  PROVE  IInv'
<1> USE Shapes
<1>1. TypeOK
  BY DEF IInv
<1>2. /\ DOMAIN commands' = DOMAIN commands /\ UNCHANGED <<asks, disturbed>>
      /\ loops' = [loops EXCEPT ![c].pc = "claim"]
      /\ \A i \in DOMAIN commands :
           commands'[i] = IF i \in Waiting /\ commands[i].late
                          THEN [commands[i] EXCEPT !.state = "finished", !.result = "expired"]
                          ELSE commands[i]
  BY DEF Expire, Go
<1>3. \A i \in DOMAIN commands :
        /\ commands'[i] \in Command
        /\ i \notin Waiting => commands'[i] = commands[i]
        /\ i \in Waiting => /\ commands'[i].ran = commands[i].ran
                            /\ commands'[i] = commands[i] \/ commands'[i].state = "finished"
  BY <1>1, <1>2, ZenonT(40) DEF Command
<1>4. commands' \in Seq(Command)
  <2>1. commands' \in [1 .. Len(commands) -> Command]
    BY <1>1, <1>2, <1>3 DEF Expire
  <2> QED BY <1>1, <2>1
<1>5. /\ loops' \in [Containers -> Loop] /\ loops'[c].pc = "claim"
      /\ \A d \in Containers : d # c => loops'[d] = loops[d]
  BY <1>1, <1>2 DEF TypeOK, Loop
<1>6. \A d \in Containers : InHand(d)' => /\ d # c /\ InHand(d) /\ loops'[d] = loops[d]
                                         /\ loops[d].cmd \in DOMAIN commands \ Waiting
  BY <1>1, <1>5 DEF InHand, TypeOK, Waiting
<1>7. TypeOK'
  <2>1. \A d \in Containers : InHand(d)' => /\ loops'[d].cmd \in DOMAIN commands'
                                           /\ commands'[loops'[d].cmd].state = "started"
    BY <1>1, <1>2, <1>3, <1>6 DEF TypeOK, InHand
  <2> QED BY <1>1, <1>2, <1>4, <1>5, <2>1 DEF TypeOK, InHand
<1>8. Owned'
  BY <1>3, <1>6 DEF IInv, Owned, InHand
<1>9. Waiting' \subseteq Waiting /\ \A i \in Waiting' : commands'[i] = commands[i]
  BY <1>2, <1>3 DEF Waiting
<1>10. Fresh'
  BY <1>9 DEF IInv, Fresh
<1>11. RunAtMostOnce'
  <2>1. \A i \in DOMAIN commands : i \in Waiting => commands'[i].ran = 0
    BY <1>3 DEF IInv, Fresh
  <2>2. \A i \in DOMAIN commands : i \notin Waiting => commands'[i] = commands[i]
    BY <1>3
  <2>3. ASSUME NEW i \in DOMAIN commands
        PROVE  commands'[i].ran <= (IF commands'[i].result = "expired" THEN 0 ELSE 1)
    <3>1. CASE i \in Waiting
      BY <2>1, <3>1
    <3>2. CASE i \notin Waiting
      BY <2>2, <3>2 DEF IInv, RunAtMostOnce
    <3> QED BY <3>1, <3>2
  <2> QED BY <1>2, <2>3 DEF RunAtMostOnce
<1> QED BY <1>7, <1>8, <1>10, <1>11 DEF IInv

LEMMA ClaimKeeps ==
  ASSUME IInv, NEW c \in Containers, Claim(c)
  PROVE  IInv'
<1> USE Shapes
<1>1. TypeOK /\ At(c, "claim")
  BY DEF IInv, Claim, Take
<1>2. CASE Waiting = {}
  <2>1. Idle \in Loop /\ Idle.pc = "idle"
    BY DEF Idle, Loop
  <2>2. loops' = [loops EXCEPT ![c] = Idle] /\ UNCHANGED <<commands, asks, disturbed>>
    BY <1>2 DEF Claim, Take
  <2> QED BY <1>1, <2>1, <2>2, LetsGo DEF TypeOK
<1>3. CASE Waiting # {}
  <2> DEFINE i == Oldest(Waiting)
             x == [commands[i] EXCEPT !.state = "started"]
             l == [loops[c] EXCEPT !.pc = "run", !.cmd = i]
  <2>1. i \in Waiting /\ i \in DOMAIN commands /\ i \in Nat
    <3>1. Waiting \in SUBSET Nat /\ Waiting \subseteq DOMAIN commands
      BY <1>1 DEF Waiting
    <3> QED BY <1>3, <3>1, OldestIsOne
  <2>2. commands' = [commands EXCEPT ![i] = x] /\ UNCHANGED <<asks, disturbed>>
    BY <1>3 DEF Claim, Take
  <2>3. loops' = [loops EXCEPT ![c] = l]
    BY <1>3 DEF Claim, Take
  <2> HIDE DEF i
  <2>4. /\ x \in Command /\ x.state = "started" /\ x.ran = commands[i].ran
        /\ x.result = commands[i].result
    BY <1>1, <2>1 DEF Command
  <2>5. l \in Loop /\ l.pc = "run" /\ l.cmd = i
    BY <1>1, <2>1 DEF Loop
  <2> HIDE DEF x, l
  <2>6. /\ commands' \in Seq(Command) /\ DOMAIN commands' = DOMAIN commands
        /\ \A j \in DOMAIN commands : commands'[j] = IF j = i THEN x ELSE commands[j]
    BY <1>1, <2>1, <2>2, <2>4, OneChanges
  <2>7. /\ loops' \in [Containers -> Loop] /\ loops'[c] = l
        /\ \A d \in Containers : d # c => loops'[d] = loops[d]
    BY <1>1, <2>3, <2>5 DEF TypeOK
  <2>8. \A d \in Containers : d # c /\ InHand(d) => /\ loops[d].cmd \in DOMAIN commands
                                                    /\ loops[d].cmd # i
    BY <1>1, <2>1 DEF TypeOK, InHand, Waiting
  <2>9. commands[i].ran = 0 /\ commands[i].result = "none"
    BY <2>1 DEF IInv, Fresh
  <2>10. TypeOK'
    <3>1. \A d \in Containers : InHand(d)' => /\ loops'[d].cmd \in DOMAIN commands'
                                             /\ commands'[loops'[d].cmd].state = "started"
      BY <1>1, <2>1, <2>4, <2>5, <2>6, <2>7, <2>8 DEF TypeOK, InHand
    <3> QED BY <1>1, <2>2, <2>6, <2>7, <3>1 DEF TypeOK, InHand
  <2>11. Owned'
    BY <2>1, <2>4, <2>5, <2>6, <2>7, <2>8, <2>9 DEF IInv, Owned, InHand
  <2>12. Fresh' /\ RunAtMostOnce'
    BY <2>1, <2>4, <2>6, <2>9 DEF IInv, Fresh, Waiting, RunAtMostOnce
  <2> QED BY <2>10, <2>11, <2>12 DEF IInv
<1> QED BY <1>2, <1>3

(* What a container has in hand is run, and then finished: nobody else has it. *)
LEMMA RunKeeps ==
  ASSUME IInv, NEW c \in Containers, Run(c)
  PROVE  IInv'
<1> USE Shapes
<1> DEFINE i == loops[c].cmd
           x == [commands[i] EXCEPT !.ran = @ + 1]
<1>1. TypeOK /\ InHand(c) /\ i \in DOMAIN commands
  BY DEF IInv, TypeOK, Run, At, InHand
<1>2. PICK ok \in BOOLEAN : loops' = [loops EXCEPT ![c].pc = "finish", ![c].ok = ok]
  BY DEF Run
<1>3. /\ commands[i].ran = 0 /\ commands[i].result = "none" /\ commands[i].state = "started"
      /\ \A d \in Containers : InHand(d) /\ d # c => loops[d].cmd # i
  BY <1>1 DEF IInv, Owned, TypeOK, Run, At, InHand
<1>4. commands' = [commands EXCEPT ![i] = x] /\ UNCHANGED <<asks, disturbed>>
  BY DEF Run
<1>5. /\ x \in Command /\ x.state = "started" /\ x.ran = 1 /\ x.result = "none"
  BY <1>1, <1>3 DEF Command
<1>6. /\ loops' \in [Containers -> Loop] /\ loops'[c].pc = "finish" /\ loops'[c].cmd = i
      /\ \A d \in Containers : d # c => loops'[d] = loops[d]
  BY <1>1, <1>2 DEF TypeOK, Loop
<1> HIDE DEF i, x
<1>7. /\ commands' \in Seq(Command) /\ DOMAIN commands' = DOMAIN commands
      /\ \A j \in DOMAIN commands : commands'[j] = IF j = i THEN x ELSE commands[j]
  BY <1>1, <1>4, <1>5, OneChanges
<1>8. TypeOK'
  <2>1. \A d \in Containers : InHand(d)' => /\ loops'[d].cmd \in DOMAIN commands'
                                           /\ commands'[loops'[d].cmd].state = "started"
    BY <1>1, <1>3, <1>5, <1>6, <1>7 DEF TypeOK, InHand
  <2> QED BY <1>1, <1>4, <1>6, <1>7, <2>1 DEF TypeOK, InHand
<1>9. Owned'
  <2>1. \A d \in Containers : InHand(d) => loops[d].cmd \in DOMAIN commands
    BY <1>1 DEF TypeOK, InHand
  <2> QED BY <1>1, <1>3, <1>5, <1>6, <1>7, <2>1 DEF IInv, Owned, InHand
<1>10. Fresh' /\ RunAtMostOnce'
  BY <1>5, <1>7 DEF IInv, Fresh, Waiting, RunAtMostOnce
<1> QED BY <1>8, <1>9, <1>10 DEF IInv

LEMMA FinishKeeps ==
  ASSUME IInv, NEW c \in Containers, Finish(c)
  PROVE  IInv'
<1> USE Shapes
<1> DEFINE i == loops[c].cmd
           x == [commands[i] EXCEPT !.state = "finished",
                                    !.result = IF loops[c].ok THEN "ok" ELSE "failed"]
           l == [Idle EXCEPT !.pc = "claim"]
<1>1. TypeOK /\ InHand(c) /\ i \in DOMAIN commands
  BY DEF IInv, TypeOK, Finish, At, InHand
<1>2. /\ commands[i].result = "none" /\ commands[i].ran <= 1
      /\ \A d \in Containers : InHand(d) /\ d # c => loops[d].cmd # i
  <2>1. /\ commands[i].result = "none"
        /\ \A d \in Containers : InHand(d) /\ d # c => loops[d].cmd # i
    BY <1>1 DEF IInv, Owned
  <2> QED BY <1>1, <2>1 DEF IInv, RunAtMostOnce
<1>3. /\ commands' = [commands EXCEPT ![i] = x] /\ loops' = [loops EXCEPT ![c] = l]
      /\ UNCHANGED <<asks, disturbed>>
  BY DEF Finish
<1>4. /\ x \in Command /\ x.state = "finished" /\ x.ran = commands[i].ran
      /\ x.result \in {"ok", "failed"}
  BY <1>1 DEF Command
<1>5. l \in Loop /\ l.pc = "claim"
  BY DEF Idle, Loop
<1> HIDE DEF i, x, l
<1>6. /\ loops' \in [Containers -> Loop] /\ loops'[c] = l
      /\ \A d \in Containers : d # c => loops'[d] = loops[d]
  BY <1>1, <1>3, <1>5 DEF TypeOK
<1>7. /\ commands' \in Seq(Command) /\ DOMAIN commands' = DOMAIN commands
      /\ \A j \in DOMAIN commands : commands'[j] = IF j = i THEN x ELSE commands[j]
  BY <1>1, <1>3, <1>4, OneChanges
<1>8. \A d \in Containers : InHand(d)' => /\ d # c /\ InHand(d) /\ loops'[d] = loops[d]
                                         /\ loops[d].cmd \in DOMAIN commands
                                         /\ commands'[loops[d].cmd] = commands[loops[d].cmd]
  BY <1>1, <1>2, <1>5, <1>6, <1>7 DEF TypeOK, InHand
<1>9. TypeOK'
  BY <1>1, <1>3, <1>6, <1>7, <1>8 DEF TypeOK, InHand
<1>10. Owned'
  BY <1>8 DEF IInv, Owned, InHand
<1>11. Fresh' /\ RunAtMostOnce'
  BY <1>2, <1>4, <1>7 DEF IInv, Fresh, Waiting, RunAtMostOnce
<1> QED BY <1>9, <1>10, <1>11 DEF IInv

LEMMA NextKeeps == IInv /\ [Next]_vars => IInv'
<1> SUFFICES ASSUME IInv, [Next]_vars PROVE IInv'
  OBVIOUS
<1>1. ASSUME NEW p \in People, Ask(p) PROVE IInv'
  BY <1>1, AskKeeps
<1>2. ASSUME NEW p \in People, NEW n \in Names, Look(p, n) PROVE IInv'
  <2>1. asks' \in [People -> Names \cup {"none"}] /\ UNCHANGED <<commands, loops, disturbed>>
    BY <1>2 DEF Look, IInv, TypeOK
  <2> QED BY <2>1 DEF IInv, TypeOK, Owned, InHand, Fresh, Waiting, RunAtMostOnce
<1>3. ASSUME NEW i \in DOMAIN commands, GrowLate(i) PROVE IInv'
  BY <1>3, GrowLateKeeps
<1>4. ASSUME NEW c \in Containers, Wake(c) PROVE IInv'
  <2> DEFINE l == [loops[c] EXCEPT !.pc = "expire"]
  <2>1. TypeOK /\ l \in Loop /\ l.pc = "expire"
    BY Shapes DEF IInv, Loop
  <2>2. loops' = [loops EXCEPT ![c] = l] /\ UNCHANGED <<commands, asks, disturbed>>
    BY <1>4 DEF Wake, Go
  <2> HIDE DEF l
  <2> QED BY <2>1, <2>2, LetsGo DEF TypeOK
<1>5. ASSUME NEW c \in Containers, QueryFails(c) \/ Crash(c) PROVE IInv'
  <2>1. Idle \in Loop /\ Idle.pc = "idle"
    BY DEF Idle, Loop
  <2>2. /\ loops' = [loops EXCEPT ![c] = Idle] /\ UNCHANGED <<commands, asks>>
        /\ disturbed' \in Nat
    BY <1>5 DEF QueryFails, Crash, Disturb, IInv, TypeOK
  <2> QED BY <2>1, <2>2, LetsGo
<1>6. CASE UNCHANGED vars
  BY <1>6 DEF vars, IInv, TypeOK, Owned, InHand, Fresh, Waiting, RunAtMostOnce
<1> QED BY <1>1, <1>2, <1>3, <1>4, <1>5, <1>6, ExpireKeeps, ClaimKeeps, RunKeeps, FinishKeeps
        DEF Next, Working

\* The queue keeps its types: what a container has in hand is a command marked started.
THEOREM TypeCorrect == Spec => []TypeOK
<1>1. IInv => TypeOK
  BY DEF IInv
<1> QED BY InitIInv, NextKeeps, <1>1, PTL DEF Spec

\* Whatever containers overlap, stop or fail in the middle of one: no command is run twice, and none
\* that expired is run.
THEOREM RunOnce == Spec => []RunAtMostOnce
<1>1. IInv => RunAtMostOnce
  BY DEF IInv
<1> QED BY InitIInv, NextKeeps, <1>1, PTL DEF Spec
===============================================================================
