---------------------------- MODULE ChainsProofs ----------------------------
(* Theorems about the per-key promise chains, for any keys and any number of calls. *)
EXTENDS Chains, TLAPS

(* A link and the map stay within one key. *)
OneKey ==
  /\ \A i \in DOMAIN calls : calls[i].prior # 0 => calls[calls[i].prior].key = calls[i].key
  /\ \A k \in Keys : chains[k] # 0 => calls[chains[k]].key = k

(* What a caller of whenIdle waits for covers every call made before it asked. *)
WaitCovers ==
  \A w \in DOMAIN waits :
    /\ waits[w].on # 0 => calls[waits[w].on].key = waits[w].key
    /\ \A i \in 1 .. waits[w].seen :
         calls[i].key = waits[w].key /\ calls[i].state # "settled" => waits[w].on >= i

IInv == TypeOK /\ OneKey /\ InTurn /\ NothingForgotten /\ WaitCovers /\ IdleCoversEarlier

LEMMA InitIInv == Init => IInv
BY BoundsAssumption DEF Init, IInv, TypeOK, OneKey, InTurn, NothingForgotten, WaitCovers, IdleCoversEarlier, Wait, Call

(* A new call leaves the earlier ones as they were. *)
(* What the type invariant says of one wait and of one call. *)
LEMMA Fields ==
  ASSUME TypeOK
  PROVE  /\ \A w \in DOMAIN waits :
              /\ waits[w].key \in Keys /\ waits[w].back \in BOOLEAN
              /\ waits[w].on \in 0 .. Len(calls) /\ waits[w].seen \in 0 .. Len(calls)
              /\ waits[w].on <= waits[w].seen
         /\ \A i \in DOMAIN calls :
              /\ calls[i].key \in Keys /\ calls[i].prior \in 0 .. i - 1
              /\ calls[i].state \in {"queued", "running", "settled"}
         /\ Len(calls) \in Nat /\ DOMAIN calls = 1 .. Len(calls)
<1>1. Len(calls) \in Nat /\ DOMAIN calls = 1 .. Len(calls)
  BY DEF TypeOK
<1>2. \A w \in DOMAIN waits : waits[w] \in Wait
  BY DEF TypeOK
<1>3. \A i \in DOMAIN calls : calls[i] \in Call
  BY DEF TypeOK
<1>4. \A w \in DOMAIN waits : waits[w].key \in Keys /\ waits[w].back \in BOOLEAN
                             /\ waits[w].on \in Nat /\ waits[w].seen \in Nat
  BY <1>2 DEF Wait
<1>5. \A i \in DOMAIN calls : /\ calls[i].key \in Keys /\ calls[i].prior \in Nat
                             /\ calls[i].state \in {"queued", "running", "settled"}
  BY <1>3 DEF Call
<1> QED BY <1>1, <1>4, <1>5 DEF TypeOK

LEMMA OneAtATimeKeeps ==
  ASSUME IInv, NEW k \in Keys, OneAtATime(k)
  PROVE  IInv'
<1> DEFINE n == Len(calls) + 1
           c == [key |-> k, prior |-> chains[k], state |-> "queued"]
<1>1. /\ Len(calls) \in Nat /\ n \in Nat /\ n = Len(calls) + 1
      /\ chains[k] \in 0 .. Len(calls) /\ calls \in Seq(Call)
  BY DEF IInv, TypeOK
<1>2. c \in Call /\ c.key = k /\ c.prior = chains[k] /\ c.state = "queued"
  BY <1>1 DEF Call
<1>3. calls' = Append(calls, c) /\ chains' = [chains EXCEPT ![k] = n] /\ waits' = waits
  BY DEF OneAtATime
<1> HIDE DEF n, c
<1>4. /\ DOMAIN calls = 1 .. Len(calls) /\ DOMAIN calls' = 1 .. n
      /\ Len(calls') = n /\ calls'[n] = c /\ calls' \in Seq(Call)
      /\ \A i \in 1 .. Len(calls) : calls'[i] = calls[i] /\ calls[i] \in Call
  BY <1>1, <1>2, <1>3
<1>5. /\ chains' \in [Keys -> 0 .. n] /\ chains'[k] = n
      /\ \A l \in Keys : l # k => chains'[l] = chains[l]
      /\ chains \in [Keys -> 0 .. Len(calls)]
  BY <1>1, <1>3 DEF IInv, TypeOK
<1>6. TypeOK'
  <2>1. \A i \in DOMAIN calls' : calls'[i].prior < i
    BY <1>1, <1>2, <1>4 DEF IInv, TypeOK
  <2>2. \A w \in DOMAIN waits' : waits'[w].on <= waits'[w].seen /\ waits'[w].seen <= Len(calls')
    <3>1. \A w \in DOMAIN waits : waits[w].seen \in Nat
      BY Fields DEF IInv
    <3> QED BY <1>1, <1>3, <1>4, <3>1 DEF IInv, TypeOK
  <2> QED BY <1>3, <1>4, <1>5, <2>1, <2>2 DEF IInv, TypeOK
<1>7. OneKey'
  <2>1. \A i \in DOMAIN calls' : calls'[i].prior # 0 => calls'[calls'[i].prior].key = calls'[i].key
    <3> SUFFICES ASSUME NEW i \in 1 .. n, calls'[i].prior # 0
                 PROVE  calls'[calls'[i].prior].key = calls'[i].key
      BY <1>4
    <3>1. CASE i = n
      BY <3>1, <1>1, <1>2, <1>4 DEF IInv, OneKey
    <3>2. CASE i # n
      <4>1. i \in 1 .. Len(calls) /\ calls[i].prior \in Nat /\ calls[i].prior < i
        BY <3>2, <1>1, <1>4, Fields DEF IInv
      <4> QED BY <4>1, <1>1, <1>4 DEF IInv, OneKey
    <3> QED BY <3>1, <3>2
  <2>2. \A l \in Keys : chains'[l] # 0 => calls'[chains'[l]].key = l
    <3> SUFFICES ASSUME NEW l \in Keys, chains'[l] # 0
                 PROVE  calls'[chains'[l]].key = l
      OBVIOUS
    <3>1. CASE l = k
      BY <3>1, <1>2, <1>4, <1>5
    <3>2. CASE l # k
      <4>1. chains'[l] = chains[l] /\ chains[l] \in 1 .. Len(calls)
        BY <3>2, <1>1, <1>5
      <4>2. calls'[chains[l]] = calls[chains[l]]
        BY <4>1, <1>4
      <4> QED BY <4>1, <4>2 DEF IInv, OneKey
    <3> QED BY <3>1, <3>2
  <2> QED BY <2>1, <2>2 DEF OneKey
<1>8. InTurn'
  BY <1>1, <1>2, <1>4 DEF IInv, InTurn
<1>9. NothingForgotten'
  <2> SUFFICES ASSUME NEW i \in 1 .. n, calls'[i].state # "settled"
               PROVE  /\ chains'[calls'[i].key] >= i
                      /\ \A j \in i + 1 .. n : calls'[j].key = calls'[i].key => calls'[j].prior >= i
    BY <1>4 DEF NothingForgotten
  <2>1. CASE i = n
    BY <2>1, <1>1, <1>2, <1>4, <1>5
  <2>2. CASE i # n
    <3>1. /\ i \in 1 .. Len(calls) /\ calls'[i] = calls[i] /\ calls[i].key \in Keys
          /\ chains[calls[i].key] >= i
          /\ \A j \in i + 1 .. Len(calls) : calls[j].key = calls[i].key => calls[j].prior >= i
      BY <2>2, <1>1, <1>4, Fields, SMTT(30) DEF IInv, NothingForgotten
    <3>2. chains'[calls'[i].key] >= i
      BY <3>1, <1>1, <1>5
    <3>3. ASSUME NEW j \in i + 1 .. n, calls'[j].key = calls'[i].key
          PROVE  calls'[j].prior >= i
      <4>1. CASE j = n
        BY <4>1, <3>1, <3>3, <1>2, <1>4
      <4>2. CASE j # n
        BY <4>2, <3>1, <3>3, <1>1, <1>4
      <4> QED BY <4>1, <4>2
    <3> QED BY <3>2, <3>3
  <2> QED BY <2>1, <2>2
<1>10. WaitCovers' /\ IdleCoversEarlier'
  <2>1. \A w \in DOMAIN waits : /\ waits[w].on \in 0 .. Len(calls)
                                /\ waits[w].seen \in 0 .. Len(calls)
    BY Fields DEF IInv
  <2>2. WaitCovers'
    BY <1>1, <1>3, <1>4, <2>1 DEF IInv, WaitCovers
  <2>3. IdleCoversEarlier'
    BY <1>1, <1>3, <1>4, <2>1 DEF IInv, IdleCoversEarlier
  <2> QED BY <2>2, <2>3
<1> QED BY <1>6, <1>7, <1>8, <1>9, <1>10 DEF IInv

(* Steps that move one call on, from queued to running or from running to settled. *)
LEMMA MoveKeeps ==
  ASSUME IInv, NEW i \in DOMAIN calls, NEW s \in {"running", "settled"},
         calls' = [calls EXCEPT ![i].state = s], UNCHANGED <<chains, waits>>,
         \/ calls[i].state = "queued" /\ s = "running" /\ Settled(calls[i].prior)
         \/ calls[i].state = "running" /\ s = "settled"
  PROVE  IInv'
<1>1. /\ Len(calls) \in Nat /\ DOMAIN calls = 1 .. Len(calls) /\ calls \in Seq(Call)
      /\ \A j \in DOMAIN calls : calls[j] \in Call
  BY DEF IInv, TypeOK
<1>2. /\ DOMAIN calls' = 1 .. Len(calls) /\ Len(calls') = Len(calls)
      /\ \A j \in 1 .. Len(calls) : /\ calls'[j].key = calls[j].key
                                    /\ calls'[j].prior = calls[j].prior
                                    /\ calls'[j].state = IF j = i THEN s ELSE calls[j].state
      /\ calls' \in Seq(Call)
  <2>1. [calls[i] EXCEPT !.state = s] \in Call
    BY <1>1 DEF Call
  <2>2. calls' = [calls EXCEPT ![i] = [calls[i] EXCEPT !.state = s]]
    OBVIOUS
  <2>3. calls' \in Seq(Call) /\ DOMAIN calls' = DOMAIN calls /\ Len(calls') = Len(calls)
    BY <2>1, <2>2, <1>1
  <2>4. \A j \in 1 .. Len(calls) : /\ calls'[j].key = calls[j].key
                                  /\ calls'[j].prior = calls[j].prior
                                  /\ calls'[j].state = IF j = i THEN s ELSE calls[j].state
    BY <1>1, <2>2 DEF Call
  <2> QED BY <1>1, <2>3, <2>4
<1>3. TypeOK'
  BY <1>1, <1>2 DEF IInv, TypeOK
<1>4. OneKey'
  BY <1>1, <1>2, Fields, SMTT(30) DEF IInv, TypeOK, OneKey
<1>5. InTurn'
  <2> SUFFICES ASSUME NEW j \in 1 .. Len(calls), calls'[j].state # "queued",
                      NEW h \in 1 .. j - 1, calls'[h].key = calls'[j].key
               PROVE  calls'[h].state = "settled"
    BY <1>2 DEF InTurn
  <2>1. h \in 1 .. Len(calls) /\ calls[h].key = calls[j].key
    BY <1>1, <1>2
  <2>2. CASE calls[j].state # "queued"
    BY <2>1, <2>2, <1>1, <1>2 DEF IInv, InTurn
  <2>3. CASE calls[j].state = "queued"
    <3>1. j = i /\ Settled(calls[j].prior)
      BY <2>3, <1>2
    <3>2. calls[j].prior \in 0 .. j - 1
      BY Fields, <1>1 DEF IInv
    <3>3. CASE calls[h].state = "settled"
      BY <3>1, <3>3, <2>1, <1>2
    <3>4. CASE calls[h].state # "settled"
      <4>1. calls[j].prior >= h
        BY <3>4, <2>1, <1>1 DEF IInv, NothingForgotten
      <4>2. calls[calls[j].prior].state = "settled" /\ calls[calls[j].prior].key = calls[j].key
        BY <4>1, <3>1, <3>2, <1>1 DEF Settled, IInv, OneKey
      <4>3. calls[j].prior # h
        BY <4>2, <3>4
      <4> QED BY <4>1, <4>2, <4>3, <3>2, <3>4, <2>1, <1>1 DEF IInv, InTurn
    <3> QED BY <3>3, <3>4
  <2> QED BY <2>2, <2>3
<1>6. NothingForgotten'
  BY <1>1, <1>2 DEF IInv, NothingForgotten
<1>7. WaitCovers' /\ IdleCoversEarlier'
  <2>1. WaitCovers'
    BY <1>1, <1>2, Fields DEF IInv, WaitCovers
  <2>2. IdleCoversEarlier'
    BY <1>1, <1>2, Fields DEF IInv, IdleCoversEarlier
  <2> QED BY <2>1, <2>2
<1> QED BY <1>3, <1>4, <1>5, <1>6, <1>7 DEF IInv

(* A call that is over takes its own entry out; every call after it under the key *)
(* replaced that entry, so no call still to come is cut off.                      *)
LEMMA ForgetKeeps ==
  ASSUME IInv, NEW i \in DOMAIN calls, Forget(i)
  PROVE  IInv'
<1> DEFINE k == calls[i].key
<1>1. k \in Keys /\ Len(calls) \in Nat /\ DOMAIN calls = 1 .. Len(calls)
  BY Fields DEF IInv
<1>2. /\ chains' \in [Keys -> 0 .. Len(calls)] /\ chains'[k] = 0 /\ chains[k] = i
      /\ \A l \in Keys : l # k => chains'[l] = chains[l]
      /\ calls' = calls /\ waits' = waits /\ calls[i].state = "settled"
  BY <1>1 DEF Forget, IInv, TypeOK
<1>3. \A j \in DOMAIN calls : calls[j].key = k => calls[j].state = "settled"
  <2> SUFFICES ASSUME NEW j \in DOMAIN calls, calls[j].key = k, calls[j].state # "settled"
               PROVE  FALSE
    OBVIOUS
  <2>1. i >= j
    BY <1>2 DEF IInv, NothingForgotten
  <2> QED BY <2>1, <1>1, <1>2 DEF IInv, InTurn
<1>4. TypeOK' /\ OneKey' /\ InTurn' /\ WaitCovers' /\ IdleCoversEarlier'
  BY <1>1, <1>2 DEF IInv, TypeOK, OneKey, InTurn, WaitCovers, IdleCoversEarlier
<1>5. NothingForgotten'
  BY <1>1, <1>2, <1>3, Fields DEF IInv, NothingForgotten
<1> QED BY <1>4, <1>5 DEF IInv

(* A new wait, on whatever the map holds; nothing else changes. *)
LEMMA WhenIdleKeeps ==
  ASSUME IInv, NEW k \in Keys, WhenIdle(k)
  PROVE  IInv'
<1> DEFINE n == Len(waits) + 1
           x == [key |-> k, on |-> chains[k], seen |-> Len(calls), back |-> FALSE]
<1>1. /\ Len(calls) \in Nat /\ DOMAIN calls = 1 .. Len(calls) /\ Len(waits) \in Nat
      /\ chains[k] \in 0 .. Len(calls) /\ waits \in Seq(Wait) /\ n \in Nat /\ n = Len(waits) + 1
  BY DEF IInv, TypeOK
<1>2. x \in Wait /\ x.key = k /\ x.on = chains[k] /\ x.seen = Len(calls) /\ x.back = FALSE
  BY <1>1 DEF Wait
<1>3. waits' = Append(waits, x) /\ calls' = calls /\ chains' = chains
  BY DEF WhenIdle
<1> HIDE DEF n, x
<1>4. /\ DOMAIN waits' = 1 .. n /\ DOMAIN waits = 1 .. Len(waits)
      /\ waits'[n] = x /\ waits' \in Seq(Wait)
      /\ \A w \in 1 .. Len(waits) : waits'[w] = waits[w]
  BY <1>1, <1>2, <1>3
<1>5. TypeOK' /\ OneKey' /\ InTurn' /\ NothingForgotten'
  BY <1>1, <1>2, <1>3, <1>4 DEF IInv, TypeOK, OneKey, InTurn, NothingForgotten
<1>6. WaitCovers'
  <2>1. x.on # 0 => calls[x.on].key = k
    BY <1>2 DEF IInv, OneKey
  <2>2. \A i \in 1 .. Len(calls) : calls[i].key = k /\ calls[i].state # "settled" => x.on >= i
    BY <1>1, <1>2 DEF IInv, NothingForgotten
  <2> QED BY <2>1, <2>2, <1>1, <1>2, <1>3, <1>4 DEF IInv, WaitCovers
<1>7. IdleCoversEarlier'
  BY <1>1, <1>2, <1>3, <1>4 DEF IInv, IdleCoversEarlier
<1> QED BY <1>5, <1>6, <1>7 DEF IInv

(* What was waited for is over, and so, in turn, is all that came before it. *)
LEMMA ResumeKeeps ==
  ASSUME IInv, NEW w \in DOMAIN waits, Resume(w)
  PROVE  IInv'
<1>1. /\ waits \in Seq(Wait) /\ waits[w] \in Wait
      /\ calls' = calls /\ chains' = chains /\ ~waits[w].back /\ Settled(waits[w].on)
      /\ waits' = [waits EXCEPT ![w] = [waits[w] EXCEPT !.back = TRUE]]
  BY DEF IInv, TypeOK, Resume
<1>2. [waits[w] EXCEPT !.back = TRUE] \in Wait
  BY <1>1 DEF Wait
<1>3. /\ waits' \in Seq(Wait) /\ DOMAIN waits' = DOMAIN waits
      /\ \A v \in DOMAIN waits : v # w => waits'[v] = waits[v]
  BY <1>1, <1>2
<1>4. waits'[w].key = waits[w].key /\ waits'[w].on = waits[w].on /\ waits'[w].seen = waits[w].seen
  BY <1>1 DEF Wait
<1>5. TypeOK' /\ OneKey' /\ InTurn' /\ NothingForgotten' /\ WaitCovers'
  BY <1>1, <1>3, <1>4 DEF IInv, TypeOK, OneKey, InTurn, NothingForgotten, WaitCovers
<1>6. IdleCoversEarlier'
  <2> SUFFICES ASSUME NEW i \in 1 .. waits[w].seen, calls[i].key = waits[w].key
               PROVE  calls[i].state = "settled"
    BY <1>1, <1>3, <1>4 DEF IInv, IdleCoversEarlier
  <2> SUFFICES ASSUME calls[i].state # "settled" PROVE FALSE
    OBVIOUS
  <2> DEFINE p == waits[w].on
  <2>1. p >= i /\ p \in 0 .. Len(calls) /\ Len(calls) \in Nat /\ waits[w].seen \in 0 .. Len(calls)
    BY Fields DEF IInv, WaitCovers
  <2>2. p # 0 /\ calls[p].key = waits[w].key /\ calls[p].state = "settled"
    BY <2>1, <1>1 DEF IInv, WaitCovers, Settled
  <2> QED BY <2>1, <2>2, Fields DEF IInv, InTurn
<1> QED BY <1>5, <1>6 DEF IInv

LEMMA StepKeeps == IInv /\ [Next]_vars => IInv'
<1> SUFFICES ASSUME IInv, [Next]_vars PROVE IInv'
  OBVIOUS
<1>1. CASE \E k \in Keys : OneAtATime(k) \/ WhenIdle(k)
  BY <1>1, OneAtATimeKeeps, WhenIdleKeeps
<1>2. ASSUME NEW i \in DOMAIN calls, Start(i) PROVE IInv'
  BY <1>2, MoveKeeps DEF Start
<1>3. ASSUME NEW i \in DOMAIN calls, Settle(i) PROVE IInv'
  BY <1>3, MoveKeeps DEF Settle
<1>4. ASSUME NEW i \in DOMAIN calls, Forget(i) PROVE IInv'
  BY <1>4, ForgetKeeps
<1>5. ASSUME NEW w \in DOMAIN waits, Resume(w) PROVE IInv'
  BY <1>5, ResumeKeeps
<1>6. CASE UNCHANGED vars
  BY <1>6 DEF vars, IInv, TypeOK, OneKey, InTurn, NothingForgotten, WaitCovers, IdleCoversEarlier
<1> QED BY <1>1, <1>2, <1>3, <1>4, <1>5, <1>6 DEF Next

LEMMA Inductive == Spec => []IInv
<1> QED BY InitIInv, StepKeeps, PTL DEF Spec
-----------------------------------------------------------------------------
(* The calls, the map and the waits keep their shape; a call waits only for an earlier one. *)
THEOREM ChainsTyped == Spec => []TypeOK
<1>1. IInv => TypeOK
  BY DEF IInv
<1> QED BY <1>1, Inductive, PTL

(* Under one key calls run one after another, in the order they were made. *)
THEOREM CallsRunInTurn == Spec => []InTurn
<1>1. IInv => InTurn
  BY DEF IInv
<1> QED BY <1>1, Inductive, PTL

(* No call not yet over is ever cut off from the map's entry for its key. *)
THEOREM NoCallForgotten == Spec => []NothingForgotten
<1>1. IInv => NothingForgotten
  BY DEF IInv
<1> QED BY <1>1, Inductive, PTL

(* A caller of whenIdle goes on only after every call made before it asked is over. *)
THEOREM WaitersSeeEarlierCallsOver == Spec => []IdleCoversEarlier
<1>1. IInv => IdleCoversEarlier
  BY DEF IInv
<1> QED BY <1>1, Inductive, PTL
-----------------------------------------------------------------------------
(* A step of the chains is a turn taken, or a stutter. *)
LEMMA StepTakesTurns == IInv /\ [Next]_vars => [T!TNext]_(T!tvars)
<1> SUFFICES ASSUME IInv, [Next]_vars PROVE [T!TNext]_(T!tvars)
  OBVIOUS
<1>0. Len(calls) \in Nat /\ DOMAIN calls = 1 .. Len(calls) /\ calls \in Seq(Call)
  BY DEF IInv, TypeOK
<1>1. ASSUME NEW k \in Keys, OneAtATime(k) PROVE T!Ask(k)
  <2> DEFINE c == [key |-> k, prior |-> chains[k], state |-> "queued"]
             n == Len(calls) + 1
  <2>1. chains[k] \in Nat
    BY <1>0 DEF IInv, TypeOK
  <2>2. /\ DOMAIN calls' = 1 .. n /\ Len(calls') = n /\ calls'[n].key = k /\ calls'[n].state = "queued"
        /\ \A i \in 1 .. Len(calls) : calls'[i] = calls[i]
    BY <1>0, <1>1, <2>1 DEF OneAtATime, Call
  <2>3. \A l \in Keys : InState(l, "running")' = InState(l, "running")
    BY <1>0, <2>2 DEF InState
  <2>4. \A l \in Keys : l # k => InState(l, "queued")' = InState(l, "queued")
    BY <1>0, <2>2 DEF InState
  <2>5. InState(k, "queued")' = InState(k, "queued") \cup {n}
    BY <1>0, <2>2 DEF InState
  <2> QED BY <2>2, <2>3, <2>4, <2>5 DEF T!Ask
<1>2. ASSUME NEW i \in DOMAIN calls, Start(i) PROVE T!Enter(calls[i].key, i)
  <2> DEFINE k == calls[i].key
  <2>1. /\ DOMAIN calls' = DOMAIN calls /\ Len(calls') = Len(calls) /\ k \in Keys
        /\ \A j \in DOMAIN calls : /\ calls'[j].key = calls[j].key
                                  /\ calls'[j].state = IF j = i THEN "running" ELSE calls[j].state
    <3>1. \A j \in DOMAIN calls : calls[j] \in Call
      BY <1>0
    <3> QED BY <1>0, <1>2, <3>1, Fields DEF Start, Call, IInv
  <2>2. /\ calls[i].state = "queued" /\ InTurn' /\ InTurn
    BY <1>2, MoveKeeps DEF Start, IInv
  <2>3. \A j \in 1 .. i - 1 : calls[j].key = k => calls[j].state = "settled"
    BY <1>0, <2>1, <2>2 DEF InTurn
  <2>4. \A j \in DOMAIN calls : calls[j].key = k /\ calls[j].state # "queued" => j < i
    BY <1>0, <2>2 DEF InTurn
  <2>5. InState(k, "running") = {} /\ InState(k, "running")' = {i}
    BY <1>0, <2>1, <2>2, <2>3, <2>4 DEF InState
  <2>6. i \in InState(k, "queued") /\ InState(k, "queued")' = InState(k, "queued") \ {i}
    BY <1>0, <2>1, <2>2 DEF InState
  <2>7. \A d \in InState(k, "queued") : i <= d
    BY <1>0, <2>3 DEF InState
  <2>8. \A l \in Keys : l # k => /\ InState(l, "queued")' = InState(l, "queued")
                                /\ InState(l, "running")' = InState(l, "running")
    BY <1>0, <2>1 DEF InState
  <2> QED BY <2>1, <2>5, <2>6, <2>7, <2>8 DEF T!Enter
<1>3. ASSUME NEW i \in DOMAIN calls, Settle(i) PROVE T!Leave(calls[i].key)
  <2> DEFINE k == calls[i].key
  <2>1. /\ DOMAIN calls' = DOMAIN calls /\ Len(calls') = Len(calls) /\ k \in Keys
        /\ calls[i].state = "running"
        /\ \A j \in DOMAIN calls : /\ calls'[j].key = calls[j].key
                                  /\ calls'[j].state = IF j = i THEN "settled" ELSE calls[j].state
    <3>1. \A j \in DOMAIN calls : calls[j] \in Call
      BY <1>0
    <3> QED BY <1>0, <1>3, <3>1, Fields DEF Settle, Call, IInv
  <2>2. \A j \in DOMAIN calls : calls[j].key = k /\ calls[j].state = "running" => j = i
    BY <1>0, <2>1 DEF IInv, InTurn
  <2>3. InState(k, "running") # {} /\ InState(k, "running")' = {}
    BY <1>0, <2>1, <2>2 DEF InState
  <2>4. \A l \in Keys : /\ InState(l, "queued")' = InState(l, "queued")
                        /\ l # k => InState(l, "running")' = InState(l, "running")
    BY <1>0, <2>1 DEF InState
  <2> QED BY <2>1, <2>3, <2>4 DEF T!Leave
<1>4. CASE UNCHANGED calls
  BY <1>4 DEF T!tvars, InState
<1>5. ASSUME NEW i \in DOMAIN calls, Start(i) \/ Settle(i) PROVE T!TNext
  <2>1. calls[i].key \in Keys
    BY Fields DEF IInv
  <2>2. Start(i) => i \in InState(calls[i].key, "queued")
    BY DEF Start, InState
  <2> QED BY <1>2, <1>3, <1>5, <2>1, <2>2 DEF T!TNext
<1>6. ASSUME NEW k \in Keys, OneAtATime(k) PROVE T!TNext
  BY <1>1, <1>6 DEF T!TNext
<1> QED BY <1>4, <1>5, <1>6 DEF Next, vars, Forget, WhenIdle, Resume

(* The promise chains implement the turns: the numbers are handed out in order, and *)
(* a call enters only an empty room, after all those that asked before it.          *)
THEOREM ChainsImplementTurns == Spec => TurnsAreTaken
<1>1. Init => T!TInit
  BY DEF Init, T!TInit, InState
<1> QED BY <1>1, Inductive, StepTakesTurns, PTL DEF Spec, TurnsAreTaken, T!TSpec
=============================================================================
