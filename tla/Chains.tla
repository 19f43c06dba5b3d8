------------------------------- MODULE Chains -------------------------------
(***************************************************************************)
(* oneAtATime and whenIdle of src/processor.ts: an in-memory chain of      *)
(* promises per key.  A call takes the promise the map holds under its key *)
(* as the one to wait for and leaves its own there; once settled it takes  *)
(* its own out again, unless a later call has replaced it.                 *)
(*                                                                         *)
(* Calls are numbered in the order they are made.  Number 0 stands for     *)
(* Promise.resolve(), which is what an absent key means.  Resolving and    *)
(* rejecting are one outcome here: every link is followed by a catch.      *)
(***************************************************************************)
EXTENDS Naturals, Sequences

CONSTANTS Keys,      \* record uids, "notes:<host>", "push:job-create", ...
          MaxCalls,  \* bound on the calls of oneAtATime in a behaviour
          MaxWaits   \* bound on the calls of whenIdle

ASSUME BoundsAssumption == MaxCalls \in Nat /\ MaxWaits \in Nat

VARIABLES calls,  \* calls[i]: the key of call i, the call it waits for, where it is
          chains, \* the map: the last call chained under each key, 0 when absent
          waits   \* waits[i]: what the i-th caller of whenIdle waits for

vars == <<calls, chains, waits>>

Call == [key : Keys, prior : Nat, state : {"queued", "running", "settled"}]

\* seen is a history field: how many calls had been made when the wait began.
Wait == [key : Keys, on : Nat, seen : Nat, back : BOOLEAN]

TypeOK ==
  /\ calls \in Seq(Call)
  /\ chains \in [Keys -> 0 .. Len(calls)]
  /\ waits \in Seq(Wait)
  /\ \A i \in DOMAIN calls : calls[i].prior < i
  /\ \A w \in DOMAIN waits : waits[w].on <= waits[w].seen /\ waits[w].seen <= Len(calls)

Settled(i) == i # 0 => calls[i].state = "settled"

Init ==
  /\ calls = <<>>
  /\ chains = [k \in Keys |-> 0]
  /\ waits = <<>>

\* Slip: the entry is set before it is read, so the call waits for itself.
OneAtATimeItself(k) ==
  /\ Len(calls) < MaxCalls
  /\ calls' = Append(calls, [key |-> k, prior |-> Len(calls) + 1, state |-> "queued"])
  /\ chains' = [chains EXCEPT ![k] = Len(calls) + 1]
  /\ UNCHANGED waits

OneAtATime(k) ==
  /\ Len(calls) < MaxCalls
  /\ calls' = Append(calls, [key |-> k, prior |-> chains[k], state |-> "queued"])
  /\ chains' = [chains EXCEPT ![k] = Len(calls) + 1]
  /\ UNCHANGED waits

\* Slip: fn is called at once.
StartAnyway(i) ==
  /\ calls[i].state = "queued"
  /\ calls' = [calls EXCEPT ![i].state = "running"]
  /\ UNCHANGED <<chains, waits>>

\* prior.catch(...).then(fn)
Start(i) ==
  /\ calls[i].state = "queued"
  /\ Settled(calls[i].prior)
  /\ calls' = [calls EXCEPT ![i].state = "running"]
  /\ UNCHANGED <<chains, waits>>

Settle(i) ==
  /\ calls[i].state = "running"
  /\ calls' = [calls EXCEPT ![i].state = "settled"]
  /\ UNCHANGED <<chains, waits>>

\* Slip: the key is deleted without looking whether a later call is chained there.
ForgetAnyway(i) ==
  /\ calls[i].state = "settled"
  /\ chains' = [chains EXCEPT ![calls[i].key] = 0]
  /\ UNCHANGED <<calls, waits>>

\* Slip: the entry is compared with the promise waited for, not with the call's own.
ForgetPrior(i) ==
  /\ calls[i].state = "settled"
  /\ chains[calls[i].key] = calls[i].prior
  /\ chains' = [chains EXCEPT ![calls[i].key] = 0]
  /\ UNCHANGED <<calls, waits>>

\* if (chains.get(key) === tail) chains.delete(key)
Forget(i) ==
  /\ calls[i].state = "settled"
  /\ chains[calls[i].key] = i
  /\ chains' = [chains EXCEPT ![calls[i].key] = 0]
  /\ UNCHANGED <<calls, waits>>

WhenIdle(k) ==
  /\ Len(waits) < MaxWaits
  /\ waits' = Append(waits, [key |-> k, on |-> chains[k], seen |-> Len(calls), back |-> FALSE])
  /\ UNCHANGED <<calls, chains>>

Resume(w) ==
  /\ ~waits[w].back
  /\ Settled(waits[w].on)
  /\ waits' = [waits EXCEPT ![w].back = TRUE]
  /\ UNCHANGED <<calls, chains>>

Next ==
  \/ \E k \in Keys : OneAtATime(k) \/ WhenIdle(k)
  \/ \E i \in DOMAIN calls : Start(i) \/ Settle(i) \/ Forget(i)
  \/ \E w \in DOMAIN waits : Resume(w)

\* Promise callbacks always run, and every fn ends: the fetches it makes carry timeouts.
Fairness ==
  /\ \A i \in 1 .. MaxCalls :
       /\ WF_vars(i \in DOMAIN calls /\ Start(i))
       /\ WF_vars(i \in DOMAIN calls /\ Settle(i))
       /\ WF_vars(i \in DOMAIN calls /\ Forget(i))
  /\ \A w \in 1 .. MaxWaits : WF_vars(w \in DOMAIN waits /\ Resume(w))

Spec == Init /\ [][Next]_vars
FairSpec == Spec /\ Fairness
-----------------------------------------------------------------------------
(* Under one key, a call starts only when every call made before it is over: no   *)
(* two rebuilds of one record interleave, and the later one reads the newer state *)
(* (src/processor.ts, oneAtATime).                                                *)
InTurn ==
  \A j \in DOMAIN calls : calls[j].state # "queued" =>
    \A i \in 1 .. j - 1 : calls[i].key = calls[j].key => calls[i].state = "settled"

(* While a call under a key is not over, the key's entry leads back to it, so a   *)
(* new call cannot miss it.                                                       *)
NothingForgotten ==
  \A i \in DOMAIN calls : calls[i].state # "settled" =>
    /\ chains[calls[i].key] >= i
    /\ \A j \in i + 1 .. Len(calls) : calls[j].key = calls[i].key => calls[j].prior >= i

(* Whoever waited with whenIdle goes on only after every call made under the key  *)
(* before it asked is over: the webhook of a job just created in Zuper finds the  *)
(* job mapped.                                                                    *)
IdleCoversEarlier ==
  \A w \in DOMAIN waits : waits[w].back =>
    \A i \in 1 .. waits[w].seen : calls[i].key = waits[w].key => calls[i].state = "settled"

(* Every call gets its turn and is over, and every caller of whenIdle goes on.    *)
EveryTurnComes ==
  /\ \A i \in 1 .. MaxCalls : (i \in DOMAIN calls) ~> (i \in DOMAIN calls /\ Settled(i))
  /\ \A w \in 1 .. MaxWaits : (w \in DOMAIN waits) ~> (w \in DOMAIN waits /\ waits[w].back)

(* Once no more calls are made (they are bounded), the map is emptied: a process  *)
(* that runs for months does not keep an entry for every record it ever wrote.    *)
EntriesAreDropped == <>[](\A k \in Keys : chains[k] = 0)

(* The chain of promises implements the turns of Turns: numbers are handed out in *)
(* order, and only the call that has waited longest enters an empty room.         *)
InState(k, s) == {i \in DOMAIN calls : calls[i].key = k /\ calls[i].state = s}
T == INSTANCE Turns WITH asked <- Len(calls),
                         waiting <- [k \in Keys |-> InState(k, "queued")],
                         inside <- [k \in Keys |-> InState(k, "running")]
TurnsAreTaken == T!TSpec
=============================================================================
