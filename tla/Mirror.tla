------------------------------- MODULE Mirror -------------------------------
(***************************************************************************)
(* What the inbound sync owes each Zuper record: Tuper's copy is some      *)
(* state the record has really had, and it only ever moves forward.        *)
(* Versions number a record's states in Zuper; 0 is "not there yet".       *)
(***************************************************************************)
EXTENDS Naturals

CONSTANT Uids

VARIABLES source,  \* source[u]: the version Zuper holds
          copy     \* copy[u]: the version Tuper's row was written from

mvars == <<source, copy>>

MInit ==
  /\ source = [u \in Uids |-> 0]
  /\ copy = [u \in Uids |-> 0]

Change(u) ==
  /\ source' = [source EXCEPT ![u] = @ + 1]
  /\ UNCHANGED copy

CatchUp(u) ==
  /\ \E v \in copy[u] .. source[u] : copy' = [copy EXCEPT ![u] = v]
  /\ UNCHANGED source

MNext == \E u \in Uids : Change(u) \/ CatchUp(u)

MSpec == MInit /\ [][MNext]_mvars
=============================================================================
