------------------------------- MODULE Turns --------------------------------
(***************************************************************************)
(* What oneAtATime(key, fn) promises: under one key the calls run one      *)
(* after another, in the order they were made, however long each takes and *)
(* whether it succeeds or fails.  Chains implements it with promises.      *)
(***************************************************************************)
EXTENDS Naturals

CONSTANT Keys

VARIABLES asked,    \* how many calls have been made, which numbers them
          waiting,  \* waiting[k]: the calls under k whose turn has not come
          inside    \* inside[k]: the call under k that is running, if any

tvars == <<asked, waiting, inside>>

TInit ==
  /\ asked = 0
  /\ waiting = [k \in Keys |-> {}]
  /\ inside = [k \in Keys |-> {}]

Ask(k) ==
  /\ asked' = asked + 1
  /\ waiting' = [waiting EXCEPT ![k] = @ \cup {asked + 1}]
  /\ UNCHANGED inside

\* Nobody is inside, and c has waited longest.
Enter(k, c) ==
  /\ inside[k] = {}
  /\ c \in waiting[k]
  /\ \A d \in waiting[k] : c <= d
  /\ waiting' = [waiting EXCEPT ![k] = @ \ {c}]
  /\ inside' = [inside EXCEPT ![k] = {c}]
  /\ UNCHANGED asked

Leave(k) ==
  /\ inside[k] # {}
  /\ inside' = [inside EXCEPT ![k] = {}]
  /\ UNCHANGED <<asked, waiting>>

TNext == \E k \in Keys : Ask(k) \/ Leave(k) \/ \E c \in waiting[k] : Enter(k, c)

TSpec == TInit /\ [][TNext]_tvars
=============================================================================
