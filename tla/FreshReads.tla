----------------------------- MODULE FreshReads -----------------------------
(***************************************************************************)
(* What CachedVectorStore promises of one collection and one query: a      *)
(* search answers with a state of the store no older than the last         *)
(* mutation that had returned when the search began, and no newer than the *)
(* store.  The states of the store are numbered.                           *)
(***************************************************************************)
EXTENDS Integers

CONSTANT Reader

VARIABLES
  store,  \* the state of the store
  done,   \* the newest state whose mutation has returned
  floor,  \* what done was when a search began, -1 while there is none
  got     \* the state the last search of a reader has answered with

Init ==
  /\ store = 0 /\ done = 0
  /\ floor = [r \in Reader |-> -1]
  /\ got = [r \in Reader |-> -1]

Mutate == store' = store + 1 /\ UNCHANGED <<done, floor, got>>

Acknowledge ==
  /\ \E v \in done..store : done' = v
  /\ UNCHANGED <<store, floor, got>>

Ask(r) ==
  /\ floor[r] = -1
  /\ floor' = [floor EXCEPT ![r] = done]
  /\ got' = [got EXCEPT ![r] = -1]
  /\ UNCHANGED <<store, done>>

Answer(r) ==
  /\ floor[r] # -1
  /\ \E v \in floor[r]..store : got' = [got EXCEPT ![r] = v]
  /\ floor' = [floor EXCEPT ![r] = -1]
  /\ UNCHANGED <<store, done>>

\* The search failed, or its caller no longer waits.
Fail(r) ==
  /\ floor' = [floor EXCEPT ![r] = -1]
  /\ UNCHANGED <<store, done, got>>

Next ==
  \/ Mutate \/ Acknowledge
  \/ \E r \in Reader : Ask(r) \/ Answer(r) \/ Fail(r)

Spec == Init /\ [][Next]_<<store, done, floor, got>>

=============================================================================
