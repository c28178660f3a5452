------------------------- MODULE SearchCache_proofs -------------------------
(***************************************************************************)
(* That CachedVectorStore keeps the promise of FreshReads, for every set   *)
(* of readers and writers.                                                 *)
(*                                                                         *)
(* The argument: what the collection's cache holds, or will hold when a    *)
(* running search fills it, is no older than any mutation that has         *)
(* detached its predecessors, because whoever fills it took its handle,    *)
(* and only then read the store, after that mutation.  A search that took  *)
(* the handle of a cache since detached is older than the detaching        *)
(* mutation's return, and may be answered from it.                         *)
(***************************************************************************)
EXTENDS SearchCache, TLAPS

\* What the promise speaks of.
shown == <<store, done, floor, got>>

\* Where each task is, and what it holds there.
Stage ==
  /\ \A r \in Reader :
       /\ pc[r] \in {"idle", "open", "look", "inner", "fill"}
       /\ (pc[r] = "idle") = (floor[r] = Nothing)
       /\ pc[r] = "open" => enabled
       /\ pc[r] \in {"look", "fill"} => enabled /\ handle[r] \in made
       /\ pc[r] = "inner" /\ enabled => handle[r] \in made
       /\ pc[r] \in {"idle", "open"} => handle[r] = 0
       /\ pc[r] = "fill" => found[r] \in 0..store
  /\ \A w \in Writer :
       /\ pc[w] \in {"idle", "mutate", "detach", "invalidate"}
       /\ pc[w] \in {"detach", "invalidate"} => found[w] \in 0..store
  /\ \A c \in Cache \ made : entry[c] = Nothing

\* A mutation that has returned, or has only to return.
Settled(v) == v = done \/ \E w \in Writer : pc[w] = "invalidate" /\ v = found[w]

\* The collection's cache holds, and will hold, nothing older than those.
CurrentIsFresh ==
  current # 0 =>
    \A v \in Int : Settled(v) =>
      /\ entry[current] = Nothing \/ entry[current] >= v
      /\ \A r \in Reader : pc[r] = "fill" /\ handle[r] = current => found[r] >= v

\* What a search finds in the cache it holds is no older than its beginning.
HandleIsFresh ==
  \A r \in Reader : pc[r] \in {"look", "inner", "fill"} /\ handle[r] # 0 =>
    /\ entry[handle[r]] = Nothing \/ entry[handle[r]] >= floor[r]
    /\ \A s \in Reader : pc[s] = "fill" /\ handle[s] = handle[r] => found[s] >= floor[r]

IInv == TypeOK /\ Stage /\ CurrentIsFresh /\ HandleIsFresh

-----------------------------------------------------------------------------
(* 0 is no cache.                                                          *)
LEMMA ZeroIsNone == 0 \notin Cache
BY CacheAssumption

LEMMA SearchKeeps ==
  ASSUME IInv, NEW r \in Reader, Search(r)
  PROVE  IInv'
<1> USE ZeroIsNone, RolesAssumption, MaxStoreAssumption
    DEF IInv, Search, Goto, mem, task, view, Task, Nothing
<1>1. TypeOK'
  BY DEF TypeOK, Stage
<1>2. Stage'
  BY DEF TypeOK, Stage
<1>3. CurrentIsFresh'
  BY DEF TypeOK, Stage, CurrentIsFresh, Settled
<1>4. HandleIsFresh'
  BY DEF TypeOK, Stage, CurrentIsFresh, HandleIsFresh, Settled
<1> QED  BY <1>1, <1>2, <1>3, <1>4

LEMMA CollectionCacheKeeps ==
  ASSUME IInv, NEW r \in Reader, CollectionCache(r)
  PROVE  IInv'
<1> USE ZeroIsNone, RolesAssumption, MaxStoreAssumption
    DEF IInv, CollectionCache, Goto, mem, task, view, Task, Nothing
<1>1. TypeOK'
  BY DEF TypeOK, Stage
<1>2. Stage'
  BY DEF TypeOK, Stage
<1>3. CurrentIsFresh'
  BY DEF TypeOK, Stage, CurrentIsFresh, Settled
<1>4. HandleIsFresh'
  BY DEF TypeOK, Stage, CurrentIsFresh, HandleIsFresh, Settled
<1> QED  BY <1>1, <1>2, <1>3, <1>4

LEMMA HitKeeps ==
  ASSUME IInv, NEW r \in Reader, Hit(r)
  PROVE  IInv'
<1> USE ZeroIsNone, RolesAssumption, MaxStoreAssumption
    DEF IInv, Hit, Answer, End, Goto, mem, task, view, Task, Nothing
<1>1. TypeOK'
  BY DEF TypeOK, Stage
<1>2. Stage'
  BY DEF TypeOK, Stage
<1>3. CurrentIsFresh'
  BY DEF TypeOK, Stage, CurrentIsFresh, Settled
<1>4. HandleIsFresh'
  BY DEF TypeOK, Stage, CurrentIsFresh, HandleIsFresh, Settled
<1> QED  BY <1>1, <1>2, <1>3, <1>4

LEMMA MissKeeps ==
  ASSUME IInv, NEW r \in Reader, Miss(r)
  PROVE  IInv'
<1> USE ZeroIsNone, RolesAssumption, MaxStoreAssumption
    DEF IInv, Miss, Goto, mem, task, view, Task, Nothing
<1>1. TypeOK'
  BY DEF TypeOK, Stage
<1>2. Stage'
  BY DEF TypeOK, Stage
<1>3. CurrentIsFresh'
  BY DEF TypeOK, Stage, CurrentIsFresh, Settled
<1>4. HandleIsFresh'
  BY DEF TypeOK, Stage, CurrentIsFresh, HandleIsFresh, Settled
<1> QED  BY <1>1, <1>2, <1>3, <1>4

LEMMA InnerSearchKeeps ==
  ASSUME IInv, NEW r \in Reader, InnerSearch(r)
  PROVE  IInv'
<1> USE ZeroIsNone, RolesAssumption, MaxStoreAssumption
    DEF IInv, InnerSearch, Answer, End, Goto, mem, task, view, Task, Nothing
<1>1. TypeOK'
  BY DEF TypeOK, Stage
<1>2. Stage'
  BY DEF TypeOK, Stage
<1>3. CurrentIsFresh'
  BY DEF TypeOK, Stage, CurrentIsFresh, Settled
<1>4. HandleIsFresh'
  BY DEF TypeOK, Stage, CurrentIsFresh, HandleIsFresh, Settled
<1> QED  BY <1>1, <1>2, <1>3, <1>4

LEMMA FillKeeps ==
  ASSUME IInv, NEW r \in Reader, Fill(r)
  PROVE  IInv'
<1> USE ZeroIsNone, RolesAssumption, MaxStoreAssumption
    DEF IInv, Fill, Answer, End, Goto, mem, task, view, Task, Nothing
<1>1. TypeOK'
  BY DEF TypeOK, Stage
<1>2. Stage'
  BY DEF TypeOK, Stage
<1>3. CurrentIsFresh'
  BY DEF TypeOK, Stage, CurrentIsFresh, Settled
<1>4. HandleIsFresh'
  BY DEF TypeOK, Stage, CurrentIsFresh, HandleIsFresh, Settled
<1> QED  BY <1>1, <1>2, <1>3, <1>4

LEMMA AbandonKeeps ==
  ASSUME IInv, NEW r \in Reader, Abandon(r)
  PROVE  IInv'
<1> USE ZeroIsNone, RolesAssumption, MaxStoreAssumption
    DEF IInv, Abandon, End, Goto, mem, task, view, Task, Nothing
<1>1. TypeOK'
  BY DEF TypeOK, Stage
<1>2. Stage'
  BY DEF TypeOK, Stage
<1>3. CurrentIsFresh'
  BY DEF TypeOK, Stage, CurrentIsFresh, Settled
<1>4. HandleIsFresh'
  BY DEF TypeOK, Stage, CurrentIsFresh, HandleIsFresh, Settled
<1> QED  BY <1>1, <1>2, <1>3, <1>4

LEMMA BeginKeeps ==
  ASSUME IInv, NEW w \in Writer, Begin(w)
  PROVE  IInv'
<1> USE ZeroIsNone, RolesAssumption, MaxStoreAssumption
    DEF IInv, Begin, Goto, mem, task, view, Task, Nothing
<1>1. TypeOK'
  BY DEF TypeOK, Stage
<1>2. Stage'
  BY DEF TypeOK, Stage
<1>3. CurrentIsFresh'
  BY DEF TypeOK, Stage, CurrentIsFresh, Settled
<1>4. HandleIsFresh'
  BY DEF TypeOK, Stage, CurrentIsFresh, HandleIsFresh, Settled
<1> QED  BY <1>1, <1>2, <1>3, <1>4

LEMMA MutateKeeps ==
  ASSUME IInv, NEW w \in Writer, Mutate(w)
  PROVE  IInv'
<1> USE ZeroIsNone, RolesAssumption, MaxStoreAssumption
    DEF IInv, Mutate, Goto, mem, task, view, Task, Nothing
<1>1. TypeOK'
  BY DEF TypeOK, Stage
<1>2. Stage'
  BY DEF TypeOK, Stage
<1>3. CurrentIsFresh'
  BY DEF TypeOK, Stage, CurrentIsFresh, Settled
<1>4. HandleIsFresh'
  BY DEF TypeOK, Stage, CurrentIsFresh, HandleIsFresh, Settled
<1> QED  BY <1>1, <1>2, <1>3, <1>4

LEMMA DetachKeeps ==
  ASSUME IInv, NEW w \in Writer, Detach(w)
  PROVE  IInv'
<1> USE ZeroIsNone, RolesAssumption, MaxStoreAssumption
    DEF IInv, Detach, Goto, mem, task, view, Task, Nothing
<1>1. TypeOK'
  BY DEF TypeOK, Stage
<1>2. Stage'
  BY DEF TypeOK, Stage
<1>3. CurrentIsFresh'
  BY DEF TypeOK, Stage, CurrentIsFresh, Settled
<1>4. HandleIsFresh'
  BY DEF TypeOK, Stage, CurrentIsFresh, HandleIsFresh, Settled
<1> QED  BY <1>1, <1>2, <1>3, <1>4

LEMMA InvalidateKeeps ==
  ASSUME IInv, NEW w \in Writer, Invalidate(w)
  PROVE  IInv'
<1> USE ZeroIsNone, RolesAssumption, MaxStoreAssumption
    DEF IInv, Invalidate, End, Goto, mem, task, view, Task, Nothing
<1>1. TypeOK'
  BY DEF TypeOK, Stage
<1>2. Stage'
  BY DEF TypeOK, Stage
<1>3. CurrentIsFresh'
  BY DEF TypeOK, Stage, CurrentIsFresh, Settled
<1>4. HandleIsFresh'
  BY DEF TypeOK, Stage, CurrentIsFresh, HandleIsFresh, Settled
<1> QED  BY <1>1, <1>2, <1>3, <1>4

LEMMA DropKeeps ==
  ASSUME IInv, NEW w \in Writer, Drop(w)
  PROVE  IInv'
<1> USE ZeroIsNone, RolesAssumption, MaxStoreAssumption
    DEF IInv, Drop, End, Goto, mem, task, view, Task, Nothing
<1>1. TypeOK'
  BY DEF TypeOK, Stage
<1>2. Stage'
  BY DEF TypeOK, Stage
<1>3. CurrentIsFresh'
  BY DEF TypeOK, Stage, CurrentIsFresh, Settled
<1>4. HandleIsFresh'
  BY DEF TypeOK, Stage, CurrentIsFresh, HandleIsFresh, Settled
<1> QED  BY <1>1, <1>2, <1>3, <1>4

LEMMA EvictKeeps ==
  ASSUME IInv, NEW c \in Cache, Evict(c)
  PROVE  IInv'
<1> USE ZeroIsNone, RolesAssumption, MaxStoreAssumption
    DEF IInv, Evict, mem, task, view, Task, Nothing
<1>1. TypeOK'
  BY DEF TypeOK, Stage
<1>2. Stage'
  BY DEF TypeOK, Stage
<1>3. CurrentIsFresh'
  BY DEF TypeOK, Stage, CurrentIsFresh, Settled
<1>4. HandleIsFresh'
  BY DEF TypeOK, Stage, CurrentIsFresh, HandleIsFresh, Settled
<1> QED  BY <1>1, <1>2, <1>3, <1>4

-----------------------------------------------------------------------------
(* Every step is one of the promise or changes nothing it speaks of.       *)
LEMMA StepKeepsPromise ==
  ASSUME IInv, [Next]_vars
  PROVE  [Promise!Next]_shown
<1> USE DEF IInv, Nothing, mem, task, view, shown, Promise!Next
<1>1. ASSUME NEW r \in Reader, Search(r) PROVE Promise!Ask(r)
  BY <1>1 DEF Search, Stage, Promise!Ask
<1>2. ASSUME NEW r \in Reader, CollectionCache(r) \/ Miss(r) PROVE UNCHANGED shown
  BY <1>2 DEF CollectionCache, Miss
<1>3. ASSUME NEW r \in Reader, NEW v \in floor[r]..store, Answer(r, v), floor[r] # Nothing,
             UNCHANGED <<store, done>>
      PROVE  Promise!Answer(r)
  BY <1>3 DEF Answer, Promise!Answer
<1>4. ASSUME NEW r \in Reader, Hit(r) PROVE Promise!Answer(r)
  <2>1. entry[handle[r]] \in floor[r]..store /\ floor[r] # Nothing
    BY <1>4, ZeroIsNone DEF Hit, TypeOK, Stage, HandleIsFresh, Task
  <2> QED  BY <1>3, <1>4, <2>1 DEF Hit
<1>5. ASSUME NEW r \in Reader, InnerSearch(r) PROVE Promise!Answer(r) \/ UNCHANGED shown
  <2>1. CASE enabled
    BY <1>5, <2>1 DEF InnerSearch
  <2>2. CASE ~enabled
    <3>1. store \in floor[r]..store /\ floor[r] # Nothing
      BY <1>5, MaxStoreAssumption DEF InnerSearch, TypeOK, Stage
    <3> QED  BY <1>3, <1>5, <2>2, <3>1 DEF InnerSearch
  <2> QED  BY <2>1, <2>2
<1>6. ASSUME NEW r \in Reader, Fill(r) PROVE Promise!Answer(r)
  <2>1. found[r] \in floor[r]..store /\ floor[r] # Nothing
    BY <1>6, ZeroIsNone, MaxStoreAssumption DEF Fill, TypeOK, Stage, HandleIsFresh, Task
  <2> QED  BY <1>3, <1>6, <2>1 DEF Fill
<1>7. ASSUME NEW r \in Reader, Abandon(r) PROVE Promise!Fail(r)
  BY <1>7 DEF Abandon, Promise!Fail
<1>8. ASSUME NEW w \in Writer, Begin(w) \/ Detach(w) \/ Drop(w) PROVE UNCHANGED shown
  BY <1>8 DEF Begin, Detach, Drop
<1>9. ASSUME NEW w \in Writer, Mutate(w) PROVE Promise!Mutate \/ UNCHANGED shown
  BY <1>9 DEF Mutate, Promise!Mutate
<1>10. ASSUME NEW w \in Writer, Invalidate(w) PROVE Promise!Acknowledge
  <2>1. done' \in done..store
    BY <1>10, MaxStoreAssumption DEF Invalidate, TypeOK, Stage
  <2> QED  BY <1>10, <2>1 DEF Invalidate, Promise!Acknowledge
<1>11. ASSUME NEW c \in Cache, Evict(c) PROVE UNCHANGED shown
  BY <1>11 DEF Evict
<1>12. CASE UNCHANGED vars
  BY <1>12 DEF vars
<1> QED  BY <1>1, <1>2, <1>4, <1>5, <1>6, <1>7, <1>8, <1>9, <1>10, <1>11, <1>12 DEF Next

LEMMA StepKeepsIInv == IInv /\ [Next]_vars => IInv'
<1> SUFFICES ASSUME IInv, [Next]_vars PROVE IInv'
  OBVIOUS
<1>1. CASE UNCHANGED vars
  BY <1>1 DEF IInv, TypeOK, Stage, CurrentIsFresh, HandleIsFresh, Settled,
              vars, mem, task, view
<1> QED
  BY <1>1, SearchKeeps, CollectionCacheKeeps, HitKeeps, MissKeeps, InnerSearchKeeps,
     FillKeeps, AbandonKeeps, BeginKeeps, MutateKeeps, DetachKeeps, InvalidateKeeps,
     DropKeeps, EvictKeeps DEF Next

LEMMA InitIInv == Init => IInv
BY ZeroIsNone, RolesAssumption, MaxStoreAssumption
   DEF Init, IInv, TypeOK, Stage, CurrentIsFresh, HandleIsFresh, Settled, Task, Nothing

THEOREM Inductive == Spec => []IInv
BY InitIInv, StepKeepsIInv, PTL DEF Spec

(* The state is of the declared kind, the bound on mutations included.     *)
THEOREM TypeCorrect == Spec => []TypeOK
BY Inductive, PTL DEF IInv

(* CachedVectorStore implements FreshReads: a search that begins after a   *)
(* mutation has returned does not answer with older data, whatever the     *)
(* searches and mutations that overlap it do with the cache.               *)
THEOREM Refines == Spec => NeverStale
<1>1. Init => Promise!Init
  BY DEF Init, Promise!Init, Nothing
<1>2. IInv /\ [Next]_vars => [Promise!Next]_shown
  BY StepKeepsPromise
<1> QED  BY <1>1, <1>2, Inductive, PTL DEF Spec, NeverStale, Promise!Spec, shown

=============================================================================
