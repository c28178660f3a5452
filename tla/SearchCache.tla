---------------------------- MODULE SearchCache -----------------------------
(***************************************************************************)
(* CachedVectorStore (services/caching.rs): the cache of one collection,   *)
(* at one search key, with readers and writers on other threads.  What the *)
(* store holds is the number of the mutation that made it.                 *)
(*                                                                         *)
(* The caches of a collection are numbered too: to invalidate is to detach *)
(* the collection's cache, and the next search makes another, while a      *)
(* search that runs goes on with the handle it took.                       *)
(***************************************************************************)
EXTENDS Integers

CONSTANTS
  Reader,     \* the tasks that search
  Writer,     \* the tasks that upsert and delete
  Cache,      \* the caches made in turn, numbered
  MaxStore    \* bound: mutations of the store

ASSUME CacheAssumption == Cache \subseteq Nat \ {0}
ASSUME MaxStoreAssumption == MaxStore \in Nat
ASSUME RolesAssumption == Reader \cap Writer = {}

Nothing == -1

VARIABLES
  enabled,  \* vector_search_cache_enabled
  store,    \* the mutation the inner store is at
  done,     \* the newest mutation that has returned
  current,  \* the collection's cache, 0 while it has none
  made,     \* the caches made so far
  entry,    \* what each of them holds at the key
  pc,       \* the await each task has reached
  handle,   \* the cache a search has looked up, a mutation has detached
  found,    \* what a search has read, the mutation a writer has made
  floor,    \* what done was when a search began
  got       \* what the last search of a reader has answered with

mem == <<enabled, current, made, entry>>
task == <<pc, handle, found>>
view == <<floor, got>>
vars == <<store, done, mem, task, view>>

Task == Reader \cup Writer

Init ==
  /\ enabled \in BOOLEAN
  /\ store = 0 /\ done = 0
  /\ current = 0 /\ made = {} /\ entry = [c \in Cache |-> Nothing]
  /\ pc = [t \in Task |-> "idle"]
  /\ handle = [t \in Task |-> 0]
  /\ found = [t \in Task |-> Nothing]
  /\ floor = [r \in Reader |-> Nothing]
  /\ got = [r \in Reader |-> Nothing]

Goto(t, l) == pc' = [pc EXCEPT ![t] = l]

\* The future has completed or has been dropped.
End(t) ==
  /\ Goto(t, "idle")
  /\ handle' = [handle EXCEPT ![t] = 0]
  /\ found' = [found EXCEPT ![t] = Nothing]

-----------------------------------------------------------------------------
(* search.                                                                 *)

Search(r) ==
  /\ pc[r] = "idle"
  /\ floor' = [floor EXCEPT ![r] = done]
  /\ got' = [got EXCEPT ![r] = Nothing]
  /\ Goto(r, IF enabled THEN "open" ELSE "inner")
  /\ UNCHANGED <<store, done, mem, handle, found>>

\* collection_cache: the handle of the collection's cache, which is made if missing.
CollectionCache(r) ==
  /\ pc[r] = "open"
  /\ IF current # 0
     THEN handle' = [handle EXCEPT ![r] = current] /\ UNCHANGED <<current, made>>
     ELSE \E c \in Cache \ made :
            /\ \A d \in Cache \ made : c <= d
            /\ current' = c /\ made' = made \cup {c}
            /\ handle' = [handle EXCEPT ![r] = c]
  /\ Goto(r, "look")
  /\ UNCHANGED <<store, done, enabled, entry, found, view>>

Answer(r, v) ==
  /\ got' = [got EXCEPT ![r] = v]
  /\ floor' = [floor EXCEPT ![r] = Nothing]
  /\ End(r)

Hit(r) ==
  /\ pc[r] = "look"
  /\ entry[handle[r]] # Nothing
  /\ Answer(r, entry[handle[r]])
  /\ UNCHANGED <<store, done, mem>>

Miss(r) ==
  /\ pc[r] = "look"
  /\ entry[handle[r]] = Nothing
  /\ Goto(r, "inner")
  /\ UNCHANGED <<store, done, mem, handle, found, view>>

InnerSearch(r) ==
  /\ pc[r] = "inner"
  /\ IF enabled
     THEN /\ found' = [found EXCEPT ![r] = store]
          /\ Goto(r, "fill")
          /\ UNCHANGED <<handle, view>>
     ELSE Answer(r, store)
  /\ UNCHANGED <<store, done, mem>>

Fill(r) ==
  /\ pc[r] = "fill"
  /\ entry' = [entry EXCEPT ![handle[r]] = found[r]]
  /\ Answer(r, found[r])
  /\ UNCHANGED <<store, done, enabled, current, made>>

\* The inner search fails and nothing is cached, or the caller drops the search.
Abandon(r) ==
  /\ pc[r] # "idle"
  /\ floor' = [floor EXCEPT ![r] = Nothing]
  /\ End(r)
  /\ UNCHANGED <<store, done, mem, got>>

-----------------------------------------------------------------------------
(* upsert, upsert_with_sparse, delete_by_filter, delete_collection.        *)

Begin(w) ==
  /\ pc[w] = "idle"
  /\ Goto(w, "mutate")
  /\ UNCHANGED <<store, done, mem, handle, found, view>>

\* The inner call takes effect, or fails, having changed the store or not.
Mutate(w) ==
  /\ pc[w] = "mutate"
  /\ \/ store < MaxStore /\ store' = store + 1
     \/ UNCHANGED store
  /\ found' = [found EXCEPT ![w] = store']
  /\ Goto(w, "detach")
  /\ UNCHANGED <<done, mem, handle, view>>

\* Mutant: the collection keeps its cache, which is only emptied.
DetachNothing(w) ==
  /\ pc[w] = "detach"
  /\ handle' = [handle EXCEPT ![w] = current]
  /\ Goto(w, "invalidate")
  /\ UNCHANGED <<store, done, mem, found, view>>

Detach(w) ==
  /\ pc[w] = "detach"
  /\ handle' = [handle EXCEPT ![w] = current]
  /\ current' = 0
  /\ Goto(w, "invalidate")
  /\ UNCHANGED <<store, done, enabled, made, entry, found, view>>

(* invalidate_all on the detached cache, which delete_collection omits;    *)
(* then the mutation returns.                                              *)
Invalidate(w) ==
  /\ pc[w] = "invalidate"
  /\ \/ entry' = [c \in Cache |-> IF c = handle[w] THEN Nothing ELSE entry[c]]
     \/ UNCHANGED entry
  /\ done' = IF found[w] > done THEN found[w] ELSE done
  /\ End(w)
  /\ UNCHANGED <<store, enabled, current, made, view>>

\* The caller drops the mutation, with or without its effect on the store.
Drop(w) ==
  /\ pc[w] # "idle"
  /\ End(w)
  /\ UNCHANGED <<store, done, mem, view>>

\* moka: the time to live has passed, or the capacity is needed.
Evict(c) ==
  /\ entry[c] # Nothing
  /\ entry' = [entry EXCEPT ![c] = Nothing]
  /\ UNCHANGED <<store, done, enabled, current, made, task, view>>

-----------------------------------------------------------------------------
Next ==
  \/ \E r \in Reader : \/ Search(r) \/ CollectionCache(r) \/ Hit(r) \/ Miss(r)
                       \/ InnerSearch(r) \/ Fill(r) \/ Abandon(r)
  \/ \E w \in Writer : Begin(w) \/ Mutate(w) \/ Detach(w) \/ Invalidate(w) \/ Drop(w)
  \/ \E c \in Cache : Evict(c)

Spec == Init /\ [][Next]_vars

-----------------------------------------------------------------------------
TypeOK ==
  /\ enabled \in BOOLEAN
  /\ store \in 0..MaxStore
  /\ done \in 0..store
  /\ made \subseteq Cache
  /\ current \in made \cup {0}
  /\ entry \in [Cache -> {Nothing} \cup 0..store]
  /\ pc \in [Task -> {"idle", "open", "look", "inner", "fill",
                      "mutate", "detach", "invalidate"}]
  /\ handle \in [Task -> made \cup {0}]
  /\ found \in [Task -> {Nothing} \cup 0..store]
  /\ floor \in [Reader -> {Nothing} \cup 0..done]
  /\ got \in [Reader -> {Nothing} \cup 0..store]

(* The refinement mapping is the identity: the caches are hidden.          *)
Promise == INSTANCE FreshReads

(* "Mutating operations invalidate the cache for the affected collection   *)
(* so that subsequent searches do not return stale results": a search that *)
(* begins after a mutation has returned never answers with older data,     *)
(* though searches that ran meanwhile fill the cache whenever they like.   *)
NeverStale == Promise!Spec

=============================================================================
