------------------------ MODULE ProjectIndex_proofs ------------------------
(***************************************************************************)
(* What the index shows of a file, for any projects, files and contents,   *)
(* when no two files share a relative path and no two indexers create the  *)
(* collection at once.                                                     *)
(*                                                                         *)
(* The argument: an indexer stores a file only over a place it has found   *)
(* or made bare, so that two versions never mix; and as long as a file     *)
(* changes after it was read, the change is behind the read in the         *)
(* debouncer or the queue, so that the last word about a file is its       *)
(* content.                                                                *)
(***************************************************************************)
EXTENDS ProjectIndex, TLAPS

Working(p) == step[p] \notin {"idle", "next"}

\* A project's indexer handles the project's files.
Own ==
  \A p \in Project :
    /\ todo[p] \subseteq Files(p)
    /\ dirty[p] \subseteq Files(p)
    /\ \A n \in 1 .. Len(queue[p]) : queue[p][n] \subseteq Files(p)
    /\ IF Working(p) THEN cur[p] \in Files(p) ELSE cur[p] = Nothing
    /\ cur[p] \notin todo[p]

\* Which indexers are at work, and on what grounds.
Phases ==
  /\ \A p \in Project :
       /\ mode[p] \notin {"indexing", "watching"} => ~Working(p) /\ todo[p] = {}
       /\ step[p] = "idle" => todo[p] = {}
       /\ step[p] \in {"remove", "forget"} => mode[p] = "watching"
  /\ \A f \in sound : mode[Owner[f]] \in {"watching", "off"}

\* The collection is created once.
Opening ==
  \A p \in Project :
    /\ step[p] = "create" => ~open /\ \A q \in Project \ {p} : step[q] # "create"
    /\ step[p] = "upsert" => open

Bare(f) == \A k \in Slot : ~IsOf(<<Rel[f], k>>, f)

\* A point is under a key of its file.
Keyed == \A i \in Key : \A f \in File : IsOf(i, f) => i[1] = Rel[f]

\* The first walk finds nothing stored of the files it comes to.
Fresh ==
  \A p \in Project :
    /\ mode[p] = "none" => \A f \in Files(p) : Bare(f)
    /\ mode[p] = "indexing" =>
         \A f \in Files(p) : f \in todo[p] \/ cur[p] = f => Bare(f)

\* Between its removal and its upsert nothing can be found of a file.
Cleared ==
  \A p \in Project :
    step[p] \in {"check", "create", "upsert"} /\ open => Bare(cur[p])

\* A path on its way that has not been taken.
Waiting(f) ==
  LET p == Owner[f] IN
  \/ f \in dirty[p] \cup todo[p]
  \/ \E n \in 1 .. Len(queue[p]) : f \in queue[p][n]

\* A file no change of which is waiting is shown, or is about to be shown as it is.
Current ==
  \A f \in sound : \A c \in Content :
    LET p == Owner[f] IN
    c = file[f] /\ mode[p] = "watching" /\ ~Waiting(f) =>
      IF cur[p] # f THEN Shows(f, c)
      ELSE /\ step[p] = "read" => c # Absent
           /\ step[p] = "forget" => Chunks[c] = 0
           /\ step[p] \in {"remove", "check", "create", "upsert"} => bytes[p] = c

IInv ==
  TypeOK /\ Own /\ Phases /\ Opening /\ Keyed /\ Fresh /\ Cleared /\ Whole /\ Current

-----------------------------------------------------------------------------
(* What is shown changes with the index only.                              *)
LEMMA Still ==
  ASSUME UNCHANGED index
  PROVE  \A f \in File : \A c \in Content : Shows(f, c)' <=> Shows(f, c)
BY DEF index, Shows, Holds, IsOf

LEMMA EditKeeps ==
  ASSUME IInv, ~Racing, NEW f \in File, Edit(f)
  PROVE  IInv'
<1> USE FilesAssumption, ChunksAssumption, NothingAssumption
    DEF IInv, Edit, Goto, index, work, events, bounds, Mode, Step
<1>1. TypeOK'
  BY DEF TypeOK
<1>2. Own'
  BY DEF TypeOK, Own, Working, Files
<1>3. Phases'
  BY DEF TypeOK, Own, Phases, Working
<1>4. Opening'
  BY DEF TypeOK, Opening
<1>5. Keyed'
  BY DEF Keyed, IsOf
<1>6. Fresh'
  BY DEF TypeOK, Own, Phases, Fresh, Working, Files, Bare, IsOf
<1>7. Cleared'
  BY DEF TypeOK, Own, Fresh, Cleared, Phases, Working, Bare, IsOf
<1>8. Whole'
  BY DEF Whole, Holds, IsOf
<1>9. Current'
  <2>1. \A g \in File : Waiting(g) => Waiting(g)'
    BY DEF TypeOK, Waiting
  <2>2. mode[Owner[f]] = "watching" => Waiting(f)'
    BY DEF TypeOK, Waiting
  <2>3. \A g \in File : g # f => file'[g] = file[g] /\ (g \in sound' => g \in sound)
    BY DEF TypeOK
  <2> QED  BY <2>1, <2>2, <2>3, Still DEF TypeOK, Current
<1> QED  BY <1>1, <1>2, <1>3, <1>4, <1>5, <1>6, <1>7, <1>8, <1>9

LEMMA FlushKeeps ==
  ASSUME IInv, ~Racing, NEW p \in Project, Flush(p)
  PROVE  IInv'
<1> USE FilesAssumption, ChunksAssumption, NothingAssumption
    DEF IInv, Flush, Goto, index, work, events, bounds, Mode, Step
<1>1. TypeOK'
  BY DEF TypeOK, Own, Working, Files
<1>2. Own'
  BY DEF TypeOK, Own, Working, Files
<1>3. Phases'
  BY DEF TypeOK, Own, Phases, Working
<1>4. Opening'
  BY DEF TypeOK, Opening
<1>5. Keyed'
  BY DEF Keyed, IsOf
<1>6. Fresh'
  BY DEF TypeOK, Own, Phases, Fresh, Working, Files, Bare, IsOf
<1>7. Cleared'
  BY DEF TypeOK, Own, Fresh, Cleared, Phases, Working, Bare, IsOf
<1>8. Whole'
  BY DEF Whole, Holds, IsOf
<1>9. Current'
  <2>1. PICK batch \in SUBSET dirty[p] \ {{}} :
          /\ queue' = [queue EXCEPT ![p] = Append(@, batch)]
          /\ dirty' = [dirty EXCEPT ![p] = @ \ batch]
    OBVIOUS
  <2>2. /\ Len(queue'[p]) = Len(queue[p]) + 1
        /\ queue'[p][Len(queue[p]) + 1] = batch
        /\ \A n \in 1 .. Len(queue[p]) : queue'[p][n] = queue[p][n]
    BY <2>1 DEF TypeOK
  <2>3. ASSUME NEW f \in File, Waiting(f) PROVE Waiting(f)'
    <3>1. CASE Owner[f] # p
      BY <2>1, <2>3, <3>1 DEF TypeOK, Waiting
    <3>2. CASE Owner[f] = p
      <4>1. CASE f \in batch
        <5>1. Len(queue[p]) + 1 \in 1 .. Len(queue'[p])
          BY <2>2 DEF TypeOK
        <5> QED  BY <2>2, <3>2, <4>1, <5>1 DEF Waiting
      <4>2. CASE f \in dirty[p] /\ f \notin batch
        BY <2>1, <3>2, <4>2 DEF TypeOK, Waiting
      <4>3. CASE f \in todo[p]
        BY <3>2, <4>3 DEF Waiting
      <4>4. CASE \E n \in 1 .. Len(queue[p]) : f \in queue[p][n]
        <5>1. PICK n \in 1 .. Len(queue[p]) : f \in queue[p][n]
          BY <4>4
        <5>2. n \in 1 .. Len(queue'[p]) /\ f \in queue'[p][n]
          BY <2>2, <5>1 DEF TypeOK
        <5> QED  BY <3>2, <5>2 DEF Waiting
      <4> QED  BY <2>3, <3>2, <4>1, <4>2, <4>3, <4>4 DEF Waiting
    <3> QED  BY <3>1, <3>2
  <2> QED  BY <2>3, Still DEF TypeOK, Current
<1> QED  BY <1>1, <1>2, <1>3, <1>4, <1>5, <1>6, <1>7, <1>8, <1>9

LEMMA CreateProjectKeeps ==
  ASSUME IInv, ~Racing, NEW p \in Project, CreateProject(p)
  PROVE  IInv'
<1> USE FilesAssumption, ChunksAssumption, NothingAssumption
    DEF IInv, CreateProject, Goto, index, work, events, bounds, Mode, Step
<1>1. TypeOK'
  BY DEF TypeOK, Own, Working, Files
<1>2. Own'
  <2> SUFFICES ASSUME NEW q \in Project
               PROVE  /\ todo'[q] \subseteq Files(q)
                      /\ cur'[q] \notin todo'[q]
                      /\ IF Working(q)' THEN cur'[q] \in Files(q) ELSE cur'[q] = Nothing
    BY DEF Own, Files
  <2>1. CASE q = p
    <3>1. cur[p] = Nothing /\ ~Working(p)'
      BY DEF TypeOK, Own, Phases, Working
    <3>2. todo'[p] \subseteq Files(p) /\ Files(p) \subseteq File
      BY DEF TypeOK, Files
    <3> QED  BY <2>1, <3>1, <3>2
  <2>2. CASE q # p
    BY <2>2 DEF TypeOK, Own, Working
  <2> QED  BY <2>1, <2>2
<1>3. Phases'
  BY DEF TypeOK, Own, Phases, Working
<1>4. Opening'
  BY DEF TypeOK, Opening
<1>5. Keyed'
  BY DEF Keyed, IsOf
<1>6. Fresh'
  BY DEF TypeOK, Own, Phases, Fresh, Working, Files, Bare, IsOf
<1>7. Cleared'
  BY DEF TypeOK, Own, Fresh, Cleared, Phases, Working, Bare, IsOf
<1>8. Whole'
  BY DEF Whole, Holds, IsOf
<1>9. Current'
  BY Still DEF TypeOK, Own, Phases, Current, Waiting, Working, Files
<1> QED  BY <1>1, <1>2, <1>3, <1>4, <1>5, <1>6, <1>7, <1>8, <1>9

LEMMA SubscribeKeeps ==
  ASSUME IInv, ~Racing, NEW p \in Project, Subscribe(p)
  PROVE  IInv'
<1> USE FilesAssumption, ChunksAssumption, NothingAssumption
    DEF IInv, Subscribe, Goto, index, work, events, bounds, Mode, Step
<1>1. TypeOK'
  BY DEF TypeOK, Own, Working, Files
<1>2. Own'
  BY DEF TypeOK, Own, Working, Files
<1>3. Phases'
  BY DEF TypeOK, Own, Phases, Working
<1>4. Opening'
  BY DEF TypeOK, Opening
<1>5. Keyed'
  BY DEF Keyed, IsOf
<1>6. Fresh'
  BY DEF TypeOK, Own, Phases, Fresh, Working, Files, Bare, IsOf
<1>7. Cleared'
  BY DEF TypeOK, Own, Fresh, Cleared, Phases, Working, Bare, IsOf
<1>8. Whole'
  BY DEF Whole, Holds, IsOf
<1>9. Current'
  BY Still DEF TypeOK, Own, Phases, Current, Waiting, Working, Files
<1> QED  BY <1>1, <1>2, <1>3, <1>4, <1>5, <1>6, <1>7, <1>8, <1>9

LEMMA TakeKeeps ==
  ASSUME IInv, ~Racing, NEW p \in Project, Take(p)
  PROVE  IInv'
<1> USE FilesAssumption, ChunksAssumption, NothingAssumption
    DEF IInv, Take, Goto, index, work, events, bounds, Mode, Step
<1>1. TypeOK'
  BY DEF TypeOK, Own, Working, Files
<1>2. Own'
  BY DEF TypeOK, Own, Working, Files
<1>3. Phases'
  BY DEF TypeOK, Own, Phases, Working
<1>4. Opening'
  BY DEF TypeOK, Opening
<1>5. Keyed'
  BY DEF Keyed, IsOf
<1>6. Fresh'
  BY DEF TypeOK, Own, Phases, Fresh, Working, Files, Bare, IsOf
<1>7. Cleared'
  BY DEF TypeOK, Own, Fresh, Cleared, Phases, Working, Bare, IsOf
<1>8. Whole'
  BY DEF Whole, Holds, IsOf
<1>9. Current'
  BY Still DEF TypeOK, Own, Phases, Current, Waiting, Working, Files
<1> QED  BY <1>1, <1>2, <1>3, <1>4, <1>5, <1>6, <1>7, <1>8, <1>9

LEMMA ReadGoneKeeps ==
  ASSUME IInv, ~Racing, NEW p \in Project, ReadGone(p)
  PROVE  IInv'
<1> USE FilesAssumption, ChunksAssumption, NothingAssumption
    DEF IInv, ReadGone, Goto, Handled, index, work, events, bounds, Mode, Step
<1>1. TypeOK'
  BY DEF TypeOK, Own, Working, Files
<1>2. Own'
  BY DEF TypeOK, Own, Working, Files
<1>3. Phases'
  BY DEF TypeOK, Own, Phases, Working
<1>4. Opening'
  BY DEF TypeOK, Opening
<1>5. Keyed'
  BY DEF Keyed, IsOf
<1>6. Fresh'
  BY DEF TypeOK, Own, Phases, Fresh, Working, Files, Bare, IsOf
<1>7. Cleared'
  BY DEF TypeOK, Own, Fresh, Cleared, Phases, Working, Bare, IsOf
<1>8. Whole'
  BY DEF Whole, Holds, IsOf
<1>9. Current'
  BY Still DEF TypeOK, Own, Phases, Current, Waiting, Working, Files
<1> QED  BY <1>1, <1>2, <1>3, <1>4, <1>5, <1>6, <1>7, <1>8, <1>9

LEMMA ReadRefusedKeeps ==
  ASSUME IInv, ~Racing, NEW p \in Project, ReadRefused(p)
  PROVE  IInv'
<1> USE FilesAssumption, ChunksAssumption, NothingAssumption
    DEF IInv, ReadRefused, Goto, Abort, Handled, index, work, events, bounds, Mode, Step
<1>1. TypeOK'
  BY DEF TypeOK
<1>2. Own'
  BY DEF TypeOK, Own, Working, Files
<1>3. Phases'
  BY DEF TypeOK, Own, Phases, Working
<1>4. Opening'
  BY DEF TypeOK, Opening
<1>5. Keyed'
  BY DEF Keyed, IsOf
<1>6. Fresh'
  BY DEF TypeOK, Own, Phases, Fresh, Working, Files, Bare, IsOf
<1>7. Cleared'
  BY DEF TypeOK, Own, Fresh, Cleared, Phases, Working, Bare, IsOf
<1>8. Whole'
  BY DEF Whole, Holds, IsOf
<1>9. Current'
  BY Still DEF TypeOK, Own, Phases, Current, Waiting, Working, Files
<1> QED  BY <1>1, <1>2, <1>3, <1>4, <1>5, <1>6, <1>7, <1>8, <1>9

LEMMA ReadNoChunksKeeps ==
  ASSUME IInv, ~Racing, NEW p \in Project, ReadNoChunks(p)
  PROVE  IInv'
<1> USE FilesAssumption, ChunksAssumption, NothingAssumption
    DEF IInv, ReadNoChunks, Goto, Handled, index, work, events, bounds, Mode, Step
<1>1. TypeOK'
  BY DEF TypeOK
<1>2. Own'
  BY DEF TypeOK, Own, Working, Files
<1>3. Phases'
  BY DEF TypeOK, Own, Phases, Working
<1>4. Opening'
  BY DEF TypeOK, Opening
<1>5. Keyed'
  BY DEF Keyed, IsOf
<1>6. Fresh'
  BY DEF TypeOK, Own, Phases, Fresh, Working, Files, Bare, IsOf
<1>7. Cleared'
  BY DEF TypeOK, Own, Fresh, Cleared, Phases, Working, Bare, IsOf
<1>8. Whole'
  BY DEF Whole, Holds, IsOf
<1>9. Current'
  BY Still DEF TypeOK, Own, Phases, Current, Waiting, Working, Files
<1> QED  BY <1>1, <1>2, <1>3, <1>4, <1>5, <1>6, <1>7, <1>8, <1>9

LEMMA ReadKeeps ==
  ASSUME IInv, ~Racing, NEW p \in Project, Read(p)
  PROVE  IInv'
<1> USE FilesAssumption, ChunksAssumption, NothingAssumption
    DEF IInv, Read, Goto, Handled, index, work, events, bounds, Mode, Step
<1>1. TypeOK'
  BY DEF TypeOK, Own, Working, Files
<1>2. Own'
  BY DEF TypeOK, Own, Working, Files
<1>3. Phases'
  BY DEF TypeOK, Own, Phases, Working
<1>4. Opening'
  BY DEF TypeOK, Opening
<1>5. Keyed'
  BY DEF Keyed, IsOf
<1>6. Fresh'
  BY DEF TypeOK, Own, Phases, Fresh, Working, Files, Bare, IsOf
<1>7. Cleared'
  <2>1. ASSUME NEW q \in Project, step'[q] \in {"check", "create", "upsert"}, open
        PROVE  Bare(cur[q])
    <3>1. CASE q = p
      <4>1. mode[p] = "indexing" /\ cur[p] \in Files(p)
        BY <2>1, <3>1 DEF TypeOK, Own, Phases, Working
      <4> QED  BY <3>1, <4>1 DEF Fresh
    <3>2. CASE q # p
      BY <2>1, <3>2 DEF TypeOK, Cleared
    <3> QED  BY <3>1, <3>2
  <2>2. cur' = cur /\ open' = open /\ points' = points
    OBVIOUS
  <2>3. ASSUME NEW q \in Project, Bare(cur[q]) PROVE Bare(cur[q])'
    BY <2>2, <2>3 DEF Bare, IsOf
  <2> QED  BY <2>1, <2>2, <2>3 DEF Cleared
<1>8. Whole'
  BY DEF Whole, Holds, IsOf
<1>9. Current'
  BY Still DEF TypeOK, Own, Phases, Current, Waiting, Working, Files
<1> QED  BY <1>1, <1>2, <1>3, <1>4, <1>5, <1>6, <1>7, <1>8, <1>9

LEMMA CheckKeeps ==
  ASSUME IInv, ~Racing, NEW p \in Project, Check(p)
  PROVE  IInv'
<1> USE FilesAssumption, ChunksAssumption, NothingAssumption
    DEF IInv, Check, Goto, index, work, events, bounds, Mode, Step
<1>1. TypeOK'
  BY DEF TypeOK, Own, Working, Files
<1>2. Own'
  BY DEF TypeOK, Own, Working, Files
<1>3. Phases'
  BY DEF TypeOK, Own, Phases, Working
<1>4. Opening'
  BY DEF TypeOK, Opening
<1>5. Keyed'
  BY DEF Keyed, IsOf
<1>6. Fresh'
  BY DEF TypeOK, Own, Phases, Fresh, Working, Files, Bare, IsOf
<1>7. Cleared'
  BY DEF TypeOK, Own, Fresh, Cleared, Phases, Working, Bare, IsOf
<1>8. Whole'
  BY DEF Whole, Holds, IsOf
<1>9. Current'
  BY Still DEF TypeOK, Own, Phases, Current, Waiting, Working, Files
<1> QED  BY <1>1, <1>2, <1>3, <1>4, <1>5, <1>6, <1>7, <1>8, <1>9

LEMMA FailKeeps ==
  ASSUME IInv, ~Racing, NEW p \in Project, Fail(p)
  PROVE  IInv'
<1> USE FilesAssumption, ChunksAssumption, NothingAssumption
    DEF IInv, Fail, Goto, Abort, Handled, index, work, events, bounds, Mode, Step
<1>1. TypeOK'
  BY DEF TypeOK
<1>2. Own'
  BY DEF TypeOK, Own, Working, Files
<1>3. Phases'
  BY DEF TypeOK, Own, Phases, Working
<1>4. Opening'
  BY DEF TypeOK, Opening
<1>5. Keyed'
  BY DEF Keyed, IsOf
<1>6. Fresh'
  BY DEF TypeOK, Own, Phases, Fresh, Working, Files, Bare, IsOf
<1>7. Cleared'
  BY DEF TypeOK, Own, Fresh, Cleared, Phases, Working, Bare, IsOf
<1>8. Whole'
  BY DEF Whole, Holds, IsOf
<1>9. Current'
  BY Still DEF TypeOK, Own, Phases, Current, Waiting, Working, Files
<1> QED  BY <1>1, <1>2, <1>3, <1>4, <1>5, <1>6, <1>7, <1>8, <1>9

LEMMA FinishKeeps ==
  ASSUME IInv, ~Racing, NEW p \in Project, Finish(p)
  PROVE  IInv'
<1> USE FilesAssumption, ChunksAssumption, NothingAssumption
    DEF IInv, Finish, Goto, index, work, events, bounds, Mode, Step
<1>1. TypeOK'
  BY DEF TypeOK, Own, Working, Files
<1>2. Own'
  BY DEF TypeOK, Own, Working, Files
<1>3. Phases'
  BY DEF TypeOK, Own, Phases, Working
<1>4. Opening'
  BY DEF TypeOK, Opening
<1>5. Keyed'
  BY DEF Keyed, IsOf
<1>6. Fresh'
  BY DEF TypeOK, Own, Phases, Fresh, Working, Files, Bare, IsOf
<1>7. Cleared'
  BY DEF TypeOK, Own, Fresh, Cleared, Phases, Working, Bare, IsOf
<1>8. Whole'
  BY DEF Whole, Holds, IsOf
<1>9. Current'
  BY Still DEF TypeOK, Own, Phases, Current, Waiting, Working, Files
<1> QED  BY <1>1, <1>2, <1>3, <1>4, <1>5, <1>6, <1>7, <1>8, <1>9

LEMMA ReceiveKeeps ==
  ASSUME IInv, ~Racing, NEW p \in Project, Receive(p)
  PROVE  IInv'
<1> USE FilesAssumption, ChunksAssumption, NothingAssumption
    DEF IInv, Receive, Goto, index, work, events, bounds, Mode, Step
<1>1. TypeOK'
  BY DEF TypeOK, Own, Working, Files
<1>2. Own'
  <2>1. /\ Head(queue[p]) = queue[p][1]
        /\ \A n \in 1 .. Len(queue'[p]) : queue'[p][n] = queue[p][n + 1] /\ n + 1 \in 1 .. Len(queue[p])
    BY DEF TypeOK
  <2>2. 1 \in 1 .. Len(queue[p])
    BY DEF TypeOK
  <2> SUFFICES ASSUME NEW q \in Project
               PROVE  /\ todo'[q] \subseteq Files(q)
                      /\ cur'[q] \notin todo'[q]
                      /\ \A n \in 1 .. Len(queue'[q]) : queue'[q][n] \subseteq Files(q)
    BY DEF TypeOK, Own, Files, Working
  <2>3. CASE q = p
    <3>1. todo'[p] \subseteq Files(p) /\ cur'[p] = Nothing
      BY <2>1, <2>2 DEF TypeOK, Own, Working
    <3> QED  BY <2>1, <2>3, <3>1 DEF TypeOK, Own, Files
  <2>4. CASE q # p
    BY <2>4 DEF TypeOK, Own
  <2> QED  BY <2>3, <2>4
<1>3. Phases'
  BY DEF TypeOK, Own, Phases, Working
<1>4. Opening'
  BY DEF TypeOK, Opening
<1>5. Keyed'
  BY DEF Keyed, IsOf
<1>6. Fresh'
  BY DEF TypeOK, Own, Phases, Fresh, Working, Files, Bare, IsOf
<1>7. Cleared'
  BY DEF TypeOK, Own, Fresh, Cleared, Phases, Working, Bare, IsOf
<1>8. Whole'
  BY DEF Whole, Holds, IsOf
<1>9. Current'
  <2>1. /\ Head(queue[p]) = queue[p][1]
        /\ Len(queue'[p]) = Len(queue[p]) - 1
        /\ \A n \in 1 .. Len(queue'[p]) : queue'[p][n] = queue[p][n + 1]
    BY DEF TypeOK
  <2>2. ASSUME NEW f \in File, NEW n \in 1 .. Len(queue[p]), f \in queue[p][n]
        PROVE  f \in todo'[p] \/ \E m \in 1 .. Len(queue'[p]) : f \in queue'[p][m]
    <3>1. CASE n = 1
      BY <2>1, <2>2, <3>1 DEF TypeOK
    <3>2. CASE n # 1
      <4>1. n - 1 \in 1 .. Len(queue'[p]) /\ queue'[p][n - 1] = queue[p][n]
        BY <2>1, <3>2 DEF TypeOK
      <4> QED  BY <2>2, <4>1
    <3> QED  BY <3>1, <3>2
  <2>3. todo[p] = {}
    BY DEF Phases
  <2>4. ASSUME NEW f \in File, Waiting(f) PROVE Waiting(f)'
    BY <2>2, <2>3, <2>4 DEF TypeOK, Waiting
  <2> QED  BY <2>4, Still DEF TypeOK, Current
<1> QED  BY <1>1, <1>2, <1>3, <1>4, <1>5, <1>6, <1>7, <1>8, <1>9

LEMMA ShutdownKeeps ==
  ASSUME IInv, ~Racing, NEW p \in Project, Shutdown(p)
  PROVE  IInv'
<1> USE FilesAssumption, ChunksAssumption, NothingAssumption
    DEF IInv, Shutdown, Goto, index, work, events, bounds, Mode, Step
<1>1. TypeOK'
  BY DEF TypeOK
<1>2. Own'
  BY DEF TypeOK, Own, Working, Files
<1>3. Phases'
  BY DEF TypeOK, Own, Phases, Working
<1>4. Opening'
  BY DEF TypeOK, Opening
<1>5. Keyed'
  BY DEF Keyed, IsOf
<1>6. Fresh'
  BY DEF TypeOK, Own, Phases, Fresh, Working, Files, Bare, IsOf
<1>7. Cleared'
  BY DEF TypeOK, Own, Fresh, Cleared, Phases, Working, Bare, IsOf
<1>8. Whole'
  BY DEF Whole, Holds, IsOf
<1>9. Current'
  BY Still DEF TypeOK, Own, Phases, Current, Waiting, Working, Files
<1> QED  BY <1>1, <1>2, <1>3, <1>4, <1>5, <1>6, <1>7, <1>8, <1>9

-----------------------------------------------------------------------------
(* The steps that write to the store.                                      *)

\* A file of the project, at a path no other file has.
LEMMA KeyOf == \A f \in File : \A k \in Slot : <<Rel[f], k>> \in Key
BY DEF Key

LEMMA Removal ==
  ASSUME Keyed, Distinct, NEW f \in File, points' = Deleted(f), open' = open
  PROVE  /\ Keyed'
         /\ open => Bare(f)'
         /\ \A g \in File : Bare(g) => Bare(g)'
         /\ \A g \in File : \A c \in Content : g # f /\ Holds(g, c) => Holds(g, c)'
<1>1. Keyed'
  BY DEF Keyed, Deleted, IsOf
<1>2. open => Bare(f)'
  BY KeyOf DEF Deleted, Bare, IsOf
<1>3. ASSUME NEW g \in File, Bare(g) PROVE Bare(g)'
  BY <1>3, KeyOf DEF Deleted, Bare, IsOf
<1>4. ASSUME NEW g \in File, NEW c \in Content, g # f, Holds(g, c) PROVE Holds(g, c)'
  <2>1. Rel[g] # Rel[f]
    BY <1>4 DEF Distinct
  <2>2. \A k \in Slot : points'[<<Rel[g], k>>] = points[<<Rel[g], k>>]
    BY <2>1, KeyOf DEF Deleted
  <2> QED  BY <1>4, <2>2 DEF Holds, IsOf
<1> QED  BY <1>1, <1>2, <1>3, <1>4

LEMMA Storing ==
  ASSUME Keyed, Distinct, NEW f \in File, NEW d \in Content, Bare(f),
         points' = Stored(f, d), open' = open
  PROVE  /\ Keyed'
         /\ Holds(f, d)'
         /\ \A g \in File : g # f /\ Bare(g) => Bare(g)'
         /\ \A g \in File : \A c \in Content : g # f /\ Holds(g, c) => Holds(g, c)'
<1>1. Keyed'
  BY DEF Keyed, Stored, IsOf
<1>2. Holds(f, d)'
  BY KeyOf DEF Stored, Bare, Holds, IsOf
<1>3. ASSUME NEW g \in File, g # f
      PROVE  \A k \in Slot : points'[<<Rel[g], k>>] = points[<<Rel[g], k>>]
  BY <1>3, KeyOf DEF Distinct, Stored
<1>4. ASSUME NEW g \in File, g # f, Bare(g) PROVE Bare(g)'
  BY <1>3, <1>4 DEF Bare, IsOf
<1>5. ASSUME NEW g \in File, NEW c \in Content, g # f, Holds(g, c) PROVE Holds(g, c)'
  BY <1>3, <1>5 DEF Holds, IsOf
<1> QED  BY <1>1, <1>2, <1>4, <1>5

LEMMA Wiping ==
  ASSUME points' = [i \in Key |-> Nil]
  PROVE  /\ Keyed'
         /\ \A f \in File : Bare(f)'
         /\ \A f \in File : \A c \in Content : Chunks[c] = 0 => Holds(f, c)'
<1>1. Keyed'
  BY DEF Keyed, IsOf
<1>2. \A f \in File : Bare(f)'
  BY KeyOf DEF Bare, IsOf
<1>3. ASSUME NEW f \in File, NEW c \in Content, Chunks[c] = 0 PROVE Holds(f, c)'
  <2>1. \A k \in Slot : ~(k <= Chunks[c])
    BY <1>3, ChunksAssumption DEF Slot
  <2> QED  BY <2>1, <1>2 DEF Holds, Bare
<1> QED  BY <1>1, <1>2, <1>3

\* A working indexer has a file of its project in hand.
LEMMA InHand ==
  ASSUME Own, NEW p \in Project,
         step[p] \in {"read", "forget", "remove", "check", "create", "upsert"}
  PROVE  \E f \in File : f = cur[p] /\ Owner[f] = p
BY DEF Own, Working, Files

LEMMA RemoveKeeps ==
  ASSUME IInv, Distinct, NEW p \in Project, Remove(p)
  PROVE  IInv'
<1> USE FilesAssumption, ChunksAssumption, NothingAssumption
    DEF IInv, Remove, Goto, index, work, events, bounds, Mode, Step
<1>a. PICK f \in File : f = cur[p] /\ Owner[f] = p
  BY InHand
<1>1. TypeOK'
  BY <1>a DEF TypeOK, Deleted, Point
<1>2. Own'
  BY DEF TypeOK, Own, Working, Files
<1>3. Phases'
  BY DEF TypeOK, Own, Phases, Working
<1>4. Opening'
  BY DEF TypeOK, Opening
<1>b. /\ Keyed'
      /\ open => Bare(f)'
      /\ \A g \in File : Bare(g) => Bare(g)'
      /\ \A g \in File : \A c \in Content : g # f /\ Holds(g, c) => Holds(g, c)'
  BY <1>a, Removal
<1>5. Keyed'
  BY <1>b
<1>6. Fresh'
  BY <1>b DEF TypeOK, Fresh, Files
<1>7. Cleared'
  <2>1. ASSUME NEW q \in Project, step'[q] \in {"check", "create", "upsert"}, open
        PROVE  \E g \in File : g = cur'[q] /\ Bare(g)'
    <3>1. CASE q = p
      BY <1>a, <1>b, <2>1, <3>1
    <3>2. CASE q # p
      <4>1. step[q] \in {"check", "create", "upsert"}
        BY <2>1, <3>2 DEF TypeOK
      <4>2. PICK g \in File : g = cur[q]
        BY <4>1, InHand
      <4> QED  BY <1>b, <2>1, <4>1, <4>2 DEF Cleared
    <3> QED  BY <3>1, <3>2
  <2> QED  BY <2>1 DEF Cleared, Bare, IsOf
<1>8. Whole'
  <2> SUFFICES ASSUME NEW g \in File PROVE \E c \in Content : Holds(g, c)'
    BY DEF Whole
  <2>1. PICK c \in Content : Holds(g, c)
    BY DEF Whole
  <2>2. CASE g # f
    BY <1>b, <2>1, <2>2
  <2>3. CASE g = f /\ open
    <3>1. Absent \in Content /\ Chunks[Absent] = 0 /\ Bare(g)'
      BY <1>b, <2>3
    <3>2. Holds(g, Absent)'
      BY <3>1 DEF Holds, Bare, Slot
    <3> QED  BY <3>1, <3>2
  <2>4. CASE ~open
    <3>1. points' = points
      BY <2>4 DEF TypeOK, Deleted
    <3> QED  BY <2>1, <3>1 DEF Holds, IsOf
  <2> QED  BY <2>2, <2>3, <2>4
<1>9. Current'
  <2>1. \A g \in File : \A c \in Content : g # f /\ Shows(g, c) => Shows(g, c)'
    BY <1>b DEF Shows
  <2> QED  BY <1>a, <2>1 DEF TypeOK, Current, Waiting
<1> QED  BY <1>1, <1>2, <1>3, <1>4, <1>5, <1>6, <1>7, <1>8, <1>9

LEMMA ForgetKeeps ==
  ASSUME IInv, Distinct, NEW p \in Project, Forget(p)
  PROVE  IInv'
<1> USE FilesAssumption, ChunksAssumption, NothingAssumption
    DEF IInv, Forget, Goto, Handled, index, work, events, bounds, Mode, Step
<1>a. PICK f \in File : f = cur[p] /\ Owner[f] = p
  BY InHand
<1>1. TypeOK'
  BY <1>a DEF TypeOK, Deleted, Point
<1>2. Own'
  BY DEF TypeOK, Own, Working, Files
<1>3. Phases'
  BY DEF TypeOK, Own, Phases, Working
<1>4. Opening'
  BY DEF TypeOK, Opening
<1>b. /\ Keyed'
      /\ open => Bare(f)'
      /\ \A g \in File : Bare(g) => Bare(g)'
      /\ \A g \in File : \A c \in Content : g # f /\ Holds(g, c) => Holds(g, c)'
  BY <1>a, Removal
<1>5. Keyed'
  BY <1>b
<1>6. Fresh'
  BY <1>b DEF TypeOK, Fresh, Files
<1>7. Cleared'
  <2>1. ASSUME NEW q \in Project, step'[q] \in {"check", "create", "upsert"}, open
        PROVE  \E g \in File : g = cur'[q] /\ Bare(g)'
    <3>1. step[q] \in {"check", "create", "upsert"} /\ cur'[q] = cur[q]
      BY <2>1 DEF TypeOK
    <3>2. PICK g \in File : g = cur[q]
      BY <3>1, InHand
    <3> QED  BY <1>b, <2>1, <3>1, <3>2 DEF Cleared
  <2> QED  BY <2>1 DEF Cleared, Bare, IsOf
<1>8. Whole'
  <2> SUFFICES ASSUME NEW g \in File PROVE \E c \in Content : Holds(g, c)'
    BY DEF Whole
  <2>1. PICK c \in Content : Holds(g, c)
    BY DEF Whole
  <2>2. CASE g # f
    BY <1>b, <2>1, <2>2
  <2>3. CASE g = f /\ open
    <3>1. Absent \in Content /\ Chunks[Absent] = 0 /\ Bare(g)'
      BY <1>b, <2>3
    <3>2. Holds(g, Absent)'
      BY <3>1 DEF Holds, Bare, Slot
    <3> QED  BY <3>1, <3>2
  <2>4. CASE ~open
    <3>1. points' = points
      BY <2>4 DEF TypeOK, Deleted
    <3> QED  BY <2>1, <3>1 DEF Holds, IsOf
  <2> QED  BY <2>2, <2>3, <2>4
<1>9. Current'
  <2>1. \A g \in File : \A c \in Content : g # f /\ Shows(g, c) => Shows(g, c)'
    BY <1>b DEF Shows
  <2>2. \A c \in Content : Chunks[c] = 0 => Shows(f, c)'
    <3> SUFFICES ASSUME NEW c \in Content, Chunks[c] = 0 PROVE Shows(f, c)'
      OBVIOUS
    <3>1. CASE open
      BY <1>a, <1>b, <3>1 DEF Shows, Holds, Bare, Slot
    <3>2. CASE ~open
      BY <3>2 DEF Shows
    <3> QED  BY <3>1, <3>2
  <2>3. cur' = [cur EXCEPT ![p] = Nothing] /\ f # Nothing
    OBVIOUS
  <2>4. ASSUME NEW g \in sound, NEW c \in Content, c = file[g],
               mode[Owner[g]] = "watching", ~Waiting(g)
        PROVE  IF cur'[Owner[g]] # g THEN Shows(g, c)'
               ELSE /\ step'[Owner[g]] = "read" => c # Absent
                    /\ step'[Owner[g]] = "forget" => Chunks[c] = 0
                    /\ step'[Owner[g]] \in {"remove", "check", "create", "upsert"} => bytes'[Owner[g]] = c
    <3>0. g \in File /\ Owner[g] \in Project
      BY DEF TypeOK
    <3>1. CASE g = f
      <4>1. Chunks[c] = 0
        BY <1>a, <2>4, <3>1 DEF Current
      <4>2. Shows(g, c)' /\ cur'[Owner[g]] # g
        BY <1>a, <2>2, <2>3, <3>1, <4>1 DEF TypeOK
      <4> QED  BY <4>2
    <3>2. CASE g # f /\ Owner[g] = p
      <4>1. cur[p] # g /\ cur'[p] # g
        BY <1>a, <2>3, <3>0, <3>2 DEF TypeOK
      <4> QED  BY <2>1, <2>4, <3>0, <3>2, <4>1 DEF Current
    <3>3. CASE g # f /\ Owner[g] # p
      <4>1. /\ cur'[Owner[g]] = cur[Owner[g]] /\ step'[Owner[g]] = step[Owner[g]]
            /\ bytes'[Owner[g]] = bytes[Owner[g]]
        BY <3>0, <3>3 DEF TypeOK
      <4> QED  BY <2>1, <2>4, <3>0, <3>3, <4>1 DEF Current
    <3> QED  BY <3>1, <3>2, <3>3
  <2>5. \A g \in File : Waiting(g)' <=> Waiting(g)
    BY DEF Waiting
  <2> QED  BY <2>4, <2>5 DEF TypeOK, Current
<1> QED  BY <1>1, <1>2, <1>3, <1>4, <1>5, <1>6, <1>7, <1>8, <1>9

LEMMA CreateKeeps ==
  ASSUME IInv, NEW p \in Project, Create(p)
  PROVE  IInv'
<1> USE FilesAssumption, ChunksAssumption, NothingAssumption
    DEF IInv, Create, Goto, index, work, events, bounds, Mode, Step
<1>a. PICK f \in File : f = cur[p] /\ Owner[f] = p
  BY InHand
<1>1. TypeOK'
  BY <1>a DEF TypeOK, Nil, Point
<1>2. Own'
  <2>1. ASSUME NEW q \in Project PROVE Working(q)' <=> Working(q)
    BY DEF TypeOK, Working
  <2> QED  BY <2>1 DEF Own, Files
<1>3. Phases'
  BY DEF TypeOK, Own, Phases, Working
<1>4. Opening'
  BY DEF TypeOK, Opening
<1>b. Keyed' /\ \A g \in File : Bare(g)'
  BY Wiping
<1>c. ~open
  BY DEF Opening
<1>5. Keyed'
  BY <1>b
<1>6. Fresh'
  BY <1>b DEF TypeOK, Fresh, Files
<1>7. Cleared'
  <2>1. ASSUME NEW q \in Project, step'[q] \in {"check", "create", "upsert"}
        PROVE  cur'[q] \in File
    <3>1. step[q] \in {"check", "create", "upsert"}
      BY <2>1 DEF TypeOK
    <3> QED  BY <3>1 DEF Own, Working, Files
  <2> QED  BY <1>b, <2>1 DEF Cleared, Bare, IsOf
<1>8. Whole'
  BY Wiping DEF Whole
<1>9. Current'
  <2>1. \A g \in File : \A c \in Content : Shows(g, c) => Shows(g, c)'
    BY <1>c, Wiping DEF Shows
  <2> QED  BY <1>a, <2>1 DEF TypeOK, Current, Waiting
<1> QED  BY <1>1, <1>2, <1>3, <1>4, <1>5, <1>6, <1>7, <1>8, <1>9

LEMMA UpsertKeeps ==
  ASSUME IInv, Distinct, NEW p \in Project, Upsert(p)
  PROVE  IInv'
<1> USE FilesAssumption, ChunksAssumption, NothingAssumption
    DEF IInv, Upsert, Goto, Handled, index, work, events, bounds, Mode, Step
<1>a. PICK f \in File : f = cur[p] /\ Owner[f] = p
  BY InHand
<1>1. TypeOK'
  BY <1>a DEF TypeOK, Stored, Point
<1>2. Own'
  BY DEF TypeOK, Own, Working, Files
<1>3. Phases'
  BY DEF TypeOK, Own, Phases, Working
<1>4. Opening'
  BY DEF TypeOK, Opening
<1>b. PICK d \in Content : d = bytes[p] /\ open /\ Bare(f)
  BY <1>a DEF TypeOK, Opening, Cleared
<1>c. /\ Keyed'
      /\ Holds(f, d)'
      /\ \A g \in File : g # f /\ Bare(g) => Bare(g)'
      /\ \A g \in File : \A c \in Content : g # f /\ Holds(g, c) => Holds(g, c)'
  BY <1>a, <1>b, Storing
<1>d. \A q \in Project : step'[q] \notin {"idle", "next"} =>
        cur[q] \in File /\ cur'[q] = cur[q] /\ cur[q] # f /\ q # p
  BY <1>a DEF TypeOK, Own, Working, Files
<1>5. Keyed'
  BY <1>c
<1>6. Fresh'
  <2>1. ASSUME NEW q \in Project, NEW g \in Files(q),
               mode[q] = "none" \/ (mode[q] = "indexing" /\ (g \in todo[q] \/ cur'[q] = g))
        PROVE  Bare(g)'
    <3>1. g \in File /\ Owner[g] = q
      BY DEF Files
    <3>2. CASE q = p
      <4>1. mode[p] = "indexing" /\ cur'[p] = Nothing
        BY <2>1, <3>2 DEF TypeOK, Phases, Working
      <4>2. g \in todo[p] /\ g # f
        BY <1>a, <2>1, <3>1, <3>2, <4>1 DEF Own
      <4> QED  BY <1>c, <3>1, <3>2, <4>1, <4>2 DEF Fresh
    <3>3. CASE q # p
      <4>1. g # f /\ cur'[q] = cur[q]
        BY <1>a, <3>1, <3>3 DEF TypeOK
      <4> QED  BY <1>c, <2>1, <3>1, <4>1 DEF Fresh
    <3> QED  BY <3>2, <3>3
  <2> QED  BY <2>1 DEF Fresh, Files
<1>7. Cleared'
  <2>1. ASSUME NEW q \in Project, step'[q] \in {"check", "create", "upsert"}
        PROVE  \E g \in File : g = cur'[q] /\ Bare(g)'
    <3>1. PICK g \in File : g = cur[q] /\ g = cur'[q] /\ g # f /\ q # p
      BY <1>d, <2>1
    <3>2. Bare(g)
      BY <1>b, <2>1, <3>1 DEF TypeOK, Cleared
    <3> QED  BY <1>c, <3>1, <3>2
  <2> QED  BY <2>1 DEF Cleared, Bare, IsOf
<1>8. Whole'
  BY <1>b, <1>c DEF Whole
<1>9. Current'
  <2>1. \A g \in File : \A c \in Content : g # f /\ Shows(g, c) => Shows(g, c)'
    BY <1>b, <1>c DEF Shows
  <2>2. Shows(f, d)'
    BY <1>b, <1>c DEF Shows, Holds
  <2>3. cur' = [cur EXCEPT ![p] = Nothing] /\ f # Nothing
    OBVIOUS
  <2>4. ASSUME NEW g \in sound, NEW c \in Content, c = file[g],
               mode[Owner[g]] = "watching", ~Waiting(g)
        PROVE  IF cur'[Owner[g]] # g THEN Shows(g, c)'
               ELSE /\ step'[Owner[g]] = "read" => c # Absent
                    /\ step'[Owner[g]] = "forget" => Chunks[c] = 0
                    /\ step'[Owner[g]] \in {"remove", "check", "create", "upsert"} => bytes'[Owner[g]] = c
    <3>0. g \in File /\ Owner[g] \in Project
      BY DEF TypeOK
    <3>1. CASE g = f
      <4>1. d = c
        BY <1>a, <1>b, <2>4, <3>1 DEF Current
      <4>2. Shows(g, c)' /\ cur'[Owner[g]] # g
        BY <1>a, <2>2, <2>3, <3>1, <4>1 DEF TypeOK
      <4> QED  BY <4>2
    <3>2. CASE g # f /\ Owner[g] = p
      <4>1. cur[p] # g /\ cur'[p] # g
        BY <1>a, <2>3, <3>0, <3>2 DEF TypeOK
      <4> QED  BY <2>1, <2>4, <3>0, <3>2, <4>1 DEF Current
    <3>3. CASE g # f /\ Owner[g] # p
      <4>1. /\ cur'[Owner[g]] = cur[Owner[g]] /\ step'[Owner[g]] = step[Owner[g]]
            /\ bytes'[Owner[g]] = bytes[Owner[g]]
        BY <3>0, <3>3 DEF TypeOK
      <4> QED  BY <2>1, <2>4, <3>0, <3>3, <4>1 DEF Current
    <3> QED  BY <3>1, <3>2, <3>3
  <2>5. \A g \in File : Waiting(g)' <=> Waiting(g)
    BY DEF Waiting
  <2> QED  BY <2>4, <2>5 DEF TypeOK, Current
<1> QED  BY <1>1, <1>2, <1>3, <1>4, <1>5, <1>6, <1>7, <1>8, <1>9

LEMMA RestartKeeps ==
  ASSUME IInv, Restart
  PROVE  IInv'
<1> USE FilesAssumption, ChunksAssumption, NothingAssumption
    DEF IInv, Restart, Mode, Step
<1>1. TypeOK'
  <2>1. mode' \in [Project -> Mode]
    BY DEF TypeOK
  <2>2. queue' \in [Project -> Seq(SUBSET File)]
    <3>1. <<>> \in Seq(SUBSET File)
      OBVIOUS
    <3> QED  BY <3>1
  <2>3. todo' \in [Project -> SUBSET File] /\ dirty' \in [Project -> SUBSET File]
    OBVIOUS
  <2>4. cur' \in [Project -> File \cup {Nothing}] /\ bytes' \in [Project -> Content]
    OBVIOUS
  <2>5. step' \in [Project -> Step] /\ sound' \subseteq File
    OBVIOUS
  <2>6. file' \in [File -> Content] /\ points' \in [Key -> Point \cup {Nil}]
    BY DEF TypeOK
  <2>7. open' = FALSE /\ edits' = edits /\ restarts' = restarts + 1
    BY Zenon
  <2>8. edits \in Nat /\ restarts \in Nat
    BY Zenon DEF TypeOK
  <2>9. edits' \in Nat /\ restarts' \in Nat
    <3> HIDE DEF Restart, IInv
    <3> QED  BY <2>7, <2>8
  <2> HIDE DEF Restart
  <2> QED  BY <2>1, <2>2, <2>3, <2>4, <2>5, <2>6, <2>7, <2>9 DEF TypeOK
<1>2. Own'
  BY DEF TypeOK, Own, Working, Files
<1>3. Phases'
  BY DEF TypeOK, Phases, Working
<1>4. Opening'
  BY DEF TypeOK, Opening
<1>5. Keyed'
  BY DEF Keyed, IsOf
<1>6. Fresh'
  BY DEF TypeOK, Fresh, Files, Bare, IsOf
<1>7. Cleared'
  BY DEF Cleared
<1>8. Whole'
  BY DEF Whole, Holds, IsOf
<1>9. Current'
  BY DEF Current
<1> QED  BY <1>1, <1>2, <1>3, <1>4, <1>5, <1>6, <1>7, <1>8, <1>9

-----------------------------------------------------------------------------
LEMMA Stutters ==
  ASSUME IInv, UNCHANGED vars
  PROVE  IInv'
<1> USE DEF vars, index, work, events, bounds
<1>1. TypeOK' /\ Own' /\ Phases' /\ Opening'
  BY DEF IInv, TypeOK, Own, Phases, Opening, Working
<1>2. Keyed' /\ Fresh' /\ Cleared' /\ Whole'
  BY DEF IInv, Keyed, Fresh, Cleared, Whole, Bare, Holds, IsOf
<1>3. Current'
  BY DEF IInv, Current, Waiting, Shows, Holds, IsOf
<1> QED  BY <1>1, <1>2, <1>3 DEF IInv

LEMMA Start == Init => IInv
<1> SUFFICES ASSUME Init PROVE IInv
  OBVIOUS
<1> USE FilesAssumption, ChunksAssumption, NothingAssumption, BoundsAssumption
    DEF Init, Mode, Step
<1>1. TypeOK
  <2>1. queue \in [Project -> Seq(SUBSET File)]
    OBVIOUS
  <2> QED  BY <2>1 DEF TypeOK
<1>2. Own /\ Phases /\ Opening
  BY DEF Own, Phases, Opening, Working
<1>3. Keyed /\ Fresh /\ Cleared /\ Current
  BY DEF Keyed, Fresh, Cleared, Current, Bare, IsOf, Key, Files
<1>4. Whole
  <2>1. ASSUME NEW f \in File PROVE Holds(f, Absent)
    BY DEF Holds, IsOf, Key, Slot
  <2> QED  BY <2>1 DEF Whole
<1> QED  BY <1>1, <1>2, <1>3, <1>4 DEF IInv

LEMMA IndexerKeeps ==
  ASSUME IInv, ~Racing, Distinct, NEW p \in Project, Indexer(p)
  PROVE  IInv'
BY SubscribeKeeps, TakeKeeps, ReadGoneKeeps, ReadRefusedKeeps, ReadNoChunksKeeps,
   ReadKeeps, RemoveKeeps, ForgetKeeps, CheckKeeps, CreateKeeps, UpsertKeeps,
   FailKeeps, FinishKeeps, ReceiveKeeps
DEF Indexer

\* The strengthened invariant holds throughout, whatever the files and the order in
\* which the debouncers, the indexers and the user act: Distinct paths and one
\* creator at a time are the only conditions.
THEOREM Inductive ==
  ASSUME ~Racing, Distinct
  PROVE  Spec => []IInv
<1>1. Init => IInv
  BY Start
<1>2. IInv /\ [Next]_vars => IInv'
  <2> SUFFICES ASSUME IInv, [Next]_vars PROVE IInv'
    OBVIOUS
  <2>1. CASE \E f \in File : Edit(f)
    BY <2>1, EditKeeps
  <2>2. ASSUME NEW p \in Project,
               CreateProject(p) \/ Flush(p) \/ Indexer(p) \/ Shutdown(p)
        PROVE  IInv'
    BY <2>2, CreateProjectKeeps, FlushKeeps, IndexerKeeps, ShutdownKeeps
  <2>3. CASE Restart
    BY <2>3, RestartKeeps
  <2>4. CASE UNCHANGED vars
    BY <2>4, Stutters
  <2> QED  BY <2>1, <2>2, <2>3, <2>4 DEF Next
<1> QED  BY <1>1, <1>2, PTL DEF Spec

-----------------------------------------------------------------------------
\* The shape of the state of create_project, watch_inner and the store.
THEOREM TypeCorrect ==
  ASSUME ~Racing, Distinct
  PROVE  Spec => []TypeOK
<1>1. IInv => TypeOK
  BY DEF IInv
<1> QED  BY <1>1, Inductive, PTL

\* A search never finds parts of two versions of a file, or part of one: index_file
\* stores a version at once, over a place its removal has made bare.
THEOREM OneVersion ==
  ASSUME ~Racing, Distinct
  PROVE  Spec => []Whole
<1>1. IInv => Whole
  BY DEF IInv
<1> QED  BY <1>1, Inductive, PTL

\* Once nothing of it is under way, the index shows a watched file as it is on disk:
\* the debouncer, the queue and the reads of watch_inner lose no change and let none
\* be overtaken by an older one.
THEOREM CatchesUp ==
  ASSUME ~Racing, Distinct
  PROVE  Spec => []CaughtUp
<1>1. IInv => CaughtUp
  <2> SUFFICES ASSUME IInv, NEW f \in sound, mode[Owner[f]] = "watching", ~Pending(f)
               PROVE  Shows(f, file[f])
    BY DEF CaughtUp
  <2>1. f \in File /\ file[f] \in Content
    BY DEF IInv, TypeOK
  <2>2. ~Waiting(f) /\ cur[Owner[f]] # f
    BY DEF Pending, Waiting
  <2> QED  BY <2>1, <2>2 DEF IInv, Current
<1> QED  BY <1>1, Inductive, PTL

\* While the collection is open no indexer touches what is stored of a file that it
\* does not handle at that moment: the filter of index_file and remove_file is as
\* narrow as the update.
THEOREM OthersKept ==
  ASSUME ~Racing, Distinct
  PROVE  Spec => KeptWhileOpen
<1> DEFINE Hands(f) == /\ cur[Owner[f]] = f
                       /\ step[Owner[f]] \in {"remove", "forget", "upsert"}
           Kept1 == \A f \in File : \A i \in Key :
                      open /\ (IsOf(i, f) \/ IsOf(i, f)') /\ points'[i] # points[i]
                        => Hands(f)
<1>1. IInv /\ IInv' /\ [Next]_vars => [Kept1]_vars
  <2> SUFFICES ASSUME IInv, IInv', Next, NEW f \in File, NEW i \in Key,
                      open, IsOf(i, f) \/ IsOf(i, f)', points'[i] # points[i]
               PROVE  Hands(f)
    OBVIOUS
  <2>1. i[1] = Rel[f]
    BY DEF IInv, Keyed
  <2>2. PICK p \in Project : Remove(p) \/ Forget(p) \/ Upsert(p)
    <3>1. points' # points /\ ~(\E p \in Project : Create(p))
      BY DEF IInv, Opening, Create
    <3> QED
      BY <3>1 DEF Next, Indexer, Edit, CreateProject, Flush, Shutdown, Restart, Subscribe,
         Take, ReadGone, ReadRefused, ReadNoChunks, Read, Check, Fail, Finish, Receive, index
  <2>3. cur[p] \in File /\ Owner[cur[p]] = p /\ step[p] \in {"remove", "forget", "upsert"}
    BY <2>2 DEF IInv, Own, Working, Files, Remove, Forget, Upsert
  <2>4. cur[p] = f
    <3>1. CASE Remove(p) \/ Forget(p)
      BY <2>2, <2>3, <3>1 DEF Remove, Forget, Deleted, IsOf, Nil
    <3>2. CASE Upsert(p)
      <4>1. i[1] = Rel[cur[p]]
        BY <3>2 DEF Upsert, Stored
      <4> QED  BY <2>1, <2>3, <4>1 DEF Distinct
    <3> QED  BY <2>2, <3>1, <3>2
  <2> QED  BY <2>3, <2>4
<1> QED  BY <1>1, Inductive, PTL DEF Spec, KeptWhileOpen

=============================================================================
