---------------------------- MODULE ProjectIndex ----------------------------
(***************************************************************************)
(* How the files of a project reach the vector store: the first pass of    *)
(* ProjectIndexer::index (crytex-core/src/indexer.rs), the file watcher    *)
(* that follows it (services/project_watcher.rs) and the embedded store    *)
(* they write to (crytex-storage/src/vector/edge.rs), which all projects   *)
(* of a process share.                                                     *)
(*                                                                         *)
(* A file is what it holds; it is cut into Chunks[content] chunks, and     *)
(* chunk k of a file is stored under the key <<Rel[f], k>>: the relative   *)
(* path and a number, without the project.  The files here are of one      *)
(* collection.  Its points survive the process; that the process has       *)
(* opened the collection does not.                                         *)
(***************************************************************************)
EXTENDS Integers, Sequences

CONSTANTS
  Project, File,
  Owner,       \* the project of a file
  Rel,         \* the path of a file below the root of its project
  Content,     \* what a file may hold
  Absent,      \* in Content: there is no such file
  Unreadable,  \* the contents that chunk_file refuses, invalid UTF-8
  Chunks,      \* the number of chunks a content is cut into
  Found,       \* what files hold when the program is first started
  Racing,      \* may two indexers be about to create the collection at once?
  MaxEdits,    \* bound: changes of files
  MaxRestarts  \* bound: restarts of the program

Nothing == "none"  \* the file of an indexer that is handling none

ASSUME FilesAssumption ==
  /\ Owner \in [File -> Project]
  /\ Absent \in Content /\ Found \subseteq Content
  /\ Unreadable \subseteq Content \ {Absent}
ASSUME ChunksAssumption ==
  /\ Chunks \in [Content -> Nat]
  /\ Chunks[Absent] = 0
  /\ \A c \in Unreadable : Chunks[c] = 0
ASSUME NothingAssumption == Nothing \notin File
ASSUME RacingAssumption == Racing \in BOOLEAN
ASSUME BoundsAssumption == MaxEdits \in Nat /\ MaxRestarts \in Nat

VARIABLES
  file,    \* what each file holds
  points,  \* the points on disk, one or none per key
  open,    \* the collection is in `shards`: this process has opened it
  mode,    \* where create_project and the watcher of a project are
  step,    \* the await its indexer has reached
  todo,    \* the paths of the walk or of the batch still to be handled
  cur,     \* the file being handled
  bytes,   \* what was read of it
  dirty,   \* the paths the debouncer holds back
  queue,   \* the batches sent and not received
  edits, restarts,
  sound    \* history: files the watcher was told of and has not failed on since

index == <<points, open>>
work == <<mode, step, todo, cur, bytes>>
events == <<dirty, queue>>
bounds == <<edits, restarts>>
vars == <<file, index, work, events, bounds, sound>>

Nil == [file |-> "none"]
Slot == UNION {1 .. Chunks[c] : c \in Content}
Key == {Rel[f] : f \in File} \X Slot
Point == [file : File, content : Content]

Files(p) == {f \in File : Owner[f] = p}

Mode == {"none", "indexing", "subscribing", "watching", "unwatched", "off"}
Step == {"idle", "next", "read", "forget", "remove", "check", "create", "upsert"}

Init ==
  /\ file \in [File -> Found]
  /\ points = [i \in Key |-> Nil]
  /\ open = FALSE
  /\ mode = [p \in Project |-> "none"]
  /\ step = [p \in Project |-> "idle"]
  /\ todo = [p \in Project |-> {}]
  /\ cur = [p \in Project |-> Nothing]
  /\ bytes = [p \in Project |-> Absent]
  /\ dirty = [p \in Project |-> {}]
  /\ queue = [p \in Project |-> <<>>]
  /\ edits = 0 /\ restarts = 0
  /\ sound = {}

-----------------------------------------------------------------------------
(* The user and the file system.                                           *)

\* A file is written, created or deleted; a subscribed backend sees it.
Edit(f) ==
  /\ edits < MaxEdits
  /\ edits' = edits + 1
  /\ \E c \in Content \ {file[f]} : file' = [file EXCEPT ![f] = c]
  /\ dirty' = [p \in Project |->
                 IF p = Owner[f] /\ mode[p] = "watching" THEN dirty[p] \cup {f} ELSE dirty[p]]
  /\ sound' = IF mode[Owner[f]] = "watching" THEN sound \cup {f} ELSE sound
  /\ UNCHANGED <<index, work, queue, restarts>>

\* Mutant: only the newest batch is kept for the watcher.
FlushLatestOnly(p) ==
  /\ mode[p] = "watching"
  /\ \E batch \in SUBSET dirty[p] \ {{}} :
       /\ queue' = [queue EXCEPT ![p] = <<batch>>]
       /\ dirty' = [dirty EXCEPT ![p] = @ \ batch]
  /\ UNCHANGED <<file, index, work, bounds, sound>>

\* The paths that have been quiet for the debounce time are sent as a batch.
Flush(p) ==
  /\ mode[p] = "watching"
  /\ \E batch \in SUBSET dirty[p] \ {{}} :
       /\ queue' = [queue EXCEPT ![p] = Append(@, batch)]
       /\ dirty' = [dirty EXCEPT ![p] = @ \ batch]
  /\ UNCHANGED <<file, index, work, bounds, sound>>

-----------------------------------------------------------------------------
(* create_project: walk and index, then subscribe.                         *)

Goto(p, s) == step' = [step EXCEPT ![p] = s]

\* index: the walk lists the files there are.
CreateProject(p) ==
  /\ mode[p] = "none"
  /\ mode' = [mode EXCEPT ![p] = "indexing"]
  /\ todo' = [todo EXCEPT ![p] = {f \in Files(p) : file[f] # Absent}]
  /\ Goto(p, "next")
  /\ UNCHANGED <<file, index, cur, bytes, events, bounds, sound>>

\* start_project_watcher: the backend is subscribed, or refuses, and then the
\* task waits for a shutdown nobody sends.
Subscribe(p) ==
  /\ mode[p] = "subscribing"
  /\ \E m \in {"watching", "unwatched"} : mode' = [mode EXCEPT ![p] = m]
  /\ UNCHANGED <<file, index, step, todo, cur, bytes, events, bounds, sound>>

-----------------------------------------------------------------------------
(* One path: index for a walk, index_file and remove_file for the watcher. *)

\* Mutant: the watcher indexes every path, also one that is gone.
TakeWithoutLooking(p) ==
  /\ step[p] = "next"
  /\ \E f \in todo[p] :
       /\ cur' = [cur EXCEPT ![p] = f]
       /\ todo' = [todo EXCEPT ![p] = @ \ {f}]
       /\ Goto(p, "read")
  /\ UNCHANGED <<file, index, mode, bytes, events, bounds, sound>>

\* A watcher asks whether the path is there before it decides what to do.
Take(p) ==
  /\ step[p] = "next"
  /\ \E f \in todo[p] :
       /\ cur' = [cur EXCEPT ![p] = f]
       /\ todo' = [todo EXCEPT ![p] = @ \ {f}]
       /\ Goto(p, IF mode[p] = "watching" /\ file[f] = Absent THEN "forget" ELSE "read")
  /\ UNCHANGED <<file, index, mode, bytes, events, bounds, sound>>

\* The path has been dealt with.
Handled(p) ==
  /\ Goto(p, "next")
  /\ cur' = [cur EXCEPT ![p] = Nothing]
  /\ bytes' = [bytes EXCEPT ![p] = Absent]

\* An error ends a walk, and with it create_project; a watcher logs it and goes on.
Abort(p) ==
  /\ sound' = sound \ {cur[p]}
  /\ Handled(p)
  /\ mode' = [mode EXCEPT ![p] = IF @ = "indexing" THEN "unwatched" ELSE @]
  /\ todo' = [todo EXCEPT ![p] = IF mode[p] = "indexing" THEN {} ELSE @]

\* A file that has gone since is skipped by a walk, and an error for a watcher,
\* who will be told of the deletion.
ReadGone(p) ==
  /\ step[p] = "read" /\ file[cur[p]] = Absent
  /\ Handled(p)
  /\ UNCHANGED <<file, index, mode, todo, events, bounds, sound>>

ReadRefused(p) ==
  /\ step[p] = "read" /\ file[cur[p]] \in Unreadable
  /\ Abort(p)
  /\ UNCHANGED <<file, index, events, bounds>>

\* A file without chunks is left out of a walk.
ReadNoChunks(p) ==
  /\ step[p] = "read" /\ file[cur[p]] \notin Unreadable \cup {Absent}
  /\ mode[p] = "indexing" /\ Chunks[file[cur[p]]] = 0
  /\ Handled(p)
  /\ UNCHANGED <<file, index, mode, todo, events, bounds, sound>>

\* A walk stores at once, the watcher removes what there is of the file before.
Read(p) ==
  /\ step[p] = "read" /\ file[cur[p]] \notin Unreadable \cup {Absent}
  /\ mode[p] = "indexing" => Chunks[file[cur[p]]] > 0
  /\ bytes' = [bytes EXCEPT ![p] = file[cur[p]]]
  /\ Goto(p, IF mode[p] = "indexing" THEN "check"
             ELSE IF Chunks[file[cur[p]]] = 0 THEN "forget" ELSE "remove")
  /\ UNCHANGED <<file, index, mode, todo, cur, events, bounds, sound>>

\* Mutants: an update that does not remove, and a filter without the path.
DeletedNothing(f) == points
DeletedProject(f) ==
  [i \in Key |-> IF open /\ points[i] # Nil /\ Owner[points[i].file] = Owner[f]
                 THEN Nil ELSE points[i]]

\* delete_by_filter on project and path; a collection that is not open is no error.
Deleted(f) ==
  [i \in Key |-> IF open /\ i[1] = Rel[f] /\ points[i] # Nil /\ points[i].file = f
                 THEN Nil ELSE points[i]]

Remove(p) ==
  /\ step[p] = "remove"
  /\ points' = Deleted(cur[p])
  /\ Goto(p, "check")
  /\ UNCHANGED <<file, open, mode, todo, cur, bytes, events, bounds, sound>>

\* remove_file of a path that is gone or that has no chunks.
Forget(p) ==
  /\ step[p] = "forget"
  /\ points' = Deleted(cur[p])
  /\ Handled(p)
  /\ UNCHANGED <<file, open, mode, todo, events, bounds, sound>>

\* create_sparse_collection asks whether the collection is open ...
Check(p) ==
  /\ step[p] = "check"
  /\ open \/ Racing \/ \A q \in Project : step[q] # "create"
  /\ Goto(p, IF open THEN "upsert" ELSE "create")
  /\ UNCHANGED <<file, index, mode, todo, cur, bytes, events, bounds, sound>>

\* ... and if not, it deletes what is on disk and makes an empty collection.
Create(p) ==
  /\ step[p] = "create"
  /\ points' = [i \in Key |-> Nil]
  /\ open' = TRUE
  /\ Goto(p, "upsert")
  /\ UNCHANGED <<file, mode, todo, cur, bytes, events, bounds, sound>>

Stored(f, c) ==
  [i \in Key |-> IF i[1] = Rel[f] /\ i[2] <= Chunks[c]
                 THEN [file |-> f, content |-> c] ELSE points[i]]

Upsert(p) ==
  /\ step[p] = "upsert"
  /\ points' = Stored(cur[p], bytes[p])
  /\ Handled(p)
  /\ UNCHANGED <<file, open, mode, todo, events, bounds, sound>>

\* The embedder or the store fails.
Fail(p) ==
  /\ step[p] \in {"remove", "forget", "check", "create", "upsert"}
  /\ Abort(p)
  /\ UNCHANGED <<file, index, events, bounds>>

\* The walk is over, or the batch, which is announced: ProjectContextUpdated.
Finish(p) ==
  /\ step[p] = "next" /\ todo[p] = {}
  /\ Goto(p, "idle")
  /\ mode' = [mode EXCEPT ![p] = IF @ = "indexing" THEN "subscribing" ELSE @]
  /\ UNCHANGED <<file, index, todo, cur, bytes, events, bounds, sound>>

-----------------------------------------------------------------------------
(* The loop of watch_inner, and the program.                               *)

\* Mutant: the loop drains the channel and takes the batches for paths.
ReceiveAll(p) ==
  /\ mode[p] = "watching" /\ step[p] = "idle" /\ queue[p] # <<>>
  /\ todo' = [todo EXCEPT ![p] = {queue[p][n] : n \in 1 .. Len(queue[p])}]
  /\ queue' = [queue EXCEPT ![p] = <<>>]
  /\ Goto(p, "next")
  /\ UNCHANGED <<file, index, mode, cur, bytes, dirty, bounds, sound>>

Receive(p) ==
  /\ mode[p] = "watching" /\ step[p] = "idle" /\ queue[p] # <<>>
  /\ todo' = [todo EXCEPT ![p] = Head(queue[p])]
  /\ queue' = [queue EXCEPT ![p] = Tail(@)]
  /\ Goto(p, "next")
  /\ UNCHANGED <<file, index, mode, cur, bytes, dirty, bounds, sound>>

\* The shutdown branch: what is queued is not handled.
Shutdown(p) ==
  /\ mode[p] = "watching" /\ step[p] = "idle"
  /\ mode' = [mode EXCEPT ![p] = "off"]
  /\ dirty' = [dirty EXCEPT ![p] = {}]
  /\ queue' = [queue EXCEPT ![p] = <<>>]
  /\ UNCHANGED <<file, index, step, todo, cur, bytes, bounds, sound>>

\* The program starts again: the desktop application without watchers, the kernel's
\* `run` with one for every project.  The disk is as it was, nothing is open.
Restart ==
  /\ restarts < MaxRestarts
  /\ restarts' = restarts + 1
  /\ open' = FALSE
  /\ \E m \in {"watching", "off"} :
       mode' = [p \in Project |-> IF mode[p] = "none" THEN "none" ELSE m]
  /\ step' = [p \in Project |-> "idle"]
  /\ todo' = [p \in Project |-> {}]
  /\ cur' = [p \in Project |-> Nothing]
  /\ bytes' = [p \in Project |-> Absent]
  /\ dirty' = [p \in Project |-> {}]
  /\ queue' = [p \in Project |-> <<>>]
  /\ sound' = {}
  /\ UNCHANGED <<file, points, edits>>

Indexer(p) ==
  \/ Subscribe(p) \/ Take(p) \/ ReadGone(p) \/ ReadRefused(p) \/ ReadNoChunks(p)
  \/ Read(p) \/ Remove(p) \/ Forget(p) \/ Check(p) \/ Create(p) \/ Upsert(p) \/ Fail(p) \/ Finish(p) \/ Receive(p)

Next ==
  \/ \E f \in File : Edit(f)
  \/ \E p \in Project : CreateProject(p) \/ Flush(p) \/ Indexer(p) \/ Shutdown(p)
  \/ Restart

Spec ==
  /\ Init /\ [][Next]_vars
  /\ \A p \in Project : WF_vars(Flush(p)) /\ WF_vars(Indexer(p))

-----------------------------------------------------------------------------
(* Properties.                                                             *)

\* The shape of the state.
TypeOK ==
  /\ file \in [File -> Content]
  /\ points \in [Key -> Point \cup {Nil}]
  /\ open \in BOOLEAN
  /\ mode \in [Project -> Mode]
  /\ step \in [Project -> Step]
  /\ todo \in [Project -> SUBSET File]
  /\ cur \in [Project -> File \cup {Nothing}]
  /\ bytes \in [Project -> Content]
  /\ dirty \in [Project -> SUBSET File]
  /\ queue \in [Project -> Seq(SUBSET File)]
  /\ edits \in Nat /\ restarts \in Nat
  /\ sound \subseteq File

\* No two files have one relative path: not so for projects with a src/lib.rs each.
Distinct == \A f, g \in File : Rel[f] = Rel[g] => f = g

IsOf(i, f) == points[i] # Nil /\ points[i].file = f

\* The store holds the chunks of f as they are when f holds c, and no others.
Holds(f, c) ==
  \A k \in Slot : IF k <= Chunks[c]
                  THEN points[<<Rel[f], k>>] = [file |-> f, content |-> c]
                  ELSE ~IsOf(<<Rel[f], k>>, f)

\* What a search can find of f is what f holds when it holds c.
Shows(f, c) == IF open THEN Holds(f, c) ELSE Chunks[c] = 0

\* No search gives an agent parts of two versions of a file (index_file removes
\* before it stores), and none gives part of a version.
Whole == \A f \in File : \E c \in Content : Holds(f, c)

\* A path on its way to the indexer: held back, sent, in the batch or being handled.
Pending(f) ==
  LET p == Owner[f] IN
  \/ f \in dirty[p] \cup todo[p]
  \/ \E n \in 1 .. Len(queue[p]) : f \in queue[p][n]
  \/ cur[p] = f

\* The index has caught up with every file whose changes the watcher was told of
\* and which it logged no error about, once nothing about it is under way
\* (watch_inner): no change is overtaken by an older one or lost between the
\* debouncer, the queue and the read.
CaughtUp ==
  \A f \in sound : mode[Owner[f]] = "watching" /\ ~Pending(f) => Shows(f, file[f])

\* While the collection is open, what is stored of a file changes only at the hands
\* of its own project's indexer, which is handling this very file.
KeptWhileOpen ==
  [][\A f \in File : \A i \in Key :
       open /\ (IsOf(i, f) \/ IsOf(i, f)') /\ points'[i] # points[i]
         => /\ cur[Owner[f]] = f
            /\ step[Owner[f]] \in {"remove", "forget", "upsert"}]_vars

\* The same without the condition: "Remove any existing dense-only shard" is all the
\* comment in create_sparse_collection lets it remove, and the points here are sparse.
Kept ==
  [][\A f \in File : \A i \in Key :
       IsOf(i, f) /\ points'[i] # points[i]
         => /\ cur[Owner[f]] = f
            /\ step[Owner[f]] \in {"remove", "forget", "upsert"}]_vars

\* A change the watcher was told of reaches the index, unless an update of the file
\* fails or the watcher is shut down.
Follows ==
  \A f \in File :
    f \in dirty[Owner[f]]
      ~> (Shows(f, file[f]) \/ f \notin sound \/ mode[Owner[f]] # "watching")

=============================================================================
