--------------------------- MODULE RunLoop_proofs ---------------------------
(***************************************************************************)
(* What the desktop application keeps true for every set of tasks and      *)
(* runs, every plan and every bound.                                       *)
(*                                                                         *)
(* The argument: a command keeps to itself only what it was given, the     *)
(* fields that say where a task comes from never change, and a finished    *)
(* task is never moved.  One lemma per action says what its step does to   *)
(* the board (Moved, Written, Created) and to the command (Acts, Same,     *)
(* Over); the invariants are proved from these lemmas and never from the   *)
(* actions.  That a run comes to an end is shown action by action.         *)
(***************************************************************************)
EXTENDS RunLoop, SequenceTheorems, FiniteSetTheorems, TLAPS

UiPlaces == {"idle", "begin", "stages", "links", "hold", "free", "drop"}

\* Where a run has a task at hand and has not yet failed a critic for its verdict.
Work ==
  {"attach", "repair", "link", "put", "start", "execute", "store", "store_bad",
   "store_error", "give_up", "requeue", "fail", "settle", "escalate", "fail_critic"}

\* Where it plans the remediation of the verdict.
Remedying == {"begin", "stages", "links", "conclude"}

AtHand == Work \cup Remedying \cup {"remedy"}

RunPlaces == {"idle", "pick"} \cup AtHand

Places == UiPlaces \cup RunPlaces

\* What no write of a task changes.
Fixed(a, b) ==
  /\ a.parent = b.parent /\ a.role = b.role /\ a.source = b.source
  /\ a.about = b.about /\ a.for = b.for /\ a.rank = b.rank

Lineage ==
  \A i \in made :
    /\ task[i].parent \in made \cup {0}
    /\ task[i].source = "stage" => task[i].parent # 0
    /\ task[i].role = "critic" => task[i].parent # 0

\* What a command keeps to itself fits the await it has reached.
Sound(p) ==
  /\ pc[p] \in IF p = "ui" THEN UiPlaces ELSE RunPlaces
  /\ p # "ui" /\ pc[p] \in AtHand => cur[p] \in made /\ Fixed(copy[p], task[cur[p]])
  /\ pc[p] \in {"idle", "pick"} => cur[p] = 0
  /\ pc[p] \in {"idle", "pick", "begin"} => stages[p] = <<>>
  /\ pc[p] \in {"repair", "link"} /\ todo[p] # {} => copy[p].parent # 0
  /\ pc[p] \in {"begin", "stages", "links", "link", "hold"} => fresh[p] \in made
  /\ pc[p] \in {"begin", "stages", "links", "hold"} =>
       task[fresh[p]].source = IF p = "ui" THEN "goal" ELSE "rejection"
  /\ pc[p] \in {"stages", "links"} /\ linked[p] = 0 => stages[p] = <<>>
  /\ pc[p] \in {"free", "drop"} => cur[p] \in made /\ task[cur[p]].source = "goal"

IInv == TypeOK /\ Lineage /\ \A p \in Proc : Sound(p)

-----------------------------------------------------------------------------
(* What a step does to the board.                                          *)

BoardTyped ==
  /\ made \subseteq Id /\ task \in [Id -> TaskRecord] /\ deps \subseteq made \X made

\* A task is moved, and nothing else is.
Moved(i, s) ==
  /\ i \in made /\ Accepts(i, s) /\ s \in Status
  /\ made' = made /\ deps' = deps /\ task' \in [Id -> TaskRecord]
  /\ task'[i].status = s /\ task'[i].result = task[i].result
  /\ Fixed(task'[i], task[i])
  /\ \A j \in Id \ {i} : task'[j] = task[j]

\* A run overwrites its task.
Written(r, new) ==
  /\ cur[r] \in made
  /\ made' = made /\ deps' = deps /\ task' \in [Id -> TaskRecord]
  /\ task'[cur[r]] = new /\ Fixed(new, task[cur[r]])
  /\ \A j \in Id \ {cur[r]} : task'[j] = task[j]

Created(i, new) ==
  /\ i \in Id \ made /\ new \in TaskRecord
  /\ made' = made \cup {i} /\ deps' = deps /\ task' \in [Id -> TaskRecord]
  /\ task'[i] = new
  /\ \A j \in Id \ {i} : task'[j] = task[j]

LEMMA StatusType == ASSUME NEW s \in {"InProgress", "Backlog", "Review", "Pending",
                                      "Completed", "Cancelled", "Failed"}
                    PROVE  s \in Status
BY DEF Status

LEMMA NewTaskType ==
  ASSUME NEW parent \in Id \cup {0}, NEW role \in Role, NEW source \in Source,
         NEW rank \in Int
  PROVE  /\ NewTask(parent, role, source, rank) \in TaskRecord
         /\ NewTask(parent, role, source, rank).parent = parent
         /\ NewTask(parent, role, source, rank).role = role
         /\ NewTask(parent, role, source, rank).source = source
         /\ NewTask(parent, role, source, rank).status = "Pending"
         /\ NewTask(parent, role, source, rank).result = "none"
BY DEF NewTask, TaskRecord, Status, Outcome

LEMMA UnmadeType == Unmade \in TaskRecord
BY NewTaskType DEF Unmade, Role, Source

LEMMA MoveDoes ==
  ASSUME TypeOK, NEW i \in made, NEW s \in Status, Accepts(i, s), MoveTo(i, s),
         UNCHANGED <<made, deps>>
  PROVE  Moved(i, s)
<1> DEFINE new == [task[i] EXCEPT !.status = s]
<1>1. task[i] \in TaskRecord /\ i \in Id
  BY DEF TypeOK
<1>2. /\ new \in TaskRecord /\ new.status = s /\ new.result = task[i].result
      /\ Fixed(new, task[i])
  BY <1>1 DEF TaskRecord, Fixed
<1>3. task' = [task EXCEPT ![i] = new]
  BY <1>1 DEF MoveTo, TypeOK
<1> HIDE DEF new
<1> QED
  BY <1>1, <1>2, <1>3 DEF TypeOK, Moved

LEMMA RetryDoes ==
  ASSUME TypeOK, NEW i \in made, Retry(i), UNCHANGED <<made, deps>>
  PROVE  Moved(i, "Pending") \/ UNCHANGED board
<1>1. CASE task[i].status \notin Terminal /\ Accepts(i, "Pending")
  <2> DEFINE n == task[i].iter + 1
             new == [task[i] EXCEPT !.status = "Pending", !.iter = n]
  <2>1. task[i] \in TaskRecord /\ i \in Id /\ "Pending" \in Status
    BY DEF TypeOK, Status
  <2>0. n \in Nat
    BY <2>1 DEF TaskRecord
  <2> HIDE DEF n
  <2>2. /\ new \in TaskRecord /\ new.status = "Pending" /\ new.result = task[i].result
        /\ Fixed(new, task[i])
    BY <2>0, <2>1 DEF TaskRecord, Fixed
  <2>3. task' = [task EXCEPT ![i] = new]
    BY <1>1, <2>1 DEF Retry, TypeOK, n
  <2> HIDE DEF new
  <2> QED
    BY <1>1, <2>1, <2>2, <2>3 DEF TypeOK, Moved
<1>2. CASE ~(task[i].status \notin Terminal /\ Accepts(i, "Pending"))
  BY <1>2 DEF Retry, board
<1> QED
  BY <1>1, <1>2

LEMMA WriteDoes ==
  ASSUME TypeOK, NEW r \in Run, cur[r] \in made, NEW new \in TaskRecord,
         Fixed(new, task[cur[r]]), task' = [task EXCEPT ![cur[r]] = new],
         UNCHANGED <<made, deps>>
  PROVE  Written(r, new)
BY DEF TypeOK, Written

LEMMA SubmitDoes ==
  ASSUME TypeOK, NEW i \in Id, NEW new \in TaskRecord, Submit(i, new), deps' = deps
  PROVE  Created(i, new)
BY DEF TypeOK, Created, Submit, NextId

(* Tasks are never forgotten, and where a task comes from never changes.   *)
Grows ==
  /\ made \subseteq made' /\ BoardTyped'
  /\ \A i \in made : Fixed(task'[i], task[i])

LEMMA BoardGrows ==
  ASSUME TypeOK,
         \/ UNCHANGED board
         \/ \E i, s : Moved(i, s)
         \/ \E r, new : Written(r, new)
         \/ \E i, new : Created(i, new)
         \/ UNCHANGED <<made, task>> /\ \E i, j \in made : deps' = deps \cup {<<i, j>>}
  PROVE  Grows
BY DEF TypeOK, board, Moved, Written, Created, Grows, BoardTyped, Fixed

LEMMA GrowsLineage ==
  ASSUME TypeOK, Lineage, Grows, made' = made
  PROVE  Lineage'
BY DEF TypeOK, Lineage, Grows, Fixed

-----------------------------------------------------------------------------
(* What a step does to what the commands keep to themselves.               *)

LocalsTyped ==
  /\ pc \in [Proc -> Places]
  /\ cur \in [Proc -> made \cup {0}]
  /\ copy \in [Proc -> TaskRecord]
  /\ todo \in [Proc -> SUBSET made]
  /\ fresh \in [Proc -> made \cup {0}]
  /\ stages \in [Proc -> Seq(made)]
  /\ linked \in [Proc -> Nat]
  /\ left \in [Run -> 0..MaxSteps]

Unseen(q) ==
  /\ pc'[q] = pc[q] /\ cur'[q] = cur[q] /\ copy'[q] = copy[q] /\ todo'[q] = todo[q]
  /\ fresh'[q] = fresh[q] /\ stages'[q] = stages[q] /\ linked'[q] = linked[q]

Acts(p) == LocalsTyped' /\ \A q \in Proc \ {p} : Unseen(q)

\* p has forgotten what it kept.
Over(p) ==
  /\ pc'[p] \in {"idle", "pick"}
  /\ cur'[p] = 0 /\ stages'[p] = <<>>

LEMMA TypeParts == TypeOK <=> BoardTyped /\ LocalsTyped /\ moves \in 0..MaxMoves
                              /\ released \subseteq made
BY DEF TypeOK, BoardTyped, LocalsTyped, Places, UiPlaces, RunPlaces, AtHand, Work,
       Remedying

LEMMA SeqGrows == ASSUME NEW S, NEW T, S \subseteq T PROVE Seq(S) \subseteq Seq(T)
OBVIOUS

LEMMA LeaveDoes ==
  ASSUME TypeOK, NEW p \in Proc, NEW l \in {"idle", "pick"}, Leave(p, l),
         left' = left \/ left' = [r \in Run |-> IF r = p THEN 0 ELSE left[r]],
         made' = made
  PROVE  Acts(p) /\ Over(p) /\ pc'[p] = l
<1> USE UnmadeType DEF TypeOK, LocalsTyped, Leave, Goto
<1>0. 0 \in 0..MaxSteps
  BY BoundsAssumption
<1>1. left' \in [Run -> 0..MaxSteps]
  BY <1>0
<1>2. <<>> \in Seq(made) /\ l \in Places
  BY DEF Places, RunPlaces
<1>3. LocalsTyped'
  BY <1>1, <1>2, TypeParts
<1> QED
  BY <1>3 DEF Acts, Over, Unseen

LEMMA ReturnDoes ==
  ASSUME TypeOK, NEW p \in Proc, Return(p), made' = made
  PROVE  Acts(p) /\ Over(p) /\ pc'[p] = "idle"
BY LeaveDoes DEF Return

LEMMA AgainDoes ==
  ASSUME TypeOK, NEW r \in Run, Again(r), made' = made
  PROVE  Acts(r) /\ Over(r) /\ pc'[r] = "pick"
BY LeaveDoes DEF Again, Proc

-----------------------------------------------------------------------------
(* What each step does.                                                    *)

Same(p) ==
  /\ cur'[p] = cur[p] /\ copy'[p] = copy[p] /\ todo'[p] = todo[p]
  /\ fresh'[p] = fresh[p] /\ stages'[p] = stages[p] /\ linked'[p] = linked[p]

LEMMA GotoDoes ==
  ASSUME TypeOK, NEW p \in Proc, NEW l \in Places, Goto(p, l),
         UNCHANGED <<cur, copy, todo, fresh, stages, linked, left>>, made' = made
  PROVE  Acts(p) /\ Same(p) /\ pc'[p] = l
<1> USE DEF TypeOK, LocalsTyped, Goto
<1>1. LocalsTyped'
  BY TypeParts
<1> QED
  BY <1>1 DEF Acts, Same, Unseen

LEMMA PlacesOf ==
  /\ \A l \in UiPlaces \cup Work \cup Remedying \cup {"remedy", "idle", "pick"} : l \in Places
  /\ {"stages", "links", "hold", "free", "drop"} \subseteq UiPlaces
  /\ {"link", "put", "start", "execute", "store", "store_bad", "store_error", "give_up",
      "requeue", "fail", "settle", "escalate", "fail_critic", "repair", "attach"}
       \subseteq Work
  /\ {"begin", "stages", "links", "conclude"} \subseteq Remedying
BY DEF Places, UiPlaces, RunPlaces, AtHand, Work, Remedying

LEMMA BeginPlanDoes ==
  ASSUME IInv, NEW p \in Proc, BeginPlan(p)
  PROVE  /\ pc[p] = "begin" /\ fresh[p] \in made /\ Acts(p)
         /\ UNCHANGED <<moves, released>>
         /\ \/ Moved(fresh[p], "InProgress") /\ Same(p) /\ pc'[p] = "stages"
            \/ UNCHANGED board /\ Over(p) /\ pc'[p] = "idle"
<1>1. fresh[p] \in made /\ TypeOK /\ pc[p] = "begin"
  BY DEF IInv, Sound, BeginPlan
<1>2. CASE Accepts(fresh[p], "InProgress")
  BY <1>1, <1>2, MoveDoes, StatusType, GotoDoes, PlacesOf DEF BeginPlan
<1>3. CASE ~Accepts(fresh[p], "InProgress")
  BY <1>1, <1>3, ReturnDoes DEF BeginPlan, board
<1> QED
  BY <1>2, <1>3 , <1>1 DEF BeginPlan

LEMMA SubmitStageDoes ==
  ASSUME IInv, NEW p \in Proc, SubmitStage(p)
  PROVE  /\ pc[p] = "stages" /\ fresh[p] \in made /\ Acts(p)
         /\ UNCHANGED <<moves, released>>
         /\ pc'[p] = pc[p] /\ cur'[p] = cur[p] /\ copy'[p] = copy[p] /\ todo'[p] = todo[p]
         /\ fresh'[p] = fresh[p] /\ linked'[p] = 1
         /\ \E i, new : /\ Created(i, new)
                        /\ new.source = "stage" /\ new.parent = fresh[p]
                        /\ new.status = "Pending" /\ new.result = "none"
                        /\ stages'[p] = Append(stages[p], i)
<1>1. fresh[p] \in made /\ TypeOK /\ pc[p] = "stages"
  BY DEF IInv, Sound, SubmitStage
<1> DEFINE k == Len(stages[p]) + 1
           role == Workflow(fresh[p])[k]
           rank == task[fresh[p]].rank
           new == NewTask(fresh[p], role, "stage", rank)
<1>2. PICK i \in Id : /\ Submit(i, new)
                      /\ stages' = [stages EXCEPT ![p] = Append(@, i)]
  BY DEF SubmitStage
<1>3. role \in Role /\ rank \in Int
  <2>1. Workflow(fresh[p]) \in Seq({"coder", "critic"})
    BY PlansAssumption DEF Workflow
  <2>2. k \in 1..Len(Workflow(fresh[p]))
    <3>1. Len(stages[p]) \in Nat /\ Len(Workflow(fresh[p])) \in Nat
      BY <1>1, <2>1 DEF TypeOK
    <3> QED
      BY <3>1 DEF SubmitStage
  <2>3. role \in {"coder", "critic"}
    BY <2>1, <2>2
  <2>4. task[fresh[p]] \in TaskRecord
    BY <1>1 DEF TypeOK
  <2> QED
    BY <2>3, <2>4 DEF Role, TaskRecord
<1> HIDE DEF role, rank
<1>4. /\ new \in TaskRecord /\ new.source = "stage" /\ new.parent = fresh[p]
      /\ new.status = "Pending" /\ new.result = "none"
  BY <1>1, <1>3, NewTaskType DEF TypeOK, Source
<1> HIDE DEF new
<1>5. Created(i, new)
  BY <1>1, <1>2, <1>4, SubmitDoes DEF SubmitStage
<1>6. stages'[p] = Append(stages[p], i) /\ stages' \in [Proc -> Seq(made')]
  <2>1. made \subseteq made' /\ i \in made'
    BY <1>5 DEF Created
  <2>2. \A q \in Proc : stages[q] \in Seq(made')
    BY <1>1, <2>1, SeqGrows DEF TypeOK
  <2>3. Append(stages[p], i) \in Seq(made')
    BY <2>1, <2>2
  <2> QED
    BY <1>1, <1>2, <2>2, <2>3 DEF TypeOK
<1>7. Acts(p) /\ linked'[p] = 1
  <2>1. made \subseteq made'
    BY <1>5 DEF Created
  <2>2. LocalsTyped'
    BY <1>1, <1>6, <2>1, TypeParts DEF LocalsTyped, SubmitStage
  <2> QED
    BY <1>1, <1>2, <2>2 DEF Acts, Unseen, SubmitStage, TypeOK
<1> QED
  BY <1>1, <1>4, <1>5, <1>6, <1>7 DEF SubmitStage

LEMMA StagesSubmittedDoes ==
  ASSUME IInv, NEW p \in Proc, StagesSubmitted(p)
  PROVE  /\ pc[p] = "stages" /\ Acts(p) /\ UNCHANGED board /\ Same(p) /\ pc'[p] = "links"
         /\ UNCHANGED <<moves, released>>
BY GotoDoes, PlacesOf DEF StagesSubmitted, IInv, board

LEMMA LinkStageDoes ==
  ASSUME IInv, NEW p \in Proc, LinkStage(p)
  PROVE  /\ pc[p] = "links" /\ Acts(p) /\ UNCHANGED <<made, task>>
         /\ UNCHANGED <<moves, released>>
         /\ \E i, j \in made : deps' = deps \cup {<<i, j>>}
         /\ pc'[p] = pc[p] /\ cur'[p] = cur[p] /\ copy'[p] = copy[p] /\ todo'[p] = todo[p]
         /\ fresh'[p] = fresh[p] /\ stages'[p] = stages[p] /\ linked'[p] # 0
<1> DEFINE l == linked[p]
<1>1. stages[p] \in Seq(made) /\ l \in Nat /\ TypeOK
  BY DEF IInv, TypeOK
<1>2. l # 0
  BY <1>1 DEF IInv, Sound, LinkStage
<1>3. l \in 1..Len(stages[p]) /\ l + 1 \in 1..Len(stages[p])
  BY <1>1, <1>2 DEF LinkStage
<1>4. stages[p][l] \in made /\ stages[p][l + 1] \in made
  BY <1>1, <1>3
<1>5. linked' = [linked EXCEPT ![p] = l + 1] /\ l + 1 \in Nat /\ l + 1 # 0
  BY <1>1 DEF LinkStage
<1>6. deps' = deps \cup {<<stages[p][l + 1], stages[p][l]>>}
  BY DEF LinkStage
<1> HIDE DEF l
<1>7. LocalsTyped'
  BY <1>1, <1>5, TypeParts DEF LocalsTyped, LinkStage
<1> QED
  BY <1>1, <1>4, <1>5, <1>6, <1>7 DEF Acts, Unseen, LinkStage, TypeOK

LEMMA StagesLinkedDoes ==
  ASSUME IInv, NEW p \in Proc, StagesLinked(p)
  PROVE  /\ pc[p] = "links" /\ Acts(p) /\ UNCHANGED board
         /\ UNCHANGED <<moves, released>>
         /\ cur'[p] = cur[p] /\ copy'[p] = copy[p]
         /\ fresh'[p] = fresh[p] /\ stages'[p] = stages[p] /\ linked'[p] = linked[p]
         /\ \/ /\ p = "ui" /\ pc'[p] = "hold"
               /\ todo'[p] = {stages[p][k] : k \in DOMAIN stages[p]}
            \/ p # "ui" /\ pc'[p] = "conclude" /\ todo'[p] = todo[p]
<1> DEFINE all == {stages[p][k] : k \in DOMAIN stages[p]}
<1>1. stages[p] \in Seq(made) /\ TypeOK
  BY DEF IInv, TypeOK
<1>2. all \subseteq made
  BY <1>1
<1>3. pc' \in [Proc -> Places] /\ todo' \in [Proc -> SUBSET made]
  BY <1>1, <1>2, PlacesOf, TypeParts DEF StagesLinked, Goto, LocalsTyped
<1>4. LocalsTyped'
  BY <1>1, <1>3, TypeParts DEF LocalsTyped, StagesLinked, board
<1> HIDE DEF all
<1>5. \/ p = "ui" /\ pc' = [pc EXCEPT ![p] = "hold"] /\ todo' = [todo EXCEPT ![p] = all]
      \/ p # "ui" /\ pc' = [pc EXCEPT ![p] = "conclude"] /\ todo' = todo
  BY DEF StagesLinked, Goto, all
<1>6. Acts(p)
  BY <1>1, <1>4, <1>5 DEF Acts, Unseen, StagesLinked, TypeOK
<1> QED
  BY <1>1, <1>5, <1>6 DEF StagesLinked, TypeOK, all

LEMMA SubmitGoalDoes ==
  ASSUME IInv, SubmitGoal
  PROVE  /\ pc["ui"] = "idle" /\ (Overlap \/ Idle) /\ Acts("ui")
         /\ UNCHANGED <<moves, released>>
         /\ pc'["ui"] = "begin" /\ cur'["ui"] = cur["ui"] /\ copy'["ui"] = copy["ui"]
         /\ todo'["ui"] = todo["ui"]
         /\ stages'["ui"] = stages["ui"] /\ linked'["ui"] = linked["ui"]
         /\ \E i, new : /\ Created(i, new)
                        /\ new.source = "goal" /\ new.parent = 0 /\ new.role = "architect"
                        /\ new.status = "Pending" /\ new.result = "none"
                        /\ fresh'["ui"] = i
<1> DEFINE new == NewTask(0, "architect", "goal", 10)
<1>1. PICK i \in Id : Submit(i, new) /\ fresh' = [fresh EXCEPT !["ui"] = i]
  BY DEF SubmitGoal
<1>2. /\ new \in TaskRecord /\ new.source = "goal" /\ new.parent = 0
      /\ new.role = "architect" /\ new.status = "Pending" /\ new.result = "none"
  BY NewTaskType DEF Role, Source
<1> HIDE DEF new
<1>3. Created(i, new) /\ TypeOK
  BY <1>1, <1>2, SubmitDoes DEF SubmitGoal, IInv
<1>4. made \subseteq made' /\ i \in made' /\ "ui" \in Proc
  BY <1>3 DEF Created, Proc
<1>5. stages' \in [Proc -> Seq(made')]
  BY <1>3, <1>4, SeqGrows DEF SubmitGoal, TypeOK
<1>6. LocalsTyped'
  BY <1>1, <1>3, <1>4, <1>5, TypeParts, PlacesOf DEF LocalsTyped, SubmitGoal, Goto, UiPlaces
<1>7. Acts("ui")
  BY <1>1, <1>3, <1>6 DEF Acts, Unseen, SubmitGoal, Goto, TypeOK
<1> QED
  BY <1>1, <1>2, <1>3, <1>4, <1>7 DEF SubmitGoal, Goto, TypeOK

\* One call of a loop over tasks of a command of the user.
LEMMA EachDoes ==
  ASSUME TypeOK, NEW i \in todo["ui"], NEW s \in Status, Each(i, s),
         UNCHANGED <<made, deps>>
  PROVE  /\ i \in made /\ Acts("ui")
         /\ \/ /\ Moved(i, s) /\ pc'["ui"] = pc["ui"]
               /\ cur'["ui"] = cur["ui"] /\ copy'["ui"] = copy["ui"]
               /\ fresh'["ui"] = fresh["ui"] /\ stages'["ui"] = stages["ui"]
               /\ linked'["ui"] = linked["ui"] /\ todo'["ui"] = todo["ui"] \ {i}
            \/ /\ UNCHANGED board /\ ~Accepts(i, s)
               /\ Over("ui") /\ pc'["ui"] = "idle"
<1>1. "ui" \in Proc /\ i \in made
  BY DEF TypeOK, Proc
<1>2. CASE Accepts(i, s)
  <2>1. Moved(i, s)
    BY <1>1, <1>2, MoveDoes DEF Each
  <2>2. LocalsTyped'
    BY <1>1, <1>2, TypeParts DEF LocalsTyped, Each
  <2> QED
    BY <1>1, <1>2, <2>1, <2>2 DEF Acts, Unseen, Each, TypeOK
<1>3. CASE ~Accepts(i, s)
  BY <1>1, <1>3, ReturnDoes DEF Each, board
<1> QED
  BY <1>2, <1>3

LEMMA HoldDoes ==
  ASSUME IInv, Hold
  PROVE  /\ pc["ui"] = "hold" /\ UNCHANGED <<moves, released>>
         /\ \E i \in todo["ui"] :
              /\ i \in made /\ Acts("ui")
              /\ \/ /\ Moved(i, "Backlog") /\ pc'["ui"] = pc["ui"]
                    /\ cur'["ui"] = cur["ui"] /\ copy'["ui"] = copy["ui"]
                    /\ fresh'["ui"] = fresh["ui"] /\ stages'["ui"] = stages["ui"]
                    /\ linked'["ui"] = linked["ui"] /\ todo'["ui"] = todo["ui"] \ {i}
                 \/ /\ UNCHANGED board /\ ~Accepts(i, "Backlog")
                    /\ Over("ui") /\ pc'["ui"] = "idle"
<1>1. PICK i \in todo["ui"] : Each(i, "Backlog")
  BY DEF Hold
<1> QED
  BY <1>1, EachDoes, StatusType DEF Hold, IInv

\* The loops of approve_plan and reject_plan.
LEMMA FreeDoes ==
  ASSUME IInv, Free \/ Drop
  PROVE  /\ pc["ui"] \in {"free", "drop"} /\ Acts("ui") /\ UNCHANGED moves
         /\ \/ /\ pc'["ui"] = pc["ui"] /\ cur'["ui"] = cur["ui"]
               /\ \E i : \/ Moved(i, "Pending") /\ released' = released \cup {i}
                         \/ Moved(i, "Cancelled") /\ released' = released
            \/ UNCHANGED board /\ Over("ui") /\ pc'["ui"] = "idle" /\ UNCHANGED released
<1>1. CASE Free
  <2>1. PICK i \in todo["ui"] :
          /\ Each(i, "Pending")
          /\ released' = IF Accepts(i, "Pending") THEN released \cup {i} ELSE released
    BY <1>1 DEF Free
  <2>2. Moved(i, "Pending") => Accepts(i, "Pending")
    BY DEF Moved
  <2> QED
    BY <1>1, <2>1, <2>2, EachDoes, StatusType DEF Free, IInv
<1>2. CASE Drop
  <2>1. PICK i \in todo["ui"] : Each(i, "Cancelled")
    BY <1>2 DEF Drop
  <2> QED
    BY <1>2, <2>1, EachDoes, StatusType DEF Drop, IInv
<1> QED
  BY <1>1, <1>2

\* The last call of a command of the user.
LEMMA OfferDoes ==
  ASSUME IInv, Offer \/ ApprovePlan \/ RejectPlan
  PROVE  /\ Acts("ui") /\ Over("ui") /\ pc'["ui"] = "idle" /\ UNCHANGED <<moves, released>>
         /\ pc["ui"] \in {"hold", "free", "drop"}
         /\ pc["ui"] = "hold" => todo["ui"] = {}
         /\ \/ UNCHANGED board
            \/ \E g \in made, s \in {"Review", "Completed", "Pending"} :
                 Moved(g, s) /\ task[g].source = "goal"
<1>1. "ui" \in Proc /\ Sound("ui") /\ TypeOK
  BY DEF Proc, IInv
<1>2. CASE Offer
  <2>1. fresh["ui"] \in made /\ task[fresh["ui"]].source = "goal"
    BY <1>1, <1>2 DEF Offer, Sound
  <2>2. Acts("ui") /\ Over("ui") /\ pc'["ui"] = "idle"
    BY <1>1, <1>2, ReturnDoes DEF Offer
  <2>3. UNCHANGED board \/ Moved(fresh["ui"], "Review")
    BY <1>1, <1>2, <2>1, MoveDoes, StatusType DEF Offer, board
  <2> QED
    BY <1>2, <2>1, <2>2, <2>3 DEF Offer
<1>3. CASE ApprovePlan
  <2>1. cur["ui"] \in made /\ task[cur["ui"]].source = "goal"
    BY <1>1, <1>3 DEF ApprovePlan, Sound
  <2>2. Acts("ui") /\ Over("ui") /\ pc'["ui"] = "idle"
    BY <1>1, <1>3, ReturnDoes DEF ApprovePlan
  <2>3. UNCHANGED board \/ Moved(cur["ui"], "Completed")
    BY <1>1, <1>3, <2>1, MoveDoes, StatusType DEF ApprovePlan, board
  <2> QED
    BY <1>3, <2>1, <2>2, <2>3 DEF ApprovePlan
<1>4. CASE RejectPlan
  <2>1. cur["ui"] \in made /\ task[cur["ui"]].source = "goal"
    BY <1>1, <1>4 DEF RejectPlan, Sound
  <2>2. Acts("ui") /\ Over("ui") /\ pc'["ui"] = "idle"
    BY <1>1, <1>4, ReturnDoes DEF RejectPlan
  <2>3. UNCHANGED board \/ Moved(cur["ui"], "Pending")
    BY <1>1, <1>4, <2>1, RetryDoes DEF RejectPlan
  <2> QED
    BY <1>4, <2>1, <2>2, <2>3 DEF RejectPlan
<1> QED
  BY <1>2, <1>3, <1>4

LEMMA DecidePlanDoes ==
  ASSUME IInv, DecidePlan
  PROVE  /\ pc["ui"] = "idle" /\ pc'["ui"] \in {"free", "drop"} /\ Acts("ui")
         /\ UNCHANGED board /\ UNCHANGED <<moves, released>>
         /\ cur'["ui"] \in made /\ task[cur'["ui"]].source = "goal"
<1>1. PICK g \in made :
        /\ task[g].source = "goal"
        /\ cur' = [cur EXCEPT !["ui"] = g]
        /\ todo' = [todo EXCEPT !["ui"] = Children(g)]
        /\ Goto("ui", "free") \/ Goto("ui", "drop")
  BY DEF DecidePlan
<1>2. "ui" \in Proc /\ TypeOK /\ Children(g) \subseteq made
  BY DEF Proc, IInv, Children
<1>3. pc' \in [Proc -> Places] /\ cur' \in [Proc -> made \cup {0}]
      /\ todo' \in [Proc -> SUBSET made]
  BY <1>1, <1>2, TypeParts, PlacesOf DEF LocalsTyped, Goto
<1>4. LocalsTyped'
  BY <1>2, <1>3, TypeParts DEF LocalsTyped, DecidePlan, board
<1> QED
  BY <1>1, <1>2, <1>4 DEF DecidePlan, Acts, Unseen, TypeOK, Goto

\* Calls of the user that keep nothing.
LEMMA UserMoveDoes ==
  ASSUME IInv, ApproveReview \/ RejectReview \/ SetTaskStatus
  PROVE  /\ pc["ui"] = "idle" /\ UNCHANGED local /\ moves' \in 0..MaxMoves
         /\ released \subseteq released' /\ released' \subseteq made
         /\ \/ UNCHANGED board
            \/ \E i \in made, s \in UserMoves \cup {"Completed", "Pending"} :
                 Moved(i, s) /\ (s \in Runnable => i \in released')
<1>1. CASE ApproveReview
  <2>1. PICK i \in made : task[i].status = "Review" /\ MoveTo(i, "Completed")
    BY <1>1 DEF ApproveReview
  <2>2. Accepts(i, "Completed")
    BY <2>1 DEF Accepts, ValidTransition, Successors
  <2>3. Moved(i, "Completed")
    BY <1>1, <2>1, <2>2, MoveDoes, StatusType DEF ApproveReview, IInv
  <2>4. "Completed" \notin Runnable /\ released \subseteq made /\ moves \in 0..MaxMoves
    BY DEF Runnable, IInv, TypeOK
  <2> QED
    BY <1>1, <2>3, <2>4 DEF ApproveReview
<1>2. CASE RejectReview
  <2>1. PICK i \in made : Retry(i) /\ released' = released \cup {i}
    BY <1>2 DEF RejectReview
  <2>2. Moved(i, "Pending") \/ UNCHANGED board
    BY <1>2, <2>1, RetryDoes DEF RejectReview, IInv
  <2> QED
    BY <1>2, <2>1, <2>2 DEF RejectReview, IInv, TypeOK
<1>3. CASE SetTaskStatus
  <2>1. PICK i \in made, s \in UserMoves :
          /\ Accepts(i, s) /\ MoveTo(i, s)
          /\ released' = IF s \in Runnable THEN released \cup {i} ELSE released
    BY <1>3 DEF SetTaskStatus
  <2>2. Moved(i, s)
    BY <1>3, <2>1, MoveDoes, UserMovesAssumption DEF SetTaskStatus, IInv
  <2>3. moves' \in 0..MaxMoves
    BY <1>3, BoundsAssumption DEF SetTaskStatus, IInv, TypeOK
  <2> QED
    BY <1>3, <2>1, <2>2, <2>3 DEF SetTaskStatus, IInv, TypeOK
<1> QED
  BY <1>1, <1>2, <1>3

LEMMA StartRunDoes ==
  ASSUME IInv, NEW r \in Run, StartRun(r)
  PROVE  /\ pc[r] = "idle" /\ pc'[r] = "pick" /\ (Overlap \/ (Idle /\ ~Planning))
         /\ Acts(r) /\ Same(r) /\ UNCHANGED board /\ UNCHANGED <<moves, released>>
<1>1. r \in Proc /\ TypeOK /\ MaxSteps \in 0..MaxSteps
  BY BoundsAssumption DEF Proc, IInv
<1>2. LocalsTyped'
  BY <1>1, TypeParts, PlacesOf DEF LocalsTyped, StartRun, Goto, board
<1> QED
  BY <1>1, <1>2 DEF StartRun, Goto, Acts, Unseen, Same, TypeOK, board

LEMMA Hand ==
  ASSUME IInv, NEW r \in Run
  PROVE  /\ r \in Proc /\ r # "ui" /\ TypeOK /\ Sound(r) /\ copy[r] \in TaskRecord
         /\ pc[r] \in AtHand => /\ cur[r] \in made /\ cur[r] \in Id
                                /\ task[cur[r]] \in TaskRecord
                                /\ Fixed(copy[r], task[cur[r]])
BY RunAssumption DEF Proc, IInv, Sound, TypeOK

LEMMA PickDoes ==
  ASSUME IInv, NEW r \in Run, Pick(r)
  PROVE  /\ pc[r] = "pick" /\ pc'[r] = "attach" /\ Acts(r) /\ UNCHANGED board
         /\ UNCHANGED <<moves, released>>
         /\ cur'[r] \in NextTask /\ copy'[r] = task[cur'[r]]
<1>1. PICK i \in NextTask : /\ cur' = [cur EXCEPT ![r] = i]
                            /\ copy' = [copy EXCEPT ![r] = task[i]]
  BY DEF Pick
<1>2. i \in made /\ task[i] \in TaskRecord /\ r \in Proc /\ TypeOK
  BY Hand DEF NextTask, Ready, TypeOK
<1>3. left[r] - 1 \in 0..MaxSteps
  BY <1>2, BoundsAssumption DEF Pick, TypeOK
<1>4. pc' = [pc EXCEPT ![r] = "attach"] /\ "attach" \in Places
  BY PlacesOf DEF Pick, Goto
<1>5. left' \in [Run -> 0..MaxSteps]
  BY <1>2, <1>3 DEF Pick, TypeOK
<1>6. LocalsTyped'
  BY <1>1, <1>2, <1>4, <1>5, TypeParts DEF LocalsTyped, Pick, board
<1> QED
  BY <1>1, <1>2, <1>4, <1>6 DEF Pick, Acts, Unseen, TypeOK

LEMMA BrokenMade ==
  ASSUME NEW i
  PROVE  Broken(i) \subseteq made /\ (Broken(i) # {} => task[i].parent # 0)
BY DEF Broken, Upstream

LEMMA AttachDoes ==
  ASSUME IInv, NEW r \in Run, Attach(r)
  PROVE  /\ pc[r] = "attach" /\ Acts(r) /\ UNCHANGED board /\ UNCHANGED <<moves, released>>
         /\ cur'[r] = cur[r] /\ copy'[r] = copy[r]
         /\ \/ pc'[r] = "put" /\ Broken(cur[r]) = {}
            \/ pc'[r] = "repair" /\ copy[r].parent # 0
<1> DEFINE broken == Broken(cur[r])
           l == IF broken = {} THEN "put" ELSE "repair"
<1>1. pc[r] = "attach" /\ pc' = [pc EXCEPT ![r] = l] /\ todo' = [todo EXCEPT ![r] = broken]
  BY DEF Attach, Goto
<1>2. broken \subseteq made /\ (broken # {} => task[cur[r]].parent # 0)
  BY BrokenMade
<1>3. l \in Places
  BY PlacesOf
<1>4. copy[r].parent = task[cur[r]].parent
  BY <1>1, Hand DEF AtHand, Work, Fixed
<1> HIDE DEF broken
<1>5. LocalsTyped'
  BY <1>1, <1>2, <1>3, Hand, TypeParts DEF LocalsTyped, Attach, board
<1>6. Acts(r)
  BY <1>1, <1>5, Hand DEF Acts, Unseen, Attach, TypeOK
<1> QED
  BY <1>1, <1>2, <1>4, <1>6, Hand DEF Attach, TypeOK, broken

LEMMA RepairDoes ==
  ASSUME IInv, NEW r \in Run, Repair(r)
  PROVE  /\ pc[r] = "repair" /\ Acts(r) /\ UNCHANGED <<moves, released>>
         /\ cur'[r] = cur[r] /\ copy'[r] = copy[r] /\ copy[r].parent # 0
         /\ \/ UNCHANGED board /\ pc'[r] = "repair"
            \/ /\ pc'[r] = "link"
               /\ \E i, new : /\ Created(i, new) /\ fresh'[r] = i
                              /\ new.source = "handoff" /\ new.parent = copy[r].parent
                              /\ new.status = "Pending" /\ new.result = "none"
                              /\ new.about \in todo[r] /\ todo'[r] = todo[r]
<1>0. /\ pc[r] = "repair" /\ cur[r] \in made /\ cur[r] \in Id /\ TypeOK /\ r \in Proc
      /\ copy[r] \in TaskRecord /\ copy[r].parent # 0
  BY Hand DEF Repair, AtHand, Work, Sound
<1>1. PICK j \in todo[r] :
        IF Repairing(cur[r], j)
        THEN todo' = [todo EXCEPT ![r] = @ \ {j}] /\ UNCHANGED <<made, task, pc, fresh>>
        ELSE /\ \E i \in Id :
                  /\ Submit(i, [NewTask(copy[r].parent, task[j].role, "handoff",
                                        copy[r].rank + 1)
                                EXCEPT !.about = j, !.for = cur[r]])
                  /\ fresh' = [fresh EXCEPT ![r] = i]
             /\ Goto(r, "link") /\ UNCHANGED todo
  BY DEF Repair
<1>2. CASE Repairing(cur[r], j)
  <2>1. LocalsTyped'
    BY <1>0, <1>1, <1>2, TypeParts DEF LocalsTyped, Repair
  <2> QED
    BY <1>0, <1>1, <1>2, <2>1 DEF Acts, Unseen, Repair, TypeOK, board
<1>3. CASE ~Repairing(cur[r], j)
  <2> DEFINE plain == NewTask(copy[r].parent, task[j].role, "handoff", copy[r].rank + 1)
             new == [plain EXCEPT !.about = j, !.for = cur[r]]
  <2>1. PICK i \in Id : Submit(i, new) /\ fresh' = [fresh EXCEPT ![r] = i]
    BY <1>1, <1>3
  <2>2. j \in made /\ j \in Id /\ task[j] \in TaskRecord
    BY <1>0 DEF TypeOK
  <2>3. /\ copy[r].parent \in Id \cup {0} /\ task[j].role \in Role /\ "handoff" \in Source
        /\ copy[r].rank + 1 \in Int
    BY <1>0, <2>2 DEF TaskRecord, Source
  <2>4. /\ plain \in TaskRecord /\ plain.parent = copy[r].parent
        /\ plain.source = "handoff" /\ plain.status = "Pending" /\ plain.result = "none"
    BY <2>3, NewTaskType
  <2> HIDE DEF plain
  <2>5. /\ new \in TaskRecord /\ new.parent = copy[r].parent
        /\ new.source = "handoff" /\ new.status = "Pending" /\ new.result = "none"
        /\ new.about = j
    BY <1>0, <2>2, <2>4 DEF TaskRecord
  <2> HIDE DEF new
  <2>6. Created(i, new)
    BY <1>0, <2>1, <2>5, SubmitDoes DEF Repair
  <2>7. made \subseteq made' /\ i \in made'
    BY <2>6 DEF Created
  <2>8. stages' \in [Proc -> Seq(made')]
    BY <1>0, <2>7, SeqGrows DEF Repair, TypeOK
  <2>9. pc' = [pc EXCEPT ![r] = "link"] /\ "link" \in Places /\ todo' = todo
    BY <1>1, <1>3, PlacesOf DEF Goto
  <2>10. LocalsTyped'
    BY <1>0, <2>1, <2>7, <2>8, <2>9, TypeParts DEF LocalsTyped, Repair
  <2>11. Acts(r)
    BY <1>0, <2>1, <2>9, <2>10 DEF Acts, Unseen, Repair, TypeOK
  <2> QED
    BY <1>0, <2>1, <2>5, <2>6, <2>9, <2>11 DEF Repair, TypeOK
<1> QED
  BY <1>2, <1>3

LEMMA LinkRepairDoes ==
  ASSUME IInv, NEW r \in Run, LinkRepair(r)
  PROVE  /\ pc[r] = "link" /\ pc'[r] = "repair" /\ Acts(r) /\ UNCHANGED <<made, task>>
         /\ UNCHANGED <<moves, released>>
         /\ \E i, j \in made : deps' = deps \cup {<<i, j>>}
         /\ cur'[r] = cur[r] /\ copy'[r] = copy[r] /\ todo'[r] \subseteq todo[r]
<1>1. cur[r] \in made /\ fresh[r] \in made /\ TypeOK /\ r \in Proc /\ pc[r] = "link"
  BY Hand DEF LinkRepair, AtHand, Work, Sound
<1> DEFINE rest == todo[r] \ {task[fresh[r]].about}
<1>2. rest \subseteq made /\ todo' = [todo EXCEPT ![r] = rest] /\ "repair" \in Places
  BY <1>1, PlacesOf DEF LinkRepair, TypeOK
<1>3. rest \subseteq todo[r]
  OBVIOUS
<1> HIDE DEF rest
<1>4. LocalsTyped'
  BY <1>1, <1>2, TypeParts DEF LocalsTyped, LinkRepair, Goto
<1> QED
  BY <1>1, <1>2, <1>3, <1>4 DEF LinkRepair, Goto, Acts, Unseen, TypeOK

LEMMA PutDoes ==
  ASSUME IInv, NEW r \in Run, Put(r) \/ Store(r) \/ StoreBad(r) \/ StoreError(r)
  PROVE  /\ Written(r, copy[r]) /\ Acts(r) /\ Same(r) /\ UNCHANGED <<moves, released>>
         /\ \/ pc[r] = "put" /\ pc'[r] = "start"
            \/ pc[r] = "store_bad" /\ pc'[r] \in {"requeue", "fail"}
            \/ pc[r] = "store_error" /\ pc'[r] = "give_up"
            \/ pc[r] = "store" /\ pc'[r] \in {"settle", "escalate"}
            \/ /\ pc[r] = "store" /\ pc'[r] = "fail_critic" /\ copy[r].result = "reject"
               /\ ~Escalates(copy[r])
<1>1. /\ pc[r] \in {"put", "store", "store_bad", "store_error"}
      /\ PutCopy(r) /\ UNCHANGED <<made, deps>>
      /\ UNCHANGED <<cur, copy, todo, fresh, stages, linked, left>>
  BY DEF Put, Store, StoreBad, StoreError
<1>2. Written(r, copy[r])
  BY <1>1, Hand, WriteDoes DEF PutCopy, AtHand, Work
<1>3. \E l \in {"start", "requeue", "fail", "give_up", "settle", "escalate", "fail_critic"} :
        Goto(r, l) /\ \/ pc[r] = "put" /\ l = "start"
                      \/ pc[r] = "store_bad" /\ l \in {"requeue", "fail"}
                      \/ pc[r] = "store_error" /\ l = "give_up"
                      \/ pc[r] = "store" /\ l \in {"settle", "escalate"}
                      \/ /\ pc[r] = "store" /\ l = "fail_critic"
                         /\ copy[r].result = "reject" /\ ~Escalates(copy[r])
  <2>1. CASE Put(r)
    BY <2>1 DEF Put
  <2>2. CASE StoreBad(r)
    BY <2>2 DEF StoreBad
  <2>3. CASE StoreError(r)
    BY <2>3 DEF StoreError
  <2>4. CASE Store(r)
    BY <2>4 DEF Store
  <2> QED
    BY <2>1, <2>2, <2>3, <2>4
<1> QED
  BY <1>1, <1>2, <1>3, Hand, GotoDoes, PlacesOf DEF Put, Store, StoreBad, StoreError

\* Steps after which the run is done with its task.
LEMMA EndDoes ==
  ASSUME IInv, NEW r \in Run, Finish(r) \/ Conclude(r)
  PROVE  /\ pc[r] \in {"pick", "conclude"} /\ Acts(r) /\ Over(r) /\ UNCHANGED board
         /\ UNCHANGED <<moves, released>>
BY Hand, ReturnDoes DEF Finish, Conclude, board

LEMMA PutBackDoes ==
  ASSUME IInv, NEW r \in Run, PutBack(r) \/ Requeue(r)
  PROVE  /\ pc[r] \in {"repair", "requeue"} /\ Acts(r) /\ Over(r)
         /\ UNCHANGED <<moves, released>>
         /\ \E new : Written(r, new) /\ new.status \in {copy[r].status, "Pending"}
<1>1. pc[r] \in AtHand /\ pc[r] \in {"repair", "requeue"} /\ made' = made /\ deps' = deps
      /\ Again(r)
  BY DEF PutBack, Requeue, AtHand, Work
<1>2. Acts(r) /\ Over(r)
  BY <1>1, Hand, AgainDoes
<1>3. CASE PutBack(r)
  BY <1>1, <1>2, <1>3, Hand, WriteDoes DEF PutBack, PutCopy
<1>4. CASE Requeue(r)
  <2> DEFINE n == copy[r].iter + 1
             new == [copy[r] EXCEPT !.status = "Pending", !.iter = n]
  <2>0. n \in Nat
    BY Hand DEF TaskRecord
  <2>1. task' = [task EXCEPT ![cur[r]] = new]
    BY <1>4 DEF Requeue
  <2> HIDE DEF n
  <2>2. new \in TaskRecord /\ Fixed(new, task[cur[r]]) /\ new.status = "Pending"
    BY <1>1, <2>0, Hand, StatusType DEF TaskRecord, Fixed
  <2> HIDE DEF new
  <2>3. Written(r, new)
    BY <1>1, <2>1, <2>2, Hand, WriteDoes
  <2> QED
    BY <1>1, <1>2, <1>4, <2>2, <2>3 DEF Requeue
<1> QED
  BY <1>3, <1>4

LEMMA SettleDoes ==
  ASSUME IInv, NEW r \in Run, Fail(r) \/ GiveUp(r) \/ Settle(r) \/ Escalate(r)
  PROVE  /\ Acts(r) /\ Over(r) /\ UNCHANGED <<moves, released>>
         /\ \/ UNCHANGED board /\ pc[r] \in {"fail", "give_up", "settle", "escalate"}
            \/ pc[r] \in {"fail", "give_up"} /\ Moved(cur[r], "Failed")
            \/ /\ pc[r] \in {"settle", "escalate"}
               /\ \E s \in {"Review", "Completed"} : Moved(cur[r], s)
<1>1. \E s \in {"Failed", "Review", "Completed"} :
        /\ s = "Failed" => pc[r] \in {"fail", "give_up"}
        /\ s # "Failed" => pc[r] \in {"settle", "escalate"}
        /\ (Accepts(cur[r], s) /\ MoveTo(cur[r], s)) \/ UNCHANGED task
        /\ Again(r) \/ Return(r)
  <2>1. CASE Fail(r)
    BY <2>1 DEF Fail, SetAndEnd, SetStatus
  <2>2. CASE GiveUp(r)
    BY <2>2 DEF GiveUp
  <2>3. CASE Escalate(r)
    BY <2>3 DEF Escalate
  <2>4. CASE Settle(r)
    BY <2>4 DEF Settle, SetAndEnd, SetStatus
  <2> QED
    BY <2>1, <2>2, <2>3, <2>4
<1>2. made' = made /\ deps' = deps /\ UNCHANGED <<moves, released>>
  BY DEF Fail, GiveUp, Settle, Escalate
<1>3. pc[r] \in AtHand
  BY <1>1 DEF AtHand, Work
<1>4. Acts(r) /\ Over(r)
  BY <1>1, <1>2, Hand, ReturnDoes, AgainDoes
<1> QED
  BY <1>1, <1>2, <1>3, <1>4, Hand, MoveDoes, StatusType DEF board

LEMMA SetAndGoDoes ==
  ASSUME IInv, NEW r \in Run, Start(r) \/ FailCritic(r)
  PROVE  /\ Acts(r) /\ pc[r] \in {"start", "fail_critic"} /\ UNCHANGED <<moves, released>>
         /\ \/ UNCHANGED board /\ Over(r)
            \/ /\ cur'[r] = cur[r] /\ Fixed(copy'[r], task[cur[r]])
               /\ \/ pc[r] = "start" /\ pc'[r] = "execute" /\ Moved(cur[r], "InProgress")
                     /\ copy'[r].status = "InProgress"
                  \/ pc[r] = "fail_critic" /\ pc'[r] = "remedy" /\ Moved(cur[r], "Failed")
<1>1. PICK s \in {"InProgress", "Failed"}, l \in {"execute", "remedy"} :
        /\ SetAndGo(r, s, l)
        /\ \/ pc[r] = "start" /\ s = "InProgress" /\ l = "execute"
           \/ pc[r] = "fail_critic" /\ s = "Failed" /\ l = "remedy"
  BY DEF Start, FailCritic
<1>2. /\ made' = made /\ deps' = deps /\ UNCHANGED <<moves, released>>
      /\ pc[r] \in AtHand /\ pc[r] \in {"start", "fail_critic"}
  BY DEF Start, FailCritic, AtHand, Work
<1>3. /\ r \in Proc /\ TypeOK /\ cur[r] \in made /\ task[cur[r]] \in TaskRecord
      /\ s \in Status /\ l \in Places
  BY <1>2, Hand, StatusType, PlacesOf
<1>4. CASE Accepts(cur[r], s)
  <2> DEFINE new == [task[cur[r]] EXCEPT !.status = s]
  <2>1. new \in TaskRecord /\ Fixed(new, task[cur[r]]) /\ new.status = s
    BY <1>3 DEF TaskRecord, Fixed
  <2>2. /\ copy' = [copy EXCEPT ![r] = new] /\ pc' = [pc EXCEPT ![r] = l]
        /\ MoveTo(cur[r], s) /\ UNCHANGED <<cur, todo, fresh, stages, linked, left>>
    BY <1>1, <1>4 DEF SetAndGo, SetStatus, Goto
  <2> HIDE DEF new
  <2>3. Moved(cur[r], s)
    BY <1>2, <1>3, <1>4, <2>2, MoveDoes
  <2>4. LocalsTyped'
    BY <1>2, <1>3, <2>1, <2>2, TypeParts DEF LocalsTyped
  <2>5. Acts(r)
    BY <1>3, <2>2, <2>4 DEF Acts, Unseen, TypeOK
  <2> QED
    BY <1>1, <1>2, <1>3, <2>1, <2>2, <2>3, <2>5 DEF TypeOK
<1>5. CASE ~Accepts(cur[r], s)
  <2>1. Return(r) /\ UNCHANGED board
    BY <1>1, <1>2, <1>5 DEF SetAndGo, SetStatus, board
  <2> QED
    BY <1>2, <1>3, <2>1, ReturnDoes
<1> QED
  BY <1>4, <1>5

LEMMA ExecuteDoes ==
  ASSUME IInv, NEW r \in Run, Execute(r)
  PROVE  /\ Acts(r) /\ pc[r] = "execute" /\ UNCHANGED board /\ UNCHANGED <<moves, released>>
         /\ cur'[r] = cur[r] /\ Fixed(copy'[r], copy[r]) /\ copy'[r].status = copy[r].status
         /\ \/ pc'[r] \in {"store_bad", "store_error"} /\ copy'[r].result = "bad"
            \/ /\ pc'[r] = "store"
               /\ copy'[r].result = "reject" => task[cur[r]].role = "critic"
<1>1. PICK o \in Outcome, l \in {"store", "store_bad", "store_error"} :
        /\ copy' = [copy EXCEPT ![r].result = o] /\ Goto(r, l)
        /\ \/ l # "store" /\ o = "bad"
           \/ l = "store" /\ (o = "reject" => task[cur[r]].role = "critic")
  BY DEF Execute, Results, Outcome
<1>2. /\ r \in Proc /\ TypeOK /\ copy[r] \in TaskRecord /\ l \in Places
      /\ pc[r] = "execute"
  BY Hand, PlacesOf DEF Execute
<1> DEFINE new == [copy[r] EXCEPT !.result = o]
<1>3. /\ new \in TaskRecord /\ Fixed(new, copy[r]) /\ new.status = copy[r].status
      /\ new.result = o
  BY <1>2 DEF TaskRecord, Fixed
<1>4. copy' = [copy EXCEPT ![r] = new]
  BY <1>1, <1>2 DEF TypeOK
<1> HIDE DEF new
<1>5. LocalsTyped'
  BY <1>1, <1>2, <1>3, <1>4, TypeParts DEF LocalsTyped, Execute, Goto, board
<1>6. Acts(r)
  BY <1>1, <1>2, <1>4, <1>5 DEF Acts, Unseen, Execute, Goto, TypeOK
<1> QED
  BY <1>1, <1>2, <1>3, <1>4, <1>6 DEF Execute, Goto, TypeOK

LEMMA RemedyDoes ==
  ASSUME IInv, NEW r \in Run, Remedy(r)
  PROVE  /\ Acts(r) /\ pc[r] = "remedy" /\ pc'[r] = "begin" /\ UNCHANGED <<moves, released>>
         /\ cur'[r] = cur[r] /\ copy'[r] = copy[r] /\ stages'[r] = <<>>
         /\ \E i, new : /\ Created(i, new) /\ fresh'[r] = i
                        /\ new.source = "rejection" /\ new.about = cur[r]
                        /\ new.parent = copy[r].parent /\ new.role = "architect"
                        /\ new.status = "Pending" /\ new.result = "none"
<1>1. /\ pc[r] = "remedy" /\ cur[r] \in made /\ cur[r] \in Id /\ TypeOK /\ r \in Proc
      /\ copy[r] \in TaskRecord
  BY Hand DEF Remedy, AtHand
<1> DEFINE rank == copy[r].rank + 1
           plain == NewTask(copy[r].parent, "architect", "rejection", rank)
           new == [plain EXCEPT !.about = cur[r]]
<1>2. PICK i \in Id : Submit(i, new) /\ fresh' = [fresh EXCEPT ![r] = i]
  BY DEF Remedy
<1>3. /\ copy[r].parent \in Id \cup {0} /\ "architect" \in Role /\ "rejection" \in Source
      /\ rank \in Int
  BY <1>1 DEF TaskRecord, Role, Source
<1> HIDE DEF rank
<1>4. /\ plain \in TaskRecord /\ plain.parent = copy[r].parent /\ plain.role = "architect"
      /\ plain.source = "rejection" /\ plain.status = "Pending" /\ plain.result = "none"
  BY <1>3, NewTaskType
<1> HIDE DEF plain
<1>5. /\ new \in TaskRecord /\ new.parent = copy[r].parent /\ new.about = cur[r]
      /\ new.role = "architect"
      /\ new.source = "rejection" /\ new.status = "Pending" /\ new.result = "none"
  BY <1>1, <1>4 DEF TaskRecord
<1> HIDE DEF new
<1>6. Created(i, new)
  BY <1>1, <1>2, <1>5, SubmitDoes DEF Remedy
<1>7. made \subseteq made' /\ i \in made' /\ <<>> \in Seq(made')
  BY <1>6 DEF Created
<1>8. /\ stages' = [stages EXCEPT ![r] = <<>>] /\ linked' = [linked EXCEPT ![r] = 0]
      /\ pc' = [pc EXCEPT ![r] = "begin"] /\ "begin" \in Places
      /\ UNCHANGED <<deps, cur, copy, todo, left, moves, released>>
  BY PlacesOf DEF Remedy, Goto
<1>9. stages' \in [Proc -> Seq(made')]
  BY <1>1, <1>7, <1>8, SeqGrows DEF TypeOK
<1>10. LocalsTyped'
  BY <1>1, <1>2, <1>7, <1>8, <1>9, TypeParts DEF LocalsTyped
<1>11. Acts(r)
  BY <1>1, <1>2, <1>8, <1>10 DEF Acts, Unseen, TypeOK
<1> QED
  BY <1>1, <1>2, <1>5, <1>6, <1>8, <1>11 DEF TypeOK

-----------------------------------------------------------------------------
(* Type correctness.                                                       *)

LEMMA CreatedLineage ==
  ASSUME TypeOK, Lineage, NEW i, NEW new, Created(i, new), new.parent \in made \cup {0},
         new.source = "stage" \/ new.role = "critic" => new.parent # 0
  PROVE  Lineage'
<1>1. \A j \in made : task'[j] = task[j]
  BY DEF Created, TypeOK
<1> QED
  BY <1>1 DEF Lineage, Created

\* Only the command at hand has to be looked at.
LEMMA SoundFrame ==
  ASSUME IInv, NEW p \in Proc, Acts(p), Grows, Lineage', Sound(p)',
         moves' \in 0..MaxMoves, released' \subseteq made'
  PROVE  IInv'
<1>1. TypeOK'
  BY TypeParts DEF Acts, Grows, TypeOK, BoardTyped, LocalsTyped, Places, UiPlaces,
     RunPlaces, AtHand, Work, Remedying
<1>2. ASSUME NEW q \in Proc \ {p} PROVE Sound(q)'
  BY <1>2 DEF IInv, Sound, Acts, Unseen, Grows, Fixed
<1> QED
  BY <1>1, <1>2 DEF IInv

LEMMA IInvUser ==
  ASSUME IInv, UserActs PROVE IInv'
<1> USE DEF IInv
<1>0. "ui" \in Proc /\ "ui" \notin Run
  BY RunAssumption DEF Proc
<1>1. CASE SubmitGoal
  <2>1. PICK i, new : /\ Created(i, new) /\ fresh'["ui"] = i /\ new.source = "goal"
                      /\ new.parent = 0 /\ new.role = "architect"
    BY <1>1, SubmitGoalDoes
  <2>2. Grows /\ Lineage'
    BY <2>1, BoardGrows, CreatedLineage
  <2>3. /\ pc["ui"] = "idle" /\ pc'["ui"] = "begin" /\ stages'["ui"] = stages["ui"]
        /\ Acts("ui") /\ UNCHANGED <<moves, released>>
    BY <1>1, SubmitGoalDoes
  <2>4. Sound("ui")'
    BY <1>0, <2>1, <2>3 DEF Sound, Created, UiPlaces
  <2> QED
    BY <1>0, <2>2, <2>3, <2>4, SoundFrame DEF TypeOK, Grows
<1>2. CASE DecidePlan
  <2>1. /\ pc["ui"] = "idle" /\ pc'["ui"] \in {"free", "drop"} /\ Acts("ui")
        /\ UNCHANGED board /\ UNCHANGED <<moves, released>>
        /\ cur'["ui"] \in made /\ task[cur'["ui"]].source = "goal"
    BY <1>2, DecidePlanDoes
  <2>2. Grows /\ Lineage'
    BY <2>1, BoardGrows, GrowsLineage DEF board
  <2>3. Sound("ui")'
    BY <1>0, <2>1 DEF Sound, UiPlaces, board
  <2> QED
    BY <1>0, <2>1, <2>2, <2>3, SoundFrame DEF TypeOK, board
<1>3. CASE ApproveReview \/ RejectReview \/ SetTaskStatus
  <2>1. /\ UNCHANGED local /\ moves' \in 0..MaxMoves /\ released' \subseteq made
        /\ UNCHANGED board \/ \E i, s : Moved(i, s)
    BY <1>3, UserMoveDoes
  <2>2. Grows /\ made' = made
    BY <2>1, BoardGrows DEF board, Moved
  <2>3. Lineage'
    BY <2>2, GrowsLineage
  <2>4. TypeOK'
    BY <2>1, <2>2, TypeParts DEF local, LocalsTyped, Grows, BoardTyped, TypeOK
  <2>5. \A p \in Proc : Sound(p)'
    BY <2>1, <2>2 DEF local, Sound, Grows, Fixed
  <2> QED
    BY <2>3, <2>4, <2>5
<1> QED
  BY <1>1, <1>2, <1>3 DEF UserActs

LEMMA IInvOrchestrate ==
  ASSUME IInv, NEW p \in Proc, Orchestrate(p) PROVE IInv'
<1> USE DEF IInv
<1>1. /\ Acts(p) /\ UNCHANGED <<moves, released>> /\ Grows /\ Lineage'
  <2>1. CASE BeginPlan(p)
    <3>1. Acts(p) /\ UNCHANGED <<moves, released>> /\ Grows /\ made' = made
      BY <2>1, BeginPlanDoes, BoardGrows DEF Moved, board
    <3> QED
      BY <3>1, GrowsLineage
  <2>2. CASE SubmitStage(p)
    <3>1. PICK i, new : /\ Created(i, new) /\ new.source = "stage" /\ new.parent = fresh[p]
                        /\ fresh[p] \in made
      BY <2>2, SubmitStageDoes
    <3>2. Lineage'
      BY <3>1, CreatedLineage, IdAssumption DEF TypeOK
    <3> QED
      BY <2>2, <3>1, <3>2, SubmitStageDoes, BoardGrows
  <2>3. CASE StagesSubmitted(p) \/ LinkStage(p) \/ StagesLinked(p)
    <3>1. Acts(p) /\ UNCHANGED <<moves, released>> /\ Grows /\ made' = made
      BY <2>3, StagesSubmittedDoes, LinkStageDoes, StagesLinkedDoes, BoardGrows DEF board
    <3> QED
      BY <3>1, GrowsLineage
  <2> QED
    BY <2>1, <2>2, <2>3 DEF Orchestrate
<1>2. Sound(p)'
  <2>1. CASE BeginPlan(p)
    <3>1. CASE Over(p) /\ pc'[p] = "idle"
      BY <3>1 DEF Over, Sound, UiPlaces, RunPlaces, AtHand, Work, Remedying
    <3>2. CASE Same(p) /\ pc'[p] = "stages"
      BY <1>1, <2>1, <3>2, BeginPlanDoes
         DEF Same, Grows, Fixed, Sound, UiPlaces, RunPlaces, AtHand, Work, Remedying
    <3> QED
      BY <2>1, <3>1, <3>2, BeginPlanDoes
  <2>2. CASE SubmitStage(p)
    <3>1. /\ pc[p] = "stages" /\ fresh[p] \in made /\ pc'[p] = pc[p] /\ cur'[p] = cur[p]
          /\ copy'[p] = copy[p] /\ fresh'[p] = fresh[p] /\ linked'[p] = 1
      BY <2>2, SubmitStageDoes
    <3> QED
      BY <1>1, <3>1 DEF Grows, Fixed, Sound, UiPlaces, RunPlaces, AtHand, Work, Remedying
  <2>3. CASE StagesSubmitted(p)
    BY <1>1, <2>3, StagesSubmittedDoes
       DEF Same, Grows, Fixed, Sound, UiPlaces, RunPlaces, AtHand, Work, Remedying
  <2>4. CASE LinkStage(p)
    BY <1>1, <2>4, LinkStageDoes
       DEF Grows, Fixed, Sound, UiPlaces, RunPlaces, AtHand, Work, Remedying
  <2>5. CASE StagesLinked(p)
    BY <1>1, <2>5, StagesLinkedDoes
       DEF Grows, Fixed, Sound, UiPlaces, RunPlaces, AtHand, Work, Remedying
  <2> QED
    BY <2>1, <2>2, <2>3, <2>4, <2>5 DEF Orchestrate
<1> QED
  BY <1>1, <1>2, SoundFrame DEF TypeOK, Grows

LEMMA IInvUi ==
  ASSUME IInv, Hold \/ Offer \/ Free \/ ApprovePlan \/ Drop \/ RejectPlan PROVE IInv'
<1> USE DEF IInv
<1>0. "ui" \in Proc /\ "ui" \notin Run
  BY RunAssumption DEF Proc
<1>1. /\ Acts("ui") /\ moves' = moves
      /\ UNCHANGED board \/ \E i, s : Moved(i, s)
      /\ released' \subseteq made'
      /\ \/ Over("ui") /\ pc'["ui"] = "idle"
         \/ /\ pc["ui"] = "hold" /\ pc'["ui"] = "hold" /\ fresh'["ui"] = fresh["ui"]
         \/ /\ pc["ui"] \in {"free", "drop"} /\ pc'["ui"] = pc["ui"] /\ cur'["ui"] = cur["ui"]
  <2>1. CASE Hold
    BY <2>1, HoldDoes DEF TypeOK, board, Moved
  <2>2. CASE Offer \/ ApprovePlan \/ RejectPlan
    BY <2>2, OfferDoes DEF TypeOK, board, Moved
  <2>3. CASE Free \/ Drop
    BY <2>3, FreeDoes DEF TypeOK, board, Moved
  <2> QED
    BY <2>1, <2>2, <2>3
<1>2. Grows /\ Lineage'
  BY <1>1, BoardGrows, GrowsLineage DEF board, Moved
<1>3. Sound("ui")'
  BY <1>0, <1>1, <1>2 DEF Over, Grows, Fixed, Sound, UiPlaces
<1> QED
  BY <1>0, <1>1, <1>2, <1>3, SoundFrame DEF TypeOK

LEMMA IInvRun ==
  ASSUME IInv, NEW r \in Run, StartRun(r) \/ RunStep(r) PROVE IInv'
<1> USE DEF IInv
<1>0. r \in Proc /\ r # "ui" /\ Sound(r)
  BY RunAssumption DEF Proc
<1>1. ASSUME Acts(r), UNCHANGED <<moves, released>>, Grows, Lineage', Sound(r)' PROVE IInv'
  BY <1>0, <1>1, SoundFrame DEF TypeOK, Grows
<1> USE DEF RunPlaces, AtHand, Work, Remedying
<1>2. ASSUME Over(r) PROVE Sound(r)'
  BY <1>0, <1>2 DEF Over, Sound
<1>3. CASE StartRun(r) \/ Pick(r) \/ Attach(r) \/ Execute(r) \/ LinkRepair(r)
  <2>1. /\ Acts(r) /\ UNCHANGED <<moves, released>> /\ UNCHANGED <<made, task>>
        /\ UNCHANGED board \/ \E i, j \in made : deps' = deps \cup {<<i, j>>}
    BY <1>3, StartRunDoes, PickDoes, AttachDoes, ExecuteDoes, LinkRepairDoes DEF board
  <2>2. Grows /\ Lineage'
    BY <2>1, BoardGrows, GrowsLineage
  <2>3. Sound(r)'
    <3>1. CASE StartRun(r)
      BY <1>0, <3>1, StartRunDoes DEF Same, Sound
    <3>2. CASE Pick(r)
      <4>1. cur'[r] \in made
        BY <3>2, PickDoes DEF NextTask, Ready
      <4> QED
        BY <1>0, <2>1, <3>2, <4>1, PickDoes DEF Sound, Fixed
    <3>3. CASE Attach(r)
      BY <1>0, <2>1, <3>3, AttachDoes DEF Sound, board
    <3>4. CASE Execute(r)
      BY <1>0, <2>1, <3>4, ExecuteDoes DEF Sound, Fixed
    <3>5. CASE LinkRepair(r)
      BY <1>0, <2>1, <3>5, LinkRepairDoes DEF Sound
    <3> QED
      BY <1>3, <3>1, <3>2, <3>3, <3>4, <3>5
  <2> QED
    BY <1>1, <2>1, <2>2, <2>3
<1>4. CASE Finish(r) \/ Conclude(r) \/ PutBack(r) \/ Requeue(r) \/ Fail(r) \/ GiveUp(r)
           \/ Settle(r) \/ Escalate(r)
  <2>1. /\ Acts(r) /\ UNCHANGED <<moves, released>> /\ Over(r)
        /\ \/ UNCHANGED board \/ (\E i, s : Moved(i, s))
           \/ (\E q, new : Written(q, new))
    BY <1>4, EndDoes, PutBackDoes, SettleDoes
  <2>2. Grows /\ made' = made
    BY <2>1, BoardGrows DEF board, Moved, Written
  <2> QED
    BY <1>1, <1>2, <2>1, <2>2, GrowsLineage
<1>5. CASE Put(r) \/ Store(r) \/ StoreBad(r) \/ StoreError(r)
  <2>1. /\ Acts(r) /\ UNCHANGED <<moves, released>> /\ Written(r, copy[r]) /\ Same(r)
        /\ pc[r] \in {"put", "store", "store_bad", "store_error"}
        /\ pc'[r] \in {"start", "requeue", "fail", "give_up", "settle", "escalate",
                       "fail_critic"}
    BY <1>5, PutDoes
  <2>2. Grows /\ Lineage'
    BY <2>1, BoardGrows, GrowsLineage DEF Written
  <2>3. Sound(r)'
    BY <1>0, <2>1, <2>2 DEF Same, Grows, Fixed, Sound
  <2> QED
    BY <1>1, <2>1, <2>2, <2>3
<1>6. CASE Start(r) \/ FailCritic(r)
  <2>1. /\ Acts(r) /\ UNCHANGED <<moves, released>>
        /\ UNCHANGED board \/ (\E i, s : Moved(i, s))
        /\ \/ Over(r)
           \/ /\ pc[r] \in {"start", "fail_critic"} /\ pc'[r] \in {"execute", "remedy"}
              /\ cur'[r] = cur[r] /\ Fixed(copy'[r], task[cur[r]])
    BY <1>6, SetAndGoDoes
  <2>2. Grows /\ Lineage'
    BY <2>1, BoardGrows, GrowsLineage DEF board, Moved
  <2>3. Sound(r)'
    BY <1>0, <1>2, <2>1, <2>2 DEF Grows, Fixed, Sound
  <2> QED
    BY <1>1, <2>1, <2>2, <2>3
<1>7. CASE Repair(r)
  <2>1. CASE UNCHANGED board
    <3>1. Grows /\ Lineage'
      BY <2>1, BoardGrows, GrowsLineage DEF board
    <3>2. Sound(r)'
      <4>1. /\ pc[r] = "repair" /\ cur'[r] = cur[r] /\ copy'[r] = copy[r]
            /\ copy[r].parent # 0 /\ made' = made /\ task' = task
        BY <1>7, <2>1, RepairDoes DEF board
      <4>2. pc'[r] = "repair"
        BY <1>7, <2>1, RepairDoes DEF board, Created
      <4> QED
        BY <1>0, <4>1, <4>2 DEF Sound
    <3> QED
      BY <1>1, <1>7, <3>1, <3>2, RepairDoes
  <2>2. CASE ~UNCHANGED board
    <3>1. PICK i, new : /\ Created(i, new) /\ fresh'[r] = i /\ new.source = "handoff"
                        /\ new.parent = copy[r].parent
      BY <1>7, <2>2, RepairDoes
    <3>2. /\ pc[r] = "repair" /\ pc'[r] = "link" /\ cur'[r] = cur[r] /\ copy'[r] = copy[r]
          /\ copy[r].parent # 0
      BY <1>7, <2>2, RepairDoes
    <3>3. copy[r].parent \in made \cup {0}
      BY <1>0, <3>2 DEF Sound, Fixed, Lineage
    <3>4. Grows /\ Lineage'
      BY <3>1, <3>2, <3>3, BoardGrows, CreatedLineage
    <3>5. Sound(r)'
      BY <1>0, <3>1, <3>2, <3>4 DEF Sound, Grows, Fixed, Created
    <3> QED
      BY <1>1, <1>7, <3>4, <3>5, RepairDoes
  <2> QED
    BY <2>1, <2>2
<1>8. CASE Remedy(r)
  <2>1. PICK i, new : /\ Created(i, new) /\ fresh'[r] = i /\ new.source = "rejection"
                      /\ new.parent = copy[r].parent /\ new.role = "architect"
    BY <1>8, RemedyDoes
  <2>2. /\ pc[r] = "remedy" /\ pc'[r] = "begin" /\ cur'[r] = cur[r] /\ copy'[r] = copy[r]
        /\ stages'[r] = <<>>
    BY <1>8, RemedyDoes
  <2>3. copy[r].parent \in made \cup {0}
    BY <1>0, <2>2 DEF Sound, Fixed, Lineage
  <2>4. Grows /\ Lineage'
    BY <2>1, <2>3, BoardGrows, CreatedLineage
  <2>5. Sound(r)'
    BY <1>0, <2>1, <2>2, <2>4 DEF Sound, Grows, Fixed, Created
  <2> QED
    BY <1>1, <1>8, <2>4, <2>5, RemedyDoes
<1>9. CASE Orchestrate(r)
  BY <1>0, <1>9, IInvOrchestrate
<1> QED
  BY <1>3, <1>4, <1>5, <1>6, <1>7, <1>8, <1>9 DEF RunStep

LEMMA InitIInv == Init => IInv
<1> SUFFICES ASSUME Init PROVE IInv
  OBVIOUS
<1>1. TypeOK
  BY UnmadeType, BoundsAssumption DEF Init, TypeOK
<1>2. Lineage
  BY DEF Init, Lineage
<1>3. \A p \in Proc : Sound(p)
  BY DEF Init, Sound, UiPlaces, RunPlaces, AtHand, Work, Remedying
<1> QED
  BY <1>1, <1>2, <1>3 DEF IInv

LEMMA NextIInv == IInv /\ [Next]_vars => IInv'
<1> SUFFICES ASSUME IInv, [Next]_vars PROVE IInv'
  OBVIOUS
<1>1. CASE UNCHANGED vars
  BY <1>1 DEF vars, board, local, IInv, TypeOK, Lineage, Sound
<1>2. CASE Next
  BY <1>2, IInvUser, IInvUi, IInvOrchestrate, IInvRun DEF Next, UiStep, Proc
<1> QED
  BY <1>1, <1>2

(* What the commands keep to themselves and what the board says are of     *)
(* their types, whichever commands overlap; a run that has a task at hand  *)
(* has one that exists, and its copy says of where the task comes from     *)
(* what the board says.                                                    *)
THEOREM TypeCorrect == Spec => []TypeOK
<1>1. IInv => TypeOK
  BY DEF IInv
<1> QED
  BY <1>1, InitIInv, NextIInv, PTL DEF Spec

-----------------------------------------------------------------------------
(* One command at a time: no goal is planned while a run is at work, and   *)
(* no two runs are.                                                        *)

Alone ==
  /\ \A r, s \in Run : pc[r] # "idle" /\ pc[s] # "idle" => r = s
  /\ Planning => Idle

AInv == IInv /\ Alone

LEMMA RunStepActs ==
  ASSUME IInv, NEW r \in Run, RunStep(r)
  PROVE  /\ Acts(r) /\ pc[r] # "idle" /\ UNCHANGED <<moves, released>>
<1>1. CASE Orchestrate(r)
  BY <1>1, BeginPlanDoes, SubmitStageDoes, StagesSubmittedDoes, LinkStageDoes,
     StagesLinkedDoes DEF Orchestrate, Proc
<1>2. CASE Pick(r) \/ Finish(r) \/ Attach(r) \/ Repair(r) \/ LinkRepair(r) \/ PutBack(r)
  BY <1>2, PickDoes, EndDoes, AttachDoes, RepairDoes, LinkRepairDoes, PutBackDoes
<1>3. CASE \/ Put(r) \/ Start(r) \/ Execute(r) \/ StoreError(r) \/ GiveUp(r) \/ StoreBad(r)
           \/ Requeue(r) \/ Fail(r) \/ Store(r)
  BY <1>3, PutDoes, SetAndGoDoes, ExecuteDoes, SettleDoes, PutBackDoes
<1>4. CASE Settle(r) \/ Escalate(r) \/ FailCritic(r) \/ Remedy(r) \/ Conclude(r)
  BY <1>4, SettleDoes, SetAndGoDoes, RemedyDoes, EndDoes
<1> QED
  BY <1>1, <1>2, <1>3, <1>4 DEF RunStep

\* A command of the user writes no task in any other way than by moving it.
UiEffect ==
  \/ UNCHANGED board
  \/ \E i, s : Moved(i, s) /\ s \in UserMoves \cup {"InProgress", "Backlog", "Review",
                                                    "Pending", "Completed", "Cancelled"}

UiStays == \A r \in Run : pc'[r] = pc[r] /\ cur'[r] = cur[r] /\ copy'[r] = copy[r]

LEMMA ActsStays == ASSUME Acts("ui") PROVE UiStays
BY RunAssumption DEF Acts, Unseen, UiStays, Proc

\* While the user is not having a goal planned.
LEMMA UiQuiet ==
  ASSUME IInv, UserActs \/ UiStep, ~Planning, ~SubmitGoal
  PROVE  UiEffect /\ UiStays /\ ~Planning'
<1>1. CASE DecidePlan
  BY <1>1, DecidePlanDoes, ActsStays DEF UiEffect, Planning
<1>2. CASE ApproveReview \/ RejectReview \/ SetTaskStatus
  BY <1>2, UserMoveDoes DEF UiEffect, UiStays, Planning, local
<1>3. CASE Free \/ Drop
  BY <1>3, FreeDoes, ActsStays DEF UiEffect, Planning
<1>4. CASE Offer \/ ApprovePlan \/ RejectPlan
  BY <1>4, OfferDoes, ActsStays DEF UiEffect, Planning
<1>5. CASE Orchestrate("ui") \/ Hold
  BY <1>5 DEF Orchestrate, BeginPlan, SubmitStage, StagesSubmitted, LinkStage,
     StagesLinked, Hold, Planning
<1> QED
  BY <1>1, <1>2, <1>3, <1>4, <1>5 DEF UserActs, UiStep

\* A goal is planned.
LEMMA UiPlans ==
  ASSUME IInv, UserActs \/ UiStep, Planning
  PROVE  UiStays
<1>1. Orchestrate("ui") \/ Hold \/ Offer
  BY DEF Planning, UserActs, UiStep, SubmitGoal, DecidePlan, ApproveReview, RejectReview,
     SetTaskStatus, Free, ApprovePlan, Drop, RejectPlan
<1>2. Acts("ui")
  BY <1>1, BeginPlanDoes, SubmitStageDoes, StagesSubmittedDoes, LinkStageDoes,
     StagesLinkedDoes, HoldDoes, OfferDoes DEF Orchestrate, Proc
<1> QED
  BY <1>2, ActsStays

LEMMA NextAlone ==
  ASSUME ~Overlap, AInv, [Next]_vars PROVE AInv'
<1>0. IInv /\ Alone
  BY DEF AInv
<1>1. IInv'
  BY <1>0, NextIInv
<1>2. Alone'
  <2>1. CASE UNCHANGED vars
    BY <1>0, <2>1 DEF vars, local, Alone, Planning, Idle
  <2>2. CASE SubmitGoal
    <3>1. UiStays /\ Idle
      BY <1>0, <2>2, SubmitGoalDoes, ActsStays
    <3> QED
      BY <1>0, <3>1 DEF UiStays, Alone, Idle
  <2>3. CASE (UserActs \/ UiStep) /\ ~SubmitGoal
    <3>1. UiStays /\ (Planning' => Planning)
      BY <1>0, <2>3, UiQuiet, UiPlans
    <3> QED
      BY <1>0, <3>1 DEF UiStays, Alone, Idle
  <2>4. ASSUME NEW r \in Run, RunStep(r) \/ StartRun(r) PROVE Alone'
    <3>1. Acts(r) /\ (pc[r] # "idle" \/ (Idle /\ ~Planning))
      <4>1. CASE RunStep(r)
        BY <1>0, <4>1, RunStepActs
      <4>2. CASE StartRun(r)
        BY <1>0, <4>2, StartRunDoes
      <4> QED
        BY <2>4, <4>1, <4>2
    <3>2. /\ pc'["ui"] = pc["ui"] /\ \A q \in Run \ {r} : pc'[q] = pc[q]
      BY <3>1, RunAssumption DEF Acts, Unseen, Proc
    <3> QED
      BY <1>0, <3>1, <3>2 DEF Alone, Idle, Planning
  <2> QED
    BY <2>1, <2>2, <2>3, <2>4 DEF Next
<1> QED
  BY <1>1, <1>2 DEF AInv

LEMMA InitAlone == Init => AInv
<1>1. Init => Alone
  BY DEF Init, Alone, Planning, Proc
<1> QED
  BY <1>1, InitIInv DEF AInv

\* What a step of a run does to the board.
RunEffect(r) ==
  \/ UNCHANGED <<made, task>> /\ (deps' = deps \/ \E i, j \in made : deps' = deps \cup {<<i, j>>})
  \/ \E i, s : Moved(i, s) /\ (i = cur[r] \/ s = "InProgress")
  \/ \E new : Written(r, new)
  \/ \E i, new : /\ Created(i, new) /\ new.status = "Pending" /\ new.result = "none"
                 /\ new.source # "stage" \/ (pc[r] = "stages" /\ new.parent = fresh[r])

LEMMA RunDoes ==
  ASSUME IInv, NEW r \in Run, RunStep(r)
  PROVE  RunEffect(r)
<1>0. r \in Proc
  BY DEF Proc
<1>1. CASE BeginPlan(r) \/ StagesSubmitted(r) \/ LinkStage(r) \/ StagesLinked(r)
  BY <1>0, <1>1, BeginPlanDoes, StagesSubmittedDoes, LinkStageDoes, StagesLinkedDoes
     DEF RunEffect, board
<1>2. CASE SubmitStage(r)
  BY <1>0, <1>2, SubmitStageDoes DEF RunEffect
<1>3. CASE Pick(r) \/ Finish(r) \/ Attach(r) \/ LinkRepair(r) \/ PutBack(r)
  BY <1>3, PickDoes, EndDoes, AttachDoes, LinkRepairDoes, PutBackDoes DEF RunEffect, board
<1>4. CASE \/ Put(r) \/ Start(r) \/ Execute(r) \/ StoreError(r) \/ GiveUp(r) \/ StoreBad(r)
           \/ Requeue(r) \/ Fail(r) \/ Store(r)
  BY <1>4, PutDoes, SetAndGoDoes, ExecuteDoes, SettleDoes, PutBackDoes DEF RunEffect, board
<1>5. CASE Settle(r) \/ Escalate(r) \/ FailCritic(r) \/ Conclude(r)
  BY <1>5, SettleDoes, SetAndGoDoes, EndDoes DEF RunEffect, board
<1>6. CASE Repair(r)
  <2>1. CASE UNCHANGED board
    BY <2>1 DEF RunEffect, board
  <2>2. CASE ~UNCHANGED board
    <3>1. PICK i, new : /\ Created(i, new) /\ new.source = "handoff"
                        /\ new.status = "Pending" /\ new.result = "none"
      BY <1>6, <2>2, RepairDoes
    <3>2. new.source # "stage"
      BY <3>1
    <3> QED
      BY <3>1, <3>2, Zenon DEF RunEffect
  <2> QED
    BY <2>1, <2>2
<1>7. CASE Remedy(r)
  <2>1. PICK i, new : /\ Created(i, new) /\ new.source = "rejection"
                      /\ new.status = "Pending" /\ new.result = "none"
    BY <1>7, RemedyDoes
  <2>2. new.source # "stage"
    BY <2>1
  <2> QED
    BY <2>1, <2>2, Zenon DEF RunEffect
<1> QED
  BY <1>1, <1>2, <1>3, <1>4, <1>5, <1>6, <1>7 DEF RunStep, Orchestrate

LEMMA RunKeeps ==
  ASSUME IInv, NEW r \in Run, RunStep(r)
  PROVE  /\ Grows
         /\ \A i \in made : task'[i] = task[i] \/ i = cur[r] \/ Moved(i, "InProgress")
         /\ \A i \in made' \ made :
              /\ task'[i].status = "Pending" /\ task'[i].result = "none"
              /\ \/ task'[i].source # "stage"
                 \/ pc[r] = "stages" /\ task'[i].parent = fresh[r]
<1>0. RunEffect(r) /\ TypeOK
  BY RunDoes DEF IInv
<1>1. Grows
  BY <1>0, BoardGrows DEF RunEffect, board
<1>2. CASE UNCHANGED <<made, task>>
  BY <1>1, <1>2
<1>3. CASE \E i, s : Moved(i, s) /\ (i = cur[r] \/ s = "InProgress")
  BY <1>0, <1>1, <1>3 DEF Moved, TypeOK
<1>4. CASE \E new : Written(r, new)
  BY <1>0, <1>1, <1>4 DEF Written, TypeOK
<1>5. CASE \E i, new :
             /\ Created(i, new) /\ new.status = "Pending" /\ new.result = "none"
             /\ new.source # "stage" \/ (pc[r] = "stages" /\ new.parent = fresh[r])
  <2>1. PICK i, new :
          /\ Created(i, new) /\ new.status = "Pending" /\ new.result = "none"
          /\ new.source # "stage" \/ (pc[r] = "stages" /\ new.parent = fresh[r])
    BY <1>5
  <2>2. made' \ made = {i} /\ task'[i] = new /\ \A j \in made : task'[j] = task[j]
    BY <1>0, <2>1 DEF Created, TypeOK
  <2> QED
    BY <1>1, <2>1, <2>2
<1> QED
  BY <1>0, <1>2, <1>3, <1>4, <1>5 DEF RunEffect

\* A run takes up another task only where it picks one.
LEMMA RunKeepsTask ==
  ASSUME IInv, NEW r \in Run, RunStep(r), ~Pick(r)
  PROVE  cur'[r] \in {cur[r], 0}
<1>1. CASE Orchestrate(r)
  BY <1>1, BeginPlanDoes, SubmitStageDoes, StagesSubmittedDoes, LinkStageDoes,
     StagesLinkedDoes DEF Orchestrate, Proc, Over, Same
<1>2. CASE Finish(r) \/ Attach(r) \/ Repair(r) \/ LinkRepair(r) \/ PutBack(r)
  BY <1>2, EndDoes, AttachDoes, RepairDoes, LinkRepairDoes, PutBackDoes DEF Over
<1>3. CASE \/ Put(r) \/ Start(r) \/ Execute(r) \/ StoreError(r) \/ GiveUp(r) \/ StoreBad(r)
           \/ Requeue(r) \/ Fail(r) \/ Store(r)
  BY <1>3, PutDoes, SetAndGoDoes, ExecuteDoes, SettleDoes, PutBackDoes DEF Over, Same
<1>4. CASE Settle(r) \/ Escalate(r) \/ FailCritic(r) \/ Remedy(r) \/ Conclude(r)
  BY <1>4, SettleDoes, SetAndGoDoes, RemedyDoes, EndDoes DEF Over
<1> QED
  BY <1>1, <1>2, <1>3, <1>4 DEF RunStep

-----------------------------------------------------------------------------
(* What the user has to release.                                           *)

GoalStage(i) == task[i].source = "stage" /\ task[task[i].parent].source = "goal"

\* The tasks of a plan that the orchestrator has yet to hold back.
Unheld ==
  IF pc["ui"] \in {"stages", "links"} THEN {stages["ui"][k] : k \in DOMAIN stages["ui"]}
  ELSE IF pc["ui"] = "hold" THEN todo["ui"] ELSE {}

Held ==
  /\ \A i \in Unheld : task[i].status = "Pending"
  /\ \A i \in made \ released : GoalStage(i) =>
       /\ \A r \in Run : cur[r] # i
       /\ task[i].status \notin Runnable \/ i \in Unheld

HInv == AInv /\ Held

LEMMA GoalStageKept ==
  ASSUME IInv, Grows, NEW i \in made PROVE GoalStage(i)' => GoalStage(i)
<1>1. Fixed(task'[i], task[i])
  BY DEF Grows
<1>2. task[i].source = "stage" => task[i].parent \in made
  BY DEF IInv, Lineage
<1>3. task[i].parent \in made => Fixed(task'[task[i].parent], task[task[i].parent])
  BY DEF Grows
<1> QED
  BY <1>1, <1>2, <1>3 DEF GoalStage, Fixed

\* No task is held back in a step that creates none of a plan and touches no
\* task that is held, but to put it where no run looks.
LEMMA HeldFrame ==
  ASSUME IInv, Held, Grows, Unheld = {}, Unheld' = {}, released \subseteq released',
         \A i \in made' \ made : ~GoalStage(i)',
         \A i \in made \ released', r \in Run : GoalStage(i) /\ cur[r] # i => cur'[r] # i,
         \A i \in made \ released' : GoalStage(i) /\ (\A r \in Run : cur[r] # i) =>
           task'[i].status = task[i].status \/ task'[i].status \notin Runnable
  PROVE  Held'
<1>1. ASSUME NEW i \in made' \ released', GoalStage(i)'
      PROVE  (\A r \in Run : cur'[r] # i) /\ task'[i].status \notin Runnable
  <2>1. i \in made \ released /\ GoalStage(i) /\ i \in made \ released'
    BY <1>1, GoalStageKept
  <2>2. (\A r \in Run : cur[r] # i) /\ task[i].status \notin Runnable
    BY <2>1 DEF Held
  <2> QED
    BY <2>1, <2>2
<1> QED
  BY <1>1 DEF Held

LEMMA HeldRun ==
  ASSUME ~Overlap, HInv, NEW r \in Run, RunStep(r)
  PROVE  Held'
<1> USE DEF HInv, AInv
<1>0. /\ r \in Proc /\ r # "ui" /\ pc[r] # "idle" /\ Acts(r) /\ released' = released
      /\ Sound(r) /\ Grows
  BY RunStepActs, RunKeeps, RunAssumption DEF Proc, IInv
<1>1. Unheld = {} /\ Unheld' = {}
  <2>1. ~Planning
    BY <1>0 DEF Alone, Idle
  <2>2. pc'["ui"] = pc["ui"]
    BY <1>0 DEF Acts, Unseen, Proc
  <2> QED
    BY <2>1, <2>2 DEF Planning, Unheld
<1>2. \A i \in made' \ made : ~GoalStage(i)'
  <2>1. fresh[r] \in made /\ pc[r] = "stages" => task'[fresh[r]].source = "rejection"
    BY <1>0 DEF Sound, Grows, Fixed
  <2> QED
    BY <1>0, <2>1, RunKeeps DEF GoalStage, Sound
<1>3. ASSUME NEW i \in made \ released', NEW q \in Run, GoalStage(i), cur[q] # i
      PROVE  cur'[q] # i
  <2>1. CASE q # r
    BY <1>0, <1>3, <2>1 DEF Acts, Unseen, Proc
  <2>2. CASE q = r /\ Pick(r)
    <3>1. task[i].status \notin Runnable
      BY <1>0, <1>1, <1>3 DEF Held
    <3> QED
      BY <2>2, <3>1, PickDoes DEF NextTask, Ready
  <2>3. CASE q = r /\ ~Pick(r)
    <3>1. cur'[r] \in {cur[r], 0}
      BY <2>3, RunKeepsTask
    <3> QED
      BY <1>3, <2>3, <3>1, IdAssumption DEF IInv, TypeOK
  <2> QED
    BY <2>1, <2>2, <2>3
<1>4. ASSUME NEW i \in made, \A q \in Run : cur[q] # i
      PROVE  task'[i].status = task[i].status \/ task'[i].status \notin Runnable
  BY <1>4, RunKeeps DEF Moved, Runnable
<1> QED
  BY <1>0, <1>1, <1>2, <1>3, <1>4, HeldFrame

LEMMA HeldQuiet ==
  ASSUME HInv, UserActs \/ UiStep, ~Planning, ~SubmitGoal
  PROVE  Held'
<1> USE DEF HInv, AInv
<1>1. UiEffect /\ UiStays /\ ~Planning'
  BY UiQuiet
<1>2. Unheld = {} /\ Unheld' = {}
  BY <1>1 DEF Planning, Unheld
<1>3. Grows /\ made' = made
  BY <1>1, BoardGrows DEF UiEffect, IInv, board, Moved
<1>4. /\ released \subseteq released'
      /\ \A i \in made \ released' :
           GoalStage(i) => task'[i].status = task[i].status \/ task'[i].status \notin Runnable
  <2>1. CASE DecidePlan
    BY <2>1, DecidePlanDoes DEF board
  <2>2. CASE ApproveReview \/ RejectReview \/ SetTaskStatus
    BY <2>2, UserMoveDoes DEF board, Moved, IInv, TypeOK
  <2>3. CASE Free \/ Drop
    BY <2>3, FreeDoes DEF board, Moved, IInv, TypeOK, Runnable
  <2>4. CASE Offer \/ ApprovePlan \/ RejectPlan
    BY <2>4, OfferDoes DEF board, Moved, IInv, TypeOK, GoalStage
  <2>5. CASE Orchestrate("ui") \/ Hold
    BY <2>5 DEF Orchestrate, BeginPlan, SubmitStage, StagesSubmitted, LinkStage,
       StagesLinked, Hold, Planning
  <2> QED
    BY <2>1, <2>2, <2>3, <2>4, <2>5 DEF UserActs, UiStep
<1> QED
  BY <1>1, <1>2, <1>3, <1>4, HeldFrame DEF UiStays

LEMMA HeldSubmitGoal ==
  ASSUME HInv, SubmitGoal
  PROVE  Held'
<1> USE DEF HInv, AInv
<1>1. PICK i, new : Created(i, new) /\ new.source = "goal"
  BY SubmitGoalDoes
<1>2. Grows /\ \A j \in made : task'[j] = task[j]
  BY <1>1, BoardGrows DEF IInv, Created, TypeOK
<1>3. UiStays /\ pc["ui"] = "idle" /\ pc'["ui"] = "begin" /\ released' = released
  BY SubmitGoalDoes, ActsStays
<1>4. Unheld = {} /\ Unheld' = {}
  BY <1>3 DEF Unheld
<1>5. \A j \in made' \ made : ~GoalStage(j)'
  BY <1>1 DEF Created, GoalStage
<1> QED
  BY <1>2, <1>3, <1>4, <1>5, HeldFrame DEF UiStays

\* A stage joins those that are to be held back.
LEMMA AppendRange ==
  ASSUME NEW S, NEW s \in Seq(S), NEW x \in S
  PROVE  {Append(s, x)[k] : k \in DOMAIN Append(s, x)} = {s[k] : k \in DOMAIN s} \cup {x}
<1> DEFINE t == Append(s, x)
<1>1. /\ Len(s) \in Nat /\ DOMAIN s = 1..Len(s) /\ DOMAIN t = 1..(Len(s) + 1)
      /\ t[Len(s) + 1] = x /\ \A k \in 1..Len(s) : t[k] = s[k]
  OBVIOUS
<1> HIDE DEF t
<1>2. \A k \in DOMAIN t : k \in DOMAIN s \/ k = Len(s) + 1
  BY <1>1
<1>3. \A k \in DOMAIN s : k \in DOMAIN t
  BY <1>1
<1>4. Len(s) + 1 \in DOMAIN t
  BY <1>1
<1>5. {t[k] : k \in DOMAIN t} = {s[k] : k \in DOMAIN s} \cup {x}
  BY <1>1, <1>2, <1>3, <1>4
<1> QED
  BY <1>5 DEF t

LEMMA HeldPlanning ==
  ASSUME HInv, Orchestrate("ui") \/ Hold \/ Offer, Planning
  PROVE  Held'
<1> USE DEF HInv, AInv
<1>0. "ui" \in Proc /\ UiStays /\ Sound("ui") /\ TypeOK
  BY UiPlans DEF Proc, IInv, UiStep
<1>1. CASE BeginPlan("ui")
  <2>1. Unheld = {} /\ Unheld' = {}
    BY <1>0, <1>1, BeginPlanDoes DEF Unheld, Same, Sound
  <2>2. UNCHANGED board \/ Moved(fresh["ui"], "InProgress")
    BY <1>0, <1>1, BeginPlanDoes
  <2>3. Grows /\ made' = made /\ released' = released
    BY <1>0, <1>1, <2>2, BeginPlanDoes, BoardGrows DEF board, Moved
  <2>4. \A i \in made : task'[i].status = task[i].status \/ task'[i].status \notin Runnable
    BY <1>0, <2>2 DEF board, Moved, TypeOK, Runnable
  <2> QED
    BY <1>0, <2>1, <2>3, <2>4, HeldFrame DEF UiStays
<1>2. CASE SubmitStage("ui")
  <2>1. PICK i, new : /\ Created(i, new) /\ new.status = "Pending"
                      /\ stages'["ui"] = Append(stages["ui"], i)
    BY <1>0, <1>2, SubmitStageDoes
  <2>2. /\ pc["ui"] = "stages" /\ pc'["ui"] = "stages" /\ released' = released
        /\ stages["ui"] \in Seq(made)
    BY <1>0, <1>2, SubmitStageDoes DEF TypeOK
  <2>3. /\ made' = made \cup {i} /\ i \notin made /\ made \subseteq Id
        /\ task'[i] = new /\ \A j \in made : task'[j] = task[j]
    BY <1>0, <2>1 DEF Created, TypeOK
  <2>4. Unheld' = Unheld \cup {i} /\ Unheld \subseteq made
    <3>1. stages["ui"] \in Seq(made') /\ i \in made'
      BY <2>2, <2>3, SeqGrows
    <3>2. {stages["ui"][k] : k \in DOMAIN stages["ui"]} \subseteq made
      BY <2>2
    <3> QED
      BY <2>1, <2>2, <3>1, <3>2, AppendRange DEF Unheld
  <2>5. Grows
    BY <1>0, <2>1, BoardGrows
  <2>6. \A j \in Unheld' : task'[j].status = "Pending"
    BY <2>1, <2>3, <2>4 DEF Held
  <2>7. ASSUME NEW j \in made' \ released', GoalStage(j)'
        PROVE  /\ \A r \in Run : cur'[r] # j
               /\ task'[j].status \notin Runnable \/ j \in Unheld'
    <3>1. CASE j = i
      <4>1. \A r \in Run : cur[r] # i
        BY <1>0, <2>1, IdAssumption DEF Created, TypeOK, Proc
      <4> QED
        BY <1>0, <2>4, <3>1, <4>1 DEF UiStays
    <3>2. CASE j # i
      BY <1>0, <2>2, <2>3, <2>4, <2>5, <2>7, <3>2, GoalStageKept DEF UiStays, Held
    <3> QED
      BY <3>1, <3>2
  <2> QED
    BY <2>6, <2>7 DEF Held
<1>3. CASE StagesSubmitted("ui") \/ LinkStage("ui") \/ StagesLinked("ui")
  <2>1. /\ UNCHANGED <<made, task, released>>
        /\ \/ /\ pc["ui"] \in {"stages", "links"} /\ pc'["ui"] \in {"stages", "links"}
              /\ stages'["ui"] = stages["ui"]
           \/ /\ pc["ui"] = "links" /\ pc'["ui"] = "hold"
              /\ todo'["ui"] = {stages["ui"][k] : k \in DOMAIN stages["ui"]}
    BY <1>0, <1>3, StagesSubmittedDoes, LinkStageDoes, StagesLinkedDoes DEF Same, board
  <2>2. Unheld' = Unheld
    BY <2>1 DEF Unheld
  <2> QED
    BY <1>0, <2>1, <2>2 DEF Held, GoalStage, UiStays
<1>4. CASE Hold
  <2>1. PICK i \in todo["ui"] :
          /\ i \in made
          /\ \/ /\ Moved(i, "Backlog") /\ pc'["ui"] = pc["ui"]
                /\ todo'["ui"] = todo["ui"] \ {i}
             \/ ~Accepts(i, "Backlog")
    BY <1>4, HoldDoes
  <2>2. Unheld = todo["ui"] /\ pc["ui"] = "hold" /\ released' = released
    BY <1>4, HoldDoes DEF Unheld
  <2>3. Accepts(i, "Backlog")
    BY <2>2 DEF Held, Accepts, ValidTransition, Successors
  <2>4. /\ Moved(i, "Backlog") /\ Unheld' = Unheld \ {i} /\ made' = made
        /\ task'[i].status = "Backlog" /\ \A j \in made \ {i} : task'[j] = task[j]
    BY <1>0, <2>1, <2>2, <2>3 DEF Unheld, Moved, TypeOK
  <2>5. Grows /\ Unheld \subseteq made
    BY <1>0, <2>2, <2>4, BoardGrows DEF TypeOK
  <2>6. \A j \in Unheld' : task'[j].status = "Pending"
    BY <2>4, <2>5 DEF Held
  <2>7. ASSUME NEW j \in made \ released, GoalStage(j)'
        PROVE  /\ \A r \in Run : cur'[r] # j
               /\ task'[j].status \notin Runnable \/ j \in Unheld'
    <3>1. GoalStage(j)
      BY <2>5, <2>7, GoalStageKept
    <3> QED
      BY <1>0, <2>4, <2>7, <3>1 DEF Held, UiStays, Runnable
  <2> QED
    BY <2>2, <2>4, <2>6, <2>7 DEF Held
<1>5. CASE Offer
  <2>1. /\ pc["ui"] \in {"hold", "free", "drop"} /\ (pc["ui"] = "hold" => todo["ui"] = {})
        /\ pc'["ui"] = "idle" /\ released' = released
        /\ \/ UNCHANGED board
           \/ \E g \in made : \E s : Moved(g, s) /\ task[g].source = "goal"
    BY <1>5, OfferDoes
  <2>2. Unheld = {} /\ Unheld' = {}
    BY <2>1 DEF Unheld
  <2>3. Grows /\ made' = made
    BY <1>0, <2>1, BoardGrows DEF board, Moved
  <2>4. \A i \in made : GoalStage(i) => task'[i].status = task[i].status
    BY <1>0, <2>1 DEF board, Moved, TypeOK, GoalStage
  <2> QED
    BY <1>0, <2>1, <2>2, <2>3, <2>4, HeldFrame DEF UiStays
<1> QED
  BY <1>1, <1>2, <1>3, <1>4, <1>5 DEF Orchestrate

LEMMA InitHInv == Init => HInv
<1>1. Init => Held
  BY DEF Init, Held, Unheld, Proc
<1> QED
  BY <1>1, InitAlone DEF HInv

LEMMA NextHInv ==
  ASSUME ~Overlap, HInv, [Next]_vars PROVE HInv'
<1>1. AInv'
  BY NextAlone DEF HInv
<1>2. Held'
  <2>1. CASE UNCHANGED vars
    BY <2>1 DEF vars, board, local, HInv, Held, Unheld, GoalStage
  <2>2. CASE (UserActs \/ UiStep) /\ Planning /\ ~SubmitGoal
    <3>1. Orchestrate("ui") \/ Hold \/ Offer
      BY <2>2 DEF Planning, UserActs, UiStep, DecidePlan, ApproveReview, RejectReview,
         SetTaskStatus, Free, ApprovePlan, Drop, RejectPlan
    <3> QED
      BY <2>2, <3>1, HeldPlanning
  <2>3. ASSUME NEW r \in Run, StartRun(r) PROVE Held'
    <3>1. UNCHANGED board /\ Acts(r) /\ Same(r) /\ released' = released
      BY <2>3, StartRunDoes DEF HInv, AInv
    <3>2. /\ \A q \in Run : cur'[q] = cur[q]
          /\ pc'["ui"] = pc["ui"] /\ stages'["ui"] = stages["ui"] /\ todo'["ui"] = todo["ui"]
      BY <3>1, RunAssumption DEF Acts, Unseen, Same, Proc
    <3> QED
      BY <3>1, <3>2 DEF HInv, Held, Unheld, GoalStage, board
  <2> QED
    BY <2>1, <2>2, <2>3, HeldRun, HeldQuiet, HeldSubmitGoal DEF Next
<1> QED
  BY <1>1, <1>2 DEF HInv

(* While goals are planned and runs are made one after the other, no agent *)
(* works on a task of a plan that the user has not released: from the      *)
(* moment the orchestrator has submitted a stage, through the awaits in    *)
(* which it is linked and held back, to the user's decision, and whatever  *)
(* a run writes over the board from its own copies.                        *)
THEOREM PlanWaitsForUser == ASSUME ~Overlap PROVE Spec => []PlanHeld
<1>1. HInv => PlanHeld
  BY DEF HInv, Held, PlanHeld, GoalStage, Executing
<1>2. HInv /\ [Next]_vars => HInv'
  BY NextHInv
<1> QED
  BY <1>1, <1>2, InitHInv, PTL DEF Spec

-----------------------------------------------------------------------------
(* What a task depends on stays as the run has found it.                   *)

\* Nothing that i waits for is unfinished.
Unblocked(i) ==
  \A d \in made : <<i, d>> \in deps => d # i /\ task[d].status \in Finished

\* Nothing that i waits for breaks its contract.
Clean(i) == \A d \in made : <<i, d>> \in deps => d \notin Broken(i)

Gated ==
  \A r \in Run :
    /\ pc[r] \in {"attach", "put", "start", "execute"} => Unblocked(cur[r])
    /\ pc[r] \in {"put", "start", "execute"} => Clean(cur[r])

GInv == AInv /\ Gated

\* A finished task is left alone, unless it is i.
FinishedStay(i) ==
  /\ made' = made /\ deps' = deps
  /\ \A j \in made :
       /\ Fixed(task'[j], task[j])
       /\ j # i /\ task[j].status \in Finished =>
            task'[j].status = task[j].status /\ task'[j].result = task[j].result

LEMMA MovedStay ==
  ASSUME TypeOK, UNCHANGED board \/ \E j, s : Moved(j, s), NEW i
  PROVE  FinishedStay(i)
<1>1. CASE UNCHANGED board
  BY <1>1 DEF board, FinishedStay, Fixed
<1>2. ASSUME NEW j, NEW s, Moved(j, s) PROVE FinishedStay(i)
  <2>1. task[j].status \in Finished => s = task[j].status
    BY <1>2 DEF Moved, Accepts, ValidTransition, Successors, Finished
  <2>2. \A k \in made : k # j => task'[k] = task[k]
    BY <1>2 DEF Moved, TypeOK
  <2> QED
    BY <1>2, <2>1, <2>2 DEF Moved, FinishedStay, Fixed
<1> QED
  BY <1>1, <1>2

LEMMA WrittenStay ==
  ASSUME TypeOK, NEW r \in Run, NEW new, Written(r, new)
  PROVE  FinishedStay(cur[r])
<1>1. \A k \in made : k # cur[r] => task'[k] = task[k]
  BY DEF Written, TypeOK
<1> QED
  BY <1>1 DEF Written, FinishedStay, Fixed

LEMMA UnblockedStays ==
  ASSUME NEW i \in made, FinishedStay(i), Unblocked(i)
  PROVE  Unblocked(i)'
BY DEF FinishedStay, Unblocked

\* What is finished and not broken does not come to be: its repair stays, too.
LEMMA CleanStays ==
  ASSUME TypeOK, NEW i \in made, FinishedStay(i), Unblocked(i), Clean(i)
  PROVE  Clean(i)'
<1>1. made' = made /\ deps' = deps
  BY DEF FinishedStay
<1>2. ASSUME NEW d \in made, <<i, d>> \in deps, d \in Broken(i)'
      PROVE  FALSE
  <2>1. d \notin Broken(i) /\ d # i /\ task[d].status \in Finished
    BY <1>2 DEF Clean, Unblocked
  <2>2. /\ Fixed(task'[i], task[i]) /\ Fixed(task'[d], task[d])
        /\ task'[d].status = task[d].status /\ task'[d].result = task[d].result
    BY <1>2, <2>1 DEF FinishedStay
  <2>3. d \in Upstream(i)
    BY <1>1, <1>2, <2>1, <2>2 DEF Broken, Upstream, Fixed
  <2>4. Recovered(i, d)
    BY <1>2, <2>1, <2>2, <2>3 DEF Broken, Fixed
  <2>5. PICK k \in Upstream(i) : /\ task[k].source = "handoff" /\ task[k].for = i
                                 /\ task[k].about = d /\ task[k].result # "bad"
    BY <2>4 DEF Recovered
  <2>6. k \in made /\ k # i /\ task[k].status = "Completed" /\ task[k].result # "none"
        /\ task[i].parent # 0 /\ task[k].parent = task[i].parent
    BY <2>5 DEF Upstream
  <2>7. /\ Fixed(task'[k], task[k])
        /\ task'[k].status = task[k].status /\ task'[k].result = task[k].result
    BY <2>6 DEF FinishedStay, Finished
  <2>8. k \in Upstream(i)'
    BY <1>1, <2>2, <2>6, <2>7 DEF Upstream, Fixed
  <2>9. Recovered(i, d)'
    BY <2>5, <2>7, <2>8 DEF Recovered, Fixed
  <2> QED
    BY <1>2, <2>9 DEF Broken
<1> QED
  BY <1>1, <1>2 DEF Clean

\* Where one run is at work no other is, and the user is having nothing planned.
LEMMA Others ==
  ASSUME ~Overlap, AInv, NEW r \in Run, pc[r] # "idle"
  PROVE  /\ ~Planning /\ ~SubmitGoal
         /\ \A q \in Run : q # r => pc[q] = "idle" /\ ~RunStep(q)
         /\ \A q \in Run : ~StartRun(q)
<1>1. \A q \in Run : q # r => pc[q] = "idle"
  BY DEF AInv, Alone
<1>2. ~Planning /\ ~Idle
  BY DEF AInv, Alone, Idle
<1> QED
  BY <1>1, <1>2, RunStepActs DEF AInv, SubmitGoal, StartRun

LEMMA GatedRun ==
  ASSUME ~Overlap, GInv, NEW r \in Run, RunStep(r)
  PROVE  Gated'
<1> USE DEF GInv
<1>0. IInv /\ TypeOK /\ Acts(r) /\ pc[r] # "idle" /\ r \in Proc
  BY RunStepActs DEF AInv, IInv, Proc
<1>1. ASSUME NEW q \in Run, q # r PROVE pc'[q] = "idle"
  BY <1>0, <1>1, Others DEF Acts, Unseen, Proc
<1>2. SUFFICES ASSUME pc'[r] \in {"attach", "put", "start", "execute"}
               PROVE  Unblocked(cur[r])' /\ (pc'[r] # "attach" => Clean(cur[r])')
  BY <1>1 DEF Gated
<1>3. CASE Pick(r)
  <2>1. PICK i \in NextTask : cur'[r] = i
    BY <1>0, <1>3, PickDoes
  <2>2. pc'[r] = "attach" /\ UNCHANGED board
    BY <1>0, <1>3, PickDoes
  <2>3. i \in Ready
    BY DEF NextTask
  <2>4. Unblocked(i)
    BY <2>3 DEF Ready, ParentsDone, Unblocked, Runnable, Finished
  <2> QED
    BY <2>1, <2>2, <2>4 DEF Unblocked, board
<1>4. CASE Attach(r)
  <2>1. /\ pc[r] = "attach" /\ cur'[r] = cur[r] /\ UNCHANGED board
        /\ pc'[r] = "put" => Broken(cur[r]) = {}
        /\ pc'[r] = "attach" \/ pc'[r] = "put"
    BY <1>0, <1>2, <1>4, AttachDoes
  <2>2. Unblocked(cur[r])'
    BY <2>1 DEF Gated, Unblocked, board
  <2>3. Broken(cur[r])' = Broken(cur[r])
    BY <2>1 DEF Broken, Upstream, Recovered, board
  <2> QED
    BY <2>1, <2>2, <2>3 DEF Clean
<1>5. CASE Put(r) \/ Start(r)
  <2>1. /\ pc[r] \in {"put", "start"} /\ cur'[r] = cur[r] /\ pc'[r] # "attach"
        /\ \/ UNCHANGED board
           \/ Written(r, copy[r])
           \/ \E s : Moved(cur[r], s)
    <3>1. CASE Put(r)
      BY <1>0, <3>1, PutDoes DEF Same, Put
    <3>2. CASE Start(r)
      BY <1>0, <1>2, <3>2, SetAndGoDoes DEF Over, Start
    <3> QED
      BY <1>5, <3>1, <3>2
  <2>2. cur[r] \in made /\ Unblocked(cur[r]) /\ Clean(cur[r])
    BY <1>0, <2>1, Hand DEF Gated, AtHand, Work
  <2>3. FinishedStay(cur[r])
    BY <1>0, <2>1, MovedStay, WrittenStay
  <2>4. Unblocked(cur[r])' /\ Clean(cur[r])'
    <3>1. PICK k \in made : k = cur[r]
      BY <2>2
    <3>2. Unblocked(k)' /\ Clean(k)'
      BY <1>0, <2>2, <2>3, <3>1, UnblockedStays, CleanStays
    <3> QED
      BY <2>1, <3>1, <3>2
  <2> QED
    BY <2>4
<1>6. CASE \/ StoreBad(r) \/ Store(r) \/ StoreError(r) \/ Execute(r) \/ Repair(r)
           \/ LinkRepair(r) \/ Remedy(r) \/ FailCritic(r)
  BY <1>0, <1>2, <1>6, PutDoes, ExecuteDoes, RepairDoes, LinkRepairDoes, RemedyDoes,
     SetAndGoDoes DEF Over, FailCritic, Store, StoreBad, StoreError
<1>7. CASE \/ Finish(r) \/ Conclude(r) \/ PutBack(r) \/ Requeue(r) \/ Fail(r) \/ GiveUp(r)
           \/ Settle(r) \/ Escalate(r)
  BY <1>0, <1>2, <1>7, EndDoes, PutBackDoes, SettleDoes DEF Over
<1>8. CASE Orchestrate(r)
  BY <1>0, <1>2, <1>8, BeginPlanDoes, SubmitStageDoes, StagesSubmittedDoes, LinkStageDoes,
     StagesLinkedDoes DEF Orchestrate, Over
<1> QED
  BY <1>3, <1>4, <1>5, <1>6, <1>7, <1>8 DEF RunStep

LEMMA GatedUi ==
  ASSUME ~Overlap, GInv, UserActs \/ UiStep, NEW r \in Run, pc[r] # "idle"
  PROVE  /\ pc'[r] \in {"attach", "put", "start", "execute"} => Unblocked(cur[r])'
         /\ pc'[r] \in {"put", "start", "execute"} => Clean(cur[r])'
<1> USE DEF GInv
<1>1. UiEffect /\ UiStays /\ TypeOK
  BY Others, UiQuiet DEF AInv, IInv
<1>2. pc'[r] = pc[r] /\ cur'[r] = cur[r]
  BY <1>1 DEF UiStays
<1>3. CASE pc[r] \in {"attach", "put", "start", "execute"}
  <2>1. PICK k \in made : k = cur[r]
    BY <1>3, Hand DEF AInv, AtHand, Work
  <2>2. FinishedStay(k)
    BY <1>1, MovedStay DEF UiEffect
  <2>3. Unblocked(k)'
    BY <1>3, <2>1, <2>2, UnblockedStays DEF Gated
  <2>4. pc[r] # "attach" => Clean(k)'
    BY <1>1, <1>3, <2>1, <2>2, CleanStays DEF Gated
  <2> QED
    BY <1>2, <2>1, <2>3, <2>4
<1> QED
  BY <1>2, <1>3

LEMMA InitGInv == Init => GInv
<1>1. Init => Gated
  BY DEF Init, Gated, Proc
<1> QED
  BY <1>1, InitAlone DEF GInv

LEMMA NextGInv ==
  ASSUME ~Overlap, GInv, [Next]_vars PROVE GInv'
<1>1. AInv'
  BY NextAlone DEF GInv
<1>2. Gated'
  <2>1. CASE UNCHANGED vars
    BY <2>1 DEF vars, board, local, GInv, Gated, Unblocked, Clean, Broken, Upstream, Recovered
  <2>2. CASE UserActs \/ UiStep
    <3>1. ASSUME NEW r \in Run, pc[r] = "idle" PROVE pc'[r] = "idle"
      <4>1. UiStays
        BY <2>2, UiQuiet, UiPlans, SubmitGoalDoes, ActsStays DEF GInv, AInv
      <4> QED
        BY <3>1, <4>1 DEF UiStays
    <3> QED
      BY <2>2, <3>1, GatedUi DEF Gated
  <2>3. ASSUME NEW r \in Run, StartRun(r) PROVE Gated'
    <3>1. pc'[r] = "pick" /\ Acts(r) /\ Idle /\ r \in Proc
      BY <2>3, StartRunDoes DEF GInv, AInv, Proc
    <3>2. \A q \in Run : pc'[q] \in {"idle", "pick"}
      BY <3>1 DEF Acts, Unseen, Idle, Proc
    <3> QED
      BY <3>2 DEF Gated
  <2> QED
    BY <2>1, <2>2, <2>3, GatedRun DEF Next
<1> QED
  BY <1>1, <1>2 DEF GInv

(* While runs are made one after the other, and no goal is planned         *)
(* meanwhile, an agent works on a task only when everything it depends on  *)
(* is finished: the board was read at the pick, but between the pick and   *)
(* the execution no one reopens or adds what the task waits for - the user *)
(* may do anything set_task_status allows.                                 *)
THEOREM DependenciesHold == ASSUME ~Overlap PROVE Spec => []DependenciesFirst
<1>1. GInv => DependenciesFirst
  BY DEF GInv, Gated, Unblocked, DependenciesFirst, Executing
<1>2. GInv /\ [Next]_vars => GInv'
  BY NextGInv
<1> QED
  BY <1>1, <1>2, InitGInv, PTL DEF Spec

(* And no agent is handed an artifact that breaks its contract: a check    *)
(* made before the run writes the task back and starts it still holds when *)
(* the agent works.                                                        *)
THEOREM HandoffsClean == ASSUME ~Overlap PROVE Spec => []HandoffClean
<1>1. GInv => HandoffClean
  BY DEF GInv, Gated, Clean, HandoffClean, Executing
<1>2. GInv /\ [Next]_vars => GInv'
  BY NextGInv
<1> QED
  BY <1>1, <1>2, InitGInv, PTL DEF Spec

-----------------------------------------------------------------------------
(* Every verdict is answered.                                              *)

Remediable(i) == task[i].parent # 0 /\ task[task[i].parent].source # "rejection"

Remedied(i) == \E m \in made : task[m].source = "rejection" /\ task[m].about = i

\* What a run knows of the verdict on the task at hand.
Verdict(r) ==
  /\ pc[r] \in Work => task[cur[r]].status # "Failed" /\ copy[r].status # "Failed"
  /\ pc[r] \in {"store_bad", "store_error"} => copy[r].result = "bad"
  /\ pc[r] = "store" /\ copy[r].result = "reject" => copy[r].parent # 0
  /\ pc[r] \in {"fail", "give_up"} => task[cur[r]].result = "bad"
  /\ pc[r] \in {"fail_critic", "remedy"} \cup Remedying => Remediable(cur[r])
  /\ pc[r] \in Remedying => Remedied(cur[r])

Rejected(i) == task[i].result = "reject" /\ task[i].status = "Failed"

Answered ==
  /\ \A r \in Run : Verdict(r)
  /\ \A i \in made :
       Rejected(i) /\ (\A r \in Run : cur[r] # i) => Remediable(i) /\ Remedied(i)

VInv == AInv /\ Answered

LEMMA RemediableKept ==
  ASSUME IInv, Grows, NEW i \in made
  PROVE  /\ Remediable(i) => Remediable(i)'
         /\ Remedied(i) => Remedied(i)'
<1>1. Fixed(task'[i], task[i]) /\ (task[i].parent # 0 => task[i].parent \in made)
  BY DEF Grows, IInv, Lineage
<1>2. Remediable(i) => Remediable(i)'
  BY <1>1 DEF Remediable, Grows, Fixed
<1>3. Remedied(i) => Remedied(i)'
  BY DEF Remedied, Grows, Fixed
<1> QED
  BY <1>2, <1>3

\* Tasks no command writes stay answered.
LEMMA AnsweredFrame ==
  ASSUME VInv, Grows, \A r \in Run : Verdict(r)',
         \A i \in made' : Rejected(i)' /\ (\A r \in Run : cur'[r] # i) =>
           \/ i \in made /\ Rejected(i) /\ (\A r \in Run : cur[r] # i)
           \/ i \in made /\ Remediable(i) /\ Remedied(i)
  PROVE  Answered'
<1>1. ASSUME NEW i \in made', Rejected(i)', \A r \in Run : cur'[r] # i
      PROVE  Remediable(i)' /\ Remedied(i)'
  <2>1. i \in made /\ Remediable(i) /\ Remedied(i)
    BY <1>1 DEF VInv, Answered
  <2> QED
    BY <2>1, RemediableKept DEF VInv, AInv
<1> QED
  BY <1>1 DEF Answered

LEMMA VerdictRun ==
  ASSUME ~Overlap, VInv, NEW r \in Run, RunStep(r)
  PROVE  Verdict(r)'
<1> USE DEF VInv, Work, Remedying
<1>0. /\ IInv /\ TypeOK /\ r \in Proc /\ Grows /\ Verdict(r) /\ Sound(r)
  BY RunKeeps DEF AInv, IInv, Proc, Answered
<1>1. pc[r] \in AtHand => /\ cur[r] \in made /\ cur[r] \in Id
                          /\ Fixed(copy[r], task[cur[r]])
  BY <1>0, Hand
<1>2. CASE Pick(r)
  <2>1. PICK i \in NextTask : cur'[r] = i
    BY <1>0, <1>2, PickDoes
  <2>2. pc'[r] = "attach" /\ UNCHANGED board /\ copy'[r] = task[i]
    BY <1>0, <1>2, <2>1, PickDoes
  <2>3. task[i].status # "Failed"
    BY DEF NextTask, Ready, Runnable
  <2> QED
    BY <2>1, <2>2, <2>3 DEF Verdict, board
<1>3. ASSUME Over(r) PROVE Verdict(r)'
  BY <1>3 DEF Over, Verdict
\* A task that stays at hand is as remediable, and as remedied, as before.
<1>4. ASSUME pc[r] \in AtHand, cur'[r] = cur[r]
      PROVE  /\ Remediable(cur[r]) => Remediable(cur[r])'
             /\ Remedied(cur[r]) => Remedied(cur[r])'
  <2>1. PICK k \in made : k = cur[r]
    BY <1>1, <1>4
  <2>2. /\ Remediable(k) => Remediable(k)'
        /\ Remedied(k) => Remedied(k)'
    BY <1>0, RemediableKept
  <2> QED
    BY <1>4, <2>1, <2>2
<1>5. CASE Attach(r) \/ Repair(r) \/ LinkRepair(r)
  <2>1. /\ pc[r] \in {"attach", "repair", "link"} /\ pc'[r] \in {"put", "repair", "link"}
        /\ cur'[r] = cur[r] /\ copy'[r] = copy[r]
    BY <1>0, <1>5, AttachDoes, RepairDoes, LinkRepairDoes
  <2>2. task'[cur[r]] = task[cur[r]]
    <3>1. CASE Attach(r) \/ LinkRepair(r)
      BY <1>0, <3>1, AttachDoes, LinkRepairDoes DEF board
    <3>2. CASE Repair(r)
      BY <1>0, <1>1, <2>1, <3>2, RepairDoes DEF board, Created, AtHand
    <3> QED
      BY <1>5, <3>1, <3>2
  <2> QED
    BY <1>0, <2>1, <2>2 DEF Verdict
<1>6. CASE Put(r) \/ Store(r) \/ StoreBad(r) \/ StoreError(r)
  <2>1. /\ Written(r, copy[r]) /\ Same(r)
        /\ \/ pc[r] = "put" /\ pc'[r] = "start"
           \/ pc[r] = "store_bad" /\ pc'[r] \in {"requeue", "fail"}
           \/ pc[r] = "store_error" /\ pc'[r] = "give_up"
           \/ pc[r] = "store" /\ pc'[r] \in {"settle", "escalate"}
           \/ /\ pc[r] = "store" /\ pc'[r] = "fail_critic" /\ copy[r].result = "reject"
              /\ ~Escalates(copy[r])
    BY <1>0, <1>6, PutDoes
  <2>2. /\ cur'[r] = cur[r] /\ copy'[r] = copy[r] /\ task'[cur[r]] = copy[r]
        /\ copy[r].status # "Failed"
    BY <1>0, <2>1 DEF Same, Written, Verdict
  <2>3. CASE pc'[r] = "fail_critic"
    <3>1. copy[r].parent # 0 /\ ~Escalates(copy[r]) /\ Fixed(copy[r], task[cur[r]])
      BY <1>0, <1>1, <2>1, <2>3 DEF Verdict, AtHand
    <3>2. Remediable(cur[r])
      BY <3>1 DEF Remediable, Escalates, Fixed
    <3> QED
      BY <1>4, <2>1, <2>2, <2>3, <3>2 DEF Verdict, AtHand
  <2>4. CASE pc'[r] # "fail_critic"
    BY <1>0, <2>1, <2>2, <2>4 DEF Verdict
  <2> QED
    BY <2>3, <2>4
<1>7. CASE Start(r) \/ FailCritic(r)
  <2>1. CASE Over(r)
    BY <1>3, <2>1
  <2>2. CASE ~Over(r)
    <3>1. /\ cur'[r] = cur[r]
          /\ \/ /\ pc[r] = "start" /\ pc'[r] = "execute" /\ Moved(cur[r], "InProgress")
                /\ copy'[r].status = "InProgress"
             \/ pc[r] = "fail_critic" /\ pc'[r] = "remedy"
      BY <1>0, <1>7, <2>2, SetAndGoDoes
    <3>2. CASE pc[r] = "start"
      BY <3>1, <3>2 DEF Verdict, Moved
    <3>3. CASE pc[r] = "fail_critic"
      BY <1>0, <1>4, <3>1, <3>3 DEF Verdict, AtHand
    <3> QED
      BY <3>1, <3>2, <3>3
  <2> QED
    BY <2>1, <2>2
<1>8. CASE Execute(r)
  <2>1. /\ pc[r] = "execute" /\ UNCHANGED board /\ cur'[r] = cur[r]
        /\ Fixed(copy'[r], copy[r]) /\ copy'[r].status = copy[r].status
        /\ \/ pc'[r] \in {"store_bad", "store_error"} /\ copy'[r].result = "bad"
           \/ /\ pc'[r] = "store"
              /\ copy'[r].result = "reject" => task[cur[r]].role = "critic"
    BY <1>0, <1>8, ExecuteDoes
  <2>2. task[cur[r]].role = "critic" => copy[r].parent # 0
    BY <1>0, <1>1, <2>1 DEF IInv, Lineage, Fixed, AtHand
  <2> QED
    BY <1>0, <2>1, <2>2 DEF Verdict, Fixed, board
<1>9. CASE Remedy(r)
  <2>1. /\ pc[r] = "remedy" /\ pc'[r] = "begin" /\ cur'[r] = cur[r]
        /\ \E i, new : Created(i, new) /\ new.source = "rejection" /\ new.about = cur[r]
    BY <1>0, <1>9, RemedyDoes
  <2>2. Remediable(cur[r])
    BY <1>0, <2>1 DEF Verdict
  <2>3. Remedied(cur[r])'
    BY <2>1 DEF Created, Remedied
  <2> QED
    BY <1>4, <2>1, <2>2, <2>3 DEF Verdict, AtHand
<1>10. CASE Orchestrate(r)
  <2>1. CASE Over(r)
    BY <1>3, <2>1
  <2>2. CASE ~Over(r)
    <3>1. /\ pc[r] \in {"begin", "stages", "links"}
          /\ pc'[r] \in {"stages", "links", "conclude"} /\ cur'[r] = cur[r]
      BY <1>0, <1>10, <2>2, RunAssumption, BeginPlanDoes, SubmitStageDoes,
         StagesSubmittedDoes, LinkStageDoes, StagesLinkedDoes DEF Orchestrate, Same
    <3> QED
      BY <1>0, <1>4, <3>1 DEF Verdict, AtHand
  <2> QED
    BY <2>1, <2>2
<1>11. CASE \/ Finish(r) \/ Conclude(r) \/ PutBack(r) \/ Requeue(r) \/ Fail(r) \/ GiveUp(r)
            \/ Settle(r) \/ Escalate(r)
  BY <1>0, <1>3, <1>11, EndDoes, PutBackDoes, SettleDoes
<1> QED
  BY <1>2, <1>5, <1>6, <1>7, <1>8, <1>9, <1>10, <1>11 DEF RunStep

\* A run lets go of its task only when its verdict, if it is one, is answered.
LEMMA LetGo ==
  ASSUME ~Overlap, VInv, NEW r \in Run, RunStep(r), NEW i \in made, i = cur[r],
         cur'[r] # i, Rejected(i)'
  PROVE  Remediable(i) /\ Remedied(i)
<1> USE DEF VInv, Work, Remedying, Rejected
<1>0. IInv /\ TypeOK /\ r \in Proc /\ Verdict(r) /\ Sound(r) /\ i \in Id /\ i # 0
  BY IdAssumption DEF AInv, IInv, Proc, Answered, TypeOK
<1>1. CASE \/ Pick(r) \/ Attach(r) \/ Repair(r) \/ LinkRepair(r) \/ Execute(r) \/ Remedy(r)
           \/ Put(r) \/ Store(r) \/ StoreBad(r) \/ StoreError(r)
  <2>1. CASE Pick(r)
    BY <1>0, <2>1, PickDoes DEF Sound
  <2>2. CASE ~Pick(r)
    BY <1>0, <1>1, <2>2, AttachDoes, RepairDoes, LinkRepairDoes, ExecuteDoes, RemedyDoes,
       PutDoes DEF Same
  <2> QED
    BY <2>1, <2>2
<1>2. CASE Finish(r) \/ Conclude(r)
  BY <1>0, <1>2, EndDoes DEF Verdict, Sound
<1>3. CASE PutBack(r) \/ Requeue(r)
  <2>1. /\ pc[r] \in {"repair", "requeue"}
        /\ \E new : Written(r, new) /\ new.status \in {copy[r].status, "Pending"}
    BY <1>0, <1>3, PutBackDoes
  <2> QED
    BY <1>0, <2>1 DEF Written, Verdict
<1>4. CASE Fail(r) \/ GiveUp(r) \/ Settle(r) \/ Escalate(r)
  <2>1. \/ UNCHANGED board /\ pc[r] \in {"fail", "give_up", "settle", "escalate"}
        \/ pc[r] \in {"fail", "give_up"} /\ Moved(i, "Failed")
        \/ /\ pc[r] \in {"settle", "escalate"}
           /\ \E s \in {"Review", "Completed"} : Moved(i, s)
    BY <1>0, <1>4, SettleDoes
  <2> QED
    BY <1>0, <2>1 DEF Verdict, Moved, board
<1>5. CASE Start(r) \/ FailCritic(r)
  <2>1. pc[r] \in {"start", "fail_critic"} /\ UNCHANGED board
    BY <1>0, <1>5, SetAndGoDoes
  <2> QED
    BY <1>0, <2>1 DEF Verdict, board
<1>6. CASE Orchestrate(r)
  <2>1. pc[r] \in {"begin", "stages", "links"}
    BY <1>6 DEF Orchestrate, BeginPlan, SubmitStage, StagesSubmitted, LinkStage, StagesLinked
  <2> QED
    BY <1>0, <2>1 DEF Verdict
<1> QED
  BY <1>1, <1>2, <1>3, <1>4, <1>5, <1>6 DEF RunStep

LEMMA AnsweredRun ==
  ASSUME ~Overlap, VInv, NEW r \in Run, RunStep(r)
  PROVE  Answered'
<1> USE DEF VInv, AInv
<1>0. IInv /\ TypeOK /\ r \in Proc /\ Acts(r) /\ Grows /\ pc[r] # "idle"
  BY RunStepActs, RunKeeps DEF IInv, Proc
<1>1. ASSUME NEW q \in Run PROVE Verdict(q)'
  <2>1. CASE q = r
    BY <2>1, VerdictRun
  <2>2. CASE q # r
    <3>1. pc'[q] = "idle"
      BY <1>0, <2>2, Others DEF Acts, Unseen, Proc
    <3> QED
      BY <3>1 DEF Verdict, Work, Remedying
  <2> QED
    BY <2>1, <2>2
<1>2. ASSUME NEW i \in made', Rejected(i)', \A q \in Run : cur'[q] # i
      PROVE  \/ i \in made /\ Rejected(i) /\ (\A q \in Run : cur[q] # i)
             \/ i \in made /\ Remediable(i) /\ Remedied(i)
  <2>1. i \in made
    BY <1>2, RunKeeps DEF Rejected
  <2>2. CASE i = cur[r]
    BY <1>2, <2>1, <2>2, LetGo
  <2>3. CASE i # cur[r]
    <3>1. Rejected(i)
      BY <1>2, <2>1, <2>3, RunKeeps DEF Rejected, Moved
    <3>2. \A q \in Run : cur[q] # i
      BY <1>0, <1>2, <2>3 DEF Acts, Unseen, Proc
    <3> QED
      BY <2>1, <3>1, <3>2
  <2> QED
    BY <2>2, <2>3
<1> QED
  BY <1>0, <1>1, <1>2, AnsweredFrame

\* What a command of the user does to the tasks there are.
LEMMA UiKeeps ==
  ASSUME IInv, UserActs \/ UiStep
  PROVE  /\ Grows /\ UiStays
         /\ \A i \in made' \ made : task'[i].status = "Pending"
         /\ \A i \in made :
              \/ task'[i] = task[i]
              \/ \E s : Moved(i, s) /\ s \in UserMoves \cup {"InProgress", "Backlog", "Review",
                                                           "Pending", "Completed", "Cancelled"}
<1>0. TypeOK /\ "ui" \in Proc
  BY DEF IInv, Proc
<1>1. UiStays
  BY UiQuiet, UiPlans, SubmitGoalDoes, ActsStays
<1>2. ASSUME UiEffect
      PROVE  /\ Grows /\ made' = made
             /\ \A i \in made :
                  \/ task'[i] = task[i]
                  \/ \E s : Moved(i, s)
                           /\ s \in UserMoves \cup {"InProgress", "Backlog", "Review",
                                                   "Pending", "Completed", "Cancelled"}
  <2>1. Grows /\ made' = made
    BY <1>0, <1>2, BoardGrows DEF UiEffect, board, Moved
  <2>2. CASE UNCHANGED board
    BY <2>1, <2>2 DEF board
  <2>3. CASE ~UNCHANGED board
    <3>1. PICK i, s : Moved(i, s) /\ s \in UserMoves \cup {"InProgress", "Backlog", "Review",
                                                       "Pending", "Completed", "Cancelled"}
      BY <1>2, <2>3 DEF UiEffect
    <3>2. \A j \in made : j # i => task'[j] = task[j]
      BY <1>0, <3>1 DEF Moved, TypeOK
    <3> QED
      BY <2>1, <3>1, <3>2
  <2> QED
    BY <2>2, <2>3
<1>3. ASSUME NEW i, NEW new, Created(i, new), new.status = "Pending"
      PROVE  /\ Grows /\ \A j \in made' \ made : task'[j].status = "Pending"
             /\ \A j \in made : task'[j] = task[j]
  <2>1. Grows
    BY <1>0, <1>3, BoardGrows
  <2>2. made' \ made = {i} /\ task'[i] = new /\ \A j \in made : task'[j] = task[j]
    BY <1>0, <1>3 DEF Created, TypeOK
  <2> QED
    BY <1>3, <2>1, <2>2
<1>4. CASE SubmitGoal
  <2>1. PICK i, new : Created(i, new) /\ new.status = "Pending"
    BY <1>4, SubmitGoalDoes
  <2> QED
    BY <1>1, <1>3, <2>1
<1>5. CASE ~Planning /\ ~SubmitGoal
  BY <1>1, <1>2, <1>5, UiQuiet
<1>6. CASE Planning /\ ~SubmitGoal
  <2>1. Orchestrate("ui") \/ Hold \/ Offer
    BY <1>6 DEF Planning, UserActs, UiStep, DecidePlan, ApproveReview, RejectReview,
       SetTaskStatus, Free, ApprovePlan, Drop, RejectPlan
  <2>2. CASE SubmitStage("ui")
    <3>1. PICK i, new : Created(i, new) /\ new.status = "Pending"
      BY <1>0, <2>2, SubmitStageDoes
    <3> QED
      BY <1>1, <1>3, <3>1
  <2>3. CASE LinkStage("ui")
    <3>1. UNCHANGED <<made, task>> /\ \E i, j \in made : deps' = deps \cup {<<i, j>>}
      BY <1>0, <2>3, LinkStageDoes
    <3> QED
      BY <1>0, <1>1, <3>1, BoardGrows
  <2>4. CASE BeginPlan("ui") \/ StagesSubmitted("ui") \/ StagesLinked("ui")
    <3>1. UiEffect
      BY <1>0, <2>4, BeginPlanDoes, StagesSubmittedDoes, StagesLinkedDoes DEF UiEffect
    <3> QED
      BY <1>1, <1>2, <3>1
  <2>5. CASE Hold \/ Offer
    <3>1. UiEffect
      BY <1>0, <2>5, HoldDoes, OfferDoes DEF UiEffect
    <3> QED
      BY <1>1, <1>2, <3>1
  <2> QED
    BY <2>1, <2>2, <2>3, <2>4, <2>5 DEF Orchestrate
<1> QED
  BY <1>4, <1>5, <1>6

LEMMA AnsweredUi ==
  ASSUME VInv, "Failed" \notin UserMoves, UserActs \/ UiStep
  PROVE  Answered'
<1> USE DEF VInv, AInv
<1>0. /\ IInv /\ Grows /\ UiStays
      /\ \A i \in made : /\ task'[i].result = task[i].result
                         /\ task'[i].status = task[i].status \/ task'[i].status # "Failed"
  BY UiKeeps DEF Moved
<1>1. ASSUME NEW r \in Run PROVE Verdict(r)'
  <2>1. pc'[r] = pc[r] /\ cur'[r] = cur[r] /\ copy'[r] = copy[r] /\ Verdict(r)
    BY <1>0 DEF UiStays, Answered
  <2>2. CASE pc[r] \in AtHand
    <3>1. PICK k \in made : k = cur[r]
      BY <1>0, <2>2, Hand
    <3>2. /\ Remediable(k) => Remediable(k)'
          /\ Remedied(k) => Remedied(k)'
      BY <1>0, RemediableKept
    <3>3. /\ Remediable(cur[r]) => Remediable(cur[r])'
          /\ Remedied(cur[r]) => Remedied(cur[r])'
      BY <2>1, <3>1, <3>2
    <3>4. /\ task[cur[r]].status # "Failed" => task'[cur'[r]].status # "Failed"
          /\ task'[cur'[r]].result = task[cur[r]].result
      BY <1>0, <2>1, <3>1
    <3> QED
      BY <2>1, <3>3, <3>4 DEF Verdict
  <2>3. CASE pc[r] \notin AtHand
    BY <2>1, <2>3 DEF Verdict, AtHand, Work, Remedying
  <2> QED
    BY <2>2, <2>3
<1>2. ASSUME NEW i \in made', Rejected(i)', \A q \in Run : cur'[q] # i
      PROVE  i \in made /\ Rejected(i) /\ (\A q \in Run : cur[q] # i)
  <2>1. i \in made
    BY <1>0, <1>2, UiKeeps DEF Rejected
  <2> QED
    BY <1>0, <1>2, <2>1 DEF Rejected, UiStays
<1> QED
  BY <1>0, <1>1, <1>2, AnsweredFrame

LEMMA InitVInv == Init => VInv
<1>1. Init => Answered
  BY DEF Init, Answered, Verdict, Work, Remedying, Proc
<1> QED
  BY <1>1, InitAlone DEF VInv

LEMMA NextVInv ==
  ASSUME ~Overlap, "Failed" \notin UserMoves, VInv, [Next]_vars PROVE VInv'
<1>1. AInv'
  BY NextAlone DEF VInv
<1>2. CASE UNCHANGED vars
  <2>1. Answered'
    BY <1>2 DEF vars, board, local, VInv, Answered, Verdict, Rejected, Remediable, Remedied
  <2> QED
    BY <1>1, <2>1 DEF VInv
<1>3. ASSUME NEW r \in Run, StartRun(r) PROVE Answered'
  <2>1. /\ UNCHANGED board /\ pc'[r] = "pick" /\ Acts(r) /\ Same(r) /\ Idle /\ r \in Proc
    BY <1>3, StartRunDoes DEF VInv, AInv, Proc
  <2>2. \A q \in Run : pc'[q] \in {"idle", "pick"} /\ cur'[q] = cur[q]
    BY <2>1 DEF Acts, Unseen, Same, Idle, Proc
  <2>3. \A q \in Run : Verdict(q)'
    BY <2>2 DEF Verdict, Work, Remedying
  <2> QED
    BY <2>1, <2>2, <2>3 DEF VInv, Answered, Rejected, Remediable, Remedied, board
<1> QED
  BY <1>1, <1>2, <1>3, AnsweredRun, AnsweredUi DEF Next, VInv

(* While one run is made at a time and the user fails no task by hand, a   *)
(* critic's rejection is never left without an answer: when the run has    *)
(* let go of the critic, a plan to remedy its verdict exists, whatever     *)
(* became of the critic and of the plan since - and a verdict on a remedy  *)
(* is not answered by another, so the chain ends with the user.            *)
THEOREM VerdictsAnswered ==
  ASSUME ~Overlap, "Failed" \notin UserMoves PROVE Spec => []RejectionAnswered
<1>1. VInv => RejectionAnswered
  BY DEF VInv, Answered, Rejected, Remediable, Remedied, RejectionAnswered
<1>2. VInv /\ [Next]_vars => VInv'
  BY NextVInv
<1> QED
  BY <1>1, <1>2, InitVInv, PTL DEF Spec

-----------------------------------------------------------------------------
(* Every run comes closer to its return with each of its steps: it spends  *)
(* the steps it may take, goes on to a later await, or has less left to do *)
(* at the one it is at.                                                    *)

\* How many awaits later than the return an await is, along the longest path.
Stage(l) ==
  CASE l = "idle" -> 0
    [] l = "pick" -> 1
    [] l \in {"requeue", "fail", "give_up", "settle", "escalate", "conclude"} -> 2
    [] l = "links" -> 3
    [] l = "stages" -> 4
    [] l = "begin" -> 5
    [] l = "remedy" -> 6
    [] l = "fail_critic" -> 7
    [] l \in {"store", "store_bad", "store_error"} -> 8
    [] l = "execute" -> 9
    [] l = "start" -> 10
    [] l = "put" -> 11
    [] l \in {"repair", "link"} -> 12
    [] OTHER -> 13

\* What is left to do at an await where a command loops.
Remaining(r) ==
  CASE pc[r] = "links" -> Len(stages[r]) - linked[r]
    [] pc[r] = "stages" -> Len(Debug) - Len(stages[r])
    [] pc[r] = "repair" -> 2 * Cardinality(todo[r])
    [] pc[r] = "link" -> 2 * Cardinality(todo[r]) - 1
    [] OTHER -> 0

\* Less, in the lexicographic order of three natural numbers.
Closer(r) ==
  /\ left'[r] \in Nat /\ left[r] \in Nat
  /\ Stage(pc'[r]) \in Nat /\ Stage(pc[r]) \in Nat
  /\ \/ left'[r] < left[r]
     \/ /\ left'[r] = left[r]
        /\ \/ Stage(pc'[r]) < Stage(pc[r])
           \/ /\ Stage(pc'[r]) = Stage(pc[r])
              /\ Remaining(r)' \in Nat /\ Remaining(r) \in Nat
              /\ Remaining(r)' < Remaining(r)

\* The repair of an artifact that is submitted and not yet linked is still due,
\* and there are only so many tasks.
Due(r) == pc[r] = "link" => task[fresh[r]].about \in todo[r]

MInv == IInv /\ IsFiniteSet(made) /\ \A r \in Run : Due(r)

LEMMA StageValues ==
  /\ Stage("idle") = 0 /\ Stage("pick") = 1 /\ Stage("requeue") = 2 /\ Stage("fail") = 2
  /\ Stage("give_up") = 2 /\ Stage("settle") = 2 /\ Stage("escalate") = 2
  /\ Stage("conclude") = 2 /\ Stage("links") = 3 /\ Stage("stages") = 4
  /\ Stage("begin") = 5 /\ Stage("remedy") = 6 /\ Stage("fail_critic") = 7
  /\ Stage("store") = 8 /\ Stage("store_bad") = 8 /\ Stage("store_error") = 8
  /\ Stage("execute") = 9 /\ Stage("start") = 10 /\ Stage("put") = 11
  /\ Stage("repair") = 12 /\ Stage("link") = 12 /\ Stage("attach") = 13
BY DEF Stage

LEMMA ReturnCloser ==
  ASSUME IInv, NEW r \in Run, pc[r] # "idle", Return(r)
  PROVE  Closer(r)
<1>1. left'[r] = 0 /\ pc'[r] = "idle"
  BY Hand DEF Return, Leave, Goto, TypeOK
<1>2. pc[r] \in RunPlaces /\ left[r] \in 0..MaxSteps /\ MaxSteps \in Nat
  BY Hand, BoundsAssumption DEF Sound, TypeOK
<1>3. Stage(pc[r]) \in Nat /\ Stage(pc[r]) > 0
  BY <1>2, StageValues DEF RunPlaces, AtHand, Work, Remedying
<1> QED
  BY <1>1, <1>2, <1>3, StageValues DEF Closer

LEMMA GotoCloser ==
  ASSUME IInv, NEW r \in Run, NEW l, pc'[r] = l, left'[r] = left[r],
         Stage(l) \in Nat, Stage(pc[r]) \in Nat, Stage(l) < Stage(pc[r])
  PROVE  Closer(r)
<1>1. left[r] \in 0..MaxSteps /\ MaxSteps \in Nat
  BY Hand, BoundsAssumption DEF TypeOK
<1> QED
  BY <1>1 DEF Closer

LEMMA LoopCloser ==
  ASSUME IInv, NEW r \in Run, left'[r] = left[r],
         Stage(pc'[r]) = Stage(pc[r]), Stage(pc[r]) \in Nat,
         Remaining(r)' \in Nat, Remaining(r) \in Nat, Remaining(r)' < Remaining(r)
  PROVE  Closer(r)
<1>1. left[r] \in 0..MaxSteps /\ MaxSteps \in Nat
  BY Hand, BoundsAssumption DEF TypeOK
<1> QED
  BY <1>1 DEF Closer

LEMMA AgainCloser ==
  ASSUME IInv, NEW r \in Run, pc[r] \in AtHand, Again(r)
  PROVE  Closer(r)
<1>1. left'[r] = left[r] /\ pc'[r] = "pick"
  BY Hand DEF Again, Leave, Goto, TypeOK
<1>2. Stage(pc[r]) \in Nat /\ Stage(pc[r]) > 1
  BY StageValues DEF AtHand, Work, Remedying
<1> QED
  BY <1>1, <1>2, StageValues, GotoCloser

LEMMA PickCloser == ASSUME IInv, NEW r \in Run, Pick(r) PROVE Closer(r)
<1>1. /\ left[r] \in 0..MaxSteps /\ MaxSteps \in Nat /\ left[r] > 0
      /\ left'[r] = left[r] - 1
  BY Hand, BoundsAssumption DEF TypeOK, Pick
<1>2. pc[r] = "pick" /\ pc'[r] = "attach"
  BY PickDoes
<1> QED
  BY <1>1, <1>2, StageValues DEF Closer

\* Each artifact is repaired by two calls, or needs none.
LEMMA RepairCloser ==
  ASSUME MInv, NEW r \in Run, Repair(r) \/ LinkRepair(r) PROVE Closer(r)
<1>1. /\ TypeOK /\ r \in Proc /\ IInv /\ IsFiniteSet(todo[r])
      /\ Cardinality(todo[r]) \in Nat
  <2>1. IInv /\ todo[r] \in SUBSET made /\ IsFiniteSet(made) /\ TypeOK /\ r \in Proc
    BY Hand DEF MInv, TypeOK
  <2> QED
    BY <2>1, FS_Subset, FS_CardinalityType
<1> DEFINE n == Cardinality(todo[r])
<1>2. ASSUME NEW j \in todo[r], todo' = [todo EXCEPT ![r] = @ \ {j}]
      PROVE  Cardinality(todo'[r]) = n - 1 /\ n - 1 \in Nat
  <2>1. todo'[r] = todo[r] \ {j} /\ n # 0
    BY <1>1, <1>2, FS_EmptySet DEF TypeOK
  <2>2. Cardinality(todo'[r]) = n - 1
    BY <1>1, <2>1, FS_RemoveElement
  <2> QED
    BY <1>1, <2>1, <2>2
<1>3. CASE Repair(r)
  <2>1. PICK j \in todo[r] :
          IF Repairing(cur[r], j)
          THEN todo' = [todo EXCEPT ![r] = @ \ {j}] /\ UNCHANGED pc
          ELSE Goto(r, "link") /\ UNCHANGED todo
    BY <1>3 DEF Repair
  <2>2. pc[r] = "repair" /\ left'[r] = left[r] /\ n # 0
    BY <1>1, <1>3, <2>1, FS_EmptySet DEF Repair
  <2>3. Remaining(r) = 2 * n
    BY <2>2 DEF Remaining
  <2>4. CASE Repairing(cur[r], j)
    <3>1. pc'[r] = "repair" /\ Remaining(r)' = 2 * (n - 1) /\ n - 1 \in Nat
      BY <1>2, <2>1, <2>2, <2>4 DEF Remaining
    <3>2. Remaining(r)' \in Nat /\ Remaining(r) \in Nat /\ Remaining(r)' < Remaining(r)
      BY <1>1, <2>3, <3>1
    <3> QED
      BY <1>1, <2>2, <3>1, <3>2, StageValues, LoopCloser
  <2>5. CASE ~Repairing(cur[r], j)
    <3>1. pc'[r] = "link" /\ todo'[r] = todo[r]
      BY <1>1, <2>1, <2>5 DEF Goto, TypeOK
    <3>2. Remaining(r)' = 2 * n - 1
      BY <3>1 DEF Remaining
    <3>3. Remaining(r)' \in Nat /\ Remaining(r) \in Nat /\ Remaining(r)' < Remaining(r)
      BY <1>1, <2>2, <2>3, <3>2
    <3> QED
      BY <1>1, <2>2, <3>1, <3>3, StageValues, LoopCloser
  <2> QED
    BY <2>4, <2>5
<1>4. CASE LinkRepair(r)
  <2>1. PICK j \in todo[r] : todo' = [todo EXCEPT ![r] = @ \ {j}]
    BY <1>4 DEF LinkRepair, MInv, Due
  <2>2. pc[r] = "link" /\ pc'[r] = "repair" /\ left'[r] = left[r]
    BY <1>1, <1>4 DEF LinkRepair, Goto, TypeOK
  <2>3. Remaining(r) = 2 * n - 1 /\ Remaining(r)' = 2 * (n - 1) /\ n - 1 \in Nat
    BY <1>2, <2>1, <2>2 DEF Remaining
  <2>4. Remaining(r)' \in Nat /\ Remaining(r) \in Nat /\ Remaining(r)' < Remaining(r)
    BY <1>1, <2>3
  <2> QED
    BY <1>1, <2>2, <2>4, StageValues, LoopCloser
<1> QED
  BY <1>3, <1>4

\* A plan is submitted stage by stage, linked stage by stage, and then over.
LEMMA PlanCloser ==
  ASSUME IInv, NEW r \in Run, Orchestrate(r) PROVE Closer(r)
<1>0. TypeOK /\ r \in Proc /\ r # "ui" /\ Sound(r)
  BY Hand
<1>1. CASE BeginPlan(r)
  <2>1. CASE Accepts(fresh[r], "InProgress")
    <3>1. pc[r] = "begin" /\ pc'[r] = "stages" /\ left'[r] = left[r]
      BY <1>0, <1>1, <2>1 DEF BeginPlan, Goto, TypeOK
    <3> QED
      BY <3>1, StageValues, GotoCloser
  <2>2. CASE ~Accepts(fresh[r], "InProgress")
    BY <1>1, <2>2, ReturnCloser DEF BeginPlan
  <2> QED
    BY <2>1, <2>2
<1>2. CASE SubmitStage(r)
  <2>1. /\ pc[r] = "stages" /\ pc'[r] = "stages" /\ left'[r] = left[r]
        /\ Len(stages[r]) < Len(Workflow(fresh[r]))
        /\ \E i \in Id : stages' = [stages EXCEPT ![r] = Append(@, i)]
    BY <1>2 DEF SubmitStage
  <2>2. Workflow(fresh[r]) = Debug
    BY <1>0, <2>1 DEF Sound, Workflow
  <2>3. Len(stages[r]) \in Nat /\ Len(stages'[r]) = Len(stages[r]) + 1
    BY <1>0, <2>1 DEF TypeOK
  <2>4. Len(Debug) \in Nat
    BY PlansAssumption
  <2>5. /\ Remaining(r) = Len(Debug) - Len(stages[r])
        /\ Remaining(r)' = Len(Debug) - (Len(stages[r]) + 1)
    BY <2>1, <2>3 DEF Remaining
  <2>6. Remaining(r)' \in Nat /\ Remaining(r) \in Nat /\ Remaining(r)' < Remaining(r)
    BY <2>1, <2>2, <2>3, <2>4, <2>5
  <2> QED
    BY <2>1, <2>6, StageValues, LoopCloser
<1>3. CASE StagesSubmitted(r)
  <2>1. pc[r] = "stages" /\ pc'[r] = "links" /\ left'[r] = left[r]
    BY <1>0, <1>3 DEF StagesSubmitted, Goto, TypeOK
  <2> QED
    BY <2>1, StageValues, GotoCloser
<1>4. CASE LinkStage(r)
  <2>1. /\ pc[r] = "links" /\ pc'[r] = "links" /\ left'[r] = left[r]
        /\ linked[r] < Len(stages[r]) /\ stages'[r] = stages[r]
        /\ linked'[r] = linked[r] + 1
    BY <1>0, <1>4 DEF LinkStage, TypeOK
  <2>2. linked[r] \in Nat /\ Len(stages[r]) \in Nat
    BY <1>0 DEF TypeOK
  <2>3. /\ Remaining(r) = Len(stages[r]) - linked[r]
        /\ Remaining(r)' = Len(stages[r]) - (linked[r] + 1)
    BY <2>1 DEF Remaining
  <2>4. Remaining(r)' \in Nat /\ Remaining(r) \in Nat /\ Remaining(r)' < Remaining(r)
    BY <2>1, <2>2, <2>3
  <2> QED
    BY <2>1, <2>4, StageValues, LoopCloser
<1>5. CASE StagesLinked(r)
  <2>1. pc[r] = "links" /\ pc'[r] = "conclude" /\ left'[r] = left[r]
    BY <1>0, <1>5 DEF StagesLinked, Goto, TypeOK
  <2> QED
    BY <2>1, StageValues, GotoCloser
<1> QED
  BY <1>1, <1>2, <1>3, <1>4, <1>5 DEF Orchestrate

LEMMA RunStepCloser ==
  ASSUME MInv, NEW r \in Run, RunStep(r) PROVE pc[r] # "idle" /\ Closer(r)
<1>0. IInv /\ TypeOK /\ r \in Proc
  BY Hand DEF MInv
<1>1. pc[r] # "idle"
  BY <1>0, RunStepActs
<1>2. CASE Pick(r) \/ Repair(r) \/ LinkRepair(r) \/ Orchestrate(r)
  <2>1. Pick(r) => Closer(r)
    BY <1>0, PickCloser
  <2>2. Repair(r) \/ LinkRepair(r) => Closer(r)
    BY RepairCloser
  <2>3. Orchestrate(r) => Closer(r)
    BY <1>0, PlanCloser
  <2> QED
    BY <1>1, <1>2, <2>1, <2>2, <2>3
<1>3. CASE Finish(r) \/ GiveUp(r) \/ Escalate(r) \/ Conclude(r)
  BY <1>0, <1>1, <1>3, ReturnCloser DEF Finish, GiveUp, Escalate, Conclude
<1>4. CASE PutBack(r) \/ Requeue(r)
  BY <1>0, <1>4, AgainCloser DEF PutBack, Requeue, AtHand, Work
<1>5. CASE Fail(r) \/ Settle(r)
  <2>1. (pc[r] \in AtHand /\ Again(r)) \/ Return(r)
    BY <1>5 DEF Fail, Settle, SetAndEnd, SetStatus, AtHand, Work
  <2> QED
    BY <1>0, <1>1, <2>1, ReturnCloser, AgainCloser
<1>6. CASE Start(r) \/ FailCritic(r)
  <2>1. \/ Return(r)
        \/ /\ left'[r] = left[r]
           /\ \/ pc[r] = "start" /\ pc'[r] = "execute"
              \/ pc[r] = "fail_critic" /\ pc'[r] = "remedy"
    BY <1>0, <1>6 DEF Start, FailCritic, SetAndGo, SetStatus, Goto, TypeOK
  <2> QED
    BY <1>0, <1>1, <2>1, StageValues, ReturnCloser, GotoCloser
<1>7. CASE Attach(r)
  <2>1. pc[r] = "attach" /\ pc'[r] \in {"put", "repair"} /\ left'[r] = left[r]
    BY <1>0, <1>7 DEF Attach, Goto, TypeOK
  <2> QED
    BY <1>0, <2>1, StageValues, GotoCloser
<1>8. CASE Put(r) \/ Store(r) \/ StoreBad(r) \/ StoreError(r)
  <2>1. left'[r] = left[r]
    BY <1>8 DEF Put, Store, StoreBad, StoreError
  <2> QED
    BY <1>0, <1>8, <2>1, StageValues, PutDoes, GotoCloser
<1>9. CASE Execute(r)
  <2>1. /\ pc[r] = "execute" /\ left'[r] = left[r]
        /\ pc'[r] \in {"store", "store_bad", "store_error"}
    BY <1>0, <1>9 DEF Execute, Goto, TypeOK
  <2> QED
    BY <1>0, <2>1, StageValues, GotoCloser
<1>10. CASE Remedy(r)
  <2>1. pc[r] = "remedy" /\ pc'[r] = "begin" /\ left'[r] = left[r]
    BY <1>0, <1>10 DEF Remedy, Goto, TypeOK
  <2> QED
    BY <1>0, <2>1, StageValues, GotoCloser
<1> QED
  BY <1>1, <1>2, <1>3, <1>4, <1>5, <1>6, <1>7, <1>8, <1>9, <1>10 DEF RunStep

\* A run that is not made begins with its first step.
LEMMA IdleStarts ==
  ASSUME IInv, NEW r \in Run, pc[r] = "idle", [Next]_vars PROVE pc'[r] \in {"idle", "pick"}
<1>0. TypeOK /\ r \in Proc /\ r # "ui" /\ "ui" \in Proc
  BY Hand DEF Proc
<1>1. CASE UNCHANGED vars
  BY <1>1 DEF vars, local
<1>2. CASE UserActs
  <2>1. Acts("ui") \/ UNCHANGED local
    BY <1>2, SubmitGoalDoes, DecidePlanDoes, UserMoveDoes DEF UserActs
  <2> QED
    BY <1>0, <2>1 DEF Acts, Unseen, local
<1>3. CASE UiStep
  <2>1. CASE Orchestrate("ui")
    BY <1>0, <2>1, BeginPlanDoes, SubmitStageDoes, StagesSubmittedDoes, LinkStageDoes,
       StagesLinkedDoes DEF Orchestrate, Acts, Unseen
  <2>2. CASE Hold \/ Free \/ Drop \/ Offer \/ ApprovePlan \/ RejectPlan
    BY <1>0, <2>2, HoldDoes, FreeDoes, OfferDoes DEF Acts, Unseen
  <2> QED
    BY <1>3, <2>1, <2>2 DEF UiStep
<1>4. ASSUME NEW q \in Run, StartRun(q) PROVE pc'[r] \in {"idle", "pick"}
  BY <1>0, <1>4, StartRunDoes DEF Acts, Unseen
<1>5. ASSUME NEW q \in Run, RunStep(q) PROVE pc'[r] \in {"idle", "pick"}
  <2>1. Acts(q) /\ pc[q] # "idle"
    BY <1>5, RunStepActs
  <2> QED
    BY <1>0, <2>1 DEF Acts, Unseen
<1> QED
  BY <1>1, <1>2, <1>3, <1>4, <1>5 DEF Next

\* Others leave a run where it is.
LEMMA OthersLeave ==
  ASSUME IInv, NEW r \in Run, pc[r] # "idle", [Next]_vars, ~RunStep(r)
  PROVE  Unseen(r) /\ left'[r] = left[r]
<1>0. TypeOK /\ r \in Proc /\ r # "ui" /\ "ui" \in Proc
  BY Hand DEF Proc
<1>1. CASE UNCHANGED vars
  BY <1>1 DEF vars, local, Unseen
<1>2. CASE UserActs
  <2>1. Acts("ui") \/ UNCHANGED local
    BY <1>2, SubmitGoalDoes, DecidePlanDoes, UserMoveDoes DEF UserActs
  <2>2. left' = left
    BY <1>2 DEF UserActs, SubmitGoal, DecidePlan, ApproveReview, RejectReview, SetTaskStatus,
                local
  <2> QED
    BY <1>0, <2>1, <2>2 DEF Acts, Unseen, local
<1>3. CASE UiStep
  <2>1. Acts("ui")
    <3>1. CASE Orchestrate("ui")
      BY <1>0, <3>1, BeginPlanDoes, SubmitStageDoes, StagesSubmittedDoes, LinkStageDoes,
         StagesLinkedDoes DEF Orchestrate
    <3> QED
      BY <1>3, <3>1, HoldDoes, FreeDoes, OfferDoes DEF UiStep
  <2>2. left'[r] = left[r]
    <3>1. left' = left \/ Return("ui")
      BY <1>3 DEF UiStep, Orchestrate, BeginPlan, SubmitStage, StagesSubmitted, LinkStage,
                  StagesLinked, Hold, Offer, Free, ApprovePlan, Drop, RejectPlan, Each
    <3> QED
      BY <1>0, <3>1 DEF Return, TypeOK
  <2> QED
    BY <1>0, <2>1, <2>2 DEF Acts
<1>4. ASSUME NEW q \in Run, StartRun(q) PROVE Unseen(r) /\ left'[r] = left[r]
  <2>1. q # r /\ Acts(q) /\ left' = [left EXCEPT ![q] = MaxSteps]
    BY <1>4, StartRunDoes DEF StartRun
  <2> QED
    BY <1>0, <2>1 DEF Acts, TypeOK
<1>5. ASSUME NEW q \in Run, RunStep(q) PROVE Unseen(r) /\ left'[r] = left[r]
  <2>1. q # r /\ Acts(q)
    BY <1>5, RunStepActs
  <2>2. \/ left' = left \/ left' = [left EXCEPT ![q] = @ - 1] \/ Return(q)
    BY <1>5 DEF RunStep, Pick, Finish, Attach, Repair, LinkRepair, PutBack, Put, Start,
                Execute, StoreError, GiveUp, StoreBad, Requeue, Fail, Store, Settle, Escalate,
                FailCritic, Remedy, Conclude, Orchestrate, SetAndGo, SetAndEnd, SetStatus,
                Again, BeginPlan, SubmitStage, StagesSubmitted, LinkStage, StagesLinked
  <2> QED
    BY <1>0, <2>1, <2>2 DEF Acts, Return, TypeOK
<1> QED
  BY <1>1, <1>2, <1>3, <1>4, <1>5 DEF Next

\* One task is made at a time.
OneStep ==
  \/ UNCHANGED board
  \/ \E i, s : Moved(i, s)
  \/ \E r, new : Written(r, new)
  \/ \E i, new : Created(i, new)
  \/ UNCHANGED <<made, task>> /\ \E i, j \in made : deps' = deps \cup {<<i, j>>}

LEMMA NextMakes ==
  ASSUME IInv, [Next]_vars
  PROVE  Grows /\ (made' = made \/ \E i : made' = made \cup {i})
<1> SUFFICES OneStep
  BY BoardGrows DEF OneStep, IInv, board, Moved, Written, Created
<1>1. CASE UNCHANGED vars
  BY <1>1 DEF vars, board, OneStep
<1>2. CASE UserActs
  <2>1. CASE SubmitGoal
    BY <2>1, SubmitGoalDoes DEF OneStep
  <2>2. CASE DecidePlan
    BY <2>2, DecidePlanDoes DEF OneStep
  <2>3. CASE ApproveReview \/ RejectReview \/ SetTaskStatus
    BY <2>3, UserMoveDoes DEF OneStep
  <2> QED
    BY <1>2, <2>1, <2>2, <2>3 DEF UserActs
<1>3. CASE UiStep
  <2>0. "ui" \in Proc
    BY DEF Proc
  <2>1. CASE SubmitStage("ui")
    BY <2>0, <2>1, SubmitStageDoes DEF OneStep
  <2>2. CASE BeginPlan("ui") \/ StagesSubmitted("ui") \/ LinkStage("ui") \/ StagesLinked("ui")
    BY <2>0, <2>2, BeginPlanDoes, StagesSubmittedDoes, LinkStageDoes, StagesLinkedDoes
       DEF OneStep
  <2>3. CASE Hold
    BY <2>3, HoldDoes DEF OneStep
  <2>4. CASE Free \/ Drop
    BY <2>4, FreeDoes DEF OneStep
  <2>5. CASE Offer \/ ApprovePlan \/ RejectPlan
    BY <2>5, OfferDoes DEF OneStep
  <2> QED
    BY <1>3, <2>1, <2>2, <2>3, <2>4, <2>5 DEF UiStep, Orchestrate
<1>4. ASSUME NEW r \in Run, StartRun(r) PROVE OneStep
  BY <1>4, StartRunDoes DEF OneStep
<1>5. ASSUME NEW r \in Run, RunStep(r) PROVE OneStep
  BY <1>5, RunDoes DEF RunEffect, OneStep, board
<1> QED
  BY <1>1, <1>2, <1>3, <1>4, <1>5 DEF Next

\* Only a repair goes to the await where its task is linked.
LEMMA DueRun ==
  ASSUME IInv, NEW r \in Run, RunStep(r), Grows, pc'[r] = "link"
  PROVE  Due(r)'
<1>0. TypeOK /\ r \in Proc /\ r # "ui"
  BY Hand
<1>1. CASE Repair(r)
  <2>1. PICK i, new : Created(i, new) /\ fresh'[r] = i /\ new.about \in todo[r]
                      /\ todo'[r] = todo[r]
    BY <1>1, RepairDoes
  <2> QED
    BY <2>1 DEF Created, Due
<1>2. CASE ~Repair(r)
  <2>1. pc'[r] # "link"
    <3>1. CASE Orchestrate(r)
      BY <1>0, <3>1, BeginPlanDoes, SubmitStageDoes, StagesSubmittedDoes, LinkStageDoes,
         StagesLinkedDoes DEF Orchestrate
    <3>2. CASE Pick(r) \/ Attach(r) \/ LinkRepair(r) \/ Execute(r) \/ Remedy(r)
      BY <3>2, PickDoes, AttachDoes, LinkRepairDoes, ExecuteDoes, RemedyDoes
    <3>3. CASE Finish(r) \/ PutBack(r) \/ GiveUp(r) \/ Requeue(r) \/ Fail(r) \/ Settle(r)
               \/ Escalate(r) \/ Conclude(r)
      BY <3>3, EndDoes, PutBackDoes, SettleDoes DEF Over
    <3>4. CASE Put(r) \/ Store(r) \/ StoreBad(r) \/ StoreError(r)
      BY <3>4, PutDoes
    <3>5. CASE Start(r) \/ FailCritic(r)
      BY <3>5, SetAndGoDoes DEF Over
    <3> QED
      BY <1>2, <3>1, <3>2, <3>3, <3>4, <3>5 DEF RunStep
  <2> QED
    BY <2>1
<1> QED
  BY <1>1, <1>2

LEMMA InitMInv == Init => MInv
<1>1. Init => IsFiniteSet(made) /\ \A r \in Run : Due(r)
  BY FS_EmptySet DEF Init, Due, Proc
<1> QED
  BY <1>1, InitIInv DEF MInv

LEMMA NextMInv == ASSUME MInv, [Next]_vars PROVE MInv'
<1>1. IInv' /\ Grows /\ IInv
  BY NextIInv, NextMakes DEF MInv
<1>2. IsFiniteSet(made)'
  BY <1>1, NextMakes, FS_AddElement DEF MInv
<1>3. ASSUME NEW r \in Run, pc'[r] = "link" PROVE Due(r)'
  <2>1. CASE RunStep(r)
    BY <1>1, <1>3, <2>1, DueRun
  <2>2. CASE ~RunStep(r) /\ pc[r] # "idle"
    <3>1. Unseen(r) /\ fresh[r] \in made /\ Due(r)
      BY <1>1, <1>3, <2>2, OthersLeave, Hand DEF Sound, MInv, Unseen
    <3> QED
      BY <1>1, <1>3, <3>1 DEF Due, Unseen, Grows, Fixed
  <2>3. CASE ~RunStep(r) /\ pc[r] = "idle"
    <3>1. pc'[r] \in {"idle", "pick"}
      BY <1>1, <2>3, IdleStarts
    <3> QED
      BY <1>3, <3>1
  <2> QED
    BY <2>1, <2>2, <2>3
<1> QED
  BY <1>1, <1>2, <1>3 DEF MInv, Due

Progress(r) ==
  /\ RunStep(r) => Closer(r)
  /\ ~RunStep(r) /\ pc[r] # "idle" =>
       pc'[r] = pc[r] /\ left'[r] = left[r] /\ Remaining(r)' = Remaining(r)

(* A run never goes round in circles: whatever other commands overlap, and *)
(* however the user moves the cards it works on, each of its steps spends  *)
(* one of the steps it was given, or brings it to a later await, or leaves *)
(* it less to do at the one it is at (Closer is the lexicographic order of *)
(* three natural numbers), and nobody else's step sets it back.            *)
THEOREM RunsComeToAnEnd == Spec => [][\A r \in Run : Progress(r)]_vars
<1>1. MInv /\ [Next]_vars => \A r \in Run : Progress(r)
  <2> SUFFICES ASSUME MInv, [Next]_vars, NEW r \in Run PROVE Progress(r)
    OBVIOUS
  <2>1. RunStep(r) => Closer(r)
    BY RunStepCloser
  <2>2. ~RunStep(r) /\ pc[r] # "idle" => Unseen(r) /\ left'[r] = left[r]
    BY OthersLeave DEF MInv
  <2>3. Unseen(r) => pc'[r] = pc[r] /\ Remaining(r)' = Remaining(r)
    BY DEF Unseen, Remaining
  <2> QED
    BY <2>1, <2>2, <2>3 DEF Progress
<1>2. MInv /\ [Next]_vars => MInv'
  BY NextMInv
<1> QED
  BY <1>1, <1>2, InitMInv, PTL DEF Spec
=============================================================================
