----------------------- MODULE AdapterEvolution_proofs -----------------------
(***************************************************************************)
(* Whatever runs race and wherever they end, the rows of lora_adapters     *)
(* name directories that are there and have passed their checks, and the   *)
(* table of jobs tells the truth.                                          *)
(*                                                                         *)
(* None of it is inductive: that a row's directory is there after a        *)
(* removal needs that the run that removes it has inserted no row, and     *)
(* that no other process works on the same run.  IInv says what each place *)
(* of the call knows about its run.                                        *)
(***************************************************************************)
EXTENDS AdapterEvolution, TLAPS

\* Where a process has not inserted the row of its run.
Before == {"start", "train", "validate", "list", "gate", "discard", "fail",
           "rollback", "retire"}

\* Where the directory of a run is whole.
WholeAt == {"validate", "list", "gate", "retire", "register", "promote"}

\* A run belongs to one process, and to none once its job is closed.
Owned ==
  /\ \A p \in Proc : pc[p] # "idle" =>
       run[p] \in 1 .. runs /\ job[run[p]] \in {"queued", "running"}
  /\ \A p, q \in Proc :
       pc[p] # "idle" /\ pc[q] # "idle" /\ run[p] = run[q] => p = q

\* What has been done for the run of a process.
Done ==
  \A p \in Proc :
    /\ pc[p] \in Before => run[p] \notin Files
    /\ pc[p] \in WholeAt => run[p] \in disk
    /\ pc[p] \in {"retire", "register", "promote"} => run[p] \in passed
    /\ pc[p] = "list" /\ p \notin Gated => run[p] \in passed
    /\ pc[p] = "promote" => run[p] \in registered

Rows == Files \subseteq 1 .. runs /\ Usable

IInv == TypeOK /\ Owned /\ Done /\ Rows /\ JobTruth /\ Remains

-----------------------------------------------------------------------------
(* The versions.                                                           *)

\* The highest of 1, ..., n is n, and of none 0.
LEMMA LatestOf ==
  ASSUME NEW ids, NEW n \in Nat, ids \ Manual = 1 .. n
  PROVE  Latest(ids) = n /\ Numbered(ids)
<1> DEFINE S == (ids \ Manual) \cup {0}
<1>1. n \in S /\ \A k \in ids \ Manual : k <= n
  OBVIOUS
<1>2. \A m \in S : (\A k \in ids \ Manual : k <= m) => m = n
  OBVIOUS
<1>3. Latest(ids) = n
  BY <1>1, <1>2 DEF Latest
<1> QED BY <1>3 DEF Numbered

\* The version after those that were listed leaves no gap, even if it is taken by now.
LEMMA NextNumbered ==
  ASSUME NEW ids, NEW part \in SUBSET ids, Numbered(ids), Numbered(part)
  PROVE  /\ Latest(part) + 1 \in Nat \ Manual
         /\ Numbered(ids \cup {Latest(part) + 1})
<1> DEFINE m == Latest(part)
           n == Latest(ids)
           top == IF m < n THEN n ELSE n + 1
<1>1. m \in Nat /\ n \in Nat /\ part \ Manual = 1 .. m /\ ids \ Manual = 1 .. n
  BY DEF Numbered
<1>2. m + 1 \notin Manual
  BY <1>1, ManualAssumption
<1> HIDE DEF m, n
<1>3. m <= n
  <2>1. CASE m = 0
    BY <2>1, <1>1
  <2>2. CASE m > 0
    <3>1. m \in 1 .. n
      BY <1>1, <2>2
    <3> QED BY <3>1, <1>1
  <2> QED BY <2>1, <2>2, <1>1
<1>4. (ids \cup {m + 1}) \ Manual = 1 .. top
  <2>1. (ids \cup {m + 1}) \ Manual = (1 .. n) \cup {m + 1}
    BY <1>1, <1>2
  <2>2. (1 .. n) \cup {m + 1} = 1 .. top
    BY <1>1, <1>3
  <2> QED BY <2>1, <2>2
<1>5. Numbered(ids \cup {m + 1})
  <2>1. top \in Nat
    BY <1>1
  <2> QED BY <1>4, <2>1, LatestOf
<1> QED BY <1>1, <1>2, <1>5 DEF m

-----------------------------------------------------------------------------
(* The rows.                                                               *)

\* An upsert puts one row, active and with the given file, and leaves the others.
LEMMA UpsertedRows ==
  ASSUME TypeOK, NEW i, NEW file \in Run \cup Manual,
         adapter' = Upserted(i, file)
  PROVE  /\ Listed' = Listed \cup {i}
         /\ adapter' \in [Listed' -> Row]
         /\ Files' \subseteq Files \cup ({file} \ Manual)
         /\ Active \subseteq Active' /\ i \in Active'
<1>1. Listed' = Listed \cup {i}
  BY DEF Upserted, Listed
<1>2. \A k \in Listed' : adapter'[k] \in Row
  BY <1>1 DEF TypeOK, Upserted, Row
<1>3. adapter' = [k \in Listed' |-> adapter'[k]]
  BY <1>1 DEF Upserted
<1>4. \A k \in Listed' : adapter'[k].artifact = IF k = i THEN file ELSE adapter[k].artifact
  BY <1>1 DEF Upserted
<1>5. \A k \in Listed' : adapter'[k].active = IF k = i THEN TRUE ELSE adapter[k].active
  BY <1>1 DEF Upserted
<1>6. Files' \subseteq Files \cup ({file} \ Manual)
  BY <1>1, <1>4 DEF Files
<1>7. Active \subseteq Active' /\ i \in Active'
  BY <1>1, <1>5 DEF Active
<1> QED BY <1>1, <1>2, <1>3, <1>6, <1>7

\* A switch of one row's flag leaves the files and the other flags.
LEMMA SwitchedRows ==
  ASSUME TypeOK, NEW i \in Listed, NEW b \in BOOLEAN,
         adapter' = [adapter EXCEPT ![i].active = b]
  PROVE  /\ Listed' = Listed
         /\ adapter' \in [Listed' -> Row]
         /\ Files' = Files
         /\ \A k \in Listed \ {i} : k \in Active' <=> k \in Active
         /\ b => i \in Active'
<1>1. Listed' = Listed
  BY DEF Listed
<1>2. adapter' \in [Listed' -> Row]
  BY <1>1 DEF TypeOK, Row
<1>3. \A k \in Listed : adapter'[k].artifact = adapter[k].artifact
  BY DEF TypeOK, Row, Listed
<1>4. Files' = Files
  BY <1>1, <1>3 DEF Files
<1>5. \A k \in Listed \ {i} : adapter'[k].active = adapter[k].active
  BY DEF TypeOK, Row, Listed
<1>6. adapter'[i].active = b
  BY DEF TypeOK, Row, Listed
<1> QED BY <1>1, <1>2, <1>4, <1>5, <1>6 DEF Active

\* As long as the table stays, so does what is read from it.
LEMMA SameRows ==
  ASSUME UNCHANGED adapter
  PROVE  Listed' = Listed /\ Active' = Active /\ Files' = Files
BY DEF Listed, Active, Files

-----------------------------------------------------------------------------
(* The steps of a run.                                                     *)

\* Init establishes the invariant: nothing is listed and nobody works.
LEMMA Initially == Init => IInv
<1> SUFFICES ASSUME Init PROVE IInv
  OBVIOUS
<1>1. Listed = {} /\ Active = {} /\ Files = {}
  BY DEF Init, Listed, Active, Files
<1>2. Numbered({})
  <2>1. {} \ Manual = 1 .. 0
    OBVIOUS
  <2> QED BY <2>1, LatestOf
<1>3. TypeOK
  <2>1. adapter \in [Listed -> Row]
    BY <1>1 DEF Init
  <2>2. \A p \in Proc : known[p] = {} /\ old[p] = {}
    BY DEF Init
  <2>3. known \in [Proc -> SUBSET Listed] /\ old \in [Proc -> SUBSET Listed]
    BY DEF Init
  <2>4. Numbered(Listed) /\ \A p \in Proc : Numbered(known[p])
    BY <1>1, <1>2, <2>2
  <2>5. job \in [Run -> Status] /\ pc \in [Proc -> Place \cup {"idle"}]
    BY DEF Init, Status
  <2>6. run \in [Proc -> 0 .. MaxRuns] /\ runs \in 0 .. MaxRuns
    BY RunsAssumption DEF Init
  <2> QED BY <2>1, <2>2, <2>3, <2>4, <2>5, <2>6 DEF Init, TypeOK
<1>4. Owned /\ Done /\ JobTruth
  BY <1>1 DEF Init, Owned, Done, JobTruth, Before, WholeAt
<1>5. Rows /\ Remains
  BY <1>1 DEF Rows, Usable, Remains
<1> QED BY <1>3, <1>4, <1>5 DEF IInv

\* A new run gets the next number, which no row, job or process has.
LEMMA QueueJobKeeps ==
  ASSUME IInv, NEW p \in Proc, QueueJob(p)
  PROVE  IInv'
<1> USE DEF IInv
<1>1. Listed' = Listed /\ Active' = Active /\ Files' = Files
  BY SameRows DEF QueueJob
<1>2. runs + 1 \in Run /\ runs \in Nat /\ runs' = runs + 1
  BY RunsAssumption DEF QueueJob, TypeOK, Run
<1>3. TypeOK'
  BY <1>1, <1>2 DEF QueueJob, Goto, TypeOK, history, Run, Status, Place
<1>4. Owned'
  BY <1>2 DEF QueueJob, Goto, Owned, TypeOK, Run
<1>5. Done'
  BY <1>1, <1>2 DEF QueueJob, Goto, Done, Rows, TypeOK, Before, WholeAt, history
<1>6. Rows'
  BY <1>1, <1>2 DEF QueueJob, Rows, Usable, history
<1>7. JobTruth'
  BY <1>1, <1>2 DEF QueueJob, JobTruth, TypeOK, history
<1>8. Remains'
  BY <1>1 DEF QueueJob, Goto, Remains, TypeOK, history
<1> QED BY <1>3, <1>4, <1>5, <1>6, <1>7, <1>8

\* From the start of the job to the verdict, a run changes what is known of itself.
LEMMA StartJobKeeps ==
  ASSUME IInv, NEW p \in Proc, StartJob(p)
  PROVE  IInv'
<1> USE DEF IInv
<1>1. Listed' = Listed /\ Active' = Active /\ Files' = Files
  BY SameRows DEF StartJob
<1>2. run[p] \in Run /\ pc[p] # "idle"
  BY RunsAssumption DEF StartJob, Owned, TypeOK, Run
<1>3. TypeOK'
  BY <1>1, <1>2 DEF StartJob, SetJob, Goto, TypeOK, history, Status, Place
<1>4. Owned'
  BY <1>2 DEF StartJob, SetJob, Goto, Owned, TypeOK
<1>5. Done'
  BY <1>1, <1>2 DEF StartJob, Goto, Done, TypeOK, Before, WholeAt, history
<1>6. Rows'
  BY <1>1 DEF StartJob, Rows, Usable, history
<1>7. JobTruth'
  BY <1>1, <1>2 DEF StartJob, SetJob, JobTruth, TypeOK, history
<1>8. Remains'
  BY <1>1 DEF StartJob, Goto, Remains, TypeOK, history
<1> QED BY <1>3, <1>4, <1>5, <1>6, <1>7, <1>8

LEMMA TrainKeeps ==
  ASSUME IInv, NEW p \in Proc, Train(p) \/ TrainFails(p)
  PROVE  IInv'
<1> USE DEF IInv, Train, TrainFails
<1>1. Listed' = Listed /\ Active' = Active /\ Files' = Files
  BY SameRows
<1>2. run[p] \in Run /\ disk \subseteq disk' /\ disk' \subseteq disk \cup {run[p]}
  BY RunsAssumption DEF Owned, TypeOK, Run
<1>3. TypeOK'
  BY <1>1, <1>2 DEF Goto, TypeOK, history, Place
<1>4. Owned'
  BY DEF Goto, Owned, TypeOK
<1>5. Done'
  BY <1>1, <1>2 DEF Goto, Done, TypeOK, Before, WholeAt, history
<1>6. Rows'
  BY <1>1, <1>2 DEF Rows, Usable, history
<1>7. JobTruth'
  BY <1>1 DEF JobTruth, history
<1>8. Remains'
  BY <1>1 DEF Goto, Remains, TypeOK, history
<1> QED BY <1>3, <1>4, <1>5, <1>6, <1>7, <1>8

LEMMA VerdictKeeps ==
  ASSUME IInv, NEW p \in Proc, Validate(p) \/ Accept(p) \/ Reject(p)
  PROVE  IInv'
<1> USE DEF IInv, Validate, Accept, Reject
<1>1. Listed' = Listed /\ Active' = Active /\ Files' = Files
  BY SameRows DEF history
<1>2. run[p] \in Run /\ passed \subseteq passed' /\ passed' \subseteq passed \cup {run[p]}
  BY RunsAssumption DEF Owned, TypeOK, Run, history
<1>3. TypeOK'
  BY <1>1, <1>2 DEF Goto, TypeOK, history, Place
<1>4. Owned'
  BY DEF Goto, Owned, TypeOK, history
<1>5. Done'
  BY <1>1, <1>2 DEF Goto, Done, TypeOK, Before, WholeAt, history
<1>6. Rows'
  BY <1>1, <1>2 DEF Rows, Usable, history
<1>7. JobTruth'
  BY <1>1, <1>2 DEF JobTruth, history
<1>8. Remains'
  BY <1>1 DEF Goto, Remains, TypeOK, history
<1> QED BY <1>3, <1>4, <1>5, <1>6, <1>7, <1>8

LEMMA ListKeeps ==
  ASSUME IInv, NEW p \in Proc, List(p)
  PROVE  IInv'
<1> USE DEF IInv, List
<1>1. Listed' = Listed /\ Active' = Active /\ Files' = Files
  BY SameRows DEF history
<1>2. TypeOK'
  BY <1>1 DEF Goto, TypeOK, history, Place, Active
<1>3. Owned'
  BY DEF Goto, Owned, TypeOK, history
<1>4. Done'
  BY <1>1 DEF Goto, Done, TypeOK, Before, WholeAt, history
<1>5. Rows'
  BY <1>1 DEF Rows, Usable, history
<1>6. JobTruth'
  BY <1>1 DEF JobTruth, history
<1>7. Remains'
  BY <1>1 DEF Goto, Remains, TypeOK, history
<1> QED BY <1>2, <1>3, <1>4, <1>5, <1>6, <1>7

\* Only the run's own directory is removed, which no row names yet.
LEMMA DiscardKeeps ==
  ASSUME IInv, NEW p \in Proc, Discard(p)
  PROVE  IInv'
<1> USE DEF IInv, Discard
<1>1. Listed' = Listed /\ Active' = Active /\ Files' = Files
  BY SameRows DEF history
<1>2. disk \ {run[p]} \subseteq disk' /\ disk' \subseteq disk /\ run[p] \notin Files
  BY DEF Done, Before
<1>3. \A q \in Proc \ {p} : pc[q] # "idle" => run[q] # run[p]
  BY DEF Owned
<1>4. TypeOK'
  BY <1>1, <1>2 DEF Goto, TypeOK, history, Place
<1>5. Owned'
  BY DEF Goto, Owned, TypeOK, history
<1>6. Done'
  BY <1>1, <1>2, <1>3 DEF Goto, Done, TypeOK, Before, WholeAt, history
<1>7. Rows'
  BY <1>1, <1>2 DEF Rows, Usable, history
<1>8. JobTruth'
  BY <1>1 DEF JobTruth, history
<1>9. Remains'
  BY <1>1 DEF Goto, Remains, TypeOK, history
<1> QED BY <1>4, <1>5, <1>6, <1>7, <1>8, <1>9

-----------------------------------------------------------------------------
(* The steps of a promotion and the ends of a run.                         *)

\* A row that is switched off leaves its process between the halves of the switch.
LEMMA RetireKeeps ==
  ASSUME IInv, NEW p \in Proc, Retire(p)
  PROVE  IInv'
<1> USE DEF IInv
<1>1. PICK i \in old[p] : /\ adapter' = [adapter EXCEPT ![i].active = FALSE]
                         /\ old' = [old EXCEPT ![p] = @ \ {i}]
  BY DEF Retire
<1>2. i \in Listed
  BY <1>1 DEF TypeOK
<1>3. Listed' = Listed /\ adapter' \in [Listed' -> Row] /\ Files' = Files
  BY <1>1, <1>2, SwitchedRows
<1>4. TypeOK'
  BY <1>1, <1>3 DEF Retire, TypeOK, history
<1>5. Owned'
  BY DEF Retire, Owned, history
<1>6. Done'
  BY <1>3 DEF Retire, Done, history
<1>7. Rows' /\ JobTruth'
  BY <1>3 DEF Retire, Rows, Usable, JobTruth, history
<1>8. Remains'
  BY DEF Retire, Remains
<1> QED BY <1>4, <1>5, <1>6, <1>7, <1>8

\* The new row names a directory that is whole and has passed every check.
LEMMA InsertKeeps ==
  ASSUME IInv, NEW p \in Proc, Insert(p)
  PROVE  IInv'
<1> USE DEF IInv
<1> DEFINE i == Next_adapter_id(p)
<1>1. /\ run[p] \in 1 .. runs /\ run[p] \in Run /\ run[p] \in passed /\ run[p] \in disk
      /\ job[run[p]] \in {"queued", "running"}
  BY RunsAssumption DEF Insert, Owned, Done, TypeOK, WholeAt, Run
<1>2. Numbered(Listed \cup {i})
  BY NextNumbered DEF TypeOK, Next_adapter_id
<1>3. /\ Listed' = Listed \cup {i} /\ adapter' \in [Listed' -> Row]
      /\ Files' \subseteq Files \cup {run[p]} /\ i \in Active'
  BY <1>1, UpsertedRows DEF Insert
<1>4. \A q \in Proc \ {p} : pc[q] # "idle" => run[q] # run[p]
  BY DEF Insert, Owned
<1>5. TypeOK'
  <2>1. known' \in [Proc -> SUBSET Listed'] /\ old' \in [Proc -> SUBSET Listed']
    BY <1>3 DEF Insert, TypeOK
  <2>2. Numbered(Listed')
    BY <1>2, <1>3
  <2> QED BY <1>3, <2>1, <2>2 DEF Insert, Goto, TypeOK, Place, history
<1>6. Owned'
  BY DEF Insert, Goto, Owned, TypeOK, history
<1>7. Done'
  BY <1>1, <1>3, <1>4 DEF Insert, Goto, Done, TypeOK, Before, WholeAt, history
<1>8. Rows'
  BY <1>1, <1>3 DEF Insert, Rows, Usable, history
<1>9. JobTruth'
  BY <1>1, <1>3 DEF Insert, JobTruth, history
<1>10. Remains'
  BY <1>3 DEF Remains
<1> QED BY <1>5, <1>6, <1>7, <1>8, <1>9, <1>10

LEMMA RegisterKeeps ==
  ASSUME IInv, NEW p \in Proc, Register(p)
  PROVE  IInv'
<1> USE DEF IInv, Register
<1>1. Listed' = Listed /\ Active' = Active /\ Files' = Files
  BY SameRows
<1>2. run[p] \in Run
  BY RunsAssumption DEF Owned, TypeOK, Run
<1>3. TypeOK'
  BY <1>1, <1>2 DEF Goto, TypeOK, Place
<1>4. Owned'
  BY DEF Goto, Owned, TypeOK
<1>5. Done'
  BY <1>1 DEF Goto, Done, TypeOK, Before, WholeAt
<1>6. Rows' /\ JobTruth'
  BY <1>1 DEF Rows, Usable, JobTruth
<1>7. Remains'
  BY <1>1 DEF Goto, Remains, TypeOK
<1> QED BY <1>3, <1>4, <1>5, <1>6, <1>7

\* Returning forgets; nobody is left to have done anything.
LEMMA ReturnKeeps ==
  ASSUME IInv, NEW p \in Proc, pc[p] # "idle", Return(p),
         UNCHANGED <<adapter, disk, runs, passed, registered>>,
         \A n \in Run : n # run[p] => job'[n] = job[n]
  PROVE  Owned' /\ Done' /\ Rows'
<1> USE DEF IInv
<1>1. Listed' = Listed /\ Active' = Active /\ Files' = Files
  BY SameRows
<1>2. \A q \in Proc : pc'[q] # "idle" =>
        q # p /\ pc'[q] = pc[q] /\ run'[q] = run[q]
  BY DEF Return, Goto, TypeOK
<1>3. Owned'
  <2>1. \A q \in Proc : pc'[q] # "idle" => pc[q] # "idle" /\ run[q] \in Run
    BY <1>2, RunsAssumption DEF Owned, TypeOK, Run
  <2> QED BY <1>2, <2>1 DEF Owned
<1>4. Done'
  BY <1>1, <1>2 DEF Done, Before, WholeAt
<1>5. Rows'
  BY <1>1 DEF Rows, Usable
<1> QED BY <1>3, <1>4, <1>5

\* The type of what a return forgets.
LEMMA ReturnTypes ==
  ASSUME TypeOK, NEW p \in Proc, Return(p), UNCHANGED adapter
  PROVE  /\ pc' \in [Proc -> Place \cup {"idle"}] /\ run' \in [Proc -> 0 .. MaxRuns]
         /\ known' \in [Proc -> SUBSET Listed'] /\ old' \in [Proc -> SUBSET Listed']
         /\ \A q \in Proc : old'[q] \subseteq known'[q] /\ Numbered(known'[q])
<1>1. Listed' = Listed
  BY SameRows
<1>2. Numbered({})
  <2>1. {} \ Manual = 1 .. 0
    OBVIOUS
  <2> QED BY <2>1, LatestOf
<1>3. 0 \in 0 .. MaxRuns
  BY RunsAssumption
<1>4. \A q \in Proc : old'[q] \subseteq known'[q] /\ Numbered(known'[q])
  BY <1>2 DEF Return, TypeOK
<1> QED BY <1>1, <1>3, <1>4 DEF Return, Goto, TypeOK

\* A job is closed as failed or rolled back before its run has a row.
LEMMA CloseKeeps ==
  ASSUME IInv, NEW p \in Proc, Close(p)
  PROVE  IInv'
<1> USE DEF IInv
<1> DEFINE status == IF pc[p] = "fail" THEN "failed" ELSE "rolled_back"
<1>1. Listed' = Listed /\ Active' = Active /\ Files' = Files
  BY SameRows DEF Close
<1>2. run[p] \in Run /\ run[p] \notin Files
  BY RunsAssumption DEF Close, Owned, Done, TypeOK, Before, Run
<1>3. job' = [job EXCEPT ![run[p]] = status] \/ job' = job
  BY DEF Close, TrySetJob, SetJob
<1>4. TypeOK'
  <2>1. job' \in [Run -> Status]
    BY <1>2, <1>3 DEF TypeOK, Status
  <2> QED BY <1>1, <2>1, ReturnTypes DEF Close, TypeOK, history
<1>5. Owned' /\ Done' /\ Rows'
  BY <1>3, ReturnKeeps DEF Close, history, TypeOK
<1>6. JobTruth'
  BY <1>1, <1>2, <1>3 DEF Close, JobTruth, TypeOK, history
<1>7. Remains'
  BY <1>1 DEF Close, Return, Goto, Remains, TypeOK, history
<1> QED BY <1>4, <1>5, <1>6, <1>7

\* A job is closed as promoted after the service has taken the adapter.
LEMMA PromoteKeeps ==
  ASSUME IInv, NEW p \in Proc, Promote(p)
  PROVE  IInv'
<1> USE DEF IInv
<1>1. Listed' = Listed /\ Active' = Active /\ Files' = Files
  BY SameRows DEF Promote
<1>2. run[p] \in Run /\ run[p] \in passed \cap registered
  BY RunsAssumption DEF Promote, Owned, Done, TypeOK, Run
<1>3. job' = [job EXCEPT ![run[p]] = "promoted"] \/ job' = job
  BY DEF Promote, TrySetJob, SetJob
<1>4. TypeOK'
  <2>1. job' \in [Run -> Status]
    BY <1>2, <1>3 DEF TypeOK, Status
  <2> QED BY <1>1, <2>1, ReturnTypes DEF Promote, TypeOK, history
<1>5. Owned' /\ Done' /\ Rows'
  BY <1>3, ReturnKeeps DEF Promote, history, TypeOK
<1>6. JobTruth'
  BY <1>1, <1>2, <1>3 DEF Promote, JobTruth, TypeOK, history
<1>7. Remains'
  BY <1>1 DEF Promote, Return, Goto, Remains, TypeOK, history
<1> QED BY <1>4, <1>5, <1>6, <1>7

\* A run that ends anywhere leaves its job as it is.
LEMMA LeaveKeeps ==
  ASSUME IInv, NEW p \in Proc, Leave(p)
  PROVE  IInv'
<1> USE DEF IInv
<1>1. Listed' = Listed /\ Active' = Active /\ Files' = Files
  BY SameRows DEF Leave
<1>2. TypeOK'
  BY <1>1, ReturnTypes DEF Leave, TypeOK
<1>3. Owned' /\ Done' /\ Rows'
  BY ReturnKeeps DEF Leave
<1>4. JobTruth'
  BY <1>1 DEF Leave, JobTruth
<1>5. Remains'
  BY <1>1 DEF Leave, Return, Goto, Remains, TypeOK
<1> QED BY <1>2, <1>3, <1>4, <1>5

-----------------------------------------------------------------------------
(* The operator, and the theorems.                                         *)

LEMMA RegisterManualKeeps ==
  ASSUME IInv, NEW i \in Manual, RegisterManual(i)
  PROVE  IInv'
<1> USE DEF IInv
<1>1. /\ Listed' = Listed \cup {i} /\ adapter' \in [Listed' -> Row]
      /\ Files' \subseteq Files /\ i \in Active'
  BY UpsertedRows DEF RegisterManual
<1>2. Numbered(Listed')
  <2>1. Listed' \ Manual = Listed \ Manual
    BY <1>1
  <2> QED BY <2>1, LatestOf DEF TypeOK, Numbered
<1>3. TypeOK'
  <2>1. known' \in [Proc -> SUBSET Listed'] /\ old' \in [Proc -> SUBSET Listed']
    BY <1>1 DEF RegisterManual, TypeOK, call
  <2> QED BY <1>1, <1>2, <2>1 DEF RegisterManual, TypeOK, call, history
<1>4. Owned'
  BY DEF RegisterManual, Owned, call, history
<1>5. Done'
  BY <1>1 DEF RegisterManual, Done, call, history
<1>6. Rows' /\ JobTruth'
  BY <1>1 DEF RegisterManual, Rows, Usable, JobTruth, history
<1>7. Remains'
  BY <1>1 DEF Remains
<1> QED BY <1>3, <1>4, <1>5, <1>6, <1>7

LEMMA SwapKeeps ==
  ASSUME IInv, NEW i \in Listed, Swap(i)
  PROVE  IInv'
<1> USE DEF IInv
<1>1. Listed' = Listed /\ adapter' \in [Listed' -> Row] /\ Files' = Files /\ i \in Active'
  BY SwitchedRows DEF Swap
<1>2. TypeOK'
  BY <1>1 DEF Swap, TypeOK, call, history
<1>3. Owned' /\ Done'
  BY <1>1 DEF Swap, Owned, Done, call, history
<1>4. Rows' /\ JobTruth'
  BY <1>1 DEF Swap, Rows, Usable, JobTruth, history
<1>5. Remains'
  BY <1>1 DEF Remains
<1> QED BY <1>2, <1>3, <1>4, <1>5

\* Every step keeps the invariant.
LEMMA Inductive == IInv /\ [Next]_vars => IInv'
<1> SUFFICES ASSUME IInv, [Next]_vars PROVE IInv'
  OBVIOUS
<1>1. ASSUME NEW p \in Proc, Step(p) PROVE IInv'
  BY <1>1, QueueJobKeeps, StartJobKeeps, TrainKeeps, VerdictKeeps, ListKeeps, DiscardKeeps,
     CloseKeeps, RetireKeeps, InsertKeeps, RegisterKeeps, PromoteKeeps, LeaveKeeps DEF Step
<1>2. ASSUME NEW i \in Manual, RegisterManual(i) PROVE IInv'
  BY <1>2, RegisterManualKeeps
<1>3. ASSUME NEW i \in Listed, Swap(i) PROVE IInv'
  BY <1>3, SwapKeeps
<1>4. CASE UNCHANGED vars
  <2>1. Listed' = Listed /\ Active' = Active /\ Files' = Files
    BY <1>4, SameRows DEF vars
  <2>2. TypeOK' /\ Owned' /\ Done'
    BY <1>4, <2>1 DEF IInv, TypeOK, Owned, Done, vars, call, history
  <2>3. Rows' /\ JobTruth' /\ Remains'
    BY <1>4, <2>1 DEF IInv, Rows, Usable, JobTruth, Remains, vars, call, history
  <2> QED BY <2>2, <2>3 DEF IInv
<1> QED BY <1>1, <1>2, <1>3, <1>4 DEF Next

LEMMA Invariant == Spec => []IInv
BY Initially, Inductive, PTL DEF Spec

\* Structures keep their types and versions have no gap, for any number of runs and
\* processes.
THEOREM TypeCorrect == Spec => []TypeOK
<1>1. IInv => TypeOK
  BY DEF IInv
<1> QED BY <1>1, Invariant, PTL

\* No adapter that tasks can be routed to has skipped a check of its process, and none
\* has lost its directory (train_and_register_with_examples, remove_adapter_artifact).
THEOREM AlwaysUsable == Spec => []Usable
<1>1. IInv => Usable
  BY DEF IInv, Rows
<1> QED BY <1>1, Invariant, PTL

\* The table training_jobs tells the truth about promotions and roll-backs.
THEOREM JobsTell == Spec => []JobTruth
<1>1. IInv => JobTruth
  BY DEF IInv
<1> QED BY <1>1, Invariant, PTL

\* A role with adapters has an active one outside of switches, lost or under way.
THEOREM OneActive == Spec => []Remains
<1>1. IInv => Remains
  BY DEF IInv
<1> QED BY <1>1, Invariant, PTL

\* Only a run that has passed its checks deactivates an adapter, and only one it has
\* been compared with.
THEOREM PreviousProtected == Spec => PreviousStays
<1> DEFINE Kept == \A i \in Active \ Active' :
                     \E p \in Proc : run[p] \in passed /\ i \in known[p]
<1>1. ASSUME IInv, Next PROVE Kept
  <2>1. CASE UNCHANGED adapter
    BY <2>1, SameRows
  <2>2. ASSUME NEW p \in Proc, Retire(p) PROVE Kept
    <3>1. PICK k \in old[p] : adapter' = [adapter EXCEPT ![k].active = FALSE]
      BY <2>2 DEF Retire
    <3>2. k \in Listed /\ k \in known[p]
      BY <3>1, <1>1 DEF IInv, TypeOK
    <3>3. \A i \in Active \ Active' : i = k
      BY <3>1, <3>2, <1>1, SwitchedRows DEF IInv, Active
    <3>4. run[p] \in passed
      BY <2>2, <1>1 DEF IInv, Done, Retire
    <3> QED BY <3>2, <3>3, <3>4
  <2>3. ASSUME NEW p \in Proc, Insert(p) PROVE Kept
    <3>1. run[p] \in Run
      BY <2>3, <1>1, RunsAssumption DEF IInv, Owned, Insert, TypeOK, Run
    <3>2. Active \subseteq Active'
      BY <3>1, <2>3, <1>1, UpsertedRows DEF IInv, Insert
    <3> QED BY <3>2
  <2>4. ASSUME NEW i \in Manual, RegisterManual(i) PROVE Kept
    <3>1. Active \subseteq Active'
      BY <2>4, <1>1, UpsertedRows DEF IInv, RegisterManual
    <3> QED BY <3>1
  <2>5. ASSUME NEW i \in Listed, Swap(i) PROVE Kept
    <3>1. Active \subseteq Active'
      BY <2>5, <1>1, SwitchedRows DEF IInv, Swap, Active
    <3> QED BY <3>1
  <2> QED
    BY <1>1, <2>1, <2>2, <2>3, <2>4, <2>5
    DEF Next, Step, QueueJob, StartJob, Train, TrainFails, Validate, List, Accept, Reject,
        Discard, Close, Register, Promote, Leave
<1>2. ASSUME UNCHANGED vars PROVE Kept
  BY <1>2, SameRows DEF vars
<1>3. IInv /\ [Next]_vars => [Kept]_vars
  BY <1>1, <1>2
<1> QED BY <1>3, Invariant, PTL DEF Spec, PreviousStays

=============================================================================
