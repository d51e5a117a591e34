--------------------- MODULE SurfaceOrchestratorProofs ---------------------
(***************************************************************************)
(* Theorems about SurfaceOrchestrator for every set of reports, commits    *)
(* and request threads, every client behaviour, any number of restarts and *)
(* whichever threads die: who moves a job on, what is left of a failed or  *)
(* lost one, and that a report nobody disturbs gets what the README        *)
(* promises of a deployment.                                               *)
(***************************************************************************)
EXTENDS SurfaceOrchestrator, TLAPS

WorkerSteps == {"cloning", "building", "built", "cleared", "started", "probing", "answered"}

\* What each thread knows of its own request while it is at a step.
ThreadsKnow ==
  /\ worker.pc # "idle" => worker.report \in Reports
  /\ reaper.pc \notin {"idle", "dead"} => reaper.report \in Reports
  /\ \A h \in Handlers : handler[h].pc # "idle" => handler[h].report \in Reports
  /\ \A h \in Handlers : handler[h].pc = "accepted" => handler[h].commit \in Commits
  /\ \A h \in Handlers : handler[h].pc = "put" => status[handler[h].report].commit \in Commits

\* Nobody but the worker calls a job failed, or one of the worker's states.
WorkerKnows ==
  /\ worker.pc \in WorkerSteps => status[worker.report].state # "failed"
  /\ worker.pc = "removing" =>
       status[worker.report].state \notin {"cloning", "building", "probing", "running"}

\* No thread of the restarted process is on a lost job, nor about to accept or
\* expire one that still looks active.
LostAreAbandoned ==
  \A r \in lost :
    /\ ~Owned(r)
    /\ status[r].state \in Active =>
         /\ \A h \in Handlers : ~(handler[h].pc = "accepted" /\ handler[h].report = r)
         /\ ~(reaper.pc \notin {"idle", "dead"} /\ reaper.report = r)

\* An active job that the process was not restarted over is in the queue, about to
\* be put there, or the worker's: of the living one, or left by the dead one.
ActiveJobsAreKnown ==
  \A r \in Reports \ lost :
    /\ status[r].state = "queued" =>
         \/ Waiting(r)
         \/ \E h \in Handlers : handler[h].pc = "put" /\ handler[h].report = r
         \/ worker.pc \in {"taken", "dead"} /\ worker.report = r
    /\ status[r].state \in {"cloning", "building", "probing"} =>
         worker.pc # "idle" /\ worker.report = r

IInv ==
  /\ TypeOK
  /\ ThreadsKnow
  /\ WorkerKnows
  /\ TasksHaveCommits
  /\ ActiveJobsAreKnown
  /\ FailedLeavesNoContainer
  /\ LostAreAbandoned

-----------------------------------------------------------------------------
\* The task queue under the two operations the threads use: what a put adds, and
\* what is left once the oldest task is taken.
LEMMA AppendTask ==
  ASSUME NEW S, NEW q \in Seq(S), NEW r \in S
  PROVE  /\ Append(q, r) \in Seq(S)
         /\ \E i \in 1..Len(Append(q, r)) : Append(q, r)[i] = r
         /\ \A i \in 1..Len(q) : i \in 1..Len(Append(q, r)) /\ Append(q, r)[i] = q[i]
         /\ \A i \in 1..Len(Append(q, r)) : Append(q, r)[i] = r \/ (i \in 1..Len(q) /\ Append(q, r)[i] = q[i])
  OBVIOUS

LEMMA TakeOldestTask ==
  ASSUME NEW S, NEW q \in Seq(S), q # <<>>
  PROVE  /\ Tail(q) \in Seq(S)
         /\ Head(q) \in S
         /\ 1 \in 1..Len(q) /\ q[1] = Head(q)
         /\ \A i \in 1..Len(q) : i = 1 \/ (i - 1 \in 1..Len(Tail(q)) /\ Tail(q)[i - 1] = q[i])
         /\ \A i \in 1..Len(Tail(q)) : i + 1 \in 1..Len(q) /\ Tail(q)[i] = q[i + 1]
  OBVIOUS

-----------------------------------------------------------------------------
\* What a write of the job file changes, and what it leaves as it was.
JobFilesAfter(r, s) ==
  /\ status' \in [Reports -> JobFile]
  /\ \A q \in Reports : status'[q].state = IF q = r THEN s ELSE status[q].state

LEMMA WriteStateEffect ==
  ASSUME status \in [Reports -> JobFile], NEW r \in Reports, NEW s \in States, WriteState(r, s)
  PROVE  JobFilesAfter(r, s) /\ \A q \in Reports : status'[q].commit = status[q].commit
  BY DEF WriteState, JobFile, JobFilesAfter

LEMMA PostWriteEffect ==
  ASSUME TypeOK, ThreadsKnow, NEW h \in Handlers, PostWrite(h)
  PROVE  /\ JobFilesAfter(handler[h].report, "queued")
         /\ \A q \in Reports :
              status'[q].commit = IF q = handler[h].report THEN handler[h].commit
                                                           ELSE status[q].commit
  <1> DEFINE r == handler[h].report  c == handler[h].commit
  <1>1. r \in Reports /\ c \in Commits /\ status \in [Reports -> JobFile]
    BY DEF TypeOK, ThreadsKnow, PostWrite
  <1>2. status' = [status EXCEPT ![r].state = "queued", ![r].commit = c]
    BY DEF PostWrite
  <1> QED
    BY <1>1, <1>2 DEF JobFilesAfter, JobFile, States, Active

LEMMA WriteRunningEffect ==
  ASSUME TypeOK, ThreadsKnow, WriteRunning
  PROVE  /\ JobFilesAfter(worker.report, "running")
         /\ \A q \in Reports : status'[q].commit = status[q].commit
  <1> DEFINE r == worker.report
  <1>1. r \in Reports /\ status \in [Reports -> JobFile]
    BY DEF TypeOK, ThreadsKnow, WriteRunning, WorkerAt
  <1>2. status' = [status EXCEPT ![r].state = "running", ![r].verified = TRUE, ![r].left = TTL]
    BY DEF WriteRunning
  <1> QED
    BY <1>1, <1>2, TTLAssumption DEF JobFilesAfter, JobFile, States, Active

\* What the two threads leave of the job file when they die.
LEMMA DeathEffect ==
  ASSUME TypeOK, ThreadsKnow, WorkerDies \/ ReaperDies
  PROVE  /\ status' \in [Reports -> JobFile]
         /\ \A q \in Reports : status'[q].commit = status[q].commit
         /\ \A q \in Reports :
              \/ status'[q].state = status[q].state
              \/ WorkerDies /\ worker.pc = "answered" /\ q = worker.report
                   /\ status'[q].state = "running"
              \/ ReaperDies /\ reaper.pc = "write" /\ q = reaper.report
                   /\ status'[q].state = "expired"
  <1>0. status \in [Reports -> JobFile]
    BY DEF TypeOK
  <1>1. CASE WorkerDies
    <2> DEFINE r == worker.report
    <2>1. r \in Reports
      BY <1>1 DEF WorkerDies, ThreadsKnow
    <2>2. CASE UNCHANGED status
      BY <1>0, <2>2
    <2>3. CASE /\ worker.pc = "answered"
               /\ status' = [status EXCEPT ![r].state = "running", ![r].verified = TRUE,
                                           ![r].left = TTL]
      BY <1>0, <1>1, <2>1, <2>3, TTLAssumption DEF JobFile, States, Active
    <2> QED
      BY <1>1, <2>2, <2>3 DEF WorkerDies, WorkerAt
  <1>2. CASE ReaperDies
    <2>1. CASE UNCHANGED status
      BY <1>0, <2>1
    <2>2. CASE reaper.pc = "write" /\ WriteState(reaper.report, "expired")
      <3>1. reaper.report \in Reports /\ "expired" \in States
        BY <2>2 DEF ThreadsKnow, States
      <3> QED
        BY <1>0, <1>2, <2>2, <3>1, WriteStateEffect DEF JobFilesAfter
    <2> QED
      BY <1>2, <2>1, <2>2 DEF ReaperDies
  <1> QED
    BY <1>1, <1>2

LEMMA TickEffect ==
  ASSUME TypeOK, Tick
  PROVE  /\ status' \in [Reports -> JobFile]
         /\ \A q \in Reports : status'[q].state = status[q].state
                               /\ status'[q].commit = status[q].commit
  <1>1. \A q \in Reports :
          status'[q] = [status[q] EXCEPT !.left = IF status[q].left = 0 THEN 0
                                                                       ELSE status[q].left - 1]
    BY DEF Tick
  <1>2. status' = [q \in Reports |-> status'[q]]
    BY DEF Tick
  <1>3. ASSUME NEW q \in Reports
        PROVE  /\ status'[q] \in JobFile
               /\ status'[q].state = status[q].state
               /\ status'[q].commit = status[q].commit
    <2>1. status[q] \in JobFile
      BY DEF TypeOK
    <2>2. (IF status[q].left = 0 THEN 0 ELSE status[q].left - 1) \in 0..TTL
      BY <2>1, TTLAssumption DEF JobFile
    <2> QED
      BY <1>1, <2>1, <2>2 DEF JobFile
  <1> QED
    BY <1>2, <1>3

\* A request thread that goes on, or starts, stays a thread.
LEMMA HandlerGoes ==
  ASSUME TypeOK, NEW h \in Handlers, handler' = [handler EXCEPT ![h].pc = "write"]
  PROVE  handler' \in [Handlers -> ThreadAt({"idle", "accepted", "put", "rmtree", "write"})]
  BY DEF TypeOK, ThreadAt

LEMMA WorkerGoesOn ==
  ASSUME TypeOK, NEW pc \in WorkerPcs, WorkerGoes(pc)
  PROVE  /\ worker' \in ThreadAt(WorkerPcs)
         /\ worker'.pc = pc /\ worker'.report = worker.report /\ worker'.commit = worker.commit
  BY DEF TypeOK, ThreadAt, WorkerGoes

-----------------------------------------------------------------------------
LEMMA InitIInv == Init => IInv
  <1> SUFFICES ASSUME Init PROVE IInv
    OBVIOUS
  <1> USE NoneAssumption, TTLAssumption DEF Init, Idle, Thread
  <1>1. TypeOK
    BY DEF TypeOK, ThreadAt, JobFile, States, Active, WorkerPcs, ReaperPcs
  <1>2. ThreadsKnow /\ WorkerKnows
    BY DEF ThreadsKnow, WorkerKnows, WorkerSteps
  <1>3. TasksHaveCommits /\ ActiveJobsAreKnown /\ FailedLeavesNoContainer
    BY DEF TasksHaveCommits, ActiveJobsAreKnown, FailedLeavesNoContainer
  <1>4. LostAreAbandoned
    BY DEF LostAreAbandoned
  <1> QED
    BY <1>1, <1>2, <1>3, <1>4 DEF IInv

\* The type invariant is inductive with what the threads know.
LEMMA NextTypeOK ==
  ASSUME TypeOK, ThreadsKnow, TasksHaveCommits, [Next]_vars
  PROVE  TypeOK'
  <1> USE NoneAssumption
  <1>0. Idle \in ThreadAt({"idle"}) /\ "queued" \in States /\ "destroyed" \in States
    BY DEF Idle, Thread, ThreadAt, States, Active
  <1> DEFINE H == ThreadAt({"idle", "accepted", "put", "rmtree", "write"})
  <1>1. ASSUME NEW h \in Handlers, Post(h) PROVE TypeOK'
    <2>1. CASE \E r \in Reports, c \in Commits : PostCheck(h, r, c)
      BY <2>1 DEF PostCheck, TypeOK, Thread, ThreadAt
    <2>2. CASE PostWrite(h)
      <3>1. status' \in [Reports -> JobFile]
        BY <2>2, PostWriteEffect DEF JobFilesAfter
      <3>2. handler[h].report \in Reports
        BY <2>2 DEF PostWrite, ThreadsKnow
      <3>3. handler' \in [Handlers -> H]
        BY <2>2, <3>2 DEF PostWrite, TypeOK, Thread, ThreadAt
      <3>4. disturbed' \subseteq Reports
        BY <2>2, <3>2 DEF PostWrite, Accepted, TypeOK
      <3> QED
        BY <2>2, <3>1, <3>3, <3>4 DEF PostWrite, TypeOK
    <2>3. CASE PostPut(h)
      <3>1. handler[h].report \in Reports
        BY <2>3 DEF PostPut, ThreadsKnow
      <3>2. tasks' \in Seq(Reports)
        BY <2>3, <3>1, AppendTask DEF PostPut, TypeOK
      <3> QED
        BY <1>0, <2>3, <3>2 DEF PostPut, TypeOK, ThreadAt
    <2> QED
      BY <1>1, <2>1, <2>2, <2>3 DEF Post
  <1>2. ASSUME NEW h \in Handlers, Delete(h) PROVE TypeOK'
    <2>1. CASE \E r \in Reports : DeleteContainer(h, r)
      <3> PICK r \in Reports : DeleteContainer(h, r)
        BY <2>1
      <3>1. disturbed' \subseteq Reports
        BY DEF DeleteContainer, TypeOK
      <3> QED
        BY <3>1 DEF DeleteContainer, RemoveContainer, TypeOK, Thread, ThreadAt
    <2>2. CASE DeleteData(h)
      BY <2>2, HandlerGoes DEF DeleteData, RemoveData, TypeOK
    <2>3. CASE DeleteWrite(h)
      <3>1. handler[h].report \in Reports
        BY <2>3 DEF DeleteWrite, ThreadsKnow
      <3>2. status' \in [Reports -> JobFile]
        BY <1>0, <2>3, <3>1, WriteStateEffect DEF DeleteWrite, TypeOK, JobFilesAfter
      <3> QED
        BY <1>0, <2>3, <3>2 DEF DeleteWrite, TypeOK, ThreadAt
    <2> QED
      BY <1>2, <2>1, <2>2, <2>3 DEF Delete
  <1>8. ASSUME NEW h \in Handlers, RequestFails(h) PROVE TypeOK'
    BY <1>0, <1>8 DEF RequestFails, TypeOK, ThreadAt
  <1>9. CASE WorkerDies
    <2>1. worker.report \in Reports
      BY <1>9 DEF WorkerDies, ThreadsKnow
    <2> QED
      BY <1>9, <2>1, DeathEffect DEF WorkerDies, TypeOK, Thread, ThreadAt, WorkerPcs
  <1>10. CASE ReaperDies
    BY <1>10, DeathEffect DEF ReaperDies, TypeOK, Thread, ThreadAt, ReaperPcs
  <1>3. CASE Worker
    <2>1. CASE TakeTask
      <3>1. tasks' \in Seq(Reports) /\ Head(tasks) \in Reports
        BY <2>1, TakeOldestTask DEF TakeTask, TypeOK
      <3>2. status[Head(tasks)].commit \in Commits \cup {NoCommit}
        BY <3>1 DEF TypeOK, JobFile
      <3> QED
        BY <2>1, <3>1, <3>2 DEF TakeTask, TypeOK, Thread, ThreadAt, WorkerPcs
    <2>2. ASSUME NEW pc \in WorkerPcs, NEW s \in States, worker.pc # "idle",
                 WriteState(worker.report, s), WorkerGoes(pc),
                 UNCHANGED <<container, data, tasks, reaper, handler, lost, disturbed>>
          PROVE  TypeOK'
      <3>1. status' \in [Reports -> JobFile]
        BY <2>2, WriteStateEffect DEF ThreadsKnow, TypeOK, JobFilesAfter
      <3> QED
        BY <2>2, <3>1, WorkerGoesOn DEF TypeOK
    <2>3. CASE WriteCloning \/ WriteBuilding \/ WriteProbing \/ WriteFailed
      BY <2>2, <2>3 DEF WriteCloning, WriteBuilding, WriteProbing, WriteFailed, WorkerAt,
                        WorkerPcs, States, Active
    <2>4. CASE FinishBuild \/ RemoveOldContainer \/ RunContainer \/ ProbeAnswered
      <3>1. worker' \in ThreadAt(WorkerPcs)
        BY <2>4, WorkerGoesOn DEF FinishBuild, RemoveOldContainer, RunContainer, ProbeAnswered,
                                  WorkerPcs
      <3>2. worker.commit \in Commits
        BY <2>4 DEF FinishBuild, RemoveOldContainer, RunContainer, ProbeAnswered, WorkerAt,
                    TasksHaveCommits
      <3> QED
        BY <2>4, <3>1, <3>2 DEF FinishBuild, RemoveOldContainer, RunContainer, ProbeAnswered,
                                RemoveContainer, TypeOK
    <2>5. CASE WriteRunning
      <3>1. status' \in [Reports -> JobFile]
        BY <2>5, WriteRunningEffect DEF JobFilesAfter
      <3> QED
        BY <1>0, <2>5, <3>1 DEF WriteRunning, TypeOK, ThreadAt, WorkerPcs
    <2>6. CASE RemoveFailed
      BY <1>0, <2>6 DEF RemoveFailed, RemoveContainer, TypeOK, ThreadAt, WorkerPcs
    <2> QED
      BY <1>3, <2>1, <2>3, <2>4, <2>5, <2>6 DEF Worker
  <1>4. CASE Reaper
    <2>1. CASE \E r \in Reports : ReaperChooses(r)
      BY <2>1 DEF ReaperChooses, TypeOK, Thread, ThreadAt, ReaperPcs
    <2>2. CASE ReaperRemovesContainer \/ ReaperRemovesData
      BY <2>2 DEF ReaperRemovesContainer, ReaperRemovesData, RemoveContainer, RemoveData, TypeOK,
                  ThreadAt, ReaperPcs
    <2>3. CASE ReaperWritesExpired
      <3>1. reaper.report \in Reports /\ "expired" \in States
        BY <2>3 DEF ReaperWritesExpired, ThreadsKnow, States
      <3>2. status' \in [Reports -> JobFile]
        BY <2>3, <3>1, WriteStateEffect DEF ReaperWritesExpired, TypeOK, JobFilesAfter
      <3> QED
        BY <1>0, <2>3, <3>2 DEF ReaperWritesExpired, TypeOK, ThreadAt, ReaperPcs
    <2> QED
      BY <1>4, <2>1, <2>2, <2>3 DEF Reaper
  <1>5. CASE Tick
    BY <1>5, TickEffect DEF Tick, TypeOK
  <1>6. CASE Crash
    BY <1>0, <1>6 DEF Crash, TypeOK, ThreadAt, WorkerPcs, ReaperPcs
  <1>7. CASE UNCHANGED vars
    BY <1>7 DEF vars, TypeOK
  <1> QED
    BY <1>1, <1>2, <1>3, <1>4, <1>5, <1>6, <1>7, <1>8, <1>9, <1>10 DEF Next

-----------------------------------------------------------------------------
\* Every step is one of these: the case split of the lemmas below.
LEMMA Steps ==
  ASSUME [Next]_vars
  PROVE  \/ \E h \in Handlers : \/ \E r \in Reports, c \in Commits : PostCheck(h, r, c)
                                \/ PostWrite(h) \/ PostPut(h)
                                \/ \E r \in Reports : DeleteContainer(h, r)
                                \/ DeleteData(h) \/ DeleteWrite(h) \/ RequestFails(h)
         \/ Worker \/ WorkerDies \/ Reaper \/ ReaperDies \/ Tick \/ Crash \/ UNCHANGED vars
  BY DEF Next, Post, Delete

\* What a state-only write of the job file by a thread leaves of the job files.
LEMMA StateWrites ==
  ASSUME TypeOK, ThreadsKnow,
         \/ WriteCloning \/ WriteBuilding \/ WriteProbing \/ WriteFailed \/ WriteRunning
         \/ ReaperWritesExpired
         \/ \E h \in Handlers : DeleteWrite(h)
  PROVE  \A q \in Reports : status'[q].commit = status[q].commit
  <1> USE DEF TypeOK, ThreadsKnow, States, Active
  <1>1. CASE WriteCloning \/ WriteBuilding \/ WriteProbing \/ WriteFailed
    BY <1>1, WriteStateEffect DEF WriteCloning, WriteBuilding, WriteProbing, WriteFailed, WorkerAt
  <1>2. CASE WriteRunning
    BY <1>2, WriteRunningEffect
  <1>3. CASE ReaperWritesExpired
    BY <1>3, WriteStateEffect DEF ReaperWritesExpired
  <1>4. CASE \E h \in Handlers : DeleteWrite(h)
    BY <1>4, WriteStateEffect DEF DeleteWrite
  <1> QED
    BY <1>1, <1>2, <1>3, <1>4

\* A job file never loses its commit again.
LEMMA CommitsStay ==
  ASSUME TypeOK, ThreadsKnow, [Next]_vars, NEW q \in Reports, status[q].commit \in Commits
  PROVE  status'[q].commit \in Commits
  <1>1. CASE UNCHANGED status
    BY <1>1
  <1>2. CASE \E h \in Handlers : PostWrite(h)
    <2> PICK h \in Handlers : PostWrite(h)
      BY <1>2
    <2>1. handler[h].commit \in Commits
      BY DEF ThreadsKnow, PostWrite
    <2> QED
      BY <2>1, PostWriteEffect
  <1>3. CASE Tick \/ WorkerDies \/ ReaperDies
    BY <1>3, TickEffect, DeathEffect
  <1>4. CASE \/ WriteCloning \/ WriteBuilding \/ WriteProbing \/ WriteFailed \/ WriteRunning
             \/ ReaperWritesExpired
             \/ \E h \in Handlers : DeleteWrite(h)
    BY <1>4, StateWrites
  <1> QED
    BY <1>1, <1>2, <1>3, <1>4, Steps
       DEF PostCheck, PostPut, DeleteContainer, DeleteData, RequestFails, Worker, TakeTask, FinishBuild,
           RemoveOldContainer, RunContainer, ProbeAnswered, RemoveFailed, Reaper, ReaperChooses,
           ReaperRemovesContainer, ReaperRemovesData, Crash, vars

LEMMA NextTasksHaveCommits ==
  ASSUME TypeOK, ThreadsKnow, TasksHaveCommits, [Next]_vars
  PROVE  TasksHaveCommits'
  <1> USE CommitsStay
  <1>0. \A i \in 1..Len(tasks) : tasks[i] \in Reports
    BY DEF TypeOK
  <1>1. CASE UNCHANGED <<tasks, worker>>
    BY <1>0, <1>1 DEF TasksHaveCommits
  <1>2. ASSUME NEW h \in Handlers, PostPut(h) PROVE TasksHaveCommits'
    <2>1. handler[h].report \in Reports /\ status[handler[h].report].commit \in Commits
      BY <1>2 DEF PostPut, ThreadsKnow
    <2>2. tasks \in Seq(Reports)
      BY DEF TypeOK
    <2> QED
      BY <1>0, <1>2, <2>1, <2>2, AppendTask DEF PostPut, TasksHaveCommits
  <1>3. CASE TakeTask
    <2>1. /\ Head(tasks) \in Reports /\ status[Head(tasks)].commit \in Commits
          /\ \A i \in 1..Len(Tail(tasks)) : i + 1 \in 1..Len(tasks) /\ Tail(tasks)[i] = tasks[i + 1]
      BY <1>0, <1>3, TakeOldestTask DEF TakeTask, TypeOK, TasksHaveCommits
    <2> QED
      BY <1>3, <2>1 DEF TakeTask, TasksHaveCommits, Thread
  <1>4. CASE Worker /\ ~TakeTask
    <2>1. UNCHANGED tasks /\ worker.pc \notin {"idle", "dead"}
      BY <1>4 DEF Worker, WorkerAt, WriteCloning, WriteBuilding, FinishBuild, RemoveOldContainer,
                  RunContainer, WriteProbing, ProbeAnswered, WriteRunning, WriteFailed, RemoveFailed
    <2>2. worker' = Idle \/ worker'.commit = worker.commit
      BY <1>4 DEF Worker, WorkerGoes, WriteCloning, WriteBuilding, FinishBuild, RemoveOldContainer,
                  RunContainer, WriteProbing, ProbeAnswered, WriteRunning, WriteFailed, RemoveFailed,
                  TypeOK, ThreadAt
    <2> QED
      BY <1>0, <2>1, <2>2 DEF TasksHaveCommits, Idle, Thread
  <1>5. CASE Crash \/ WorkerDies
    BY <1>0, <1>5 DEF Crash, WorkerDies, TasksHaveCommits, Idle, Thread
  <1> QED
    BY <1>1, <1>2, <1>3, <1>4, <1>5, Steps
       DEF PostCheck, PostWrite, DeleteContainer, DeleteData, DeleteWrite, RequestFails, Reaper,
           ReaperChooses, ReaperRemovesContainer, ReaperRemovesData, ReaperWritesExpired, ReaperDies,
           Tick, vars

-----------------------------------------------------------------------------
\* The worker's record after one of its steps.
LEMMA WorkerRecords ==
  ASSUME TypeOK, Worker
  PROVE  \/ TakeTask
         \/ /\ worker.pc \notin {"idle", "dead"} /\ UNCHANGED tasks
            /\ worker'.pc # "idle" => worker'.report = worker.report
  BY DEF TypeOK, ThreadAt, Worker, WorkerAt, WorkerGoes, WriteCloning, WriteBuilding, FinishBuild,
         RemoveOldContainer, RunContainer, WriteProbing, ProbeAnswered, WriteRunning, WriteFailed,
         RemoveFailed, Idle, Thread

LEMMA NextThreadsKnow ==
  ASSUME TypeOK, ThreadsKnow, TasksHaveCommits, [Next]_vars
  PROVE  ThreadsKnow'
  <1>1. worker'.pc # "idle" => worker'.report \in Reports
    <2>1. CASE Worker
      BY <2>1, WorkerRecords, TakeOldestTask DEF ThreadsKnow, TakeTask, Thread, TypeOK
    <2>2. CASE Crash \/ WorkerDies \/ UNCHANGED worker
      BY <2>2 DEF Crash, WorkerDies, Idle, Thread, ThreadsKnow
    <2> QED
      BY <2>1, <2>2, Steps
         DEF PostCheck, PostWrite, PostPut, DeleteContainer, DeleteData, DeleteWrite, RequestFails,
             Reaper, ReaperChooses, ReaperRemovesContainer, ReaperRemovesData, ReaperWritesExpired,
             ReaperDies, Tick, vars
  <1>2. reaper'.pc \notin {"idle", "dead"} => reaper'.report \in Reports
    <2>1. CASE Reaper
      BY <2>1 DEF Reaper, ReaperChooses, ReaperRemovesContainer, ReaperRemovesData,
                  ReaperWritesExpired, Idle, Thread, ThreadsKnow, TypeOK, ThreadAt
    <2>2. CASE Crash \/ ReaperDies \/ UNCHANGED reaper
      BY <2>2 DEF Crash, ReaperDies, Idle, Thread, ThreadsKnow
    <2> QED
      BY <2>1, <2>2, Steps
         DEF PostCheck, PostWrite, PostPut, DeleteContainer, DeleteData, DeleteWrite, RequestFails,
             Worker, TakeTask, WriteCloning, WriteBuilding, FinishBuild, RemoveOldContainer,
             RunContainer, WriteProbing, ProbeAnswered, WriteRunning, WriteFailed, RemoveFailed,
             WorkerDies, Tick, vars
  <1>3. ASSUME NEW h \in Handlers
        PROVE  /\ handler'[h].pc # "idle" => handler'[h].report \in Reports
               /\ handler'[h].pc = "accepted" => handler'[h].commit \in Commits
               /\ handler'[h].pc = "put" => status'[handler'[h].report].commit \in Commits
    <2>0. handler[h].pc = "put" => status'[handler[h].report].commit \in Commits
      BY CommitsStay DEF ThreadsKnow
    <2>1. CASE handler'[h] = handler[h]
      BY <2>0, <2>1 DEF ThreadsKnow
    <2>2. CASE handler'[h] = Idle
      BY <2>2 DEF Idle, Thread
    <2>3. CASE \E r \in Reports, c \in Commits : PostCheck(h, r, c)
      BY <2>3 DEF PostCheck, Thread, TypeOK
    <2>4. CASE PostWrite(h)
      <3>1. handler'[h].pc = "put" /\ handler'[h].report = handler[h].report
        BY <2>4 DEF PostWrite, TypeOK, Thread
      <3>2. handler[h].report \in Reports /\ handler[h].commit \in Commits
        BY <2>4 DEF PostWrite, ThreadsKnow
      <3> QED
        BY <2>4, <3>1, <3>2, PostWriteEffect
    <2>5. CASE \E r \in Reports : DeleteContainer(h, r)
      BY <2>5 DEF DeleteContainer, Thread, TypeOK
    <2>6. CASE DeleteData(h)
      BY <2>6 DEF DeleteData, TypeOK, ThreadAt, ThreadsKnow
    <2>7. handler \in [Handlers -> ThreadAt({"idle", "accepted", "put", "rmtree", "write"})]
      BY DEF TypeOK
    <2>8. ASSUME NEW g \in Handlers, g # h,
                 \/ \E r \in Reports, c \in Commits : PostCheck(g, r, c)
                 \/ PostWrite(g) \/ PostPut(g)
                 \/ \E r \in Reports : DeleteContainer(g, r)
                 \/ DeleteData(g) \/ DeleteWrite(g) \/ RequestFails(g)
          PROVE  handler'[h] = handler[h]
      BY <2>7, <2>8 DEF PostCheck, PostWrite, PostPut, DeleteContainer, DeleteData, DeleteWrite,
                        RequestFails
    <2>9. PostPut(h) \/ DeleteWrite(h) \/ RequestFails(h) \/ Crash => handler'[h] = Idle
      BY <2>7 DEF PostPut, DeleteWrite, RequestFails, Crash
    <2>10. Worker \/ WorkerDies \/ Reaper \/ ReaperDies \/ Tick \/ UNCHANGED vars => handler' = handler
      BY DEF Worker, TakeTask, WriteCloning, WriteBuilding, FinishBuild, RemoveOldContainer,
             RunContainer, WriteProbing, ProbeAnswered, WriteRunning, WriteFailed, RemoveFailed,
             Reaper, ReaperChooses, ReaperRemovesContainer, ReaperRemovesData, ReaperWritesExpired,
             WorkerDies, ReaperDies, Tick, vars
    <2> QED
      BY <2>1, <2>2, <2>3, <2>4, <2>5, <2>6, <2>8, <2>9, <2>10, Steps
  <1> QED
    BY <1>1, <1>2, <1>3 DEF ThreadsKnow

-----------------------------------------------------------------------------
\* How the state of one job file can change outside the worker.
LEMMA OthersWrite ==
  ASSUME TypeOK, ThreadsKnow, [Next]_vars, ~Worker, NEW q \in Reports,
         status'[q].state # status[q].state
  PROVE  \/ \E h \in Handlers : PostWrite(h) /\ handler[h].report = q /\ status'[q].state = "queued"
         \/ status'[q].state = "destroyed"
         \/ status'[q].state = "expired"
         \/ WorkerDies /\ worker.pc = "answered" /\ worker.report = q
              /\ status'[q].state = "running"
  <1>1. CASE UNCHANGED status
    BY <1>1
  <1>2. CASE \E h \in Handlers : PostWrite(h)
    BY <1>2, PostWriteEffect DEF JobFilesAfter
  <1>3. CASE \E h \in Handlers : DeleteWrite(h)
    BY <1>3, WriteStateEffect DEF DeleteWrite, TypeOK, ThreadsKnow, JobFilesAfter, States
  <1>4. CASE ReaperWritesExpired
    BY <1>4, WriteStateEffect DEF ReaperWritesExpired, TypeOK, ThreadsKnow, JobFilesAfter, States
  <1>5. CASE Tick
    BY <1>5, TickEffect
  <1>6. CASE WorkerDies \/ ReaperDies
    BY <1>6, DeathEffect
  <1> QED
    BY <1>1, <1>2, <1>3, <1>4, <1>5, <1>6, Steps
       DEF PostCheck, PostPut, DeleteContainer, DeleteData, RequestFails, Reaper, ReaperChooses,
           ReaperRemovesContainer, ReaperRemovesData, Crash, vars

\* How the worker writes job files: only that of its job, and with its own states.
WorkerWrites ==
  \/ TakeTask /\ UNCHANGED <<status, container>>
  \/ /\ worker.pc = "taken" /\ worker'.pc = "cloning" /\ UNCHANGED container
     /\ JobFilesAfter(worker.report, "cloning")
  \/ /\ worker.pc = "cloning" /\ worker'.pc = "building" /\ UNCHANGED container
     /\ JobFilesAfter(worker.report, "building")
  \/ /\ worker.pc \in WorkerSteps /\ worker'.pc \in WorkerSteps /\ UNCHANGED status
     /\ \A q \in Reports : q # worker.report => container'[q] = container[q]
  \/ /\ worker.pc = "started" /\ worker'.pc = "probing" /\ UNCHANGED container
     /\ JobFilesAfter(worker.report, "probing")
  \/ /\ worker.pc = "answered" /\ worker' = Idle /\ UNCHANGED container
     /\ JobFilesAfter(worker.report, "running")
  \/ /\ worker.pc \in WorkerSteps \cup {"taken"} /\ worker'.pc = "removing" /\ UNCHANGED container
     /\ JobFilesAfter(worker.report, "failed")
  \/ /\ worker.pc = "removing" /\ worker' = Idle /\ UNCHANGED status
     /\ container' = [container EXCEPT ![worker.report] = NoCommit]

LEMMA WorkerWritesOwnJob ==
  ASSUME TypeOK, ThreadsKnow, Worker
  PROVE  WorkerWrites /\ UNCHANGED <<handler, lost>>
  <1> USE DEF TypeOK, ThreadsKnow, States, Active, WorkerPcs, WorkerSteps, WorkerAt
  <1>1. CASE TakeTask
    BY <1>1 DEF TakeTask, WorkerWrites
  <1>2. CASE WriteCloning
    BY <1>2, WriteStateEffect, WorkerGoesOn DEF WriteCloning, WorkerWrites
  <1>3. CASE WriteBuilding
    BY <1>3, WriteStateEffect, WorkerGoesOn DEF WriteBuilding, WorkerWrites
  <1>4. CASE FinishBuild \/ RemoveOldContainer \/ RunContainer \/ ProbeAnswered
    <2>1. worker.pc \in WorkerSteps /\ worker'.pc \in WorkerSteps
      BY <1>4, WorkerGoesOn DEF FinishBuild, RemoveOldContainer, RunContainer, ProbeAnswered
    <2>2. UNCHANGED <<status, handler, lost>>
      BY <1>4 DEF FinishBuild, RemoveOldContainer, RunContainer, ProbeAnswered
    <2>3. \A q \in Reports : q # worker.report => container'[q] = container[q]
      BY <1>4 DEF FinishBuild, RemoveOldContainer, RunContainer, ProbeAnswered, RemoveContainer
    <2> QED
      BY <2>1, <2>2, <2>3 DEF WorkerWrites
  <1>5. CASE WriteProbing
    BY <1>5, WriteStateEffect, WorkerGoesOn DEF WriteProbing, WorkerWrites
  <1>6. CASE WriteRunning
    BY <1>6, WriteRunningEffect DEF WriteRunning, WorkerWrites
  <1>7. CASE WriteFailed
    <2>1. worker.pc \in WorkerPcs \ {"idle", "removing", "dead"} /\ worker.report \in Reports
      BY <1>7 DEF WriteFailed, ThreadAt
    <2>2. worker'.pc = "removing"
      BY <1>7, WorkerGoesOn DEF WriteFailed
    <2>3. JobFilesAfter(worker.report, "failed") /\ UNCHANGED <<container, handler, lost>>
      BY <1>7, <2>1, WriteStateEffect DEF WriteFailed
    <2> QED
      BY <2>1, <2>2, <2>3 DEF WorkerWrites
  <1>8. CASE RemoveFailed
    BY <1>8 DEF RemoveFailed, RemoveContainer, WorkerWrites
  <1> QED
    BY <1>1, <1>2, <1>3, <1>4, <1>5, <1>6, <1>7, <1>8 DEF Worker

LEMMA NextWorkerKnows ==
  ASSUME TypeOK, ThreadsKnow, WorkerKnows, [Next]_vars
  PROVE  WorkerKnows'
  <1> USE DEF WorkerKnows, WorkerSteps, Idle, Thread
  <1>1. CASE Worker
    <2>1. TakeTask => worker'.pc = "taken"
      BY DEF TakeTask
    <2>2. worker'.pc # "idle" /\ ~TakeTask => worker'.report = worker.report
      BY <1>1, WorkerRecords
    <2>3. worker.pc # "idle" => worker.report \in Reports
      BY DEF ThreadsKnow
    <2> QED
      BY <1>1, <2>1, <2>2, <2>3, WorkerWritesOwnJob DEF WorkerWrites, JobFilesAfter
  <1>2. CASE ~Worker /\ worker' = worker
    <2>1. worker.pc # "idle" => worker.report \in Reports
      BY DEF ThreadsKnow
    <2> QED
      BY <1>2, <2>1, OthersWrite
  <1>3. CASE Crash \/ WorkerDies
    BY <1>3 DEF Crash, WorkerDies
  <1> QED
    BY <1>1, <1>2, <1>3, Steps
       DEF PostCheck, PostWrite, PostPut, DeleteContainer, DeleteData, DeleteWrite, Reaper,
           ReaperChooses, ReaperRemovesContainer, ReaperRemovesData, ReaperWritesExpired, RequestFails, WorkerDies, ReaperDies, Tick, vars

LEMMA NextFailedLeavesNoContainer ==
  ASSUME TypeOK, ThreadsKnow, WorkerKnows, FailedLeavesNoContainer, [Next]_vars
  PROVE  FailedLeavesNoContainer'
  <1> SUFFICES ASSUME NEW q \in Reports, q \notin lost', status'[q].state = "failed"
               PROVE  \/ container'[q] = NoCommit
                      \/ worker'.pc \in {"removing", "dead"} /\ worker'.report = q
    BY DEF FailedLeavesNoContainer
  <1> USE DEF FailedLeavesNoContainer, Idle, Thread
  <1>0. container \in [Reports -> Commits \cup {NoCommit}]
    BY DEF TypeOK
  <1>1. CASE Worker
    <2>1. q \notin lost
      BY <1>1, WorkerWritesOwnJob
    <2>2. worker.pc # "idle" => worker.report \in Reports
      BY DEF ThreadsKnow
    <2>3. worker'.pc # "idle" /\ ~TakeTask => worker'.report = worker.report
      BY <1>1, WorkerRecords
    <2>4. TakeTask => worker.pc = "idle"
      BY DEF TakeTask, WorkerAt
    <2> QED
      BY <1>0, <1>1, <2>1, <2>2, <2>3, <2>4, WorkerWritesOwnJob
         DEF WorkerWrites, JobFilesAfter, WorkerKnows, WorkerSteps
  <1>2. CASE ~Worker /\ ~Crash
    <2>1. status[q].state = "failed"
      BY <1>2, OthersWrite
    <2>2. ~(\E h \in Handlers : handler[h].report = q /\ PostWrite(h))
      BY PostWriteEffect DEF JobFilesAfter
    <2>3. ~(\E h \in Handlers : handler[h].report = q /\ DeleteWrite(h))
      BY WriteStateEffect DEF DeleteWrite, TypeOK, States, JobFilesAfter
    <2>4. q \notin lost
      BY <1>2, <2>2, <2>3, Steps
         DEF PostCheck, PostWrite, PostPut, DeleteContainer, DeleteData, DeleteWrite, Reaper,
             ReaperChooses, ReaperRemovesContainer, ReaperRemovesData, ReaperWritesExpired, RequestFails, WorkerDies, ReaperDies, Tick,
             vars
    <2>5. WorkerDies => /\ worker.pc # "idle" /\ container' = container
                        /\ worker'.pc = "dead" /\ worker'.report = worker.report
      BY DEF WorkerDies
    <2>6. ~WorkerDies => /\ worker' = worker
                         /\ container'[q] = container[q] \/ container'[q] = NoCommit
      BY <1>0, <1>2, Steps
         DEF PostCheck, PostWrite, PostPut, DeleteContainer, DeleteData, DeleteWrite, Reaper,
             ReaperChooses, ReaperRemovesContainer, ReaperRemovesData, ReaperWritesExpired, RequestFails, WorkerDies, ReaperDies, Tick,
             RemoveContainer, vars
    <2> QED
      BY <2>1, <2>4, <2>5, <2>6
  <1>3. CASE Crash
    <2>1. status' = status /\ container' = container /\ q \notin lost /\ ~Owned(q)
      BY <1>3 DEF Crash
    <2> QED
      BY <2>1 DEF Owned
  <1> QED
    BY <1>1, <1>2, <1>3

LEMMA NextActiveJobsAreKnown ==
  ASSUME TypeOK, ThreadsKnow, WorkerKnows, ActiveJobsAreKnown, [Next]_vars
  PROVE  ActiveJobsAreKnown'
  <1> SUFFICES ASSUME NEW q \in Reports, q \notin lost'
               PROVE  /\ status'[q].state = "queued" =>
                           \/ Waiting(q)'
                           \/ \E h \in Handlers : handler'[h].pc = "put" /\ handler'[h].report = q
                           \/ worker'.pc \in {"taken", "dead"} /\ worker'.report = q
                      /\ status'[q].state \in {"cloning", "building", "probing"} =>
                           worker'.pc # "idle" /\ worker'.report = q
    BY DEF ActiveJobsAreKnown
  <1> USE DEF ActiveJobsAreKnown, Idle, Thread
  <1>0. tasks \in Seq(Reports) /\ \A h \in Handlers : handler[h] \in ThreadAt({"idle", "accepted", "put", "rmtree", "write"})
    BY DEF TypeOK
  <1>1. CASE TakeTask
    <2>1. worker.pc = "idle" /\ worker'.pc = "taken" /\ worker'.report = Head(tasks)
          /\ UNCHANGED <<status, handler, lost>>
      BY <1>1 DEF TakeTask, WorkerAt
    <2>2. Waiting(q) => Waiting(q)' \/ worker'.report = q
      <3>1. ASSUME NEW i \in 1..Len(tasks), tasks[i] = q, Head(tasks) # q PROVE Waiting(q)'
        <4>1. i - 1 \in 1..Len(tasks') /\ tasks'[i - 1] = q
          BY <1>0, <1>1, <3>1, TakeOldestTask DEF TakeTask
        <4> QED
          BY <4>1 DEF Waiting
      <3> QED
        BY <2>1, <3>1 DEF Waiting
    <2> QED
      BY <2>1, <2>2
  <1>2. CASE Worker /\ ~TakeTask
    <2>1. UNCHANGED <<tasks, handler, lost>> /\ worker.pc # "idle"
          /\ (worker'.pc # "idle" => worker'.report = worker.report)
      BY <1>2, WorkerRecords, WorkerWritesOwnJob
    <2>2. worker.report \in Reports
      BY <2>1 DEF ThreadsKnow
    <2>3. Waiting(q) => Waiting(q)'
      BY <2>1 DEF Waiting
    <2>4. WorkerWrites
      BY <1>2, WorkerWritesOwnJob
    <2> QED
      BY <1>2, <2>1, <2>2, <2>3, <2>4 DEF WorkerWrites, JobFilesAfter, WorkerKnows, WorkerSteps
  <1>3. ASSUME NEW h \in Handlers, PostWrite(h)
        PROVE  /\ status'[q].state = "queued" =>
                    \/ Waiting(q)'
                    \/ \E g \in Handlers : handler'[g].pc = "put" /\ handler'[g].report = q
                    \/ worker'.pc \in {"taken", "dead"} /\ worker'.report = q
               /\ status'[q].state \in {"cloning", "building", "probing"} =>
                    worker'.pc # "idle" /\ worker'.report = q
    <2>1. worker' = worker /\ tasks' = tasks /\ (q # handler[h].report => q \notin lost)
      BY <1>3 DEF PostWrite
    <2>2. \A g \in Handlers : handler[g].pc = "put" => handler'[g] = handler[g]
      BY <1>3 DEF PostWrite, TypeOK
    <2>3. handler'[h].pc = "put" /\ handler'[h].report = handler[h].report
      BY <1>3, <1>0 DEF PostWrite, TypeOK
    <2>4. JobFilesAfter(handler[h].report, "queued")
      BY <1>3, PostWriteEffect
    <2>5. Waiting(q) => Waiting(q)'
      BY <2>1 DEF Waiting
    <2> QED
      BY <2>1, <2>2, <2>3, <2>4, <2>5 DEF JobFilesAfter
  <1>4. ASSUME NEW h \in Handlers, PostPut(h)
        PROVE  /\ status'[q].state = "queued" =>
                    \/ Waiting(q)'
                    \/ \E g \in Handlers : handler'[g].pc = "put" /\ handler'[g].report = q
                    \/ worker'.pc \in {"taken", "dead"} /\ worker'.report = q
               /\ status'[q].state \in {"cloning", "building", "probing"} =>
                    worker'.pc # "idle" /\ worker'.report = q
    <2>1. UNCHANGED <<status, worker, lost>> /\ tasks' = Append(tasks, handler[h].report)
          /\ handler[h].report \in Reports
      BY <1>4 DEF PostPut, ThreadsKnow
    <2>2. \A g \in Handlers : g # h => handler'[g] = handler[g]
      BY <1>4 DEF PostPut, TypeOK
    <2>3. Waiting(q) \/ handler[h].report = q => Waiting(q)'
      BY <1>0, <2>1, AppendTask DEF Waiting
    <2> QED
      BY <2>1, <2>2, <2>3
  <1>5. CASE Crash
    <2>1. status' = status /\ q \notin lost /\ ~Owned(q)
      BY <1>5 DEF Crash
    <2> QED
      BY <2>1 DEF Owned
  <1>7. CASE WorkerDies
    <2>1. /\ worker.pc # "idle" /\ worker'.pc = "dead" /\ worker'.report = worker.report
          /\ UNCHANGED <<tasks, handler, lost>>
      BY <1>7 DEF WorkerDies
    <2>2. status'[q].state \in Active => status'[q].state = status[q].state
      BY <1>7, DeathEffect DEF Active, WorkerDies, ReaperDies
    <2>3. Waiting(q) => Waiting(q)'
      BY <2>1 DEF Waiting
    <2> QED
      BY <2>1, <2>2, <2>3 DEF Active
  <1>6. CASE ~Worker /\ ~WorkerDies /\ ~Crash /\ (\A h \in Handlers : ~PostWrite(h) /\ ~PostPut(h))
    <2>1. worker' = worker /\ tasks' = tasks
      BY <1>6, Steps
         DEF PostCheck, DeleteContainer, DeleteData, DeleteWrite, Reaper, ReaperChooses,
             ReaperRemovesContainer, ReaperRemovesData, ReaperWritesExpired, RequestFails, WorkerDies, ReaperDies, Tick, vars
    <2>2. \A g \in Handlers : handler[g].pc = "put" => handler'[g] = handler[g]
      BY <1>0, <1>6, Steps
         DEF PostCheck, DeleteContainer, DeleteData, DeleteWrite, Reaper, ReaperChooses,
             ReaperRemovesContainer, ReaperRemovesData, ReaperWritesExpired, RequestFails, WorkerDies, ReaperDies, Tick, vars, TypeOK
    <2>3. status'[q].state \in Active => status'[q].state = status[q].state
      BY <1>6, OthersWrite DEF Active
    <2>4. ~(\E h \in Handlers : handler[h].report = q /\ DeleteWrite(h))
          \/ status'[q].state = "destroyed"
      BY WriteStateEffect DEF DeleteWrite, TypeOK, States, JobFilesAfter
    <2>5. q \notin lost \/ status'[q].state = "destroyed"
      BY <1>6, <2>4, Steps
         DEF PostCheck, DeleteContainer, DeleteData, DeleteWrite, Reaper, ReaperChooses,
             ReaperRemovesContainer, ReaperRemovesData, ReaperWritesExpired, RequestFails, WorkerDies, ReaperDies, Tick, vars
    <2>6. Waiting(q) => Waiting(q)'
      BY <2>1 DEF Waiting
    <2> QED
      BY <2>1, <2>2, <2>3, <2>5, <2>6 DEF Active
  <1> QED
    BY <1>1, <1>2, <1>3, <1>4, <1>5, <1>6, <1>7

-----------------------------------------------------------------------------
\* The steps that touch a lost job: none but a POST that is let in, or a DELETE.
LEMMA NextLostAreAbandoned ==
  ASSUME TypeOK, ThreadsKnow, LostAreAbandoned, [Next]_vars
  PROVE  LostAreAbandoned'
  <1> SUFFICES ASSUME NEW q \in lost'
               PROVE  /\ ~Waiting(q)'
                      /\ ~(worker'.pc # "idle" /\ worker'.report = q)
                      /\ \A h \in Handlers : ~(handler'[h].pc = "put" /\ handler'[h].report = q)
                      /\ status'[q].state \in Active =>
                           /\ \A h \in Handlers :
                                ~(handler'[h].pc = "accepted" /\ handler'[h].report = q)
                           /\ ~(reaper'.pc \notin {"idle", "dead"} /\ reaper'.report = q)
    BY DEF LostAreAbandoned, Owned
  <1> USE DEF LostAreAbandoned, Owned, Idle, Thread
  <1>0. /\ tasks \in Seq(Reports)
        /\ handler \in [Handlers -> ThreadAt({"idle", "accepted", "put", "rmtree", "write"})]
    BY DEF TypeOK
  <1>1. CASE Crash
    <2>1. tasks' = <<>> /\ worker'.pc = "idle" /\ reaper'.pc = "idle"
          /\ \A h \in Handlers : handler'[h].pc = "idle"
      BY <1>1 DEF Crash
    <2>2. ~Waiting(q)'
      BY <2>1 DEF Waiting
    <2> QED
      BY <2>1, <2>2
  <1>2. ~Crash => q \in lost /\ q \in Reports
    BY Steps DEF TypeOK, PostCheck, PostWrite, PostPut, DeleteContainer, DeleteData, DeleteWrite,
         Reaper, ReaperChooses, ReaperRemovesContainer, ReaperRemovesData, ReaperWritesExpired, RequestFails, WorkerDies,
         ReaperDies, Tick, vars, Worker, TakeTask, WriteCloning, WriteBuilding, FinishBuild,
         RemoveOldContainer, RunContainer, WriteProbing, ProbeAnswered, WriteRunning, WriteFailed,
         RemoveFailed
  <1>3. CASE Worker
    <2>1. UNCHANGED <<handler, lost, reaper>> /\ q \in lost /\ q \in Reports
      BY <1>3, WorkerWritesOwnJob
         DEF TypeOK, Worker, TakeTask, WriteCloning, WriteBuilding, FinishBuild, RemoveOldContainer,
             RunContainer, WriteProbing, ProbeAnswered, WriteRunning, WriteFailed, RemoveFailed
    <2>2. CASE TakeTask
      <3>1. Head(tasks) # q /\ status' = status /\ worker'.report = Head(tasks)
        BY <1>0, <2>1, <2>2, TakeOldestTask DEF TakeTask, Waiting
      <3>2. ~Waiting(q)'
        BY <1>0, <2>1, <2>2, TakeOldestTask DEF TakeTask, Waiting
      <3> QED
        BY <2>1, <3>1, <3>2
    <2>3. CASE ~TakeTask
      <3>1. /\ worker.pc # "idle" /\ tasks' = tasks
            /\ worker'.pc # "idle" => worker'.report = worker.report
        BY <1>3, <2>3, WorkerRecords
      <3>2. worker.report # q
        BY <2>1, <3>1
      <3>3. status'[q].state = status[q].state
        BY <1>3, <2>1, <2>3, <3>2, WorkerWritesOwnJob DEF WorkerWrites, JobFilesAfter
      <3>4. ~Waiting(q)'
        BY <2>1, <3>1 DEF Waiting
      <3> QED
        BY <2>1, <3>1, <3>2, <3>3, <3>4
    <2> QED
      BY <2>2, <2>3
  <1>4. ASSUME NEW h \in Handlers, PostWrite(h)
        PROVE  /\ q # handler[h].report /\ UNCHANGED <<tasks, worker, reaper>>
               /\ status'[q].state = status[q].state
               /\ handler'[h].report # q
               /\ \A g \in Handlers : g # h => handler'[g] = handler[g]
    BY <1>0, <1>4, PostWriteEffect DEF PostWrite, JobFilesAfter, ThreadAt, TypeOK
  <1>5. CASE \E h \in Handlers : PostWrite(h)
    <2> PICK h \in Handlers : PostWrite(h)
      BY <1>5
    <2>1. q \in lost
      BY DEF PostWrite
    <2>2. Waiting(q)' <=> Waiting(q)
      BY <1>4 DEF Waiting
    <2> QED
      BY <1>4, <2>1, <2>2
  <1>6. CASE \E h \in Handlers : PostPut(h)
    <2> PICK h \in Handlers : PostPut(h)
      BY <1>6
    <2>1. /\ q \in lost /\ handler[h].report \in Reports /\ handler[h].report # q
          /\ tasks' = Append(tasks, handler[h].report) /\ UNCHANGED <<status, worker, reaper>>
          /\ handler'[h].pc = "idle"
          /\ \A g \in Handlers : g # h => handler'[g] = handler[g]
      BY <1>0 DEF PostPut, ThreadsKnow
    <2>2. ~Waiting(q)'
      BY <1>0, <2>1, AppendTask DEF Waiting
    <2> QED
      BY <2>1, <2>2
  <1>8. CASE WorkerDies
    <2>1. /\ worker.pc # "idle" /\ worker'.pc = "dead" /\ worker'.report = worker.report
          /\ UNCHANGED <<tasks, handler, lost, reaper>> /\ q \in lost /\ q \in Reports
      BY <1>2, <1>8 DEF WorkerDies, Crash, TypeOK
    <2>2. worker.report # q
      BY <2>1
    <2>3. status'[q].state = status[q].state
      BY <1>8, <2>1, <2>2, DeathEffect DEF WorkerDies, ReaperDies
    <2>4. ~Waiting(q)'
      BY <2>1 DEF Waiting
    <2> QED
      BY <2>1, <2>2, <2>3, <2>4
  <1>7. CASE ~Crash /\ ~Worker /\ ~WorkerDies /\ \A h \in Handlers : ~PostWrite(h) /\ ~PostPut(h)
    <2>1. UNCHANGED <<tasks, worker>>
      BY <1>7, Steps
         DEF PostCheck, DeleteContainer, DeleteData, DeleteWrite, Reaper, ReaperChooses,
             ReaperRemovesContainer, ReaperRemovesData, ReaperWritesExpired, RequestFails, WorkerDies, ReaperDies, Tick, vars
    <2>2. status'[q].state \in Active => status'[q].state = status[q].state
      BY <1>2, <1>7, OthersWrite DEF Active
    <2>3. ~Waiting(q)'
      BY <1>2, <1>7, <2>1 DEF Waiting
    <2>4. ASSUME NEW h \in Handlers
          PROVE  /\ handler'[h].pc = "put" => handler'[h] = handler[h]
                 /\ handler'[h].pc = "accepted" =>
                      \/ handler'[h] = handler[h]
                      \/ status'[handler'[h].report].state \notin Active
      BY <1>0, <1>7, <2>4, Steps
         DEF PostCheck, DeleteContainer, DeleteData, DeleteWrite, Reaper, ReaperChooses,
             ReaperRemovesContainer, ReaperRemovesData, ReaperWritesExpired, RequestFails, WorkerDies, ReaperDies, Tick, vars, ThreadAt
    <2>5. reaper'.pc \notin {"idle", "dead"} =>
            \/ reaper.pc \notin {"idle", "dead"} /\ reaper'.report = reaper.report
            \/ status'[reaper'.report].state \notin Active
      BY <1>7, Steps
         DEF PostCheck, DeleteContainer, DeleteData, DeleteWrite, Reaper, ReaperChooses,
             ReaperRemovesContainer, ReaperRemovesData, ReaperWritesExpired, RequestFails, WorkerDies, ReaperDies, Tick, vars, ThreadAt,
             TypeOK, Active
    <2> QED
      BY <1>2, <1>7, <2>1, <2>2, <2>3, <2>4, <2>5
  <1> QED
    BY <1>1, <1>3, <1>5, <1>6, <1>7, <1>8

-----------------------------------------------------------------------------
LEMMA NextIInv == IInv /\ [Next]_vars => IInv'
  BY NextTypeOK, NextThreadsKnow, NextWorkerKnows, NextTasksHaveCommits,
     NextActiveJobsAreKnown, NextFailedLeavesNoContainer, NextLostAreAbandoned DEF IInv

LEMMA Inductive == Spec => []IInv
  BY InitIInv, NextIInv, PTL DEF Spec

\* Every variable keeps its type.
THEOREM TypeCorrect == Spec => []TypeOK
  <1>1. IInv => TypeOK
    BY DEF IInv
  <1> QED
    BY <1>1, Inductive, PTL

\* While the worker thread lives, a job file in a state that answers 409 has a
\* thread that will move it on, unless its work died with the process: neither a
\* second POST between check and write, nor a DELETE, nor the reaper can strand a
\* job (lines 177-193, 208-247).
THEOREM ActiveJobsOwned == Spec => []ActiveJobsAreOwned
  <1>1. IInv => ActiveJobsAreOwned
    BY DEF IInv, ActiveJobsAreKnown, ActiveJobsAreOwned
  <1> QED
    BY <1>1, Inductive, PTL

\* A failed job leaves no container once the worker is done with it, unless the
\* worker died first (lines 169-172).
THEOREM FailedIsClean == Spec => []FailedLeavesNoContainer
  <1>1. IInv => FailedLeavesNoContainer
    BY DEF IInv
  <1> QED
    BY <1>1, Inductive, PTL

\* The worker never takes a task whose job file has no commit, which would end
\* the worker thread as an unreadable file does (lines 116-117, 177-181).
THEOREM WorkerSurvives == Spec => []TasksHaveCommits
  <1>1. IInv => TasksHaveCommits
    BY DEF IInv
  <1> QED
    BY <1>1, Inductive, PTL

\* A job that a restart left active changes only by a DELETE (lines 222-224).
THEOREM LostNeedDelete == Spec => LostJobsNeedDelete
  <1>1. ASSUME IInv, [Next]_vars, NEW q \in Reports, q \in lost, status[q].state \in Active,
               status'[q].state # status[q].state
        PROVE  status'[q].state = "destroyed"
    <2> USE <1>1 DEF IInv
    <2>1. ~Worker
      <3>1. worker.pc # "idle" => worker.report # q
        BY DEF LostAreAbandoned, Owned
      <3>2. TakeTask => status' = status
        BY DEF TakeTask
      <3>3. Worker /\ ~TakeTask => worker.pc # "idle"
        BY WorkerRecords
      <3> QED
        BY <3>1, <3>2, <3>3, WorkerWritesOwnJob DEF WorkerWrites, JobFilesAfter
    <2>2. \A h \in Handlers : PostWrite(h) => handler[h].report # q
      BY DEF LostAreAbandoned, PostWrite
    <2>3. ~ReaperWritesExpired \/ reaper.report # q
      BY DEF LostAreAbandoned, ReaperWritesExpired
    <2>4. ReaperWritesExpired => status'[q].state = status[q].state
      BY <2>3, WriteStateEffect DEF ReaperWritesExpired, TypeOK, ThreadsKnow, States, JobFilesAfter
    <2>5. ASSUME NEW h \in Handlers, DeleteWrite(h) PROVE status'[q].state = "destroyed"
      BY <2>5, WriteStateEffect DEF DeleteWrite, TypeOK, ThreadsKnow, States, JobFilesAfter
    <2>6. ASSUME NEW h \in Handlers, PostWrite(h) PROVE FALSE
      BY <2>2, <2>6, PostWriteEffect DEF JobFilesAfter
    <2>7. ~Tick
      BY TickEffect
    <2>8. ~WorkerDies /\ ~ReaperDies
      <3>1. worker.pc # "idle" => worker.report # q
        BY DEF LostAreAbandoned, Owned
      <3>2. reaper.pc = "write" => reaper.report # q
        BY DEF LostAreAbandoned
      <3> QED
        BY <3>1, <3>2, DeathEffect
    <2> QED
      BY <2>1, <2>4, <2>5, <2>6, <2>7, <2>8, Steps
         DEF PostCheck, PostPut, DeleteContainer, DeleteData, RequestFails, Reaper, ReaperChooses,
             ReaperRemovesContainer, ReaperRemovesData, Crash, vars
  <1>2. IInv /\ [Next]_vars =>
          [\A r \in Reports :
             r \in lost /\ status[r].state \in Active /\ status'[r].state # status[r].state
               => status'[r].state = "destroyed"]_vars
    BY <1>1
  <1> QED
    BY <1>2, Inductive, PTL DEF Spec, LostJobsNeedDelete

-----------------------------------------------------------------------------
(* Orderly reports: what is kept of a report while its last job was accepted, *)
(* and goes on, with no other request, task or reaper at work on it.          *)

Putting(h, q) == handler[h].pc = "put" /\ handler[h].report = q

DeletingAt(h, q) == handler[h].pc \in {"rmtree", "write"} /\ handler[h].report = q

\* An accepted job is on its way to the worker once: in the hands of the one
\* request that accepted it, then once in the queue.
OnItsWay(q) ==
  /\ \A h \in Handlers : Putting(h, q) =>
       /\ status[q].state = "queued" /\ ~Waiting(q) /\ ~WorkingOn(q)
       /\ \A g \in Handlers : Putting(g, q) => g = h
  /\ Waiting(q) => status[q].state = "queued" /\ ~WorkingOn(q)
  /\ \A i, j \in 1..Len(tasks) : tasks[i] = q /\ tasks[j] = q => i = j

\* The job file says where the worker is, and names the commit it works on; from
\* docker run on the container is of this commit.
AtTheWorker(q) ==
  WorkingOn(q) =>
    /\ worker.pc = "taken" => status[q].state = "queued"
    /\ worker.pc = "cloning" => status[q].state = "cloning"
    /\ worker.pc \in {"building", "built", "cleared", "started"} => status[q].state = "building"
    /\ worker.pc \in {"probing", "answered"} => status[q].state = "probing"
    /\ worker.commit = status[q].commit
    /\ worker.pc \in {"started", "probing", "answered"} => container[q] = worker.commit

\* Whoever takes the container away does so of a job that is in nobody's hands,
\* the reaper of one whose time is over.
TakenAway(q) ==
  /\ InHand(q) => ~ReaperAt(q) /\ ~Deleting(q)
  /\ ReaperAt(q) =>
       /\ status[q].state \in {"running", "destroyed"}
       /\ status[q].state = "running" => status[q].left = 0
       /\ reaper.pc \in {"rmtree", "write"} => container[q] = NoCommit
       /\ reaper.pc = "write" => ~data[q]
  /\ \A h \in Handlers : DeletingAt(h, q) =>
       /\ container[q] = NoCommit
       /\ handler[h].pc = "write" => ~data[q]

FileIsTrue(q) ==
  /\ status[q].state = "running" => container[q] \in {status[q].commit, NoCommit}
  /\ status[q].state \in {"expired", "destroyed"} => container[q] = NoCommit /\ ~data[q]

OrderlyAt(q) == OnItsWay(q) /\ AtTheWorker(q) /\ TakenAway(q) /\ FileIsTrue(q)

OrderlyReports == \A q \in Reports \ disturbed : OrderlyAt(q)

\* What a step leaves of a report that it is not about: its files stay, and nobody
\* is at it who was not before.
FileKept(q) ==
  /\ status'[q].state = status[q].state
  /\ status'[q].commit = status[q].commit
  /\ status[q].left = 0 => status'[q].left = 0

QueuedOnce(q) == \A i, j \in 1..Len(tasks) : tasks[i] = q /\ tasks[j] = q => i = j

QueueKept(q) ==
  /\ Waiting(q)' => Waiting(q)
  /\ QueuedOnce(q) => QueuedOnce(q)'

HandlersKept(q) ==
  \A h \in Handlers :
    handler'[h].pc \in {"put", "rmtree", "write"} /\ handler'[h].report = q
      => handler'[h] = handler[h]

Untouched(q) ==
  /\ FileKept(q) /\ container'[q] = container[q] /\ data'[q] = data[q]
  /\ QueueKept(q) /\ HandlersKept(q)
  /\ WorkingOn(q)' => worker' = worker
  /\ ReaperAt(q)' => reaper' = reaper

LEMMA UntouchedStaysOrderly ==
  ASSUME NEW q \in Reports, Untouched(q), OrderlyAt(q)
  PROVE  OrderlyAt(q)'
  <1>1. /\ WorkingOn(q)' => WorkingOn(q) /\ worker' = worker
        /\ ReaperAt(q)' => ReaperAt(q) /\ reaper' = reaper
    BY DEF Untouched, WorkingOn, ReaperAt
  <1>2. ASSUME NEW h \in Handlers
        PROVE  /\ Putting(h, q)' => Putting(h, q)
               /\ DeletingAt(h, q)' => DeletingAt(h, q) /\ handler'[h] = handler[h]
    BY DEF Untouched, HandlersKept, Putting, DeletingAt
  <1>3. InHand(q)' => InHand(q)
    BY <1>1, <1>2 DEF InHand, Untouched, QueueKept, Putting
  <1>4. Deleting(q)' => Deleting(q)
    BY <1>2 DEF Deleting, DeletingAt
  <1>5. OnItsWay(q)'
    BY <1>1, <1>2 DEF OrderlyAt, OnItsWay, Untouched, FileKept, QueueKept, QueuedOnce
  <1>6. AtTheWorker(q)'
    BY <1>1 DEF OrderlyAt, AtTheWorker, Untouched, FileKept
  <1>7. TakenAway(q)'
    BY <1>1, <1>2, <1>3, <1>4 DEF OrderlyAt, TakenAway, Untouched, FileKept
  <1>8. FileIsTrue(q)'
    BY DEF OrderlyAt, FileIsTrue, Untouched, FileKept
  <1> QED
    BY <1>5, <1>6, <1>7, <1>8 DEF OrderlyAt

\* The steps of a request leave the other reports, and those that neither write nor
\* remove leave every report.
LEMMA RequestKeeps ==
  ASSUME TypeOK, ThreadsKnow, NEW q \in Reports, NEW h \in Handlers,
         \/ \E r \in Reports, c \in Commits : PostCheck(h, r, c)
         \/ RequestFails(h)
         \/ (PostWrite(h) \/ PostPut(h) \/ DeleteData(h) \/ DeleteWrite(h)) /\ handler[h].report # q
         \/ \E r \in Reports \ {q} : DeleteContainer(h, r)
  PROVE  Untouched(q)
  <1>0. /\ status \in [Reports -> JobFile] /\ tasks \in Seq(Reports)
        /\ handler \in [Handlers -> ThreadAt({"idle", "accepted", "put", "rmtree", "write"})]
        /\ handler[h].pc # "idle" => handler[h].report \in Reports
    BY DEF TypeOK, ThreadsKnow
  <1>1. HandlersKept(q)
    <2>1. \A g \in Handlers : g # h => handler'[g] = handler[g]
      BY <1>0 DEF PostCheck, PostWrite, PostPut, DeleteContainer, DeleteData, DeleteWrite,
                  RequestFails
    <2>2. handler'[h].pc \in {"put", "rmtree", "write"} => handler'[h].report # q
      BY <1>0 DEF PostCheck, PostWrite, PostPut, DeleteContainer, DeleteData, DeleteWrite,
                  RequestFails, Idle, Thread, ThreadAt
    <2> QED
      BY <2>1, <2>2 DEF HandlersKept
  <1>2. FileKept(q)
    <2>1. status'[q] = status[q]
      BY <1>0 DEF PostCheck, PostWrite, PostPut, DeleteContainer, DeleteData, DeleteWrite,
                  RequestFails, WriteState
    <2> QED
      BY <2>1 DEF FileKept
  <1>3. container'[q] = container[q] /\ data'[q] = data[q] /\ UNCHANGED <<worker, reaper>>
    BY DEF PostCheck, PostWrite, PostPut, DeleteContainer, DeleteData, DeleteWrite, RequestFails,
           RemoveContainer, RemoveData, TypeOK
  <1>4. QueueKept(q)
    <2>1. CASE tasks' = tasks
      BY <2>1 DEF QueueKept, QueuedOnce, Waiting
    <2>2. CASE PostPut(h) /\ handler[h].report # q
      <3> DEFINE r == handler[h].report
      <3>1. tasks' = Append(tasks, r) /\ r \in Reports /\ r # q
        BY <1>0, <2>2 DEF PostPut
      <3>2. \A i \in 1..Len(tasks') : tasks'[i] = q => i \in 1..Len(tasks) /\ tasks[i] = q
        BY <1>0, <3>1, AppendTask
      <3> QED
        BY <3>2 DEF QueueKept, QueuedOnce, Waiting
    <2> QED
      BY <2>1, <2>2 DEF PostCheck, PostWrite, DeleteContainer, DeleteData, DeleteWrite, RequestFails
  <1> QED
    BY <1>1, <1>2, <1>3, <1>4 DEF Untouched

\* A report accepted in peace is orderly again, one put in the queue stays so.
LEMMA OrderlyPost ==
  ASSUME TypeOK, ThreadsKnow, NEW q \in Reports, NEW h \in Handlers, handler[h].report = q,
         \/ PostWrite(h)
         \/ PostPut(h) /\ OrderlyAt(q),
         q \notin disturbed'
  PROVE  OrderlyAt(q)'
  <1>0. /\ tasks \in Seq(Reports) /\ UNCHANGED <<container, data, worker, reaper>>
        /\ handler \in [Handlers -> ThreadAt({"idle", "accepted", "put", "rmtree", "write"})]
        /\ \A g \in Handlers : g # h => handler'[g] = handler[g]
    BY DEF TypeOK, PostWrite, PostPut
  <1>w. WorkingOn(q)' = WorkingOn(q) /\ ReaperAt(q)' = ReaperAt(q)
    BY <1>0 DEF WorkingOn, ReaperAt
  <1>1. CASE PostWrite(h)
    <2>1. ~InHand(q) /\ ~ReaperAt(q) /\ ~Deleting(q)
      BY <1>1 DEF PostWrite, Accepted
    <2>2. status'[q].state = "queued" /\ tasks' = tasks
      BY <1>1, PostWriteEffect DEF PostWrite, JobFilesAfter
    <2>3. handler'[h].pc = "put" /\ handler'[h].report = q
      BY <1>0, <1>1 DEF PostWrite, Thread
    <2>4. ~Waiting(q)' /\ \A i \in 1..Len(tasks') : tasks'[i] # q
      BY <2>1, <2>2 DEF InHand, Waiting
    <2>5. /\ ~WorkingOn(q)' /\ ~ReaperAt(q)' /\ ~Deleting(q)'
          /\ \A g \in Handlers : /\ Putting(g, q)' => g = h
                                 /\ ~DeletingAt(g, q)'
      BY <1>0, <1>w, <2>1, <2>3 DEF InHand, Deleting, Putting, DeletingAt
    <2> QED
      BY <2>2, <2>4, <2>5 DEF OrderlyAt, OnItsWay, AtTheWorker, TakenAway, FileIsTrue
  <1>2. CASE PostPut(h) /\ OrderlyAt(q)
    <2>1. /\ tasks' = Append(tasks, q) /\ status' = status /\ handler'[h].pc = "idle"
          /\ Putting(h, q)
      BY <1>0, <1>2 DEF PostPut, Idle, Thread, Putting
    <2>2. /\ status[q].state = "queued" /\ ~Waiting(q) /\ ~WorkingOn(q)
          /\ \A g \in Handlers : Putting(g, q) => g = h
      BY <1>2, <2>1 DEF OrderlyAt, OnItsWay
    <2>3. ~ReaperAt(q) /\ ~Deleting(q)
      BY <1>2, <2>1 DEF OrderlyAt, TakenAway, InHand, Putting
    <2>4. \A g \in Handlers : ~Putting(g, q)' /\ ~DeletingAt(g, q)'
      BY <1>0, <2>1, <2>2, <2>3 DEF Deleting, Putting, DeletingAt
    <2>5. \A i \in 1..Len(tasks') : tasks'[i] = q => i = Len(tasks) + 1
      BY <1>0, <2>1, <2>2 DEF Waiting
    <2>6. ~Deleting(q)'
      BY <2>4 DEF Deleting, DeletingAt
    <2> QED
      BY <1>w, <2>1, <2>2, <2>3, <2>4, <2>5, <2>6
         DEF OrderlyAt, OnItsWay, AtTheWorker, TakenAway, FileIsTrue
  <1> QED
    BY <1>1, <1>2

\* A DELETE of a report in nobody's hands, from the container to the job file.
LEMMA OrderlyDelete ==
  ASSUME TypeOK, ThreadsKnow, NEW q \in Reports, NEW h \in Handlers, OrderlyAt(q),
         \/ DeleteContainer(h, q)
         \/ (DeleteData(h) \/ DeleteWrite(h)) /\ handler[h].report = q,
         q \notin disturbed'
  PROVE  OrderlyAt(q)'
  <1>0. /\ UNCHANGED <<tasks, worker, reaper>>
        /\ handler \in [Handlers -> ThreadAt({"idle", "accepted", "put", "rmtree", "write"})]
        /\ container \in [Reports -> Commits \cup {NoCommit}] /\ data \in [Reports -> BOOLEAN]
        /\ \A g \in Handlers : g # h => handler'[g] = handler[g]
    BY DEF TypeOK, DeleteContainer, DeleteData, DeleteWrite
  <1>1. ~InHand(q)
    <2>1. DeleteData(h) \/ DeleteWrite(h) => Deleting(q)
      BY DEF DeleteContainer, DeleteData, DeleteWrite, Deleting
    <2> QED
      BY <2>1 DEF DeleteContainer, OrderlyAt, TakenAway
  <1>2. ~Putting(h, q)'
    <2>1. handler'[h].pc # "put"
      BY <1>0 DEF DeleteContainer, DeleteData, DeleteWrite, Idle, Thread, ThreadAt
    <2> QED
      BY <2>1 DEF Putting
  <1>3. ~InHand(q)' /\ ~Waiting(q)' /\ ~WorkingOn(q)' /\ \A g \in Handlers : ~Putting(g, q)'
    BY <1>0, <1>1, <1>2 DEF InHand, Putting, Waiting, WorkingOn
  <1>4. QueuedOnce(q)'
    BY <1>0 DEF OrderlyAt, OnItsWay, QueuedOnce
  <1>5. status \in [Reports -> JobFile] /\ q \in Reports
    BY DEF TypeOK
  <1>6. container'[q] = NoCommit
    <2>1. DeleteContainer(h, q) => container'[q] = NoCommit
      BY <1>0 DEF DeleteContainer, RemoveContainer
    <2>2. DeleteData(h) \/ DeleteWrite(h) => container' = container /\ DeletingAt(h, q)
      BY DEF DeleteContainer, DeleteData, DeleteWrite, DeletingAt
    <2> QED
      BY <2>1, <2>2 DEF OrderlyAt, TakenAway, DeleteContainer
  <1>7. data'[q] = data[q] \/ ~data'[q]
    BY <1>0 DEF DeleteContainer, DeleteData, DeleteWrite, RemoveData
  <1>8. handler'[h].pc = "write" => ~data'[q]
    BY <1>0 DEF DeleteContainer, DeleteData, DeleteWrite, RemoveData, Idle, Thread
  <1>9. DeleteWrite(h) => ~data'[q]
    BY DEF DeleteContainer, DeleteWrite, OrderlyAt, TakenAway, DeletingAt
  <1>10. /\ status'[q].state = status[q].state \/ (DeleteWrite(h) /\ status'[q].state = "destroyed")
         /\ status'[q].left = status[q].left
    <2>1. CASE status' = status
      BY <2>1
    <2>2. CASE DeleteWrite(h) /\ handler[h].report = q
      <3>1. status' = [status EXCEPT ![q].state = "destroyed"]
        BY <2>2 DEF DeleteWrite, WriteState
      <3> QED
        BY <1>5, <2>2, <3>1 DEF JobFile
    <2> QED
      BY <2>1, <2>2 DEF DeleteContainer, DeleteData
  <1>11. TakenAway(q)'
    <2>1. ReaperAt(q)' = ReaperAt(q)
      BY <1>0 DEF ReaperAt
    <2>2. \A g \in Handlers : DeletingAt(g, q)' => container'[q] = NoCommit
                                                   /\ (handler'[g].pc = "write" => ~data'[q])
      BY <1>0, <1>6, <1>7, <1>8 DEF OrderlyAt, TakenAway, DeletingAt
    <2> QED
      BY <1>0, <1>3, <1>6, <1>7, <1>10, <2>1, <2>2 DEF OrderlyAt, TakenAway
  <1>12. FileIsTrue(q)'
    BY <1>6, <1>7, <1>9, <1>10 DEF OrderlyAt, FileIsTrue
  <1> QED
    BY <1>3, <1>4, <1>11, <1>12 DEF OrderlyAt, OnItsWay, QueuedOnce, AtTheWorker

\* A step of the worker, its death included, leaves the reports it is not about.
LEMMA WorkKeeps ==
  ASSUME TypeOK, ThreadsKnow, NEW q \in Reports,
         \/ TakeTask /\ Head(tasks) # q
         \/ ((Worker /\ ~TakeTask) \/ WorkerDies) /\ worker.report # q
  PROVE  Untouched(q)
  <1>0. /\ status \in [Reports -> JobFile] /\ tasks \in Seq(Reports)
        /\ container \in [Reports -> Commits \cup {NoCommit}] /\ data \in [Reports -> BOOLEAN]
        /\ worker.pc # "idle" => worker.report \in Reports
    BY DEF TypeOK, ThreadsKnow
  <1>1. CASE TakeTask /\ Head(tasks) # q
    <2>1. UNCHANGED <<status, container, data, reaper, handler>>
          /\ tasks' = Tail(tasks) /\ worker'.report # q
      BY <1>1 DEF TakeTask, Thread
    <2>2. \A i \in 1..Len(tasks') : tasks'[i] = q => i + 1 \in 1..Len(tasks) /\ tasks[i + 1] = q
      BY <1>0, <1>1, <2>1, TakeOldestTask DEF TakeTask
    <2>3. QueueKept(q)
      <3>1. ASSUME QueuedOnce(q), NEW i \in 1..Len(tasks'), NEW j \in 1..Len(tasks'),
                   tasks'[i] = q, tasks'[j] = q
            PROVE  i = j
        <4>1. i + 1 = j + 1
          BY <2>2, <3>1 DEF QueuedOnce
        <4> QED
          BY <4>1
      <3> QED
        BY <2>2, <3>1 DEF QueueKept, QueuedOnce, Waiting
    <2> QED
      BY <2>1, <2>3 DEF Untouched, FileKept, HandlersKept, WorkingOn, ReaperAt
  <1>2. CASE ((Worker /\ ~TakeTask) \/ WorkerDies) /\ worker.report # q
    <2>1. UNCHANGED <<tasks, reaper, handler>> /\ worker.pc # "idle"
          /\ (worker'.pc # "idle" => worker'.report = worker.report)
      BY <1>2, WorkerRecords DEF Worker, WriteCloning, WriteBuilding, FinishBuild, RemoveOldContainer,
                  RunContainer, WriteProbing, ProbeAnswered, WriteRunning, WriteFailed, RemoveFailed,
                  WorkerDies, Thread
    <2>2. container'[q] = container[q] /\ data'[q] = data[q]
      BY <1>0, <1>2 DEF Worker, WriteCloning, WriteBuilding, FinishBuild, RemoveOldContainer,
                  RunContainer, WriteProbing, ProbeAnswered, WriteRunning, WriteFailed, RemoveFailed,
                  WorkerDies, RemoveContainer
    <2>3. status'[q] = status[q]
      BY <1>0, <1>2 DEF Worker, WriteCloning, WriteBuilding, FinishBuild, RemoveOldContainer,
                  RunContainer, WriteProbing, ProbeAnswered, WriteRunning, WriteFailed, RemoveFailed,
                  WorkerDies, WriteState
    <2>4. ~WorkingOn(q)'
      BY <1>2, <2>1 DEF WorkingOn
    <2> QED
      BY <2>1, <2>2, <2>3, <2>4
         DEF Untouched, FileKept, HandlersKept, QueueKept, QueuedOnce, Waiting, ReaperAt
  <1> QED
    BY <1>1, <1>2

LEMMA OrderlyTake ==
  ASSUME TypeOK, ThreadsKnow, NEW q \in Reports, OrderlyAt(q), TakeTask, Head(tasks) = q
  PROVE  OrderlyAt(q)'
  <1>1. /\ tasks \in Seq(Reports) /\ tasks # <<>> /\ tasks' = Tail(tasks)
        /\ UNCHANGED <<status, container, data, reaper, handler>>
        /\ worker'.pc = "taken" /\ worker'.report = q /\ worker'.commit = status[q].commit
    BY DEF TypeOK, TakeTask, Thread
  <1>2. /\ 1 \in 1..Len(tasks) /\ tasks[1] = q
        /\ \A i \in 1..Len(tasks') : i + 1 \in 1..Len(tasks) /\ tasks'[i] = tasks[i + 1]
    BY <1>1, TakeOldestTask
  <1>3. Waiting(q) /\ InHand(q)
    BY <1>2 DEF Waiting, InHand
  <1>4. /\ status[q].state = "queued" /\ ~ReaperAt(q) /\ ~Deleting(q)
        /\ \A h \in Handlers : ~Putting(h, q)
    BY <1>3 DEF OrderlyAt, OnItsWay, TakenAway
  <1>5. \A i \in 1..Len(tasks') : tasks'[i] # q
    <2>1. ASSUME NEW i \in 1..Len(tasks'), tasks'[i] = q PROVE FALSE
      <3>1. i + 1 = 1
        BY <1>2, <2>1 DEF OrderlyAt, OnItsWay
      <3> QED
        BY <2>1, <3>1
    <2> QED
      BY <2>1
  <1>6. /\ ~ReaperAt(q)' /\ ~Deleting(q)' /\ ~Waiting(q)'
        /\ \A h \in Handlers : ~Putting(h, q)' /\ ~DeletingAt(h, q)'
    BY <1>1, <1>4, <1>5 DEF ReaperAt, Deleting, Putting, DeletingAt, Waiting
  <1> QED
    BY <1>1, <1>4, <1>5, <1>6 DEF OrderlyAt, OnItsWay, AtTheWorker, TakenAway, FileIsTrue

\* What the worker's steps do to the job it deploys.
WorkedOn(q) ==
  LET state == status'[q].state  pc == worker'.pc  c == container'[q] IN
  /\ worker'.pc \notin {"idle", "dead"} => worker'.commit = worker.commit
  /\ \/ /\ worker.pc = "taken" /\ pc = "cloning" /\ state = "cloning" /\ c = container[q]
     \/ /\ worker.pc = "cloning" /\ pc = "building" /\ state = "building" /\ c = container[q]
     \/ /\ worker.pc \in {"building", "built"} /\ pc \in {"built", "cleared"}
        /\ state = status[q].state
     \/ /\ worker.pc = "cleared" /\ pc = "started" /\ state = status[q].state
        /\ c = worker.commit
     \/ /\ worker.pc = "started" /\ pc = "probing" /\ state = "probing" /\ c = container[q]
     \/ /\ worker.pc = "probing" /\ pc = "answered" /\ state = status[q].state
        /\ c = container[q]
     \/ /\ worker.pc = "answered" /\ pc = "idle" /\ state = "running" /\ c = container[q]
     \/ /\ worker.pc # "removing" /\ pc = "removing" /\ state = "failed" /\ c = container[q]
     \/ /\ worker.pc = "answered" /\ pc = "dead" /\ state = "running" /\ c = container[q]
     \/ /\ pc = "dead" /\ state = status[q].state /\ c = container[q]

LEMMA WorkDone ==
  ASSUME TypeOK, ThreadsKnow, NEW q \in Reports,
         (Worker /\ ~TakeTask) \/ WorkerDies, worker.pc # "removing", worker.report = q
  PROVE  /\ WorkedOn(q) /\ status'[q].commit = status[q].commit
         /\ WorkerDies \/ worker'.pc # "dead"
         /\ UNCHANGED <<tasks, reaper, handler>>
         /\ worker'.pc # "idle" => worker'.report = q
  <1> USE DEF TypeOK, WorkerAt, States, Active, WorkerPcs, WorkedOn, JobFilesAfter
  <1>1. CASE WriteCloning
    BY <1>1, WriteStateEffect, WorkerGoesOn DEF WriteCloning
  <1>2. CASE WriteBuilding
    BY <1>2, WriteStateEffect, WorkerGoesOn DEF WriteBuilding
  <1>3. CASE FinishBuild \/ RemoveOldContainer
    BY <1>3, WorkerGoesOn DEF FinishBuild, RemoveOldContainer
  <1>4. CASE RunContainer
    BY <1>4, WorkerGoesOn DEF RunContainer
  <1>5. CASE WriteProbing
    BY <1>5, WriteStateEffect, WorkerGoesOn DEF WriteProbing
  <1>6. CASE ProbeAnswered
    BY <1>6, WorkerGoesOn DEF ProbeAnswered
  <1>7. CASE WriteRunning
    BY <1>7, WriteRunningEffect DEF WriteRunning, Idle, Thread
  <1>8. CASE WriteFailed
    BY <1>8, WriteStateEffect, WorkerGoesOn DEF WriteFailed
  <1>9. CASE WorkerDies
    <2>1. /\ status'[q].commit = status[q].commit
          /\ \/ status'[q].state = status[q].state
             \/ worker.pc = "answered" /\ status'[q].state = "running"
      BY <1>9, DeathEffect DEF WorkerDies, ReaperDies, Thread
    <2> QED
      BY <1>9, <2>1 DEF WorkerDies, Thread
  <1>10. ~RemoveFailed
    BY DEF RemoveFailed
  <1> QED
    BY <1>1, <1>2, <1>3, <1>4, <1>5, <1>6, <1>7, <1>8, <1>9, <1>10 DEF Worker

\* The worker at the report: deploying it, cleaning up after it, or dying over it.
LEMMA OrderlyWork ==
  ASSUME TypeOK, ThreadsKnow, NEW q \in Reports, OrderlyAt(q),
         (Worker /\ ~TakeTask) \/ WorkerDies, worker.report = q
  PROVE  OrderlyAt(q)'
  <1>1. CASE worker.pc = "removing"
    <2>1. /\ UNCHANGED <<status, data, tasks, reaper, handler>>
          /\ container'[q] = container[q] \/ container'[q] = NoCommit
          /\ ~WorkingOn(q)'
      BY <1>1 DEF Worker, WorkerAt, WriteCloning, WriteBuilding, FinishBuild, RemoveOldContainer,
                  RunContainer, WriteProbing, ProbeAnswered, WriteRunning, WriteFailed, RemoveFailed,
                  RemoveContainer, WorkerDies, Thread, Idle, WorkingOn, TypeOK
    <2>2. /\ ReaperAt(q)' = ReaperAt(q) /\ Deleting(q)' = Deleting(q) /\ Waiting(q)' = Waiting(q)
          /\ InHand(q)' => InHand(q)
          /\ \A h \in Handlers : Putting(h, q)' = Putting(h, q) /\ DeletingAt(h, q)' = DeletingAt(h, q)
      BY <2>1 DEF ReaperAt, Deleting, Waiting, InHand, Putting, DeletingAt
    <2>3. OnItsWay(q)' /\ AtTheWorker(q)'
      BY <2>1, <2>2 DEF OrderlyAt, OnItsWay, AtTheWorker
    <2>4. TakenAway(q)' /\ FileIsTrue(q)'
      BY <2>1, <2>2 DEF OrderlyAt, TakenAway, FileIsTrue
    <2> QED
      BY <2>3, <2>4 DEF OrderlyAt
  <1>2. CASE worker.pc \notin {"removing"}
    <2>1. WorkingOn(q) /\ InHand(q)
      BY <1>2, WorkerRecords DEF WorkerDies, WorkingOn, InHand
    <2>2. /\ ~Waiting(q) /\ ~ReaperAt(q) /\ ~Deleting(q)
          /\ \A h \in Handlers : ~Putting(h, q) /\ ~DeletingAt(h, q)
      BY <2>1 DEF OrderlyAt, OnItsWay, TakenAway, Deleting, DeletingAt
    <2>3. /\ WorkedOn(q) /\ status'[q].commit = status[q].commit
          /\ UNCHANGED <<tasks, reaper, handler>>
          /\ worker'.pc # "idle" => worker'.report = q
      BY <1>2, WorkDone
    <2>4. /\ ~Waiting(q)' /\ ~ReaperAt(q)' /\ ~Deleting(q)'
          /\ \A h \in Handlers : ~Putting(h, q)' /\ ~DeletingAt(h, q)'
      BY <2>2, <2>3 DEF Waiting, ReaperAt, Deleting, Putting, DeletingAt
    <2>5. OnItsWay(q)' /\ TakenAway(q)'
      BY <2>2, <2>3, <2>4 DEF OrderlyAt, OnItsWay, TakenAway, Waiting
    <2>6. AtTheWorker(q)'
      BY <2>1, <2>3 DEF OrderlyAt, AtTheWorker, WorkedOn, WorkingOn
    <2>7. FileIsTrue(q)'
      <3>1. worker.pc \in WorkerPcs
        BY DEF TypeOK, ThreadAt
      <3>2. status[q].state \in Active
        BY <2>1, <3>1 DEF OrderlyAt, AtTheWorker, WorkingOn, WorkerPcs, Active
      <3>3. worker.pc = "answered" => container[q] = status[q].commit
        BY <2>1 DEF OrderlyAt, AtTheWorker
      <3> QED
        BY <2>3, <3>2, <3>3 DEF FileIsTrue, WorkedOn, Active
    <2> QED
      BY <2>5, <2>6, <2>7 DEF OrderlyAt
  <1> QED
    BY <1>1, <1>2

\* A step of the reaper, its death included, leaves the reports it is not about.
LEMMA ReaperKeeps ==
  ASSUME TypeOK, ThreadsKnow, NEW q \in Reports,
         \/ \E r \in Reports \ {q} : ReaperChooses(r)
         \/ /\ ReaperRemovesContainer \/ ReaperRemovesData \/ ReaperWritesExpired \/ ReaperDies
            /\ reaper.report # q
  PROVE  Untouched(q)
  <1>0. /\ status \in [Reports -> JobFile]
        /\ container \in [Reports -> Commits \cup {NoCommit}] /\ data \in [Reports -> BOOLEAN]
    BY DEF TypeOK
  <1>1. UNCHANGED <<tasks, worker, handler>>
    BY DEF ReaperChooses, ReaperRemovesContainer, ReaperRemovesData, ReaperWritesExpired, ReaperDies
  <1>2. container'[q] = container[q] /\ data'[q] = data[q] /\ status'[q] = status[q]
    BY <1>0 DEF ReaperChooses, ReaperRemovesContainer, ReaperRemovesData, ReaperWritesExpired,
                ReaperDies, RemoveContainer, RemoveData, WriteState
  <1>3. ~ReaperAt(q)'
    BY DEF ReaperChooses, ReaperRemovesContainer, ReaperRemovesData, ReaperWritesExpired, ReaperDies,
           ReaperAt, Idle, Thread, TypeOK, ThreadAt
  <1> QED
    BY <1>1, <1>2, <1>3
       DEF Untouched, FileKept, QueueKept, QueuedOnce, HandlersKept, Waiting, WorkingOn

\* The reaper at the report: once it has chosen it nobody else is at it.
LEMMA OrderlyReaper ==
  ASSUME TypeOK, ThreadsKnow, NEW q \in Reports, OrderlyAt(q),
         \/ ReaperChooses(q)
         \/ /\ ReaperRemovesContainer \/ ReaperRemovesData \/ ReaperWritesExpired \/ ReaperDies
            /\ reaper.report = q
  PROVE  OrderlyAt(q)'
  <1>0. /\ status \in [Reports -> JobFile] /\ worker.pc \in WorkerPcs
        /\ container \in [Reports -> Commits \cup {NoCommit}] /\ data \in [Reports -> BOOLEAN]
        /\ UNCHANGED <<tasks, worker, handler>>
    BY DEF TypeOK, ThreadAt, ReaperChooses, ReaperRemovesContainer, ReaperRemovesData,
           ReaperWritesExpired, ReaperDies
  <1>1. ~InHand(q)
    <2>1. InHand(q) => status[q].state \in Active
      <3>1. WorkingOn(q) => status[q].state \in Active
        BY <1>0 DEF OrderlyAt, AtTheWorker, WorkingOn, WorkerPcs, Active
      <3> QED
        BY <3>1 DEF InHand, Putting, OrderlyAt, OnItsWay, Active
    <2>2. ReaperChooses(q) => status[q].state = "running"
      BY DEF ReaperChooses
    <2>3. ~ReaperChooses(q) => ReaperAt(q)
      BY DEF ReaperRemovesContainer, ReaperRemovesData, ReaperWritesExpired, ReaperDies, ReaperAt
    <2> QED
      BY <2>1, <2>2, <2>3 DEF OrderlyAt, TakenAway, Active
  <1>2. /\ ~InHand(q)' /\ ~Waiting(q)' /\ ~WorkingOn(q)'
        /\ \A h \in Handlers : ~Putting(h, q)' /\ DeletingAt(h, q)' = DeletingAt(h, q)
    BY <1>0, <1>1 DEF InHand, Waiting, WorkingOn, Putting, DeletingAt
  <1>3. OnItsWay(q)' /\ AtTheWorker(q)'
    BY <1>0, <1>2 DEF OrderlyAt, OnItsWay, AtTheWorker
  <1>4. CASE ReaperChooses(q)
    <2>1. /\ UNCHANGED <<status, container, data>> /\ reaper'.pc = "chosen" /\ reaper'.report = q
          /\ status[q].state = "running" /\ status[q].left = 0
      BY <1>4 DEF ReaperChooses, Thread
    <2>2. TakenAway(q)' /\ FileIsTrue(q)'
      BY <1>0, <1>2, <2>1 DEF OrderlyAt, TakenAway, FileIsTrue
    <2> QED
      BY <1>3, <2>2 DEF OrderlyAt
  <1>5. CASE /\ ReaperRemovesContainer \/ ReaperRemovesData \/ ReaperWritesExpired \/ ReaperDies
             /\ reaper.report = q
    <2>1. /\ ReaperAt(q) /\ reaper.pc \in {"chosen", "rmtree", "write"}
      BY <1>5 DEF ReaperRemovesContainer, ReaperRemovesData, ReaperWritesExpired, ReaperDies, ReaperAt
    <2>2. CASE ReaperRemovesContainer
      <3>1. /\ UNCHANGED <<status, data>> /\ container'[q] = NoCommit
            /\ reaper'.pc = "rmtree" /\ reaper'.report = q
        BY <1>0, <1>5, <2>2 DEF ReaperRemovesContainer, RemoveContainer, TypeOK, ThreadAt
      <3>2. TakenAway(q)' /\ FileIsTrue(q)'
        BY <1>0, <1>2, <2>1, <3>1 DEF OrderlyAt, TakenAway, FileIsTrue
      <3> QED
        BY <1>3, <3>2 DEF OrderlyAt
    <2>3. CASE ReaperRemovesData
      <3>1. /\ UNCHANGED <<status, container>> /\ ~data'[q] /\ reaper.pc = "rmtree"
            /\ reaper'.pc = "write" /\ reaper'.report = q
        BY <1>0, <1>5, <2>3 DEF ReaperRemovesData, RemoveData, TypeOK, ThreadAt
      <3>2. TakenAway(q)' /\ FileIsTrue(q)'
        BY <1>0, <1>2, <2>1, <3>1 DEF OrderlyAt, TakenAway, FileIsTrue
      <3> QED
        BY <1>3, <3>2 DEF OrderlyAt
    <2>4. CASE ReaperWritesExpired \/ ReaperDies
      <3>1. /\ UNCHANGED <<container, data>> /\ ~ReaperAt(q)'
            /\ \/ status'[q].state = status[q].state
               \/ reaper.pc = "write" /\ status'[q].state = "expired"
            /\ status'[q].commit = status[q].commit
        <4>1. "expired" \in States
          BY DEF States
        <4>2. ReaperWritesExpired => reaper.pc = "write" /\ WriteState(q, "expired")
          BY <1>5 DEF ReaperWritesExpired
        <4>3. ReaperWritesExpired => /\ status'[q].state = "expired"
                                     /\ status'[q].commit = status[q].commit
          BY <1>0, <4>1, <4>2, WriteStateEffect DEF JobFilesAfter
        <4>4. ReaperDies => /\ status'[q].commit = status[q].commit
                            /\ \/ status'[q].state = status[q].state
                               \/ reaper.pc = "write" /\ status'[q].state = "expired"
          BY DeathEffect DEF ReaperDies, WorkerDies, Thread
        <4> QED
          BY <2>4, <4>2, <4>3, <4>4 DEF ReaperWritesExpired, ReaperDies, ReaperAt, Idle, Thread
      <3>2. reaper.pc = "write" => container[q] = NoCommit /\ ~data[q]
        BY <2>1 DEF OrderlyAt, TakenAway
      <3>3. TakenAway(q)' /\ FileIsTrue(q)'
        BY <1>0, <1>2, <3>1, <3>2 DEF OrderlyAt, TakenAway, FileIsTrue
      <3> QED
        BY <1>3, <3>3 DEF OrderlyAt
    <2> QED
      BY <1>5, <2>2, <2>3, <2>4
  <1> QED
    BY <1>4, <1>5

\* Time and a restart leave every report as it was.
LEMMA OthersKeep ==
  ASSUME TypeOK, NEW q \in Reports, Tick \/ Crash \/ UNCHANGED vars
  PROVE  Untouched(q)
  <1>1. CASE Tick
    <2>1. FileKept(q)
      <3>1. status'[q] = [status[q] EXCEPT !.left = IF status[q].left = 0 THEN 0
                                                                        ELSE status[q].left - 1]
        BY <1>1 DEF Tick
      <3>2. status[q] \in JobFile
        BY DEF TypeOK
      <3> QED
        BY <3>1, <3>2 DEF FileKept, JobFile
    <2> QED
      BY <1>1, <2>1 DEF Tick, Untouched, QueueKept, QueuedOnce, HandlersKept, Waiting, WorkingOn,
                        ReaperAt
  <1>2. CASE Crash
    <2>1. /\ UNCHANGED <<status, container, data>> /\ tasks' = <<>>
          /\ worker'.pc = "idle" /\ reaper'.pc = "idle"
          /\ \A h \in Handlers : handler'[h].pc = "idle"
      BY <1>2 DEF Crash, Idle, Thread
    <2>2. QueueKept(q)
      BY <2>1 DEF QueueKept, QueuedOnce, Waiting
    <2> QED
      BY <2>1, <2>2 DEF Untouched, FileKept, HandlersKept, WorkingOn, ReaperAt
  <1>3. CASE UNCHANGED vars
    BY <1>3 DEF vars, Untouched, FileKept, QueueKept, QueuedOnce, HandlersKept, Waiting, WorkingOn,
                ReaperAt
  <1> QED
    BY <1>1, <1>2, <1>3

\* Only an accepted request takes a report back among the orderly ones.
LEMMA NextOrderlyReports ==
  ASSUME TypeOK, ThreadsKnow, OrderlyReports, [Next]_vars
  PROVE  OrderlyReports'
  <1> SUFFICES ASSUME NEW q \in Reports, q \notin disturbed' PROVE OrderlyAt(q)'
    BY DEF OrderlyReports
  <1>1. ASSUME NEW h \in Handlers, PostWrite(h) PROVE OrderlyAt(q)'
    <2>1. CASE handler[h].report = q
      BY <1>1, <2>1, OrderlyPost
    <2>2. CASE handler[h].report # q
      <3>1. q \notin disturbed
        BY <1>1, <2>2 DEF PostWrite, Accepted
      <3> QED
        BY <1>1, <2>2, <3>1, RequestKeeps, UntouchedStaysOrderly DEF OrderlyReports
    <2> QED
      BY <2>1, <2>2
  <1>2. CASE \A h \in Handlers : ~PostWrite(h)
    <2>1. q \notin disturbed
      BY <1>2, Steps
         DEF PostCheck, PostPut, DeleteContainer, DeleteData, DeleteWrite, RequestFails, Worker,
             TakeTask, WriteCloning, WriteBuilding, FinishBuild, RemoveOldContainer, RunContainer,
             WriteProbing, ProbeAnswered, WriteRunning, WriteFailed, RemoveFailed, WorkerDies,
             Reaper, ReaperChooses, ReaperRemovesContainer, ReaperRemovesData, ReaperWritesExpired,
             ReaperDies, Tick, Crash, vars
    <2>2. OrderlyAt(q)
      BY <2>1 DEF OrderlyReports
    <2>3. Untouched(q) => OrderlyAt(q)'
      BY <2>2, UntouchedStaysOrderly
    <2>4. ASSUME NEW h \in Handlers,
                 \/ \E r \in Reports, c \in Commits : PostCheck(h, r, c)
                 \/ PostPut(h) \/ \E r \in Reports : DeleteContainer(h, r)
                 \/ DeleteData(h) \/ DeleteWrite(h) \/ RequestFails(h)
          PROVE  OrderlyAt(q)'
      BY <2>2, <2>3, <2>4, RequestKeeps, OrderlyPost, OrderlyDelete
    <2>5. Worker \/ WorkerDies => OrderlyAt(q)'
      BY <2>2, <2>3, WorkKeeps, OrderlyTake, OrderlyWork
    <2>6. Reaper \/ ReaperDies => OrderlyAt(q)'
      BY <2>2, <2>3, ReaperKeeps, OrderlyReaper DEF Reaper
    <2>7. Tick \/ Crash \/ UNCHANGED vars => OrderlyAt(q)'
      BY <2>3, OthersKeep
    <2> QED
      BY <1>2, <2>4, <2>5, <2>6, <2>7, Steps
  <1> QED
    BY <1>1, <1>2

LEMMA InitOrderly == Init => OrderlyReports
  BY DEF Init, Idle, Thread, OrderlyReports, OrderlyAt, OnItsWay, AtTheWorker, TakenAway,
         FileIsTrue, Putting, DeletingAt, Waiting, WorkingOn, InHand, ReaperAt, Deleting

LEMMA OrderlyInductive == Spec => []OrderlyReports
  <1>1. IInv /\ OrderlyReports /\ [Next]_vars => OrderlyReports'
    BY NextOrderlyReports DEF IInv
  <1> QED
    BY <1>1, InitOrderly, Inductive, PTL DEF Spec

\* A job file that says running and verified is about the commit in its container,
\* for every report whose last job no other request, task or reaper met, over a
\* running job, a restart or a dead thread too (lines 117, 156, 166, 221-226).
THEOREM OrderlyShows == Spec => []OrderlyShowsItsCommit
  <1>1. OrderlyReports => OrderlyShowsItsCommit
    BY DEF OrderlyReports, OrderlyAt, FileIsTrue, OrderlyShowsItsCommit, ShowsItsCommit
  <1> QED
    BY <1>1, OrderlyInductive, PTL

\* A report that is expired or destroyed has no container and no data, unless
\* requests for it met (lines 94-98, 185-193, 246-247).
THEOREM OrderlyGone == Spec => []OrderlyIsGone
  <1>1. OrderlyReports => OrderlyIsGone
    BY DEF OrderlyReports, OrderlyAt, FileIsTrue, OrderlyIsGone
  <1> QED
    BY <1>1, OrderlyInductive, PTL

-----------------------------------------------------------------------------
(* The safety part of the refinement: the steps of the orchestrator are the *)
(* steps of EphemeralDeployment.                                            *)

WantedNow == [r \in Reports |-> IF status[r].state \in Active THEN status[r].commit ELSE NoCommit]
ServedNow == [r \in Reports |-> IF status[r].state = "running" THEN container[r] ELSE NoCommit]
LeftNow == [r \in Reports |-> status[r].left]
StuckNow ==
  {r \in Reports :
     \/ status[r].state \in Active /\ (r \in lost \/ worker.pc = "dead")
     \/ status[r].state = "running" /\ reaper.pc = "dead"}
WithdrawingNow == {r \in Reports : Deleting(r)}

\* A step that changes one report at most is one of the abstract steps.
LEMMA AbstractSteps ==
  ASSUME NEW r \in Reports
  PROVE  /\ /\ r \notin disturbed \cup StuckNow => WantedNow[r] = NoCommit
            /\ \E c \in Commits : WantedNow' = [WantedNow EXCEPT ![r] = c]
            /\ ServedNow' = [ServedNow EXCEPT ![r] = NoCommit]
            /\ disturbed' = disturbed \ {r} /\ UNCHANGED LeftNow
            => Deployment!Next
         /\ /\ WantedNow[r] # NoCommit
            /\ WantedNow' = [WantedNow EXCEPT ![r] = NoCommit]
            /\ ServedNow' = [ServedNow EXCEPT ![r] = WantedNow[r]]
            /\ LeftNow' = [LeftNow EXCEPT ![r] = TTL] /\ UNCHANGED disturbed
            => Deployment!Next
         /\ /\ WantedNow[r] # NoCommit
            /\ WantedNow' = [WantedNow EXCEPT ![r] = NoCommit]
            /\ UNCHANGED <<ServedNow, LeftNow, disturbed>>
            => Deployment!Next
         /\ /\ ServedNow[r] # NoCommit /\ LeftNow[r] = 0
            /\ ServedNow' = [ServedNow EXCEPT ![r] = NoCommit]
            /\ UNCHANGED <<WantedNow, LeftNow, disturbed>>
            => Deployment!Next
         /\ /\ r \in WithdrawingNow \cup WithdrawingNow'
            /\ WantedNow[r] # NoCommit => r \in StuckNow
            /\ WantedNow' = [WantedNow EXCEPT ![r] = NoCommit]
            /\ ServedNow' = [ServedNow EXCEPT ![r] = NoCommit]
            /\ UNCHANGED <<LeftNow, disturbed>>
            => Deployment!Next
         /\ UNCHANGED <<WantedNow, ServedNow, LeftNow, disturbed>> => Deployment!Next
  <1>0. StuckNow' \in SUBSET Reports /\ WithdrawingNow' \in SUBSET Reports
    BY DEF StuckNow, WithdrawingNow
  <1>1. /\ r \notin disturbed \cup StuckNow => WantedNow[r] = NoCommit
        /\ \E c \in Commits : WantedNow' = [WantedNow EXCEPT ![r] = c]
        /\ ServedNow' = [ServedNow EXCEPT ![r] = NoCommit]
        /\ disturbed' = disturbed \ {r} /\ UNCHANGED LeftNow
        => Deployment!Ask(r)
    BY DEF Deployment!Ask, WantedNow, ServedNow, LeftNow, StuckNow
  <1>2. /\ WantedNow[r] # NoCommit
        /\ WantedNow' = [WantedNow EXCEPT ![r] = NoCommit]
        /\ ServedNow' = [ServedNow EXCEPT ![r] = WantedNow[r]]
        /\ LeftNow' = [LeftNow EXCEPT ![r] = TTL] /\ UNCHANGED disturbed
        => Deployment!Serve(r)
    BY DEF Deployment!Serve, WantedNow, ServedNow, LeftNow
  <1>3. /\ WantedNow[r] # NoCommit
        /\ WantedNow' = [WantedNow EXCEPT ![r] = NoCommit]
        /\ UNCHANGED <<ServedNow, LeftNow, disturbed>>
        => Deployment!GiveUp(r)
    BY DEF Deployment!GiveUp, WantedNow, ServedNow, LeftNow
  <1>4. /\ ServedNow[r] # NoCommit /\ LeftNow[r] = 0
        /\ ServedNow' = [ServedNow EXCEPT ![r] = NoCommit]
        /\ UNCHANGED <<WantedNow, LeftNow, disturbed>>
        => Deployment!Expire(r)
    BY DEF Deployment!Expire, WantedNow, ServedNow, LeftNow
  <1>5. /\ r \in WithdrawingNow \cup WithdrawingNow'
        /\ WantedNow[r] # NoCommit => r \in StuckNow
        /\ WantedNow' = [WantedNow EXCEPT ![r] = NoCommit]
        /\ ServedNow' = [ServedNow EXCEPT ![r] = NoCommit]
        /\ UNCHANGED <<LeftNow, disturbed>>
        => Deployment!Withdraw(r)
    BY DEF Deployment!Withdraw, WantedNow, ServedNow, LeftNow, StuckNow, WithdrawingNow
  <1>6. UNCHANGED <<WantedNow, ServedNow, LeftNow, disturbed>> => Deployment!Die
    BY DEF Deployment!Die, Deployment!shown, WantedNow, ServedNow, LeftNow
  <1>7. \/ Deployment!Ask(r) \/ Deployment!Serve(r) \/ Deployment!GiveUp(r) \/ Deployment!Expire(r)
        \/ Deployment!Withdraw(r) \/ Deployment!Die
        => Deployment!Next
    BY <1>0 DEF Deployment!Next, StuckNow, WithdrawingNow
  <1> QED
    BY <1>1, <1>2, <1>3, <1>4, <1>5, <1>6, <1>7

\* What the abstract specification sees of one job, before and after a step.
LEMMA JobSeen ==
  ASSUME NEW r \in Reports
  PROVE  /\ WantedNow[r] = IF status[r].state \in Active THEN status[r].commit ELSE NoCommit
         /\ WantedNow[r]' = IF status'[r].state \in Active THEN status'[r].commit ELSE NoCommit
         /\ ServedNow[r] = IF status[r].state = "running" THEN container[r] ELSE NoCommit
         /\ ServedNow[r]' = IF status'[r].state = "running" THEN container'[r] ELSE NoCommit
         /\ LeftNow[r] = status[r].left /\ LeftNow[r]' = status'[r].left
  BY DEF WantedNow, ServedNow, LeftNow

\* The other reports' job files and containers stay as they are.
OnlyAt(r) == \A q \in Reports \ {r} : status'[q] = status[q] /\ container'[q] = container[q]

\* A step at one job is one of the abstract steps, by what it does to this job.
LEMMA StepAtJob ==
  ASSUME NEW r \in Reports, OnlyAt(r)
  PROVE  /\ /\ r \notin disturbed \cup StuckNow => WantedNow[r] = NoCommit
            /\ WantedNow[r]' \in Commits /\ ServedNow[r]' = NoCommit /\ LeftNow[r]' = LeftNow[r]
            /\ disturbed' = disturbed \ {r}
            => Deployment!Next
         /\ /\ WantedNow[r] # NoCommit /\ WantedNow[r]' = NoCommit
            /\ ServedNow[r]' = WantedNow[r] /\ LeftNow[r]' = TTL /\ UNCHANGED disturbed
            => Deployment!Next
         /\ /\ WantedNow[r] # NoCommit /\ WantedNow[r]' = NoCommit
            /\ ServedNow[r]' = ServedNow[r] /\ LeftNow[r]' = LeftNow[r] /\ UNCHANGED disturbed
            => Deployment!Next
         /\ /\ ServedNow[r] # NoCommit /\ LeftNow[r] = 0 /\ ServedNow[r]' = NoCommit
            /\ WantedNow[r]' = WantedNow[r] /\ LeftNow[r]' = LeftNow[r] /\ UNCHANGED disturbed
            => Deployment!Next
         /\ /\ r \in WithdrawingNow \cup WithdrawingNow'
            /\ WantedNow[r] # NoCommit => r \in StuckNow
            /\ WantedNow[r]' = NoCommit /\ ServedNow[r]' = NoCommit
            /\ LeftNow[r]' = LeftNow[r] /\ UNCHANGED disturbed
            => Deployment!Next
         /\ /\ WantedNow[r]' = WantedNow[r] /\ ServedNow[r]' = ServedNow[r]
            /\ LeftNow[r]' = LeftNow[r] /\ UNCHANGED disturbed
            => Deployment!Next
  <1>1. /\ WantedNow = [WantedNow EXCEPT ![r] = WantedNow[r]]
        /\ ServedNow = [ServedNow EXCEPT ![r] = ServedNow[r]]
        /\ LeftNow = [LeftNow EXCEPT ![r] = LeftNow[r]]
    BY DEF WantedNow, ServedNow, LeftNow
  <1>2. /\ WantedNow' = [WantedNow EXCEPT ![r] = WantedNow[r]']
        /\ ServedNow' = [ServedNow EXCEPT ![r] = ServedNow[r]']
        /\ LeftNow' = [LeftNow EXCEPT ![r] = LeftNow[r]']
    BY DEF WantedNow, ServedNow, LeftNow, OnlyAt
  <1> QED
    BY <1>1, <1>2, AbstractSteps

\* Of a report that goes astray, or is, the promise says nothing.
LEMMA StepAstray ==
  ASSUME NEW r \in Reports, OnlyAt(r), disturbed' = disturbed \cup {r}
  PROVE  Deployment!Next
  <1>1. StuckNow' \in SUBSET Reports /\ WithdrawingNow' \in SUBSET Reports
    BY DEF StuckNow, WithdrawingNow
  <1>2. \A q \in Reports \ {r} : /\ WantedNow[q]' = WantedNow[q] /\ ServedNow[q]' = ServedNow[q]
                                 /\ LeftNow[q]' = LeftNow[q]
    BY JobSeen DEF OnlyAt
  <1>3. Deployment!Stray(r)
    BY <1>2 DEF Deployment!Stray, WantedNow, ServedNow, LeftNow
  <1> QED
    BY <1>1, <1>3 DEF Deployment!Next, StuckNow, WithdrawingNow

LEMMA NothingSeen ==
  ASSUME UNCHANGED <<status, container, disturbed>>
  PROVE  Deployment!Next
  <1>1. UNCHANGED <<WantedNow, ServedNow, LeftNow, disturbed>>
    BY DEF WantedNow, ServedNow, LeftNow
  <1>2. StuckNow' \in SUBSET Reports /\ WithdrawingNow' \in SUBSET Reports
    BY DEF StuckNow, WithdrawingNow
  <1>3. Deployment!Die
    BY <1>1 DEF Deployment!Die, Deployment!shown, WantedNow, ServedNow, LeftNow
  <1> QED
    BY <1>2, <1>3 DEF Deployment!Next, StuckNow, WithdrawingNow

\* A write of the state alone, between two states that look the same from outside.
LEMMA QuietWrite ==
  ASSUME status \in [Reports -> JobFile], NEW r \in Reports, NEW s \in States,
         WriteState(r, s), UNCHANGED <<container, disturbed>>,
         \/ status[r].state \in Active /\ s \in Active
         \/ status[r].state \notin Active /\ s \in {"expired", "destroyed"}
            /\ (status[r].state = "running" => container[r] = NoCommit)
  PROVE  Deployment!Next
  <1>1. /\ OnlyAt(r)
        /\ status'[r].state = s /\ status'[r].commit = status[r].commit
        /\ status'[r].left = status[r].left
    BY DEF WriteState, JobFile, OnlyAt
  <1>2. WantedNow[r]' = WantedNow[r] /\ ServedNow[r]' = ServedNow[r] /\ LeftNow[r]' = LeftNow[r]
    BY <1>1, JobSeen DEF Active
  <1> QED
    BY <1>1, <1>2, StepAtJob

\* An active job in nobody's hands is lost, or the worker is dead: it is stuck.
LEMMA NobodysJobIsStuck ==
  ASSUME TypeOK, WorkerKnows, ActiveJobsAreKnown, NEW r \in Reports, ~InHand(r),
         WantedNow[r] # NoCommit
  PROVE  r \in StuckNow
  <1>1. status[r].state \in Active
    BY JobSeen
  <1>2. CASE r \in lost
    BY <1>1, <1>2 DEF StuckNow
  <1>3. CASE r \notin lost /\ worker.pc # "dead"
    BY <1>1, <1>3 DEF ActiveJobsAreKnown, InHand, WorkingOn, WorkerKnows, Active
  <1>4. CASE worker.pc = "dead"
    BY <1>1, <1>4 DEF StuckNow
  <1> QED
    BY <1>2, <1>3, <1>4

LEMMA PostRefines ==
  ASSUME IInv, OrderlyReports, NEW h \in Handlers, Post(h)
  PROVE  Deployment!Next
  <1> USE DEF IInv
  <1>1. CASE PostWrite(h)
    <2>0. PICK r \in Reports : r = handler[h].report
      BY <1>1 DEF PostWrite, ThreadsKnow
    <2>1. handler[h].commit \in Commits /\ status \in [Reports -> JobFile]
      BY <1>1, <2>0 DEF PostWrite, ThreadsKnow, TypeOK
    <2>2. /\ OnlyAt(r) /\ status'[r].state = "queued" /\ status'[r].commit = handler[h].commit
          /\ status'[r].left = status[r].left
      BY <1>1, <2>0, <2>1 DEF PostWrite, JobFile, OnlyAt
    <2>3. /\ WantedNow[r]' \in Commits /\ ServedNow[r]' = NoCommit /\ LeftNow[r]' = LeftNow[r]
      BY <2>1, <2>2, JobSeen DEF Active
    <2>4. CASE InHand(r) \/ ReaperAt(r) \/ Deleting(r)
      <3>1. disturbed' = disturbed \cup {r}
        BY <1>1, <2>0, <2>4 DEF PostWrite, Accepted
      <3> QED
        BY <2>2, <3>1, StepAstray
    <2>5. CASE ~(InHand(r) \/ ReaperAt(r) \/ Deleting(r))
      <3>1. disturbed' = disturbed \ {r}
        BY <1>1, <2>0, <2>5 DEF PostWrite, Accepted
      <3>2. r \notin disturbed \cup StuckNow => WantedNow[r] = NoCommit
        BY <2>5, NobodysJobIsStuck
      <3> QED
        BY <2>2, <2>3, <3>1, <3>2, StepAtJob
    <2> QED
      BY <2>4, <2>5
  <1>2. CASE (\E r \in Reports, c \in Commits : PostCheck(h, r, c)) \/ PostPut(h)
    BY <1>2, NothingSeen DEF PostCheck, PostPut
  <1> QED
    BY <1>1, <1>2 DEF Post

LEMMA DeleteRefines ==
  ASSUME IInv, OrderlyReports, NEW h \in Handlers, Delete(h)
  PROVE  Deployment!Next
  <1> USE DEF IInv
  <1>0. status \in [Reports -> JobFile] /\ container \in [Reports -> Commits \cup {NoCommit}]
    BY DEF TypeOK
  <1>1. CASE \E r \in Reports : DeleteContainer(h, r)
    <2> PICK r \in Reports : DeleteContainer(h, r)
      BY <1>1
    <2>1. OnlyAt(r) /\ UNCHANGED status /\ container'[r] = NoCommit
      BY <1>0 DEF DeleteContainer, RemoveContainer, OnlyAt
    <2>2. CASE InHand(r)
      BY <2>1, <2>2, StepAstray DEF DeleteContainer
    <2>3. CASE ~InHand(r)
      <3>1. /\ UNCHANGED disturbed /\ LeftNow[r]' = LeftNow[r] /\ ServedNow[r]' = NoCommit
            /\ WantedNow[r]' = WantedNow[r]
        BY <2>1, <2>3, JobSeen DEF DeleteContainer
      <3>2. CASE status[r].state \in Active
        <4>1. ServedNow[r] = NoCommit
          BY <3>2, JobSeen DEF Active
        <4> QED
          BY <2>1, <3>1, <4>1, StepAtJob
      <3>3. CASE status[r].state \notin Active
        <4>1. WantedNow[r] = NoCommit
          BY <3>3, JobSeen
        <4>2. r \in WithdrawingNow'
          BY DEF DeleteContainer, WithdrawingNow, Deleting, Thread, TypeOK
        <4> QED
          BY <2>1, <3>1, <4>1, <4>2, StepAtJob
      <3> QED
        BY <3>2, <3>3
    <2> QED
      BY <2>2, <2>3
  <1>2. CASE DeleteData(h)
    BY <1>2, NothingSeen DEF DeleteData
  <1>3. CASE DeleteWrite(h)
    <2>0. PICK r \in Reports : r = handler[h].report
      BY <1>3 DEF DeleteWrite, ThreadsKnow
    <2>1. WriteState(r, "destroyed") /\ UNCHANGED <<container, disturbed>> /\ DeletingAt(h, r)
      BY <1>3, <2>0 DEF DeleteWrite, DeletingAt
    <2>2. /\ OnlyAt(r) /\ status'[r].state = "destroyed" /\ status'[r].left = status[r].left
      BY <1>0, <2>1 DEF WriteState, JobFile, OnlyAt
    <2>3. CASE r \in disturbed
      BY <2>1, <2>2, <2>3, StepAstray
    <2>4. CASE r \notin disturbed
      <3>1. OrderlyAt(r)
        BY <2>4 DEF OrderlyReports
      <3>2. ~InHand(r)
        BY <2>1, <3>1 DEF OrderlyAt, TakenAway, Deleting, DeletingAt
      <3>3. WantedNow[r] # NoCommit => r \in StuckNow
        BY <3>2, NobodysJobIsStuck
      <3>4. /\ WantedNow[r]' = NoCommit /\ ServedNow[r]' = NoCommit /\ LeftNow[r]' = LeftNow[r]
        BY <2>2, JobSeen DEF Active
      <3>5. r \in WithdrawingNow
        BY <2>1 DEF WithdrawingNow, Deleting, DeletingAt
      <3> QED
        BY <2>1, <2>2, <3>3, <3>4, <3>5, StepAtJob
    <2> QED
      BY <2>3, <2>4
  <1> QED
    BY <1>1, <1>2, <1>3 DEF Delete

\* What the worker does to an orderly job: nothing that is seen, until it serves the
\* commit that was asked for or gives it up.
LEMMA WorkerRefines ==
  ASSUME IInv, OrderlyReports, Worker \/ WorkerDies
  PROVE  Deployment!Next
  <1> USE DEF IInv
  <1>1. CASE TakeTask
    BY <1>1, NothingSeen DEF TakeTask
  <1> SUFFICES ASSUME ~TakeTask PROVE Deployment!Next
    BY <1>1
  <1>0. PICK r \in Reports : r = worker.report
    BY WorkerRecords DEF ThreadsKnow, WorkerDies
  <1>2. /\ OnlyAt(r) /\ UNCHANGED disturbed /\ status \in [Reports -> JobFile]
        /\ container \in [Reports -> Commits \cup {NoCommit}] /\ worker.pc \in WorkerPcs
        /\ worker.pc \notin {"idle", "dead"}
    BY <1>0, WorkerRecords
       DEF TypeOK, ThreadAt, Worker, WriteCloning, WriteBuilding, FinishBuild, RemoveOldContainer,
           RunContainer, WriteProbing, ProbeAnswered, WriteRunning, WriteFailed, RemoveFailed,
           WorkerDies, RemoveContainer, WriteState, OnlyAt
  <1>3. CASE r \in disturbed
    BY <1>2, <1>3, StepAstray
  <1>4. CASE r \notin disturbed /\ worker.pc = "removing"
    <2>1. UNCHANGED status /\ status[r].state # "running"
      BY <1>0, <1>2, <1>4
         DEF Worker, WorkerAt, WriteCloning, WriteBuilding, FinishBuild, RemoveOldContainer,
             RunContainer, WriteProbing, ProbeAnswered, WriteRunning, WriteFailed, RemoveFailed,
             WorkerDies, WorkerKnows
    <2>2. WantedNow[r]' = WantedNow[r] /\ ServedNow[r]' = ServedNow[r] /\ LeftNow[r]' = LeftNow[r]
      BY <2>1, JobSeen
    <2> QED
      BY <1>2, <2>2, StepAtJob
  <1>5. CASE r \notin disturbed /\ worker.pc # "removing"
    <2>1. OrderlyAt(r) /\ WorkingOn(r)
      BY <1>0, <1>2, <1>5 DEF OrderlyReports, WorkingOn
    <2>2. /\ status[r].state \in Active /\ status[r].commit = worker.commit
          /\ worker.commit \in Commits
          /\ worker.pc = "answered" => container[r] = worker.commit
      BY <1>2, <2>1 DEF OrderlyAt, AtTheWorker, WorkingOn, WorkerPcs, Active, TasksHaveCommits
    <2>3. ServedNow[r] = NoCommit /\ WantedNow[r] = worker.commit /\ WantedNow[r] # NoCommit
      BY <2>2, JobSeen, NoneAssumption DEF Active
    <2>4. WorkedOn(r) /\ status'[r].commit = status[r].commit
      BY <1>0, <1>5, WorkDone
    <2>5. /\ worker.pc = "answered" /\ status'[r].state = "running" => status'[r].left = TTL
          /\ status'[r].state # "running" => status'[r].left = status[r].left
      <3>1. CASE UNCHANGED status
        BY <2>2, <3>1 DEF Active
      <3>2. CASE WriteRunning \/ (WorkerDies /\ status' # status)
        BY <1>0, <1>2, <3>2 DEF WriteRunning, WorkerDies, JobFile
      <3>3. CASE WriteCloning \/ WriteBuilding \/ WriteProbing \/ WriteFailed
        BY <1>0, <1>2, <3>3
           DEF WriteCloning, WriteBuilding, WriteProbing, WriteFailed, WriteState, JobFile
      <3> QED
        BY <3>1, <3>2, <3>3
           DEF Worker, FinishBuild, RemoveOldContainer, RunContainer, ProbeAnswered, RemoveFailed
    <2>6. CASE status'[r].state = "running"
      <3>1. worker.pc = "answered" /\ container'[r] = container[r]
        BY <2>2, <2>4, <2>6 DEF WorkedOn, Active
      <3>2. WantedNow[r]' = NoCommit /\ ServedNow[r]' = WantedNow[r] /\ LeftNow[r]' = TTL
        BY <2>2, <2>3, <2>5, <2>6, <3>1, JobSeen DEF Active
      <3> QED
        BY <1>2, <2>3, <3>2, StepAtJob
    <2>7. CASE status'[r].state = "failed"
      <3>1. WantedNow[r]' = NoCommit /\ ServedNow[r]' = NoCommit /\ LeftNow[r]' = LeftNow[r]
        BY <2>5, <2>7, JobSeen DEF Active
      <3> QED
        BY <1>2, <2>3, <3>1, StepAtJob
    <2>8. CASE status'[r].state \notin {"running", "failed"}
      <3>1. status'[r].state \in Active
        BY <2>2, <2>4, <2>8 DEF WorkedOn, Active
      <3>2. /\ WantedNow[r]' = WantedNow[r] /\ ServedNow[r]' = ServedNow[r]
            /\ LeftNow[r]' = LeftNow[r]
        BY <2>3, <2>4, <2>2, <2>5, <2>8, <3>1, JobSeen DEF Active
      <3> QED
        BY <1>2, <3>2, StepAtJob
    <2> QED
      BY <2>6, <2>7, <2>8
  <1> QED
    BY <1>3, <1>4, <1>5

LEMMA ReaperRefines ==
  ASSUME IInv, OrderlyReports, Reaper \/ ReaperDies
  PROVE  Deployment!Next
  <1> USE DEF IInv
  <1>1. CASE (\E q \in Reports : ReaperChooses(q)) \/ ReaperRemovesData \/ UNCHANGED <<status, container, disturbed>>
    BY <1>1, NothingSeen DEF ReaperChooses, ReaperRemovesData
  <1>2. CASE ReaperRemovesContainer \/ ReaperWritesExpired \/ (ReaperDies /\ status' # status)
    <2>0. PICK r \in Reports : r = reaper.report /\ ReaperAt(r)
      BY <1>2 DEF ThreadsKnow, ReaperRemovesContainer, ReaperWritesExpired, ReaperDies, ReaperAt
    <2>1. /\ status \in [Reports -> JobFile] /\ UNCHANGED disturbed
          /\ container \in [Reports -> Commits \cup {NoCommit}]
      BY <1>2 DEF TypeOK, ReaperRemovesContainer, ReaperWritesExpired, ReaperDies
    <2>2. \/ ReaperRemovesContainer
          \/ reaper.pc = "write" /\ WriteState(r, "expired") /\ UNCHANGED container
      BY <1>2, <2>0 DEF ReaperWritesExpired, ReaperDies
    <2>3. OnlyAt(r)
      BY <2>0, <2>1, <2>2 DEF ReaperRemovesContainer, RemoveContainer, WriteState, OnlyAt
    <2>4. CASE r \in disturbed
      BY <2>1, <2>3, <2>4, StepAstray
    <2>5. CASE r \notin disturbed
      <3>1. /\ status[r].state \in {"running", "destroyed"}
            /\ status[r].state = "running" => status[r].left = 0
            /\ reaper.pc = "write" => container[r] = NoCommit
        BY <2>0, <2>5 DEF OrderlyReports, OrderlyAt, TakenAway
      <3>2. CASE ReaperRemovesContainer
        <4>1. UNCHANGED status /\ container'[r] = NoCommit
          BY <2>0, <2>1, <3>2 DEF ReaperRemovesContainer, RemoveContainer
        <4>2. /\ ServedNow[r]' = NoCommit /\ WantedNow[r]' = WantedNow[r]
              /\ LeftNow[r]' = LeftNow[r]
              /\ ServedNow[r] # NoCommit => LeftNow[r] = 0
          BY <3>1, <4>1, JobSeen
        <4> QED
          BY <2>1, <2>3, <4>2, StepAtJob
      <3>3. CASE reaper.pc = "write" /\ WriteState(r, "expired") /\ UNCHANGED container
        BY <2>1, <3>1, <3>3, QuietWrite DEF States, Active
      <3> QED
        BY <2>2, <3>2, <3>3
    <2> QED
      BY <2>4, <2>5
  <1> QED
    BY <1>1, <1>2 DEF Reaper, ReaperDies

LEMMA TickRefines ==
  ASSUME TypeOK, Tick
  PROVE  Deployment!Next
  <1>1. \A q \in Reports : /\ status'[q].state = status[q].state
                           /\ status'[q].commit = status[q].commit
                           /\ status'[q].left = IF status[q].left = 0 THEN 0
                                                                      ELSE status[q].left - 1
    <2>1. \A q \in Reports : status'[q].left = IF status[q].left = 0 THEN 0
                                                                     ELSE status[q].left - 1
      BY DEF Tick, TypeOK, JobFile
    <2> QED
      BY <2>1, TickEffect
  <1>2. UNCHANGED <<WantedNow, ServedNow, disturbed>>
    BY <1>1 DEF WantedNow, ServedNow, Tick
  <1>3. /\ \E q \in Reports : LeftNow[q] > 0
        /\ LeftNow' = [q \in Reports |-> IF LeftNow[q] = 0 THEN 0 ELSE LeftNow[q] - 1]
    BY <1>1 DEF LeftNow, Tick
  <1>4. Deployment!Tick
    BY <1>2, <1>3 DEF Deployment!Tick, WantedNow, ServedNow, LeftNow
  <1>5. StuckNow' \in SUBSET Reports /\ WithdrawingNow' \in SUBSET Reports
    BY DEF StuckNow, WithdrawingNow
  <1> QED
    BY <1>4, <1>5 DEF Deployment!Next, StuckNow, WithdrawingNow

\* What the service does to its job files and containers is what the README promises
\* of a deployment, whatever the clients ask for, whenever the process restarts and
\* whichever thread dies: the commit that was asked for is served or given up, and
\* goes only when its time is over or it is asked for again or withdrawn.  The
\* reports at which requests met went astray (lines 115-193, 208-247; README.md:42-44).
THEOREM ImplementsDeployment ==
  Spec => Deployment!Init /\ [][Deployment!Next]_(Deployment!vars)
  <1>1. Init => Deployment!Init
    BY DEF Init, Deployment!Init, Active, Deleting, Idle, Thread
  <1>2. ASSUME IInv, OrderlyReports, [Next]_vars PROVE [Deployment!Next]_(Deployment!vars)
    <2>1. CASE UNCHANGED vars
      BY <2>1 DEF vars, Deployment!vars, Deleting
    <2>2. CASE Crash \/ \E h \in Handlers : RequestFails(h)
      BY <2>2, NothingSeen DEF Crash, RequestFails
    <2> QED
      BY <1>2, <2>1, <2>2, PostRefines, DeleteRefines, WorkerRefines, ReaperRefines, TickRefines
         DEF Next, IInv
  <1> QED
    BY <1>1, <1>2, Inductive, OrderlyInductive, PTL DEF Spec

=============================================================================
