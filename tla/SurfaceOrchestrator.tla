------------------------ MODULE SurfaceOrchestrator ------------------------
(***************************************************************************)
(* The deployment service of the surface host                              *)
(* (src/deploy/surface/deployment_orchestrator.py).  A job is the file     *)
(* status.json of one report; an HTTP handler thread accepts it, a single  *)
(* worker thread clones, builds, runs and probes the commit in a docker    *)
(* container, and a reaper thread removes the container when its time to   *)
(* live is over.  The job files, the containers and their data directories *)
(* outlive the process; the task queue TASKS does not.                     *)
(*                                                                         *)
(* Every action is one step of one thread between two accesses to what the *)
(* threads share.  _write_status holds LOCK from its read to its rename,   *)
(* so a write of the job file is one step; a read and a later write are    *)
(* two.  expires_at - time.time() is modelled as the remaining time `left',*)
(* which Tick decreases down to 0: no absolute clock is needed.            *)
(*                                                                         *)
(* _worker and _reaper call with no try around them, _deploy and _event    *)
(* catch some exceptions only: what they do not catch ends the thread for  *)
(* good while the process and the other threads go on.                     *)
(*                                                                         *)
(* Left out: the events sent to the evidence relay, but for the exceptions *)
(* of sending them; error texts, urls and ports, the image store, and the  *)
(* source worktree, which only the worker touches and removes.  Left out   *)
(* too: an OSError while a thread other than the worker reads a job file   *)
(* that exists, which is taken for an absent one.                          *)
(***************************************************************************)
EXTENDS Naturals, Sequences

CONSTANTS
  Reports,    \* report ids: one job file, one container name, one data directory each
  Commits,    \* commits a client may ask for
  NoCommit,   \* the job file has no commit yet; no container of that name exists
  NoReport,   \* the report of an idle thread
  Handlers,   \* request threads of the ThreadingHTTPServer alive at a time
  TTL,        \* SURFACE_RUN_TTL in ticks
  MaxTasks,   \* bound: entries of TASKS at a time
  PostOver,   \* the states over which the clients ask for a new job
  Deletes,    \* whether the clients use DELETE
  Crashes,    \* whether the process may be killed and restarted by systemd
  Deaths      \* whether a thread may meet an exception that nobody catches

ASSUME NoneAssumption == NoCommit \notin Commits /\ NoReport \notin Reports
ASSUME TTLAssumption == TTL \in Nat \ {0}
ASSUME MaxTasksAssumption == MaxTasks \in Nat
ASSUME FlagsAssumption == Deletes \in BOOLEAN /\ Crashes \in BOOLEAN /\ Deaths \in BOOLEAN

\* The states that make do_POST answer 409.
Active == {"queued", "cloning", "building", "probing"}

\* "none" stands for a job file that does not exist.
States == Active \cup {"none", "running", "failed", "expired", "destroyed"}

WorkerPcs ==
  {"idle", "taken", "cloning", "building", "built", "cleared", "started",
   "probing", "answered", "removing", "dead"}

ReaperPcs == {"idle", "chosen", "rmtree", "write", "dead"}

VARIABLES
  status,     \* the job file of each report
  container,  \* the commit label of the report's container, NoCommit when there is none
  data,       \* whether the report's data directory exists
  tasks,      \* TASKS
  worker,     \* the worker thread and the report and commit it read
  reaper,     \* the reaper thread and the report it chose
  handler,    \* each request thread and its request
  lost,       \* history: reports whose work died with the process
  disturbed   \* history: reports at which a request and other work met

vars == <<status, container, data, tasks, worker, reaper, handler, lost, disturbed>>

JobFile == [state : States, commit : Commits \cup {NoCommit}, verified : BOOLEAN, left : 0..TTL]

\* A thread: where it is, and the report and commit it works on.
ThreadAt(pcs) ==
  [pc : pcs, report : Reports \cup {NoReport}, commit : Commits \cup {NoCommit}]

TypeOK ==
  /\ status \in [Reports -> JobFile]
  /\ container \in [Reports -> Commits \cup {NoCommit}]
  /\ data \in [Reports -> BOOLEAN]
  /\ tasks \in Seq(Reports)
  /\ worker \in ThreadAt(WorkerPcs)
  /\ reaper \in ThreadAt(ReaperPcs)
  /\ handler \in [Handlers -> ThreadAt({"idle", "accepted", "put", "rmtree", "write"})]
  /\ lost \subseteq Reports
  /\ disturbed \subseteq Reports

Thread(pc, r, c) == [pc |-> pc, report |-> r, commit |-> c]
Idle == Thread("idle", NoReport, NoCommit)

Init ==
  /\ status = [r \in Reports |->
                 [state |-> "none", commit |-> NoCommit, verified |-> FALSE, left |-> 0]]
  /\ container = [r \in Reports |-> NoCommit]
  /\ data = [r \in Reports |-> FALSE]
  /\ tasks = <<>>
  /\ worker = Idle
  /\ reaper = Idle
  /\ handler = [h \in Handlers |-> Idle]
  /\ lost = {}
  /\ disturbed = {}

-----------------------------------------------------------------------------
(* The job file and the container *)

\* _write_status with the keyword `status' alone: every other field stays.
WriteState(r, s) == status' = [status EXCEPT ![r].state = s]

\* docker rm -f: no error when there is no such container.
RemoveContainer(r) == container' = [container EXCEPT ![r] = NoCommit]

\* shutil.rmtree(data, ignore_errors=True)
RemoveData(r) == data' = [data EXCEPT ![r] = FALSE]

\* The report is in TASKS.
Waiting(r) == \E i \in 1..Len(tasks) : tasks[i] = r

\* The worker deploys the report; it no longer does when it only cleans up.
WorkingOn(r) == worker.pc \notin {"idle", "removing", "dead"} /\ worker.report = r

\* A job of the report is under way, from its acceptance on.
InHand(r) ==
  \/ Waiting(r)
  \/ WorkingOn(r)
  \/ \E h \in Handlers : handler[h].pc = "put" /\ handler[h].report = r

ReaperAt(r) == reaper.pc \notin {"idle", "dead"} /\ reaper.report = r

Deleting(r) == \E h \in Handlers : handler[h].pc \in {"rmtree", "write"} /\ handler[h].report = r

\* A report accepted while anybody is at it is disturbed; one that is accepted in
\* peace no longer is.
Accepted(r) ==
  disturbed' = IF InHand(r) \/ ReaperAt(r) \/ Deleting(r) THEN disturbed \cup {r}
                                                         ELSE disturbed \ {r}

-----------------------------------------------------------------------------
(* The request threads.  GET only reads; a refused POST changes nothing. *)

\* A POST that looks at no job file before it is accepted.
PostCheckUnguarded(h, r, c) ==
  /\ handler[h].pc = "idle"
  /\ status[r].state \in PostOver \cup Active
  /\ handler' = [handler EXCEPT ![h] = Thread("accepted", r, c)]
  /\ UNCHANGED <<status, container, data, tasks, worker, reaper, lost, disturbed>>

\* do_POST up to the check of the current state.
PostCheck(h, r, c) ==
  /\ handler[h].pc = "idle"
  /\ status[r].state \in PostOver \ Active
  /\ handler' = [handler EXCEPT ![h] = Thread("accepted", r, c)]
  /\ UNCHANGED <<status, container, data, tasks, worker, reaper, lost, disturbed>>

\* The job file gets the new commit and keeps its state.
PostWriteKeepsState(h) ==
  /\ handler[h].pc = "accepted"
  /\ LET r == handler[h].report IN
       /\ status' = [status EXCEPT ![r].commit = handler[h].commit]
       /\ lost' = lost \ {r}
       /\ Accepted(r)
  /\ handler' = [handler EXCEPT ![h] = Thread("put", handler[h].report, NoCommit)]
  /\ UNCHANGED <<container, data, tasks, worker, reaper>>

\* do_POST: the job file becomes "queued" for the new commit.  commit_verified
\* and expires_at of an earlier job stay in the file.
PostWrite(h) ==
  /\ handler[h].pc = "accepted"
  /\ LET r == handler[h].report IN
       /\ status' = [status EXCEPT ![r].state = "queued", ![r].commit = handler[h].commit]
       /\ lost' = lost \ {r}
       /\ Accepted(r)
  /\ handler' = [handler EXCEPT ![h] = Thread("put", handler[h].report, NoCommit)]
  /\ UNCHANGED <<container, data, tasks, worker, reaper>>

\* A POST that answers 202 without TASKS.put.
PostForgetsPut(h) ==
  /\ handler[h].pc = "put"
  /\ handler' = [handler EXCEPT ![h] = Idle]
  /\ UNCHANGED <<status, container, data, tasks, worker, reaper, lost, disturbed>>

\* do_POST: TASKS.put, then the answer 202.
PostPut(h) ==
  /\ handler[h].pc = "put"
  /\ Len(tasks) < MaxTasks
  /\ tasks' = Append(tasks, handler[h].report)
  /\ handler' = [handler EXCEPT ![h] = Idle]
  /\ UNCHANGED <<status, container, data, worker, reaper, lost, disturbed>>

\* do_DELETE: _destroy removes the container, then the data; then the job file
\* is written.  Nothing cancels a queued or running task.
DeleteContainer(h, r) ==
  /\ Deletes
  /\ handler[h].pc = "idle"
  /\ RemoveContainer(r)
  /\ disturbed' = IF InHand(r) THEN disturbed \cup {r} ELSE disturbed
  /\ handler' = [handler EXCEPT ![h] = Thread("rmtree", r, NoCommit)]
  /\ UNCHANGED <<status, data, tasks, worker, reaper, lost>>

DeleteData(h) ==
  /\ handler[h].pc = "rmtree"
  /\ RemoveData(handler[h].report)
  /\ handler' = [handler EXCEPT ![h].pc = "write"]
  /\ UNCHANGED <<status, container, tasks, worker, reaper, lost, disturbed>>

DeleteWrite(h) ==
  /\ handler[h].pc = "write"
  /\ WriteState(handler[h].report, "destroyed")
  /\ lost' = lost \ {handler[h].report}
  /\ handler' = [handler EXCEPT ![h] = Idle]
  /\ UNCHANGED <<container, data, tasks, worker, reaper, disturbed>>

\* A write of the job file raised: the request ends there, with no answer.
RequestFails(h) ==
  /\ Deaths
  /\ handler[h].pc \in {"accepted", "write"}
  /\ handler' = [handler EXCEPT ![h] = Idle]
  /\ UNCHANGED <<status, container, data, tasks, worker, reaper, lost, disturbed>>

-----------------------------------------------------------------------------
(* The worker thread *)

WorkerAt(pc) == worker.pc = pc
WorkerGoes(pc) == worker' = [worker EXCEPT !.pc = pc]

\* _worker takes the oldest task and _deploy reads repo and commit, once.
TakeTask ==
  /\ WorkerAt("idle")
  /\ tasks # <<>>
  /\ tasks' = Tail(tasks)
  /\ worker' = Thread("taken", Head(tasks), status[Head(tasks)].commit)
  /\ UNCHANGED <<status, container, data, reaper, handler, lost, disturbed>>

WriteCloning ==
  /\ WorkerAt("taken")
  /\ WriteState(worker.report, "cloning")
  /\ WorkerGoes("cloning")
  /\ UNCHANGED <<container, data, tasks, reaper, handler, lost, disturbed>>

\* The clone and checkout succeeded, HEAD is the commit and a Dockerfile exists.
WriteBuilding ==
  /\ WorkerAt("cloning")
  /\ WriteState(worker.report, "building")
  /\ WorkerGoes("building")
  /\ UNCHANGED <<container, data, tasks, reaper, handler, lost, disturbed>>

\* The image is built and exposes a port; the data directory is made.
FinishBuild ==
  /\ WorkerAt("building")
  /\ data' = [data EXCEPT ![worker.report] = TRUE]
  /\ WorkerGoes("built")
  /\ UNCHANGED <<status, container, tasks, reaper, handler, lost, disturbed>>

\* _destroy(remove_data=False): a container of an earlier job goes, its data stays.
RemoveOldContainer ==
  /\ WorkerAt("built")
  /\ RemoveContainer(worker.report)
  /\ WorkerGoes("cleared")
  /\ UNCHANGED <<status, data, tasks, reaper, handler, lost, disturbed>>

\* docker run, labelled with the commit the worker read; -v makes a missing
\* data directory.
RunContainer ==
  /\ WorkerAt("cleared")
  /\ container' = [container EXCEPT ![worker.report] = worker.commit]
  /\ data' = [data EXCEPT ![worker.report] = TRUE]
  /\ WorkerGoes("started")
  /\ UNCHANGED <<status, tasks, reaper, handler, lost, disturbed>>

WriteProbing ==
  /\ WorkerAt("started")
  /\ WriteState(worker.report, "probing")
  /\ WorkerGoes("probing")
  /\ UNCHANGED <<container, data, tasks, reaper, handler, lost, disturbed>>

\* _probe got an answer: the container was there when it asked.
ProbeAnswered ==
  /\ WorkerAt("probing")
  /\ container[worker.report] # NoCommit
  /\ WorkerGoes("answered")
  /\ UNCHANGED <<status, container, data, tasks, reaper, handler, lost, disturbed>>

WriteRunning ==
  /\ WorkerAt("answered")
  /\ status' = [status EXCEPT ![worker.report].state = "running",
                              ![worker.report].verified = TRUE,
                              ![worker.report].left = TTL]
  /\ worker' = Idle
  /\ UNCHANGED <<container, data, tasks, reaper, handler, lost, disturbed>>

\* A step of _deploy raised what its except clause names: clone, checkout, commit
\* check, Dockerfile check, build, docker run before or after it made the
\* container, no answer to the health probe within its 180 s, or a write of the
\* job file.
WriteFailed ==
  /\ worker.pc \notin {"idle", "removing", "dead"}
  /\ WriteState(worker.report, "failed")
  /\ WorkerGoes("removing")
  /\ UNCHANGED <<container, data, tasks, reaper, handler, lost, disturbed>>

\* The except clause without its _destroy.
RemoveFailedNothing ==
  /\ WorkerAt("removing")
  /\ worker' = Idle
  /\ UNCHANGED <<status, container, data, tasks, reaper, handler, lost, disturbed>>

\* The except clause removes the container and keeps the data.
RemoveFailed ==
  /\ WorkerAt("removing")
  /\ RemoveContainer(worker.report)
  /\ worker' = Idle
  /\ UNCHANGED <<status, data, tasks, reaper, handler, lost, disturbed>>

\* An exception that nobody catches ends the worker thread: the job file was
\* unreadable at its first read; sending an event ("cloning", "running", "failed")
\* or the health probe raised http.client.HTTPException; "failed" could not be
\* written; or docker was not found when the failed container was to go.  The job
\* file and the container stay as they are.
WorkerDies ==
  /\ Deaths
  /\ worker.pc \notin {"idle", "dead"}
  /\ \/ UNCHANGED status
     \/ /\ WorkerAt("answered")
        /\ status' = [status EXCEPT ![worker.report].state = "running",
                                    ![worker.report].verified = TRUE,
                                    ![worker.report].left = TTL]
  /\ worker' = Thread("dead", worker.report, NoCommit)
  /\ UNCHANGED <<container, data, tasks, reaper, handler, lost, disturbed>>

Worker ==
  \/ TakeTask \/ WriteCloning \/ WriteBuilding \/ FinishBuild \/ RemoveOldContainer
  \/ RunContainer \/ WriteProbing \/ ProbeAnswered \/ WriteRunning \/ WriteFailed
  \/ RemoveFailed

-----------------------------------------------------------------------------
(* The reaper thread *)

\* The scan that forgets to compare expires_at with the time.
ReaperChoosesAny(r) ==
  /\ reaper.pc = "idle"
  /\ status[r].state = "running"
  /\ reaper' = Thread("chosen", r, NoCommit)
  /\ UNCHANGED <<status, container, data, tasks, worker, handler, lost, disturbed>>

\* The job file is read outside LOCK; it may change before the next step.
ReaperChooses(r) ==
  /\ reaper.pc = "idle"
  /\ status[r].state = "running" /\ status[r].left = 0
  /\ reaper' = Thread("chosen", r, NoCommit)
  /\ UNCHANGED <<status, container, data, tasks, worker, handler, lost, disturbed>>

ReaperRemovesContainer ==
  /\ reaper.pc = "chosen"
  /\ RemoveContainer(reaper.report)
  /\ reaper' = [reaper EXCEPT !.pc = "rmtree"]
  /\ UNCHANGED <<status, data, tasks, worker, handler, lost, disturbed>>

\* _destroy with remove_data=False, as the worker calls it.
ReaperKeepsData ==
  /\ reaper.pc = "rmtree"
  /\ reaper' = [reaper EXCEPT !.pc = "write"]
  /\ UNCHANGED <<status, container, data, tasks, worker, handler, lost, disturbed>>

ReaperRemovesData ==
  /\ reaper.pc = "rmtree"
  /\ RemoveData(reaper.report)
  /\ reaper' = [reaper EXCEPT !.pc = "write"]
  /\ UNCHANGED <<status, container, tasks, worker, handler, lost, disturbed>>

ReaperWritesExpired ==
  /\ reaper.pc = "write"
  /\ WriteState(reaper.report, "expired")
  /\ reaper' = Idle
  /\ UNCHANGED <<container, data, tasks, worker, handler, lost, disturbed>>

\* The reaper thread has no try at all: docker not found, a write of the job file
\* that fails, or an event that cannot be sent after it.
ReaperDies ==
  /\ Deaths
  /\ \/ reaper.pc \in {"chosen", "write"} /\ UNCHANGED status
     \/ reaper.pc = "write" /\ WriteState(reaper.report, "expired")
  /\ reaper' = Thread("dead", NoReport, NoCommit)
  /\ UNCHANGED <<container, data, tasks, worker, handler, lost, disturbed>>

Reaper ==
  \/ \E r \in Reports : ReaperChooses(r)
  \/ ReaperRemovesContainer \/ ReaperRemovesData \/ ReaperWritesExpired

-----------------------------------------------------------------------------
(* Time and crashes *)

Tick ==
  /\ \E r \in Reports : status[r].left > 0
  /\ status' = [r \in Reports |->
       [status[r] EXCEPT !.left = IF status[r].left = 0 THEN 0 ELSE status[r].left - 1]]
  /\ UNCHANGED <<container, data, tasks, worker, reaper, handler, lost, disturbed>>

\* The job of r is in the hands of the process: of a thread, a dead one included,
\* or of the queue.
Owned(r) ==
  \/ Waiting(r)
  \/ worker.pc # "idle" /\ worker.report = r
  \/ \E h \in Handlers : handler[h].pc = "put" /\ handler[h].report = r

\* systemd restarts the process (Restart=always): main starts with an empty
\* queue and looks at no job file; docker and the files stay as they are.
Crash ==
  /\ Crashes
  /\ lost' = lost \cup {r \in Reports : Owned(r)}
  /\ tasks' = <<>>
  /\ worker' = Idle
  /\ reaper' = Idle
  /\ handler' = [h \in Handlers |-> Idle]
  /\ UNCHANGED <<status, container, data, disturbed>>

Post(h) == \/ \E r \in Reports, c \in Commits : PostCheck(h, r, c)
           \/ PostWrite(h)
           \/ PostPut(h)
Delete(h) == \/ \E r \in Reports : DeleteContainer(h, r)
             \/ DeleteData(h)
             \/ DeleteWrite(h)

Next ==
  \/ \E h \in Handlers : Post(h) \/ Delete(h) \/ RequestFails(h)
  \/ Worker \/ WorkerDies
  \/ Reaper \/ ReaperDies
  \/ Tick
  \/ Crash

\* Threads that live keep running and time passes; that one dies is left outside.
\* Every request thread finishes what it accepted, but no client has to send a
\* request.  Each round of the reaper looks at every job file, so a job that stays
\* expired is chosen some day.  The process may be restarted any number of times,
\* but not for ever.
Fairness ==
  /\ WF_vars(Worker)
  /\ WF_vars(Reaper)
  /\ \A r \in Reports : SF_vars(ReaperChooses(r))
  /\ \A h \in Handlers : WF_vars(PostWrite(h) \/ PostPut(h) \/ DeleteData(h) \/ DeleteWrite(h))
  /\ WF_vars(Tick)
  /\ <>[][~Crash]_vars

Spec == Init /\ [][Next]_vars /\ Fairness
-----------------------------------------------------------------------------
(* Properties that hold whatever the clients do, whenever the process dies and *)
(* whichever thread does                                                       *)

\* While the worker thread lives, a job file that answers 409 to every POST has a
\* thread that will move it on, unless the process was restarted over it: "queued"
\* is in TASKS, about to be put there, or just taken; the worker's own states
\* belong to the job it is on.  When the worker has died nobody moves any of them.
\* (do_POST's check against the worker's writes: lines 177-181, 221-226.)
ActiveJobsAreOwned ==
  worker.pc # "dead" =>
    \A r \in Reports \ lost :
      /\ status[r].state = "queued" =>
           \/ Waiting(r)
           \/ \E h \in Handlers : handler[h].pc = "put" /\ handler[h].report = r
           \/ worker.pc = "taken" /\ worker.report = r
      /\ status[r].state \in {"cloning", "building", "probing"} =>
           worker.pc # "idle" /\ worker.report = r

\* Once the worker is done with a failed job there is no container left of it,
\* whatever the reaper, a DELETE or a second POST did meanwhile, unless the worker
\* died before it removed the container (lines 169-172).
FailedLeavesNoContainer ==
  \A r \in Reports \ lost :
    status[r].state = "failed" =>
      \/ container[r] = NoCommit
      \/ worker.pc \in {"removing", "dead"} /\ worker.report = r

\* _deploy reads repo and commit outside its try: a task whose readable job file
\* has no commit would kill the worker thread for good (lines 116-117, 177-181).
TasksHaveCommits ==
  /\ \A i \in 1..Len(tasks) : status[tasks[i]].commit \in Commits
  /\ worker.pc \notin {"idle", "dead"} => worker.commit \in Commits

\* What a restart leaves active stays refused: no step but a DELETE changes the
\* job file of a lost job, so every later POST is answered 409 (lines 222-224,
\* 253-257).
LostJobsNeedDelete ==
  [][\A r \in Reports :
       r \in lost /\ status[r].state \in Active /\ status'[r].state # status[r].state
         => status'[r].state = "destroyed"]_vars

\* A job file that says running and verified is about the commit in the
\* container (lines 117, 156, 166).
ShowsItsCommit(r) ==
  status[r].state = "running" /\ status[r].verified =>
    container[r] \in {status[r].commit, NoCommit}

\* It is, for a report whose last job was accepted, and went on, with no other
\* request, task or reaper at work on it: over a running job too, after any
\* earlier mix-up, and whatever thread or process died since.
OrderlyShowsItsCommit == \A r \in Reports \ disturbed : ShowsItsCommit(r)

\* "TTL expired; container and data removed" (line 192), and what a DELETE answers
\* (lines 246-247): both are gone when the job file says expired or destroyed.
\* The reaper acts on what it read before: were its report asked for meanwhile,
\* the new job's container would go and its data with it (lines 188-191).
OrderlyIsGone ==
  \A r \in Reports \ disturbed :
    status[r].state \in {"expired", "destroyed"} => container[r] = NoCommit /\ ~data[r]

\* A report waits for the commit of its active job, and is served by the
\* container its job file calls running.  Nobody moves it on when its active job
\* is lost or the worker dead, or when it is running and the reaper dead.
Deployment == INSTANCE EphemeralDeployment WITH
  wanted <- [r \in Reports |-> IF status[r].state \in Active THEN status[r].commit ELSE NoCommit],
  served <- [r \in Reports |-> IF status[r].state = "running" THEN container[r] ELSE NoCommit],
  left   <- [r \in Reports |-> status[r].left],
  astray <- disturbed,
  stuck  <- {r \in Reports :
               \/ status[r].state \in Active /\ (r \in lost \/ worker.pc = "dead")
               \/ status[r].state = "running" /\ reaper.pc = "dead"},
  withdrawing <- {r \in Reports : Deleting(r)}

\* The service is what the README promises of it (README.md:42-44): the commit
\* that was asked for is served or given up, for its time to live, and then goes;
\* but for the reports that went astray and, once threads die, those stuck.
ServesAsPromised == Deployment!Spec

-----------------------------------------------------------------------------
(* What the program says and does not keep *)

\* commit_verified says so of every running job, disturbed or not (line 166).
RunningShowsItsCommit == \A r \in Reports : ShowsItsCommit(r)

\* README.md:42-44: a container is automatically expired, some day.
ContainersExpire == \A r \in Reports : container[r] # NoCommit ~> container[r] = NoCommit
=============================================================================
