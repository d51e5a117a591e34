--------------------------- MODULE ConsoleReports ---------------------------
(***************************************************************************)
(* How the console's saved reports follow the repositories they are about: *)
(* server._analyze clones a repository, analyses the clone, saves the      *)
(* report, asks the orchestrator for a deployment and saves the report     *)
(* again.  It runs in two processes that share the data directory: the     *)
(* server, where ANALYSIS_GATE admits one request at a time, and the daily *)
(* rescan, which does not know of the gate.                                *)
(*                                                                         *)
(* A commit is its number in the order they were pushed, 0 is no commit.   *)
(* A report is the commit it names (source_commit) and the commit of the   *)
(* tree it was made from, 0 when that was no single commit.  An open file  *)
(* stays the same file when its name is changed: a writer whose .tmp was   *)
(* renamed by another goes on writing to what is now the saved report.     *)
(*                                                                         *)
(* This is public mode, the one the rescan runs in.  The clones of one     *)
(* repository are one directory; an rmtree is one step, a git clone two.   *)
(***************************************************************************)
EXTENDS Naturals

CONSTANTS
  Repos,       \* public repositories
  Threads,     \* the server's threads that run _analyze
  Rescan,      \* the process of buildproof-rescan.service
  NoRepo,      \* a worker without a repository
  MaxCommits,  \* bound: commits of a repository
  MaxRequests, \* bound: requests to /api/analyze
  MaxFaults    \* bound: crashes and failing calls

ASSUME WorkersAssumption == Rescan \notin Threads /\ NoRepo \notin Repos
ASSUME BoundsAssumption == MaxCommits \in Nat \ {0} /\ MaxRequests \in Nat /\ MaxFaults \in Nat

Workers == Threads \cup {Rescan}

VARIABLES
  head,     \* the last commit pushed to each repository
  clone,    \* repos/<owner>/<repo>: whether it is there, and the commit checked out
  draft,    \* reports/<id>.tmp
  report,   \* reports/<id>.json
  job,      \* the orchestrator's job for each report
  gate,     \* what is left of ANALYSIS_GATE
  run,      \* each worker's call of _analyze
  todo,     \* the repositories the rescan has still to do
  on,       \* whether the rescan process is running
  results,  \* rescan-status.json: what is completed, and the heads when that rescan began
  requests, \* requests so far
  faults,   \* faults so far
  raced     \* history: since its last undisturbed save, both processes were at work on it

vars == <<head, clone, draft, report, job, gate, run, todo, on, results, requests, faults, raced>>

Commits == 1..MaxCommits
SomeCommit == 0..MaxCommits

Dir == [there : BOOLEAN, commit : SomeCommit]
File == [state : {"absent", "empty", "torn", "whole"}, commit : SomeCommit, tree : SomeCommit]
Call == [pc : {"idle", "gate", "clear", "clone", "fetch", "name", "analyze",
               "write", "rename", "trigger", "answered", "remove"},
         repo : Repos \cup {NoRepo}, commit : SomeCommit, tree : SomeCommit,
         fd : {"none", "draft", "report", "gone"}, \* the file it has open
         posted : BOOLEAN,                         \* whether it has asked for the deployment
         alone : BOOLEAN]                          \* the other process was never at work with it

TypeOK ==
  /\ head \in [Repos -> Commits]
  /\ clone \in [Repos -> Dir]
  /\ draft \in [Repos -> File] /\ report \in [Repos -> File]
  /\ job \in [Repos -> [commit : SomeCommit, active : BOOLEAN]]
  /\ gate \in 0..1
  /\ run \in [Workers -> Call]
  /\ todo \in SUBSET Repos /\ on \in BOOLEAN
  /\ results \in [done : SUBSET Repos, since : [Repos -> Commits]]
  /\ requests \in 0..MaxRequests /\ faults \in 0..MaxFaults
  /\ raced \in [Repos -> BOOLEAN]

NoDir == [there |-> FALSE, commit |-> 0]
NoFile == [state |-> "absent", commit |-> 0, tree |-> 0]
Empty == [NoFile EXCEPT !.state = "empty"]
Torn == [NoFile EXCEPT !.state = "torn"]

Idle == [pc |-> "idle", repo |-> NoRepo, commit |-> 0, tree |-> 0,
         fd |-> "none", posted |-> FALSE, alone |-> TRUE]

Init ==
  /\ head = [r \in Repos |-> 1]
  /\ clone = [r \in Repos |-> NoDir]
  /\ draft = [r \in Repos |-> NoFile] /\ report = [r \in Repos |-> NoFile]
  /\ job = [r \in Repos |-> [commit |-> 0, active |-> FALSE]]
  /\ gate = 1
  /\ run = [w \in Workers |-> Idle]
  /\ todo = {} /\ on = FALSE
  /\ results = [done |-> {}, since |-> [r \in Repos |-> 1]]
  /\ requests = 0 /\ faults = 0
  /\ raced = [r \in Repos |-> FALSE]

Fault == faults < MaxFaults /\ faults' = faults + 1

fileVars   == <<draft, report, raced>>
rescanVars == <<todo, on>>
outside    == <<head, requests>>

-----------------------------------------------------------------------------
(* Upstream and the orchestrator *)

Push(r) ==
  /\ head[r] < MaxCommits
  /\ head' = [head EXCEPT ![r] = @ + 1]
  /\ UNCHANGED <<clone, fileVars, job, gate, run, rescanVars, results, requests, faults>>

JobEnds(r) ==
  /\ job[r].active
  /\ job' = [job EXCEPT ![r].active = FALSE]
  /\ UNCHANGED <<outside, clone, fileVars, gate, run, rescanVars, results, faults>>

-----------------------------------------------------------------------------
(* Beginning and ending a call of _analyze *)

AtWork(w, r) == run[w].repo = r /\ run[w].pc \notin {"idle", "gate"}

\* The calls of the other process on the same repository.
Rivals(w, r) == {v \in Workers : (v = Rescan) # (w = Rescan) /\ AtWork(v, r)}

Begin(w, r) ==
  /\ run' = [v \in Workers |->
       IF v = w THEN [Idle EXCEPT !.pc = "clear", !.repo = r, !.alone = Rivals(w, r) = {}]
       ELSE [run[v] EXCEPT !.alone = @ /\ v \notin Rivals(w, r)]]
  /\ raced' = [raced EXCEPT ![r] = @ \/ Rivals(w, r) # {}]

\* Wrong: an exception skips the release of the gate.
LeavesOnSuccess(w, ok) ==
  \/ /\ w \in Threads
     /\ gate' = IF ok THEN gate + 1 ELSE gate
     /\ UNCHANGED results
  \/ /\ w = Rescan
     /\ results' = [results EXCEPT !.done = @ \cup {r \in {run[w].repo} : ok}]
     /\ UNCHANGED gate

\* The handler leaves the gate, however the call ended; the rescan notes the
\* result, completed or failed.
Leaves(w, ok) ==
  \/ /\ w \in Threads
     /\ gate' = gate + 1
     /\ UNCHANGED results
  \/ /\ w = Rescan
     /\ results' = [results EXCEPT !.done = @ \cup {r \in {run[w].repo} : ok}]
     /\ UNCHANGED gate

\* The directory of w's repository becomes dir, and w's call becomes rec: whoever
\* is analysing that directory no longer sees one commit.
ChangesDir(w, dir, rec) ==
  /\ clone' = [clone EXCEPT ![run[w].repo] = dir]
  /\ run' = [v \in Workers |->
       IF v = w THEN rec
       ELSE IF run[v].repo = run[w].repo /\ run[v].pc = "analyze" THEN [run[v] EXCEPT !.tree = 0]
       ELSE run[v]]

\* Wrong: the rescan counts a failed call as completed.
BreaksUnnoticed(w) == ChangesDir(w, NoDir, Idle) /\ Leaves(w, TRUE)

\* An exception inside _analyze, or after a failed clone: the directory goes.
Breaks(w) == ChangesDir(w, NoDir, Idle) /\ Leaves(w, FALSE)

-----------------------------------------------------------------------------
(* _prepare_public_repository *)

Clear(w) ==
  /\ run[w].pc = "clear"
  /\ ChangesDir(w, NoDir, [run[w] EXCEPT !.pc = "clone"])
  /\ UNCHANGED <<outside, fileVars, job, gate, rescanVars, results, faults>>

\* git makes the directory, and refuses one that is there: that one is removed.
Clone(w) ==
  /\ run[w].pc = "clone"
  /\ \/ /\ ~clone[run[w].repo].there
        /\ ChangesDir(w, [there |-> TRUE, commit |-> 0], [run[w] EXCEPT !.pc = "fetch"])
        /\ UNCHANGED <<gate, results>>
     \/ clone[run[w].repo].there /\ Breaks(w)
  /\ UNCHANGED <<outside, fileVars, job, rescanVars, faults>>

\* git fills the directory it made, and fails when it is gone or another filled it.
Fetch(w) ==
  /\ run[w].pc = "fetch"
  /\ LET r == run[w].repo  made == [there |-> TRUE, commit |-> 0] IN
     \/ /\ clone[r] = made
        /\ ChangesDir(w, [there |-> TRUE, commit |-> head[r]], [run[w] EXCEPT !.pc = "name"])
        /\ UNCHANGED <<gate, results>>
     \/ clone[r] # made /\ Breaks(w)
  /\ UNCHANGED <<outside, fileVars, job, rescanVars, faults>>

\* Wrong: names the commit that is upstream by then.
NameUpstream(w) ==
  /\ run[w].pc = "name"
  /\ LET c == clone[run[w].repo].commit IN
     /\ c # 0
     /\ run' = [run EXCEPT ![w].pc = "analyze", ![w].commit = head[run[w].repo], ![w].tree = c]
  /\ UNCHANGED <<outside, clone, fileVars, job, gate, rescanVars, results, faults>>

\* git rev-parse HEAD names the commit that is there by then; without one it
\* raises, and nobody removes the directory.
Name(w) ==
  /\ run[w].pc = "name"
  /\ LET c == clone[run[w].repo].commit IN
     \/ /\ c # 0
        /\ run' = [run EXCEPT ![w].pc = "analyze", ![w].commit = c, ![w].tree = c]
        /\ UNCHANGED <<gate, results>>
     \/ /\ c = 0
        /\ run' = [run EXCEPT ![w] = Idle]
        /\ Leaves(w, FALSE)
  /\ UNCHANGED <<outside, clone, fileVars, job, rescanVars, faults>>

-----------------------------------------------------------------------------
(* The rest of _analyze *)

\* Wrong: the report is written in its place.
OpenReport(w) ==
  /\ run[w].pc \in {"analyze", "answered"}
  /\ report' = [report EXCEPT ![run[w].repo] = Empty]
  /\ run' = [run EXCEPT ![w].pc = "write", ![w].fd = "report"]
  /\ UNCHANGED <<outside, clone, draft, raced, job, gate, rescanVars, results, faults>>

\* The analysis is over, or the orchestrator has answered: write_text truncates the
\* .tmp that is there, which another may be writing ...
OpenDraft(w) ==
  /\ run[w].pc \in {"analyze", "answered"}
  /\ draft' = [draft EXCEPT ![run[w].repo] = Empty]
  /\ run' = [run EXCEPT ![w].pc = "write", ![w].fd = "draft"]
  /\ UNCHANGED <<outside, clone, report, raced, job, gate, rescanVars, results, faults>>

\* ... and what is written over a longer text leaves the end of that text.
Written(w, old) ==
  {[state |-> "whole", commit |-> run[w].commit, tree |-> run[w].tree]}
    \cup (IF old = Empty THEN {} ELSE {Torn})

WriteDraft(w) ==
  /\ run[w].pc = "write"
  /\ LET r == run[w].repo IN
     \/ /\ run[w].fd = "draft"
        /\ \E f \in Written(w, draft[r]) : draft' = [draft EXCEPT ![r] = f]
        /\ UNCHANGED report
     \/ /\ run[w].fd = "report"
        /\ \E f \in Written(w, report[r]) : report' = [report EXCEPT ![r] = f]
        /\ UNCHANGED draft
     \/ run[w].fd = "gone" /\ UNCHANGED <<draft, report>>
  /\ run' = [run EXCEPT ![w].pc = "rename", ![w].fd = "none"]
  /\ UNCHANGED <<outside, clone, raced, job, gate, rescanVars, results, faults>>

Moved(fd) == IF fd = "draft" THEN "report" ELSE IF fd = "report" THEN "gone" ELSE fd

RenameDraft(w) ==
  /\ run[w].pc = "rename"
  /\ LET r == run[w].repo IN
     \/ /\ draft[r] # NoFile
        /\ report' = [report EXCEPT ![r] = draft[r]]
        /\ draft' = [draft EXCEPT ![r] = NoFile]
        /\ run' = [v \in Workers |->
             IF v = w THEN [run[w] EXCEPT !.pc = IF run[w].posted THEN "remove" ELSE "trigger"]
             ELSE IF run[v].repo = r THEN [run[v] EXCEPT !.fd = Moved(@)]
             ELSE run[v]]
        /\ raced' = [raced EXCEPT ![r] = @ /\ ~run[w].alone]
        /\ UNCHANGED <<clone, gate, results>>
     \/ draft[r] = NoFile /\ Breaks(w) /\ UNCHANGED fileVars
  /\ UNCHANGED <<outside, job, rescanVars, faults>>

\* Wrong: a report that had a job never gets another.
TriggerOnce(w) ==
  /\ run[w].pc = "trigger"
  /\ LET r == run[w].repo IN
     job' = IF job[r].commit = 0 THEN [job EXCEPT ![r] = [commit |-> run[w].commit, active |-> TRUE]]
                                 ELSE job
  /\ run' = [run EXCEPT ![w].pc = "answered", ![w].posted = TRUE]
  /\ UNCHANGED <<outside, clone, fileVars, gate, rescanVars, results, faults>>

\* The orchestrator takes the commit unless the last job is still active; the
\* report is saved once more with its answer, or with the error.
Trigger(w) ==
  /\ run[w].pc = "trigger"
  /\ LET r == run[w].repo IN
     \/ ~job[r].active /\ job' = [job EXCEPT ![r] = [commit |-> run[w].commit, active |-> TRUE]]
        /\ UNCHANGED faults
     \/ job[r].active /\ UNCHANGED <<job, faults>>
     \/ Fault /\ UNCHANGED job
  /\ run' = [run EXCEPT ![w].pc = "answered", ![w].posted = TRUE]
  /\ UNCHANGED <<outside, clone, fileVars, gate, rescanVars, results>>

RemoveClone(w) ==
  /\ run[w].pc = "remove"
  /\ ChangesDir(w, NoDir, Idle) /\ Leaves(w, TRUE)
  /\ UNCHANGED <<outside, fileVars, job, rescanVars, faults>>

\* A call that fails: git, the disk, or a directory another process took away.
\* Before the clone began, and after it was made but not named, the directory stays.
Fail(w) ==
  /\ run[w].pc \in {"clear", "fetch", "name", "analyze", "write", "answered"}
  /\ Fault \/ (~run[w].alone /\ UNCHANGED faults)
  /\ \/ run[w].pc \notin {"clear", "name"} /\ Breaks(w)
     \/ /\ run[w].pc \in {"clear", "name"}
        /\ run' = [run EXCEPT ![w] = Idle] /\ UNCHANGED clone
        /\ Leaves(w, FALSE)
  /\ UNCHANGED <<outside, fileVars, job, rescanVars>>

-----------------------------------------------------------------------------
(* The server *)

\* Which of the idle threads serves a request makes no difference.
Request(r) ==
  /\ requests < MaxRequests
  /\ requests' = requests + 1
  /\ LET resting == {t \in Threads : run[t].pc = "idle"} IN
     /\ resting # {}
     /\ run' = [run EXCEPT ![CHOOSE t \in resting : TRUE] = [Idle EXCEPT !.pc = "gate", !.repo = r]]
  /\ UNCHANGED <<head, clone, fileVars, job, gate, rescanVars, results, faults>>

\* Wrong: several requests are let in at once.
EnterFreely(t) ==
  /\ run[t].pc = "gate"
  /\ Begin(t, run[t].repo)
  /\ UNCHANGED <<outside, clone, draft, report, job, gate, rescanVars, results, faults>>

Enter(t) ==
  /\ run[t].pc = "gate" /\ gate > 0
  /\ gate' = gate - 1
  /\ Begin(t, run[t].repo)
  /\ UNCHANGED <<outside, clone, draft, report, job, rescanVars, results, faults>>

\* Wrong: the gate is released once more.
ServerDiesReleasing ==
  /\ Fault
  /\ gate' = gate + 1
  /\ run' = [w \in Workers |-> IF w \in Threads THEN Idle ELSE run[w]]
  /\ UNCHANGED <<outside, clone, fileVars, job, rescanVars, results>>

ServerDies ==
  /\ Fault
  /\ gate' = 1
  /\ run' = [w \in Workers |-> IF w \in Threads THEN Idle ELSE run[w]]
  /\ UNCHANGED <<outside, clone, fileVars, job, rescanVars, results>>

-----------------------------------------------------------------------------
(* The rescan *)

\* A report that cannot be read is left out of _history.
Readable(r) == report[r].state = "whole"

StartRescan ==
  /\ ~on
  /\ on' = TRUE
  /\ todo' = {r \in Repos : Readable(r)}
  /\ results' = [done |-> {}, since |-> head]
  /\ UNCHANGED <<outside, clone, fileVars, job, gate, run, faults>>

NextProject(r) ==
  /\ on /\ run[Rescan].pc = "idle" /\ r \in todo
  /\ todo' = todo \ {r}
  /\ Begin(Rescan, r)
  /\ UNCHANGED <<outside, clone, draft, report, job, gate, on, results, faults>>

EndRescan ==
  /\ on /\ run[Rescan].pc = "idle" /\ todo = {}
  /\ on' = FALSE
  /\ UNCHANGED <<outside, clone, fileVars, job, gate, run, todo, results, faults>>

RescanDies ==
  /\ on /\ Fault
  /\ on' = FALSE /\ todo' = {}
  /\ run' = [run EXCEPT ![Rescan] = Idle]
  /\ UNCHANGED <<outside, clone, fileVars, job, gate, results>>

-----------------------------------------------------------------------------
Proceed(w) ==
  \/ Clear(w) \/ Clone(w) \/ Fetch(w) \/ Name(w)
  \/ OpenDraft(w) \/ WriteDraft(w) \/ RenameDraft(w) \/ Trigger(w) \/ RemoveClone(w)

RescanRuns == StartRescan \/ EndRescan \/ Proceed(Rescan) \/ \E r \in Repos : NextProject(r)

Next ==
  \/ \E r \in Repos : Push(r) \/ JobEnds(r) \/ Request(r)
  \/ \E t \in Threads : Enter(t) \/ Proceed(t)
  \/ RescanRuns
  \/ \E w \in Workers : Fail(w)
  \/ ServerDies \/ RescanDies

\* Every call in _analyze has a timeout or ends by itself, the timer starts the
\* rescan every day, and the orchestrator finishes its jobs.  Nobody has to push, to
\* send a request or to be let through the gate.
Fairness ==
  /\ \A t \in Threads : WF_vars(Proceed(t))
  /\ WF_vars(RescanRuns)
  /\ \A r \in Repos : WF_vars(JobEnds(r))

Spec == Init /\ [][Next]_vars /\ Fairness

-----------------------------------------------------------------------------
(* Properties *)

\* A saved report can always be read, through restarts, failed writes and
\* overlapping requests, unless the server and the rescan were at work on that
\* repository at once (server.py:57-63, 174).  An unreadable report would silently
\* leave _history, and with it the rescans (server.py:66-74).
SavedIsReadable ==
  \A r \in Repos : ~raced[r] => report[r].state \in {"absent", "whole"}

\* README.md:27-28: a saved report names the exact commit that was analysed, with
\* the same exception: the two processes share one clone.
NamesItsCommit ==
  \A r \in Repos : Readable(r) /\ ~raced[r] => report[r].tree = report[r].commit

\* A report is never replaced by one of an older commit, with the same exception.
NeverStepsBack ==
  [][\A r \in Repos : Readable(r) /\ Readable(r)' /\ ~raced'[r] =>
       report'[r].commit >= report[r].commit]_vars

\* What a rescan reports as completed shows, from then on, a commit no older than
\* the one that was current when the rescan began (rescan.py:31-48).
CompletedIsFresh ==
  \A r \in results.done :
    raced[r] \/ (Readable(r) /\ report[r].commit >= results.since[r])

\* README.md:40-41: the console does not silently retain an obsolete snapshot.  In
\* the end every report that can be read is of the last commit and of its tree, and
\* that commit is the one the orchestrator was asked for.
SnapshotsFollow ==
  \A r \in Repos :
    <>[](Readable(r) => /\ report[r].commit = head[r] /\ report[r].tree = head[r]
                        /\ job[r].commit = head[r])

\* The server analyses one repository at a time, and a gate that nobody holds is
\* open: however the request before ended, the next is let in (server.py:173-178).
GateIsKept ==
  /\ gate = 1 <=> \A t \in Threads : run[t].pc \in {"idle", "gate"}
  /\ \A t, u \in Threads :
       run[t].pc \notin {"idle", "gate"} /\ run[u].pc \notin {"idle", "gate"} => t = u
=============================================================================
