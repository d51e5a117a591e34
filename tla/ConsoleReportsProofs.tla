------------------------ MODULE ConsoleReportsProofs ------------------------
(***************************************************************************)
(* Theorems about ConsoleReports for every set of repositories, any number *)
(* of threads and commits, and any faults.                                 *)
(***************************************************************************)
EXTENDS ConsoleReports, TLAPS

Working(w) == run[w].pc \notin {"idle", "gate"}

\* A call that waits or works has a repository.
CallsHaveRepos == \A w \in Workers : run[w].pc # "idle" => run[w].repo \in Repos

TInv == TypeOK /\ GateIsKept /\ CallsHaveRepos

-----------------------------------------------------------------------------
(* Types *)

LEMMA Constants ==
  /\ Threads \subseteq Workers /\ Rescan \in Workers /\ Rescan \notin Threads
  /\ NoRepo \notin Repos
  /\ 0 \in SomeCommit /\ Commits \subseteq SomeCommit /\ 1 \in Commits
  /\ SomeCommit \subseteq Nat
  BY WorkersAssumption, BoundsAssumption DEF Workers, Commits, SomeCommit

LEMMA Values ==
  /\ Idle \in Call /\ Idle.pc = "idle" /\ Idle.repo = NoRepo /\ Idle.fd = "none"
  /\ NoDir \in Dir /\ [there |-> TRUE, commit |-> 0] \in Dir
  /\ NoFile \in File /\ Empty \in File /\ Torn \in File
  BY Constants DEF Idle, Call, NoDir, Dir, NoFile, Empty, Torn, File

\* What happens to the calls and the clone when a worker changes its directory.
LEMMA ChangesDirTypes ==
  ASSUME TypeOK, NEW w \in Workers, run[w].repo \in Repos, NEW dir \in Dir, NEW rec \in Call,
         ChangesDir(w, dir, rec)
  PROVE  /\ clone' \in [Repos -> Dir]
         /\ run' \in [Workers -> Call]
         /\ run'[w] = rec
         /\ \A v \in Workers \ {w} : /\ run'[v].pc = run[v].pc /\ run'[v].repo = run[v].repo
                                     /\ run'[v].commit = run[v].commit
                                     /\ run'[v].alone = run[v].alone /\ run'[v].fd = run[v].fd
                                     /\ run[v].repo # run[w].repo => run'[v] = run[v]
  <1>1. ASSUME NEW v \in Workers
        PROVE  [run[v] EXCEPT !.tree = 0] \in Call
    BY Constants DEF TypeOK, Call
  <1> QED
    BY <1>1 DEF ChangesDir, TypeOK, Call

LEMMA LeavesTypes ==
  ASSUME TInv, NEW w \in Workers, Working(w), NEW ok \in BOOLEAN, Leaves(w, ok)
  PROVE  /\ gate' = IF w \in Threads THEN 1 ELSE gate
         /\ results' \in [done : SUBSET Repos, since : [Repos -> Commits]]
         /\ results'.since = results.since
  <1>1. w \in Threads => gate = 0
    BY DEF TInv, TypeOK, GateIsKept, Working
  <1>2. run[w].repo \in Repos
    BY DEF TInv, CallsHaveRepos, Working
  <1> QED
    BY <1>1, <1>2, Constants DEF Leaves, TInv, TypeOK

LEMMA TypeInit == Init => TInv
  <1> SUFFICES ASSUME Init PROVE TInv
    OBVIOUS
  <1> USE DEF Init
  <1>1. draft \in [Repos -> File] /\ report \in [Repos -> File] /\ clone \in [Repos -> Dir]
    BY Values
  <1>2. head \in [Repos -> Commits] /\ job \in [Repos -> [commit : SomeCommit, active : BOOLEAN]]
    BY Constants
  <1>3. run \in [Workers -> Call] /\ raced \in [Repos -> BOOLEAN]
    BY Values
  <1>4. results \in [done : SUBSET Repos, since : [Repos -> Commits]]
    BY Constants
  <1>5. TypeOK
    <2>1. gate \in 0..1 /\ todo \in SUBSET Repos
      OBVIOUS
    <2>3. on \in BOOLEAN
      BY Zenon
    <2>2. requests \in 0..MaxRequests /\ faults \in 0..MaxFaults
      BY BoundsAssumption
    <2> HIDE DEF Init
    <2> QED
      BY <1>1, <1>2, <1>3, <1>4, <2>1, <2>2, <2>3 DEF TypeOK
  <1>6. \A w \in Workers : run[w].pc = "idle"
    BY Values
  <1> QED
    BY <1>5, <1>6, Constants DEF TInv, GateIsKept, CallsHaveRepos

\* The gate after a call has ended, and after a step that neither begins nor ends one.
LEMMA GateAfterEnd ==
  ASSUME TInv, NEW w \in Workers, Working(w), NEW ok \in BOOLEAN, Leaves(w, ok),
         run'[w].pc = "idle", \A v \in Workers \ {w} : run'[v].pc = run[v].pc
  PROVE  GateIsKept'
  <1>1. gate' = IF w \in Threads THEN 1 ELSE gate
    BY LeavesTypes
  <1>2. CASE w \in Threads
    <2>1. \A t \in Threads : run[t].pc \notin {"idle", "gate"} => t = w
      BY <1>2 DEF TInv, GateIsKept, Working
    <2>2. \A t \in Threads : run'[t].pc \in {"idle", "gate"}
      BY <2>1, Constants
    <2> QED
      BY <1>1, <1>2, <2>2 DEF GateIsKept
  <1>3. CASE w \notin Threads
    <2>1. \A t \in Threads : run'[t].pc = run[t].pc
      BY <1>3, Constants
    <2> QED
      BY <1>1, <1>3, <2>1 DEF TInv, GateIsKept
  <1> QED
    BY <1>2, <1>3

LEMMA GateAfterStep ==
  ASSUME GateIsKept, gate' = gate, \A t \in Threads : Working(t)' <=> Working(t)
  PROVE  GateIsKept'
  BY DEF GateIsKept, Working

\* A call that begins has no rival, or neither is alone; nothing else changes.
LEMMA BeginEffect ==
  ASSUME TypeOK, NEW w \in Workers, NEW r \in Repos, Begin(w, r)
  PROVE  /\ run' \in [Workers -> Call] /\ raced' \in [Repos -> BOOLEAN]
         /\ run'[w].pc = "clear" /\ run'[w].repo = r
         /\ run'[w].alone <=> Rivals(w, r) = {}
         /\ \A v \in Workers \ {w} :
              /\ run'[v].pc = run[v].pc /\ run'[v].repo = run[v].repo
              /\ run'[v].commit = run[v].commit /\ run'[v].tree = run[v].tree
              /\ run'[v].fd = run[v].fd /\ run'[v].posted = run[v].posted
              /\ run'[v].alone <=> run[v].alone /\ v \notin Rivals(w, r)
         /\ \A q \in Repos : raced'[q] <=> raced[q] \/ (q = r /\ Rivals(w, r) # {})
  <1> DEFINE begun == [Idle EXCEPT !.pc = "clear", !.repo = r, !.alone = Rivals(w, r) = {}]
  <1>1. begun \in Call /\ begun.pc = "clear" /\ begun.repo = r /\ (begun.alone <=> Rivals(w, r) = {})
    BY Constants DEF Idle, Call
  <1>2. ASSUME NEW v \in Workers
        PROVE  [run[v] EXCEPT !.alone = @ /\ v \notin Rivals(w, r)] \in Call
    <2> DEFINE b == run[v].alone /\ v \notin Rivals(w, r)
    <2>1. b \in BOOLEAN
      BY Zenon
    <2> HIDE DEF b
    <2>2. run[v] \in Call
      BY DEF TypeOK
    <2>3. [run[v] EXCEPT !.alone = b] \in Call
      BY <2>1, <2>2 DEF Call
    <2> QED
      BY <2>3 DEF b
  <1>3. raced' \in [Repos -> BOOLEAN]
    BY DEF Begin, TypeOK
  <1>4. \A q \in Repos : raced'[q] <=> raced[q] \/ (q = r /\ Rivals(w, r) # {})
    BY DEF Begin, TypeOK
  <1>5. run' \in [Workers -> Call] /\ run'[w] = begun
    BY <1>1, <1>2 DEF Begin
  <1>6. \A v \in Workers \ {w} : run'[v] = [run[v] EXCEPT !.alone = @ /\ v \notin Rivals(w, r)]
    BY DEF Begin
  <1>7. \A v \in Workers : run[v] \in Call
    BY DEF TypeOK
  <1> QED
    BY <1>1, <1>3, <1>4, <1>5, <1>6, <1>7 DEF Call

\* Every step of the server, of the rescan and of the environment.
LEMMA Steps ==
  ASSUME [Next]_vars
  PROVE  \/ \E r \in Repos : Push(r) \/ JobEnds(r) \/ Request(r) \/ NextProject(r)
         \/ \E t \in Threads : Enter(t)
         \/ StartRescan \/ EndRescan \/ ServerDies \/ RescanDies
         \/ \E w \in Workers : Proceed(w) \/ Fail(w)
         \/ UNCHANGED vars
  BY Constants DEF Next, RescanRuns

\* A rename moves the file that others have open.
LEMMA RenameTypes ==
  ASSUME TypeOK, NEW w \in Workers, run[w].repo \in Repos, RenameDraft(w),
         ~(Breaks(w) /\ UNCHANGED fileVars)
  PROVE  /\ run' \in [Workers -> Call]
         /\ run'[w].repo = run[w].repo /\ run'[w].pc \in {"remove", "trigger"}
         /\ run'[w].commit = run[w].commit /\ run'[w].tree = run[w].tree
         /\ run'[w].alone = run[w].alone /\ run'[w].fd = run[w].fd
         /\ \A v \in Workers \ {w} : /\ run'[v].pc = run[v].pc /\ run'[v].repo = run[v].repo
                                     /\ run'[v].commit = run[v].commit /\ run'[v].tree = run[v].tree
                                     /\ run'[v].alone = run[v].alone
                                     /\ run[v].repo # run[w].repo => run'[v] = run[v]
  <1> DEFINE rec == [run[w] EXCEPT !.pc = IF run[w].posted THEN "remove" ELSE "trigger"]
             moved(v) == [run[v] EXCEPT !.fd = Moved(@)]
  <1>1. run \in [Workers -> Call]
    BY DEF TypeOK
  <1>2. rec \in Call /\ rec.pc \in {"remove", "trigger"} /\ rec.repo = run[w].repo
        /\ rec.commit = run[w].commit /\ rec.tree = run[w].tree
        /\ rec.alone = run[w].alone /\ rec.fd = run[w].fd
    BY <1>1 DEF Call
  <1>3. ASSUME NEW v \in Workers
        PROVE  /\ moved(v) \in Call /\ moved(v).pc = run[v].pc /\ moved(v).repo = run[v].repo
               /\ moved(v).commit = run[v].commit /\ moved(v).tree = run[v].tree
               /\ moved(v).alone = run[v].alone
    BY <1>1 DEF Call, Moved
  <1>4. run' = [v \in Workers |-> IF v = w THEN rec
                                  ELSE IF run[v].repo = run[w].repo THEN moved(v) ELSE run[v]]
    BY DEF RenameDraft
  <1> HIDE DEF rec, moved
  <1> QED
    BY <1>1, <1>2, <1>3, <1>4

\* A step of a working call changes its own record, and at most what the others see
\* of the files of its repository; the call goes on or ends.
LEMMA ProceedTypes ==
  ASSUME TInv, NEW w \in Workers, Proceed(w) \/ Fail(w)
  PROVE  TInv'
  <1> DEFINE r == run[w].repo
  <1>1. /\ Working(w) /\ r \in Repos /\ run[w] \in Call
        /\ clone \in [Repos -> Dir] /\ draft \in [Repos -> File] /\ report \in [Repos -> File]
        /\ gate \in 0..1 /\ run \in [Workers -> Call] /\ GateIsKept
        /\ head \in [Repos -> Commits] /\ raced \in [Repos -> BOOLEAN]
        /\ job \in [Repos -> [commit : SomeCommit, active : BOOLEAN]]
        /\ results \in [done : SUBSET Repos, since : [Repos -> Commits]]
        /\ faults \in 0..MaxFaults
    BY DEF TInv, TypeOK, CallsHaveRepos, Working, Proceed, Clear, Clone, Fetch, Name, OpenDraft,
           WriteDraft, RenameDraft, Trigger, RemoveClone, Fail
  <1>2. UNCHANGED <<outside, rescanVars>>
    BY DEF Proceed, Clear, Clone, Fetch, Name, OpenDraft, WriteDraft, RenameDraft, Trigger,
           RemoveClone, Fail, outside, rescanVars
  <1>3. head' \in [Repos -> Commits] /\ requests' \in 0..MaxRequests /\ todo' \in SUBSET Repos /\ on' \in BOOLEAN
    BY <1>2 DEF TInv, TypeOK, outside, rescanVars
  <1>4. ASSUME NEW ok \in BOOLEAN, ChangesDir(w, NoDir, Idle), Leaves(w, ok)
        PROVE  /\ clone' \in [Repos -> Dir] /\ run' \in [Workers -> Call] /\ gate' \in 0..1
               /\ results' \in [done : SUBSET Repos, since : [Repos -> Commits]]
               /\ GateIsKept' /\ CallsHaveRepos'
    <2>1. /\ clone' \in [Repos -> Dir] /\ run' \in [Workers -> Call] /\ run'[w] = Idle
          /\ \A v \in Workers \ {w} : run'[v].pc = run[v].pc /\ run'[v].repo = run[v].repo
      BY <1>1, <1>4, ChangesDirTypes, Values DEF TInv
    <2>2. GateIsKept'
      BY <1>1, <1>4, <2>1, GateAfterEnd, Values
    <2>3. CallsHaveRepos'
      BY <2>1, Values DEF TInv, CallsHaveRepos
    <2> QED
      BY <1>1, <1>4, <2>1, <2>2, <2>3, LeavesTypes
  <1>5. ASSUME Breaks(w)
        PROVE  /\ clone' \in [Repos -> Dir] /\ run' \in [Workers -> Call] /\ gate' \in 0..1
               /\ results' \in [done : SUBSET Repos, since : [Repos -> Commits]]
               /\ GateIsKept' /\ CallsHaveRepos'
    BY <1>4, <1>5 DEF Breaks
  <1>6. ASSUME NEW ok \in BOOLEAN, run' = [run EXCEPT ![w] = Idle], Leaves(w, ok)
        PROVE  /\ run' \in [Workers -> Call] /\ gate' \in 0..1
               /\ results' \in [done : SUBSET Repos, since : [Repos -> Commits]]
               /\ GateIsKept' /\ CallsHaveRepos'
    <2>1. /\ run' \in [Workers -> Call] /\ run'[w] = Idle
          /\ \A v \in Workers \ {w} : run'[v].pc = run[v].pc /\ run'[v].repo = run[v].repo
      BY <1>1, <1>6, Values
    <2>2. GateIsKept'
      BY <1>1, <1>6, <2>1, GateAfterEnd, Values
    <2>3. CallsHaveRepos'
      BY <2>1, Values DEF TInv, CallsHaveRepos
    <2> QED
      BY <1>1, <1>6, <2>1, <2>2, <2>3, LeavesTypes
  <1>7. ASSUME NEW rec \in Call, rec.repo = r, rec.pc \notin {"idle", "gate"}, NEW dir \in Dir,
               ChangesDir(w, dir, rec), gate' = gate
        PROVE  /\ clone' \in [Repos -> Dir] /\ run' \in [Workers -> Call]
               /\ GateIsKept' /\ CallsHaveRepos'
    <2>1. /\ clone' \in [Repos -> Dir] /\ run' \in [Workers -> Call] /\ run'[w] = rec
          /\ \A v \in Workers \ {w} : run'[v].pc = run[v].pc /\ run'[v].repo = run[v].repo
      BY <1>1, <1>7, ChangesDirTypes DEF TInv
    <2>2. \A t \in Threads : Working(t)' <=> Working(t)
      BY <1>1, <1>7, <2>1, Constants DEF Working
    <2> QED
      BY <1>1, <1>7, <2>1, <2>2, GateAfterStep DEF TInv, CallsHaveRepos
  <1>8. ASSUME NEW rec \in Call, rec.repo = r, rec.pc \notin {"idle", "gate"},
               run' \in [Workers -> Call], run'[w] = rec,
               \A v \in Workers \ {w} : run'[v].pc = run[v].pc /\ run'[v].repo = run[v].repo,
               gate' = gate
        PROVE  GateIsKept' /\ CallsHaveRepos'
    <2>1. \A t \in Threads : Working(t)' <=> Working(t)
      BY <1>1, <1>8, Constants DEF Working
    <2> QED
      BY <1>1, <1>8, <2>1, GateAfterStep DEF TInv, CallsHaveRepos
  <1>9. CASE Clear(w)
    <2> DEFINE rec == [run[w] EXCEPT !.pc = "clone"]
    <2>1. rec \in Call /\ rec.repo = r /\ rec.pc = "clone"
      BY <1>1 DEF Call
    <2>2. ChangesDir(w, NoDir, rec)
      BY <1>9 DEF Clear
    <2> HIDE DEF rec
    <2>3. UNCHANGED <<fileVars, job, gate, results, faults>>
      BY <1>9 DEF Clear
    <2> QED
      BY <1>1, <1>3, <1>7, <2>1, <2>2, <2>3, Values DEF TInv, TypeOK, fileVars
  <1>10. CASE Clone(w)
    <2> DEFINE rec == [run[w] EXCEPT !.pc = "fetch"]  made == [there |-> TRUE, commit |-> 0]
    <2>1. rec \in Call /\ rec.repo = r /\ rec.pc = "fetch" /\ made \in Dir
      BY <1>1, Values DEF Call
    <2>2. UNCHANGED <<fileVars, job, faults>>
      BY <1>10 DEF Clone
    <2>3. \/ ChangesDir(w, made, rec) /\ UNCHANGED <<gate, results>>
          \/ Breaks(w)
      BY <1>10 DEF Clone
    <2> HIDE DEF rec, made
    <2>4. CASE ChangesDir(w, made, rec) /\ UNCHANGED <<gate, results>>
      BY <1>1, <1>3, <1>7, <2>1, <2>2, <2>4 DEF TInv, TypeOK, fileVars
    <2>5. CASE Breaks(w)
      BY <1>1, <1>3, <1>5, <2>2, <2>5 DEF TInv, TypeOK, fileVars
    <2> QED
      BY <2>3, <2>4, <2>5
  <1>11. CASE Fetch(w)
    <2> DEFINE rec == [run[w] EXCEPT !.pc = "name"]
               full == [there |-> TRUE, commit |-> head[r]]
    <2>1. rec \in Call /\ rec.repo = r /\ rec.pc = "name"
      BY <1>1 DEF Call
    <2>2. full \in Dir
      BY <1>1, Constants DEF Dir
    <2>3. UNCHANGED <<fileVars, job, faults>>
      BY <1>11 DEF Fetch
    <2>4. \/ ChangesDir(w, full, rec) /\ UNCHANGED <<gate, results>>
          \/ Breaks(w)
      BY <1>11 DEF Fetch
    <2> HIDE DEF rec, full
    <2>5. CASE ChangesDir(w, full, rec) /\ UNCHANGED <<gate, results>>
      BY <1>1, <1>3, <1>7, <2>1, <2>2, <2>3, <2>5 DEF TInv, TypeOK, fileVars
    <2>6. CASE Breaks(w)
      BY <1>1, <1>3, <1>5, <2>3, <2>6 DEF TInv, TypeOK, fileVars
    <2> QED
      BY <2>4, <2>5, <2>6
  <1>12. CASE Name(w)
    <2> DEFINE c == clone[r].commit
               rec == [run[w] EXCEPT !.pc = "analyze", !.commit = c, !.tree = c]
    <2>1. c \in SomeCommit
      BY <1>1 DEF Dir
    <2> HIDE DEF c
    <2>2. rec \in Call /\ rec.repo = r /\ rec.pc = "analyze"
      BY <1>1, <2>1 DEF Call
    <2>3. UNCHANGED <<clone, fileVars, job, faults>>
      BY <1>12 DEF Name
    <2>4. \/ run' = [run EXCEPT ![w] = rec] /\ UNCHANGED <<gate, results>>
          \/ run' = [run EXCEPT ![w] = Idle] /\ Leaves(w, FALSE)
      BY <1>1, <1>12 DEF Name, c
    <2> HIDE DEF rec
    <2>5. CASE run' = [run EXCEPT ![w] = rec] /\ UNCHANGED <<gate, results>>
      <3>1. /\ run' \in [Workers -> Call] /\ run'[w] = rec
            /\ \A v \in Workers \ {w} : run'[v].pc = run[v].pc /\ run'[v].repo = run[v].repo
        BY <1>1, <2>2, <2>5
      <3>2. GateIsKept' /\ CallsHaveRepos'
        BY <1>8, <2>2, <2>5, <3>1
      <3> QED
        BY <1>1, <1>3, <2>3, <2>5, <3>1, <3>2 DEF TInv, TypeOK, fileVars
    <2>6. CASE run' = [run EXCEPT ![w] = Idle] /\ Leaves(w, FALSE)
      BY <1>1, <1>3, <1>6, <2>3, <2>6 DEF TInv, TypeOK, fileVars
    <2> QED
      BY <2>4, <2>5, <2>6
  <1>13. CASE OpenDraft(w)
    <2> DEFINE rec == [run[w] EXCEPT !.pc = "write", !.fd = "draft"]
    <2>1. rec \in Call /\ rec.repo = r /\ rec.pc = "write"
      BY <1>1 DEF Call
    <2>2. UNCHANGED <<clone, report, raced, job, gate, results, faults>> /\ run' = [run EXCEPT ![w] = rec]
      BY <1>1, <1>13 DEF OpenDraft
    <2>3. draft' \in [Repos -> File]
      BY <1>1, <1>13, Values DEF OpenDraft
    <2> HIDE DEF rec
    <2>4. /\ run' \in [Workers -> Call] /\ run'[w] = rec
          /\ \A v \in Workers \ {w} : run'[v].pc = run[v].pc /\ run'[v].repo = run[v].repo
      BY <1>1, <2>1, <2>2
    <2>5. GateIsKept' /\ CallsHaveRepos'
      BY <1>8, <2>1, <2>2, <2>4
    <2> QED
      BY <1>1, <1>3, <2>2, <2>3, <2>4, <2>5 DEF TInv, TypeOK
  <1>14. CASE WriteDraft(w)
    <2> DEFINE rec == [run[w] EXCEPT !.pc = "rename", !.fd = "none"]
    <2>1. rec \in Call /\ rec.repo = r /\ rec.pc = "rename"
      BY <1>1 DEF Call
    <2>2. UNCHANGED <<clone, raced, job, gate, results, faults>> /\ run' = [run EXCEPT ![w] = rec]
      BY <1>1, <1>14 DEF WriteDraft
    <2>3. \A old \in File : Written(w, old) \subseteq File
      BY <1>1, Values DEF Written, File, Call
    <2>7. \/ \E f \in Written(w, draft[r]) : draft' = [draft EXCEPT ![r] = f] /\ UNCHANGED report
          \/ \E f \in Written(w, report[r]) : report' = [report EXCEPT ![r] = f] /\ UNCHANGED draft
          \/ UNCHANGED <<draft, report>>
      BY <1>14 DEF WriteDraft
    <2>8. Written(w, draft[r]) \subseteq File /\ Written(w, report[r]) \subseteq File
      BY <1>1, <2>3
    <2>4. draft' \in [Repos -> File] /\ report' \in [Repos -> File]
      BY <1>1, <2>7, <2>8
    <2> HIDE DEF rec
    <2>5. /\ run' \in [Workers -> Call] /\ run'[w] = rec
          /\ \A v \in Workers \ {w} : run'[v].pc = run[v].pc /\ run'[v].repo = run[v].repo
      BY <1>1, <2>1, <2>2
    <2>6. GateIsKept' /\ CallsHaveRepos'
      BY <1>8, <2>1, <2>2, <2>5
    <2> QED
      BY <1>1, <1>3, <2>2, <2>4, <2>5, <2>6 DEF TInv, TypeOK
  <1>15. CASE RenameDraft(w)
    <2>1. UNCHANGED <<job, faults>>
      BY <1>15 DEF RenameDraft
    <2>2. CASE Breaks(w) /\ UNCHANGED fileVars
      BY <1>1, <1>3, <1>5, <2>1, <2>2 DEF TInv, TypeOK, fileVars
    <2>3. CASE ~(Breaks(w) /\ UNCHANGED fileVars)
      <3>1. /\ report' = [report EXCEPT ![r] = draft[r]]
            /\ draft' = [draft EXCEPT ![r] = NoFile]
            /\ raced' = [raced EXCEPT ![r] = @ /\ ~run[w].alone]
            /\ UNCHANGED <<clone, gate, results>>
        BY <1>15, <2>3 DEF RenameDraft
      <3>2. run' \in [Workers -> Call] /\ run'[w].repo = r /\ run'[w].pc \in {"remove", "trigger"}
            /\ \A v \in Workers \ {w} : run'[v].pc = run[v].pc /\ run'[v].repo = run[v].repo
        BY <1>1, <1>15, <2>3, RenameTypes DEF TInv
      <3>3. report' \in [Repos -> File] /\ draft' \in [Repos -> File]
        BY <1>1, <3>1, Values
      <3>4. raced' \in [Repos -> BOOLEAN]
        BY <1>1, <3>1
      <3>5. GateIsKept' /\ CallsHaveRepos'
        BY <1>1, <1>8, <3>1, <3>2
      <3> QED
        BY <1>1, <1>3, <2>1, <3>1, <3>2, <3>3, <3>4, <3>5 DEF TInv, TypeOK
    <2> QED
      BY <2>2, <2>3
  <1>16. CASE Trigger(w)
    <2> DEFINE rec == [run[w] EXCEPT !.pc = "answered", !.posted = TRUE]
    <2>1. rec \in Call /\ rec.repo = r /\ rec.pc = "answered"
      BY <1>1 DEF Call
    <2>2. UNCHANGED <<clone, fileVars, gate, results>> /\ run' = [run EXCEPT ![w] = rec]
      BY <1>1, <1>16 DEF Trigger
    <2>7. run[w].commit \in SomeCommit
      BY <1>1 DEF Call
    <2> DEFINE Jobs == [commit : SomeCommit, active : BOOLEAN]
               asked == [commit |-> run[w].commit, active |-> TRUE]
    <2>8. job' = job \/ job' = [job EXCEPT ![r] = asked]
      BY <1>16 DEF Trigger
    <2>9. asked \in Jobs /\ job \in [Repos -> Jobs]
      BY <1>1, <2>7
    <2> HIDE DEF asked, Jobs
    <2>10. job' \in [Repos -> Jobs]
      BY <1>1, <2>8, <2>9
    <2>3. job' \in [Repos -> [commit : SomeCommit, active : BOOLEAN]]
      BY <2>10 DEF Jobs
    <2>4. faults' \in 0..MaxFaults
      BY <1>1, <1>16, BoundsAssumption DEF Trigger, Fault
    <2> HIDE DEF rec
    <2>5. /\ run' \in [Workers -> Call] /\ run'[w] = rec
          /\ \A v \in Workers \ {w} : run'[v].pc = run[v].pc /\ run'[v].repo = run[v].repo
      BY <1>1, <2>1, <2>2
    <2>6. GateIsKept' /\ CallsHaveRepos'
      BY <1>8, <2>1, <2>2, <2>5
    <2> QED
      BY <1>1, <1>3, <2>2, <2>3, <2>4, <2>5, <2>6 DEF TInv, TypeOK, fileVars
  <1>17. CASE RemoveClone(w)
    <2>1. ChangesDir(w, NoDir, Idle) /\ Leaves(w, TRUE) /\ UNCHANGED <<fileVars, job, faults>>
      BY <1>17 DEF RemoveClone
    <2> QED
      BY <1>1, <1>3, <1>4, <2>1 DEF TInv, TypeOK, fileVars
  <1>18. CASE Fail(w)
    <2>1. UNCHANGED <<fileVars, job>> /\ faults' \in 0..MaxFaults
      BY <1>1, <1>18, BoundsAssumption DEF Fail, Fault
    <2>2. \/ Breaks(w)
          \/ run' = [run EXCEPT ![w] = Idle] /\ UNCHANGED clone /\ Leaves(w, FALSE)
      BY <1>18 DEF Fail
    <2>3. CASE Breaks(w)
      BY <1>1, <1>3, <1>5, <2>1, <2>3 DEF TInv, TypeOK, fileVars
    <2>4. CASE run' = [run EXCEPT ![w] = Idle] /\ UNCHANGED clone /\ Leaves(w, FALSE)
      BY <1>1, <1>3, <1>6, <2>1, <2>4 DEF TInv, TypeOK, fileVars
    <2> QED
      BY <2>2, <2>3, <2>4
  <1> QED
    BY <1>9, <1>10, <1>11, <1>12, <1>13, <1>14, <1>15, <1>16, <1>17, <1>18 DEF Proceed

\* The steps that begin a call, or end all those of one process.
LEMMA BeginTypes ==
  ASSUME TInv, NEW w \in Workers, NEW r \in Repos, Begin(w, r),
         gate' = IF w \in Threads THEN 0 ELSE gate,
         w \in Threads => gate = 1
  PROVE  run' \in [Workers -> Call] /\ raced' \in [Repos -> BOOLEAN] /\ GateIsKept' /\ CallsHaveRepos'
  <1>1. /\ run' \in [Workers -> Call] /\ raced' \in [Repos -> BOOLEAN]
        /\ run'[w].pc = "clear" /\ run'[w].repo = r
        /\ \A v \in Workers \ {w} : run'[v].pc = run[v].pc /\ run'[v].repo = run[v].repo
    BY BeginEffect DEF TInv
  <1>2. CallsHaveRepos'
    BY <1>1 DEF TInv, CallsHaveRepos
  <1>3. CASE w \in Threads
    <2>1. \A t \in Threads : run[t].pc \in {"idle", "gate"}
      BY <1>3 DEF TInv, GateIsKept
    <2>2. \A t \in Threads \ {w} : run'[t].pc \in {"idle", "gate"}
      BY <1>1, <2>1, Constants
    <2> QED
      BY <1>1, <1>2, <1>3, <2>2 DEF GateIsKept
  <1>4. CASE w \notin Threads
    <2>1. \A t \in Threads : run'[t].pc = run[t].pc
      BY <1>1, <1>4, Constants
    <2> QED
      BY <1>1, <1>2, <1>4, <2>1 DEF TInv, GateIsKept
  <1> QED
    BY <1>3, <1>4

LEMMA RequestEffect ==
  ASSUME TypeOK, NEW r \in Repos, Request(r)
  PROVE  \E t \in Threads : /\ run[t].pc = "idle"
                            /\ run' = [run EXCEPT ![t] = [Idle EXCEPT !.pc = "gate", !.repo = r]]
  <1> DEFINE resting == {t \in Threads : run[t].pc = "idle"}
  <1>1. resting # {}
    BY DEF Request
  <1>2. (CHOOSE t \in resting : TRUE) \in resting
    BY <1>1
  <1>3. run' = [run EXCEPT ![CHOOSE t \in resting : TRUE] = [Idle EXCEPT !.pc = "gate", !.repo = r]]
    BY DEF Request
  <1> QED
    BY <1>2, <1>3

LEMMA TypeStep == TInv /\ [Next]_vars => TInv'
  <1> SUFFICES ASSUME TInv, [Next]_vars PROVE TInv'
    OBVIOUS
  <1>1. /\ clone \in [Repos -> Dir] /\ draft \in [Repos -> File] /\ report \in [Repos -> File]
        /\ gate \in 0..1 /\ run \in [Workers -> Call] /\ GateIsKept /\ CallsHaveRepos
        /\ head \in [Repos -> Commits] /\ raced \in [Repos -> BOOLEAN]
        /\ job \in [Repos -> [commit : SomeCommit, active : BOOLEAN]]
        /\ results \in [done : SUBSET Repos, since : [Repos -> Commits]]
        /\ faults \in 0..MaxFaults /\ requests \in 0..MaxRequests
        /\ todo \in SUBSET Repos /\ on \in BOOLEAN
    BY DEF TInv, TypeOK
  <1>2. ASSUME NEW r \in Repos, Push(r) PROVE TInv'
    <2>1. head' \in [Repos -> Commits]
      BY <1>1, <1>2, BoundsAssumption DEF Push, Commits
    <2>2. UNCHANGED <<clone, draft, report, raced, job, gate, run, todo, on, results, requests, faults>>
      BY <1>2 DEF Push, fileVars, rescanVars
    <2> QED
      BY <1>1, <2>1, <2>2 DEF TInv, TypeOK, GateIsKept, CallsHaveRepos
  <1>3. ASSUME NEW r \in Repos, JobEnds(r) PROVE TInv'
    <2>1. job' \in [Repos -> [commit : SomeCommit, active : BOOLEAN]]
      BY <1>1, <1>3 DEF JobEnds
    <2>2. UNCHANGED <<head, clone, draft, report, raced, gate, run, todo, on, results, requests, faults>>
      BY <1>3 DEF JobEnds, fileVars, rescanVars, outside
    <2> QED
      BY <1>1, <2>1, <2>2 DEF TInv, TypeOK, GateIsKept, CallsHaveRepos
  <1>4. ASSUME NEW r \in Repos, Request(r) PROVE TInv'
    <2> DEFINE asks == [Idle EXCEPT !.pc = "gate", !.repo = r]
    <2>1. asks \in Call /\ asks.pc = "gate" /\ asks.repo = r
      BY Constants DEF Idle, Call
    <2>2. PICK t \in Threads : run[t].pc = "idle" /\ run' = [run EXCEPT ![t] = asks]
      BY <1>1, <1>4, RequestEffect DEF TInv
    <2>3. UNCHANGED <<head, clone, draft, report, raced, job, gate, todo, on, results, faults>>
      BY <1>4 DEF Request, fileVars, rescanVars
    <2>4. requests' \in 0..MaxRequests
      BY <1>1, <1>4, BoundsAssumption DEF Request
    <2> HIDE DEF asks
    <2>5. run' \in [Workers -> Call] /\ run'[t] = asks /\ \A v \in Workers \ {t} : run'[v] = run[v]
      BY <1>1, <2>1, <2>2, Constants
    <2>6. \A u \in Threads : Working(u)' <=> Working(u)
      BY <2>1, <2>2, <2>5, Constants DEF Working
    <2> QED
      BY <1>1, <2>1, <2>3, <2>4, <2>5, <2>6, GateAfterStep DEF TInv, TypeOK, CallsHaveRepos
  <1>5. ASSUME NEW r \in Repos, NextProject(r) PROVE TInv'
    <2>1. Begin(Rescan, r)
      BY <1>5 DEF NextProject
    <2>2. todo' \in SUBSET Repos /\ UNCHANGED <<head, requests, clone, draft, report, job, gate, on, results, faults>>
      BY <1>1, <1>5 DEF NextProject, outside
    <2>3. run' \in [Workers -> Call] /\ raced' \in [Repos -> BOOLEAN] /\ GateIsKept' /\ CallsHaveRepos'
      BY <2>1, <2>2, BeginTypes, Constants
    <2> QED
      BY <1>1, <2>2, <2>3 DEF TInv, TypeOK
  <1>6. ASSUME NEW t \in Threads, Enter(t) PROVE TInv'
    <2>1. run[t].repo \in Repos /\ Begin(t, run[t].repo) /\ gate = 1 /\ gate' = 0
      BY <1>1, <1>6, Constants DEF Enter, CallsHaveRepos
    <2>2. UNCHANGED <<head, requests, clone, draft, report, job, todo, on, results, faults>>
      BY <1>6 DEF Enter, outside, rescanVars
    <2>3. run' \in [Workers -> Call] /\ raced' \in [Repos -> BOOLEAN] /\ GateIsKept' /\ CallsHaveRepos'
      BY <2>1, BeginTypes, Constants
    <2> QED
      BY <1>1, <2>1, <2>2, <2>3 DEF TInv, TypeOK
  <1>7. CASE StartRescan
    <2>1. results' \in [done : SUBSET Repos, since : [Repos -> Commits]]
      BY <1>1, <1>7 DEF StartRescan
    <2>2. UNCHANGED <<head, requests, clone, draft, report, raced, job, gate, run, faults>>
      BY <1>7 DEF StartRescan, outside, fileVars
    <2>3. on' \in BOOLEAN
      BY <1>7, Zenon DEF StartRescan
    <2>4. todo' \in SUBSET Repos
      BY <1>7 DEF StartRescan
    <2> QED
      BY <1>1, <2>1, <2>2, <2>3, <2>4 DEF TInv, TypeOK, GateIsKept, CallsHaveRepos
  <1>8. CASE EndRescan
    <2>1. on' \in BOOLEAN
      BY <1>8, Zenon DEF EndRescan
    <2>2. UNCHANGED <<head, requests, clone, draft, report, raced, job, gate, run, todo, results, faults>>
      BY <1>8 DEF EndRescan, outside, fileVars
    <2> QED
      BY <1>1, <2>1, <2>2 DEF TInv, TypeOK, GateIsKept, CallsHaveRepos
  <1>9. CASE ServerDies
    <2>1. \A w \in Workers : run'[w] = IF w \in Threads THEN Idle ELSE run[w]
      BY <1>9 DEF ServerDies
    <2>2. run' \in [Workers -> Call]
      BY <1>1, <1>9, Values DEF ServerDies
    <2>3. UNCHANGED <<head, requests, clone, draft, report, raced, job, todo, on, results>>
      BY <1>9 DEF ServerDies, outside, fileVars, rescanVars
    <2>4. gate' = 1 /\ faults' \in 0..MaxFaults
      BY <1>1, <1>9, BoundsAssumption DEF ServerDies, Fault
    <2>5. GateIsKept' /\ CallsHaveRepos'
      BY <1>1, <2>1, <2>4, Constants, Values DEF GateIsKept, CallsHaveRepos
    <2> QED
      BY <1>1, <2>2, <2>3, <2>4, <2>5 DEF TInv, TypeOK
  <1>10. CASE RescanDies
    <2>1. run' \in [Workers -> Call] /\ run'[Rescan] = Idle /\ \A w \in Workers \ {Rescan} : run'[w] = run[w]
      BY <1>1, <1>10, Values, Constants DEF RescanDies
    <2>2. UNCHANGED <<head, requests, clone, draft, report, raced, job, gate, results>>
      BY <1>10 DEF RescanDies, outside, fileVars
    <2>3. on' \in BOOLEAN
      BY <1>10, Zenon DEF RescanDies
    <2>4. todo' \in SUBSET Repos /\ faults' \in 0..MaxFaults
      BY <1>1, <1>10, BoundsAssumption DEF RescanDies, Fault
    <2>5. GateIsKept' /\ CallsHaveRepos'
      <3>1. \A t \in Threads : run'[t] = run[t]
        BY <2>1, Constants
      <3> QED
        BY <1>1, <2>1, <2>2, <3>1, Values DEF GateIsKept, CallsHaveRepos
    <2> QED
      BY <1>1, <2>1, <2>2, <2>3, <2>4, <2>5 DEF TInv, TypeOK
  <1>11. ASSUME NEW w \in Workers, Proceed(w) \/ Fail(w) PROVE TInv'
    BY <1>11, ProceedTypes
  <1>12. CASE UNCHANGED vars
    BY <1>1, <1>12 DEF vars, TInv, TypeOK, GateIsKept, CallsHaveRepos
  <1> QED
    BY <1>2, <1>3, <1>4, <1>5, <1>6, <1>7, <1>8, <1>9, <1>10, <1>11, <1>12, Steps

LEMMA Typed == Spec => []TInv
  BY TypeInit, TypeStep, PTL DEF Spec

\* Every reachable state has its types, whatever fails.
THEOREM TypeCorrect == Spec => []TypeOK
  BY Typed, PTL DEF TInv

\* One request at a time is analysed, and the gate is never left closed.
THEOREM GateKept == Spec => []GateIsKept
  BY Typed, PTL DEF TInv

-----------------------------------------------------------------------------
(* Saved reports *)

\* A call that was never disturbed has no rival, and one that was has left its mark.
RacesAreNoted ==
  \A w \in Workers, r \in Repos :
    AtWork(w, r) => /\ run[w].alone => Rivals(w, r) = {}
                    /\ ~run[w].alone => raced[r]

\* The rescan's process does nothing between two rescans, and never waits at the gate.
RescanRests == run[Rescan].pc # "gate" /\ (~on => run[Rescan].pc = "idle")

\* Nobody names a commit that was not pushed yet.
NothingFromTheFuture ==
  /\ \A r \in Repos : /\ clone[r].commit <= head[r] /\ draft[r].commit <= head[r]
                      /\ report[r].commit <= head[r] /\ results.since[r] <= head[r]
  /\ \A w \in Workers : run[w].repo \in Repos => run[w].commit <= head[run[w].repo]

Named == {"analyze", "write", "rename", "trigger", "answered", "remove"}

\* What an undisturbed call has in its hands: the tree of the commit it names, its
\* own .tmp, and a commit no older than the saved one, or than the rescan.
Holds(w) ==
  LET r == run[w].repo  pc == run[w].pc IN
  /\ pc \in Named \ {"remove"} => run[w].tree = run[w].commit
  /\ pc = "write" => run[w].fd = "draft" /\ draft[r] = Empty
  /\ pc = "rename" => draft[r] = [state |-> "whole", commit |-> run[w].commit, tree |-> run[w].tree]
  /\ pc = "remove" => report[r].state = "whole" /\ report[r].commit = run[w].commit
  /\ pc = "name" => report[r].commit <= clone[r].commit
  /\ pc \in Named => report[r].commit <= run[w].commit
  /\ w = Rescan \/ r \in results.done =>
       /\ pc = "name" => results.since[r] <= clone[r].commit
       /\ pc \in Named => results.since[r] <= run[w].commit

UndisturbedHold == \A w \in Workers : Working(w) /\ run[w].alone => Holds(w)

IInv ==
  /\ TInv
  /\ RescanRests
  /\ RacesAreNoted
  /\ NothingFromTheFuture
  /\ UndisturbedHold
  /\ SavedIsReadable
  /\ NamesItsCommit
  /\ CompletedIsFresh

\* An undisturbed call is the only one on its repository.
LEMMA OnlyOne ==
  ASSUME TInv, RacesAreNoted, NEW w \in Workers, NEW v \in Workers,
         Working(w), Working(v), run[v].repo = run[w].repo, run[w].alone
  PROVE  v = w
  <1>1. run[w].repo \in Repos /\ AtWork(w, run[w].repo) /\ AtWork(v, run[w].repo)
    BY DEF TInv, CallsHaveRepos, Working, AtWork
  <1>2. v \notin Rivals(w, run[w].repo)
    BY <1>1 DEF RacesAreNoted
  <1>3. (v = Rescan) = (w = Rescan)
    BY <1>1, <1>2 DEF Rivals
  <1>4. CASE v \in Threads /\ w \in Threads
    BY <1>4 DEF TInv, GateIsKept, Working
  <1> QED
    BY <1>3, <1>4 DEF Workers

\* What a step of w leaves alone: the other calls, but for what they see of the
\* files they share, and everything about other repositories.
LEMMA ProceedEffect ==
  ASSUME TInv, NEW w \in Workers, Proceed(w) \/ Fail(w)
  PROVE  /\ Working(w) /\ run[w].repo \in Repos
         /\ head' = head /\ on' = on /\ results'.since = results.since
         /\ \/ run'[w] = Idle
            \/ run'[w].repo = run[w].repo /\ run'[w].alone = run[w].alone /\ Working(w)'
         /\ \A v \in Workers \ {w} :
              /\ run'[v].pc = run[v].pc /\ run'[v].repo = run[v].repo
              /\ run'[v].commit = run[v].commit /\ run'[v].alone = run[v].alone
              /\ run[v].repo # run[w].repo => run'[v] = run[v]
         /\ \A q \in Repos \ {run[w].repo} :
              /\ clone'[q] = clone[q] /\ draft'[q] = draft[q] /\ report'[q] = report[q]
              /\ raced'[q] = raced[q] /\ (q \in results'.done <=> q \in results.done)
  <1> DEFINE r == run[w].repo
             Alike(v) == /\ run'[v].pc = run[v].pc /\ run'[v].repo = run[v].repo
                         /\ run'[v].commit = run[v].commit /\ run'[v].alone = run[v].alone
                         /\ run[v].repo # r => run'[v] = run[v]
             Files == \A q \in Repos \ {r} :
                        /\ clone'[q] = clone[q] /\ draft'[q] = draft[q] /\ report'[q] = report[q]
                        /\ raced'[q] = raced[q]
             Done == results'.since = results.since
                     /\ \A q \in Repos \ {r} : q \in results'.done <=> q \in results.done
             Own == \/ run'[w] = Idle
                    \/ run'[w].repo = r /\ run'[w].alone = run[w].alone /\ Working(w)'
  <1>1. /\ Working(w) /\ r \in Repos /\ run[w] \in Call /\ TypeOK
        /\ clone \in [Repos -> Dir] /\ draft \in [Repos -> File] /\ report \in [Repos -> File]
        /\ run \in [Workers -> Call] /\ raced \in [Repos -> BOOLEAN] /\ head \in [Repos -> Commits]
        /\ results \in [done : SUBSET Repos, since : [Repos -> Commits]]
    BY DEF TInv, TypeOK, CallsHaveRepos, Working, Proceed, Clear, Clone, Fetch, Name, OpenDraft,
           WriteDraft, RenameDraft, Trigger, RemoveClone, Fail
  <1>2. head' = head /\ on' = on
    BY DEF Proceed, Clear, Clone, Fetch, Name, OpenDraft, WriteDraft, RenameDraft, Trigger,
           RemoveClone, Fail, outside, rescanVars
  <1>3. ASSUME NEW dir \in Dir, NEW rec \in Call, ChangesDir(w, dir, rec)
        PROVE  /\ run'[w] = rec /\ \A v \in Workers \ {w} : Alike(v)
               /\ \A q \in Repos \ {r} : clone'[q] = clone[q]
    BY <1>1, <1>3, ChangesDirTypes DEF ChangesDir
  <1>4. ASSUME NEW rec \in Call, run' = [run EXCEPT ![w] = rec]
        PROVE  run'[w] = rec /\ \A v \in Workers \ {w} : Alike(v)
    BY <1>1, <1>4
  <1>5. ASSUME NEW ok \in BOOLEAN, Leaves(w, ok)
        PROVE  Done
    <2>1. results' = results \/ results' = [results EXCEPT !.done = @ \cup {q \in {r} : ok}]
      BY <1>5 DEF Leaves
    <2> QED
      BY <1>1, <2>1
  <1>6. ASSUME Breaks(w)
        PROVE  /\ run'[w] = Idle /\ \A v \in Workers \ {w} : Alike(v)
               /\ \A q \in Repos \ {r} : clone'[q] = clone[q]
               /\ Done
    BY <1>3, <1>5, <1>6, Values DEF Breaks
  <1>7. ASSUME NEW rec \in Call, rec.repo = r, rec.alone = run[w].alone, rec.pc \notin {"idle", "gate"},
               run'[w] = rec
        PROVE  Own
    BY <1>7 DEF Working
  <1>8. ASSUME UNCHANGED results PROVE Done
    BY <1>8
  <1>9. Own /\ (\A v \in Workers \ {w} : Alike(v)) /\ Files /\ Done
    <2> HIDE DEF Alike, Done, Own
    <2>1. CASE Clear(w)
      <3> DEFINE rec == [run[w] EXCEPT !.pc = "clone"]
      <3>1. rec \in Call /\ rec.repo = r /\ rec.alone = run[w].alone /\ rec.pc = "clone"
        BY <1>1 DEF Call
      <3>2. ChangesDir(w, NoDir, rec) /\ UNCHANGED <<draft, report, raced, results>>
        BY <2>1 DEF Clear, fileVars
      <3> HIDE DEF rec
      <3> QED
        BY <1>3, <1>7, <1>8, <3>1, <3>2, Values
    <2>2. CASE Clone(w)
      <3> DEFINE rec == [run[w] EXCEPT !.pc = "fetch"]
      <3>1. rec \in Call /\ rec.repo = r /\ rec.alone = run[w].alone /\ rec.pc = "fetch"
        BY <1>1 DEF Call
      <3>2. /\ \/ ChangesDir(w, [there |-> TRUE, commit |-> 0], rec) /\ UNCHANGED results
               \/ Breaks(w)
            /\ UNCHANGED <<draft, report, raced>>
        BY <2>2 DEF Clone, fileVars
      <3> HIDE DEF rec
      <3>3. CASE Breaks(w)
        BY <1>6, <3>2, <3>3 DEF Own
      <3>4. CASE ~Breaks(w)
        BY <1>3, <1>7, <1>8, <3>1, <3>2, <3>4, Values
      <3> QED
        BY <3>3, <3>4
    <2>3. CASE Fetch(w)
      <3> DEFINE rec == [run[w] EXCEPT !.pc = "name"]
      <3>1. rec \in Call /\ rec.repo = r /\ rec.alone = run[w].alone /\ rec.pc = "name"
        BY <1>1 DEF Call
      <3>2. [there |-> TRUE, commit |-> head[r]] \in Dir
        BY <1>1, Constants DEF Dir
      <3>3. /\ \/ ChangesDir(w, [there |-> TRUE, commit |-> head[r]], rec) /\ UNCHANGED results
               \/ Breaks(w)
            /\ UNCHANGED <<draft, report, raced>>
        BY <2>3 DEF Fetch, fileVars
      <3> HIDE DEF rec
      <3>4. CASE Breaks(w)
        BY <1>6, <3>3, <3>4 DEF Own
      <3>5. CASE ~Breaks(w)
        BY <1>3, <1>7, <1>8, <3>1, <3>2, <3>3, <3>5
      <3> QED
        BY <3>4, <3>5
    <2>4. CASE Name(w)
      <3> DEFINE c == clone[r].commit
                 rec == [run[w] EXCEPT !.pc = "analyze", !.commit = c, !.tree = c]
      <3>1. c \in SomeCommit
        BY <1>1 DEF Dir
      <3> HIDE DEF c
      <3>2. rec \in Call /\ rec.repo = r /\ rec.alone = run[w].alone /\ rec.pc = "analyze"
        BY <1>1, <3>1 DEF Call
      <3>3. /\ \/ run' = [run EXCEPT ![w] = rec] /\ UNCHANGED results
               \/ run' = [run EXCEPT ![w] = Idle] /\ Leaves(w, FALSE)
            /\ UNCHANGED <<clone, draft, report, raced>>
        BY <1>1, <2>4 DEF Name, fileVars, c
      <3> HIDE DEF rec
      <3>4. CASE run' = [run EXCEPT ![w] = rec] /\ UNCHANGED results
        BY <1>4, <1>7, <1>8, <3>2, <3>3, <3>4
      <3>5. CASE run' = [run EXCEPT ![w] = Idle] /\ Leaves(w, FALSE)
        BY <1>4, <1>5, <3>3, <3>5, Values DEF Own
      <3> QED
        BY <3>3, <3>4, <3>5
    <2>5. CASE OpenDraft(w)
      <3> DEFINE rec == [run[w] EXCEPT !.pc = "write", !.fd = "draft"]
      <3>1. rec \in Call /\ rec.repo = r /\ rec.alone = run[w].alone /\ rec.pc = "write"
        BY <1>1 DEF Call
      <3>2. run' = [run EXCEPT ![w] = rec] /\ UNCHANGED <<clone, report, raced, results>>
        BY <1>1, <2>5 DEF OpenDraft
      <3>3. \A q \in Repos \ {r} : draft'[q] = draft[q]
        BY <1>1, <2>5 DEF OpenDraft
      <3> HIDE DEF rec
      <3> QED
        BY <1>4, <1>7, <1>8, <3>1, <3>2, <3>3
    <2>6. CASE WriteDraft(w)
      <3> DEFINE rec == [run[w] EXCEPT !.pc = "rename", !.fd = "none"]
      <3>1. rec \in Call /\ rec.repo = r /\ rec.alone = run[w].alone /\ rec.pc = "rename"
        BY <1>1 DEF Call
      <3>2. run' = [run EXCEPT ![w] = rec] /\ UNCHANGED <<clone, raced, results>>
        BY <1>1, <2>6 DEF WriteDraft
      <3>3. \A q \in Repos \ {r} : draft'[q] = draft[q] /\ report'[q] = report[q]
        BY <1>1, <2>6 DEF WriteDraft
      <3> HIDE DEF rec
      <3> QED
        BY <1>4, <1>7, <1>8, <3>1, <3>2, <3>3
    <2>7. CASE RenameDraft(w)
      <3>1. CASE Breaks(w) /\ UNCHANGED fileVars
        BY <1>6, <3>1 DEF fileVars, Own
      <3>2. CASE ~(Breaks(w) /\ UNCHANGED fileVars)
        <4>1. Own /\ \A v \in Workers \ {w} : Alike(v)
          BY <1>1, <2>7, <3>2, RenameTypes DEF Own, Alike, Working
        <4>2. /\ report' = [report EXCEPT ![r] = draft[r]]
              /\ draft' = [draft EXCEPT ![r] = NoFile]
              /\ raced' = [raced EXCEPT ![r] = @ /\ ~run[w].alone]
              /\ UNCHANGED <<clone, gate, results>>
          BY <2>7, <3>2 DEF RenameDraft
        <4> QED
          BY <1>1, <1>8, <4>1, <4>2
      <3> QED
        BY <3>1, <3>2
    <2>8. CASE Trigger(w)
      <3> DEFINE rec == [run[w] EXCEPT !.pc = "answered", !.posted = TRUE]
      <3>1. rec \in Call /\ rec.repo = r /\ rec.alone = run[w].alone /\ rec.pc = "answered"
        BY <1>1 DEF Call
      <3>2. run' = [run EXCEPT ![w] = rec] /\ UNCHANGED <<clone, draft, report, raced, results>>
        BY <1>1, <2>8 DEF Trigger, fileVars
      <3> HIDE DEF rec
      <3> QED
        BY <1>4, <1>7, <1>8, <3>1, <3>2
    <2>9. CASE RemoveClone(w)
      <3>1. ChangesDir(w, NoDir, Idle) /\ Leaves(w, TRUE) /\ UNCHANGED <<draft, report, raced>>
        BY <2>9 DEF RemoveClone, fileVars
      <3> QED
        BY <1>3, <1>5, <3>1, Values DEF Own
    <2>10. CASE Fail(w)
      <3>1. /\ Breaks(w) \/ (run' = [run EXCEPT ![w] = Idle] /\ UNCHANGED clone /\ Leaves(w, FALSE))
            /\ UNCHANGED <<draft, report, raced>>
        BY <2>10 DEF Fail, fileVars
      <3> QED
        BY <1>4, <1>5, <1>6, <3>1, Values DEF Own
    <2> QED
      BY <2>1, <2>2, <2>3, <2>4, <2>5, <2>6, <2>7, <2>8, <2>9, <2>10 DEF Proceed
  <1> QED
    BY <1>1, <1>2, <1>9

\* The steps that neither work on a repository nor begin to.
Aside ==
  \/ \E r \in Repos : Push(r) \/ JobEnds(r) \/ Request(r)
  \/ StartRescan \/ EndRescan \/ ServerDies \/ RescanDies
  \/ UNCHANGED vars

LEMMA AsideEffect ==
  ASSUME TInv, RescanRests, Aside
  PROVE  /\ UNCHANGED <<clone, draft, report, raced>>
         /\ head' \in [Repos -> Commits] /\ \A r \in Repos : head[r] <= head'[r]
         /\ \A w \in Workers : \/ run'[w] = run[w]
                               \/ ~Working(w)' /\ run'[w].commit = 0
         /\ \/ results' = results
            \/ results'.done = {} /\ results'.since = head /\ head' = head /\ ~Working(Rescan)'
         /\ RescanRests'
  <1>1. /\ head \in [Repos -> Commits] /\ run \in [Workers -> Call]
        /\ Commits \subseteq Nat /\ Rescan \in Workers
    BY Constants DEF TInv, TypeOK
  <1>2. \A r \in Repos : head[r] \in Nat
    BY <1>1
  <1>3. ASSUME NEW r \in Repos, Push(r)
        PROVE  /\ head' \in [Repos -> Commits] /\ \A q \in Repos : head[q] <= head'[q]
               /\ UNCHANGED <<clone, draft, report, raced, run, on, results>>
    BY <1>1, <1>2, <1>3, BoundsAssumption DEF Push, Commits, fileVars, rescanVars
  <1>4. ASSUME NEW r \in Repos, JobEnds(r)
        PROVE  UNCHANGED <<head, clone, draft, report, raced, run, on, results>>
    BY <1>4 DEF JobEnds, outside, fileVars, rescanVars
  <1>5. ASSUME NEW r \in Repos, Request(r)
        PROVE  /\ UNCHANGED <<head, clone, draft, report, raced, on, results>>
               /\ run'[Rescan] = run[Rescan]
               /\ \A w \in Workers : run'[w] = run[w] \/ (~Working(w)' /\ run'[w].commit = 0)
    <2> DEFINE asks == [Idle EXCEPT !.pc = "gate", !.repo = r]
    <2>1. asks.pc = "gate" /\ asks.commit = 0
      BY DEF Idle
    <2>2. PICK t \in Threads : run' = [run EXCEPT ![t] = asks]
      BY <1>5, RequestEffect DEF TInv
    <2> HIDE DEF asks
    <2>3. \A w \in Workers : run'[w] = IF w = t THEN asks ELSE run[w]
      BY <1>1, <2>2
    <2>4. UNCHANGED <<head, clone, draft, report, raced, on, results>>
      BY <1>5 DEF Request, fileVars, rescanVars
    <2> QED
      BY <1>1, <2>1, <2>3, <2>4, Constants DEF Working
  <1>6. CASE StartRescan
    <2>1. results'.done = {} /\ results'.since = head
      BY <1>6 DEF StartRescan
    <2>2. UNCHANGED <<head, clone, draft, report, raced, run>> /\ on' = TRUE /\ ~on
      BY <1>6 DEF StartRescan, outside, fileVars
    <2>3. run'[Rescan].pc = "idle"
      BY <2>2 DEF RescanRests
    <2> QED
      BY <1>1, <1>2, <2>1, <2>2, <2>3 DEF RescanRests, Working
  <1>7. CASE EndRescan
    <2>1. UNCHANGED <<head, clone, draft, report, raced, run, results>> /\ run[Rescan].pc = "idle"
      BY <1>7 DEF EndRescan, outside, fileVars
    <2> QED
      BY <1>1, <1>2, <2>1 DEF RescanRests
  <1>8. CASE ServerDies
    <2>1. UNCHANGED <<head, clone, draft, report, raced, on, results>>
      BY <1>8 DEF ServerDies, outside, fileVars, rescanVars
    <2>2. \A w \in Workers : run'[w] = IF w \in Threads THEN Idle ELSE run[w]
      BY <1>8 DEF ServerDies
    <2>3. Idle.pc = "idle" /\ Idle.commit = 0
      BY DEF Idle
    <2>4. \A w \in Workers : run'[w] = run[w] \/ (~Working(w)' /\ run'[w].commit = 0)
      BY <2>2, <2>3 DEF Working
    <2>5. RescanRests'
      BY <1>1, <2>1, <2>2, Constants DEF RescanRests
    <2> QED
      BY <1>1, <1>2, <2>1, <2>4, <2>5
  <1>9. CASE RescanDies
    <2>1. UNCHANGED <<head, clone, draft, report, raced, results>>
      BY <1>9 DEF RescanDies, outside, fileVars
    <2>2. \A w \in Workers : run'[w] = IF w = Rescan THEN Idle ELSE run[w]
      BY <1>1, <1>9 DEF RescanDies
    <2>3. Idle.pc = "idle" /\ Idle.commit = 0
      BY DEF Idle
    <2>4. \A w \in Workers : run'[w] = run[w] \/ (~Working(w)' /\ run'[w].commit = 0)
      BY <2>2, <2>3 DEF Working
    <2>5. RescanRests'
      BY <1>1, <2>2, <2>3 DEF RescanRests
    <2> QED
      BY <1>1, <1>2, <2>1, <2>4, <2>5
  <1>10. CASE UNCHANGED vars
    BY <1>1, <1>2, <1>10 DEF vars, RescanRests
  <1>11. CASE \E r \in Repos : Push(r)
    BY <1>1, <1>2, <1>3, <1>11 DEF RescanRests
  <1>12. CASE \E r \in Repos : JobEnds(r)
    BY <1>1, <1>2, <1>4, <1>12 DEF RescanRests
  <1>13. CASE \E r \in Repos : Request(r)
    BY <1>1, <1>2, <1>5, <1>13 DEF RescanRests
  <1> QED
    BY <1>6, <1>7, <1>8, <1>9, <1>10, <1>11, <1>12, <1>13 DEF Aside

\* A call that begins, in the server or in the rescan.
Begins(w, r) ==
  /\ Begin(w, r) /\ ~Working(w)
  /\ UNCHANGED <<head, clone, draft, report, results>>

LEMMA BeginsEffect ==
  ASSUME TInv, RescanRests,
         (\E t \in Threads : Enter(t)) \/ (\E r \in Repos : NextProject(r))
  PROVE  RescanRests' /\ \E w \in Workers, r \in Repos : Begins(w, r)
  <1>1. ASSUME NEW t \in Threads, Enter(t)
        PROVE  RescanRests' /\ \E w \in Workers, r \in Repos : Begins(w, r)
    <2>1. t \in Workers /\ run[t].repo \in Repos /\ Begins(t, run[t].repo) /\ on' = on
      BY <1>1, Constants DEF Enter, Begins, Working, TInv, CallsHaveRepos, outside, rescanVars
    <2>2. run'[Rescan].pc = run[Rescan].pc
      BY <2>1, BeginEffect, Constants DEF TInv, Begins
    <2> QED
      BY <2>1, <2>2 DEF RescanRests
  <1>2. ASSUME NEW r \in Repos, NextProject(r)
        PROVE  RescanRests' /\ \E w \in Workers, q \in Repos : Begins(w, q)
    <2>1. Begins(Rescan, r) /\ on /\ on' = on
      BY <1>2 DEF NextProject, Begins, Working, outside
    <2>2. run'[Rescan].pc = "clear"
      BY <2>1, BeginEffect, Constants DEF TInv, Begins
    <2> QED
      BY <2>1, <2>2, Constants DEF RescanRests
  <1> QED
    BY <1>1, <1>2

LEMMA ThreeKinds ==
  ASSUME [Next]_vars
  PROVE  \/ Aside
         \/ (\E t \in Threads : Enter(t)) \/ (\E r \in Repos : NextProject(r))
         \/ \E w \in Workers : Proceed(w) \/ Fail(w)
  BY Steps DEF Aside

-----------------------------------------------------------------------------
(* The invariant under each kind of step *)

Numbers == \* what the comparisons of commits need
  /\ \A r \in Repos : /\ clone[r].commit \in Nat /\ draft[r].commit \in Nat /\ report[r].commit \in Nat
                      /\ results.since[r] \in Nat /\ head[r] \in Nat
  /\ \A w \in Workers : run[w].commit \in Nat

LEMMA TypesAreNumbers == TypeOK => Numbers
  BY Constants DEF TypeOK, Numbers, Dir, File, Call

LEMMA AsideStep == IInv /\ TInv' /\ Aside => IInv'
  <1> SUFFICES ASSUME IInv, TInv', Aside PROVE IInv'
    OBVIOUS
  <1>1. /\ UNCHANGED <<clone, draft, report, raced>>
        /\ head' \in [Repos -> Commits] /\ \A r \in Repos : head[r] <= head'[r]
        /\ \A w \in Workers : \/ run'[w] = run[w]
                              \/ ~Working(w)' /\ run'[w].commit = 0
        /\ \/ results' = results
           \/ results'.done = {} /\ results'.since = head /\ head' = head /\ ~Working(Rescan)'
        /\ RescanRests'
    BY AsideEffect DEF IInv
  <1>2. \A w \in Workers : Working(w)' => run'[w] = run[w] /\ Working(w)
    BY <1>1 DEF Working
  <1>3. Numbers /\ \A r \in Repos : head'[r] \in Nat
    BY <1>1, TypesAreNumbers, Constants DEF IInv, TInv
  <1>4. RacesAreNoted'
    <2>1. \A w \in Workers, r \in Repos : AtWork(w, r)' => AtWork(w, r) /\ run'[w] = run[w]
      BY <1>2 DEF AtWork, Working
    <2>2. \A w \in Workers, r \in Repos : Rivals(w, r)' \subseteq Rivals(w, r)
      BY <2>1 DEF Rivals
    <2> QED
      BY <1>1, <2>1, <2>2 DEF IInv, RacesAreNoted
  <1>5. NothingFromTheFuture'
    <2>1. \A r \in Repos : /\ clone'[r].commit <= head'[r] /\ draft'[r].commit <= head'[r]
                           /\ report'[r].commit <= head'[r] /\ results'.since[r] <= head'[r]
      BY <1>1, <1>3 DEF IInv, NothingFromTheFuture, Numbers
    <2>2. \A w \in Workers : run'[w].repo \in Repos => run'[w].commit <= head'[run'[w].repo]
      BY <1>1, <1>3 DEF IInv, NothingFromTheFuture, Numbers
    <2> QED
      BY <2>1, <2>2 DEF NothingFromTheFuture
  <1>6. UndisturbedHold'
    <2> SUFFICES ASSUME NEW w \in Workers, Working(w)', run'[w].alone PROVE Holds(w)'
      BY DEF UndisturbedHold
    <2>1. run'[w] = run[w] /\ Holds(w)
      BY <1>2 DEF IInv, UndisturbedHold
    <2> QED
      BY <1>1, <2>1 DEF Holds, Working
  <1>7. SavedIsReadable' /\ NamesItsCommit' /\ CompletedIsFresh'
    BY <1>1 DEF IInv, SavedIsReadable, NamesItsCommit, CompletedIsFresh, Readable
  <1> QED
    BY <1>1, <1>4, <1>5, <1>6, <1>7 DEF IInv

LEMMA BeginsStep ==
  ASSUME IInv, TInv', RescanRests', NEW w \in Workers, NEW r \in Repos, Begins(w, r)
  PROVE  IInv'
  <1>1. /\ run'[w].pc = "clear" /\ run'[w].repo = r
        /\ run'[w].alone <=> Rivals(w, r) = {}
        /\ \A v \in Workers \ {w} :
             /\ run'[v].pc = run[v].pc /\ run'[v].repo = run[v].repo
             /\ run'[v].commit = run[v].commit /\ run'[v].tree = run[v].tree
             /\ run'[v].fd = run[v].fd /\ run'[v].posted = run[v].posted
             /\ run'[v].alone <=> run[v].alone /\ v \notin Rivals(w, r)
        /\ \A q \in Repos : raced'[q] <=> raced[q] \/ (q = r /\ Rivals(w, r) # {})
    BY BeginEffect DEF Begins, IInv, TInv
  <1>2. UNCHANGED <<head, clone, draft, report, results>> /\ ~Working(w)
    BY DEF Begins
  <1>3. RacesAreNoted'
    <2> SUFFICES ASSUME NEW v \in Workers, NEW q \in Repos, AtWork(v, q)'
                 PROVE  (run'[v].alone => Rivals(v, q)' = {}) /\ (~run'[v].alone => raced'[q])
      BY DEF RacesAreNoted
    <2>1. \A u \in Workers \ {w} : AtWork(u, q)' <=> AtWork(u, q)
      BY <1>1 DEF AtWork
    <2>2. CASE v = w
      <3>1. q = r /\ Rivals(w, r)' = Rivals(w, r)
        BY <1>1, <2>1, <2>2 DEF AtWork, Rivals
      <3> QED
        BY <1>1, <2>2, <3>1
    <2>3. CASE v # w
      <3>1. AtWork(v, q) /\ (run'[v].alone <=> run[v].alone /\ v \notin Rivals(w, r))
        BY <1>1, <2>1, <2>3
      <3>2. ASSUME run'[v].alone PROVE Rivals(v, q)' = {}
        <4>1. Rivals(v, q) = {}
          BY <3>1, <3>2 DEF IInv, RacesAreNoted
        <4>2. ~(AtWork(w, q)' /\ (w = Rescan) # (v = Rescan))
          BY <1>1, <3>1, <3>2 DEF AtWork, Rivals
        <4> QED
          BY <2>1, <4>1, <4>2 DEF Rivals
      <3>3. ASSUME ~run'[v].alone PROVE raced'[q]
        <4>1. v \in Rivals(w, r) => q = r
          BY <3>1 DEF Rivals, AtWork
        <4> QED
          BY <1>1, <3>1, <3>3, <4>1 DEF IInv, RacesAreNoted
      <3> QED
        BY <3>2, <3>3
    <2> QED
      BY <2>2, <2>3
  <1>4. NothingFromTheFuture'
    <2>1. run'[w].commit = 0
      BY DEF Begins, Begin, Idle, IInv, TInv, TypeOK, Call
    <2>2. \A q \in Repos : 0 <= head[q]
      BY TypesAreNumbers DEF IInv, TInv, Numbers
    <2> QED
      BY <1>1, <1>2, <2>1, <2>2 DEF IInv, NothingFromTheFuture
  <1>5. UndisturbedHold'
    <2> SUFFICES ASSUME NEW v \in Workers, Working(v)', run'[v].alone PROVE Holds(v)'
      BY DEF UndisturbedHold
    <2>1. CASE v = w
      BY <1>1, <2>1 DEF Holds, Named
    <2>2. CASE v # w
      <3>1. Working(v) /\ run[v].alone
        BY <1>1, <2>2 DEF Working
      <3>2. Holds(v)
        BY <3>1 DEF IInv, UndisturbedHold
      <3> QED
        BY <1>1, <1>2, <2>2, <3>2 DEF Holds
    <2> QED
      BY <2>1, <2>2
  <1>6. SavedIsReadable' /\ NamesItsCommit' /\ CompletedIsFresh'
    <2>1. \A q \in Repos : ~raced'[q] => ~raced[q]
      BY <1>1
    <2>2. results.done \subseteq Repos
      BY DEF IInv, TInv, TypeOK
    <2> QED
      BY <1>2, <2>1, <2>2 DEF IInv, SavedIsReadable, NamesItsCommit, CompletedIsFresh, Readable
  <1> QED
    BY <1>3, <1>4, <1>5, <1>6 DEF IInv

\* Where the commits come from that a step of w writes down.
LEMMA Sources ==
  ASSUME TInv, NEW w \in Workers, Proceed(w) \/ Fail(w), NEW r, r = run[w].repo
  PROVE  /\ clone'[r].commit \in {0, head[r], clone[r].commit}
         /\ draft'[r].commit \in {0, draft[r].commit, run[w].commit}
         /\ report'[r].commit \in {0, report[r].commit, draft[r].commit, run[w].commit}
         /\ run'[w].commit \in {0, run[w].commit, clone[r].commit}
  <1>1. /\ r \in Repos /\ run[w] \in Call /\ TypeOK
        /\ clone \in [Repos -> Dir] /\ draft \in [Repos -> File] /\ report \in [Repos -> File]
        /\ run \in [Workers -> Call]
    BY ProceedEffect DEF TInv, TypeOK
  <1>2. /\ NoDir.commit = 0 /\ NoFile.commit = 0 /\ Empty.commit = 0 /\ Torn.commit = 0
        /\ Idle.commit = 0
    BY DEF NoDir, NoFile, Empty, Torn, Idle
  <1>3. ASSUME NEW dir, NEW rec, ChangesDir(w, dir, rec)
        PROVE  clone'[r] = dir /\ run'[w] = rec
    BY <1>1, <1>3 DEF ChangesDir
  <1>4. Breaks(w) => clone'[r].commit = 0 /\ run'[w].commit = 0
    BY <1>2, <1>3 DEF Breaks
  <1>5. CASE Clear(w)
    BY <1>1, <1>2, <1>3, <1>5 DEF Clear, fileVars, Call
  <1>6. CASE Clone(w)
    BY <1>1, <1>3, <1>4, <1>6 DEF Clone, fileVars, Call
  <1>7. CASE Fetch(w)
    BY <1>1, <1>3, <1>4, <1>7 DEF Fetch, fileVars, Call
  <1>8. CASE Name(w)
    BY <1>1, <1>2, <1>8 DEF Name, fileVars, Call
  <1>9. CASE OpenDraft(w)
    BY <1>1, <1>2, <1>9 DEF OpenDraft, Call
  <1>10. CASE WriteDraft(w)
    <2>1. \A old, f : f \in Written(w, old) => f.commit \in {0, run[w].commit}
      BY <1>2 DEF Written
    <2>2. \/ \E f \in Written(w, draft[r]) : draft' = [draft EXCEPT ![r] = f] /\ UNCHANGED report
          \/ \E f \in Written(w, report[r]) : report' = [report EXCEPT ![r] = f] /\ UNCHANGED draft
          \/ UNCHANGED <<draft, report>>
      BY <1>10 DEF WriteDraft
    <2>3. draft'[r].commit \in {0, draft[r].commit, run[w].commit}
      BY <1>1, <2>1, <2>2
    <2>4. report'[r].commit \in {0, report[r].commit, run[w].commit}
      BY <1>1, <2>1, <2>2
    <2>5. UNCHANGED clone /\ run'[w].commit = run[w].commit
      BY <1>1, <1>10 DEF WriteDraft, Call
    <2> QED
      BY <2>3, <2>4, <2>5
  <1>11. CASE RenameDraft(w)
    <2>1. CASE Breaks(w) /\ UNCHANGED fileVars
      BY <1>4, <2>1 DEF fileVars
    <2>2. CASE ~(Breaks(w) /\ UNCHANGED fileVars)
      <3>1. run'[w].commit = run[w].commit
        BY <1>1, <1>11, <2>2, RenameTypes
      <3>2. /\ report' = [report EXCEPT ![r] = draft[r]]
            /\ draft' = [draft EXCEPT ![r] = NoFile]
            /\ UNCHANGED clone
        BY <1>11, <2>2 DEF RenameDraft
      <3> QED
        BY <1>1, <1>2, <3>1, <3>2
    <2> QED
      BY <2>1, <2>2
  <1>12. CASE Trigger(w)
    BY <1>1, <1>12 DEF Trigger, fileVars, Call
  <1>13. CASE RemoveClone(w)
    BY <1>1, <1>2, <1>3, <1>13 DEF RemoveClone, fileVars
  <1>14. CASE Fail(w)
    <2>1. Breaks(w) \/ (run' = [run EXCEPT ![w] = Idle] /\ UNCHANGED clone)
      BY <1>14 DEF Fail
    <2>2. UNCHANGED <<draft, report>>
      BY <1>14 DEF Fail, fileVars
    <2> QED
      BY <1>1, <1>2, <1>4, <2>1, <2>2
  <1> QED
    BY <1>5, <1>6, <1>7, <1>8, <1>9, <1>10, <1>11, <1>12, <1>13, <1>14 DEF Proceed

\* Only a rename of an undisturbed call replaces a report that no race has touched,
\* and only the rescan's last step adds to what is completed.
LEMMA ReportChanges ==
  ASSUME IInv, NEW w \in Workers, Proceed(w) \/ Fail(w), NEW r, r = run[w].repo
  PROVE  /\ \/ raced'[r] = raced[r] /\ report'[r] = report[r]
            \/ raced'[r] /\ raced[r]
            \/ run[w].alone /\ run[w].pc = "rename" /\ report'[r] = draft[r]
         /\ ~run[w].alone => raced'[r] = raced[r]
         /\ results'.done \subseteq results.done
              \cup {q \in {r} : w = Rescan /\ run[w].pc = "remove" /\ report'[r] = report[r]
                                /\ raced'[r] = raced[r]}
  <1>1. /\ r \in Repos /\ run[w] \in Call /\ TypeOK /\ TInv /\ Working(w)
        /\ draft \in [Repos -> File] /\ report \in [Repos -> File] /\ raced \in [Repos -> BOOLEAN]
        /\ results \in [done : SUBSET Repos, since : [Repos -> Commits]]
    BY ProceedEffect DEF IInv, TInv, TypeOK
  <1>2. run[w].alone => Holds(w)
    BY <1>1 DEF IInv, UndisturbedHold
  <1>3. ~run[w].alone => raced[r]
    BY <1>1 DEF IInv, RacesAreNoted, AtWork, Working
  <1>9. Leaves(w, FALSE) => results'.done = results.done
    BY <1>1 DEF Leaves
  <1>4. Breaks(w) => results'.done = results.done
    BY <1>9 DEF Breaks
  <1>5. CASE RenameDraft(w)
    <2>1. CASE Breaks(w) /\ UNCHANGED fileVars
      BY <1>4, <2>1 DEF fileVars
    <2>2. CASE ~(Breaks(w) /\ UNCHANGED fileVars)
      <3>1. /\ report' = [report EXCEPT ![r] = draft[r]]
            /\ raced' = [raced EXCEPT ![r] = @ /\ ~run[w].alone]
            /\ UNCHANGED results /\ run[w].pc = "rename"
        BY <1>1, <1>5, <2>2 DEF RenameDraft
      <3>2. report'[r] = draft[r] /\ (raced'[r] <=> raced[r] /\ ~run[w].alone)
        BY <1>1, <3>1
      <3>3. raced[r] \in BOOLEAN /\ raced' \in [Repos -> BOOLEAN]
        BY <1>1, <3>1
      <3> QED
        BY <1>1, <1>3, <3>1, <3>2, <3>3
    <2> QED
      BY <2>1, <2>2
  <1>6. CASE WriteDraft(w)
    <2>1. UNCHANGED <<raced, results>> /\ run[w].pc = "write"
      BY <1>6 DEF WriteDraft
    <2>2. run[w].alone => report' = report
      BY <1>2, <1>6, <2>1 DEF WriteDraft, Holds
    <2> QED
      BY <1>3, <2>1, <2>2
  <1>7. CASE RemoveClone(w)
    <2>1. UNCHANGED <<report, raced>> /\ run[w].pc = "remove" /\ Leaves(w, TRUE)
      BY <1>7 DEF RemoveClone, fileVars
    <2>2. results'.done = results.done \/ (w = Rescan /\ results'.done = results.done \cup {r})
      BY <1>1, <2>1 DEF Leaves
    <2> QED
      BY <2>1, <2>2
  <1>8. CASE Clear(w) \/ Clone(w) \/ Fetch(w) \/ Name(w) \/ OpenDraft(w) \/ Trigger(w) \/ Fail(w)
    <2>1. UNCHANGED <<report, raced>>
      BY <1>8 DEF Clear, Clone, Fetch, Name, OpenDraft, Trigger, Fail, fileVars
    <2>2. results'.done = results.done
      BY <1>4, <1>8, <1>9 DEF Clear, Clone, Fetch, Name, OpenDraft, Trigger, Fail
    <2> QED
      BY <2>1, <2>2
  <1> QED
    BY <1>5, <1>6, <1>7, <1>8 DEF Proceed

\* What an undisturbed call has in its hands after a step of its own.
LEMMA OwnHold ==
  ASSUME IInv, NEW w \in Workers, Proceed(w) \/ Fail(w), Working(w)', run'[w].alone
  PROVE  Holds(w)'
  <1> DEFINE r == run[w].repo
  <1>1. /\ r \in Repos /\ run[w] \in Call /\ Working(w)
        /\ clone \in [Repos -> Dir] /\ draft \in [Repos -> File] /\ report \in [Repos -> File]
        /\ run \in [Workers -> Call]
    BY ProceedEffect DEF IInv, TInv, TypeOK
  <1>2. Idle.pc = "idle"
    BY DEF Idle
  <1>3. run'[w] # Idle
    BY <1>2 DEF Working
  <1>4. run[w].alone /\ run'[w].repo = r /\ results'.since = results.since /\ Holds(w)
    BY <1>1, <1>3, ProceedEffect DEF IInv, UndisturbedHold
  <1>5. ASSUME NEW dir, NEW rec, ChangesDir(w, dir, rec)
        PROVE  clone'[r] = dir /\ run'[w] = rec
    BY <1>1, <1>5 DEF ChangesDir
  <1>6. ~Breaks(w)
    BY <1>3, <1>5 DEF Breaks
  <1>7. CASE Clear(w) \/ Clone(w)
    <2>1. run'[w].pc \in {"clone", "fetch"}
      BY <1>1, <1>5, <1>6, <1>7 DEF Clear, Clone, Call
    <2> QED
      BY <2>1 DEF Holds, Named
  <1>8. CASE Fetch(w)
    <2>1. run'[w].pc = "name" /\ clone'[r].commit = head[r] /\ UNCHANGED <<report, results>>
      BY <1>1, <1>5, <1>6, <1>8 DEF Fetch, fileVars, Call
    <2>2. report[r].commit <= head[r] /\ results.since[r] <= head[r]
      BY <1>1 DEF IInv, NothingFromTheFuture
    <2> QED
      BY <1>4, <2>1, <2>2 DEF Holds, Named
  <1>9. CASE Name(w)
    <2> DEFINE named == [run[w] EXCEPT !.pc = "analyze", !.commit = clone[r].commit,
                                       !.tree = clone[r].commit]
    <2>1. UNCHANGED <<clone, report>> /\ run[w].pc = "name"
      BY <1>9 DEF Name, fileVars
    <2>2. run' # [run EXCEPT ![w] = Idle]
      BY <1>1, <1>3
    <2>3. run' = [run EXCEPT ![w] = named] /\ UNCHANGED results
      BY <1>9, <2>2 DEF Name
    <2>4. named.pc = "analyze" /\ named.commit = clone[r].commit /\ named.tree = clone[r].commit
      BY <1>1 DEF Call
    <2>5. run'[w] = named
      BY <1>1, <2>3
    <2> HIDE DEF named
    <2> QED
      BY <1>4, <2>1, <2>3, <2>4, <2>5 DEF Holds, Named
  <1>10. CASE OpenDraft(w)
    <2>1. /\ run'[w].pc = "write" /\ run'[w].fd = "draft" /\ draft'[r] = Empty
          /\ run'[w].commit = run[w].commit /\ run'[w].tree = run[w].tree
          /\ UNCHANGED <<clone, report, results>> /\ run[w].pc \in {"analyze", "answered"}
      BY <1>1, <1>10 DEF OpenDraft, Call
    <2> QED
      BY <1>4, <2>1 DEF Holds, Named
  <1>11. CASE WriteDraft(w)
    <2>1. /\ run'[w].pc = "rename" /\ run'[w].commit = run[w].commit /\ run'[w].tree = run[w].tree
          /\ UNCHANGED <<clone, results>> /\ run[w].pc = "write"
      BY <1>1, <1>11 DEF WriteDraft, Call
    <2>2. run[w].fd = "draft" /\ draft[r] = Empty
      BY <1>4, <2>1 DEF Holds
    <2>3. report' = report /\ \E f \in Written(w, draft[r]) : draft' = [draft EXCEPT ![r] = f]
      BY <1>11, <2>2 DEF WriteDraft
    <2>4. draft'[r] = [state |-> "whole", commit |-> run[w].commit, tree |-> run[w].tree]
      BY <1>1, <2>2, <2>3 DEF Written
    <2> QED
      BY <1>4, <2>1, <2>3, <2>4 DEF Holds, Named
  <1>12. CASE RenameDraft(w)
    <2>1. ~(Breaks(w) /\ UNCHANGED fileVars)
      BY <1>6
    <2>2. run[w].pc = "rename" /\ report' = [report EXCEPT ![r] = draft[r]] /\ UNCHANGED <<clone, results>>
      BY <1>12, <2>1 DEF RenameDraft
    <2>3. /\ run'[w].pc \in {"remove", "trigger"}
          /\ run'[w].commit = run[w].commit /\ run'[w].tree = run[w].tree
      BY <1>1, <1>12, <2>1, RenameTypes DEF IInv, TInv
    <2>4. report'[r] = [state |-> "whole", commit |-> run[w].commit, tree |-> run[w].tree]
      BY <1>1, <1>4, <2>2 DEF Holds
    <2>5. report'[r].state = "whole" /\ report'[r].commit = run[w].commit
      BY <2>4
    <2>6. run[w].commit <= run[w].commit
      BY TypesAreNumbers DEF IInv, TInv, Numbers
    <2> QED
      BY <1>4, <2>2, <2>3, <2>5, <2>6 DEF Holds, Named
  <1>13. CASE Trigger(w)
    <2>1. /\ run'[w].pc = "answered" /\ run'[w].commit = run[w].commit /\ run'[w].tree = run[w].tree
          /\ UNCHANGED <<clone, report, results>> /\ run[w].pc = "trigger"
      BY <1>1, <1>13 DEF Trigger, fileVars, Call
    <2> QED
      BY <1>4, <2>1 DEF Holds, Named
  <1>14. ~RemoveClone(w)
    <2> SUFFICES ASSUME RemoveClone(w) PROVE FALSE
      OBVIOUS
    <2>1. run'[w] = Idle
      BY <1>5 DEF RemoveClone
    <2> QED
      BY <1>3, <2>1
  <1>15. ~Fail(w)
    <2> SUFFICES ASSUME Fail(w) PROVE FALSE
      OBVIOUS
    <2>1. run' = [run EXCEPT ![w] = Idle]
      BY <1>6 DEF Fail
    <2> QED
      BY <1>1, <1>3, <2>1
  <1> QED
    BY <1>7, <1>8, <1>9, <1>10, <1>11, <1>12, <1>13, <1>14, <1>15 DEF Proceed

LEMMA ProceedStep ==
  ASSUME IInv, TInv', NEW w \in Workers, Proceed(w) \/ Fail(w)
  PROVE  IInv'
  <1> DEFINE r == run[w].repo
  <1>1. /\ Working(w) /\ r \in Repos
        /\ head' = head /\ on' = on /\ results'.since = results.since
        /\ \/ run'[w] = Idle
           \/ run'[w].repo = r /\ run'[w].alone = run[w].alone /\ Working(w)'
        /\ \A v \in Workers \ {w} :
             /\ run'[v].pc = run[v].pc /\ run'[v].repo = run[v].repo
             /\ run'[v].commit = run[v].commit /\ run'[v].alone = run[v].alone
             /\ run[v].repo # r => run'[v] = run[v]
        /\ \A q \in Repos \ {r} :
             /\ clone'[q] = clone[q] /\ draft'[q] = draft[q] /\ report'[q] = report[q]
             /\ raced'[q] = raced[q] /\ (q \in results'.done <=> q \in results.done)
    BY ProceedEffect DEF IInv
  <1>2. Idle.pc = "idle" /\ Idle.repo = NoRepo /\ Idle.commit = 0
    BY DEF Idle
  <1>3. /\ \/ raced'[r] = raced[r] /\ report'[r] = report[r]
           \/ raced'[r] /\ raced[r]
           \/ run[w].alone /\ run[w].pc = "rename" /\ report'[r] = draft[r]
        /\ ~run[w].alone => raced'[r] = raced[r]
        /\ results'.done \subseteq results.done
             \cup {q \in {r} : w = Rescan /\ run[w].pc = "remove" /\ report'[r] = report[r]
                               /\ raced'[r] = raced[r]}
    BY ReportChanges
  <1>4. run[w].alone => Holds(w)
    BY <1>1 DEF IInv, UndisturbedHold
  <1>5. ~run[w].alone => raced[r]
    BY <1>1 DEF IInv, RacesAreNoted, AtWork, Working
  <1>6. RescanRests'
    <2>1. CASE w = Rescan
      BY <1>1, <1>2, <2>1 DEF IInv, RescanRests, Working
    <2>2. CASE w # Rescan
      BY <1>1, <2>2, Constants DEF IInv, RescanRests
    <2> QED
      BY <2>1, <2>2
  <1>7. \A v \in Workers, q \in Repos : AtWork(v, q)' => AtWork(v, q) /\ run'[v].alone = run[v].alone
    BY <1>1, <1>2 DEF AtWork, Working
  <1>8. RacesAreNoted'
    <2> SUFFICES ASSUME NEW v \in Workers, NEW q \in Repos, AtWork(v, q)'
                 PROVE  (run'[v].alone => Rivals(v, q)' = {}) /\ (~run'[v].alone => raced'[q])
      BY DEF RacesAreNoted
    <2>1. Rivals(v, q)' \subseteq Rivals(v, q) /\ AtWork(v, q) /\ run'[v].alone = run[v].alone
      BY <1>7 DEF Rivals
    <2>2. ASSUME ~run[v].alone, q = r PROVE ~run[w].alone
      BY <1>1, <2>1, <2>2, OnlyOne DEF IInv, AtWork, Working
    <2>3. ~run[v].alone => raced[q]
      BY <2>1 DEF IInv, RacesAreNoted
    <2>4. ~run[v].alone => raced'[q]
      BY <1>1, <1>3, <2>2, <2>3
    <2> QED
      BY <2>1, <2>4 DEF IInv, RacesAreNoted
  <1>9. NothingFromTheFuture'
    <2>1. \A q \in Repos : 0 <= head[q]
      BY TypesAreNumbers DEF IInv, TInv, Numbers
    <2>2. /\ clone'[r].commit \in {0, head[r], clone[r].commit}
          /\ draft'[r].commit \in {0, draft[r].commit, run[w].commit}
          /\ report'[r].commit \in {0, report[r].commit, draft[r].commit, run[w].commit}
          /\ run'[w].commit \in {0, run[w].commit, clone[r].commit}
      BY Sources DEF IInv
    <2>3. head[r] <= head[r]
      BY <1>1, TypesAreNumbers DEF IInv, TInv, Numbers
    <2>4. \A q \in Repos : /\ clone'[q].commit <= head'[q] /\ draft'[q].commit <= head'[q]
                           /\ report'[q].commit <= head'[q] /\ results'.since[q] <= head'[q]
      BY <1>1, <2>1, <2>2, <2>3 DEF IInv, NothingFromTheFuture
    <2>5. \A v \in Workers : run'[v].repo \in Repos => run'[v].commit <= head'[run'[v].repo]
      BY <1>1, <1>2, <2>1, <2>2, Constants DEF IInv, NothingFromTheFuture
    <2> QED
      BY <2>4, <2>5 DEF NothingFromTheFuture
  <1>10. UndisturbedHold'
    <2> SUFFICES ASSUME NEW v \in Workers, Working(v)', run'[v].alone PROVE Holds(v)'
      BY DEF UndisturbedHold
    <2>1. CASE v = w
      BY <2>1, OwnHold
    <2>2. CASE v # w
      <3>1. Working(v) /\ run[v].alone /\ run[v].repo \in Repos
        BY <1>1, <2>2 DEF Working, IInv, TInv, CallsHaveRepos
      <3>2. run[v].repo # r
        BY <1>1, <2>2, <3>1, OnlyOne DEF IInv
      <3>3. Holds(v)
        BY <3>1 DEF IInv, UndisturbedHold
      <3> QED
        BY <1>1, <2>2, <3>1, <3>2, <3>3 DEF Holds
    <2> QED
      BY <2>1, <2>2
  <1>11. run[w].alone /\ run[w].pc = "rename" =>
           draft[r].state = "whole" /\ draft[r].commit = run[w].commit /\ draft[r].tree = run[w].commit
    BY <1>4 DEF Holds, Named
  <1>12. SavedIsReadable' /\ NamesItsCommit'
    <2> SUFFICES ASSUME NEW q \in Repos, ~raced'[q]
                 PROVE  /\ report'[q].state \in {"absent", "whole"}
                        /\ report'[q].state = "whole" => report'[q].tree = report'[q].commit
      BY DEF SavedIsReadable, NamesItsCommit, Readable
    <2> QED
      BY <1>1, <1>3, <1>11 DEF IInv, SavedIsReadable, NamesItsCommit, Readable
  <1>13. CompletedIsFresh'
    <2> SUFFICES ASSUME NEW q \in results'.done, ~raced'[q]
                 PROVE  report'[q].state = "whole" /\ report'[q].commit >= results'.since[q]
      BY DEF CompletedIsFresh, Readable
    <2>1. q \in Repos /\ Numbers
      BY <1>3, <1>1, TypesAreNumbers DEF IInv, TInv, TypeOK
    <2>2. CASE q # r
      BY <1>1, <2>1, <2>2 DEF IInv, CompletedIsFresh, Readable
    <2>3. CASE q = r /\ q \in results.done
      <3>1. CASE raced'[r] = raced[r] /\ report'[r] = report[r]
        BY <1>1, <2>3, <3>1 DEF IInv, CompletedIsFresh, Readable
      <3>2. CASE run[w].alone /\ run[w].pc = "rename" /\ report'[r] = draft[r]
        <4>1. results.since[r] <= run[w].commit
          BY <1>4, <2>3, <3>2 DEF Holds, Named
        <4> QED
          BY <1>1, <1>11, <2>1, <2>3, <3>2, <4>1 DEF Numbers
      <3> QED
        BY <1>3, <2>3, <3>1, <3>2
    <2>4. CASE q = r /\ q \notin results.done
      <3>1. w = Rescan /\ run[w].pc = "remove" /\ report'[r] = report[r] /\ raced'[r] = raced[r]
        BY <1>3, <2>4
      <3>2. run[w].alone
        BY <1>5, <2>4, <3>1
      <3>3. report[r].state = "whole" /\ report[r].commit = run[w].commit /\ results.since[r] <= run[w].commit
        BY <1>4, <3>1, <3>2 DEF Holds, Named
      <3> QED
        BY <1>1, <2>1, <2>4, <3>1, <3>3 DEF Numbers
    <2> QED
      BY <2>2, <2>3, <2>4
  <1> QED
    BY <1>6, <1>8, <1>9, <1>10, <1>12, <1>13 DEF IInv

LEMMA InitHolds == Init => IInv
  <1> SUFFICES ASSUME Init PROVE IInv
    OBVIOUS
  <1>1. TInv /\ Numbers
    BY TypeInit, TypesAreNumbers DEF TInv
  <1>2. \A w \in Workers : run[w].pc = "idle" /\ run[w].repo = NoRepo
    BY Values DEF Init
  <1>3. \A w \in Workers : ~Working(w) /\ \A r \in Repos : ~AtWork(w, r)
    BY <1>2 DEF Working, AtWork
  <1>4. \A r \in Repos : /\ clone[r].commit = 0 /\ draft[r].commit = 0 /\ report[r].commit = 0
                         /\ report[r].state = "absent" /\ head[r] = 1 /\ results.since[r] = 1
    BY DEF Init, NoDir, NoFile
  <1>5. RescanRests /\ RacesAreNoted /\ UndisturbedHold
    BY <1>2, <1>3, Constants DEF RescanRests, RacesAreNoted, UndisturbedHold
  <1>6. NothingFromTheFuture
    BY <1>2, <1>4, Constants DEF NothingFromTheFuture
  <1>7. SavedIsReadable /\ NamesItsCommit /\ CompletedIsFresh
    <2>1. results.done = {}
      BY DEF Init
    <2> QED
      BY <1>4, <2>1 DEF SavedIsReadable, NamesItsCommit, CompletedIsFresh, Readable
  <1> QED
    BY <1>1, <1>5, <1>6, <1>7 DEF IInv

LEMMA Inductive == IInv /\ [Next]_vars => IInv'
  <1> SUFFICES ASSUME IInv, [Next]_vars PROVE IInv'
    OBVIOUS
  <1>1. TInv /\ RescanRests /\ TInv'
    BY TypeStep DEF IInv
  <1>2. CASE Aside
    BY <1>1, <1>2, AsideStep
  <1>3. CASE (\E t \in Threads : Enter(t)) \/ (\E r \in Repos : NextProject(r))
    <2>1. RescanRests' /\ \E w \in Workers, r \in Repos : Begins(w, r)
      BY <1>1, <1>3, BeginsEffect
    <2> QED
      BY <1>1, <2>1, BeginsStep
  <1>4. CASE \E w \in Workers : Proceed(w) \/ Fail(w)
    BY <1>1, <1>4, ProceedStep
  <1> QED
    BY <1>2, <1>3, <1>4, ThreeKinds

LEMMA Invariant == Spec => []IInv
  BY InitHolds, Inductive, PTL DEF Spec

\* A saved report can always be read, unless both processes were at work on that
\* repository at once (server.py:57-63).
THEOREM SavedReadable == Spec => []SavedIsReadable
  BY Invariant, PTL DEF IInv

\* A saved report names the commit of the tree that was analysed, with the same
\* exception (README.md:27-28, server.py:104-112).
THEOREM CommitNamed == Spec => []NamesItsCommit
  BY Invariant, PTL DEF IInv

\* What the rescan reports as completed shows a commit no older than the one that
\* was current when it began, with the same exception (rescan.py:31-48).
THEOREM CompletedFresh == Spec => []CompletedIsFresh
  BY Invariant, PTL DEF IInv

\* No step replaces a readable report by one of an older commit, with the same
\* exception (server.py:57-63): the one rename that does not race carries what its
\* call named, which is no older than the saved one.
THEOREM NoStepBack == Spec => NeverStepsBack
  <1> DEFINE Forward == \A r \in Repos : Readable(r) /\ Readable(r)' /\ ~raced'[r] =>
                          report'[r].commit >= report[r].commit
  <1>1. IInv /\ [Next]_vars => [Forward]_vars
    <2> SUFFICES ASSUME IInv, [Next]_vars, NEW q \in Repos, ~raced'[q]
                 PROVE  report'[q].commit >= report[q].commit
      BY DEF Forward
    <2>1. Numbers /\ TInv /\ RescanRests
      BY TypesAreNumbers DEF IInv, TInv
    <2>2. report' = report => report'[q].commit >= report[q].commit
      BY <2>1 DEF Numbers
    <2>3. CASE Aside
      BY <2>1, <2>2, <2>3, AsideEffect
    <2>4. CASE (\E t \in Threads : Enter(t)) \/ (\E r \in Repos : NextProject(r))
      <3>1. \E w \in Workers, r \in Repos : Begins(w, r)
        BY <2>1, <2>4, BeginsEffect
      <3> QED
        BY <2>2, <3>1 DEF Begins
    <2>5. ASSUME NEW w \in Workers, Proceed(w) \/ Fail(w)
          PROVE  report'[q].commit >= report[q].commit
      <3>1. /\ Working(w)
            /\ q # run[w].repo => report'[q] = report[q]
        BY <2>1, <2>5, ProceedEffect
      <3>2. CASE report'[q] = report[q]
        BY <2>1, <3>2 DEF Numbers
      <3>3. CASE q = run[w].repo /\ report'[q] # report[q]
        <4>1. run[w].alone /\ run[w].pc = "rename" /\ report'[q] = draft[q]
          BY <2>5, <3>3, ReportChanges
        <4>2. Holds(w)
          BY <3>1, <4>1 DEF IInv, UndisturbedHold
        <4>3. draft[q].commit = run[w].commit /\ report[q].commit <= run[w].commit
          BY <3>3, <4>1, <4>2 DEF Holds, Named
        <4> QED
          BY <2>1, <4>1, <4>3 DEF Numbers
      <3> QED
        BY <3>1, <3>2, <3>3
    <2> QED
      BY <2>3, <2>4, <2>5, ThreeKinds
  <1> QED
    BY <1>1, Invariant, PTL DEF Spec, NeverStepsBack
=============================================================================
