----------------------------- MODULE ToolBuild -----------------------------
(***************************************************************************)
(* How parallel indexing processes share the one compiled helper tool of a *)
(* language frontend: _build_tool and _compile_tool of the Java, Go and C# *)
(* frontends over acquire_build_lock (src/codebase_rag/parsers/            *)
(* build_lock.py).  The lock is a flock on a file that is never removed;   *)
(* the kernel gives it back when its holder dies.  Versions before it made *)
(* a directory of the same name, which may still be there, with or without *)
(* a living builder.                                                       *)
(*                                                                         *)
(* The Java frontend compiles into a staging directory and publishes it by *)
(* a rename; the Go and C# frontends let the compiler write to the place   *)
(* the tool is run from.  `language' says which of the two is looked at.   *)
(*                                                                         *)
(* A killed process takes its compiler with it.  At most one builder of an *)
(* old version ever runs; what it compiles is left out.                    *)
(***************************************************************************)
EXTENDS Naturals

CONSTANTS
  Workers,  \* indexing processes
  NoWorker, \* nobody holds the flock
  Tries,    \* _LOCK_TRIES
  MaxKills  \* bound: processes killed

ASSUME NoWorkerAssumption == NoWorker \notin Workers
ASSUME TriesAssumption == Tries \in Nat \ {0}
ASSUME MaxKillsAssumption == MaxKills \in Nat

VARIABLES
  language, \* "java", or "go" for a frontend without staging; never changes
  path,     \* what is at the path of the lock
  older,    \* the old version's builder: absent, about to write its pid, building, or dead
  pidFile,  \* whether the old version's directory holds a pid
  aged,     \* whether that directory is older than _LEGACY_STALE_SECONDS
  holder,   \* who has the flock
  tool,     \* what is run: nothing, a build of older sources, a torn build or a whole one
  staging,  \* the staging directory
  proc,     \* each process: where it is, whether it has opened the lock file, tries left
  kills     \* processes killed so far

lockVars  == <<path, older, pidFile, aged>>
toolVars  == <<tool, staging>>
buildVars == <<language, path, older, pidFile, aged, holder, tool, staging, proc, kills>>

Waiting  == {"judge", "clear", "open", "try", "sleep"}
Holding  == {"held", "compile", "write", "publish", "rename", "release", "fail"}
Ended    == {"done", "without"}

Process == [pc : {"idle", "quit", "final", "launch"} \cup Waiting \cup Holding \cup Ended,
            fd : BOOLEAN, left : 0..Tries]

BuildTypeOK ==
  /\ language \in {"java", "go"}
  /\ path \in {"none", "file", "dir"}
  /\ older \in {"none", "starting", "building", "dead"}
  /\ pidFile \in BOOLEAN /\ aged \in BOOLEAN
  /\ holder \in Workers \cup {NoWorker}
  /\ tool \in {"none", "old", "torn", "whole"}
  /\ staging \in {"none", "empty", "torn", "whole"}
  /\ proc \in [Workers -> Process]
  /\ kills \in 0..MaxKills

BuildInit ==
  /\ language \in {"java", "go"}
  /\ \/ path = "none" /\ older = "none" /\ pidFile = FALSE
     \/ path = "dir" /\ older \in {"starting", "building", "dead"}
        /\ pidFile \in (IF older = "dead" THEN BOOLEAN ELSE {older = "building"})
  /\ aged = FALSE
  /\ holder = NoWorker
  /\ tool \in {"none", "old"} /\ staging = "none"
  /\ proc = [w \in Workers |-> [pc |-> "idle", fd |-> FALSE, left |-> Tries]]
  /\ kills = 0

At(w, pc) == proc[w].pc = pc
GoTo(w, pc) == proc' = [proc EXCEPT ![w].pc = pc]

\* _class_fresh, _binary_fresh, _dll_fresh: the file is there and no older than its sources.
Fresh == tool \in {"torn", "whole"}

-----------------------------------------------------------------------------
(* _build_tool up to the lock, and the loop of acquire_build_lock *)

\* The first look, without the lock.  A process that has ended may come again.
Begin(w) ==
  /\ proc[w].pc \in Ended \cup {"idle"}
  /\ proc' = [proc EXCEPT ![w] = [pc |-> IF Fresh THEN "launch" ELSE "judge",
                                  fd |-> FALSE, left |-> Tries]]
  /\ UNCHANGED <<language, lockVars, holder, toolVars, kills>>

\* The age of the directory alone.
StaleByAge == aged

\* _legacy_holder_state and _legacy_dir_expired: a pid of a living process keeps the directory,
\* one of a dead process does not, and without a pid the age decides.
Stale == IF pidFile THEN older = "dead" ELSE aged

\* _clear_stale_legacy_lock_dir looks and then removes what is there by then.
Judge(w) ==
  /\ At(w, "judge")
  /\ GoTo(w, IF path = "dir" /\ Stale THEN "clear" ELSE "open")
  /\ UNCHANGED <<language, lockVars, holder, toolVars, kills>>

Clear(w) ==
  /\ At(w, "clear")
  /\ path' = IF path = "dir" THEN "none" ELSE path
  /\ pidFile' = FALSE
  /\ GoTo(w, "open")
  /\ UNCHANGED <<language, older, aged, holder, toolVars, kills>>

\* A directory cannot be opened; the next round tries again.
OpenFile(w) ==
  /\ At(w, "open")
  /\ path' = IF path = "dir" THEN "dir" ELSE "file"
  /\ proc' = [proc EXCEPT ![w].fd = (path # "dir"),
                          ![w].pc = IF path = "dir" THEN "sleep" ELSE "try"]
  /\ UNCHANGED <<language, older, pidFile, aged, holder, toolVars, kills>>

TryLock(w) ==
  /\ At(w, "try")
  /\ \/ holder = NoWorker /\ holder' = w /\ GoTo(w, "held")
     \/ holder # NoWorker /\ GoTo(w, "sleep") /\ UNCHANGED holder
  /\ UNCHANGED <<language, lockVars, toolVars, kills>>

\* A waiter that does not count its tries.
WakeUpAgain(w) ==
  /\ At(w, "sleep")
  /\ proc' = [proc EXCEPT ![w] = IF Fresh THEN [@ EXCEPT !.pc = "quit", !.fd = FALSE]
                                 ELSE [@ EXCEPT !.pc = IF proc[w].fd THEN "try" ELSE "judge"]]
  /\ UNCHANGED <<language, lockVars, holder, toolVars, kills>>

\* After the pause: another process may have built the tool, or the tries are over.
WakeUp(w) ==
  /\ At(w, "sleep")
  /\ LET left  == proc[w].left - 1
         again == IF proc[w].fd THEN "try" ELSE "judge" IN
     proc' = [proc EXCEPT ![w] = IF Fresh THEN [@ EXCEPT !.pc = "quit", !.fd = FALSE]
                                 ELSE IF left = 0 THEN [pc |-> "quit", fd |-> FALSE, left |-> 0]
                                 ELSE [@ EXCEPT !.pc = again, !.left = left]]
  /\ UNCHANGED <<language, lockVars, holder, toolVars, kills>>

\* Without the lock, or after it was given back: the tool that is there, or none.
LookAgain(w) ==
  /\ proc[w].pc \in {"quit", "final"}
  /\ GoTo(w, IF Fresh THEN "launch" ELSE "without")
  /\ UNCHANGED <<language, lockVars, holder, toolVars, kills>>

Launch(w) ==
  /\ At(w, "launch")
  /\ GoTo(w, "done")
  /\ UNCHANGED <<language, lockVars, holder, toolVars, kills>>

-----------------------------------------------------------------------------
(* With the lock *)

\* A build that does not look again.
BuildWithoutLooking(w) ==
  /\ At(w, "held")
  /\ GoTo(w, "compile")
  /\ staging' = IF language = "java" THEN "empty" ELSE staging
  /\ UNCHANGED <<language, lockVars, holder, tool, kills>>

\* Somebody may have built the tool before the lock was free.  Staging is emptied first.
Recheck(w) ==
  /\ At(w, "held")
  /\ GoTo(w, IF Fresh THEN "release" ELSE "compile")
  /\ staging' = IF ~Fresh /\ language = "java" THEN "empty" ELSE staging
  /\ UNCHANGED <<language, lockVars, holder, tool, kills>>

\* No staging directory for any language.
WritesInPlace(w) ==
  /\ At(w, "compile")
  /\ tool' = "torn"
  /\ GoTo(w, "write")
  /\ UNCHANGED <<language, lockVars, holder, staging, kills>>

\* The compiler has begun to write its output.
CompilerWrites(w) ==
  /\ At(w, "compile")
  /\ \/ language = "java" /\ staging' = "torn" /\ UNCHANGED tool
     \/ language = "go" /\ tool' = "torn" /\ UNCHANGED staging
  /\ GoTo(w, "write")
  /\ UNCHANGED <<language, lockVars, holder, kills>>

CompilerEnds(w) ==
  /\ At(w, "write")
  /\ \/ language = "java" /\ staging' = "whole" /\ GoTo(w, "publish") /\ UNCHANGED tool
     \/ language = "go" /\ tool' = "whole" /\ GoTo(w, "release") /\ UNCHANGED staging
  /\ UNCHANGED <<language, lockVars, holder, kills>>

\* A compiler error, or the timeout of the Java frontend.
CompilerFails(w) ==
  /\ proc[w].pc \in {"compile", "write"}
  /\ staging' = IF language = "java" THEN "none" ELSE staging
  /\ GoTo(w, "fail")
  /\ UNCHANGED <<language, lockVars, holder, tool, kills>>

RemoveOld(w) ==
  /\ At(w, "publish")
  /\ tool' = "none"
  /\ GoTo(w, "rename")
  /\ UNCHANGED <<language, lockVars, holder, staging, kills>>

Publish(w) ==
  /\ At(w, "rename")
  /\ tool' = staging /\ staging' = "none"
  /\ GoTo(w, "release")
  /\ UNCHANGED <<language, lockVars, holder, kills>>

PublishFails(w) ==
  /\ At(w, "rename")
  /\ staging' = "none"
  /\ GoTo(w, "fail")
  /\ UNCHANGED <<language, lockVars, holder, tool, kills>>

Release(w) ==
  /\ proc[w].pc \in {"release", "fail"}
  /\ holder' = NoWorker
  /\ proc' = [proc EXCEPT ![w] = [@ EXCEPT !.pc = IF At(w, "fail") THEN "without" ELSE "final",
                                           !.fd = FALSE]]
  /\ UNCHANGED <<language, lockVars, toolVars, kills>>

-----------------------------------------------------------------------------
(* What happens to the processes, and the builder of the old version *)

\* The kernel closes the descriptors of a killed process.  A later process takes its place.
Kill(w) ==
  /\ kills < MaxKills /\ ~ At(w, "idle")
  /\ kills' = kills + 1
  /\ holder' = IF holder = w THEN NoWorker ELSE holder
  /\ proc' = [proc EXCEPT ![w] = [pc |-> "idle", fd |-> FALSE, left |-> Tries]]
  /\ UNCHANGED <<language, lockVars, toolVars>>

\* At once, or never: some versions did not write it.
OldWritesPid ==
  /\ older = "starting" /\ path = "dir" /\ ~aged
  /\ older' = "building" /\ pidFile' = TRUE
  /\ UNCHANGED <<language, path, aged, holder, toolVars, proc, kills>>

OldEnds ==
  /\ older \in {"starting", "building"}
  /\ older' = "none"
  /\ path' = IF path = "dir" THEN "none" ELSE path
  /\ pidFile' = FALSE
  /\ UNCHANGED <<language, aged, holder, toolVars, proc, kills>>

OldDies ==
  /\ older \in {"starting", "building"}
  /\ older' = "dead"
  /\ UNCHANGED <<language, path, pidFile, aged, holder, toolVars, proc, kills>>

DirectoryAges ==
  /\ path = "dir" /\ ~aged
  /\ aged' = TRUE
  /\ UNCHANGED <<language, path, older, pidFile, holder, toolVars, proc, kills>>

-----------------------------------------------------------------------------
Waits(w)    == Judge(w) \/ Clear(w) \/ OpenFile(w) \/ TryLock(w) \/ WakeUp(w)
Compiles(w) == CompilerWrites(w) \/ CompilerEnds(w) \/ CompilerFails(w)
Builds(w)   == Recheck(w) \/ RemoveOld(w) \/ Publish(w) \/ PublishFails(w) \/ Release(w)
Goes(w)     == Waits(w) \/ Builds(w) \/ LookAgain(w) \/ Launch(w)
OldBuilder  == OldWritesPid \/ OldEnds \/ OldDies \/ DirectoryAges

BuildNext ==
  \/ \E w \in Workers : Begin(w) \/ Goes(w) \/ Compiles(w) \/ Kill(w)
  \/ OldBuilder

\* A process goes on by itself.  Only the Java frontend gives its compiler a timeout.
BuildFairness ==
  \A w \in Workers : WF_buildVars(Goes(w)) /\ WF_buildVars(language = "java" /\ Compiles(w))

BuildSpec == BuildInit /\ [][BuildNext]_buildVars /\ BuildFairness

-----------------------------------------------------------------------------
(* Properties *)

\* What a process of the Java frontend is about to run was compiled to its end, and a tool that
\* a waiting process saw is still there when it looks again: whoever was killed in a build, and
\* whoever looks without the lock (java_frontend/frontend.py _compile_tool).
LaunchedIsWhole ==
  \A w \in Workers :
    language = "java" /\ (At(w, "launch") \/ (At(w, "quit") /\ proc[w].left > 0))
      => tool = "whole"

\* A whole tool is never torn up or removed again: the processes that waited for its build do not
\* build a second time under those that run it (build_lock.py, _build_tool).
WholeStays == [][tool = "whole" => tool' = "whole"]_buildVars

\* A living builder of an old version which has told its pid is never built beside
\* (build_lock.py _clear_stale_legacy_lock_dir).
OldBuilderIsRespected ==
  older = "building" => \A w \in Workers : proc[w].pc \notin Holding

\* Every process that came for the tool ends with it or without it, unless it sits in a compiler
\* that has no timeout; nobody waits for ever for a lock (build_lock.py acquire_build_lock).
EverybodyEnds ==
  \A w \in Workers :
    ~ At(w, "idle") ~> \/ proc[w].pc \in Ended \cup {"idle"}
                       \/ language = "go" /\ proc[w].pc \in {"compile", "write"}

=============================================================================
