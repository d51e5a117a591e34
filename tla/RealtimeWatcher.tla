-------------------------- MODULE RealtimeWatcher --------------------------
(***************************************************************************)
(* The real-time updater (src/realtime_updater.py).  watchdog's observer   *)
(* thread hands every file event to CodeChangeEventHandler.dispatch, which *)
(* keeps the last event of each file and (re)starts the file's debounce    *)
(* timer.  A timer's thread takes the event that is pending when it gets   *)
(* `lock' and then updates the graph under `_update_lock': delete what the *)
(* file had, parse it, delete all CALLS edges, recompute them for the      *)
(* parsed files, flush.                                                    *)
(*                                                                         *)
(* The content of a file is a version number, 0 when there is no such      *)
(* file.  The graph holds, for each file, the versions its nodes come      *)
(* from, and the versions its outgoing CALLS edges come from.  A File node *)
(* made for a file that is gone or could not be parsed, with the rows its  *)
(* parse left behind, counts as a node of version 0.                       *)
(*                                                                         *)
(* Left out: files the filter ignores, directories, the language           *)
(* frontends, and flushes that the batch size triggers early, where they   *)
(* succeed: they write the same nodes and edges in the same order as the   *)
(* final one.  One recomputation reads all the files it has to at once.    *)
(***************************************************************************)
EXTENDS Integers, Sequences, SequencesExt

CONSTANTS
  Files,      \* watched files
  Delays,     \* the values of debounce_seconds, in ticks; 0 is no debouncing
  MaxWait,    \* max_wait_seconds, in ticks
  Inotify,    \* whether the observer is the one of Linux
  Warm,       \* whether updater.run() indexed every file, or found its cache in sync
  MaxEdits,   \* bound: changes of files, and faults, together
  MaxFaults,  \* bound: failed calls and parses, and changes the observer does not report
  NoTimer     \* no timer of the file is running

ASSUME FilesAssumption == Files # {}
ASSUME DelaysAssumption == Delays \subseteq Nat /\ MaxWait \in Nat
ASSUME TimerAssumption == NoTimer \notin Int
ASSUME BoundsAssumption == MaxEdits \in Nat /\ MaxFaults \in Nat
ASSUME FlagsAssumption == Warm \in BOOLEAN /\ Inotify \in BOOLEAN

Kinds == {"modified", "created", "deleted", "closed"}

\* The events that _process_change_locked acts on.
Relevant == {"modified", "created", "deleted"}

Versions == 0..(MaxEdits + 1)
Ticks == 0..MaxWait

VARIABLES
  debounce,  \* debounce_seconds
  disk,      \* the content of each file
  edits,     \* changes so far
  queue,     \* events the observer has not dispatched yet
  observing, \* whether the observer's thread lives
  pending,   \* pending_events: the last event of each file, "none" when there is none
  age,       \* time since first_event_time, as far as MaxWait
  timer,     \* the time the timer registered in `timers' still has to run
  orphans,   \* timers that run although `timers' has forgotten them
  fired,     \* threads of each file's timers that wait for `lock'
  waiting,   \* events whose threads wait for `_update_lock', in the order they were taken
  update,    \* the update that holds `_update_lock'
  parsed,    \* _parsed_files: the files the call pass goes over
  tree,      \* ast_cache: the version of each file's tree, 0 when it holds none
  nodes,     \* the graph: versions each file's nodes come from
  calls,     \* the graph: versions each file's outgoing CALLS edges come from
  buffer,    \* what the ingestor has not flushed yet
  faults,    \* faults so far
  strayed,   \* history: files with an unreported change, a failed update, or an update overtaken
  botched     \* history: an update failed, and none has begun with an empty buffer since

vars == <<debounce, disk, edits, queue, observing, pending, age, timer, orphans, fired, waiting,
          update, parsed, tree, nodes, calls, buffer, faults, strayed, botched>>

diskVars  == <<debounce, disk, edits>>
timerVars == <<pending, age, timer, orphans, fired>>
graphVars == <<parsed, tree, nodes, calls, buffer, botched>>

Event == [file : Files, kind : Kinds]
NoUpdate == [pc |-> "free", event |-> [file |-> CHOOSE f \in Files : TRUE, kind |-> "closed"]]
Empty == [f \in Files |-> {}]
EmptyBuffer == [nodes |-> Empty, calls |-> Empty]

TypeOK ==
  /\ debounce \in Delays
  /\ disk \in [Files -> Versions] /\ edits \in 0..MaxEdits
  /\ queue \in Seq(Event)
  /\ pending \in [Files -> Kinds \cup {"none"}]
  /\ age \in [Files -> Ticks]
  /\ timer \in [Files -> Ticks \cup {NoTimer}]
  /\ orphans \in [Files -> Seq(Ticks)]
  /\ fired \in [Files -> Nat]
  /\ waiting \in Seq(Event)
  /\ update \in [pc : {"free", "delete", "parse", "calls", "flush"}, event : Event]
  /\ observing \in BOOLEAN
  /\ parsed \subseteq Files /\ tree \in [Files -> Versions]
  /\ nodes \in [Files -> SUBSET Versions] /\ calls \in [Files -> SUBSET Versions]
  /\ buffer \in [nodes : [Files -> SUBSET Versions], calls : [Files -> SUBSET Versions]]
  /\ faults \in 0..MaxFaults /\ strayed \subseteq Files /\ botched \in BOOLEAN

\* What the graph should hold of a file.
Current(f) == {disk[f]} \ {0}

\* The initial scan is over and the graph is current.  If it found the cache in
\* sync it parsed nothing.
Init ==
  /\ debounce \in Delays
  /\ disk \in [Files -> {0, 1}] /\ edits = 0
  /\ queue = <<>>
  /\ pending = [f \in Files |-> "none"]
  /\ age = [f \in Files |-> 0]
  /\ timer = [f \in Files |-> NoTimer]
  /\ orphans = [f \in Files |-> <<>>]
  /\ fired = [f \in Files |-> 0]
  /\ waiting = <<>>
  /\ update = NoUpdate
  /\ observing = TRUE
  /\ parsed = IF Warm THEN {f \in Files : disk[f] # 0} ELSE {}
  /\ tree = [f \in Files |-> IF f \in parsed THEN disk[f] ELSE 0]
  /\ nodes = [f \in Files |-> Current(f)]
  /\ calls = nodes
  /\ buffer = EmptyBuffer
  /\ faults = 0 /\ strayed = {} /\ botched = FALSE

Fault ==
  /\ faults < MaxFaults /\ edits + faults < MaxEdits
  /\ faults' = faults + 1

-----------------------------------------------------------------------------
(* Changes of files *)

Writes(f, version, events) ==
  /\ edits + faults < MaxEdits
  /\ edits' = edits + 1
  /\ disk' = [disk EXCEPT ![f] = version]
  /\ queue' = queue \o [i \in 1..Len(events) |-> [file |-> f, kind |-> events[i]]]
  /\ UNCHANGED <<debounce, observing, timerVars, waiting, update, graphVars>>

\* inotify reports the closing of a file after its writing, the others do not.
Trail == IF Inotify THEN <<"closed">> ELSE <<>>

Modify(f) ==
  /\ disk[f] # 0
  /\ Writes(f, edits + 2, <<"modified">> \o Trail)
  /\ UNCHANGED <<faults, strayed>>

Create(f) ==
  /\ disk[f] = 0
  /\ Writes(f, edits + 2, <<"created">> \o Trail)
  /\ UNCHANGED <<faults, strayed>>

Delete(f) ==
  /\ disk[f] # 0
  /\ Writes(f, 0, <<"deleted">>)
  /\ UNCHANGED <<faults, strayed>>

\* An editor saved by renaming over the file ("moved", which is not relevant and
\* carries the other path), or the observer had not been started yet.
ChangeUnseen(f) ==
  /\ Fault
  /\ Writes(f, edits + 2, <<>>)
  /\ strayed' = strayed \cup {f}

-----------------------------------------------------------------------------
(* dispatch, in the observer's thread *)

\* Without debouncing the observer's thread itself runs the update to its end.
DispatchNow ==
  /\ debounce = 0 /\ observing
  /\ queue # <<>> /\ waiting = <<>> /\ update.pc = "free"
  /\ waiting' = <<Head(queue)>>
  /\ queue' = Tail(queue)
  /\ UNCHANGED <<diskVars, observing, timerVars, update, graphVars, faults, strayed>>

Lesser(a, b) == IF a < b THEN a ELSE b

\* The whole debounce delay after every event.
DispatchForgetsMaxWait ==
  /\ debounce # 0
  /\ queue # <<>>
  /\ LET f == Head(queue).file IN
       /\ pending' = [pending EXCEPT ![f] = Head(queue).kind]
       /\ age' = [age EXCEPT ![f] = IF pending[f] = "none" THEN 0 ELSE age[f]]
       /\ timer' = [timer EXCEPT ![f] = debounce]
  /\ queue' = Tail(queue)
  /\ UNCHANGED <<diskVars, observing, orphans, fired, waiting, update, graphVars, faults, strayed>>

\* An event that finds one pending is taken for the same change.
DispatchKeepsFirst ==
  /\ debounce # 0
  /\ queue # <<>>
  /\ LET f == Head(queue).file
         since == IF pending[f] = "none" THEN 0 ELSE age[f] IN
       /\ pending' = [pending EXCEPT ![f] = IF @ = "none" THEN Head(queue).kind ELSE @]
       /\ age' = [age EXCEPT ![f] = since]
       /\ timer' = [timer EXCEPT ![f] = Lesser(debounce, MaxWait - since)]
  /\ queue' = Tail(queue)
  /\ UNCHANGED <<diskVars, observing, orphans, fired, waiting, update, graphVars, faults, strayed>>

\* The registered timer, if any, is cancelled; one that has already fired is not
\* stopped by that.  MaxWait counts from the first event since the last taking.
DispatchLater ==
  /\ debounce # 0
  /\ queue # <<>>
  /\ LET f == Head(queue).file
         since == IF pending[f] = "none" THEN 0 ELSE age[f] IN
       /\ pending' = [pending EXCEPT ![f] = Head(queue).kind]
       /\ age' = [age EXCEPT ![f] = since]
       /\ timer' = [timer EXCEPT ![f] = Lesser(debounce, MaxWait - since)]
  /\ queue' = Tail(queue)
  /\ UNCHANGED <<diskVars, observing, orphans, fired, waiting, update, graphVars, faults, strayed>>

-----------------------------------------------------------------------------
(* The timers *)

\* A timer runs out; its thread waits for `lock'.
Fire(f) ==
  \/ /\ timer[f] = 0
     /\ timer' = [timer EXCEPT ![f] = NoTimer]
     /\ fired' = [fired EXCEPT ![f] = @ + 1]
     /\ UNCHANGED <<diskVars, queue, observing, pending, age, orphans, waiting, update, graphVars,
                    faults, strayed>>
  \/ \E i \in 1..Len(orphans[f]) :
       /\ orphans[f][i] = 0
       /\ orphans' = [orphans EXCEPT ![f] = RemoveAt(@, i)]
       /\ fired' = [fired EXCEPT ![f] = @ + 1]
       /\ UNCHANGED <<diskVars, queue, observing, pending, age, timer, waiting, update, graphVars,
                      faults, strayed>>

\* The update is given the path it was called with instead of the event.
TakePendingPath(f) ==
  /\ fired[f] > 0
  /\ fired' = [fired EXCEPT ![f] = @ - 1]
  /\ waiting' = Append(waiting, f)
  /\ pending' = [pending EXCEPT ![f] = "none"]
  /\ age' = [age EXCEPT ![f] = 0]
  /\ timer' = [timer EXCEPT ![f] = NoTimer]
  /\ UNCHANGED <<diskVars, orphans, queue, observing, update, graphVars, faults, strayed>>

\* _process_debounced_change up to `_update_lock'.  A timer that was registered
\* since this one fired loses its registration and runs on.
TakePending(f) ==
  /\ fired[f] > 0
  /\ fired' = [fired EXCEPT ![f] = @ - 1]
  /\ waiting' = IF pending[f] = "none" THEN waiting
                ELSE Append(waiting, [file |-> f, kind |-> pending[f]])
  /\ pending' = [pending EXCEPT ![f] = "none"]
  /\ age' = [age EXCEPT ![f] = 0]
  /\ timer' = [timer EXCEPT ![f] = NoTimer]
  /\ orphans' = [orphans EXCEPT ![f] = IF timer[f] = NoTimer THEN @ ELSE Append(@, timer[f])]
  /\ UNCHANGED <<diskVars, queue, observing, update, graphVars, faults, strayed>>

-----------------------------------------------------------------------------
(* One update, under _update_lock *)

UpdateAt(pc) == update.pc = pc
UpdateGoes(pc) == update' = [update EXCEPT !.pc = pc]

\* The lock goes to any of the threads that wait for it.  An event that is not
\* relevant is dropped.
BeginUpdate(i) ==
  /\ UpdateAt("free")
  /\ i \in 1..Len(waiting)
  /\ waiting' = RemoveAt(waiting, i)
  /\ update' = IF waiting[i].kind \in Relevant
               THEN [pc |-> "delete", event |-> waiting[i]]
               ELSE NoUpdate
  /\ strayed' = strayed \cup
       {waiting[j].file : j \in {k \in 1..(i - 1) : waiting[k].file = waiting[i].file}}
  /\ UNCHANGED <<diskVars, queue, observing, timerVars, graphVars, faults>>

\* CYPHER_DELETE_MODULE, CYPHER_DELETE_FILE and remove_file_from_state.
DeleteOld ==
  /\ UpdateAt("delete")
  /\ LET f == update.event.file IN
       /\ nodes' = [nodes EXCEPT ![f] = {}]
       /\ calls' = [calls EXCEPT ![f] = {}]
       /\ parsed' = parsed \ {f}
       /\ tree' = [tree EXCEPT ![f] = 0]
  /\ botched' = (buffer # EmptyBuffer)
  /\ UpdateGoes(IF update.event.kind = "deleted" THEN "calls" ELSE "parse")
  /\ UNCHANGED <<diskVars, queue, observing, timerVars, waiting, buffer, faults, strayed>>

\* The file is parsed as it is now.  process_file gives up on a file that is
\* gone, process_generic_file makes its File node all the same.
Parse ==
  /\ UpdateAt("parse")
  /\ LET f == update.event.file IN
       /\ parsed' = IF disk[f] = 0 THEN parsed ELSE parsed \cup {f}
       /\ tree' = [tree EXCEPT ![f] = disk[f]]
       /\ buffer' = [buffer EXCEPT !.nodes[f] = @ \cup {disk[f]}]
  /\ UpdateGoes("calls")
  /\ UNCHANGED <<diskVars, queue, observing, timerVars, waiting, nodes, calls, faults, strayed,
                 botched>>

\* Only the calls of the changed file recomputed.
RecomputeChanged ==
  /\ UpdateAt("calls")
  /\ calls' = Empty
  /\ buffer' = [buffer EXCEPT !.calls[update.event.file] = {tree[update.event.file]} \ {0}]
  /\ UpdateGoes("flush")
  /\ UNCHANGED <<diskVars, queue, observing, timerVars, waiting, parsed, tree, nodes, faults,
                 strayed, botched>>

\* The tree the call pass works on: the cached one, or, when there is none or it
\* was evicted, that of the file as it is now; none when the file is gone.
TreeOf(f, kept) == IF f \in kept /\ tree[f] # 0 THEN tree[f] ELSE disk[f]

TreesRead(kept) == [f \in Files |-> IF f \in parsed THEN TreeOf(f, kept) ELSE tree[f]]

CallRows(kept) ==
  [f \in Files |-> IF f \in parsed THEN buffer.calls[f] \cup ({TreeOf(f, kept)} \ {0})
                   ELSE buffer.calls[f]]

\* CYPHER_DELETE_CALLS deletes the edges of every file; _process_function_calls
\* makes those of the parsed files, from the trees the bounded cache has kept and
\* from the disk.
RecomputeCalls ==
  /\ UpdateAt("calls")
  /\ calls' = Empty
  /\ \E kept \in SUBSET parsed :
       /\ tree' = TreesRead(kept)
       /\ buffer' = [buffer EXCEPT !.calls = CallRows(kept)]
  /\ UpdateGoes("flush")
  /\ UNCHANGED <<diskVars, queue, observing, timerVars, waiting, parsed, nodes, faults, strayed,
                 botched>>

\* The update ends before its flush, as if the batch were big enough some day.
FlushLater ==
  /\ UpdateAt("flush")
  /\ update' = NoUpdate
  /\ UNCHANGED <<diskVars, queue, observing, timerVars, waiting, graphVars, faults, strayed>>

Written == [f \in Files |-> nodes[f] \cup buffer.nodes[f]]

\* flush_all: the nodes, then the edges whose source is there.
Flush ==
  /\ UpdateAt("flush")
  /\ nodes' = Written
  /\ calls' = [f \in Files |-> calls[f] \cup (IF nodes'[f] = {} THEN {} ELSE buffer.calls[f])]
  /\ buffer' = EmptyBuffer
  /\ update' = NoUpdate
  /\ UNCHANGED <<diskVars, queue, observing, timerVars, waiting, parsed, tree, faults, strayed,
                 botched>>

-----------------------------------------------------------------------------
(* Failures.  A flush that raises empties the buffer it was writing, written or    *)
(* not: that of the nodes, and then the edges are kept, or that of the edges.      *)

NodesSpilt(rows) == nodes' \in {nodes, rows} /\ buffer' = [buffer EXCEPT !.nodes = Empty]

\* Flushes of the call pass, one of which failed.
CallsSpilt ==
  /\ UpdateAt("calls")
  /\ nodes' \in {nodes, Written}
  /\ \E kept \in SUBSET parsed, fate \in [Files -> {"buffered", "written", "lost"}] :
       /\ tree' = TreesRead(kept)
       /\ buffer' = [nodes |-> Empty,
                     calls |-> [f \in Files |->
                               IF fate[f] = "buffered" THEN CallRows(kept)[f] ELSE {}]]
       /\ calls' = [f \in Files |-> IF fate[f] = "written" /\ nodes'[f] # {}
                                    THEN CallRows(kept)[f] ELSE {}]
  /\ UNCHANGED parsed

\* process_file swallows every exception, those of a flush that the batch size
\* triggered among them: the file is not registered, its File node is made, and the
\* update goes on.
ParseFails ==
  /\ Fault
  /\ UpdateAt("parse")
  /\ LET f == update.event.file IN
       /\ \/ UNCHANGED nodes /\ buffer' = [buffer EXCEPT !.nodes[f] = @ \cup {0}]
          \/ /\ nodes' \in {nodes, Written}
             /\ buffer' = [buffer EXCEPT !.nodes = [Empty EXCEPT ![f] = {0}]]
       /\ strayed' = strayed \cup {f}
  /\ UpdateGoes("calls")
  /\ UNCHANGED <<diskVars, queue, observing, timerVars, waiting, parsed, tree, calls, botched>>

\* So does process_calls_in_file.
CallsFail ==
  /\ Fault
  /\ CallsSpilt
  /\ strayed' = strayed \cup {update.event.file}
  /\ botched' = TRUE
  /\ UpdateGoes("flush")
  /\ UNCHANGED <<diskVars, queue, observing, timerVars, waiting>>

DeleteRaises ==
  /\ UpdateAt("delete")
  /\ LET f == update.event.file IN
       \/ UNCHANGED <<nodes, calls>>
       \/ nodes' = [nodes EXCEPT ![f] = {}] /\ calls' = [calls EXCEPT ![f] = {}]
  /\ UNCHANGED <<parsed, tree, buffer>>

\* The file is parsed and registered, and its File node triggers a flush.
ParseRaises ==
  /\ UpdateAt("parse")
  /\ LET f == update.event.file IN
       /\ NodesSpilt([Written EXCEPT ![f] = @ \cup {disk[f]}])
       /\ parsed' = IF disk[f] = 0 THEN parsed ELSE parsed \cup {f}
       /\ tree' = [tree EXCEPT ![f] = disk[f]]
  /\ UNCHANGED calls

\* CYPHER_DELETE_CALLS raises, or the edges made at the end of the pass do.
CallsRaise ==
  \/ UpdateAt("calls") /\ calls' \in {calls, Empty} /\ UNCHANGED <<parsed, tree, nodes, buffer>>
  \/ CallsSpilt

FlushRaises ==
  /\ UpdateAt("flush")
  /\ \/ NodesSpilt(Written) /\ UNCHANGED calls
     \/ /\ nodes' = Written /\ buffer' = EmptyBuffer
        /\ \E some \in SUBSET {f \in Files : Written[f] # {}} :
             calls' = [f \in Files |-> calls[f] \cup (IF f \in some THEN buffer.calls[f] ELSE {})]
  /\ UNCHANGED <<parsed, tree>>

\* A database call of the update raises: its thread ends and its event is gone.
\* Without debouncing the thread is the observer's, which nobody starts again.
UpdateFails ==
  /\ Fault
  /\ DeleteRaises \/ ParseRaises \/ CallsRaise \/ FlushRaises
  /\ strayed' = strayed \cup {update.event.file}
  /\ update' = NoUpdate
  /\ observing' = (observing /\ debounce # 0)
  /\ botched' = TRUE
  /\ UNCHANGED <<diskVars, queue, timerVars, waiting>>

-----------------------------------------------------------------------------
(* Time *)

Sooner(t) == IF t = NoTimer \/ t = 0 THEN t ELSE t - 1

Tick ==
  /\ \E f \in Files : Sooner(timer[f]) # timer[f] \/ \E i \in 1..Len(orphans[f]) : orphans[f][i] # 0
  /\ timer' = [f \in Files |-> Sooner(timer[f])]
  /\ orphans' = [f \in Files |-> [i \in 1..Len(orphans[f]) |-> Sooner(orphans[f][i])]]
  /\ age' = [f \in Files |-> IF pending[f] = "none" THEN 0 ELSE Lesser(age[f] + 1, MaxWait)]
  /\ UNCHANGED <<diskVars, queue, observing, pending, fired, waiting, update, graphVars, faults,
                 strayed>>

Dispatch == DispatchNow \/ DispatchLater
Update   == DeleteOld \/ Parse \/ RecomputeCalls \/ Flush

Next ==
  \/ \E f \in Files : Modify(f) \/ Create(f) \/ Delete(f) \/ ChangeUnseen(f)
  \/ Dispatch
  \/ \E f \in Files : Fire(f) \/ TakePending(f)
  \/ \E i \in 1..Len(waiting) : BeginUpdate(i)
  \/ Update
  \/ ParseFails \/ CallsFail \/ UpdateFails
  \/ Tick

\* The observer's thread goes on while it lives, as the timers and their threads do,
\* and time passes.  Nobody has to change a file.
Fairness ==
  /\ WF_vars(Dispatch)
  /\ \A f \in Files : WF_vars(Fire(f)) /\ WF_vars(TakePending(f))
  /\ WF_vars(\E i \in 1..Len(waiting) : BeginUpdate(i))
  /\ WF_vars(Update)
  /\ WF_vars(Tick)

Spec == Init /\ [][Next]_vars /\ Fairness

-----------------------------------------------------------------------------
(* Properties *)

\* MAX_WAIT "ensures updates happen within a maximum time window, even during
\* continuous editing" (realtime_updater.py:487-488): through cancelled, late and
\* forgotten timers, a pending event has a thread about to take it, or a timer
\* that runs out no later than MaxWait after the first event.
PendingInTime ==
  \A f \in Files : pending[f] # "none" =>
    \/ fired[f] > 0
    \/ timer[f] # NoTimer /\ (timer[f] = 0 \/ age[f] + timer[f] <= MaxWait)

\* Nothing is under way for f: no event of it is queued, pending or waiting.
Quiet(f) ==
  /\ \A i \in 1..Len(queue) : queue[i].file # f
  /\ \A i \in 1..Len(waiting) : waiting[i].file # f
  /\ pending[f] = "none"
  /\ update.pc = "free" \/ update.event.file # f

\* docs/guide/realtime-updates.md:12: the graph follows the files.  Once nothing is
\* under way for a file the graph has exactly what the file holds, unless a change
\* went unreported, an update of it failed, or a later event of it overtook an
\* earlier one on the way to _update_lock.
QuietMeansCurrent == \A f \in Files \ strayed : Quiet(f) => nodes[f] = Current(f)

\* realtime_updater.py:131-132: calls are re-processed "across the entire
\* codebase": between two updates the CALLS edges of every file whose nodes are
\* those of what it holds are those of this version too, for the changed file and
\* for all the others, whatever was evicted and read again, and however often a
\* file changed meanwhile.  A failed update spoils the edges until an update begins
\* with nothing left over from it in the buffer; then those of every file are right
\* again, but for files whose own updates failed or were overtaken.
CallsMatchNodes ==
  ~botched /\ update.pc = "free" =>
    \A f \in Files : (f \in strayed => faults = 0) /\ nodes[f] = Current(f)
                      => calls[f] = nodes[f]

\* An event of f will never be dispatched: the observer's thread is dead.
Unheard(f) == ~observing /\ \E i \in 1..Len(queue) : queue[i].file = f

\* docs/guide/realtime-updates.md:7: after the last change the graph comes to the
\* state of the files and stays there, while the observer's thread lives.
Converges == <>[](\A f \in Files : f \in strayed \/ Unheard(f) \/ nodes[f] = Current(f))
=============================================================================
