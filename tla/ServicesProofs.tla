--------------------------- MODULE ServicesProofs ---------------------------
(***************************************************************************)
(* Theorems about two programs that run beside the engine and share no     *)
(* state: the watcher and the builders of the frontends.                   *)
(***************************************************************************)
EXTENDS RealtimeWatcher, ToolBuild, TLAPS

(***************************************************************************)
(* RealtimeWatcher: for any files, delays, edits and faults                *)
(***************************************************************************)

\* TypeOK by the groups of variables that the actions change together.
DiskTypes ==
  /\ debounce \in Delays
  /\ disk \in [Files -> Versions] /\ edits \in 0..MaxEdits
TimerTypes ==
  /\ pending \in [Files -> Kinds \cup {"none"}]
  /\ age \in [Files -> Ticks]
  /\ timer \in [Files -> Ticks \cup {NoTimer}]
  /\ orphans \in [Files -> Seq(Ticks)]
  /\ fired \in [Files -> Nat]
EventTypes ==
  /\ queue \in Seq(Event) /\ waiting \in Seq(Event)
  /\ update \in [pc : {"free", "delete", "parse", "calls", "flush"}, event : Event]
  /\ observing \in BOOLEAN
Buffers == [nodes : [Files -> SUBSET Versions], calls : [Files -> SUBSET Versions]]
GraphTypes ==
  /\ parsed \subseteq Files /\ tree \in [Files -> Versions]
  /\ nodes \in [Files -> SUBSET Versions] /\ calls \in [Files -> SUBSET Versions]
  /\ buffer \in Buffers /\ botched \in BOOLEAN
FaultTypes == faults \in 0..MaxFaults /\ strayed \subseteq Files

LEMMA TypesByGroup ==
  TypeOK <=> DiskTypes /\ TimerTypes /\ EventTypes /\ GraphTypes /\ FaultTypes
  BY DEF TypeOK, DiskTypes, TimerTypes, EventTypes, GraphTypes, FaultTypes, Buffers

-----------------------------------------------------------------------------
\* Removing one element of a sequence leaves a sequence of the same things.
LEMMA RemoveAtType ==
  ASSUME NEW S, NEW q \in Seq(S), NEW i \in 1..Len(q)
  PROVE  RemoveAt(q, i) \in Seq(S)
  BY DEF RemoveAt

\* The delay of a timer that dispatch starts fits into what is left of MaxWait.
LEMMA DelayFits ==
  ASSUME NEW d \in Nat, NEW since \in Ticks
  PROVE  /\ Lesser(d, MaxWait - since) \in Ticks
         /\ since + Lesser(d, MaxWait - since) <= MaxWait
  BY DelaysAssumption DEF Lesser, Ticks

\* A tick brings a timer nearer to its end and never past it.
LEMMA SoonerType ==
  ASSUME NEW t \in Ticks \cup {NoTimer}
  PROVE  /\ Sooner(t) \in Ticks \cup {NoTimer}
         /\ t \in Ticks => Sooner(t) \in Ticks
         /\ (t = NoTimer) <=> (Sooner(t) = NoTimer)
         /\ t \notin {NoTimer, 0} => Sooner(t) = t - 1
         /\ t = 0 => Sooner(t) = 0
  <1>1. NoTimer \notin Ticks
    BY DelaysAssumption, TimerAssumption DEF Ticks
  <1>2. CASE t = NoTimer
    BY <1>1, <1>2 DEF Sooner
  <1>3. CASE t \in Ticks
    BY <1>1, <1>3, DelaysAssumption DEF Sooner, Ticks
  <1> QED
    BY <1>2, <1>3

-----------------------------------------------------------------------------
LEMMA InitTypeOK == Init => TypeOK
  <1> SUFFICES ASSUME Init PROVE TypeOK
    OBVIOUS
  <1>1. 0 \in Versions /\ {0, 1} \subseteq Versions /\ 0 \in Ticks
    BY BoundsAssumption, DelaysAssumption DEF Versions, Ticks
  <1>2. DiskTypes
    BY <1>1, BoundsAssumption DEF Init, DiskTypes
  <1>3. TimerTypes
    BY <1>1 DEF Init, TimerTypes
  <1>4. NoUpdate \in [pc : {"free", "delete", "parse", "calls", "flush"}, event : Event]
    BY FilesAssumption DEF NoUpdate, Event, Kinds
  <1>5. EventTypes
    BY <1>4 DEF Init, EventTypes
  <1>6. GraphTypes
    <2>1. \A f \in Files : Current(f) \subseteq Versions
      BY <1>2 DEF Current, DiskTypes
    <2>2. Empty \in [Files -> SUBSET Versions]
      BY DEF Empty
    <2> QED
      BY <1>1, <1>2, <2>1, <2>2 DEF Init, GraphTypes, Buffers, DiskTypes, EmptyBuffer
  <1>7. FaultTypes
    BY BoundsAssumption DEF Init, FaultTypes
  <1> QED
    BY <1>2, <1>3, <1>5, <1>6, <1>7, TypesByGroup

-----------------------------------------------------------------------------
(* What each kind of step does to the types *)

\* A change of a file adds its events to the observer's queue.
LEMMA WritesTypes ==
  ASSUME TypeOK, NEW f \in Files, NEW v \in Versions, NEW events \in Seq(Kinds),
         Writes(f, v, events)
  PROVE  DiskTypes' /\ TimerTypes' /\ EventTypes' /\ GraphTypes'
  <1> USE DEF Writes
  <1>1. DiskTypes'
    <2>1. edits < MaxEdits
      BY BoundsAssumption DEF TypeOK
    <2> QED
      BY <2>1, BoundsAssumption DEF TypeOK, DiskTypes, Versions
  <1>2. EventTypes'
    <2>1. [i \in 1..Len(events) |-> [file |-> f, kind |-> events[i]]] \in Seq(Event)
      BY DEF Event
    <2> QED
      BY <2>1 DEF TypeOK, EventTypes
  <1> QED
    BY <1>1, <1>2 DEF TypeOK, TimerTypes, GraphTypes, Buffers, timerVars, graphVars

LEMMA ChangeTypes ==
  ASSUME TypeOK, NEW f \in Files, Modify(f) \/ Create(f) \/ Delete(f) \/ ChangeUnseen(f)
  PROVE  TypeOK'
  <1>1. ASSUME edits < MaxEdits
        PROVE  edits + 2 \in Versions /\ 0 \in Versions
    BY <1>1, BoundsAssumption DEF TypeOK, Versions
  <1>2. edits < MaxEdits
    <2>1. edits + faults < MaxEdits
      BY DEF Modify, Create, Delete, ChangeUnseen, Writes
    <2> QED
      BY <2>1, BoundsAssumption DEF TypeOK
  <1>3. /\ <<"modified">> \o Trail \in Seq(Kinds)
        /\ <<"created">> \o Trail \in Seq(Kinds)
        /\ <<"deleted">> \in Seq(Kinds) /\ <<>> \in Seq(Kinds)
    <2>1. "modified" \in Kinds /\ "created" \in Kinds /\ "deleted" \in Kinds /\ "closed" \in Kinds
      BY DEF Kinds
    <2>2. Trail \in Seq(Kinds)
      BY <2>1 DEF Trail
    <2> QED
      BY <2>1, <2>2
  <1>4. DiskTypes' /\ TimerTypes' /\ EventTypes' /\ GraphTypes'
    BY <1>1, <1>2, <1>3, WritesTypes DEF Modify, Create, Delete, ChangeUnseen
  <1>5. FaultTypes'
    BY BoundsAssumption DEF Modify, Create, Delete, ChangeUnseen, Fault, TypeOK, FaultTypes
  <1> QED
    BY <1>4, <1>5, TypesByGroup, PTL

LEMMA DispatchTypes ==
  ASSUME TypeOK, Dispatch
  PROVE  TypeOK'
  <1>1. queue # <<>> /\ Head(queue) \in Event /\ Tail(queue) \in Seq(Event)
    BY DEF Dispatch, DispatchNow, DispatchLater, TypeOK
  <1>2. CASE DispatchNow
    BY <1>1, <1>2 DEF DispatchNow, TypeOK, diskVars, timerVars, graphVars
  <1>3. CASE DispatchLater
    <2> DEFINE f == Head(queue).file
               since == IF pending[f] = "none" THEN 0 ELSE age[f]
    <2>1. f \in Files /\ Head(queue).kind \in Kinds
      BY <1>1 DEF Event
    <2>2. since \in Ticks /\ debounce \in Nat
      BY <2>1, DelaysAssumption DEF TypeOK, Ticks
    <2>3. Lesser(debounce, MaxWait - since) \in Ticks
      BY <2>2, DelayFits
    <2>4. /\ pending' = [pending EXCEPT ![f] = Head(queue).kind]
          /\ age' = [age EXCEPT ![f] = since]
          /\ timer' = [timer EXCEPT ![f] = Lesser(debounce, MaxWait - since)]
      BY <1>3 DEF DispatchLater
    <2>5. TimerTypes'
      <3> HIDE DEF f, since
      <3>1. pending' \in [Files -> Kinds \cup {"none"}]
        BY <2>1, <2>4 DEF TypeOK
      <3>2. age' \in [Files -> Ticks] /\ timer' \in [Files -> Ticks \cup {NoTimer}]
        BY <2>1, <2>2, <2>3, <2>4 DEF TypeOK
      <3>3. orphans' = orphans /\ fired' = fired
        BY <1>3 DEF DispatchLater
      <3> QED
        BY <3>1, <3>2, <3>3 DEF TypeOK, TimerTypes
    <2> QED
      BY <1>1, <1>3, <2>5 DEF DispatchLater, TypeOK, TimerTypes, diskVars, graphVars
  <1> QED
    BY <1>2, <1>3 DEF Dispatch

LEMMA FireTypes ==
  ASSUME TypeOK, NEW f \in Files, Fire(f)
  PROVE  TypeOK'
  <1>1. \A i \in 1..Len(orphans[f]) : RemoveAt(orphans[f], i) \in Seq(Ticks)
    BY RemoveAtType DEF TypeOK
  <1>2. fired' = [fired EXCEPT ![f] = @ + 1] /\ fired[f] + 1 \in Nat
    BY DEF Fire, TypeOK
  <1>3. fired' \in [Files -> Nat]
    BY <1>2 DEF TypeOK
  <1>4. timer' \in [Files -> Ticks \cup {NoTimer}]
    <2>1. timer' = timer \/ timer' = [timer EXCEPT ![f] = NoTimer]
      BY DEF Fire
    <2> QED
      BY <2>1 DEF TypeOK
  <1>5. orphans' \in [Files -> Seq(Ticks)]
    <2>1. orphans' = orphans \/ \E q \in Seq(Ticks) : orphans' = [orphans EXCEPT ![f] = q]
      BY <1>1 DEF Fire
    <2> QED
      BY <2>1 DEF TypeOK
  <1> QED
    BY <1>3, <1>4, <1>5 DEF Fire, TypeOK, diskVars, graphVars

LEMMA TakePendingTypes ==
  ASSUME TypeOK, NEW f \in Files, TakePending(f)
  PROVE  TypeOK'
  <1>1. Append(orphans[f], timer[f]) \in Seq(Ticks) \/ timer[f] = NoTimer
    BY DEF TypeOK
  <1>2. 0 \in Ticks
    BY DelaysAssumption DEF Ticks
  <1>3. TimerTypes'
    BY <1>1, <1>2 DEF TakePending, TypeOK, TimerTypes
  <1>4. pending[f] # "none" => [file |-> f, kind |-> pending[f]] \in Event
    BY DEF TypeOK, Event
  <1>5. waiting' \in Seq(Event)
    BY <1>4 DEF TakePending, TypeOK
  <1> QED
    BY <1>3, <1>5 DEF TakePending, TypeOK, TimerTypes, diskVars, graphVars

LEMMA BeginUpdateTypes ==
  ASSUME TypeOK, NEW i \in 1..Len(waiting), BeginUpdate(i)
  PROVE  TypeOK'
  <1>1. waiting' \in Seq(Event)
    BY RemoveAtType DEF BeginUpdate, TypeOK
  <1>2. \A j \in 1..Len(waiting) : waiting[j] \in Event /\ waiting[j].file \in Files
    <2>1. waiting \in Seq(Event)
      BY DEF TypeOK
    <2>2. \A e \in Event : e.file \in Files
      BY DEF Event
    <2> QED
      BY <2>1, <2>2
  <1>3. update' \in [pc : {"free", "delete", "parse", "calls", "flush"}, event : Event]
    BY <1>2, FilesAssumption DEF BeginUpdate, NoUpdate, Event, Kinds
  <1>4. strayed' \subseteq Files
    BY <1>2 DEF BeginUpdate, TypeOK
  <1> QED
    BY <1>1, <1>3, <1>4 DEF BeginUpdate, TypeOK, diskVars, timerVars, graphVars

\* What the call pass reads and what a flush writes are versions of the files.
LEMMA PassTypes ==
  ASSUME TypeOK, NEW kept
  PROVE  /\ TreesRead(kept) \in [Files -> Versions]
         /\ CallRows(kept) \in [Files -> SUBSET Versions]
  <1>1. \A f \in Files : TreeOf(f, kept) \in Versions
    BY DEF TreeOf, TypeOK
  <1>2. TreesRead(kept) \in [Files -> Versions]
    BY <1>1 DEF TreesRead, TypeOK
  <1>3. CallRows(kept) \in [Files -> SUBSET Versions]
    BY <1>1 DEF CallRows, TypeOK
  <1> QED
    BY <1>2, <1>3

LEMMA WrittenTypes ==
  ASSUME TypeOK
  PROVE  Written \in [Files -> SUBSET Versions] /\ Empty \in [Files -> SUBSET Versions]
  BY DEF Written, Empty, TypeOK

\* The update that goes on, in the steps that succeed.
LEMMA UpdateGraphTypes ==
  ASSUME TypeOK, Update
  PROVE  GraphTypes'
  <1> DEFINE f == update.event.file
  <1>1. f \in Files
    BY DEF TypeOK, Event
  <1>2. 0 \in Versions /\ disk[f] \in Versions
    BY <1>1, BoundsAssumption DEF Versions, TypeOK
  <1> HIDE DEF f
  <1>3. CASE DeleteOld
    BY <1>1, <1>2, <1>3 DEF DeleteOld, TypeOK, GraphTypes, Buffers, f
  <1>4. CASE Parse
    <2>1. /\ parsed' \subseteq Files /\ tree' \in [Files -> Versions]
          /\ nodes' = nodes /\ calls' = calls /\ botched' = botched
      BY <1>1, <1>2, <1>4 DEF Parse, TypeOK, f
    <2>2. buffer' = [buffer EXCEPT !.nodes[f] = @ \cup {disk[f]}]
      BY <1>4 DEF Parse, f
    <2>3. buffer' \in Buffers
      BY <1>1, <1>2, <2>2 DEF TypeOK, Buffers
    <2> QED
      BY <2>1, <2>3 DEF TypeOK, GraphTypes
  <1>5. CASE RecomputeCalls
    <2>1. PICK kept \in SUBSET parsed : /\ tree' = TreesRead(kept)
                                        /\ buffer' = [buffer EXCEPT !.calls = CallRows(kept)]
      BY <1>5 DEF RecomputeCalls
    <2>2. tree' \in [Files -> Versions]
      BY <2>1, PassTypes
    <2>3. buffer' \in Buffers
      BY <2>1, PassTypes DEF TypeOK, Buffers
    <2>4. calls' \in [Files -> SUBSET Versions]
      BY <1>5, WrittenTypes DEF RecomputeCalls
    <2> QED
      BY <1>5, <2>2, <2>3, <2>4 DEF RecomputeCalls, TypeOK, GraphTypes
  <1>6. CASE Flush
    <2>1. nodes' \in [Files -> SUBSET Versions]
      BY <1>6, WrittenTypes DEF Flush
    <2>2. \A g \in Files : buffer.calls[g] \subseteq Versions /\ calls[g] \subseteq Versions
      BY DEF TypeOK
    <2>3. calls' \in [Files -> SUBSET Versions]
      BY <1>6, <2>2 DEF Flush
    <2> QED
      BY <1>6, <2>1, <2>3, WrittenTypes
      DEF Flush, TypeOK, GraphTypes, Buffers, EmptyBuffer
  <1> QED
    BY <1>3, <1>4, <1>5, <1>6 DEF Update

LEMMA CallsSpiltTypes ==
  ASSUME TypeOK, CallsSpilt
  PROVE  /\ parsed' = parsed /\ tree' \in [Files -> Versions]
         /\ nodes' \in [Files -> SUBSET Versions] /\ calls' \in [Files -> SUBSET Versions]
         /\ buffer' \in Buffers
  <1>1. PICK kept \in SUBSET parsed, fate \in [Files -> {"buffered", "written", "lost"}] :
          /\ tree' = TreesRead(kept)
          /\ buffer' = [nodes |-> Empty,
                        calls |-> [f \in Files |-> IF fate[f] = "buffered" THEN CallRows(kept)[f]
                                                   ELSE {}]]
          /\ calls' = [f \in Files |-> IF fate[f] = "written" /\ nodes'[f] # {}
                                       THEN CallRows(kept)[f] ELSE {}]
    BY DEF CallsSpilt
  <1>2. \A f \in Files : CallRows(kept)[f] \subseteq Versions
    BY PassTypes
  <1>3. calls' \in [Files -> SUBSET Versions]
    BY <1>1, <1>2
  <1>4. [f \in Files |-> IF fate[f] = "buffered" THEN CallRows(kept)[f] ELSE {}]
          \in [Files -> SUBSET Versions]
    BY <1>2
  <1> QED
    BY <1>1, <1>3, <1>4, PassTypes, WrittenTypes DEF CallsSpilt, TypeOK, Buffers

\* The update that fails, or passes over a failure.
LEMMA FailureGraphTypes ==
  ASSUME TypeOK, ParseFails \/ CallsFail \/ UpdateFails
  PROVE  GraphTypes'
  <1> DEFINE f == update.event.file
  <1>1. f \in Files
    BY DEF TypeOK, Event
  <1>2. 0 \in Versions /\ disk[f] \in Versions
    BY <1>1, BoundsAssumption DEF Versions, TypeOK
  <1> HIDE DEF f
  <1>3. CASE ParseFails
    <2>1. buffer' \in Buffers
      <3>1. \/ buffer' = [buffer EXCEPT !.nodes[f] = @ \cup {0}]
            \/ buffer' = [buffer EXCEPT !.nodes = [Empty EXCEPT ![f] = {0}]]
        BY <1>3 DEF ParseFails, f
      <3>2. /\ [buffer EXCEPT !.nodes[f] = @ \cup {0}] \in Buffers
            /\ [Empty EXCEPT ![f] = {0}] \in [Files -> SUBSET Versions]
        BY <1>1, <1>2, WrittenTypes DEF TypeOK, Buffers
      <3>3. [buffer EXCEPT !.nodes = [Empty EXCEPT ![f] = {0}]] \in Buffers
        BY <3>2 DEF TypeOK, Buffers
      <3> QED
        BY <3>1, <3>2, <3>3
    <2>2. nodes' \in [Files -> SUBSET Versions]
      BY <1>3, WrittenTypes DEF ParseFails, TypeOK
    <2> QED
      BY <1>3, <2>1, <2>2 DEF ParseFails, TypeOK, GraphTypes
  <1>4. CASE CallsFail
    BY <1>4, CallsSpiltTypes DEF CallsFail, TypeOK, GraphTypes
  <1>5. CASE UpdateFails
    <2>1. botched' \in BOOLEAN
      BY <1>5 DEF UpdateFails
    <2>2. CASE DeleteRaises
      BY <1>1, <2>1, <2>2 DEF DeleteRaises, TypeOK, GraphTypes, Buffers, f
    <2>3. CASE ParseRaises
      <3>1. /\ parsed' \subseteq Files /\ tree' \in [Files -> Versions] /\ calls' = calls
            /\ nodes' \in {nodes, [Written EXCEPT ![f] = @ \cup {disk[f]}]}
            /\ buffer' = [buffer EXCEPT !.nodes = Empty]
        BY <1>1, <1>2, <2>3 DEF ParseRaises, NodesSpilt, TypeOK, f
      <3>2. nodes' \in [Files -> SUBSET Versions]
        <4>1. [Written EXCEPT ![f] = @ \cup {disk[f]}] \in [Files -> SUBSET Versions]
          BY <1>1, <1>2, WrittenTypes
        <4> QED
          BY <3>1, <4>1 DEF TypeOK
      <3> QED
        BY <2>1, <3>1, <3>2, WrittenTypes DEF TypeOK, GraphTypes, Buffers
    <2>4. CASE CallsRaise
      <3>1. CASE CallsSpilt
        BY <2>1, <3>1, CallsSpiltTypes DEF TypeOK, GraphTypes
      <3> QED
        BY <2>1, <2>4, <3>1, WrittenTypes DEF CallsRaise, TypeOK, GraphTypes, Buffers
    <2>5. CASE FlushRaises
      <3>1. nodes' \in [Files -> SUBSET Versions] /\ parsed' = parsed /\ tree' = tree
        BY <2>5, WrittenTypes DEF FlushRaises, NodesSpilt, TypeOK
      <3>2. buffer' \in Buffers
        <4>1. buffer' = [buffer EXCEPT !.nodes = Empty] \/ buffer' = EmptyBuffer
          BY <2>5 DEF FlushRaises, NodesSpilt
        <4>2. EmptyBuffer \in Buffers /\ [buffer EXCEPT !.nodes = Empty] \in Buffers
          BY WrittenTypes DEF TypeOK, Buffers, EmptyBuffer
        <4> QED
          BY <4>1, <4>2
      <3>3. \A g \in Files : /\ calls[g] \cup buffer.calls[g] \subseteq Versions
                              /\ calls[g] \subseteq Versions
        BY DEF TypeOK
      <3>4. calls' \in [Files -> SUBSET Versions]
        BY <2>5, <3>3 DEF FlushRaises, TypeOK
      <3> QED
        BY <2>1, <3>1, <3>2, <3>4 DEF TypeOK, GraphTypes
    <2> QED
      BY <1>5, <2>2, <2>3, <2>4, <2>5 DEF UpdateFails
  <1> QED
    BY <1>3, <1>4, <1>5

\* The update under the lock, whether it succeeds or fails, moves on or ends, and
\* writes versions of files only.
LEMMA UpdateTypes ==
  ASSUME TypeOK, Update \/ ParseFails \/ CallsFail \/ UpdateFails
  PROVE  TypeOK'
  <1>1. update.event \in Event /\ update.event.file \in Files
    BY DEF TypeOK, Event
  <1>2. NoUpdate \in [pc : {"free", "delete", "parse", "calls", "flush"}, event : Event]
    BY FilesAssumption DEF NoUpdate, Event, Kinds
  <1>3. /\ queue' = queue /\ waiting' = waiting
        /\ \/ update' = NoUpdate
           \/ \E pc \in {"calls", "parse", "flush"} : UpdateGoes(pc)
    BY DEF Update, ParseFails, CallsFail, UpdateFails, DeleteOld, Parse, RecomputeCalls,
           Flush, UpdateGoes
  <1>4. observing' \in BOOLEAN
    BY DEF Update, ParseFails, CallsFail, UpdateFails, DeleteOld, Parse, RecomputeCalls,
           Flush, TypeOK
  <1>5. EventTypes'
    BY <1>2, <1>3, <1>4 DEF UpdateGoes, TypeOK, EventTypes
  <1>6. FaultTypes'
    BY <1>1, BoundsAssumption
      DEF Update, ParseFails, CallsFail, UpdateFails, DeleteOld, Parse, RecomputeCalls, Flush,
          Fault, TypeOK, FaultTypes
  <1>7. DiskTypes' /\ TimerTypes'
    BY DEF Update, ParseFails, CallsFail, UpdateFails, DeleteOld, Parse, RecomputeCalls,
           Flush, diskVars, timerVars, TypeOK, DiskTypes, TimerTypes
  <1>8. GraphTypes'
    BY UpdateGraphTypes, FailureGraphTypes
  <1> QED
    BY <1>5, <1>6, <1>7, <1>8, TypesByGroup, PTL

LEMMA TickTypes ==
  ASSUME TypeOK, Tick
  PROVE  TypeOK'
  <1>1. timer' \in [Files -> Ticks \cup {NoTimer}]
    BY SoonerType DEF Tick, TypeOK
  <1>2. orphans' \in [Files -> Seq(Ticks)]
    <2>1. ASSUME NEW f \in Files
          PROVE  [i \in 1..Len(orphans[f]) |-> Sooner(orphans[f][i])] \in Seq(Ticks)
      <3>1. orphans[f] \in Seq(Ticks)
        BY DEF TypeOK
      <3>2. \A i \in 1..Len(orphans[f]) : Sooner(orphans[f][i]) \in Ticks
        BY <3>1, SoonerType
      <3> QED
        BY <3>1, <3>2
    <2> QED
      BY <2>1 DEF Tick
  <1>3. age' \in [Files -> Ticks]
    BY DelaysAssumption DEF Tick, TypeOK, Lesser, Ticks
  <1> QED
    BY <1>1, <1>2, <1>3 DEF Tick, TypeOK, diskVars, graphVars

LEMMA NextTypeOK == TypeOK /\ [Next]_vars => TypeOK'
  <1> SUFFICES ASSUME TypeOK, [Next]_vars PROVE TypeOK'
    OBVIOUS
  <1>1. CASE UNCHANGED vars
    BY <1>1 DEF vars, TypeOK
  <1> QED
    BY <1>1, ChangeTypes, DispatchTypes, FireTypes, TakePendingTypes, BeginUpdateTypes,
       UpdateTypes, TickTypes DEF Next

\* Every variable keeps its type.
THEOREM TypeCorrect == Spec => []TypeOK
  BY InitTypeOK, NextTypeOK, PTL DEF Spec

-----------------------------------------------------------------------------
\* A pending event keeps a thread or a timer that is in time.
LEMMA NextPendingInTime == TypeOK /\ PendingInTime /\ [Next]_vars => PendingInTime'
  <1> SUFFICES ASSUME TypeOK, PendingInTime, [Next]_vars, NEW f \in Files, pending'[f] # "none"
               PROVE  \/ fired'[f] > 0
                      \/ timer'[f] # NoTimer /\ (timer'[f] = 0 \/ age'[f] + timer'[f] <= MaxWait)
    BY DEF PendingInTime
  <1>1. CASE pending' = pending /\ age' = age /\ timer' = timer /\ fired' = fired
    BY <1>1 DEF PendingInTime
  <1>2. CASE DispatchLater
    <2> DEFINE g == Head(queue).file
               since == IF pending[g] = "none" THEN 0 ELSE age[g]
    <2>1. g \in Files
      <3>1. Head(queue) \in Event
        BY <1>2 DEF DispatchLater, TypeOK
      <3> QED
        BY <3>1 DEF Event
    <2>2. since \in Ticks /\ debounce \in Nat
      BY <2>1, DelaysAssumption DEF TypeOK, Ticks
    <2>3. /\ pending' = [pending EXCEPT ![g] = Head(queue).kind]
          /\ age' = [age EXCEPT ![g] = since]
          /\ timer' = [timer EXCEPT ![g] = Lesser(debounce, MaxWait - since)]
          /\ fired' = fired
      BY <1>2 DEF DispatchLater
    <2> HIDE DEF g, since
    <2>4. CASE f = g
      <3>1. age'[f] = since /\ timer'[f] = Lesser(debounce, MaxWait - since)
        BY <2>1, <2>3, <2>4 DEF TypeOK
      <3>2. NoTimer \notin Ticks
        BY DelaysAssumption, TimerAssumption DEF Ticks
      <3> QED
        BY <2>2, <3>1, <3>2, DelayFits
    <2>5. CASE f # g
      BY <2>3, <2>5 DEF TypeOK, PendingInTime
    <2> QED
      BY <2>4, <2>5
  <1>3. ASSUME NEW g \in Files, Fire(g)
        PROVE  \/ fired'[f] > 0
               \/ /\ pending'[f] = pending[f] /\ age'[f] = age[f]
                  /\ timer'[f] = timer[f] /\ fired'[f] = fired[f]
    BY <1>3 DEF Fire, TypeOK
  <1>4. ASSUME NEW g \in Files, TakePending(g)
        PROVE  /\ f # g /\ pending'[f] = pending[f] /\ age'[f] = age[f]
               /\ timer'[f] = timer[f] /\ fired'[f] = fired[f]
    BY <1>4 DEF TakePending, TypeOK
  <1>5. CASE Tick
    <2>1. pending[f] # "none" /\ fired'[f] = fired[f]
      BY <1>5 DEF Tick
    <2>2. timer'[f] = Sooner(timer[f]) /\ age'[f] = Lesser(age[f] + 1, MaxWait)
      BY <1>5, <2>1 DEF Tick
    <2>3. timer[f] \in Ticks \cup {NoTimer} /\ age[f] \in Ticks
      BY DEF TypeOK
    <2>4. CASE timer[f] \notin {NoTimer, 0} /\ age[f] + timer[f] <= MaxWait
      BY <2>2, <2>3, <2>4, SoonerType, DelaysAssumption DEF Lesser, Ticks
    <2> QED
      BY <2>1, <2>2, <2>3, <2>4, SoonerType DEF PendingInTime
  <1>6. CASE \/ DispatchNow \/ Update \/ ParseFails \/ CallsFail \/ UpdateFails \/ UNCHANGED vars
             \/ \E i \in 1..Len(waiting) : BeginUpdate(i)
    <2>1. UNCHANGED timerVars
      BY <1>6 DEF DispatchNow, Update, DeleteOld, Parse, RecomputeCalls, Flush, UpdateFails,
                  ParseFails, CallsFail, BeginUpdate, timerVars, vars
    <2> QED
      BY <1>1, <2>1 DEF timerVars
  <1>7. ASSUME NEW g \in Files, Modify(g) \/ Create(g) \/ Delete(g) \/ ChangeUnseen(g)
        PROVE  UNCHANGED timerVars
    BY <1>7 DEF Modify, Create, Delete, ChangeUnseen, Writes
  <1> QED
    BY <1>1, <1>2, <1>3, <1>4, <1>5, <1>6, <1>7 DEF Next, Dispatch, PendingInTime, timerVars

\* MaxWait is kept: whatever timers are cancelled too late or forgotten, a pending
\* event is taken by a thread that waits already or by a timer that runs out within
\* MaxWait of the first event (realtime_updater.py:151-215).
THEOREM EventsInTime == Spec => []PendingInTime
  <1>1. Init => PendingInTime
    BY DEF Init, PendingInTime
  <1>2. TypeOK /\ PendingInTime /\ [Next]_vars => PendingInTime'
    BY NextPendingInTime
  <1> QED
    BY <1>1, <1>2, TypeCorrect, PTL DEF Spec

-----------------------------------------------------------------------------
(* The order of events.  The newest event of a file that is on its way, be it *)
(* queued, pending or waiting, tells what became of the file; so the update   *)
(* that comes last leaves the graph as the file is.                           *)

\* An update would act on the event, and it is about f.
Concerns(e, f) == e.file = f /\ e.kind \in Relevant

\* What the event says about a file of this version.
Tells(kind, version) == kind = "deleted" <=> version = 0

NoneIn(q, f) == \A i \in 1..Len(q) : ~Concerns(q[i], f)

\* The last event of f in q, if there is any, tells of the version.
LastTells(q, f, version) ==
  \A i \in 1..Len(q) :
    Concerns(q[i], f) /\ (\A j \in 1..Len(q) : i < j => ~Concerns(q[j], f))
      => Tells(q[i].kind, version)

\* Nothing that an update would act on is on its way.
Settled(f) == NoneIn(queue, f) /\ pending[f] = "none" /\ NoneIn(waiting, f)

NewestTells(f) ==
  /\ LastTells(queue, f, disk[f])
  /\ pending[f] # "none" =>
       /\ pending[f] \in Relevant
       /\ NoneIn(queue, f) => Tells(pending[f], disk[f])
  /\ NoneIn(queue, f) /\ pending[f] = "none" => LastTells(waiting, f, disk[f])

Busy(f) == update.pc # "free" /\ update.event.file = f

\* How far the update of f is, and what it has put into the buffer and taken out of the graph.
UpdateStands(f) ==
  /\ ~Busy(f) => buffer.nodes[f] = {} /\ (Settled(f) => nodes[f] = Current(f))
  /\ Busy(f) /\ update.pc = "delete" =>
       buffer.nodes[f] = {} /\ (Settled(f) => Tells(update.event.kind, disk[f]))
  /\ Busy(f) /\ update.pc = "parse" =>
       buffer.nodes[f] = {} /\ nodes[f] = {} /\ (Settled(f) => disk[f] # 0)
  /\ Busy(f) /\ update.pc \in {"calls", "flush"} =>
       nodes[f] = {} /\ (Settled(f) => buffer.nodes[f] = Current(f))

\* With a debounce delay no event is irrelevant, without one none is kept back.
Modes ==
  /\ debounce # 0 => \A i \in 1..Len(queue) : queue[i].kind \in Relevant
  /\ debounce = 0 => \A f \in Files : pending[f] = "none"

FollowInv == Modes /\ \A f \in Files \ strayed : NewestTells(f) /\ UpdateStands(f)

\* The observer sends no irrelevant events, or nothing is dropped for them.
NoEventHidden == Inotify => debounce = 0

-----------------------------------------------------------------------------
(* The queues under the operations of the threads *)

LEMMA AppendEvent ==
  ASSUME NEW q \in Seq(Event), NEW e \in Event, NEW f \in Files, NEW v
  PROVE  /\ NoneIn(Append(q, e), f) <=> NoneIn(q, f) /\ ~Concerns(e, f)
         /\ Concerns(e, f) => (LastTells(Append(q, e), f, v) <=> Tells(e.kind, v))
         /\ ~Concerns(e, f) => (LastTells(Append(q, e), f, v) <=> LastTells(q, f, v))
         /\ NoneIn(q, f) => LastTells(q, f, v)
  <1> DEFINE p == Append(q, e)
  <1>1. /\ p \in Seq(Event) /\ Len(p) = Len(q) + 1 /\ p[Len(p)] = e /\ Len(q) \in Nat
        /\ \A i \in 1..Len(q) : i \in 1..Len(p) /\ p[i] = q[i] /\ i < Len(p)
        /\ \A i \in 1..Len(p) : i \in 1..Len(q) \/ i = Len(p)
    OBVIOUS
  <1> HIDE DEF p
  <1>2. NoneIn(p, f) <=> NoneIn(q, f) /\ ~Concerns(e, f)
    BY <1>1 DEF NoneIn
  <1>3. ASSUME Concerns(e, f) PROVE LastTells(p, f, v) <=> Tells(e.kind, v)
    BY <1>1, <1>3 DEF LastTells
  <1>4. ASSUME ~Concerns(e, f) PROVE LastTells(p, f, v) <=> LastTells(q, f, v)
    BY <1>1, <1>4 DEF LastTells
  <1>5. NoneIn(q, f) => LastTells(q, f, v)
    BY DEF NoneIn, LastTells
  <1> QED
    BY <1>2, <1>3, <1>4, <1>5 DEF p

LEMMA TailOfEvents ==
  ASSUME NEW q \in Seq(Event), q # <<>>, NEW f \in Files, NEW v
  PROVE  /\ NoneIn(q, f) <=> NoneIn(Tail(q), f) /\ ~Concerns(Head(q), f)
         /\ LastTells(q, f, v) => LastTells(Tail(q), f, v)
         /\ LastTells(q, f, v) /\ NoneIn(Tail(q), f) /\ Concerns(Head(q), f)
              => Tells(Head(q).kind, v)
  <1> DEFINE t == Tail(q)
  <1>1. /\ Len(t) = Len(q) - 1 /\ 1 \in 1..Len(q) /\ q[1] = Head(q) /\ Len(q) \in Nat
        /\ \A i \in 1..Len(t) : i + 1 \in 1..Len(q) /\ t[i] = q[i + 1]
        /\ \A i \in 1..Len(q) : i = 1 \/ (i - 1 \in 1..Len(t) /\ t[i - 1] = q[i])
    OBVIOUS
  <1> HIDE DEF t
  <1>2. NoneIn(q, f) <=> NoneIn(t, f) /\ ~Concerns(Head(q), f)
    BY <1>1 DEF NoneIn
  <1>3. ASSUME LastTells(q, f, v), NEW i \in 1..Len(t), Concerns(t[i], f),
               \A j \in 1..Len(t) : i < j => ~Concerns(t[j], f)
        PROVE  Tells(t[i].kind, v)
    <2>1. \A j \in 1..Len(q) : i + 1 < j => ~Concerns(q[j], f)
      BY <1>1, <1>3
    <2> QED
      BY <1>1, <1>3, <2>1 DEF LastTells
  <1>4. ASSUME LastTells(q, f, v), NoneIn(t, f), Concerns(Head(q), f)
        PROVE  Tells(Head(q).kind, v)
    BY <1>1, <1>4 DEF LastTells, NoneIn
  <1> QED
    BY <1>2, <1>3, <1>4 DEF t, LastTells

\* The first event of its file is taken out of a queue.
LEMMA RemoveEvent ==
  ASSUME NEW q \in Seq(Event), NEW i \in 1..Len(q), NEW f \in Files, NEW v,
         q[i].file = f => \A j \in 1..(i - 1) : q[j].file # f
  PROVE  /\ NoneIn(q, f) => NoneIn(RemoveAt(q, i), f)
         /\ ~Concerns(q[i], f) /\ NoneIn(RemoveAt(q, i), f) => NoneIn(q, f)
         /\ LastTells(q, f, v) => LastTells(RemoveAt(q, i), f, v)
         /\ LastTells(q, f, v) /\ NoneIn(RemoveAt(q, i), f) /\ Concerns(q[i], f)
              => Tells(q[i].kind, v)
  <1> DEFINE t == RemoveAt(q, i)
  <1>1. Len(t) = Len(q) - 1 /\ Len(q) \in Nat /\ i \in Nat
        /\ \A j \in 1..Len(t) : t[j] = IF j < i THEN q[j] ELSE q[j + 1]
    <2> DEFINE a == SubSeq(q, 1, i - 1)
               b == SubSeq(q, i + 1, Len(q))
    <2>1. a \in Seq(Event) /\ Len(a) = i - 1 /\ \A j \in 1..(i - 1) : a[j] = q[j]
      OBVIOUS
    <2>2. b \in Seq(Event) /\ Len(b) = Len(q) - i /\ \A j \in 1..(Len(q) - i) : b[j] = q[i + j]
      OBVIOUS
    <2>3. t = a \o b
      BY DEF RemoveAt
    <2> HIDE DEF a, b, t
    <2>4. Len(t) = Len(q) - 1
      BY <2>1, <2>2, <2>3
    <2>5. ASSUME NEW j \in 1..Len(t) PROVE t[j] = IF j < i THEN q[j] ELSE q[j + 1]
      BY <2>1, <2>2, <2>3, <2>4
    <2> QED
      BY <2>4, <2>5
  <1>2. \A j \in 1..Len(q) : /\ j < i => j \in 1..Len(t) /\ t[j] = q[j]
                             /\ j > i => j - 1 \in 1..Len(t) /\ t[j - 1] = q[j]
    <2> HIDE DEF t
    <2>1. ASSUME NEW j \in 1..Len(q), j < i PROVE j \in 1..Len(t) /\ t[j] = q[j]
      BY <1>1, <2>1
    <2>2. ASSUME NEW j \in 1..Len(q), j > i PROVE j - 1 \in 1..Len(t) /\ t[j - 1] = q[j]
      <3>1. j - 1 \in 1..Len(t) /\ ~(j - 1 < i) /\ (j - 1) + 1 = j
        BY <1>1, <2>2
      <3> QED
        BY <1>1, <3>1
    <2> QED
      BY <2>1, <2>2
  <1> HIDE DEF t
  <1>3. NoneIn(q, f) => NoneIn(t, f)
    BY <1>1 DEF NoneIn
  <1>4. ~Concerns(q[i], f) /\ NoneIn(t, f) => NoneIn(q, f)
    BY <1>2 DEF NoneIn
  <1>5. ASSUME LastTells(q, f, v), NEW j \in 1..Len(t), Concerns(t[j], f),
               \A k \in 1..Len(t) : j < k => ~Concerns(t[k], f)
        PROVE  Tells(t[j].kind, v)
    <2>1. CASE j < i
      <3>1. ~Concerns(q[i], f) /\ j \in 1..Len(q) /\ t[j] = q[j]
        BY <1>1, <1>5, <2>1 DEF Concerns
      <3>2. \A k \in 1..Len(q) : j < k => ~Concerns(q[k], f)
        BY <1>1, <1>2, <1>5, <2>1, <3>1
      <3> QED
        BY <1>5, <3>1, <3>2 DEF LastTells
    <2>2. CASE ~(j < i)
      <3>1. j + 1 \in 1..Len(q) /\ t[j] = q[j + 1]
        BY <1>1, <2>2
      <3>2. \A k \in 1..Len(q) : j + 1 < k => ~Concerns(q[k], f)
        BY <1>1, <1>2, <1>5, <2>2
      <3> QED
        BY <1>5, <3>1, <3>2 DEF LastTells
    <2> QED
      BY <2>1, <2>2
  <1>6. ASSUME LastTells(q, f, v), NoneIn(t, f), Concerns(q[i], f)
        PROVE  Tells(q[i].kind, v)
    <2>1. \A k \in 1..Len(q) : i < k => ~Concerns(q[k], f)
      BY <1>1, <1>2, <1>6 DEF NoneIn
    <2> QED
      BY <1>6, <2>1 DEF LastTells
  <1> QED
    BY <1>3, <1>4, <1>5, <1>6 DEF t, LastTells

-----------------------------------------------------------------------------
\* A file whose events stay in their places.
LEMMA EventsStay ==
  ASSUME NEW f, NewestTells(f), disk'[f] = disk[f], pending'[f] = pending[f],
         NoneIn(queue', f) <=> NoneIn(queue, f), NoneIn(waiting', f) <=> NoneIn(waiting, f),
         LastTells(queue, f, disk[f]) => LastTells(queue', f, disk[f]),
         LastTells(waiting, f, disk[f]) => LastTells(waiting', f, disk[f])
  PROVE  NewestTells(f)' /\ (Settled(f)' <=> Settled(f))
  BY DEF NewestTells, Settled

LEMMA UpdateStays ==
  ASSUME NEW f, UpdateStands(f), UNCHANGED <<update, nodes, buffer>>, disk'[f] = disk[f],
         Settled(f)' => Settled(f)
  PROVE  UpdateStands(f)'
  BY DEF UpdateStands, Busy, Current

LEMMA ShortSequences ==
  ASSUME NEW S, NEW k \in S, NEW c \in S
  PROVE  <<k>> \o <<>> = <<k>> /\ <<k>> \o <<c>> = <<k, c>>
  <1>1. <<k>> \in Seq(S) /\ <<c>> \in Seq(S)
    OBVIOUS
  <1>2. <<k>> \o <<>> = <<k>>
    BY <1>1
  <1>3. <<k>> \o <<c>> = <<k, c>>
    <2>1. /\ <<k>> \o <<c>> \in Seq(S) /\ <<k, c>> \in Seq(S)
          /\ Len(<<k>> \o <<c>>) = 2 /\ Len(<<k, c>>) = 2
      BY <1>1
    <2>2. (<<k>> \o <<c>>)[1] = k /\ (<<k>> \o <<c>>)[2] = c
      BY <1>1
    <2>3. <<k, c>>[1] = k /\ <<k, c>>[2] = c
      OBVIOUS
    <2>4. \A i \in 1..2 : (<<k>> \o <<c>>)[i] = <<k, c>>[i]
      BY <2>2, <2>3
    <2> DEFINE s == <<k>> \o <<c>>
               t == <<k, c>>
    <2>5. s \in Seq(S) /\ t \in Seq(S) /\ Len(s) = 2 /\ Len(t) = 2 /\ \A i \in 1..2 : s[i] = t[i]
      BY <2>1, <2>4
    <2> HIDE DEF s, t
    <2>6. s = t
      BY <2>5
    <2> QED
      BY <2>6 DEF s, t
  <1> QED
    BY <1>2, <1>3

\* What a change of a file puts into the queue.
LEMMA QueueGrows ==
  ASSUME TypeOK, NEW g \in Files, NEW v \in Versions, NEW k \in Relevant,
         Writes(g, v, <<k>> \o Trail) \/ Writes(g, v, <<k>>)
  PROVE  LET e == [file |-> g, kind |-> k]
             c == [file |-> g, kind |-> "closed"] IN
         /\ e \in Event /\ c \in Event
         /\ queue' = Append(queue, e) \/ (Inotify /\ queue' = Append(Append(queue, e), c))
  <1> DEFINE e == [file |-> g, kind |-> k]
             c == [file |-> g, kind |-> "closed"]
  <1>1. e \in Event /\ c \in Event
    BY DEF Event, Kinds, Relevant
  <1>2. queue \in Seq(Event)
    BY DEF TypeOK
  <1>3. CASE Writes(g, v, <<k>>) \/ (Writes(g, v, <<k>> \o Trail) /\ ~Inotify)
    <2>1. Writes(g, v, <<k>>)
      <3>1. ~Inotify => <<k>> \o Trail = <<k>>
        BY ShortSequences DEF Trail
      <3> QED
        BY <1>3, <3>1
    <2>2. queue' = queue \o [i \in 1..1 |-> [file |-> g, kind |-> <<k>>[i]]]
      BY <2>1 DEF Writes
    <2>3. [i \in 1..1 |-> [file |-> g, kind |-> <<k>>[i]]] = <<e>>
      OBVIOUS
    <2>4. queue \o <<e>> = Append(queue, e)
      BY <1>1, <1>2
    <2> QED
      BY <1>1, <2>2, <2>3, <2>4
  <1>4. CASE Writes(g, v, <<k>> \o Trail) /\ Inotify
    <2>1. <<k>> \o Trail = <<k, "closed">>
      <3>1. k \in Kinds /\ "closed" \in Kinds
        BY DEF Kinds, Relevant
      <3> QED
        BY <1>4, <3>1, ShortSequences DEF Trail
    <2>2. queue' = queue \o [i \in 1..2 |-> [file |-> g, kind |-> <<k, "closed">>[i]]]
      BY <1>4, <2>1 DEF Writes
    <2>3. [i \in 1..2 |-> [file |-> g, kind |-> <<k, "closed">>[i]]] = <<e, c>>
      OBVIOUS
    <2> HIDE DEF e, c
    <2>4. queue \o <<e, c>> = Append(Append(queue, e), c)
      BY <1>1, <1>2
    <2> QED
      BY <1>1, <1>4, <2>2, <2>3, <2>4 DEF e, c
  <1> QED
    BY <1>3, <1>4

LEMMA ReportedChangeFollows ==
  ASSUME TypeOK, NoEventHidden, FollowInv, NEW g \in Files, NEW v \in Versions, NEW k \in Relevant,
         Writes(g, v, <<k>> \o Trail) \/ Writes(g, v, <<k>>), Tells(k, v), UNCHANGED strayed
  PROVE  FollowInv'
  <1> DEFINE e == [file |-> g, kind |-> k]
             c == [file |-> g, kind |-> "closed"]
  <1>1. /\ e \in Event /\ c \in Event
        /\ queue' = Append(queue, e) \/ (Inotify /\ queue' = Append(Append(queue, e), c))
    BY QueueGrows
  <1>2. /\ queue \in Seq(Event) /\ Append(queue, e) \in Seq(Event) /\ disk' = [disk EXCEPT ![g] = v]
        /\ UNCHANGED <<debounce, pending, waiting, update, nodes, buffer>>
        /\ disk \in [Files -> Versions]
    BY <1>1 DEF Writes, TypeOK, timerVars, graphVars
  <1>3. Concerns(e, g) /\ \A f : /\ f # g => ~Concerns(e, f)
                                 /\ ~Concerns(c, f)
    BY DEF Concerns, Relevant
  <1>4. Modes'
    <2>1. ASSUME debounce # 0 PROVE \A i \in 1..Len(queue') : queue'[i].kind \in Relevant
      <3>1. queue' = Append(queue, e)
        BY <1>1, <2>1 DEF NoEventHidden
      <3>2. \A i \in 1..Len(queue) : queue[i].kind \in Relevant
        BY <2>1 DEF FollowInv, Modes
      <3>3. e.kind \in Relevant
        OBVIOUS
      <3> HIDE DEF e
      <3> QED
        BY <1>2, <3>1, <3>2, <3>3
    <2> QED
      BY <1>2, <2>1 DEF FollowInv, Modes
  <1> HIDE DEF e, c
  <1>5. ASSUME NEW f \in Files \ strayed, f # g
        PROVE  NewestTells(f)' /\ UpdateStands(f)'
    <2>1. disk'[f] = disk[f]
      BY <1>2, <1>5
    <2>2. ~Concerns(e, f) /\ ~Concerns(c, f)
      BY <1>3, <1>5
    <2>3. /\ NoneIn(queue', f) <=> NoneIn(queue, f)
          /\ LastTells(queue, f, disk[f]) => LastTells(queue', f, disk[f])
      <3>1. /\ NoneIn(Append(queue, e), f) <=> NoneIn(queue, f)
            /\ LastTells(Append(queue, e), f, disk[f]) <=> LastTells(queue, f, disk[f])
        BY <1>1, <1>2, <2>2, AppendEvent
      <3>2. /\ NoneIn(Append(Append(queue, e), c), f) <=> NoneIn(Append(queue, e), f)
            /\ LastTells(Append(Append(queue, e), c), f, disk[f])
                 <=> LastTells(Append(queue, e), f, disk[f])
        BY <1>1, <1>2, <2>2, AppendEvent
      <3> QED
        BY <1>1, <3>1, <3>2
    <2>4. NewestTells(f) /\ UpdateStands(f)
      BY <1>5 DEF FollowInv
    <2>5. NewestTells(f)' /\ (Settled(f)' <=> Settled(f))
      BY <1>2, <2>1, <2>3, <2>4, EventsStay
    <2> QED
      BY <1>2, <2>1, <2>4, <2>5, UpdateStays
  <1>6. ASSUME g \notin strayed
        PROVE  NewestTells(g)' /\ UpdateStands(g)'
    <2>1. disk'[g] = v /\ NewestTells(g) /\ UpdateStands(g)
      BY <1>2, <1>6 DEF FollowInv
    <2>2. ~NoneIn(Append(queue, e), g) /\ LastTells(Append(queue, e), g, v)
      <3>1. Tells(e.kind, v)
        BY DEF e
      <3> QED
        BY <1>1, <1>2, <1>3, <3>1, AppendEvent
    <2>3. ~NoneIn(queue', g) /\ LastTells(queue', g, v)
      <3>1. ~Concerns(c, g)
        BY <1>3
      <3>2. /\ NoneIn(Append(Append(queue, e), c), g) <=> NoneIn(Append(queue, e), g)
            /\ LastTells(Append(Append(queue, e), c), g, v) <=> LastTells(Append(queue, e), g, v)
        BY <1>1, <1>2, <3>1, AppendEvent
      <3> QED
        BY <1>1, <2>2, <3>2
    <2>4. NewestTells(g)' /\ ~Settled(g)'
      BY <1>2, <2>1, <2>3 DEF NewestTells, Settled
    <2> QED
      BY <1>2, <2>1, <2>4 DEF UpdateStands, Busy
  <1> QED
    BY <1>4, <1>5, <1>6 DEF FollowInv

LEMMA ChangeFollows ==
  ASSUME TypeOK, NoEventHidden, FollowInv, NEW g \in Files,
         Modify(g) \/ Create(g) \/ Delete(g) \/ ChangeUnseen(g)
  PROVE  FollowInv'
  <1>1. /\ edits + 2 \in Nat /\ edits + 2 # 0 /\ 0 \in Versions
        /\ edits + faults < MaxEdits => edits + 2 \in Versions
    BY BoundsAssumption DEF TypeOK, Versions
  <1>2. CASE Modify(g)
    <2>1. Writes(g, edits + 2, <<"modified">> \o Trail) /\ UNCHANGED strayed
          /\ "modified" \in Relevant /\ Tells("modified", edits + 2) /\ edits + 2 \in Versions
      BY <1>1, <1>2 DEF Modify, Writes, Relevant, Tells
    <2> QED
      BY <2>1, ReportedChangeFollows
  <1>3. CASE Create(g)
    <2>1. Writes(g, edits + 2, <<"created">> \o Trail) /\ UNCHANGED strayed
          /\ "created" \in Relevant /\ Tells("created", edits + 2) /\ edits + 2 \in Versions
      BY <1>1, <1>3 DEF Create, Writes, Relevant, Tells
    <2> QED
      BY <2>1, ReportedChangeFollows
  <1>4. CASE Delete(g)
    <2>1. Writes(g, 0, <<"deleted">>) /\ UNCHANGED strayed
          /\ "deleted" \in Relevant /\ Tells("deleted", 0)
      BY <1>4 DEF Delete, Relevant, Tells
    <2> QED
      BY <1>1, <2>1, ReportedChangeFollows
  <1>5. CASE ChangeUnseen(g)
    <2>1. /\ strayed' = strayed \cup {g} /\ queue' = queue \o [i \in 1..0 |-> [file |-> g, kind |-> <<>>[i]]]
          /\ disk' = [disk EXCEPT ![g] = edits + 2] /\ queue \in Seq(Event)
          /\ UNCHANGED <<debounce, pending, waiting, update, nodes, buffer>>
          /\ disk \in [Files -> Versions]
      BY <1>5 DEF ChangeUnseen, Writes, TypeOK, timerVars, graphVars
    <2>2. queue' = queue
      <3>1. [i \in 1..0 |-> [file |-> g, kind |-> <<>>[i]]] = <<>>
        OBVIOUS
      <3> QED
        BY <2>1, <3>1
    <2>3. ASSUME NEW f \in Files \ strayed' PROVE NewestTells(f)' /\ UpdateStands(f)'
      <3>1. f \in Files \ strayed /\ disk'[f] = disk[f]
        BY <2>1, <2>3
      <3>2. NewestTells(f)' /\ (Settled(f)' <=> Settled(f))
        BY <2>1, <2>2, <3>1, EventsStay DEF FollowInv
      <3> QED
        BY <2>1, <3>1, <3>2, UpdateStays DEF FollowInv
    <2> QED
      BY <2>1, <2>2, <2>3 DEF FollowInv, Modes
  <1> QED
    BY <1>2, <1>3, <1>4, <1>5

LEMMA DispatchFollows ==
  ASSUME TypeOK, NoEventHidden, FollowInv, Dispatch
  PROVE  FollowInv'
  <1> DEFINE e == Head(queue)
  <1>1. /\ queue \in Seq(Event) /\ queue # <<>> /\ queue' = Tail(queue) /\ e \in Event
        /\ e.file \in Files /\ waiting \in Seq(Event)
        /\ UNCHANGED <<debounce, disk, update, nodes, buffer, strayed>>
        /\ pending \in [Files -> Kinds \cup {"none"}]
    <2>1. queue \in Seq(Event) /\ queue # <<>>
      BY DEF Dispatch, DispatchNow, DispatchLater, TypeOK
    <2>2. e \in Event
      BY <2>1
    <2>3. e.file \in Files
      BY <2>2 DEF Event
    <2>4. waiting \in Seq(Event) /\ pending \in [Files -> Kinds \cup {"none"}]
      BY DEF TypeOK
    <2>5. queue' = Tail(queue) /\ UNCHANGED <<debounce, disk, update, nodes, buffer, strayed>>
      BY DEF Dispatch, DispatchNow, DispatchLater, diskVars, graphVars
    <2> QED
      BY <2>1, <2>2, <2>3, <2>4, <2>5
  <1>2. /\ debounce # 0 => e.kind \in Relevant
        /\ debounce # 0 => \A i \in 1..Len(queue') : queue'[i].kind \in Relevant
    BY <1>1 DEF FollowInv, Modes
  <1> HIDE DEF e
  <1>3. \A f \in Files :
          /\ NoneIn(queue, f) <=> NoneIn(queue', f) /\ ~Concerns(e, f)
          /\ LastTells(queue, f, disk[f]) => LastTells(queue', f, disk[f])
          /\ LastTells(queue, f, disk[f]) /\ NoneIn(queue', f) /\ Concerns(e, f)
               => Tells(e.kind, disk[f])
    BY <1>1, TailOfEvents DEF e
  <1>4. CASE DispatchNow
    <2>1. /\ debounce = 0 /\ waiting = <<>> /\ waiting' = <<e>> /\ update.pc = "free"
          /\ pending' = pending
      BY <1>4 DEF DispatchNow, timerVars, e
    <2>2. \A f \in Files : pending[f] = "none"
      BY <2>1 DEF FollowInv, Modes
    <2>3. waiting' = Append(waiting, e)
      BY <2>1
    <2>4. \A f \in Files :
            /\ NoneIn(waiting, f)
            /\ NoneIn(waiting', f) <=> ~Concerns(e, f)
            /\ Concerns(e, f) => (LastTells(waiting', f, disk[f]) <=> Tells(e.kind, disk[f]))
            /\ ~Concerns(e, f) => LastTells(waiting', f, disk[f])
      <3>1. \A f \in Files : NoneIn(waiting, f)
        BY <2>1 DEF NoneIn
      <3> QED
        BY <1>1, <2>3, <3>1, AppendEvent
    <2>5. ASSUME NEW f \in Files \ strayed PROVE NewestTells(f)' /\ UpdateStands(f)'
      <3>1. NewestTells(f) /\ UpdateStands(f)
        BY <2>5 DEF FollowInv
      <3>2. NewestTells(f)'
        BY <1>1, <1>3, <2>1, <2>2, <2>4, <3>1 DEF NewestTells
      <3>3. Settled(f)' => Settled(f)
        BY <1>3, <2>1, <2>4 DEF Settled
      <3> QED
        BY <1>1, <3>1, <3>2, <3>3, UpdateStays
    <2>6. Modes'
      BY <1>1, <2>1, <2>2 DEF Modes
    <2> QED
      BY <1>1, <2>5, <2>6 DEF FollowInv
  <1>5. CASE DispatchLater
    <2>1. /\ debounce # 0 /\ waiting' = waiting
          /\ pending' = [pending EXCEPT ![e.file] = e.kind]
      BY <1>5 DEF DispatchLater, e
    <2>2. ASSUME NEW f \in Files \ strayed PROVE NewestTells(f)' /\ UpdateStands(f)'
      <3>1. NewestTells(f) /\ UpdateStands(f)
        BY <2>2 DEF FollowInv
      <3>2. CASE f # e.file
        <4>1. pending'[f] = pending[f] /\ ~Concerns(e, f)
          BY <1>1, <2>1, <3>2 DEF Concerns
        <4>2. NewestTells(f)' /\ (Settled(f)' <=> Settled(f))
          BY <1>1, <1>3, <2>1, <3>1, <4>1, EventsStay
        <4> QED
          BY <1>1, <3>1, <4>2, UpdateStays
      <3>3. CASE f = e.file
        <4>1. /\ pending'[f] = e.kind /\ e.kind \in Relevant /\ e.kind # "none"
              /\ Concerns(e, f)
          BY <1>1, <1>2, <2>1, <3>3 DEF Concerns, Relevant
        <4>2. NewestTells(f)'
          BY <1>1, <1>3, <3>1, <4>1 DEF NewestTells
        <4>3. ~Settled(f)'
          BY <4>1 DEF Settled
        <4> QED
          BY <1>1, <3>1, <4>2, <4>3, UpdateStays
      <3> QED
        BY <3>2, <3>3
    <2>3. Modes'
      BY <1>1, <1>2, <2>1 DEF Modes
    <2> QED
      BY <1>1, <2>2, <2>3 DEF FollowInv
  <1> QED
    BY <1>4, <1>5 DEF Dispatch

\* A timer that runs out, and time that passes, move no event.
LEMMA TimeFollows ==
  ASSUME FollowInv, (\E f \in Files : Fire(f)) \/ Tick
  PROVE  FollowInv'
  <1>1. UNCHANGED <<debounce, disk, queue, pending, waiting, update, nodes, buffer, strayed>>
    BY DEF Fire, Tick, diskVars, graphVars
  <1> QED
    BY <1>1 DEF FollowInv, Modes, NewestTells, UpdateStands, Settled, NoneIn, LastTells, Busy, Current

LEMMA TakePendingFollows ==
  ASSUME TypeOK, FollowInv, NEW g \in Files, TakePending(g)
  PROVE  FollowInv'
  <1> DEFINE e == [file |-> g, kind |-> pending[g]]
  <1>1. /\ UNCHANGED <<debounce, disk, queue, update, nodes, buffer, strayed>>
        /\ pending' = [pending EXCEPT ![g] = "none"]
        /\ waiting' = IF pending[g] = "none" THEN waiting ELSE Append(waiting, e)
        /\ waiting \in Seq(Event) /\ pending \in [Files -> Kinds \cup {"none"}]
    BY DEF TakePending, diskVars, graphVars, TypeOK
  <1>2. pending[g] # "none" => e \in Event
    BY <1>1 DEF Event
  <1>3. Modes'
    BY <1>1 DEF FollowInv, Modes
  <1>4. /\ \A f : f # g => ~Concerns(e, f)
        /\ pending[g] \in Relevant => Concerns(e, g)
        /\ e.kind = pending[g]
    BY DEF Concerns
  <1> HIDE DEF e
  <1>5. ASSUME NEW f \in Files \ strayed PROVE NewestTells(f)' /\ UpdateStands(f)'
    <2>1. NewestTells(f) /\ UpdateStands(f)
      BY <1>5 DEF FollowInv
    <2>2. CASE f # g \/ pending[g] = "none"
      <3>1. pending'[f] = pending[f]
        BY <1>1, <2>2
      <3>2. /\ NoneIn(waiting', f) <=> NoneIn(waiting, f)
            /\ LastTells(waiting', f, disk[f]) <=> LastTells(waiting, f, disk[f])
        BY <1>1, <1>2, <1>4, <2>2, AppendEvent
      <3>3. NewestTells(f)' /\ (Settled(f)' <=> Settled(f))
        BY <1>1, <2>1, <3>1, <3>2, EventsStay
      <3> QED
        BY <1>1, <2>1, <3>3, UpdateStays
    <2>3. CASE f = g /\ pending[g] # "none"
      <3>1. Concerns(e, f) /\ waiting' = Append(waiting, e)
        BY <1>1, <1>4, <2>1, <2>3 DEF NewestTells
      <3>2. /\ ~NoneIn(waiting', f)
            /\ LastTells(waiting', f, disk[f]) <=> Tells(pending[f], disk[f])
        BY <1>1, <1>2, <1>4, <2>3, <3>1, AppendEvent
      <3>3. NewestTells(f)'
        BY <1>1, <2>1, <2>3, <3>2 DEF NewestTells
      <3>4. ~Settled(f)'
        BY <3>2 DEF Settled
      <3> QED
        BY <1>1, <2>1, <3>3, <3>4, UpdateStays
    <2> QED
      BY <2>2, <2>3
  <1> QED
    BY <1>1, <1>3, <1>5 DEF FollowInv

\* Whoever gets the lock first: the file of an event that is overtaken strays.
LEMMA BeginFollows ==
  ASSUME TypeOK, FollowInv, NEW i \in 1..Len(waiting), BeginUpdate(i)
  PROVE  FollowInv'
  <1> DEFINE e == waiting[i]
  <1>1. /\ UNCHANGED <<debounce, disk, queue, pending, nodes, buffer>>
        /\ waiting \in Seq(Event) /\ e \in Event /\ update.pc = "free"
        /\ waiting' = RemoveAt(waiting, i)
        /\ update' = IF e.kind \in Relevant THEN [pc |-> "delete", event |-> e] ELSE NoUpdate
    <2>1. waiting \in Seq(Event)
      BY DEF TypeOK
    <2>2. e \in Event
      BY <2>1
    <2>3. /\ update.pc = "free" /\ waiting' = RemoveAt(waiting, i)
          /\ update' = IF e.kind \in Relevant THEN [pc |-> "delete", event |-> e] ELSE NoUpdate
      BY DEF BeginUpdate, UpdateAt
    <2>4. UNCHANGED <<debounce, disk, queue, pending, nodes, buffer>>
      BY DEF BeginUpdate, diskVars, timerVars, graphVars
    <2> QED
      BY <2>1, <2>2, <2>3, <2>4
  <1>2. ASSUME NEW f \in Files \ strayed'
        PROVE  f \notin strayed /\ (e.file = f => \A j \in 1..(i - 1) : waiting[j].file # f)
    BY <1>2 DEF BeginUpdate
  <1>3. Modes'
    BY <1>1 DEF FollowInv, Modes
  <1>4. ASSUME NEW f \in Files \ strayed' PROVE NewestTells(f)' /\ UpdateStands(f)'
    <2>1. NewestTells(f) /\ UpdateStands(f) /\ ~Busy(f)
      BY <1>1, <1>2, <1>4 DEF FollowInv, Busy
    <2>2. /\ NoneIn(waiting, f) => NoneIn(waiting', f)
          /\ ~Concerns(e, f) /\ NoneIn(waiting', f) => NoneIn(waiting, f)
          /\ LastTells(waiting, f, disk[f]) => LastTells(waiting', f, disk[f])
          /\ LastTells(waiting, f, disk[f]) /\ NoneIn(waiting', f) /\ Concerns(e, f)
               => Tells(e.kind, disk[f])
      BY <1>1, <1>2, <1>4, RemoveEvent
    <2> HIDE DEF e
    <2>3. NewestTells(f)'
      BY <1>1, <2>1, <2>2 DEF NewestTells
    <2>4. CASE ~Concerns(e, f)
      <3>1. ~Busy(f)'
        BY <1>1, <2>4 DEF Busy, Concerns, NoUpdate
      <3>2. Settled(f)' => Settled(f)
        BY <1>1, <2>2, <2>4 DEF Settled
      <3> QED
        BY <1>1, <2>1, <2>3, <3>1, <3>2 DEF UpdateStands, Current
    <2>5. CASE Concerns(e, f)
      <3>1. update' = [pc |-> "delete", event |-> e]
        BY <1>1, <2>5 DEF Concerns
      <3>2. Settled(f)' => Tells(e.kind, disk[f])
        BY <1>1, <2>1, <2>2, <2>5 DEF Settled, NewestTells
      <3> QED
        BY <1>1, <2>1, <2>3, <2>5, <3>1, <3>2 DEF UpdateStands, Busy, Concerns
    <2> QED
      BY <2>4, <2>5
  <1> QED
    BY <1>3, <1>4 DEF FollowInv

\* A failure changes the graph and the buffer of the update's file; of the others it writes, keeps
\* or loses what is buffered.
LEMMA FailureLeaves ==
  ASSUME TypeOK, ParseFails \/ CallsFail \/ UpdateFails,
         NEW f \in Files, f # update.event.file
  PROVE  /\ nodes'[f] = nodes[f] \/ nodes'[f] = nodes[f] \cup buffer.nodes[f]
         /\ buffer'.nodes[f] = buffer.nodes[f] \/ buffer'.nodes[f] = {}
  <1> DEFINE g == update.event.file
  <1>1. /\ nodes \in [Files -> SUBSET Versions] /\ buffer \in Buffers /\ f # g
        /\ Written[f] = nodes[f] \cup buffer.nodes[f] /\ Empty[f] = {}
        /\ Written \in [Files -> SUBSET Versions]
    BY WrittenTypes DEF TypeOK, Buffers, Written, Empty
  <1> HIDE DEF g
  <1>2. /\ nodes' \in {nodes, Written, [nodes EXCEPT ![g] = {}],
                       [Written EXCEPT ![g] = @ \cup {disk[g]}]}
        /\ \/ buffer' = buffer
           \/ buffer' = [buffer EXCEPT !.nodes[g] = @ \cup {0}]
           \/ buffer' = [buffer EXCEPT !.nodes = [Empty EXCEPT ![g] = {0}]]
           \/ buffer' = [buffer EXCEPT !.nodes = Empty]
           \/ buffer'.nodes = Empty
    <2>1. CASE ParseFails
      BY <2>1 DEF ParseFails, g
    <2>2. CASE CallsSpilt
      BY <2>2 DEF CallsSpilt
    <2>3. CASE DeleteRaises
      BY <2>3 DEF DeleteRaises, g
    <2>4. CASE ParseRaises
      BY <2>4 DEF ParseRaises, NodesSpilt, g
    <2>5. CASE FlushRaises
      BY <2>5 DEF FlushRaises, NodesSpilt, EmptyBuffer
    <2> QED
      BY <2>1, <2>2, <2>3, <2>4, <2>5 DEF CallsFail, UpdateFails, CallsRaise
  <1>3. nodes'[f] = nodes[f] \/ nodes'[f] = nodes[f] \cup buffer.nodes[f]
    BY <1>1, <1>2
  <1>4. buffer'.nodes[f] = buffer.nodes[f] \/ buffer'.nodes[f] = {}
    <2>1. CASE buffer' = [buffer EXCEPT !.nodes[g] = @ \cup {0}]
      BY <1>1, <2>1 DEF Buffers
    <2>2. CASE buffer' = [buffer EXCEPT !.nodes = [Empty EXCEPT ![g] = {0}]]
      BY <1>1, <2>2 DEF Buffers, Empty
    <2>3. CASE buffer' = [buffer EXCEPT !.nodes = Empty]
      BY <1>1, <2>3 DEF Buffers
    <2> QED
      BY <1>1, <1>2, <2>1, <2>2, <2>3
  <1> QED
    BY <1>3, <1>4

LEMMA UpdateFollows ==
  ASSUME TypeOK, FollowInv, Update \/ ParseFails \/ CallsFail \/ UpdateFails
  PROVE  FollowInv'
  <1> DEFINE g == update.event.file
  <1>1. /\ UNCHANGED <<debounce, disk, queue, pending, waiting>> /\ strayed \subseteq strayed'
        /\ update.pc # "free" /\ update.event \in Event /\ g \in Files
        /\ update \in [pc : {"free", "delete", "parse", "calls", "flush"}, event : Event]
        /\ nodes \in [Files -> SUBSET Versions] /\ disk \in [Files -> Versions]
        /\ buffer \in Buffers
    BY DEF Update, UpdateFails, ParseFails, CallsFail, CallsSpilt, DeleteRaises, ParseRaises,
           CallsRaise, FlushRaises, DeleteOld, Parse, RecomputeCalls, Flush, UpdateAt, diskVars,
           timerVars, TypeOK, Event, Buffers
  <1>2. Modes'
    BY <1>1 DEF FollowInv, Modes
  <1>3. ASSUME NEW f \in Files \ strayed' PROVE NewestTells(f)' /\ UpdateStands(f)'
    <2>1. NewestTells(f) /\ UpdateStands(f) /\ f \in Files
      BY <1>1, <1>3 DEF FollowInv
    <2>2. NewestTells(f)' /\ (Settled(f)' <=> Settled(f))
      BY <1>1, <2>1, EventsStay
    <2>3. disk'[f] = disk[f]
      BY <1>1
    <2> HIDE DEF g
    <2>4. CASE DeleteOld
      <3>1. /\ update.pc = "delete" /\ nodes' = [nodes EXCEPT ![g] = {}] /\ buffer' = buffer
            /\ update' = [update EXCEPT !.pc = IF update.event.kind = "deleted" THEN "calls"
                                                                                ELSE "parse"]
        BY <2>4 DEF DeleteOld, UpdateAt, UpdateGoes, g
      <3>2. CASE f # g
        BY <1>1, <2>1, <2>2, <2>3, <3>1, <3>2 DEF UpdateStands, Busy, Current, g
      <3>3. CASE f = g
        BY <1>1, <2>1, <2>2, <2>3, <3>1, <3>3 DEF UpdateStands, Busy, Current, Tells, g
      <3> QED
        BY <2>2, <3>2, <3>3
    <2>5. CASE Parse
      <3>1. /\ update.pc = "parse" /\ nodes' = nodes
            /\ buffer' = [buffer EXCEPT !.nodes[g] = @ \cup {disk[g]}]
            /\ update' = [update EXCEPT !.pc = "calls"]
        BY <2>5 DEF Parse, UpdateAt, UpdateGoes, g
      <3>2. buffer'.nodes = [buffer.nodes EXCEPT ![g] = @ \cup {disk[g]}]
        BY <1>1, <3>1 DEF Buffers
      <3>3. CASE f # g
        BY <1>1, <2>1, <2>2, <2>3, <3>1, <3>2, <3>3 DEF UpdateStands, Busy, Current, Buffers, g
      <3>4. CASE f = g
        BY <1>1, <2>1, <2>2, <2>3, <3>1, <3>2, <3>4 DEF UpdateStands, Busy, Current, Buffers, g
      <3> QED
        BY <2>2, <3>3, <3>4
    <2>6. CASE RecomputeCalls
      <3>1. /\ update.pc = "calls" /\ nodes' = nodes /\ buffer'.nodes = buffer.nodes
            /\ update' = [update EXCEPT !.pc = "flush"]
        BY <1>1, <2>6 DEF RecomputeCalls, UpdateAt, UpdateGoes, Buffers
      <3> QED
        BY <1>1, <2>1, <2>2, <2>3, <3>1 DEF UpdateStands, Busy, Current, g
    <2>7. CASE Flush
      <3>1. /\ update.pc = "flush" /\ nodes' = [h \in Files |-> nodes[h] \cup buffer.nodes[h]]
            /\ buffer' = [nodes |-> Empty, calls |-> Empty] /\ update' = NoUpdate
        BY <2>7 DEF Flush, UpdateAt, Written, EmptyBuffer
      <3>2. buffer'.nodes[f] = {} /\ nodes'[f] = nodes[f] \cup buffer.nodes[f] /\ ~Busy(f)'
        BY <1>1, <3>1, <2>1 DEF Empty, Busy, NoUpdate
      <3> QED
        BY <1>1, <2>1, <2>2, <2>3, <3>1, <3>2 DEF UpdateStands, Busy, Current, g
    <2>8. CASE ParseFails \/ CallsFail \/ UpdateFails
      <3>1. f # g
        BY <1>3, <2>8 DEF ParseFails, CallsFail, UpdateFails, g
      <3>2. update' = NoUpdate \/ update'.event.file = g
        BY <1>1, <2>8 DEF ParseFails, CallsFail, UpdateFails, UpdateGoes, g
      <3>3. ~Busy(f) /\ ~Busy(f)'
        BY <3>1, <3>2 DEF Busy, NoUpdate, g
      <3>4. buffer.nodes[f] = {}
        BY <2>1, <3>3 DEF UpdateStands
      <3>5. buffer'.nodes[f] = {} /\ nodes'[f] = nodes[f]
        BY <2>1, <2>8, <3>1, <3>4, FailureLeaves DEF g
      <3> QED
        BY <2>1, <2>2, <2>3, <3>3, <3>5 DEF UpdateStands, Current
    <2> QED
      BY <2>4, <2>5, <2>6, <2>7, <2>8 DEF Update
  <1> QED
    BY <1>2, <1>3 DEF FollowInv

LEMMA InitFollow == Init => FollowInv
  <1> SUFFICES ASSUME Init PROVE FollowInv
    OBVIOUS
  <1>1. queue = <<>> /\ waiting = <<>> /\ \A f : NoneIn(queue, f) /\ NoneIn(waiting, f)
    BY DEF Init, NoneIn
  <1>2. \A f \in Files : NewestTells(f)
    BY <1>1 DEF Init, NewestTells, NoneIn, LastTells
  <1>3. \A f \in Files : UpdateStands(f)
    BY DEF Init, UpdateStands, Busy, NoUpdate, Empty, EmptyBuffer
  <1>4. Modes
    BY <1>1 DEF Init, Modes
  <1> QED
    BY <1>2, <1>3, <1>4 DEF FollowInv

LEMMA NextFollows ==
  ASSUME TypeOK, NoEventHidden, FollowInv, [Next]_vars
  PROVE  FollowInv' /\ NoEventHidden'
  <1>1. debounce' = debounce
    <2>1. ASSUME NEW f \in Files, Modify(f) \/ Create(f) \/ Delete(f) \/ ChangeUnseen(f)
          PROVE  debounce' = debounce
      BY <2>1 DEF Modify, Create, Delete, ChangeUnseen, Writes
    <2>2. ASSUME NEW f \in Files, Fire(f) \/ TakePending(f) PROVE debounce' = debounce
      BY <2>2 DEF Fire, TakePending, diskVars
    <2>3. ASSUME NEW i \in 1..Len(waiting), BeginUpdate(i) PROVE debounce' = debounce
      BY <2>3 DEF BeginUpdate, diskVars
    <2>4. Update \/ ParseFails \/ CallsFail \/ UpdateFails => debounce' = debounce
      BY DEF Update, DeleteOld, Parse, RecomputeCalls, Flush, ParseFails, CallsFail, UpdateFails,
             diskVars
    <2>5. Dispatch \/ Tick \/ UNCHANGED vars => debounce' = debounce
      BY DEF Dispatch, DispatchNow, DispatchLater, Tick, diskVars, vars
    <2> QED
      BY <2>1, <2>2, <2>3, <2>4, <2>5 DEF Next
  <1>2. CASE UNCHANGED vars
    <2>1. UNCHANGED <<debounce, disk, queue, pending, waiting, update, nodes, buffer, strayed>>
      BY <1>2 DEF vars
    <2>2. Modes'
      BY <2>1 DEF FollowInv, Modes
    <2>3. ASSUME NEW f \in Files \ strayed' PROVE NewestTells(f)' /\ UpdateStands(f)'
      <3>1. NewestTells(f) /\ UpdateStands(f)
        BY <2>1, <2>3 DEF FollowInv
      <3>2. NewestTells(f)'
        BY <2>1, <3>1 DEF NewestTells
      <3>3. UpdateStands(f)'
        BY <2>1, <3>1 DEF UpdateStands, Busy, Current, Settled
      <3> QED
        BY <3>2, <3>3
    <2>4. FollowInv'
      BY <2>2, <2>3 DEF FollowInv
    <2> QED
      BY <1>1, <2>4 DEF NoEventHidden
  <1>3. FollowInv'
    BY <1>2, ChangeFollows, DispatchFollows, TimeFollows, TakePendingFollows, BeginFollows,
       UpdateFollows DEF Next
  <1> QED
    BY <1>1, <1>3 DEF NoEventHidden

\* The graph follows the files: once nothing is under way for a file, the graph has exactly what
\* it holds, unless a change went unreported, its update failed, or a later event overtook an
\* earlier one (realtime_updater.py:113-150, 217-330).  On Linux, where the closing of a file is
\* an event of its own that hides the one before it, only without debouncing.
THEOREM QuietIsCurrent ==
  ASSUME Inotify => Delays \subseteq {0}
  PROVE  Spec => []QuietMeansCurrent
  <1>1. TypeOK /\ FollowInv => QuietMeansCurrent
    <2> SUFFICES ASSUME TypeOK, FollowInv, NEW f \in Files \ strayed, Quiet(f)
                 PROVE  nodes[f] = Current(f)
      BY DEF QuietMeansCurrent
    <2>1. Settled(f) /\ ~Busy(f)
      BY DEF Quiet, Settled, NoneIn, Concerns, Busy
    <2> QED
      BY <2>1 DEF FollowInv, UpdateStands
  <1>2. Init => NoEventHidden
    BY DEF Init, NoEventHidden
  <1>3. TypeOK /\ NoEventHidden /\ FollowInv /\ [Next]_vars => FollowInv' /\ NoEventHidden'
    BY NextFollows
  <1> QED
    BY <1>1, <1>2, <1>3, InitFollow, TypeCorrect, PTL DEF Spec

-----------------------------------------------------------------------------
(* The CALLS edges *)

\* The version a file has is one whose nodes the graph has or is about to get.
Known(f) == disk[f] # 0 /\ disk[f] \in nodes[f] \cup buffer.nodes[f]

\* The updates of f succeeded in their order, or all updates succeeded.
Minded(f) == f \in strayed => faults = 0

\* No update of f has left rows behind it; a version is known only of a file that the call pass goes
\* over, with a tree that is not of another version.
TreesFit ==
  \A f \in Files : Minded(f) =>
    /\ (update.pc \in {"free", "delete", "parse"} \/ update.event.file # f) => buffer.nodes[f] = {}
    /\ Known(f) => f \in parsed /\ tree[f] \in {0, disk[f]}

\* Nobody has seen a version that is still to come.
NothingAhead ==
  \A f \in Files : disk[f] <= edits + 1 /\ \A v \in nodes[f] \cup buffer.nodes[f] : v <= edits + 1

\* The edges of the files whose version is known are those of this version when an update is over,
\* and wait in the buffer, no others with them, before its flush.
EdgesFit ==
  /\ \A f \in Files : nodes[f] = {} => calls[f] = {}
  /\ ~botched =>
       /\ update.pc \in {"parse", "calls"} => buffer.calls = Empty
       /\ update.pc = "flush" =>
            /\ calls = Empty
            /\ \A f \in Files : Minded(f) /\ Known(f) => buffer.calls[f] = {disk[f]}
       /\ update.pc \in {"free", "delete"} =>
            \A f \in Files : Minded(f) /\ Known(f) => calls[f] = {disk[f]}

CallsInv == TreesFit /\ NothingAhead /\ EdgesFit

GraphTypesOK ==
  /\ disk \in [Files -> Versions] /\ edits \in Nat /\ faults \in Nat
  /\ parsed \subseteq Files /\ tree \in [Files -> Versions]
  /\ nodes \in [Files -> SUBSET Versions] /\ calls \in [Files -> SUBSET Versions]
  /\ buffer \in Buffers
  /\ update \in [pc : {"free", "delete", "parse", "calls", "flush"}, event : Event]
  /\ update.event.file \in Files

LEMMA GraphIs == TypeOK => GraphTypesOK
  BY BoundsAssumption DEF TypeOK, GraphTypesOK, Buffers, Event

\* A file whose updates went wrong once is never again one whose updates did not.
LEMMA MindedBefore ==
  ASSUME TypeOK, strayed \subseteq strayed', faults' = faults \/ faults' = faults + 1,
         NEW f, Minded(f)'
  PROVE  Minded(f)
  BY GraphIs DEF Minded, GraphTypesOK

\* Steps of the observer, the timers and the lock.
LEMMA CallsUntouched ==
  ASSUME TypeOK, CallsInv, UNCHANGED <<disk, edits, graphVars>>,
         strayed \subseteq strayed', faults' = faults,
         update' = update \/ (update.pc = "free" /\ update'.pc \in {"free", "delete"})
  PROVE  CallsInv'
  <1>1. \A f \in Files : (Minded(f)' => Minded(f)) /\ (Known(f)' <=> Known(f))
    BY MindedBefore DEF Known, graphVars
  <1>2. TreesFit'
    BY <1>1 DEF CallsInv, TreesFit, graphVars
  <1>3. NothingAhead'
    BY DEF CallsInv, NothingAhead, graphVars
  <1>4. EdgesFit'
    BY <1>1 DEF CallsInv, EdgesFit, graphVars
  <1> QED
    BY <1>2, <1>3, <1>4 DEF CallsInv

\* A change of a file: its version is not known yet.
LEMMA CallsAfterChange ==
  ASSUME TypeOK, CallsInv, NEW h \in Files,
         Modify(h) \/ Create(h) \/ Delete(h) \/ ChangeUnseen(h)
  PROVE  CallsInv'
  <1>1. /\ edits' = edits + 1 /\ UNCHANGED <<update, graphVars>>
        /\ disk' = [disk EXCEPT ![h] = 0] \/ disk' = [disk EXCEPT ![h] = edits + 2]
        /\ strayed \subseteq strayed' /\ (faults' = faults \/ faults' = faults + 1)
    BY DEF Modify, Create, Delete, ChangeUnseen, Writes, Fault
  <1>2. GraphTypesOK
    BY GraphIs
  <1>3. \A f \in Files : f # h => disk'[f] = disk[f]
    BY <1>1, <1>2 DEF GraphTypesOK
  <1>4. disk'[h] \in {0, edits + 2}
    BY <1>1, <1>2 DEF GraphTypesOK
  <1>5. edits + 2 \notin nodes[h] \cup buffer.nodes[h]
    BY <1>2 DEF CallsInv, NothingAhead, GraphTypesOK
  <1>6. ~Known(h)'
    BY <1>1, <1>4, <1>5 DEF Known, graphVars
  <1>7. \A f \in Files : (Minded(f)' => Minded(f)) /\ (f # h => (Known(f)' <=> Known(f)))
    BY <1>1, <1>3, MindedBefore DEF Known, graphVars
  <1>8. TreesFit'
    BY <1>1, <1>3, <1>6, <1>7 DEF CallsInv, TreesFit, graphVars
  <1>9. NothingAhead'
    <2> SUFFICES ASSUME NEW f \in Files
                 PROVE  /\ disk'[f] <= edits' + 1
                        /\ \A v \in nodes'[f] \cup buffer'.nodes[f] : v <= edits' + 1
      BY DEF NothingAhead
    <2>1. disk'[f] <= edits' + 1
      BY <1>1, <1>2, <1>3, <1>4 DEF CallsInv, NothingAhead, GraphTypesOK, Versions
    <2>2. ASSUME NEW v \in nodes[f] \cup buffer.nodes[f] PROVE v <= edits' + 1
      <3>1. v \in Versions /\ v <= edits + 1
        BY <1>2, <2>2 DEF CallsInv, NothingAhead, GraphTypesOK, Buffers
      <3> QED
        BY <1>1, <1>2, <3>1, BoundsAssumption DEF Versions, GraphTypesOK
    <2> QED
      BY <1>1, <2>1, <2>2 DEF graphVars
  <1>10. EdgesFit'
    BY <1>1, <1>3, <1>6, <1>7 DEF CallsInv, EdgesFit, graphVars
  <1> QED
    BY <1>8, <1>9, <1>10 DEF CallsInv

LEMMA CallsAfterDelete ==
  ASSUME TypeOK, CallsInv, DeleteOld
  PROVE  CallsInv'
  <1>1. GraphTypesOK
    BY GraphIs
  <1>2. PICK g \in Files : g = update.event.file
    BY <1>1 DEF GraphTypesOK
  <1>3. /\ update.pc = "delete" /\ buffer' = buffer /\ disk' = disk /\ edits' = edits
        /\ nodes' = [nodes EXCEPT ![g] = {}] /\ calls' = [calls EXCEPT ![g] = {}]
        /\ parsed' = parsed \ {g} /\ tree' = [tree EXCEPT ![g] = 0]
        /\ update'.pc \in {"calls", "parse"} /\ update'.event.file = g
        /\ botched' = (buffer # EmptyBuffer) /\ strayed' = strayed /\ faults' = faults
    BY <1>1, <1>2 DEF DeleteOld, UpdateAt, UpdateGoes, diskVars, GraphTypesOK
  <1>4. \A f \in Files : f # g => nodes'[f] = nodes[f] /\ calls'[f] = calls[f] /\ tree'[f] = tree[f]
    BY <1>1, <1>3 DEF GraphTypesOK
  <1>5. nodes'[g] = {} /\ calls'[g] = {}
    BY <1>1, <1>3, <1>2 DEF GraphTypesOK
  <1>6. \A f \in Files : (Minded(f)' <=> Minded(f)) /\ (f # g => (Known(f)' <=> Known(f)))
    BY <1>3, <1>4 DEF Known, Minded
  <1>7. \A f \in Files : Minded(f) => buffer.nodes[f] = {}
    BY <1>3 DEF CallsInv, TreesFit
  <1>8. Minded(g) => ~Known(g)'
    BY <1>3, <1>2, <1>5, <1>7 DEF Known
  <1>9. TreesFit'
    BY <1>3, <1>4, <1>6, <1>7, <1>8 DEF CallsInv, TreesFit
  <1>10. NothingAhead'
    BY <1>3, <1>4, <1>5 DEF CallsInv, NothingAhead
  <1>11. EdgesFit'
    <2>1. \A f \in Files : nodes'[f] = {} => calls'[f] = {}
      BY <1>4, <1>5 DEF CallsInv, EdgesFit
    <2>2. ~botched' => buffer'.calls = Empty
      <3>1. CASE buffer = EmptyBuffer
        BY <1>3, <3>1 DEF EmptyBuffer
      <3>2. CASE buffer # EmptyBuffer
        <4>1. botched' = TRUE
          BY <1>3, <3>2
        <4> QED
          BY <4>1
      <3> QED
        BY <3>1, <3>2
    <2> QED
      BY <1>3, <2>1, <2>2 DEF EdgesFit
  <1> QED
    BY <1>9, <1>10, <1>11 DEF CallsInv

LEMMA CallsAfterParse ==
  ASSUME TypeOK, CallsInv, Parse
  PROVE  CallsInv'
  <1>1. GraphTypesOK
    BY GraphIs
  <1>2. PICK g \in Files : g = update.event.file
    BY <1>1 DEF GraphTypesOK
  <1>3. /\ update.pc = "parse" /\ disk' = disk /\ edits' = edits
        /\ nodes' = nodes /\ calls' = calls
        /\ buffer' = [buffer EXCEPT !.nodes[g] = @ \cup {disk[g]}]
        /\ parsed' = (IF disk[g] = 0 THEN parsed ELSE parsed \cup {g})
        /\ tree' = [tree EXCEPT ![g] = disk[g]]
        /\ update'.pc = "calls" /\ update'.event.file = g
        /\ botched' = botched /\ strayed' = strayed /\ faults' = faults
    BY <1>1, <1>2 DEF Parse, UpdateAt, UpdateGoes, diskVars, GraphTypesOK
  <1>4. buffer'.calls = buffer.calls /\ buffer'.nodes = [buffer.nodes EXCEPT ![g] = @ \cup {disk[g]}]
    BY <1>1, <1>3 DEF GraphTypesOK, Buffers
  <1>5. \A f \in Files : f # g => buffer'.nodes[f] = buffer.nodes[f] /\ tree'[f] = tree[f]
    BY <1>1, <1>3, <1>4 DEF GraphTypesOK, Buffers
  <1>6. buffer'.nodes[g] = buffer.nodes[g] \cup {disk[g]} /\ tree'[g] = disk[g]
    BY <1>1, <1>3, <1>2, <1>4 DEF GraphTypesOK, Buffers
  <1>7. \A f \in Files : (Minded(f)' <=> Minded(f)) /\ (f # g => (Known(f)' <=> Known(f)))
    BY <1>3, <1>5 DEF Known, Minded
  <1>8. Known(g)' => g \in parsed' /\ tree'[g] = disk'[g]
    BY <1>3, <1>6 DEF Known
  <1>9. TreesFit'
    BY <1>3, <1>5, <1>7, <1>8 DEF CallsInv, TreesFit
  <1>10. NothingAhead'
    BY <1>3, <1>2, <1>5, <1>6 DEF CallsInv, NothingAhead
  <1>11. EdgesFit'
    BY <1>3, <1>4 DEF CallsInv, EdgesFit
  <1> QED
    BY <1>9, <1>10, <1>11 DEF CallsInv

\* The pass reads, of a file whose version is known, this version, from the cache or the disk.
LEMMA PassReadsKnown ==
  ASSUME TypeOK, TreesFit, NEW f \in Files, Minded(f), Known(f), NEW kept
  PROVE  /\ TreesRead(kept)[f] = disk[f]
         /\ CallRows(kept)[f] = buffer.calls[f] \cup {disk[f]}
  BY DEF TreesFit, Known, TreesRead, CallRows, TreeOf

LEMMA CallsAfterPass ==
  ASSUME TypeOK, CallsInv, RecomputeCalls
  PROVE  CallsInv'
  <1>1. GraphTypesOK
    BY GraphIs
  <1>2. PICK kept \in SUBSET parsed :
          tree' = TreesRead(kept) /\ buffer' = [buffer EXCEPT !.calls = CallRows(kept)]
    BY DEF RecomputeCalls
  <1>3. /\ update.pc = "calls" /\ disk' = disk /\ edits' = edits
        /\ nodes' = nodes /\ calls' = Empty /\ parsed' = parsed
        /\ update'.pc = "flush" /\ update'.event.file = update.event.file
        /\ botched' = botched /\ strayed' = strayed /\ faults' = faults
    BY <1>1 DEF RecomputeCalls, UpdateAt, UpdateGoes, diskVars, GraphTypesOK
  <1>4. buffer'.nodes = buffer.nodes /\ buffer'.calls = CallRows(kept)
    BY <1>1, <1>2 DEF GraphTypesOK, Buffers
  <1>5. \A f \in Files : (Minded(f)' <=> Minded(f)) /\ (Known(f)' <=> Known(f))
    BY <1>3, <1>4 DEF Known, Minded
  <1>6. \A f \in Files : Minded(f) /\ Known(f) =>
          tree'[f] = disk[f] /\ buffer'.calls[f] = buffer.calls[f] \cup {disk[f]}
    BY <1>2, <1>4, PassReadsKnown DEF CallsInv
  <1>7. TreesFit'
    BY <1>3, <1>4, <1>5, <1>6 DEF CallsInv, TreesFit
  <1>8. NothingAhead'
    BY <1>3, <1>4 DEF CallsInv, NothingAhead
  <1>9. EdgesFit'
    <2>1. \A f \in Files : calls'[f] = {} /\ Empty[f] = {}
      BY <1>3 DEF Empty
    <2>2. ASSUME ~botched, NEW f \in Files, Minded(f), Known(f) PROVE buffer'.calls[f] = {disk[f]}
      <3>1. buffer.calls[f] = {}
        BY <1>3, <2>1, <2>2 DEF CallsInv, EdgesFit
      <3> QED
        BY <1>6, <2>2, <3>1
    <2> QED
      BY <1>3, <1>5, <2>1, <2>2 DEF EdgesFit
  <1> QED
    BY <1>7, <1>8, <1>9 DEF CallsInv

LEMMA CallsAfterFlush ==
  ASSUME TypeOK, CallsInv, Flush
  PROVE  CallsInv'
  <1>1. GraphTypesOK
    BY GraphIs
  <1>2. /\ update.pc = "flush" /\ disk' = disk /\ edits' = edits /\ parsed' = parsed /\ tree' = tree
        /\ update'.pc = "free" /\ botched' = botched /\ strayed' = strayed /\ faults' = faults
    BY DEF Flush, UpdateAt, NoUpdate, diskVars
  <1>3. \A f \in Files :
          /\ nodes'[f] = nodes[f] \cup buffer.nodes[f] /\ buffer'.nodes[f] = {}
          /\ calls'[f] = calls[f] \cup (IF nodes'[f] = {} THEN {} ELSE buffer.calls[f])
    BY DEF Flush, Written, Empty, EmptyBuffer
  <1>4. \A f \in Files : (Minded(f)' <=> Minded(f)) /\ (Known(f)' <=> Known(f))
    BY <1>2, <1>3 DEF Known, Minded
  <1>5. TreesFit'
    BY <1>2, <1>3, <1>4 DEF CallsInv, TreesFit
  <1>6. NothingAhead'
    BY <1>2, <1>3 DEF CallsInv, NothingAhead
  <1>7. ASSUME NEW f \in Files, nodes'[f] = {} PROVE calls'[f] = {}
    BY <1>3, <1>7 DEF CallsInv, EdgesFit
  <1>8. ASSUME ~botched, NEW f \in Files, Minded(f), Known(f) PROVE calls'[f] = {disk[f]}
    <2>1. calls[f] = {} /\ buffer.calls[f] = {disk[f]}
      BY <1>2, <1>8 DEF CallsInv, EdgesFit, Empty
    <2>2. nodes'[f] # {}
      BY <1>3, <1>8 DEF Known
    <2> QED
      BY <1>3, <2>1, <2>2
  <1>9. EdgesFit'
    BY <1>2, <1>4, <1>7, <1>8 DEF EdgesFit
  <1> QED
    BY <1>5, <1>6, <1>9 DEF CallsInv

\* What a failure does to the edges and to what the next pass reads.
LEMMA FailureEdges ==
  ASSUME TypeOK, CallsInv, ParseFails \/ CallsFail \/ UpdateFails,
         NEW f \in Files
  PROVE  /\ nodes'[f] = {} => calls'[f] = {}
         /\ f # update.event.file /\ f \in parsed => f \in parsed'
         /\ f # update.event.file => tree'[f] = tree[f] \/ \E kept : tree' = TreesRead(kept)
         /\ \A v \in nodes'[f] \cup buffer'.nodes[f] : v <= edits + 1
  <1> DEFINE g == update.event.file
  <1>1. GraphTypesOK /\ g \in Files
    BY GraphIs DEF GraphTypesOK
  <1>2. /\ nodes[f] = {} => calls[f] = {}
        /\ \A v \in nodes[f] \cup buffer.nodes[f] \cup {disk[g], 0} : v <= edits + 1
    BY <1>1 DEF CallsInv, EdgesFit, NothingAhead, GraphTypesOK
  <1>3. Written[f] = nodes[f] \cup buffer.nodes[f] /\ Empty[f] = {}
    BY DEF Written, Empty
  <1> HIDE DEF g
  <1>4. CASE ParseFails
    BY <1>1, <1>2, <1>3, <1>4, WrittenTypes DEF ParseFails, GraphTypesOK, Buffers, g
  <1>5. CASE CallsSpilt
    <2>1. nodes'[f] = {} => calls'[f] = {}
      BY <1>5 DEF CallsSpilt
    <2>2. parsed' = parsed /\ buffer'.nodes = Empty /\ (nodes' = nodes \/ nodes' = Written)
      BY <1>5 DEF CallsSpilt
    <2>3. \E kept : tree' = TreesRead(kept)
      BY <1>5 DEF CallsSpilt
    <2> QED
      BY <1>2, <1>3, <2>1, <2>2, <2>3
  <1>6. CASE DeleteRaises
    BY <1>1, <1>2, <1>3, <1>6 DEF DeleteRaises, GraphTypesOK, g
  <1>7. CASE ParseRaises
    <2>1. /\ nodes' \in {nodes, [Written EXCEPT ![g] = @ \cup {disk[g]}]} /\ calls' = calls
          /\ buffer'.nodes = Empty /\ parsed \subseteq parsed' /\ tree' = [tree EXCEPT ![g] = disk[g]]
      BY <1>1, <1>7 DEF ParseRaises, NodesSpilt, GraphTypesOK, Buffers, g
    <2>2. nodes'[f] \in {nodes[f], Written[f], Written[f] \cup {disk[g]}}
      BY <1>1, <2>1, WrittenTypes
    <2>3. f # g => tree'[f] = tree[f]
      BY <1>1, <2>1 DEF GraphTypesOK
    <2> QED
      BY <1>2, <1>3, <2>1, <2>2, <2>3 DEF g
  <1>8. CASE UpdateAt("calls") /\ calls' \in {calls, Empty} /\ UNCHANGED <<parsed, tree, nodes, buffer>>
    BY <1>2, <1>3, <1>8
  <1>9. CASE FlushRaises
    <2>1. /\ nodes' \in {nodes, Written} /\ (buffer'.nodes = Empty)
          /\ parsed' = parsed /\ tree' = tree
      BY <1>1, <1>9 DEF FlushRaises, NodesSpilt, EmptyBuffer, GraphTypesOK, Buffers
    <2>2. nodes'[f] = {} => calls'[f] = {}
      BY <1>2, <1>3, <1>9 DEF FlushRaises, NodesSpilt
    <2> QED
      BY <1>2, <1>3, <2>1, <2>2
  <1> QED
    BY <1>4, <1>5, <1>6, <1>7, <1>8, <1>9 DEF CallsFail, UpdateFails, CallsRaise

LEMMA CallsAfterFailure ==
  ASSUME TypeOK, CallsInv, ParseFails \/ CallsFail \/ UpdateFails
  PROVE  CallsInv'
  <1> DEFINE g == update.event.file
  <1>1. GraphTypesOK
    BY GraphIs
  <1>2. /\ disk' = disk /\ edits' = edits /\ faults' = faults + 1 /\ strayed' = strayed \cup {g}
        /\ update.pc # "free"
    BY DEF ParseFails, CallsFail, UpdateFails, Fault, diskVars, CallsSpilt, DeleteRaises,
           ParseRaises, CallsRaise, FlushRaises, UpdateAt
  <1>3. ASSUME NEW f \in Files, Minded(f)'
        PROVE  /\ f # g /\ Minded(f) /\ buffer.nodes[f] = {}
               /\ nodes'[f] = nodes[f] /\ buffer'.nodes[f] = {} /\ (Known(f)' <=> Known(f))
    <2>1. f \notin strayed' /\ f # g /\ Minded(f)
      BY <1>1, <1>2, <1>3 DEF Minded, GraphTypesOK
    <2>2. buffer.nodes[f] = {}
      BY <2>1 DEF CallsInv, TreesFit
    <2>3. nodes'[f] = nodes[f] /\ buffer'.nodes[f] = {}
      BY <2>1, <2>2, FailureLeaves
    <2> QED
      BY <1>2, <2>1, <2>2, <2>3 DEF Known
  <1>4. TreesFit'
    <2> SUFFICES ASSUME NEW f \in Files, Minded(f)'
                 PROVE  /\ buffer'.nodes[f] = {}
                        /\ Known(f)' => f \in parsed' /\ tree'[f] \in {0, disk'[f]}
      BY DEF TreesFit
    <2>1. Minded(f) /\ f # g /\ buffer'.nodes[f] = {} /\ (Known(f)' <=> Known(f))
      BY <1>3
    <2>2. ASSUME Known(f) PROVE f \in parsed' /\ tree'[f] \in {0, disk[f]}
      <3>1. f \in parsed /\ tree[f] \in {0, disk[f]}
        BY <2>1, <2>2 DEF CallsInv, TreesFit
      <3>2. \A kept : TreesRead(kept)[f] = disk[f]
        BY <2>1, <2>2, PassReadsKnown DEF CallsInv
      <3> QED
        BY <2>1, <3>1, <3>2, FailureEdges
    <2> QED
      BY <1>2, <2>1, <2>2
  <1>5. NothingAhead'
    BY <1>2, FailureEdges DEF NothingAhead, CallsInv
  <1>6. EdgesFit'
    <2>1. \A f \in Files : nodes'[f] = {} => calls'[f] = {}
      BY FailureEdges
    <2>2. CASE ParseFails
      <3>1. /\ update.pc = "parse" /\ update'.pc = "calls" /\ botched' = botched
            /\ buffer'.calls = buffer.calls
        BY <1>1, <2>2 DEF ParseFails, UpdateAt, UpdateGoes, GraphTypesOK, Buffers
      <3> QED
        BY <2>1, <3>1 DEF CallsInv, EdgesFit
    <2>3. CASE CallsFail \/ UpdateFails
      BY <2>1, <2>3 DEF CallsFail, UpdateFails, EdgesFit
    <2> QED
      BY <2>2, <2>3
  <1> QED
    BY <1>4, <1>5, <1>6 DEF CallsInv

LEMMA NextCalls ==
  ASSUME TypeOK, CallsInv, [Next]_vars
  PROVE  CallsInv'
  <1>1. ASSUME NEW f \in Files, Fire(f) \/ TakePending(f)
        PROVE  UNCHANGED <<disk, edits, graphVars, strayed, faults, update>>
    BY <1>1 DEF Fire, TakePending, diskVars
  <1>2. Dispatch \/ Tick \/ UNCHANGED vars =>
          UNCHANGED <<disk, edits, graphVars, strayed, faults, update>>
    BY DEF Dispatch, DispatchNow, DispatchLater, Tick, diskVars, vars, graphVars
  <1>3. ASSUME NEW i \in 1..Len(waiting), BeginUpdate(i)
        PROVE  /\ UNCHANGED <<disk, edits, graphVars, faults>> /\ strayed \subseteq strayed'
               /\ update.pc = "free" /\ update'.pc \in {"free", "delete"}
    BY <1>3 DEF BeginUpdate, UpdateAt, NoUpdate, diskVars
  <1>4. ASSUME UNCHANGED <<disk, edits, graphVars, strayed, faults, update>> PROVE CallsInv'
    BY <1>4, CallsUntouched
  <1> QED
    BY <1>1, <1>2, <1>3, <1>4, CallsUntouched, CallsAfterChange, CallsAfterDelete, CallsAfterParse,
       CallsAfterPass, CallsAfterFlush, CallsAfterFailure DEF Next, Update

\* Between two updates the CALLS edges of every file are those of the version its nodes have, when
\* the first indexing parsed every file: whatever trees were evicted and read again from files
\* that had changed meanwhile, and again after a failed update, once an update has begun with
\* nothing left in the buffer (realtime_updater.py:131-132, 297-370, graph_updater.py:2494-2576).
THEOREM CallsFollowNodes ==
  ASSUME Warm PROVE Spec => []CallsMatchNodes
  <1>1. ASSUME Init PROVE CallsInv
    <2>1. /\ disk \in [Files -> {0, 1}] /\ edits = 0 /\ update.pc = "free"
          /\ parsed = {f \in Files : disk[f] # 0}
          /\ tree = [f \in Files |-> IF f \in parsed THEN disk[f] ELSE 0]
          /\ \A f \in Files : /\ nodes[f] = {disk[f]} \ {0} /\ calls[f] = nodes[f]
                              /\ buffer.nodes[f] = {}
      BY <1>1 DEF Init, Current, NoUpdate, Empty, EmptyBuffer
    <2>2. TreesFit
      BY <2>1 DEF TreesFit, Known
    <2>3. NothingAhead
      <3>1. \A f \in Files : disk[f] \in {0, 1} /\ \A v \in nodes[f] \cup buffer.nodes[f] : v \in {0, 1}
        BY <2>1
      <3> QED
        BY <2>1, <3>1 DEF NothingAhead
    <2>4. EdgesFit
      BY <2>1 DEF EdgesFit, Known
    <2> QED
      BY <2>2, <2>3, <2>4 DEF CallsInv
  <1>2. TypeOK /\ CallsInv /\ [Next]_vars => CallsInv'
    BY NextCalls
  <1>3. ASSUME CallsInv PROVE CallsMatchNodes
    <2> SUFFICES ASSUME ~botched, update.pc = "free", NEW f \in Files, Minded(f),
                        nodes[f] = Current(f)
                 PROVE  calls[f] = nodes[f]
      BY DEF CallsMatchNodes, Minded
    <2>1. nodes[f] = {} => calls[f] = {}
      BY <1>3 DEF CallsInv, EdgesFit
    <2>2. Known(f) => calls[f] = {disk[f]}
      BY <1>3 DEF CallsInv, EdgesFit
    <2> QED
      BY <2>1, <2>2 DEF Known, Current
  <1> QED
    BY <1>1, <1>2, <1>3, TypeCorrect, PTL DEF Spec

(***************************************************************************)
(* ToolBuild: for every set of processes, any number of tries and kills    *)
(***************************************************************************)

Pcs == {"idle", "quit", "final", "launch"} \cup Waiting \cup Holding \cup Ended

\* A process that stands somewhere, has or has not the file open, and has some tries left.
LEMMA ProcessIs ==
  ASSUME NEW r \in Process
  PROVE  /\ r.pc \in Pcs /\ r.fd \in BOOLEAN /\ r.left \in 0..Tries
         /\ \A pc \in Pcs : [r EXCEPT !.pc = pc] \in Process
         /\ \A pc \in Pcs, fd \in BOOLEAN : [r EXCEPT !.pc = pc, !.fd = fd] \in Process
         /\ \A pc \in Pcs, left \in 0..Tries : [r EXCEPT !.pc = pc, !.left = left] \in Process
  BY DEF Process, Pcs

LEMMA NewProcessIs ==
  ASSUME NEW pc \in Pcs, NEW fd \in BOOLEAN, NEW left \in 0..Tries
  PROVE  [pc |-> pc, fd |-> fd, left |-> left] \in Process
  BY DEF Process, Pcs

LEMMA PcsAre ==
  /\ {"idle", "quit", "final", "launch"} \subseteq Pcs /\ Waiting \subseteq Pcs
  /\ Holding \subseteq Pcs /\ Ended \subseteq Pcs
  BY DEF Pcs

LEMMA TriesAre == 0 \in 0..Tries /\ Tries \in 0..Tries
  BY TriesAssumption

\* A step that only takes a process somewhere else.
LEMMA GoToType ==
  ASSUME BuildTypeOK, NEW w \in Workers, NEW pc \in Pcs, GoTo(w, pc)
  PROVE  /\ proc' \in [Workers -> Process]
         /\ proc'[w].pc = pc /\ proc'[w].fd = proc[w].fd /\ proc'[w].left = proc[w].left
         /\ \A v \in Workers \ {w} : proc'[v] = proc[v]
  <1>1. proc \in [Workers -> Process] /\ proc[w] \in Process
    BY DEF BuildTypeOK
  <1>2. proc' = [proc EXCEPT ![w] = [proc[w] EXCEPT !.pc = pc]]
    BY DEF GoTo
  <1>3. [proc[w] EXCEPT !.pc = pc] \in Process
    BY <1>1, ProcessIs
  <1> QED
    BY <1>1, <1>2, <1>3 DEF Process

-----------------------------------------------------------------------------
(* What each step does to the process that takes it *)

\* The process is a process afterwards, and no other has moved.
Moves(w) ==
  /\ proc' \in [Workers -> Process]
  /\ \A v \in Workers \ {w} : proc'[v] = proc[v]

Becomes(w, r) == proc' = [proc EXCEPT ![w] = r]

LEMMA BecomesMoves ==
  ASSUME BuildTypeOK, NEW w \in Workers, NEW r \in Process, Becomes(w, r)
  PROVE  Moves(w) /\ proc'[w] = r
  BY DEF BuildTypeOK, Becomes, Moves

LEMMA BeginMoves ==
  ASSUME BuildTypeOK, NEW w \in Workers, Begin(w)
  PROVE  Moves(w) /\ proc'[w].pc = IF Fresh THEN "launch" ELSE "judge"
  <1> DEFINE r == [pc |-> IF Fresh THEN "launch" ELSE "judge", fd |-> FALSE, left |-> Tries]
  <1>1. r \in Process
    BY NewProcessIs, PcsAre, TriesAre DEF Waiting
  <1>2. Becomes(w, r)
    BY DEF Begin, Becomes
  <1> QED
    BY <1>1, <1>2, BecomesMoves

LEMMA KillMoves ==
  ASSUME BuildTypeOK, NEW w \in Workers, Kill(w)
  PROVE  Moves(w) /\ proc'[w].pc = "idle"
  <1> DEFINE r == [pc |-> "idle", fd |-> FALSE, left |-> Tries]
  <1>1. r \in Process
    BY NewProcessIs, PcsAre, TriesAre
  <1>2. Becomes(w, r)
    BY DEF Kill, Becomes
  <1> QED
    BY <1>1, <1>2, BecomesMoves

LEMMA OpenFileMoves ==
  ASSUME BuildTypeOK, NEW w \in Workers, OpenFile(w)
  PROVE  Moves(w) /\ proc'[w].pc = IF path = "dir" THEN "sleep" ELSE "try"
  <1> DEFINE pc == IF path = "dir" THEN "sleep" ELSE "try"
             fd == path # "dir"
             r == [proc[w] EXCEPT !.pc = pc, !.fd = fd]
  <1>1. proc[w] \in Process /\ pc \in Pcs /\ fd \in BOOLEAN
    BY PcsAre DEF BuildTypeOK, Waiting
  <1> HIDE DEF pc, fd
  <1>2. r \in Process /\ r.pc = pc
    BY <1>1, ProcessIs DEF Process
  <1>3. Becomes(w, r)
    BY DEF OpenFile, Becomes, BuildTypeOK, pc, fd
  <1> QED
    BY <1>2, <1>3, BecomesMoves DEF pc

\* A sleeper has a try left, unless it has used up the last one now.
LEMMA WakeUpMoves ==
  ASSUME BuildTypeOK, NEW w \in Workers, WakeUp(w), proc[w].left > 0
  PROVE  /\ Moves(w)
         /\ \/ proc'[w].pc = "quit" /\ (proc'[w].left > 0 => Fresh) /\ ~proc'[w].fd
            \/ proc'[w].pc = "judge" /\ ~proc[w].fd /\ ~proc'[w].fd /\ proc'[w].left > 0
            \/ proc'[w].pc = "try" /\ proc[w].fd /\ proc'[w].fd /\ proc'[w].left > 0
  <1> DEFINE left == proc[w].left - 1
             again == IF proc[w].fd THEN "try" ELSE "judge"
             r == IF Fresh THEN [proc[w] EXCEPT !.pc = "quit", !.fd = FALSE]
                  ELSE IF left = 0 THEN [pc |-> "quit", fd |-> FALSE, left |-> 0]
                  ELSE [proc[w] EXCEPT !.pc = again, !.left = left]
  <1>1. proc[w] \in Process /\ proc[w].left \in 0..Tries /\ proc[w].fd \in BOOLEAN
    BY ProcessIs DEF BuildTypeOK
  <1>2. Becomes(w, r)
    BY DEF WakeUp, Becomes, BuildTypeOK
  <1>3. CASE Fresh
    <2>1. r \in Process /\ r.pc = "quit" /\ ~r.fd
      BY <1>1, <1>3, ProcessIs, PcsAre DEF Process
    <2> QED
      BY <1>2, <1>3, <2>1, BecomesMoves
  <1>4. CASE ~Fresh /\ left = 0
    <2>1. r \in Process /\ r.pc = "quit" /\ r.left = 0 /\ ~r.fd
      BY <1>4, NewProcessIs, PcsAre, TriesAre
    <2> QED
      BY <1>2, <2>1, BecomesMoves
  <1>5. CASE ~Fresh /\ left # 0
    <2>1. left \in 0..Tries /\ left > 0
      BY <1>1, <1>5, TriesAssumption
    <2>2. again \in Pcs
      BY PcsAre DEF Waiting
    <2> HIDE DEF left, again
    <2>3. r = [proc[w] EXCEPT !.pc = again, !.left = left]
      BY <1>5
    <2>4. r \in Process /\ r.pc = again /\ r.fd = proc[w].fd /\ r.left = left
      BY <1>1, <2>1, <2>2, <2>3, ProcessIs DEF Process
    <2> QED
      BY <1>1, <1>2, <2>1, <2>4, BecomesMoves DEF again
  <1> QED
    BY <1>3, <1>4, <1>5

LEMMA ReleaseMoves ==
  ASSUME BuildTypeOK, NEW w \in Workers, Release(w)
  PROVE  Moves(w) /\ proc'[w].pc \in {"without", "final"} /\ ~proc'[w].fd
  <1> DEFINE pc == IF At(w, "fail") THEN "without" ELSE "final"
             r == [proc[w] EXCEPT !.pc = pc, !.fd = FALSE]
  <1>1. proc[w] \in Process /\ pc \in Pcs /\ pc \in {"without", "final"}
    BY PcsAre DEF BuildTypeOK, Ended
  <1> HIDE DEF pc
  <1>2. r \in Process /\ r.pc = pc /\ ~r.fd
    BY <1>1, ProcessIs DEF Process
  <1>3. Becomes(w, r)
    BY DEF Release, Becomes, BuildTypeOK, pc
  <1> QED
    BY <1>1, <1>2, <1>3, BecomesMoves

-----------------------------------------------------------------------------
(* The invariant *)

\* Who waits has a try left.
TriesLeft == \A w \in Workers : proc[w].pc \in Waiting => proc[w].left > 0

\* Who builds has the lock.
LockIsHeld == \A w \in Workers : proc[w].pc \in Holding => holder = w

\* Who has opened the lock file, has it at the path.
FileIsOpen ==
  \A w \in Workers : proc[w].fd \/ proc[w].pc \in Holding \cup {"try"} => path = "file"

\* The builder of an old version that has told its pid has its directory, and nobody is about to
\* remove that.
OldOwnsDirectory ==
  /\ older = "building" => path = "dir" /\ pidFile
  /\ \A w \in Workers : At(w, "clear") => older = "dead" \/ (aged /\ older # "building")

\* Nobody builds a tool that is whole, and what is published is whole.
BuildersFindNone ==
  \A w \in Workers : proc[w].pc \in {"compile", "write", "publish", "rename"} => tool # "whole"
StagedIsWhole ==
  \A w \in Workers : proc[w].pc \in {"publish", "rename"} => language = "java" /\ staging = "whole"
JavaIsNotTorn == language = "java" => tool # "torn"

LockInv == TriesLeft /\ LockIsHeld /\ FileIsOpen /\ OldOwnsDirectory
ToolInv == BuildersFindNone /\ StagedIsWhole /\ JavaIsNotTorn /\ LaunchedIsWhole
BuildInv == BuildTypeOK /\ LockInv /\ ToolInv

LEMMA InitBuildInv == BuildInit => BuildInv
  <1> SUFFICES ASSUME BuildInit PROVE BuildInv
    OBVIOUS
  <1>1. [pc |-> "idle", fd |-> FALSE, left |-> Tries] \in Process
    BY NewProcessIs, PcsAre, TriesAre
  <1>2. proc \in [Workers -> Process]
    BY <1>1 DEF BuildInit
  <1>3. BuildTypeOK
    <2>1. kills \in 0..MaxKills
      BY MaxKillsAssumption DEF BuildInit
    <2>2. pidFile \in BOOLEAN
      BY DEF BuildInit
    <2> QED
      BY <1>2, <2>1, <2>2 DEF BuildInit, BuildTypeOK
  <1>4. \A w \in Workers : proc[w].pc = "idle" /\ ~proc[w].fd
    BY DEF BuildInit
  <1>5. LockInv
    <2>1. older = "building" => path = "dir" /\ pidFile
      BY DEF BuildInit
    <2> QED
      BY <1>4, <2>1 DEF LockInv, TriesLeft, LockIsHeld, FileIsOpen, OldOwnsDirectory, At,
                        Waiting, Holding
  <1>6. ToolInv
    <2>1. tool # "torn"
      BY DEF BuildInit
    <2> QED
      BY <1>4, <2>1 DEF ToolInv, BuildersFindNone, StagedIsWhole, JavaIsNotTorn,
                        LaunchedIsWhole, At
  <1> QED
    BY <1>3, <1>5, <1>6 DEF BuildInv

-----------------------------------------------------------------------------
(* The steps without the lock *)

LEMMA GoToMoves ==
  ASSUME BuildTypeOK, NEW w \in Workers, NEW pc \in Pcs, GoTo(w, pc)
  PROVE  /\ Moves(w) /\ proc'[w].pc = pc
         /\ proc'[w].fd = proc[w].fd /\ proc'[w].left = proc[w].left
  BY GoToType DEF Moves

LEMMA WaitTypes ==
  ASSUME BuildInv, NEW w \in Workers, Begin(w) \/ Waits(w) \/ LookAgain(w) \/ Launch(w)
  PROVE  BuildTypeOK' /\ Moves(w) /\ UNCHANGED <<language, toolVars, kills, older, aged>>
  <1> USE DEF BuildInv
  <1>1. Moves(w)
    <2>1. ASSUME Begin(w) PROVE Moves(w)
      BY <2>1, BeginMoves
    <2>2. ASSUME Judge(w) PROVE Moves(w)
      BY <2>2, GoToMoves, PcsAre DEF Judge, Waiting
    <2>3. ASSUME Clear(w) PROVE Moves(w)
      BY <2>3, GoToMoves, PcsAre DEF Clear, Waiting
    <2>4. ASSUME OpenFile(w) PROVE Moves(w)
      BY <2>4, OpenFileMoves
    <2>5. ASSUME TryLock(w) PROVE Moves(w)
      BY <2>5, GoToMoves, PcsAre DEF TryLock, Waiting, Holding
    <2>6. ASSUME WakeUp(w) PROVE Moves(w)
      <3>1. proc[w].left > 0
        BY <2>6 DEF WakeUp, LockInv, TriesLeft, At, Waiting
      <3> QED
        BY <2>6, <3>1, WakeUpMoves
    <2>7. ASSUME LookAgain(w) PROVE Moves(w)
      BY <2>7, GoToMoves, PcsAre DEF LookAgain, Ended
    <2>8. ASSUME Launch(w) PROVE Moves(w)
      BY <2>8, GoToMoves, PcsAre DEF Launch, Ended
    <2> QED
      BY <2>1, <2>2, <2>3, <2>4, <2>5, <2>6, <2>7, <2>8 DEF Waits
  <1>2. UNCHANGED <<language, toolVars, kills, older, aged>>
    BY DEF Begin, Waits, LookAgain, Launch, Judge, Clear, OpenFile, TryLock, WakeUp, lockVars
  <1>3. path' \in {"none", "file", "dir"} /\ pidFile' \in BOOLEAN
    BY DEF Begin, Waits, LookAgain, Launch, Judge, Clear, OpenFile, TryLock, WakeUp, lockVars,
           BuildTypeOK
  <1>4. holder' \in Workers \cup {NoWorker}
    BY DEF Begin, Waits, LookAgain, Launch, Judge, Clear, OpenFile, TryLock, WakeUp, BuildTypeOK
  <1>5. proc' \in [Workers -> Process]
    BY <1>1 DEF Moves
  <1>6. BuildTypeOK'
    BY <1>2, <1>3, <1>4, <1>5 DEF BuildTypeOK, toolVars
  <1> QED
    BY <1>1, <1>2, <1>6

LEMMA WaitLockInv ==
  ASSUME BuildInv, NEW w \in Workers, Begin(w) \/ Waits(w) \/ LookAgain(w) \/ Launch(w)
  PROVE  LockInv'
  <1> USE DEF BuildInv
  <1>0. /\ proc[w] \in Process /\ proc[w].fd \in BOOLEAN /\ proc[w].left \in 0..Tries
        /\ proc' \in [Workers -> Process]
        /\ path \in {"none", "file", "dir"} /\ pidFile \in BOOLEAN
        /\ NoWorker \notin Workers
    BY ProcessIs, WaitTypes, NoWorkerAssumption DEF BuildTypeOK
  <1>m. Moves(w) /\ UNCHANGED <<language, toolVars, kills, older, aged>>
    BY WaitTypes
  <1> USE DEF LockInv, TriesLeft, LockIsHeld, FileIsOpen, OldOwnsDirectory, At, Waiting, Holding, Moves
  <1>1. CASE Begin(w)
    <2>1. proc' = [proc EXCEPT ![w] = [pc |-> IF Fresh THEN "launch" ELSE "judge",
                                       fd |-> FALSE, left |-> Tries]]
      BY <1>1 DEF Begin
    <2>2. proc'[w].pc \in {"launch", "judge"} /\ ~proc'[w].fd /\ proc'[w].left = Tries /\ Tries > 0
      BY <1>1, <2>1, TriesAssumption DEF Begin, BuildTypeOK
    <2>3. UNCHANGED <<lockVars, holder>>
      BY <1>1 DEF Begin
    <2> QED
      BY <1>0, <1>m, <2>2, <2>3 DEF lockVars
  <1>2. CASE Judge(w)
    <2>1. /\ proc'[w].pc = (IF path = "dir" /\ Stale THEN "clear" ELSE "open")
          /\ proc'[w].fd = proc[w].fd /\ proc'[w].left = proc[w].left
      BY <1>2, GoToMoves, PcsAre DEF Judge
    <2>2. UNCHANGED <<lockVars, holder>> /\ proc[w].pc = "judge"
      BY <1>2 DEF Judge
    <2> QED
      BY <1>0, <1>m, <2>1, <2>2 DEF lockVars, Stale
  <1>3. CASE Clear(w)
    <2>1. /\ proc'[w].pc = "open"
          /\ proc'[w].fd = proc[w].fd /\ proc'[w].left = proc[w].left
      BY <1>3, GoToMoves, PcsAre DEF Clear
    <2>2. /\ UNCHANGED holder /\ proc[w].pc = "clear"
          /\ path' = (IF path = "dir" THEN "none" ELSE path) /\ older # "building"
      BY <1>3 DEF Clear
    <2> QED
      BY <1>0, <1>m, <2>1, <2>2 DEF lockVars
  <1>4. CASE OpenFile(w)
    <2>1. /\ UNCHANGED <<holder, pidFile>> /\ proc[w].pc = "open"
          /\ path' = IF path = "dir" THEN "dir" ELSE "file"
          /\ proc'[w].pc = IF path = "dir" THEN "sleep" ELSE "try"
      BY <1>4, OpenFileMoves DEF OpenFile
    <2>2. proc'[w].fd = (path # "dir") /\ proc'[w].left = proc[w].left
      BY <1>4, <1>0 DEF OpenFile, BuildTypeOK, Process
    <2> QED
      BY <1>0, <1>m, <2>1, <2>2
  <1>5. CASE TryLock(w)
    <2>1. /\ UNCHANGED lockVars /\ proc[w].pc = "try"
          /\ \/ holder = NoWorker /\ holder' = w /\ proc'[w].pc = "held"
             \/ holder # NoWorker /\ holder' = holder /\ proc'[w].pc = "sleep"
          /\ proc'[w].fd = proc[w].fd /\ proc'[w].left = proc[w].left
      BY <1>5, GoToMoves, PcsAre DEF TryLock
    <2> QED
      BY <1>0, <1>m, <2>1 DEF lockVars
  <1>6. CASE WakeUp(w)
    <2>1. UNCHANGED <<lockVars, holder>> /\ proc[w].pc = "sleep" /\ proc[w].left > 0
      BY <1>6 DEF WakeUp
    <2> QED
      BY <1>0, <1>m, <1>6, <2>1, WakeUpMoves DEF lockVars
  <1>7. CASE LookAgain(w)
    <2>1. /\ proc'[w].pc \in {"launch", "without"} /\ proc'[w].fd = proc[w].fd
          /\ UNCHANGED <<lockVars, holder>>
      BY <1>7, GoToMoves, PcsAre DEF LookAgain, Ended
    <2> QED
      BY <1>0, <1>m, <2>1 DEF lockVars
  <1>8. CASE Launch(w)
    <2>1. /\ proc'[w].pc = "done" /\ proc'[w].fd = proc[w].fd
          /\ UNCHANGED <<lockVars, holder>>
      BY <1>8, GoToMoves, PcsAre DEF Launch, Ended
    <2> QED
      BY <1>0, <1>m, <2>1 DEF lockVars
  <1> QED
    BY <1>1, <1>2, <1>3, <1>4, <1>5, <1>6, <1>7, <1>8 DEF Waits

LEMMA WaitToolInv ==
  ASSUME BuildInv, NEW w \in Workers, Begin(w) \/ Waits(w) \/ LookAgain(w) \/ Launch(w)
  PROVE  ToolInv'
  <1> USE DEF BuildInv
  <1>1. /\ Moves(w) /\ UNCHANGED <<language, toolVars>>
        /\ proc' \in [Workers -> Process]
    BY WaitTypes DEF BuildTypeOK
  <1>2. proc'[w].pc \in {"launch", "quit"} \cup Waiting \cup Ended \cup {"held"}
    <2>1. ASSUME WakeUp(w) PROVE proc'[w].pc \in {"quit", "try", "judge"}
      <3>1. proc[w].left > 0
        BY <2>1 DEF WakeUp, LockInv, TriesLeft, At, Waiting
      <3> QED
        BY <2>1, <3>1, WakeUpMoves
    <2>2. ASSUME Begin(w) \/ OpenFile(w) PROVE proc'[w].pc \in {"launch", "judge", "sleep", "try"}
      BY <2>2, BeginMoves, OpenFileMoves
    <2>3. ASSUME Judge(w) PROVE proc'[w].pc \in {"clear", "open"}
      BY <2>3, GoToMoves, PcsAre DEF Judge, Waiting
    <2>4. ASSUME Clear(w) PROVE proc'[w].pc = "open"
      BY <2>4, GoToMoves, PcsAre DEF Clear, Waiting
    <2>5. ASSUME TryLock(w) PROVE proc'[w].pc \in {"held", "sleep"}
      BY <2>5, GoToMoves, PcsAre DEF TryLock, Waiting, Holding
    <2>6. ASSUME LookAgain(w) PROVE proc'[w].pc \in {"launch", "without"}
      BY <2>6, GoToMoves, PcsAre DEF LookAgain, Ended
    <2>7. ASSUME Launch(w) PROVE proc'[w].pc = "done"
      BY <2>7, GoToMoves, PcsAre DEF Launch, Ended
    <2> QED
      BY <2>1, <2>2, <2>3, <2>4, <2>5, <2>6, <2>7 DEF Waits, Waiting, Ended
  <1>3. proc'[w].pc = "launch" \/ (proc'[w].pc = "quit" /\ proc'[w].left > 0) => Fresh
    <2>1. ASSUME WakeUp(w)
          PROVE  \/ proc'[w].pc = "quit" /\ (proc'[w].left > 0 => Fresh)
                 \/ proc'[w].pc \in {"try", "judge"}
      <3>1. proc[w].left > 0
        BY <2>1 DEF WakeUp, LockInv, TriesLeft, At, Waiting
      <3> QED
        BY <2>1, <3>1, WakeUpMoves
    <2>2. ASSUME Begin(w) \/ OpenFile(w)
          PROVE proc'[w].pc \in {"judge", "sleep", "try"} \/ (Fresh /\ proc'[w].pc = "launch")
      BY <2>2, BeginMoves, OpenFileMoves
    <2>3. ASSUME Judge(w) PROVE proc'[w].pc \in {"clear", "open"}
      BY <2>3, GoToMoves, PcsAre DEF Judge, Waiting
    <2>4. ASSUME Clear(w) PROVE proc'[w].pc = "open"
      BY <2>4, GoToMoves, PcsAre DEF Clear, Waiting
    <2>5. ASSUME TryLock(w) PROVE proc'[w].pc \in {"held", "sleep"}
      BY <2>5, GoToMoves, PcsAre DEF TryLock, Waiting, Holding
    <2>6. ASSUME LookAgain(w) PROVE proc'[w].pc = IF Fresh THEN "launch" ELSE "without"
      BY <2>6, GoToMoves, PcsAre DEF LookAgain, Ended
    <2>7. ASSUME Launch(w) PROVE proc'[w].pc = "done"
      BY <2>7, GoToMoves, PcsAre DEF Launch, Ended
    <2> QED
      BY <2>1, <2>2, <2>3, <2>4, <2>5, <2>6, <2>7 DEF Waits
  <1>4. language = "java" /\ Fresh => tool = "whole"
    BY DEF Fresh, ToolInv, JavaIsNotTorn
  <1>5. BuildersFindNone' /\ StagedIsWhole' /\ JavaIsNotTorn'
    BY <1>1, <1>2 DEF ToolInv, BuildersFindNone, StagedIsWhole, JavaIsNotTorn, Moves, toolVars,
                      Waiting, Ended
  <1>6. LaunchedIsWhole'
    BY <1>1, <1>3, <1>4 DEF ToolInv, LaunchedIsWhole, Moves, toolVars, At
  <1> QED
    BY <1>5, <1>6 DEF ToolInv

-----------------------------------------------------------------------------
(* The steps with the lock *)

\* Where a builder goes.
LEMMA BuilderMoves ==
  ASSUME BuildInv, NEW w \in Workers, Compiles(w) \/ Builds(w)
  PROVE  /\ Moves(w) /\ proc[w].pc \in Holding /\ holder = w
         /\ UNCHANGED <<language, lockVars, kills>>
         /\ \/ proc'[w].pc \in Holding /\ holder' = w /\ proc'[w].fd = proc[w].fd
            \/ proc'[w].pc \in {"without", "final"} /\ holder' = NoWorker /\ ~proc'[w].fd
  <1> USE DEF BuildInv
  <1>1. /\ proc[w].pc \in Holding /\ UNCHANGED <<language, lockVars, kills>>
        /\ Release(w) \/ UNCHANGED holder
    BY DEF Compiles, Builds, CompilerWrites, CompilerEnds, CompilerFails, Recheck, RemoveOld,
           Publish, PublishFails, Release, At, Holding
  <1>2. holder = w
    BY <1>1 DEF LockInv, LockIsHeld
  <1>3. CASE Release(w)
    <2>1. holder' = NoWorker
      BY <1>3 DEF Release
    <2> QED
      BY <1>1, <1>2, <1>3, <2>1, ReleaseMoves
  <1>4. CASE ~Release(w)
    <2>1. PICK pc \in Holding : GoTo(w, pc)
      BY <1>4 DEF Compiles, Builds, CompilerWrites, CompilerEnds, CompilerFails, Recheck, RemoveOld,
                  Publish, PublishFails, Holding
    <2>2. Moves(w) /\ proc'[w].pc = pc /\ proc'[w].fd = proc[w].fd
      BY <2>1, GoToMoves, PcsAre
    <2> QED
      BY <1>1, <1>2, <1>4, <2>2
  <1> QED
    BY <1>3, <1>4

LEMMA BuilderTypes ==
  ASSUME BuildInv, NEW w \in Workers, Compiles(w) \/ Builds(w)
  PROVE  BuildTypeOK'
  <1> USE DEF BuildInv
  <1>1. proc' \in [Workers -> Process] /\ holder' \in Workers \cup {NoWorker}
    BY BuilderMoves DEF Moves
  <1>2. tool' \in {"none", "old", "torn", "whole"} /\ staging' \in {"none", "empty", "torn", "whole"}
    <2>1. ASSUME Publish(w) PROVE tool' = "whole" /\ staging' = "none"
      BY <2>1 DEF Publish, ToolInv, StagedIsWhole, At
    <2> QED
      BY <2>1 DEF Compiles, Builds, CompilerWrites, CompilerEnds, CompilerFails, Recheck, RemoveOld,
                  PublishFails, Release, toolVars, BuildTypeOK
  <1> QED
    BY <1>1, <1>2, BuilderMoves DEF BuildTypeOK, lockVars

LEMMA BuilderLockInv ==
  ASSUME BuildInv, NEW w \in Workers, Compiles(w) \/ Builds(w)
  PROVE  LockInv'
  BY BuilderMoves, NoWorkerAssumption
  DEF BuildInv, LockInv, TriesLeft, LockIsHeld, FileIsOpen, OldOwnsDirectory, At, Waiting, Holding,
      Moves, lockVars

LEMMA BuilderToolInv ==
  ASSUME BuildInv, NEW w \in Workers, Compiles(w) \/ Builds(w)
  PROVE  ToolInv' /\ (tool = "whole" => tool' = "whole")
  <1> USE DEF BuildInv
  <1>1. /\ Moves(w) /\ UNCHANGED language /\ proc[w].pc \in Holding
        /\ \A v \in Workers \ {w} : proc[v].pc \notin Holding /\ proc'[v] = proc[v]
    BY BuilderMoves DEF Moves, LockInv, LockIsHeld
  <1>2. \A v \in Workers \ {w} : proc'[v].pc \notin Holding
    BY <1>1
  <1>3. tool = "whole" => tool' = "whole"
    BY DEF Compiles, Builds, CompilerWrites, CompilerEnds, CompilerFails, Recheck, RemoveOld,
           Publish, PublishFails, Release, toolVars, ToolInv, BuildersFindNone, StagedIsWhole, At
  <1>4. JavaIsNotTorn'
    BY <1>1 DEF Compiles, Builds, CompilerWrites, CompilerEnds, CompilerFails, Recheck, RemoveOld,
           Publish, PublishFails, Release, toolVars, ToolInv, JavaIsNotTorn, StagedIsWhole, At
  <1>5. /\ proc'[w].pc \notin {"launch", "quit"}
        /\ proc'[w].pc \in {"compile", "write", "publish", "rename"} => tool' # "whole"
        /\ proc'[w].pc \in {"publish", "rename"} => language = "java" /\ staging' = "whole"
    <2>1. ASSUME Recheck(w)
          PROVE  /\ proc'[w].pc = IF Fresh THEN "release" ELSE "compile"
                 /\ UNCHANGED tool
      BY <2>1, GoToMoves, PcsAre DEF Recheck, Holding
    <2>2. ASSUME CompilerWrites(w)
          PROVE  proc'[w].pc = "write" /\ (tool' = tool \/ tool' = "torn") /\ tool # "whole"
      BY <2>2, GoToMoves, PcsAre DEF CompilerWrites, Holding, ToolInv, BuildersFindNone, At
    <2>3. ASSUME CompilerEnds(w)
          PROVE  \/ proc'[w].pc = "publish" /\ language = "java" /\ staging' = "whole" /\ tool' = tool
                    /\ tool # "whole"
                 \/ proc'[w].pc = "release"
      BY <2>3, GoToMoves, PcsAre DEF CompilerEnds, Holding, ToolInv, BuildersFindNone, At
    <2>4. ASSUME CompilerFails(w) \/ PublishFails(w) PROVE proc'[w].pc = "fail"
      BY <2>4, GoToMoves, PcsAre DEF CompilerFails, PublishFails, Holding
    <2>5. ASSUME RemoveOld(w)
          PROVE  /\ proc'[w].pc = "rename" /\ tool' = "none"
                 /\ language = "java" /\ staging' = "whole"
      BY <2>5, GoToMoves, PcsAre DEF RemoveOld, Holding, ToolInv, StagedIsWhole, At
    <2>6. ASSUME Publish(w) PROVE proc'[w].pc = "release"
      BY <2>6, GoToMoves, PcsAre DEF Publish, Holding
    <2>7. ASSUME Release(w) PROVE proc'[w].pc \in {"without", "final"}
      BY <2>7, ReleaseMoves
    <2> QED
      BY <2>1, <2>2, <2>3, <2>4, <2>5, <2>6, <2>7 DEF Compiles, Builds, Fresh
  <1>6. BuildersFindNone' /\ StagedIsWhole'
    BY <1>1, <1>2, <1>5 DEF BuildersFindNone, StagedIsWhole, Holding
  <1>7. LaunchedIsWhole'
    BY <1>1, <1>3, <1>5 DEF LaunchedIsWhole, ToolInv, At
  <1> QED
    BY <1>3, <1>4, <1>6, <1>7 DEF ToolInv

-----------------------------------------------------------------------------
(* Kills and the old builder *)

LEMMA KillInv ==
  ASSUME BuildInv, NEW w \in Workers, Kill(w)
  PROVE  BuildInv'
  <1> USE DEF BuildInv
  <1>1. Moves(w) /\ proc'[w].pc = "idle"
    BY KillMoves
  <1>2. ~proc'[w].fd
    BY DEF Kill, BuildTypeOK
  <1>3. /\ UNCHANGED <<language, lockVars, toolVars>>
        /\ holder' = IF holder = w THEN NoWorker ELSE holder
        /\ kills' \in 0..MaxKills
    BY MaxKillsAssumption DEF Kill, BuildTypeOK
  <1>4. BuildTypeOK'
    BY <1>1, <1>3 DEF BuildTypeOK, Moves, lockVars, toolVars
  <1>5. LockInv'
    BY <1>1, <1>2, <1>3, NoWorkerAssumption
    DEF LockInv, TriesLeft, LockIsHeld, FileIsOpen, OldOwnsDirectory, At, Waiting, Holding, Moves,
        lockVars
  <1>6. ToolInv'
    BY <1>1, <1>3
    DEF ToolInv, BuildersFindNone, StagedIsWhole, JavaIsNotTorn, LaunchedIsWhole, At, Moves, toolVars
  <1> QED
    BY <1>4, <1>5, <1>6

LEMMA OldBuilderInv ==
  ASSUME BuildInv, OldBuilder
  PROVE  BuildInv' /\ UNCHANGED tool
  <1> USE DEF BuildInv
  <1>1. UNCHANGED <<language, holder, toolVars, proc, kills>>
    BY DEF OldBuilder, OldWritesPid, OldEnds, OldDies, DirectoryAges
  <1>2. BuildTypeOK'
    BY <1>1 DEF OldBuilder, OldWritesPid, OldEnds, OldDies, DirectoryAges, BuildTypeOK, toolVars
  <1>3. LockInv'
    BY <1>1 DEF OldBuilder, OldWritesPid, OldEnds, OldDies, DirectoryAges, LockInv, TriesLeft,
                LockIsHeld, FileIsOpen, OldOwnsDirectory, At, Waiting, Holding
  <1>4. ToolInv'
    BY <1>1 DEF ToolInv, BuildersFindNone, StagedIsWhole, JavaIsNotTorn, LaunchedIsWhole, At,
                toolVars
  <1> QED
    BY <1>1, <1>2, <1>3, <1>4 DEF toolVars

LEMMA StepBuildInv ==
  BuildInv /\ [BuildNext]_buildVars => BuildInv' /\ (tool = "whole" => tool' = "whole")
  <1> SUFFICES ASSUME BuildInv, [BuildNext]_buildVars
               PROVE  BuildInv' /\ (tool = "whole" => tool' = "whole")
    OBVIOUS
  <1>1. ASSUME NEW w \in Workers, Begin(w) \/ Waits(w) \/ LookAgain(w) \/ Launch(w)
        PROVE  BuildInv' /\ UNCHANGED tool
    BY <1>1, WaitTypes, WaitLockInv, WaitToolInv DEF BuildInv, toolVars
  <1>2. ASSUME NEW w \in Workers, Compiles(w) \/ Builds(w)
        PROVE  BuildInv' /\ (tool = "whole" => tool' = "whole")
    BY <1>2, BuilderTypes, BuilderLockInv, BuilderToolInv DEF BuildInv
  <1>3. ASSUME NEW w \in Workers, Kill(w) PROVE BuildInv' /\ UNCHANGED tool
    BY <1>3, KillInv DEF Kill, toolVars
  <1>4. CASE UNCHANGED buildVars
    BY <1>4 DEF buildVars, lockVars, toolVars, BuildInv, BuildTypeOK, LockInv, TriesLeft, LockIsHeld,
                FileIsOpen, OldOwnsDirectory, ToolInv, BuildersFindNone, StagedIsWhole,
                JavaIsNotTorn, LaunchedIsWhole, At
  <1> QED
    BY <1>1, <1>2, <1>3, <1>4, OldBuilderInv DEF BuildNext, Goes

-----------------------------------------------------------------------------
(* The theorems *)

\* The parts of the shared build have the forms they should have (build_lock.py).
THEOREM BuildTypes == BuildSpec => []BuildTypeOK
  <1>1. BuildInv => BuildTypeOK
    BY DEF BuildInv
  <1> QED
    BY <1>1, InitBuildInv, StepBuildInv, PTL DEF BuildSpec

\* Whoever is killed in a build, a process of the Java frontend runs a tool that was compiled to
\* its end (java_frontend/frontend.py _compile_tool).
THEOREM OnlyWholeIsLaunched == BuildSpec => []LaunchedIsWhole
  <1>1. BuildInv => LaunchedIsWhole
    BY DEF BuildInv, ToolInv
  <1> QED
    BY <1>1, InitBuildInv, StepBuildInv, PTL DEF BuildSpec

\* A whole tool is never built again (java_frontend/frontend.py _build_tool, build_lock.py).
THEOREM BuiltOnce == BuildSpec => WholeStays
  <1>1. BuildInv /\ [BuildNext]_buildVars => [tool = "whole" => tool' = "whole"]_buildVars
    BY StepBuildInv
  <1> QED
    BY <1>1, InitBuildInv, StepBuildInv, PTL DEF BuildSpec, WholeStays

\* Nobody builds beside a living builder of an old version (build_lock.py
\* _clear_stale_legacy_lock_dir).
THEOREM OldBuilderIsAlone == BuildSpec => []OldBuilderIsRespected
  <1>1. BuildInv => OldBuilderIsRespected
    BY DEF BuildInv, LockInv, OldOwnsDirectory, FileIsOpen, OldBuilderIsRespected
  <1> QED
    BY <1>1, InitBuildInv, StepBuildInv, PTL DEF BuildSpec
=============================================================================
