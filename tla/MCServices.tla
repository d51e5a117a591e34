----------------------------- MODULE MCServices -----------------------------
(* What runs for long around the engine, for TLC: the real-time updater,   *)
(* processes that build a frontend's tool, and the sessions of the MCP     *)
(* server.  They share no variable, so a behaviour is one of any of the    *)
(* three: `part' says which, and only its processes have to go on.         *)
EXTENDS RealtimeWatcher, ToolBuild, McpSession

VARIABLE part

serviceVars == <<part, vars, buildVars, sessionVars>>

\* The other parts stand still in one of their initial states.
OtherWatcher == debounce = 0 /\ disk = [f \in Files |-> 0]
OtherBuild == language = "java" /\ path = "none" /\ tool = "none"

ServiceInit ==
  /\ Init /\ BuildInit /\ SessionInit
  /\ \/ part = "watcher" /\ OtherBuild
     \/ part = "build" /\ OtherWatcher
     \/ part = "session" /\ OtherWatcher /\ OtherBuild

ServiceNext ==
  /\ UNCHANGED part
  /\ \/ part = "watcher" /\ Next /\ UNCHANGED <<buildVars, sessionVars>>
     \/ part = "build" /\ BuildNext /\ UNCHANGED <<vars, sessionVars>>
     \/ part = "session" /\ SessionNext /\ UNCHANGED <<vars, buildVars>>

\* The fairness of RealtimeWatcher, ToolBuild and McpSession, each in its own part.
ServiceFairness ==
  /\ WF_vars(part = "watcher" /\ Dispatch)
  /\ \A f \in Files : /\ WF_vars(part = "watcher" /\ Fire(f))
                      /\ WF_vars(part = "watcher" /\ TakePending(f))
  /\ WF_vars(part = "watcher" /\ \E i \in 1..Len(waiting) : BeginUpdate(i))
  /\ WF_vars(part = "watcher" /\ Update)
  /\ WF_vars(part = "watcher" /\ Tick)
  /\ \A w \in Workers :
       /\ WF_buildVars(part = "build" /\ Goes(w))
       /\ WF_buildVars(part = "build" /\ language = "java" /\ Compiles(w))
  /\ \A c \in Clients :
       /\ WF_sessionVars(part = "session" /\ (Works(c) \/ Answer(c)))
       /\ SF_sessionVars(part = "session" /\ Locked(c))

ServiceSpec == ServiceInit /\ [][ServiceNext]_serviceVars /\ ServiceFairness
=============================================================================
