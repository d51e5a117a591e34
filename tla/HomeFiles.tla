----------------------------- MODULE HomeFiles -----------------------------
(***************************************************************************)
(* The files of CGR_HOME that every cgr process reads, changes and writes  *)
(* without a lock: state.json with the last sync of each project           *)
(* (src/codebase_rag/cgr_state.py) and a workspace's TOML file with its    *)
(* repositories (src/codebase_rag/workspaces/storage.py).  Writing opens   *)
(* the file, which empties it, and then fills it.  A state file that       *)
(* cannot be read, be it torn or for the moment, counts as empty; a        *)
(* workspace that cannot be read is an error.  `format' says which of the  *)
(* two is looked at.                                                       *)
(***************************************************************************)
EXTENDS Naturals

CONSTANTS
  Commands,      \* processes
  Items,         \* projects, or repositories
  MaxHomeFaults  \* bound: processes killed, and reads and writes that failed

ASSUME HomeBounds == MaxHomeFaults \in Nat

VARIABLES
  format,    \* "state" or "workspace"; never changes
  homeFile,  \* the file: absent, torn or whole, and its items
  command,   \* each process: where it is, what it is to write and to change, whether it met
             \* another or took a file it could not read for an empty one
  homeFaults,\* faults so far
  kept,      \* history: the items of the updates that succeeded
  disturbed  \* history: an update wrote over another one's or over what it could not read, or
             \* did not come to its end

homeVars == <<format, homeFile, command, homeFaults, kept, disturbed>>

HomeFile == [kind : {"none", "torn", "whole"}, items : SUBSET Items]
Command == [pc : {"idle", "loaded", "open", "unlinked"}, items : SUBSET Items,
            adds : SUBSET Items, takes : SUBSET Items, met : BOOLEAN, blind : BOOLEAN]

HomeTypeOK ==
  /\ format \in {"state", "workspace"}
  /\ homeFile \in HomeFile /\ command \in [Commands -> Command]
  /\ homeFaults \in 0..MaxHomeFaults /\ kept \subseteq Items /\ disturbed \in BOOLEAN

NoFile == [kind |-> "none", items |-> {}]
NoCommand ==
  [pc |-> "idle", items |-> {}, adds |-> {}, takes |-> {}, met |-> FALSE, blind |-> FALSE]

HomeInit ==
  /\ format \in {"state", "workspace"}
  /\ homeFile = NoFile /\ command = [p \in Commands |-> NoCommand]
  /\ homeFaults = 0 /\ kept = {} /\ disturbed = FALSE

Is(p, pc) == command[p].pc = pc
Busy == {p \in Commands : ~ Is(p, "idle")}

\* A process has read, and is to write these items; it has met those that are at it too.
Loads(p, items, adds, takes, blind) ==
  command' = [q \in Commands |->
                IF q = p THEN [pc |-> "loaded", items |-> items, adds |-> adds, takes |-> takes,
                               met |-> Busy # {}, blind |-> blind]
                ELSE [command[q] EXCEPT !.met = @ \/ q \in Busy]]

\* record_sync up to _save; what _load makes of the file.
NoItems == {}
StateItems == IF homeFile.kind = "whole" THEN homeFile.items ELSE {}

RecordSync(p, i) ==
  /\ format = "state" /\ Is(p, "idle")
  /\ Loads(p, StateItems \cup {i}, {i}, {}, FALSE)
  /\ UNCHANGED <<format, homeFile, homeFaults, kept, disturbed>>

\* The file is there and cannot be opened or read: _load logs it and gives the empty state.
RecordUnread(p, i) ==
  /\ homeFaults < MaxHomeFaults
  /\ format = "state" /\ Is(p, "idle") /\ homeFile.kind # "none"
  /\ Loads(p, {i}, {i}, {}, TRUE)
  /\ homeFaults' = homeFaults + 1
  /\ UNCHANGED <<format, homeFile, kept, disturbed>>

\* create_workspace; only `overwrite' gets past a file that is there.
CreateWorkspace(p, overwrite) ==
  /\ format = "workspace" /\ Is(p, "idle")
  /\ homeFile.kind = "none" \/ overwrite
  /\ Loads(p, {}, {}, Items, FALSE)
  /\ UNCHANGED <<format, homeFile, homeFaults, kept, disturbed>>

\* add_repo and remove_repo: load_workspace refuses a file that is absent or torn.
AddRepo(p, i) ==
  /\ format = "workspace" /\ Is(p, "idle")
  /\ homeFile.kind = "whole" /\ i \notin homeFile.items
  /\ Loads(p, homeFile.items \cup {i}, {i}, {}, FALSE)
  /\ UNCHANGED <<format, homeFile, homeFaults, kept, disturbed>>

RemoveRepo(p, i) ==
  /\ format = "workspace" /\ Is(p, "idle")
  /\ homeFile.kind = "whole" /\ i \in homeFile.items
  /\ Loads(p, homeFile.items \ {i}, {}, {i}, FALSE)
  /\ UNCHANGED <<format, homeFile, homeFaults, kept, disturbed>>

\* open("w") empties the file, or makes it.
OpenForWriting(p) ==
  /\ Is(p, "loaded")
  /\ homeFile' = [kind |-> "torn", items |-> {}]
  /\ command' = [command EXCEPT ![p].pc = "open"]
  /\ UNCHANGED <<format, homeFaults, kept, disturbed>>

Ends(p) == command' = [command EXCEPT ![p] = NoCommand]

\* Two that have the file open write over each other, in whatever way.
FillFile(p) ==
  /\ Is(p, "open")
  /\ \/ homeFile' = [kind |-> "whole", items |-> command[p].items]
     \/ command[p].met /\ homeFile' = [kind |-> "torn", items |-> {}]
  /\ kept' = (kept \ command[p].takes) \cup command[p].adds
  /\ disturbed' = (disturbed \/ command[p].met \/ command[p].blind)
  /\ Ends(p)
  /\ UNCHANGED <<format, homeFaults>>

\* The file that was filled has no name any more.
FillUnlinked(p) ==
  /\ Is(p, "unlinked")
  /\ Ends(p)
  /\ disturbed' = TRUE
  /\ UNCHANGED <<format, homeFile, homeFaults, kept>>

\* delete_workspace.
DeleteWorkspace(p) ==
  /\ format = "workspace" /\ Is(p, "idle") /\ homeFile.kind # "none"
  /\ homeFile' = NoFile /\ kept' = {}
  /\ command' = [q \in Commands |->
                   IF Is(q, "open") THEN [command[q] EXCEPT !.pc = "unlinked", !.met = TRUE]
                   ELSE [command[q] EXCEPT !.met = @ \/ q \in Busy]]
  /\ disturbed' = (disturbed /\ Busy # {})
  /\ UNCHANGED <<format, homeFaults>>

\* A process is killed, or an OSError ends its update; that of record_sync is only logged.
CommandFails(p) ==
  /\ homeFaults < MaxHomeFaults /\ ~ Is(p, "idle")
  /\ homeFaults' = homeFaults + 1
  /\ Ends(p)
  /\ disturbed' = (disturbed \/ ~ Is(p, "loaded"))
  /\ UNCHANGED <<format, homeFile, kept>>

HomeNext ==
  \E p \in Commands :
    \/ \E i \in Items : RecordSync(p, i) \/ RecordUnread(p, i) \/ AddRepo(p, i) \/ RemoveRepo(p, i)
    \/ \E overwrite \in BOOLEAN : CreateWorkspace(p, overwrite)
    \/ OpenForWriting(p) \/ FillFile(p) \/ FillUnlinked(p) \/ DeleteWorkspace(p) \/ CommandFails(p)

HomeSpec == HomeInit /\ [][HomeNext]_homeVars

-----------------------------------------------------------------------------
(* Property *)

\* What the updates recorded is in the file, and it is whole, unless two of them overlapped, one
\* did not come to its end, or one wrote a state file it had not been able to read - any other
\* update keeps what the earlier ones wrote (cgr_state.py _load and record_sync,
\* workspaces/storage.py add_repo and remove_repo).
RecordedIsKept ==
  ~disturbed /\ Busy = {} => homeFile.kind # "torn" /\ homeFile.items = kept

=============================================================================
