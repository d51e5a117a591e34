------------------------ MODULE EphemeralDeployment ------------------------
(***************************************************************************)
(* What the README of the program promises of a deployment, without        *)
(* threads, job files or queues: "the analyzed commit can be built in an   *)
(* isolated Docker environment, exposed for inspection, health-probed, and *)
(* automatically expired".  A report asks for one commit; it is then       *)
(* served, exactly as asked and for exactly its time to live, or given up, *)
(* unless the client withdraws it or asks for another commit.              *)
(*                                                                         *)
(* The promise has two exceptions.  Of a report that went astray, because  *)
(* requests for it got into each other's way, it says nothing until the    *)
(* report asks again.  A report that is stuck, because those who move it   *)
(* on are dead, keeps what it has, but nothing need happen to it.          *)
(***************************************************************************)
EXTENDS Naturals

CONSTANTS Reports, Commits, NoCommit, TTL

VARIABLES
  wanted,  \* the commit each report waits for, NoCommit when it waits for none
  served,  \* the commit each report is exposed at, NoCommit when it is not
  left,    \* the time each report's deployment has left
  astray,  \* the reports of which nothing is promised
  stuck,   \* the reports nobody moves on
  withdrawing  \* the reports a client is taking back

vars == <<wanted, served, left, astray, stuck, withdrawing>>
shown == <<wanted, served, left, astray>>

Init ==
  /\ wanted = [r \in Reports |-> NoCommit]
  /\ served = [r \in Reports |-> NoCommit]
  /\ left = [r \in Reports |-> 0]
  /\ astray = {}
  /\ stuck = {}
  /\ withdrawing = {}

\* A report asks for a commit, unless one is being deployed for it.  What it was
\* served by is no longer called so, and it is no longer astray.
Ask(r) ==
  /\ r \notin astray \cup stuck => wanted[r] = NoCommit
  /\ \E c \in Commits : wanted' = [wanted EXCEPT ![r] = c]
  /\ served' = [served EXCEPT ![r] = NoCommit]
  /\ astray' = astray \ {r}
  /\ UNCHANGED left

\* The commit that was asked for, and no other, is up and answers.
Serve(r) ==
  /\ wanted[r] # NoCommit
  /\ wanted' = [wanted EXCEPT ![r] = NoCommit]
  /\ served' = [served EXCEPT ![r] = wanted[r]]
  /\ left' = [left EXCEPT ![r] = TTL]
  /\ UNCHANGED astray

\* It could not be built, started or reached.
GiveUp(r) ==
  /\ wanted[r] # NoCommit
  /\ wanted' = [wanted EXCEPT ![r] = NoCommit]
  /\ UNCHANGED <<served, left, astray>>

\* Its time is over.
Expire(r) ==
  /\ served[r] # NoCommit /\ left[r] = 0
  /\ served' = [served EXCEPT ![r] = NoCommit]
  /\ UNCHANGED <<wanted, left, astray>>

\* The client takes back what is served, or what waits for nobody.
Withdraw(r) ==
  /\ r \in withdrawing \cup withdrawing'
  /\ wanted[r] # NoCommit => r \in stuck
  /\ wanted' = [wanted EXCEPT ![r] = NoCommit]
  /\ served' = [served EXCEPT ![r] = NoCommit]
  /\ UNCHANGED <<left, astray>>

\* A report goes astray, or on from there, by any change of its own.
Stray(r) ==
  /\ astray' = astray \cup {r}
  /\ \A q \in Reports \ {r} : wanted'[q] = wanted[q] /\ served'[q] = served[q]
                              /\ left'[q] = left[q]

Tick ==
  /\ \E r \in Reports : left[r] > 0
  /\ left' = [r \in Reports |-> IF left[r] = 0 THEN 0 ELSE left[r] - 1]
  /\ UNCHANGED <<wanted, served, astray>>

\* Somebody dies, or is there again.
Die == UNCHANGED shown

\* Who is stuck, and what clients take back, is not the deployment's doing: it may
\* change with every step.
Next ==
  /\ stuck' \in SUBSET Reports /\ withdrawing' \in SUBSET Reports
  /\ \/ \E r \in Reports : Ask(r) \/ Serve(r) \/ GiveUp(r) \/ Expire(r) \/ Withdraw(r) \/ Stray(r)
     \/ Tick
     \/ Die

\* A report that is neither astray nor stuck is moved on.
MovesOn(r) == r \notin astray \cup stuck /\ (Serve(r) \/ GiveUp(r))
RunsOut(r) == r \notin astray \cup stuck /\ Expire(r)

Spec ==
  /\ Init /\ [][Next]_vars
  /\ WF_shown(Tick)
  /\ \A r \in Reports : WF_shown(MovesOn(r)) /\ WF_shown(RunsOut(r))
=============================================================================
