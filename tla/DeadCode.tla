------------------------------ MODULE DeadCode ------------------------------
(***************************************************************************)
(* The dead-code report (src/codebase_rag/dead_code.py): from the roots    *)
(* the walk goes over calls and references, once over the decorated        *)
(* closures of what is live, and then in rounds over the classes that live *)
(* functions make and the overriders of live methods.  What is never       *)
(* reached is reported.  The sets that are walked have no order: a walk    *)
(* takes any element that is left.                                         *)
(*                                                                         *)
(* What a symbol is by its name, path and decorators alone is data: a root *)
(* by a rule of its language, test code, generated code, a lifecycle hook. *)
(***************************************************************************)
CONSTANTS Functions, Methods, Classes,
          Programs \* what a graph may hold

Symbols == Functions \cup Methods \cup Classes

\* The sources and targets of the relationships, and what the properties of the symbols say.
IsProgram(p) ==
  /\ p.calls \subseteq Symbols \X Symbols         \* CALLS and REFERENCES
  /\ p.builds \subseteq Symbols \X Classes        \* INSTANTIATES
  /\ p.inherits \subseteq Classes \X Classes
  /\ p.defines \subseteq Symbols \X Symbols       \* by functions and methods
  /\ p.members \subseteq Classes \X Methods       \* DEFINES_METHOD
  /\ p.overrides \subseteq Methods \X Methods     \* the overrider and what it overrides
  /\ p.loaded \subseteq Symbols                   \* called, referenced or made by a module
  /\ p.loadedByTests \subseteq Symbols            \* by a module of tests
  /\ p.tests \subseteq Symbols
  /\ p.rooted \subseteq Symbols                   \* by a rule of its language, decorator or export
  /\ p.decorated \subseteq Symbols
  /\ p.protocols \subseteq Classes                \* typing.Protocol is a base
  /\ p.components \subseteq Classes               \* a React component is a base
  /\ p.hooks \subseteq Methods                    \* named like a lifecycle method of React
  /\ p.generated \subseteq Symbols                \* in a file that is kept out of the report

ASSUME ProgramsAssumption == \A p \in Programs : IsProgram(p)

VARIABLES
  program,
  withTests, withClasses, \* the configuration
  stage,      \* what is being expanded
  stack,      \* what the walk has yet to look at
  react,      \* react_component_classes
  live, added, frontier,
  overriders, \* override_roots
  early,      \* history: what was live when the closures were looked for
  dead        \* the report

deadVars == <<program, withTests, withClasses, stage, stack, react, live, added, frontier,
              overriders, early, dead>>
configVars == <<program, withTests, withClasses>>

DeadTypeOK ==
  /\ withTests \in BOOLEAN /\ withClasses \in BOOLEAN
  /\ stage \in {"components", "calls", "closures", "factories", "overrides", "dispatch", "done"}
  /\ react \subseteq Classes
  /\ stack \subseteq Symbols /\ live \subseteq Symbols /\ added \subseteq Symbols
  /\ frontier \subseteq Symbols /\ overriders \subseteq Methods
  /\ early \subseteq Symbols /\ dead \subseteq Symbols

DeadInit ==
  /\ program \in Programs /\ withTests \in BOOLEAN /\ withClasses \in BOOLEAN
  /\ stage = "components" /\ stack = program.components /\ react = program.components
  /\ live = {} /\ added = {} /\ frontier = {} /\ overriders = {} /\ early = {} /\ dead = {}

-----------------------------------------------------------------------------
(* Candidates and roots *)

\* With tests excluded, test code is not reported; classes are when asked for.
Candidates == {s \in Symbols : /\ s \in Classes => withClasses
                               /\ s \in program.tests => withTests}

Traversed == program.calls \cup IF withClasses THEN program.builds \cup program.inherits ELSE {}

\* The methods of protocols are called through what implements them.
IsRoot(s, components) ==
  \/ s \in program.loaded
  \/ s \in program.loadedByTests /\ withTests
  \/ s \in program.rooted
  \/ \E c \in program.protocols : <<c, s>> \in program.members
  \/ s \in program.hooks /\ \E c \in components : <<c, s>> \in program.members
  \/ s \in program.tests /\ withTests

\* A class below a component is a component.
WalkComponents(c) ==
  /\ stage = "components" /\ c \in stack
  /\ LET new == {d \in Classes \ react : <<d, c>> \in program.inherits} IN
     react' = react \cup new /\ stack' = (stack \ {c}) \cup new
  /\ UNCHANGED <<configVars, stage, live, added, frontier, overriders, early, dead>>

CollectRoots ==
  /\ stage = "components" /\ stack = {}
  /\ stage' = "calls"
  /\ LET roots == {s \in Candidates : IsRoot(s, react)} IN live' = roots /\ stack' = roots
  /\ UNCHANGED <<configVars, react, added, frontier, overriders, early, dead>>

-----------------------------------------------------------------------------
(* Expansion *)

Walks == {"calls", "closures", "factories", "dispatch"}

\* The walks of a round tell what they added, the first two do not.
AddsNothing(new) == added
Adds(new) == IF stage \in {"factories", "dispatch"} THEN added \cup new ELSE added

Walk(s) ==
  /\ stage \in Walks /\ s \in stack
  /\ LET new == {t \in Symbols \ live : <<s, t>> \in Traversed} IN
     /\ live' = live \cup new
     /\ stack' = (stack \ {s}) \cup new
     /\ added' = Adds(new)
  /\ UNCHANGED <<configVars, stage, react, frontier, overriders, early, dead>>

\* The owner's liveness is not asked for.
ClosuresOfAnybody ==
  {c \in (Candidates \cap program.decorated) \ live : \E o \in Symbols : <<o, c>> \in program.defines}

\* A live owner registers its decorated closures.  One round only.
Closures ==
  {c \in (Candidates \cap program.decorated) \ live : \E o \in live : <<o, c>> \in program.defines}

RegisterClosures ==
  /\ stage = "calls" /\ stack = {}
  /\ stage' = "closures"
  /\ live' = live \cup Closures /\ stack' = Closures
  /\ early' = live
  /\ UNCHANGED <<configVars, react, added, frontier, overriders, dead>>

\* What was revived since the last round; everything in the first.
Revived == IF stage = "closures" THEN live ELSE added

RoundOver == stage \in {"closures", "dispatch"} /\ stack = {}

\* The classes made by what was revived are live, and so are their methods.
Factories ==
  /\ RoundOver /\ Revived # {}
  /\ LET made    == {c \in Classes : \E o \in Revived : <<o, c>> \in program.defines}
         methods == {m \in Methods \ live : \E c \in made : <<c, m>> \in program.members} IN
     /\ live' = live \cup made \cup methods
     /\ added' = (made \cup methods) \ live
     /\ stack' = methods
  /\ frontier' = Revived
  /\ stage' = "factories"
  /\ UNCHANGED <<configVars, react, overriders, early, dead>>

LookForOverriders ==
  /\ stage = "factories" /\ stack = {}
  /\ stage' = "overrides"
  /\ stack' = frontier \cup added /\ overriders' = {}
  /\ UNCHANGED <<configVars, react, live, added, frontier, early, dead>>

Override(s) ==
  /\ stage = "overrides" /\ s \in stack
  /\ LET new == {o \in Methods \ (live \cup overriders) : <<o, s>> \in program.overrides} IN
     overriders' = overriders \cup new /\ stack' = (stack \ {s}) \cup new
  /\ UNCHANGED <<configVars, stage, react, live, added, frontier, early, dead>>

Dispatch ==
  /\ stage = "overrides" /\ stack = {}
  /\ stage' = "dispatch"
  /\ live' = live \cup overriders /\ added' = added \cup overriders /\ stack' = overriders
  /\ UNCHANGED <<configVars, react, frontier, overriders, early, dead>>

Report ==
  /\ RoundOver /\ Revived = {}
  /\ stage' = "done"
  /\ dead' = (Candidates \ live) \ program.generated
  /\ UNCHANGED <<configVars, stack, react, live, added, frontier, overriders, early>>

DeadNext ==
  \/ \E s \in Symbols : WalkComponents(s) \/ Walk(s) \/ Override(s)
  \/ CollectRoots \/ RegisterClosures \/ Factories \/ LookForOverriders \/ Dispatch \/ Report

DeadSpec == DeadInit /\ [][DeadNext]_deadVars

-----------------------------------------------------------------------------
(* Properties *)

\* What the rules ask of a set of live symbols, whatever the order they are applied in.
RootsAreIn(S) ==
  \A s \in Candidates :
    (\A R \in SUBSET Classes :
       /\ program.components \subseteq R
       /\ \A e \in program.inherits : e[2] \in R => e[1] \in R
       => IsRoot(s, R)) => s \in S

ClosuresAreIn(S, owners) ==
  \A e \in program.defines :
    e[1] \in owners /\ e[2] \in Candidates \cap program.decorated => e[2] \in S

FactoriesAreIn(S, owners) ==
  \A e \in program.defines :
    e[1] \in owners /\ e[2] \in Classes =>
      /\ e[2] \in S
      /\ \A m \in Methods : <<e[2], m>> \in program.members => m \in S

OverridersAreIn(S, overridden) ==
  \A e \in program.overrides : e[2] \in overridden => e[1] \in S

Closed(S) ==
  /\ RootsAreIn(S)
  /\ \A e \in Traversed : e[1] \in S => e[2] \in S
  /\ ClosuresAreIn(S, S) /\ FactoriesAreIn(S, S) /\ OverridersAreIn(S, S)

\* Nothing is kept out of the report without a reason: what is live is in every set that has the
\* roots and what they reach by the rules (dead_code.py dead_code_from_graph).
LiveHasReason == \A S \in SUBSET Symbols : live \subseteq S \/ ~Closed(S)

\* A class that a live function makes: the code does not walk on from it.
Escaped(c) == c \in Classes /\ \E o \in live : <<o, c>> \in program.defines

\* Nothing that is reached is reported: at the end the live symbols have the roots and are closed
\* under calls, factories and overriders, in whatever order they fed each other - but for what
\* only an escaped class refers to, and closures whose owner came alive in the rounds
\* (dead_code.py dead_code_from_graph).
ReachedIsAlive ==
  stage = "done" =>
    /\ dead \cap live = {} /\ RootsAreIn(live)
    /\ \A e \in Traversed : e[1] \in live => e[2] \in live \/ Escaped(e[1])
    /\ ClosuresAreIn(live, early) /\ FactoriesAreIn(live, live) /\ OverridersAreIn(live, live)

=============================================================================
