------------------------------ MODULE MCEngine ------------------------------
(* What the engine keeps and computes, for TLC: the graph of a repository, *)
(* the registry of names, the cache of trees, the files of CGR_HOME, the   *)
(* reports of dead and of similar code, and the index of vectors.  They    *)
(* share no variable, so a behaviour is one of any of the seven: `part'    *)
(* says which.                                                             *)
EXTENDS IncrementalSync, FunctionRegistry, AstCache, HomeFiles, DeadCode, MCDuplicates, VectorIndex

CONSTANTS caller, callee

CallerUsesCallee == {<<caller, callee>>}

Def(file, base, leaf, line, col) ==
  [file |-> file, base |-> base, leaf |-> leaf, line |-> line, col |-> col]

\* A class with a method and a function in one file; in another, of the same module, two twins
\* of the function on one line and a method with a signature.
TwoFiles ==
  {Def("a", <<"m", "C">>, "C", 1, 1), Def("a", <<"m", "C", "f">>, "f", 2, 1),
   Def("a", <<"m", "g">>, "g", 3, 1), Def("b", <<"m", "g">>, "g", 4, 1),
   Def("b", <<"m", "g">>, "g", 4, 5), Def("b", <<"m", "C", "f(int)">>, "f", 6, 1)}

SomeEndings == {<<"f">>, <<"g">>, <<"C", "f">>}

\* Three functions, of which one is decorated and one a test, and a class below a base class:
\* calls, closures, a class made by the test and a component, there or not, and an overrider.
CONSTANTS main, inner, probe, hooked, basic, Base, Derived

SomePrograms ==
  {[calls |-> calls, builds |-> {<<hooked, Base>>}, inherits |-> {<<Derived, Base>>},
    defines |-> defines, members |-> {<<Derived, hooked>>, <<Base, basic>>},
    overrides |-> {<<hooked, basic>>}, loaded |-> {loaded},
    loadedByTests |-> {probe}, tests |-> {probe}, rooted |-> {}, decorated |-> {inner},
    protocols |-> {}, components |-> components, hooks |-> {hooked}, generated |-> {}] :
      calls \in SUBSET {<<main, basic>>, <<hooked, probe>>, <<inner, main>>},
      defines \in SUBSET {<<main, inner>>, <<probe, Derived>>},
      loaded \in {main, basic}, components \in SUBSET {Base}}

VARIABLE part

engineVars == <<part, syncVars, registryVars, cacheVars, homeVars, deadVars, dupVars, indexVars>>

\* The other parts stand still in one of their initial states.
OtherSync == disk = Nothing
OtherCache == \A w \in Weights : weight <= w
OtherHome == format = "state"
OtherDead == /\ withTests /\ withClasses /\ program.components = {} /\ program.calls = {}
             /\ program.defines = {} /\ program.loaded = {main}
OtherSimilar == scan = Unnested(<<{1}, {2}, {1}>>, 1, 9)

EngineInit ==
  /\ part \in {"sync", "registry", "cache", "home", "dead", "similar", "index"}
  /\ RegistryInit
  /\ SyncInit  /\ (part # "sync" => OtherSync)
  /\ CacheInit /\ (part # "cache" => OtherCache)
  /\ HomeInit  /\ (part # "home" => OtherHome)
  /\ DeadInit  /\ (part # "dead" => OtherDead)
  /\ DupInit   /\ (part # "similar" => OtherSimilar)
  /\ IndexInit

EngineNext ==
  /\ UNCHANGED part
  /\ \/ /\ part = "sync" /\ SyncNext
        /\ UNCHANGED <<registryVars, cacheVars, homeVars, deadVars, dupVars, indexVars>>
     \/ /\ part = "registry" /\ RegistryNext
        /\ UNCHANGED <<syncVars, cacheVars, homeVars, deadVars, dupVars, indexVars>>
     \/ /\ part = "cache" /\ CacheNext
        /\ UNCHANGED <<syncVars, registryVars, homeVars, deadVars, dupVars, indexVars>>
     \/ /\ part = "home" /\ HomeNext
        /\ UNCHANGED <<syncVars, registryVars, cacheVars, deadVars, dupVars, indexVars>>
     \/ /\ part = "dead" /\ DeadNext
        /\ UNCHANGED <<syncVars, registryVars, cacheVars, homeVars, dupVars, indexVars>>
     \/ /\ part = "similar" /\ DupNext
        /\ UNCHANGED <<syncVars, registryVars, cacheVars, homeVars, deadVars, indexVars>>
     \/ /\ part = "index" /\ IndexNext
        /\ UNCHANGED <<syncVars, registryVars, cacheVars, homeVars, deadVars, dupVars>>

EngineSpec == EngineInit /\ [][EngineNext]_engineVars

EngineTypeOK ==
  /\ SyncTypeOK /\ RegistryTypeOK /\ CacheTypeOK /\ HomeTypeOK /\ DeadTypeOK /\ DupTypeOK
  /\ IndexTypeOK
=============================================================================
