---------------------------- MODULE ReloaderProofs ----------------------------
(***************************************************************************)
(* Between checks of the reloader every plugin that is mounted runs one    *)
(* good set of versions, for every set of plugins, modules and edits.      *)
(*                                                                         *)
(* The invariant says what a check in progress may have changed: modules   *)
(* and instances of affected plugins, while `before' keeps a state to      *)
(* return to.                                                              *)
(***************************************************************************)
EXTENDS Reloader, TLAPS

\* One good set of versions, in the modules and in the instances.
Sound(modules, instances) ==
  \A p \in Plugin :
    /\ instances[p] = IF p \in Mounts[tree] THEN modules[p] ELSE None
    /\ \A m \in Uses[p] : <<m, modules[p][m]>> \notin Bad

\* The modules of affected plugins have been executed, and those instances
\* that are not left to do have been activated from them.
HalfReloaded ==
  /\ todo \subseteq Affected
  /\ \A p \in Plugin \ Affected :
       built[p] = before.built[p] /\ runs[p] = before.runs[p]
  /\ \A p \in Affected :
       /\ built[p] = From(p, got)
       /\ p \notin todo =>
            /\ runs[p] = built[p]
            /\ \A m \in Uses[p] : <<m, got[m]>> \notin Bad

Safe ==
  /\ phase # "reload" => Sound(built, runs)
  /\ phase \in {"exec", "reload"} => Sound(before.built, before.runs)
  /\ phase = "exec" => before.built = built /\ before.runs = runs
  /\ phase = "reload" => HalfReloaded

\* What TypeOK does not say: that functions are functions, and how much of
\* the files has been read.
Versioned(modules) == \A p \in Plugin : \A m \in Uses[p] : modules[p][m] \in 1..src[m]

Typed ==
  /\ TypeOK
  /\ src = [m \in Module |-> src[m]]
  /\ got = [m \in Module |-> got[m]]
  /\ runs = [p \in Plugin |-> runs[p]]
  /\ asked \in (1..Configs) \cup {None}
  /\ phase \in {"exec", "reload"} => 
       /\ Versioned(before.built)
       /\ before.runs = [p \in Plugin |-> before.runs[p]]
  /\ phase \in {"compare", "exec", "reload"} => \A m \in Module : got[m] # 0

IInv == Typed /\ Safe

(***************************************************************************)
(* The initial state and the steps                                         *)
(***************************************************************************)
LEMMA InitHolds == Init => IInv
<1> SUFFICES ASSUME Init PROVE IInv
  OBVIOUS
<1>1. \A p \in Plugin : \A m \in Uses[p] : m \in Module /\ built[p][m] = 1
  BY ReloaderAssumption DEF Init, From
<1>2. TypeOK
  BY <1>1, ReloaderAssumption DEF Init, TypeOK, Unread
<1>3. Typed
  BY <1>2 DEF Init, Typed, Unread
<1>4. Safe
  BY <1>1, ReloaderAssumption DEF Init, Safe, Sound
<1> QED
  BY <1>3, <1>4 DEF IInv

LEMMA EditKeeps ==
  ASSUME IInv, EditConfig \/ AskReload \/ \E m \in Module : EditSource(m)
  PROVE  IInv'
<1>1. Safe'
  <2>1. UNCHANGED <<host, sources, seen, phase, got, todo, before>>
    BY DEF EditConfig, AskReload, EditSource
  <2> QED
    BY <2>1 DEF IInv, Safe, Sound, HalfReloaded, Affected, Changed, host
<1>2. CASE EditConfig \/ AskReload
  <2>1. UNCHANGED <<src, tree, built, runs, sources, phase, got, todo, before>>
    BY <1>2 DEF EditConfig, AskReload, host, files
  <2>2. /\ config' \in 1..Configs
        /\ asked' \in (1..Configs) \cup {None}
        /\ due' \subseteq Module \cup {ConfigFile}
    BY <1>2, ReloaderAssumption DEF EditConfig, AskReload, files, IInv, Typed, TypeOK
  <2>3. TypeOK'
    BY <2>1, <2>2 DEF IInv, Typed, TypeOK
  <2>4. Typed'
    BY <2>1, <2>2, <2>3 DEF IInv, Typed, Versioned
  <2> QED
    BY <1>1, <2>4 DEF IInv
<1>3. ASSUME NEW m \in Module, EditSource(m) PROVE IInv'
  <2>1. src' = [src EXCEPT ![m] = src[m] + 1] /\ src[m] < Versions[m]
    BY <1>3 DEF EditSource
  <2>2. \A n \in Module : /\ src[n] \in Nat /\ Versions[n] \in Nat
                          /\ src'[n] \in 1..Versions[n]
                          /\ src[n] <= src'[n]
    BY <2>1, ReloaderAssumption DEF IInv, Typed, TypeOK
  <2>3. \A p \in Plugin : Uses[p] \subseteq Module
    BY ReloaderAssumption
  <2>4. /\ \A p \in Plugin : \A n \in Uses[p] : built[p][n] \in 1..src'[n]
        /\ \A n \in Module : got[n] \in 0..src'[n]
    BY <2>2, <2>3 DEF IInv, Typed, TypeOK
  <2>5. UNCHANGED <<config, tree, built, runs, sources, seen, phase, got, todo, before, asked>>
    BY <1>3 DEF EditSource, host
  <2>6. phase \in {"exec", "reload"} =>
          \A p \in Plugin : \A n \in Uses[p] : before.built[p][n] \in 1..src'[n]
    BY <2>2, <2>3 DEF IInv, Typed, Versioned
  <2>7. due' \subseteq Module \cup {ConfigFile}
    BY <1>3 DEF EditSource, IInv, Typed, TypeOK
  <2>8. TypeOK'
    BY <2>2, <2>4, <2>5, <2>7 DEF IInv, Typed, TypeOK
  <2>9. Typed'
    BY <2>1, <2>5, <2>6, <2>8 DEF IInv, Typed, Versioned
  <2> QED
    BY <1>1, <2>9 DEF IInv
<1> QED
  BY <1>2, <1>3

\* A configuration is loaded, by hand or by the watcher.
LEMMA LoadedKeeps ==
  ASSUME IInv, phase \in {"idle", "load"}, phase' \in {"idle", "read"},
         NEW c \in 1..Configs, Loaded(c),
         UNCHANGED <<files, seen, got, todo, before>>,
         asked' \in (1..Configs) \cup {None},
         sources' \subseteq Plugin, due' \subseteq due
  PROVE  IInv'
<1>1. Sound(built, runs)
  BY DEF IInv, Safe
<1>2. Sound(built, runs)'
  <2>1. CASE c \in BadConfig
    BY <1>1, <2>1 DEF Loaded, Sound, host
  <2>2. CASE c \notin BadConfig
    <3>1. /\ tree' = c /\ built' = built
          /\ \A p \in Plugin : runs'[p] = CASE p \notin Mounts[c] -> None
                         [] p \in Mounts[c] /\ runs[p] = None -> built[p]
                         [] OTHER -> runs[p]
      BY <2>2 DEF Loaded
    <3>2. \A p \in Plugin : runs[p] # None => runs[p] = built[p]
      BY <1>1 DEF Sound
    <3>3. \A p \in Plugin : runs'[p] = IF p \in Mounts[c] THEN built[p] ELSE None
      BY <3>1, <3>2
    <3> QED
      BY <1>1, <3>1, <3>3 DEF Sound
  <2> QED
    BY <2>1, <2>2
<1>3. built' = built /\ tree' \in 1..Configs /\ runs' = [p \in Plugin |-> runs'[p]]
  BY DEF Loaded, host, IInv, Typed, TypeOK
<1>4. TypeOK'
  BY <1>3 DEF IInv, Typed, TypeOK, files
<1> QED
  BY <1>2, <1>3, <1>4 DEF IInv, Typed, Safe, files

LEMMA ReloadByHandKeeps == ASSUME IInv, ReloadByHand PROVE IInv'
<1>1. asked \in 1..Configs /\ Loaded(asked)
  BY DEF IInv, Typed, ReloadByHand
<1>2. /\ phase = "idle" /\ phase' = "idle" /\ asked' = None /\ sources' = sources
      /\ UNCHANGED <<files, seen, got, todo, before>>
      /\ due' \subseteq due
  BY DEF ReloadByHand, StillDue
<1>3. sources \subseteq Plugin
  BY DEF IInv, Typed, TypeOK
<1> QED
  BY <1>1, <1>2, <1>3, LoadedKeeps

LEMMA LoadConfigKeeps == ASSUME IInv, LoadConfig PROVE IInv'
<1>1. config \in 1..Configs /\ Loaded(config) /\ phase = "load"
  BY DEF IInv, Typed, TypeOK, LoadConfig
<1>2. /\ phase' \in {"idle", "read"} /\ asked' = asked
      /\ UNCHANGED <<files, seen, got, todo, before>>
      /\ due' \subseteq due
  BY DEF LoadConfig, StillDue
<1>3. sources' \subseteq Plugin /\ asked \in (1..Configs) \cup {None}
  BY <1>1, ReloaderAssumption DEF LoadConfig, IInv, Typed, TypeOK
<1> QED
  BY <1>1, <1>2, <1>3, LoadedKeeps

\* A check that looks at the files.
LEMMA LookKeeps ==
  ASSUME IInv, Check \/ Restart \/ OpenBatch \/ \E m \in Module : ReadSource(m)
  PROVE  IInv'
<1>1. CASE Check
  <2>1. UNCHANGED <<config, src, tree, built, runs, sources, got, todo, before, asked, due>>
    BY <1>1 DEF Check, files, host
  <2>2. phase' \in {"load", "read"} /\ phase = "idle"
    BY <1>1 DEF Check
  <2> QED
    BY <2>1, <2>2 DEF IInv, Typed, TypeOK, Safe, Sound
<1>2. CASE Restart
  <2>1. UNCHANGED <<config, src, tree, built, runs, sources, got, todo, before, asked, due>>
    BY <1>2 DEF Restart, files, host
  <2>2. phase' = "ended" /\ phase = "compare"
    BY <1>2 DEF Restart
  <2> QED
    BY <2>1, <2>2 DEF IInv, Typed, TypeOK, Safe, Sound
<1>3. CASE OpenBatch
  <2>1. UNCHANGED <<config, src, tree, built, runs, sources, got, todo, asked, due>>
    BY <1>3 DEF OpenBatch, files, host
  <2>2. phase' = "exec" /\ phase = "compare"
    BY <1>3 DEF OpenBatch
  <2>3. (before.built)' = built /\ (before.runs)' = runs
    BY <1>3 DEF OpenBatch
  <2>4. Typed'
    BY <2>1, <2>2, <2>3 DEF IInv, Typed, TypeOK, Versioned
  <2>5. Safe'
    BY <2>1, <2>2, <2>3 DEF IInv, Safe, Sound
  <2> QED
    BY <2>4, <2>5 DEF IInv
<1>4. ASSUME NEW m \in Module, ReadSource(m) PROVE IInv'
  <2>1. UNCHANGED <<config, src, tree, built, runs, sources, todo, before, asked, due>>
    BY <1>4 DEF ReadSource, files, host
  <2>2. /\ phase = "read" /\ phase' \in {"read", "compare"}
        /\ got' = [got EXCEPT ![m] = src[m]]
        /\ phase' = "compare" => \A n \in Module \ {m} : got[n] # 0
    BY <1>4 DEF ReadSource
  <2>3. /\ \A n \in Module : got'[n] \in 0..src[n] /\ (n # m => got'[n] = got[n])
        /\ got'[m] # 0
    BY <2>2, ReloaderAssumption DEF IInv, Typed, TypeOK
  <2>4. Typed'
    BY <2>1, <2>2, <2>3 DEF IInv, Typed, TypeOK
  <2>5. Safe'
    BY <2>1, <2>2 DEF IInv, Safe, Sound
  <2> QED
    BY <2>4, <2>5 DEF IInv
<1> QED
  BY <1>1, <1>2, <1>3, <1>4

\* A check that fails returns to what there was before it.
LEMMA FailKeeps ==
  ASSUME IInv, phase \in {"exec", "reload"}, Fail,
         UNCHANGED <<files, sources, asked>>, due' \subseteq due
  PROVE  IInv'
<1>1. /\ Sound(before.built, before.runs) /\ Versioned(before.built)
      /\ before.runs = [p \in Plugin |-> before.runs[p]]
  BY DEF IInv, Safe, Typed
<1>2. /\ built' = before.built /\ runs' = before.runs /\ tree' = tree
      /\ phase' = "idle" /\ got' = Unread /\ todo' = {}
      /\ UNCHANGED <<config, src, sources, asked>>
  BY DEF Fail, EndCheck, files
<1>3. \A m \in Module : Unread[m] = 0 /\ src[m] \in Nat
  BY ReloaderAssumption DEF Unread, IInv, Typed, TypeOK
<1>4. TypeOK'
  BY <1>1, <1>2, <1>3 DEF IInv, Typed, TypeOK, Versioned
<1>5. Typed'
  BY <1>1, <1>2, <1>4 DEF IInv, Typed, Unread
<1>6. Safe'
  BY <1>1, <1>2 DEF Safe, Sound
<1> QED
  BY <1>5, <1>6 DEF IInv

LEMMA ExecKeeps == ASSUME IInv, ExecModules PROVE IInv'
<1>1. phase = "exec" /\ UNCHANGED <<files, sources, asked>> /\ due' \subseteq due
  BY DEF ExecModules
<1>2. CASE Fail
  BY <1>1, <1>2, FailKeeps
<1>3. CASE ~Fail
  <2>1. /\ built' = [p \in Plugin |-> IF p \in Affected THEN From(p, got) ELSE built[p]]
        /\ todo' = Affected /\ phase' = "reload"
        /\ UNCHANGED <<tree, runs, seen, got, before>>
    BY <1>3 DEF ExecModules
  <2>2. Affected \subseteq Plugin /\ Affected' = Affected
    BY <1>1, <2>1 DEF Affected, Changed, IInv, Typed, TypeOK
  <2>3. \A p \in Plugin : \A m \in Uses[p] :
          /\ From(p, got)[m] = got[m] /\ got[m] \in 1..src[m]
    BY <1>1, ReloaderAssumption DEF From, IInv, Typed, TypeOK
  <2>4. \A p \in Plugin : \A m \in Uses[p] : built'[p][m] \in 1..src[m]
    BY <2>1, <2>3 DEF IInv, Typed, TypeOK
  <2>5. Typed'
    BY <1>1, <2>1, <2>2, <2>4 DEF IInv, Typed, TypeOK, Versioned, files
  <2>6. Sound(before.built, before.runs)'
    BY <1>1, <2>1 DEF IInv, Safe, Sound
  <2>7. HalfReloaded'
    <3>1. \A p \in Plugin \ Affected :
            built'[p] = before.built[p] /\ runs'[p] = before.runs[p]
      BY <1>1, <2>1 DEF IInv, Safe
    <3>2. \A p \in Affected : built'[p] = From(p, got')
      BY <2>1, <2>2
    <3> QED
      BY <2>1, <2>2, <3>1, <3>2 DEF HalfReloaded
  <2> QED
    BY <2>1, <2>5, <2>6, <2>7 DEF IInv, Safe
<1> QED
  BY <1>2, <1>3

LEMMA ReloadKeeps ==
  ASSUME IInv, NEW p \in Plugin, ReloadPlugin(p)
  PROVE  IInv'
<1>1. /\ phase = "reload" /\ p \in todo
      /\ UNCHANGED <<files, sources, asked, due>>
  BY DEF ReloadPlugin
<1>2. CASE \E m \in Uses[p] : <<m, got[m]>> \in Bad
  BY <1>1, <1>2, FailKeeps DEF ReloadPlugin
<1>3. CASE ~ \E m \in Uses[p] : <<m, got[m]>> \in Bad
  <2>1. /\ runs' = [runs EXCEPT ![p] = built[p]]
        /\ todo' = todo \ {p}
        /\ UNCHANGED <<tree, built, seen, got, phase, before>>
    BY <1>3 DEF ReloadPlugin
  <2>2. Typed'
    BY <1>1, <2>1 DEF IInv, Typed, TypeOK, Versioned, files
  <2>3. HalfReloaded /\ Sound(before.built, before.runs)
    BY <1>1 DEF IInv, Safe
  <2>4. Sound(before.built, before.runs)'
    BY <2>1, <2>3 DEF Sound
  <2>5. Affected' = Affected /\ p \in Affected
    BY <1>1, <2>1, <2>3 DEF Affected, Changed, HalfReloaded
  <2>6. runs'[p] = built[p] /\ \A q \in Plugin : q # p => runs'[q] = runs[q]
    BY <2>1 DEF IInv, Typed
  <2>7. Affected \subseteq Plugin
    BY DEF Affected, IInv, Typed, TypeOK
  <2>8. HalfReloaded'
    BY <1>3, <2>1, <2>3, <2>5, <2>6, <2>7 DEF HalfReloaded
  <2> QED
    BY <1>1, <2>1, <2>2, <2>4, <2>8 DEF IInv, Safe
<1> QED
  BY <1>2, <1>3

LEMMA ReloadedKeeps == ASSUME IInv, Reloaded PROVE IInv'
<1>1. /\ phase = "reload" /\ todo = {} /\ phase' = "idle"
      /\ got' = Unread /\ todo' = {}
      /\ UNCHANGED <<config, src, tree, built, runs, sources, asked, due>>
  BY DEF Reloaded, EndCheck, files, host
<1>2. \A m \in Module : Unread[m] = 0 /\ src[m] \in Nat
  BY ReloaderAssumption DEF Unread, IInv, Typed, TypeOK
<1>3. Typed'
  <2>1. TypeOK'
    BY <1>1, <1>2 DEF IInv, Typed, TypeOK
  <2> QED
    BY <1>1, <2>1 DEF IInv, Typed, Unread
<1>4. HalfReloaded /\ Sound(before.built, before.runs)
  BY <1>1 DEF IInv, Safe
<1>5. Affected \subseteq Plugin \cap Mounts[tree]
  BY DEF Affected, IInv, Typed, TypeOK
<1>6. \A q \in Affected : \A m \in Uses[q] : built[q][m] = got[m]
  BY <1>4 DEF HalfReloaded, From
<1>7. Sound(built, runs)
  <2>1. ASSUME NEW q \in Affected
        PROVE  /\ runs[q] = IF q \in Mounts[tree] THEN built[q] ELSE None
               /\ \A m \in Uses[q] : <<m, built[q][m]>> \notin Bad
    BY <1>1, <1>4, <1>5, <1>6 DEF HalfReloaded
  <2>2. ASSUME NEW q \in Plugin \ Affected
        PROVE  /\ runs[q] = IF q \in Mounts[tree] THEN built[q] ELSE None
               /\ \A m \in Uses[q] : <<m, built[q][m]>> \notin Bad
    BY <1>4 DEF HalfReloaded, Sound
  <2> QED
    BY <2>1, <2>2 DEF Sound
<1>8. Safe'
  BY <1>1, <1>7 DEF Safe, Sound
<1> QED
  BY <1>3, <1>8 DEF IInv

LEMMA NextKeeps == IInv /\ [Next]_vars => IInv'
<1> SUFFICES ASSUME IInv, [Next]_vars PROVE IInv'
  OBVIOUS
<1>1. CASE UNCHANGED vars
  <2>1. Typed'
    BY <1>1 DEF vars, IInv, Typed, TypeOK, Versioned
  <2>2. Safe'
    BY <1>1 DEF vars, IInv, Safe, Sound, HalfReloaded, Affected, Changed
  <2> QED
    BY <2>1, <2>2 DEF IInv
<1>2. CASE Watcher
  BY <1>2, LoadConfigKeeps, LookKeeps, ExecKeeps, ReloadKeeps, ReloadedKeeps
     DEF Watcher
<1> QED
  BY <1>1, <1>2, EditKeeps, ReloadByHandKeeps DEF Next

(***************************************************************************)
(* Theorems                                                                *)
(***************************************************************************)
\* The inductive invariant of the watcher among editors.
THEOREM ReloaderInvariance == Spec => []IInv
<1>1. Init => IInv
  BY InitHolds
<1>2. IInv /\ [Next]_vars => IInv'
  BY NextKeeps
<1> QED
  BY <1>1, <1>2, PTL DEF Spec

\* The variables of the reloader have their types.
THEOREM ReloaderTypes == Spec => []TypeOK
<1>1. IInv => TypeOK
  BY DEF IInv, Typed
<1> QED
  BY <1>1, ReloaderInvariance, PTL

\* A check that fails half way, at whatever module or instance, leaves the
\* plugins as they were.
THEOREM LastGoodRunsHolds == Spec => []LastGoodRuns
<1>1. IInv => LastGoodRuns
  BY DEF IInv, Safe, Sound, LastGoodRuns
<1> QED
  BY <1>1, ReloaderInvariance, PTL
=============================================================================
