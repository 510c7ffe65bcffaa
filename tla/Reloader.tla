------------------------------ MODULE Reloader ------------------------------
(***************************************************************************)
(* SourceReloader (bootstrap/reload.py): a watcher that polls the          *)
(* configuration file and the source files of the plugins that run, loads  *)
(* a configuration that has changed, and executes and reloads sources that *)
(* have changed, all in one transaction of the host.  Files are edited at  *)
(* any time, and the user may reload the configuration by hand.            *)
(*                                                                         *)
(* A file's contents are a number, and every edit makes it larger: an      *)
(* editor never goes back to an earlier text.  Every plugin has been       *)
(* imported and registered when the watcher starts.                        *)
(***************************************************************************)
EXTENDS Naturals

CONSTANTS
  Plugin,     \* external plugins, one instance of each
  Module,     \* the source files that are watched
  Uses,       \* the modules a plugin is made of, Source.modules
  Framework,  \* modules that need a restart, _restart
  Versions,   \* how often each file is written
  Bad,        \* the <<module, version>> that do not import or activate
  Configs,    \* how often the configuration file is written
  Mounts,     \* the plugins each configuration mounts
  BadConfig,  \* the configurations that cannot be loaded
  ConfigFile, \* the configuration, beside the modules
  None        \* nothing

ASSUME ReloaderAssumption ==
  /\ Uses \in [Plugin -> SUBSET (Module \ Framework)]
  /\ Versions \in [Module -> Nat \ {0}]
  /\ Configs \in Nat \ {0}
  /\ Mounts \in [1..Configs -> SUBSET Plugin]
  /\ Mounts[1] = Plugin /\ 1 \notin BadConfig
  /\ \A m \in Module : <<m, 1>> \notin Bad
  /\ ConfigFile \notin Module

VARIABLES
  config,   \* what is in the configuration file
  src,      \* what is in each source file
  tree,     \* the configuration the loader has applied
  sources,  \* the plugins registered with the reloader, _sources
  seen,     \* the digests: of the configuration and of each module
  built,    \* what the plugin's module in sys.modules was executed from
  runs,     \* what the plugin's instance was activated from
  phase,    \* what the watcher does; it holds the host's gate unless "idle"
  got,      \* what it has read in this check
  todo,     \* the plugins that are left to reload
  before,   \* what the host's batch and the check restore
  asked,    \* the configuration /reload has read and is to apply
  due       \* (history) the files that were edited and have not been tried

vars == <<config, src, tree, sources, seen, built, runs, phase, got, todo,
          before, asked, due>>
files == <<config, src>>
host == <<tree, built, runs>>

Unread == [m \in Module |-> 0]
From(p, text) == [m \in Uses[p] |-> text[m]]
Used == UNION {Uses[p] : p \in sources \cap Mounts[tree]}

TypeOK ==
  /\ config \in 1..Configs
  /\ \A m \in Module : src[m] \in 1..Versions[m]
  /\ tree \in 1..Configs
  /\ sources \subseteq Plugin
  /\ \A p \in Plugin : \A m \in Uses[p] : built[p][m] \in 1..src[m]
  /\ phase \in {"idle", "load", "read", "compare", "exec", "reload", "ended"}
  /\ \A m \in Module : got[m] \in 0..src[m]
  /\ todo \subseteq Plugin
  /\ due \subseteq Module \cup {ConfigFile}

\* open_dynamic() loads the configuration and registers what it has mounted.
Init ==
  /\ config = 1
  /\ src = [m \in Module |-> 1]
  /\ tree = 1
  /\ sources = Plugin
  /\ seen = [config |-> 1, src |-> src]
  /\ built = [p \in Plugin |-> From(p, src)]
  /\ runs = built
  /\ phase = "idle"
  /\ got = Unread
  /\ todo = {}
  /\ before = None
  /\ asked = None
  /\ due = {}

(***************************************************************************)
(* Editors and the user                                                    *)
(***************************************************************************)
EditConfig ==
  /\ config < Configs
  /\ config' = config + 1
  /\ due' = due \cup {ConfigFile}
  /\ UNCHANGED <<src, host, sources, seen, phase, got, todo, before, asked>>

EditSource(m) ==
  /\ src[m] < Versions[m]
  /\ src' = [src EXCEPT ![m] = @ + 1]
  /\ due' = IF m \in Used THEN due \cup {m} ELSE due
  /\ UNCHANGED <<config, host, sources, seen, phase, got, todo, before, asked>>

\* loader.load(c): nothing changes if it fails.  What stays mounted is left
\* alone; what is mounted anew is what sys.modules has.
Loaded(c) ==
  IF c \in BadConfig
    THEN UNCHANGED host
    ELSE /\ tree' = c
         /\ runs' = [p \in Plugin |->
                       CASE p \notin Mounts[c] -> None
                         [] p \in Mounts[c] /\ runs[p] = None -> built[p]
                         [] OTHER -> runs[p]]
         /\ UNCHANGED built

\* Nobody waits for an edit of a plugin that has been taken down.
StillDue(now) ==
  due' = {f \in due : f # now /\ (f = ConfigFile \/ f \in Used')}

\* /reload reads the file, waits for the gate and applies what it has read;
\* neither the digest nor the registered plugins change.
AskReload ==
  /\ asked = None
  /\ asked' = config
  /\ due' = due \ {ConfigFile}
  /\ UNCHANGED <<files, host, sources, seen, phase, got, todo, before>>

ReloadByHand ==
  /\ asked # None
  /\ phase = "idle"
  /\ Loaded(asked)
  /\ asked' = None
  /\ UNCHANGED <<files, sources, seen, phase, got, todo, before>>
  /\ StillDue(None)

(***************************************************************************)
(* check(), inside host.transaction()                                      *)
(***************************************************************************)
\* The digest of the configuration is recorded before it is loaded.
Check ==
  /\ phase = "idle"
  /\ seen' = [seen EXCEPT !.config = config]
  /\ phase' = IF config # seen.config THEN "load" ELSE "read"
  /\ UNCHANGED <<files, host, sources, got, todo, before, asked, due>>

\* load() reads the file again.  A load that fails ends the check: sources
\* are looked at by the next one.
LoadConfig ==
  /\ phase = "load"
  /\ Loaded(config)
  /\ sources' = IF config \in BadConfig THEN sources ELSE Mounts[config]
  /\ phase' = IF config \in BadConfig THEN "idle" ELSE "read"
  /\ StillDue(ConfigFile)
  /\ UNCHANGED <<files, seen, got, todo, before, asked>>

ReadSource(m) ==
  /\ phase = "read"
  /\ got[m] = 0
  /\ got' = [got EXCEPT ![m] = src[m]]
  /\ phase' = IF \A n \in Module \ {m} : got[n] # 0 THEN "compare" ELSE phase
  /\ UNCHANGED <<files, host, sources, seen, todo, before, asked, due>>

\* All modules of a plugin are executed when one of them has changed.
Changed == {m \in Module : got[m] # seen.src[m]}
Affected == {p \in sources \cap Mounts[tree] : Uses[p] \cap Changed # {}}
Names == UNION {Uses[p] : p \in Affected}

\* A change of the framework ends the watcher, and with it the program.
Restart ==
  /\ phase = "compare"
  /\ Changed \cap Framework # {}
  /\ phase' = "ended"
  /\ UNCHANGED <<files, host, sources, seen, got, todo, before, asked, due>>

OpenBatch ==
  /\ phase = "compare"
  /\ Changed \cap Framework = {}
  /\ before' = [built |-> built, runs |-> runs]
  /\ phase' = "exec"
  /\ UNCHANGED <<files, host, sources, seen, got, todo, asked, due>>

\* (mutant) digests of what is in the files by now.
RecordLate == seen' = [seen EXCEPT !.src = src]

\* (mutant) only what works is recorded.
RecordGood ==
  seen' = [seen EXCEPT !.src =
             [m \in Module |-> IF <<m, got[m]>> \in Bad THEN @[m] ELSE got[m]]]

\* finally: the digests of what was read, whether it works or not.
Record == seen' = [seen EXCEPT !.src = got]

EndCheck ==
  /\ Record
  /\ phase' = "idle"
  /\ got' = Unread
  /\ todo' = {}
  /\ before' = None

\* (mutant) sys.modules keeps what has failed.
FailHostOnly ==
  /\ runs' = before.runs
  /\ EndCheck
  /\ UNCHANGED <<built, tree>>

\* Modules are put back by the check, instances by the host's batch.
Fail ==
  /\ built' = before.built
  /\ runs' = before.runs
  /\ EndCheck
  /\ UNCHANGED tree

Tried == {m \in Names : got[m] = src[m]}

\* The modules are executed without an await.  A bad version may fail here or
\* when an instance is activated.
ExecModules ==
  /\ phase = "exec"
  /\ due' = due \ Tried
  /\ \/ /\ \E m \in Names : <<m, got[m]>> \in Bad
        /\ Fail
     \/ /\ built' = [p \in Plugin |->
                       IF p \in Affected THEN From(p, got) ELSE built[p]]
        /\ todo' = Affected
        /\ phase' = "reload"
        /\ UNCHANGED <<tree, runs, seen, got, before>>
  /\ UNCHANGED <<files, sources, asked>>

\* host.reload(): the instance is activated from the new definition.
ReloadPlugin(p) ==
  /\ phase = "reload"
  /\ p \in todo
  /\ IF \E m \in Uses[p] : <<m, got[m]>> \in Bad
       THEN Fail
       ELSE /\ runs' = [runs EXCEPT ![p] = built[p]]
            /\ todo' = todo \ {p}
            /\ UNCHANGED <<tree, built, seen, got, phase, before>>
  /\ UNCHANGED <<files, sources, asked, due>>

Reloaded ==
  /\ phase = "reload"
  /\ todo = {}
  /\ EndCheck
  /\ UNCHANGED <<files, host, sources, asked, due>>

(***************************************************************************)
(* Specification                                                           *)
(***************************************************************************)
Watcher ==
  \/ Check
  \/ LoadConfig
  \/ \E m \in Module : ReadSource(m)
  \/ Restart
  \/ OpenBatch
  \/ ExecModules
  \/ \E p \in Plugin : ReloadPlugin(p)
  \/ Reloaded

Next ==
  \/ EditConfig
  \/ \E m \in Module : EditSource(m)
  \/ AskReload
  \/ ReloadByHand
  \/ Watcher

\* The watcher polls until it is stopped, and each step of a check ends.
Spec == Init /\ [][Next]_vars /\ WF_vars(Watcher)

(***************************************************************************)
(* Properties                                                              *)
(***************************************************************************)
\* Between checks the plugins that the configuration mounts run, each from
\* one set of versions: the one its modules in sys.modules have, of which none
\* is bad.  A check that executed some modules and reloaded some instances
\* before it failed leaves no trace.
LastGoodRuns ==
  phase = "idle" =>
    \A p \in Plugin :
      /\ runs[p] = IF p \in Mounts[tree] THEN built[p] ELSE None
      /\ \A m \in Uses[p] : <<m, built[p][m]>> \notin Bad

\* What is written to a watched file is tried in the end, also when it is
\* written in the middle of a check or another file is bad; unless the plugin
\* is taken down or the framework changes.
EditsAreTried ==
  \A f \in Module \cup {ConfigFile} : f \in due ~> f \notin due \/ phase = "ended"

\* dynamic-plugins.md: a version that failed is not tried at every poll.  Once
\* nobody edits, the watcher finds nothing to do.
ComesToRest == <>[](phase # "load" /\ ~(phase = "exec" /\ Affected # {}))

\* dynamic-plugins.md: repair the file and the reload is done.  Once all
\* files are good, the plugins run what is in them.
FixedSourcesRun ==
  <>[](\A m \in Module : <<m, src[m]>> \notin Bad)
    => <>[](phase # "ended" =>
              \A p \in Mounts[tree] : runs[p] = From(p, src))
=============================================================================
