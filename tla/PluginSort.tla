----------------------------- MODULE PluginSort -----------------------------
(***************************************************************************)
(* The life of the plugins of a project (generic/plugin.lua): they are     *)
(* loaded in the order of their file names, sorted by their dependencies,  *)
(* initialised, and de-initialised in reverse order at exit.  Plugins are  *)
(* numbers, in the order of their file names.                              *)
(***************************************************************************)
EXTENDS Naturals, Sequences, FiniteSets

CONSTANTS
    N,          \* number of plugins installed
    Graphs      \* the dependencies that the plugins may declare

Plugin == 1 .. N

ASSUME PluginAssumption ==
    /\ N \in Nat
    /\ Graphs \subseteq [Plugin -> SUBSET Plugin]

VARIABLES
    depends,        \* depends[p]: the plugins that p names in its descriptor
    plugins,        \* the list of plugins
    phase,          \* what the tool does with them
    path,           \* the plugin_dfs_visit() calls in progress
    rest,           \* rest[p]: the dependents of p that its loop has yet to visit
    pluginsvisited,
    pluginssorted,
    cycledetect,    \* the plugins seen since the call for the current root
    initialised,    \* plugins that are initialised and not de-initialised
    error           \* what went wrong first

vars == <<depends, plugins, phase, path, rest, pluginsvisited, pluginssorted,
          cycledetect, initialised, error>>

dfs == <<path, rest, pluginsvisited, pluginssorted, cycledetect>>

Elems(s) == {s[i] : i \in DOMAIN s}

First(S, x) == x \in S /\ \A y \in S : x <= y

Dependents(p) == {q \in Plugin : p \in depends[q]}

Init ==
    /\ depends \in Graphs
    /\ plugins = <<>>
    /\ phase = "load"
    /\ path = <<>>
    /\ rest = [p \in Plugin |-> {}]
    /\ pluginsvisited = {}
    /\ pluginssorted = <<>>
    /\ cycledetect = {}
    /\ initialised = {}
    /\ error = "none"

\* The tool aborts: cleanup() calls exit_plugins().
Abort(e) ==
    /\ phase' = "exit"
    /\ error' = e

-----------------------------------------------------------------------------
load_plugin ==
    /\ phase = "load"
    /\ Len(plugins) < N
    /\ \/ /\ plugins' = Append(plugins, Len(plugins) + 1)
          /\ UNCHANGED <<phase, error>>
       \/ /\ Abort("load")
          /\ UNCHANGED plugins
    /\ UNCHANGED <<depends, dfs, initialised>>

\* init_plugins() is called, and calls plugin_tsort().
start_tsort ==
    /\ phase = "load"
    /\ Len(plugins) = N
    /\ phase' = "tsort"
    /\ UNCHANGED <<depends, plugins, dfs, initialised, error>>

enter(p) ==
    /\ path' = Append(path, p)
    /\ pluginsvisited' = pluginsvisited \cup {p}
    /\ rest' = [rest EXCEPT ![p] = Dependents(p)]

\* The loop of plugin_tsort(), each time with a new cycledetect.
plugin_tsort ==
    /\ phase = "tsort"
    /\ path = <<>>
    /\ \/ \E p \in Plugin :
             /\ First(Plugin \ pluginsvisited, p)
             /\ enter(p)
             /\ cycledetect' = {p}
             /\ UNCHANGED <<plugins, phase, pluginssorted>>
       \/ /\ pluginsvisited = Plugin
          /\ plugins' = pluginssorted
          /\ phase' = "init"
          /\ UNCHANGED dfs
    /\ UNCHANGED <<depends, initialised, error>>

\* A cycle is reported, and the list of plugins is dropped.
cycle_detected ==
    /\ Abort("cycle")
    /\ plugins' = <<>>
    /\ UNCHANGED dfs

\* Fault: a plugin is visited again for each of its dependencies.
plugin_dfs_visit_again ==
    /\ phase = "tsort"
    /\ path # <<>>
    /\ LET p == path[Len(path)] IN
       \E q \in rest[p] :
          /\ First(rest[p], q)
          /\ \/ /\ q \in Elems(path)
                /\ cycle_detected
             \/ /\ q \notin Elems(path)
                /\ path' = Append(path, q)
                /\ pluginsvisited' = pluginsvisited \cup {q}
                /\ rest' = [rest EXCEPT ![p] = @ \ {q}, ![q] = Dependents(q)]
                /\ UNCHANGED <<plugins, phase, pluginssorted, cycledetect, error>>
    /\ UNCHANGED <<depends, initialised>>

\* Fault: the loop does not get past a plugin that was visited before.
plugin_dfs_visit_stays ==
    /\ phase = "tsort"
    /\ path # <<>>
    /\ LET p == path[Len(path)] IN
       \E q \in rest[p] :
          /\ First(rest[p], q)
          /\ \/ /\ q \in cycledetect
                /\ cycle_detected
             \/ /\ q \notin cycledetect
                /\ q \notin pluginsvisited
                /\ path' = Append(path, q)
                /\ pluginsvisited' = pluginsvisited \cup {q}
                /\ cycledetect' = cycledetect \cup {q}
                /\ rest' = [rest EXCEPT ![p] = @ \ {q}, ![q] = Dependents(q)]
                /\ UNCHANGED <<plugins, phase, pluginssorted, error>>
    /\ UNCHANGED <<depends, initialised>>

\* The loop over the dependents of the plugin visited last.
plugin_dfs_visit ==
    /\ phase = "tsort"
    /\ path # <<>>
    /\ LET p == path[Len(path)] IN
       \E q \in rest[p] :
          /\ First(rest[p], q)
          /\ \/ /\ q \in cycledetect
                /\ cycle_detected
             \/ /\ q \notin cycledetect
                /\ q \in pluginsvisited
                /\ rest' = [rest EXCEPT ![p] = @ \ {q}]
                /\ UNCHANGED <<plugins, phase, path, pluginsvisited,
                               pluginssorted, cycledetect, error>>
             \/ /\ q \notin cycledetect
                /\ q \notin pluginsvisited
                /\ path' = Append(path, q)
                /\ pluginsvisited' = pluginsvisited \cup {q}
                /\ cycledetect' = cycledetect \cup {q}
                /\ rest' = [rest EXCEPT ![p] = @ \ {q}, ![q] = Dependents(q)]
                /\ UNCHANGED <<plugins, phase, pluginssorted, error>>
    /\ UNCHANGED <<depends, initialised>>

\* Fault: the sorted list is in the order of the return of the calls.
leave_appends ==
    /\ phase = "tsort"
    /\ path # <<>>
    /\ rest[path[Len(path)]] = {}
    /\ pluginssorted' = Append(pluginssorted, path[Len(path)])
    /\ path' = SubSeq(path, 1, Len(path) - 1)
    /\ UNCHANGED <<depends, plugins, phase, rest, pluginsvisited, cycledetect,
                   initialised, error>>

\* The innermost plugin_dfs_visit() returns; cycledetect keeps the plugin.
leave ==
    /\ phase = "tsort"
    /\ path # <<>>
    /\ rest[path[Len(path)]] = {}
    /\ pluginssorted' = <<path[Len(path)]>> \o pluginssorted
    /\ path' = SubSeq(path, 1, Len(path) - 1)
    /\ UNCHANGED <<depends, plugins, phase, rest, pluginsvisited, cycledetect,
                   initialised, error>>

\* Fault: the last plugin is not initialised.
init_plugin_short ==
    /\ phase = "init"
    /\ LET i == Cardinality(initialised) + 1 IN
       \/ /\ i < Len(plugins)
          /\ \/ /\ initialised' = initialised \cup {plugins[i]}
                /\ UNCHANGED <<phase, error>>
             \/ /\ Abort("init")
                /\ UNCHANGED initialised
       \/ /\ i >= Len(plugins)
          /\ phase' = "running"
          /\ UNCHANGED <<initialised, error>>
    /\ UNCHANGED <<depends, plugins, dfs>>

\* init_plugins() calls the init functions and stops at the first failure.
init_plugin ==
    /\ phase = "init"
    /\ LET i == Cardinality(initialised) + 1 IN
       \/ /\ i <= Len(plugins)
          /\ \/ /\ initialised' = initialised \cup {plugins[i]}
                /\ UNCHANGED <<phase, error>>
             \/ /\ Abort("init")
                /\ UNCHANGED initialised
       \/ /\ i > Len(plugins)
          /\ phase' = "running"
          /\ UNCHANGED <<initialised, error>>
    /\ UNCHANGED <<depends, plugins, dfs>>

\* The tool is done, or aborts.
finish ==
    /\ phase = "running"
    /\ phase' = "exit"
    /\ UNCHANGED <<depends, plugins, dfs, initialised, error>>

\* Fault: the loop ends with one plugin left on the list.
exit_plugins_last ==
    /\ phase = "exit"
    /\ \/ /\ Len(plugins) > 1
          /\ plugins' = SubSeq(plugins, 1, Len(plugins) - 1)
          /\ initialised' = initialised \ {plugins[Len(plugins)]}
          /\ \/ UNCHANGED <<phase, error>>
             \/ /\ phase' = "exited"
                /\ error' = "exit"
       \/ /\ Len(plugins) <= 1
          /\ phase' = "exited"
          /\ UNCHANGED <<plugins, initialised, error>>
    /\ UNCHANGED <<depends, dfs>>

\* exit_plugins() ends with the first exit function that fails.
exit_plugins ==
    /\ phase = "exit"
    /\ \/ /\ plugins # <<>>
          /\ plugins' = SubSeq(plugins, 1, Len(plugins) - 1)
          /\ initialised' = initialised \ {plugins[Len(plugins)]}
          /\ \/ UNCHANGED <<phase, error>>
             \/ /\ phase' = "exited"
                /\ error' = "exit"
       \/ /\ plugins = <<>>
          /\ phase' = "exited"
          /\ UNCHANGED <<plugins, initialised, error>>
    /\ UNCHANGED <<depends, dfs>>

Next ==
    \/ load_plugin \/ start_tsort \/ plugin_tsort \/ plugin_dfs_visit \/ leave
    \/ init_plugin \/ finish \/ exit_plugins

Spec == Init /\ [][Next]_vars /\ WF_vars(Next)

-----------------------------------------------------------------------------
TypeOK ==
    /\ depends \in Graphs
    /\ plugins \in Seq(Plugin)
    /\ phase \in {"load", "tsort", "init", "running", "exit", "exited"}
    /\ path \in Seq(Plugin)
    /\ rest \in [Plugin -> SUBSET Plugin]
    /\ pluginsvisited \subseteq Plugin
    /\ pluginssorted \in Seq(Plugin) /\ Len(pluginssorted) <= N
    /\ cycledetect \subseteq Plugin
    /\ initialised \subseteq Plugin
    /\ error \in {"none", "load", "cycle", "init", "exit"}

\* An initialised plugin can rely on the plugins it depends on: they are
\* initialised before it (plugin_tsort) and de-initialised after it
\* (exit_plugins: "deinitialize in reverse order"), after a failure too.
DependenciesInitialised ==
    \A p \in initialised : depends[p] \subseteq initialised

\* A tool only runs with all of its plugins initialised.
AllInitialised == phase = "running" => initialised = Plugin

\* Every plugin that was initialised is de-initialised at exit, however far
\* init_plugins() got, unless an exit function fails.
NoneLeft == phase = "exited" /\ error # "exit" => initialised = {}

\* The tool comes to its end: no dependencies make the sort run on for good.
Exits == <>(phase = "exited")
====
