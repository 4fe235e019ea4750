---------------------------- MODULE MCPluginSort ----------------------------
(* PluginSort on all dependency graphs of a few plugins.                   *)
EXTENDS PluginSort

\* No plugin names itself.
Irreflexive == {g \in [Plugin -> SUBSET Plugin] : \A p \in Plugin : p \notin g[p]}
====
