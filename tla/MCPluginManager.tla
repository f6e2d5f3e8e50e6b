--------------------------- MODULE MCPluginManager ---------------------------
(* One config with one-slot channels, two contents and two instances.       *)
EXTENDS PluginManager
=============================================================================
