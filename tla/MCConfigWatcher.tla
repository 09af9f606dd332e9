--------------------------- MODULE MCConfigWatcher ---------------------------
(* The watcher of a configuration with one referenced document, for TLC.    *)
EXTENDS ConfigWatcher
==============================================================================
