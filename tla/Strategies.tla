----------------------------- MODULE Strategies -----------------------------
(***************************************************************************)
(* The strategies to sync a project with, and in which order the engine    *)
(* falls back from one to the next (internal/sync/engine.go).              *)
(***************************************************************************)
Strategy == {"webdav_sync", "ctag", "fullscan"}

NextStrategy == [webdav_sync |-> "ctag", ctag |-> "fullscan",
                 fullscan |-> "fullscan"]
=============================================================================
