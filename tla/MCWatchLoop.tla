---------------------------- MODULE MCWatchLoop -----------------------------
(***************************************************************************)
(* One file with two readable contents and four saves.                     *)
(***************************************************************************)
EXTENDS WatchLoop

MCContents == {"v1", "v2"}
=============================================================================
