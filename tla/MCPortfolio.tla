---------------------------- MODULE MCPortfolio -----------------------------
(***************************************************************************)
(* Small instances of Portfolio: every file of up to two results.          *)
(***************************************************************************)
EXTENDS Portfolio

MCFiles == UNION {[1..n -> Abouts] : n \in 0..2}
=============================================================================
