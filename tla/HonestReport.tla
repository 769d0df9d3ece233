---------------------------- MODULE HonestReport ----------------------------
(***************************************************************************)
(* What every verification path promises its caller: a list of verdicts    *)
(* that only grows, in which no earlier verdict is changed or withdrawn,   *)
(* Verified is only said of true claims and Counterexample only of false   *)
(* ones.  Timeout and Unknown may be said of anything.  Entries "external" *)
(* come from checkers outside the path (feature and advanced passes).      *)
(***************************************************************************)
EXTENDS Verdicts

VARIABLE report

Entry == [about : {"true_claim", "false_claim", "external"}, tag : Tags]

Honest(e) ==
  /\ e.about = "true_claim" => e.tag # "counterexample"
  /\ e.about = "false_claim" => e.tag # "verified"

Init == report = <<>>

\* Report some more entries, all honest; keep all earlier ones.
Extend ==
  /\ report' \in Seq(Entry)
  /\ Len(report') >= Len(report)
  /\ \A n \in DOMAIN report : report'[n] = report[n]
  /\ \A n \in DOMAIN report' : n \notin DOMAIN report => Honest(report'[n])

Next == Extend

Spec == Init /\ [][Next]_report
=============================================================================
