----------------------------- MODULE Portfolio ------------------------------
(***************************************************************************)
(* verify_portfolio_parallel: Z3 and CVC5 verify the same file on two      *)
(* scoped threads, each with its own results vector, and send it tagged    *)
(* with the solver's name over one mpsc channel.  The caller drains the    *)
(* channel until both senders are gone, in whatever order the messages     *)
(* arrived, merges the two vectors by position, and leaves the scope,      *)
(* which joins the threads and passes on a panic of either.                *)
(*                                                                         *)
(* A file is abstracted to what its n-th result is about.  Both backends   *)
(* share collect_verification_jobs, prepare_contract_clauses, the skip     *)
(* rule and run_advanced_passes, and answer every clause once, so both     *)
(* vectors have one result per position.                                   *)
(***************************************************************************)
EXTENDS Verdicts

CONSTANT Files     \* the files to verify: sequences of what a result is about

Abouts == {"true_claim", "false_claim", "external"}

ASSUME FilesAssumption == Files \subseteq Seq(Abouts)

Solvers == {"z3", "cvc5"}

VARIABLES
  file,      \* what the results are about
  thread,    \* per solver: "running", "sent", "exited" or "panicked"
  answers,   \* per solver: the results vector its thread is building
  channel,   \* messages sent and not received yet
  received,  \* z3_results and cvc5_results: a solver in the domain is Some
  pc,        \* the caller: "collect", "join", "returned" or "panicked"
  merged     \* the value of the scope's closure

vars == <<file, thread, answers, channel, received, pc, merged>>

\* One result: its verdict and the solver that gave it.
Result == [tag : Tags, by : Solvers]

Message == [solver : Solvers, results : Seq(Result)]

\* Mutant: a backend reads a query it could not decide as unsat.
MutantHonestTags(about) ==
  CASE about = "true_claim" -> Tags \ {"counterexample"}
    [] OTHER -> Tags

\* What a sound backend may say about a position: a decided query gives the
\* right verdict (ClauseLoop, Cvc5Shell), any query may end undecided.
HonestTags(about) ==
  CASE about = "true_claim" -> Tags \ {"counterexample"}
    [] about = "false_claim" -> Tags \ {"verified"}
    [] OTHER -> Tags

\* A sender lives until its thread's closure returns or unwinds.
SenderDropped(s) == thread[s] \in {"exited", "panicked"}

Init ==
  /\ file \in Files
  /\ thread = [s \in Solvers |-> "running"]
  /\ answers = [s \in Solvers |-> <<>>]
  /\ channel = <<>>
  /\ received = <<>>
  /\ pc = "collect"
  /\ merged = <<>>

\* The thread's backend reports its next result.
Answer(s) ==
  /\ thread[s] = "running"
  /\ Len(answers[s]) < Len(file)
  /\ \E tag \in HonestTags(file[Len(answers[s]) + 1]) :
       answers' = [answers EXCEPT ![s] = Append(@, [tag |-> tag, by |-> s])]
  /\ UNCHANGED <<file, thread, channel, received, pc, merged>>

\* The backend panics: the closure unwinds and drops its sender unsent.
Panic(s) ==
  /\ thread[s] = "running"
  /\ thread' = [thread EXCEPT ![s] = "panicked"]
  /\ UNCHANGED <<file, answers, channel, received, pc, merged>>

\* Mutant: both closures send the tag "z3".
MutantLabel(s) == "z3"

\* The tag written into each thread's closure.
Label(s) == s

\* tx.send((solver, results)); the receiver is alive, so it cannot fail.
Send(s) ==
  /\ thread[s] = "running"
  /\ Len(answers[s]) = Len(file)
  /\ thread' = [thread EXCEPT ![s] = "sent"]
  /\ channel' = Append(channel, [solver |-> Label(s), results |-> answers[s]])
  /\ UNCHANGED <<file, answers, received, pc, merged>>

\* The closure returns and drops its sender.
Exit(s) ==
  /\ thread[s] = "sent"
  /\ thread' = [thread EXCEPT ![s] = "exited"]
  /\ UNCHANGED <<file, answers, channel, received, pc, merged>>

\* Mutant: the first message is taken for z3's, the next one for cvc5's.
MutantSlot(message) == IF "z3" \notin DOMAIN received THEN "z3" ELSE "cvc5"

\* match solver { "z3" => z3_results = .., _ => cvc5_results = .. }
Slot(message) == IF message.solver = "z3" THEN "z3" ELSE "cvc5"

\* One turn of `for (solver, results) in rx`.
Receive ==
  /\ pc = "collect"
  /\ channel # <<>>
  /\ received' = [s \in DOMAIN received \cup {Slot(Head(channel))} |->
                    IF s = Slot(Head(channel)) THEN Head(channel).results ELSE received[s]]
  /\ channel' = Tail(channel)
  /\ UNCHANGED <<file, thread, answers, pc, merged>>

\* Mutant: the caller keeps a sender of its own.
MutantRxDisconnected == FALSE

\* `for .. in rx` ends when nothing is queued and no sender is left.
RxDisconnected == channel = <<>> /\ \A s \in Solvers : SenderDropped(s)

unwrap_or_default(s) == IF s \in DOMAIN received THEN received[s] ELSE <<>>

\* After the loop: merge, z3 as primary.
Merge ==
  /\ pc = "collect"
  /\ RxDisconnected
  /\ merged' = merge_portfolio_results(unwrap_or_default("z3"), unwrap_or_default("cvc5"))
  /\ pc' = "join"
  /\ UNCHANGED <<file, thread, answers, channel, received>>

\* Mutant: a panic of a solver thread is swallowed.
MutantScopeOutcome == "returned"

\* std::thread::scope panics when a thread it joined itself panicked.
ScopeOutcome == IF \E s \in Solvers : thread[s] = "panicked" THEN "panicked" ELSE "returned"

\* The scope joins both threads, then returns or panics.
Join ==
  /\ pc = "join"
  /\ \A s \in Solvers : thread[s] \in {"exited", "panicked"}
  /\ pc' = ScopeOutcome
  /\ UNCHANGED <<file, thread, answers, channel, received, merged>>

Thread(s) == Answer(s) \/ Panic(s) \/ Send(s) \/ Exit(s)

Caller == Receive \/ Merge \/ Join

Next == Caller \/ \E s \in Solvers : Thread(s)

\* Both threads and the caller keep running: every solver query is bounded by
\* the configured timeout, and no lock is shared between them.
Fairness == WF_vars(Caller) /\ \A s \in Solvers : WF_vars(Thread(s))

Spec == Init /\ [][Next]_vars /\ Fairness

-----------------------------------------------------------------------------
(* Properties.                                                             *)

\* Every variable has its type.
TypeOK ==
  /\ file \in Files
  /\ thread \in [Solvers -> {"running", "sent", "exited", "panicked"}]
  /\ answers \in [Solvers -> Seq(Result)]
  /\ channel \in Seq(Message)
  /\ DOMAIN received \subseteq Solvers
  /\ \A s \in DOMAIN received : received[s] \in Seq(Result)
  /\ pc \in {"collect", "join", "returned", "panicked"}
  /\ merged \in Seq(Result)

\* What a thread sent stays available to the merge: it is in the channel under
\* its solver's tag or in its solver's slot, unchanged, and neither a message
\* nor a slot holds anything else.  No arrival order, and no death of the
\* other thread, lets a vector be overwritten by the other solver's (the
\* tagged tx.send and the collect loop's match on the tag).
SentIsKept ==
  LET InChannel(s) == \E m \in DOMAIN channel : channel[m].solver = s IN
  /\ \A s \in Solvers :
       thread[s] \in {"sent", "exited"} => s \in DOMAIN received \/ InChannel(s)
  /\ \A m \in DOMAIN channel : channel[m].results = answers[channel[m].solver]
  /\ \A s \in DOMAIN received : received[s] = answers[s]

Definitive == {"verified", "counterexample"}

\* A returned report answers every position, with z3's or cvc5's own answer
\* for that position, and with a definitive one whenever either solver had
\* one: whichever thread finished first, and although a dead thread's vector
\* would read as empty (the collect loop and merge_portfolio_results).
ReturnsBestOfBoth ==
  pc = "returned" =>
    /\ Len(merged) = Len(file)
    /\ \A s \in Solvers : Len(answers[s]) = Len(file)
    /\ \A n \in DOMAIN merged :
         /\ \E s \in Solvers : merged[n] = answers[s][n]
         /\ (\E s \in Solvers : answers[s][n].tag \in Definitive) => merged[n].tag \in Definitive

\* cvc5's answer is reported only where it says more than z3's did ("on equal
\* priority, prefer primary (Z3: richer counter-models / unsat cores)"), even
\* when cvc5's message arrives first (the collect loop's match on the name).
Z3WinsTies ==
  pc = "returned" =>
    \A n \in DOMAIN merged :
      merged[n].by = "cvc5" =>
        portfolio_result_priority(merged[n]) > portfolio_result_priority(answers["z3"][n])

\* The call ends, with a report or a panic: nobody waits on a channel whose
\* sender is never dropped (verify_portfolio_parallel).
Ends == <>(pc \in {"returned", "panicked"})

Abstract ==
  INSTANCE HonestReport
    WITH report <- IF pc = "returned"
                   THEN [n \in DOMAIN merged |-> [about |-> file[n], tag |-> merged[n].tag]]
                   ELSE <<>>

\* Merging two sound backends by position is a sound backend: the portfolio
\* implements the honest report.
ImplementsHonestReport == Abstract!Spec
=============================================================================
