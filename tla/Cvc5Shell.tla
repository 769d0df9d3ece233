------------------------------ MODULE Cvc5Shell -----------------------------
(***************************************************************************)
(* Verification of one contract by the cvc5 binary.  The parent takes      *)
(* every clause through the cache, unmodelable and encoding gates, sends   *)
(* one script with one check-sat for each pending clause, and gives the    *)
(* n-th answer on stdout to the n-th pending clause.  The parent           *)
(* (execute_cvc5), the solver process and the two pipes between them are   *)
(* concurrent: the parent writes the whole script before it reads, each    *)
(* side blocks on a full pipe, and --tlimit may end the solver anywhere.   *)
(*                                                                         *)
(* A contract with a single verifiable clause goes through                 *)
(* check_clause_cvc5_shellout: it takes the first answer, and may try a    *)
(* bitvector script first.                                                 *)
(***************************************************************************)
EXTENDS Verdicts, FiniteSets

CONSTANTS
  Contracts,    \* the verifiable clauses of a contract: sequences of clauses
  Bodies,       \* clause bodies
  PipeIn,       \* capacity of the stdin pipe, in queries
  PipeOut,      \* capacity of the stdout pipe, in lines
  StdoutCap     \* CVC5_STDOUT_CAP, in lines

\* bv: how the bitvector script relates to the integer encoding of a clause
\* ("none": no such script; "trust": they agree; "check": sat needs checking).
Clause == [kind : VerifiableKinds, body : Bodies, always : BOOLEAN, never : BOOLEAN,
           gate : {"ok", "unmodelable", "unencodable"}, bv : {"none", "trust", "check"}]

ASSUME ContractsAssumption == \A c \in Contracts : c \in Seq(Clause)
\* A body has one meaning: what it says of the contract's inputs is in its text.
ASSUME BodiesAssumption ==
  \A c \in Contracts : \A i, j \in DOMAIN c :
    c[i].body = c[j].body => c[i].always = c[j].always /\ c[i].never = c[j].never
ASSUME PipesAssumption == PipeIn \in Nat \ {0} /\ PipeOut \in Nat \ {0} /\ StdoutCap \in Nat

VARIABLES
  clauses,   \* the contract under verification
  session,   \* SessionCache: verdicts by kind and body
  stage,     \* what the parent is doing
  next,      \* the next clause to take through the gates
  resolved,  \* verdicts by clause index
  pending,   \* the clauses of the script, in order
  script,    \* "integer" or "bitvector"
  sent,      \* queries written to stdin
  child,     \* "none", "running" or "exited"
  taken,     \* queries the solver has read
  owed,      \* lines the solver still has to write for the query it answered
  timed_out, \* "interrupted by timeout" is on stderr
  stdout,    \* lines in the stdout pipe
  read,      \* lines the parent has read
  results    \* the verdicts returned, in clause order

childvars == <<child, taken, owed, timed_out, stdout>>
shellVars == <<clauses, session, stage, next, resolved, pending, script, sent, child, taken, owed,
               timed_out, stdout, read, results>>

Key(i) == <<clauses[i].kind, clauses[i].body>>
Resolve(i, tag) == [k \in DOMAIN resolved \cup {i} |-> IF k = i THEN tag ELSE resolved[k]]

Single == Len(clauses) <= 1

\* The n-th smallest index of S.
Nth(S, n) == CHOOSE i \in S : Cardinality({k \in S : k <= i}) = n

-----------------------------------------------------------------------------
(* Lines of stdout.  "text" is any other line: a model or an error.        *)

QueryLines == {"sat", "unsat", "timeout", "resourceout", "unknown"}
is_query_line(line) == line \in QueryLines

\* Cvc5Result of a query line, as a ClauseSatOutcome.
outcome_of(line) == IF line \in {"timeout", "resourceout"} THEN "timeout" ELSE line

promote_solver_timeout(lines, interrupted) ==
  IF (\E n \in DOMAIN lines : is_query_line(lines[n])) \/ ~interrupted THEN lines
  ELSE <<"timeout">>

\* Err when there is no answer or when another line comes before the first.
parse_is_ok(lines) == lines # <<>> /\ is_query_line(lines[1])
parse_cvc5_stdout_all(lines) ==
  LET found == {n \in DOMAIN lines : is_query_line(lines[n])}
  IN  [n \in 1..Cardinality(found) |-> lines[Nth(found, n)]]

\* cvc5_shell_query_to_verification_result
Verdict(i, line) == interpret_clause_check_result(clauses[i].kind, outcome_of(line))

-----------------------------------------------------------------------------
(* The solver's answers.                                                   *)

QueryIsUnsat(c) == IF clause_check_polarity(c.kind) = "assert_body" THEN c.never ELSE c.always

\* What check-sat may print for the clause i.
Answers(i) ==
  {"unknown"} \cup
  (IF script = "bitvector" /\ clauses[i].bv = "check" THEN {"sat", "unsat"}
   ELSE {IF QueryIsUnsat(clauses[i]) THEN "unsat" ELSE "sat"})

\* A verdict the clause deserves.
RightTag(i, tag) ==
  /\ tag = "verified" => Claim(clauses[i])
  /\ tag = "counterexample" => ~Claim(clauses[i])

-----------------------------------------------------------------------------
\* The session may hold this clause already: a service's invariants are jobs
\* of one name, with one clause each, and may repeat a body.
ShellInit ==
  /\ clauses \in Contracts
  /\ \/ session = <<>>
     \/ /\ Len(clauses) = 1 /\ clauses[1].kind = "invariant"
        /\ \E tag \in Tags : RightTag(1, tag) /\ session = [k \in {Key(1)} |-> tag]
  /\ stage = "gates"
  /\ next = 1
  /\ resolved = <<>>
  /\ pending = <<>>
  /\ script = "integer"
  /\ sent = 0
  /\ child = "none"
  /\ taken = 0
  /\ owed = <<>>
  /\ timed_out = FALSE
  /\ stdout = <<>>
  /\ read = <<>>
  /\ results = <<>>

-----------------------------------------------------------------------------
(* The parent: gates.                                                      *)

\* Mutant: a clause that does not encode is dropped without a result.
MutantGate ==
  /\ stage = "gates"
  /\ next \in DOMAIN clauses
  /\ next' = next + 1
  /\ LET c == clauses[next] IN
     \/ /\ Key(next) \in DOMAIN session
        /\ resolved' = Resolve(next, result_from_session_cache_tag(session[Key(next)]))
        /\ UNCHANGED pending
     \/ /\ Key(next) \notin DOMAIN session
        /\ c.gate # "ok"
        /\ UNCHANGED <<resolved, pending>>
     \/ /\ Key(next) \notin DOMAIN session
        /\ c.gate = "ok"
        /\ pending' = Append(pending, next)
        /\ UNCHANGED resolved
  /\ UNCHANGED <<clauses, session, stage, script, sent, childvars, read, results>>

\* The gates of one clause: session cache, unmodelable, encodable, else
\* pending.  A single clause tries a bitvector script before it is encoded.
Gate ==
  /\ stage = "gates"
  /\ next \in DOMAIN clauses
  /\ next' = next + 1
  /\ LET c == clauses[next] IN
     \/ /\ Key(next) \in DOMAIN session
        /\ resolved' = Resolve(next, result_from_session_cache_tag(session[Key(next)]))
        /\ UNCHANGED pending
     \/ /\ Key(next) \notin DOMAIN session
        /\ c.gate = "unmodelable" \/ (c.gate = "unencodable" /\ ~(Single /\ c.bv # "none"))
        /\ resolved' = Resolve(next, "unknown")
        /\ UNCHANGED pending
     \/ /\ Key(next) \notin DOMAIN session
        /\ c.gate = "ok" \/ (c.gate = "unencodable" /\ Single /\ c.bv # "none")
        /\ pending' = Append(pending, next)
        /\ UNCHANGED resolved
  /\ UNCHANGED <<clauses, session, stage, script, sent, childvars, read, results>>

\* Choose the script: several clauses use bitvectors only if all agree.
ChooseScript ==
  /\ stage = "gates"
  /\ next \notin DOMAIN clauses
  /\ script' = IF pending # <<>> /\ \A n \in DOMAIN pending :
                    clauses[pending[n]].bv = "trust" \/ (Single /\ clauses[pending[n]].bv = "check")
               THEN "bitvector" ELSE "integer"
  /\ stage' = IF pending = <<>> THEN "assemble" ELSE "spawn"
  /\ UNCHANGED <<clauses, session, next, resolved, pending, sent, childvars, read, results>>

-----------------------------------------------------------------------------
(* The parent: execute_cvc5.                                               *)

Spawn ==
  /\ stage = "spawn"
  /\ stage' = "write"
  /\ child' = "running"
  /\ sent' = 0 /\ taken' = 0 /\ owed' = <<>> /\ timed_out' = FALSE /\ stdout' = <<>> /\ read' = <<>>
  /\ UNCHANGED <<clauses, session, next, resolved, pending, script, results>>

\* cvc5 is not on the PATH.
SpawnFails ==
  /\ stage = "spawn"
  /\ stage' = "failed"
  /\ UNCHANGED <<clauses, session, next, resolved, pending, script, sent, childvars, read, results>>

\* write_all: as much as the pipe takes.
WriteStdin ==
  /\ stage = "write"
  /\ sent < Len(pending)
  /\ child = "running"
  /\ sent - taken < PipeIn
  /\ sent' = sent + 1
  /\ UNCHANGED <<clauses, session, stage, next, resolved, pending, script, childvars, read, results>>

\* Mutant: a failing write is tried again.
MutantWriteFails ==
  /\ stage = "write"
  /\ sent < Len(pending)
  /\ child = "exited"
  /\ UNCHANGED shellVars

\* Nobody reads stdin any more: the error is returned at once.
WriteFails ==
  /\ stage = "write"
  /\ sent < Len(pending)
  /\ child = "exited"
  /\ stage' = "failed"
  /\ UNCHANGED <<clauses, session, next, resolved, pending, script, sent, childvars, read, results>>

\* The script is written: stdin is dropped.
CloseStdin ==
  /\ stage = "write"
  /\ sent = Len(pending)
  /\ stage' = "read"
  /\ UNCHANGED <<clauses, session, next, resolved, pending, script, sent, childvars, read, results>>

\* read_capped: one more line that fits under the cap.
ReadStdout ==
  /\ stage = "read"
  /\ stdout # <<>>
  /\ Len(read) < StdoutCap
  /\ read' = Append(read, Head(stdout))
  /\ stdout' = Tail(stdout)
  /\ UNCHANGED <<clauses, session, stage, next, resolved, pending, script, sent, child, taken, owed,
                 timed_out, results>>

\* Mutant: the solver is not killed.
MutantReadPastCap ==
  /\ stage = "read"
  /\ stdout # <<>>
  /\ Len(read) >= StdoutCap
  /\ stage' = "failed"
  /\ UNCHANGED <<clauses, session, next, resolved, pending, script, sent, childvars, read, results>>

\* The cap is passed: the output is discarded, the solver killed and reaped.
ReadPastCap ==
  /\ stage = "read"
  /\ stdout # <<>>
  /\ Len(read) >= StdoutCap
  /\ stage' = "failed"
  /\ child' = "exited"
  /\ UNCHANGED <<clauses, session, next, resolved, pending, script, sent, taken, owed, timed_out,
                 stdout, read, results>>

\* End of file on stdout, the solver reaped, stderr drained.
ReadEof ==
  /\ stage = "read"
  /\ stdout = <<>>
  /\ child = "exited"
  /\ read' = promote_solver_timeout(read, timed_out)
  /\ stage' = "parse"
  /\ UNCHANGED <<clauses, session, next, resolved, pending, script, sent, childvars, results>>

-----------------------------------------------------------------------------
(* The parent: verdicts.                                                   *)

Answered == parse_cvc5_stdout_all(read)

\* All pending clauses get these verdicts; the cache takes them if told to.
Give(tags, stored) ==
  /\ resolved' = [i \in DOMAIN resolved \cup {pending[n] : n \in DOMAIN pending} |->
                    IF \E n \in DOMAIN pending : pending[n] = i
                    THEN tags[CHOOSE n \in DOMAIN pending : pending[n] = i] ELSE resolved[i]]
  /\ session' = IF ~stored THEN session
                ELSE [k \in DOMAIN session \cup {Key(pending[n]) : n \in DOMAIN pending} |->
                        IF \E n \in DOMAIN pending : Key(pending[n]) = k
                        THEN tags[CHOOSE n \in DOMAIN pending :
                               Key(pending[n]) = k /\ \A m \in DOMAIN pending : Key(pending[m]) = k => m <= n]
                        ELSE session[k]]
  /\ stage' = "assemble"
  /\ UNCHANGED <<clauses, next, pending, script, sent, childvars, read, results>>

\* As many answers as pending clauses: they are zipped and cached.
AnswersMatch(lines) == Len(lines) = Len(pending)

ZipAnswers ==
  /\ stage = "parse" /\ ~Single
  /\ parse_is_ok(read)
  /\ AnswersMatch(Answered)
  /\ Give([n \in DOMAIN pending |-> Verdict(pending[n], Answered[n])], TRUE)

\* Another number of answers: nobody knows which is whose.
CountMismatch ==
  /\ stage = "parse" /\ ~Single
  /\ parse_is_ok(read)
  /\ ~AnswersMatch(Answered)
  /\ Give([n \in DOMAIN pending |-> "unknown"], FALSE)

\* No answers at all: an error on every pending clause.
ScriptError ==
  /\ ~Single
  /\ stage = "failed" \/ (stage = "parse" /\ ~parse_is_ok(read))
  /\ Give([n \in DOMAIN pending |-> "unknown"], FALSE)

\* The first answer of a single clause's script, or the error.
FirstVerdict ==
  IF stage = "parse" /\ parse_is_ok(read) THEN Verdict(pending[1], Answered[1]) ELSE "unknown"

\* Mutant: every bitvector sat is believed.
MutantModelRefutes(i) == stage = "parse" /\ parse_is_ok(read) /\ Answered[1] = "sat"

\* The model of a bitvector sat also breaks the integer encoding.
model_refutes_negated_clause(i) ==
  /\ stage = "parse" /\ parse_is_ok(read) /\ Answered[1] = "sat"
  /\ clause_check_polarity(clauses[i].kind) = "negate_body"
  /\ ~clauses[i].always

TakeFirst ==
  /\ stage \in {"parse", "failed"} /\ Single
  /\ \/ script = "integer"
     \/ clauses[pending[1]].bv = "trust"
     \/ model_refutes_negated_clause(pending[1])
  /\ Give(<<FirstVerdict>>, TRUE)

\* A bitvector answer that is not trusted: encode the clause and ask again.
FallBack ==
  /\ stage \in {"parse", "failed"} /\ Single
  /\ script = "bitvector" /\ clauses[pending[1]].bv = "check"
  /\ clauses[pending[1]].gate = "ok"
  /\ script' = "integer"
  /\ stage' = "spawn"
  /\ UNCHANGED <<clauses, session, next, resolved, pending, sent, childvars, read, results>>

\* ... or it cannot be encoded.
FallBackUnencodable ==
  /\ stage \in {"parse", "failed"} /\ Single
  /\ script = "bitvector" /\ clauses[pending[1]].bv = "check"
  /\ clauses[pending[1]].gate = "unencodable"
  /\ Give(<<"unknown">>, FALSE)

\* Sort by clause index and return.  stamp_vacuity then marks results and leaves
\* every tag as it is: ClauseLoop models it.
Assemble ==
  /\ stage = "assemble"
  /\ results' = [n \in 1..Cardinality(DOMAIN resolved) |-> resolved[Nth(DOMAIN resolved, n)]]
  /\ stage' = "done"
  /\ UNCHANGED <<clauses, session, next, resolved, pending, script, sent, childvars, read>>

-----------------------------------------------------------------------------
(* The solver process (external: cvc5).                                    *)

ChildKeeps == UNCHANGED <<clauses, session, stage, next, resolved, pending, script, sent, read, results>>

\* Read the next query, decide it, owe its answer and the get-model output.
ChildAnswer ==
  /\ child = "running" /\ owed = <<>> /\ taken < sent
  /\ taken' = taken + 1
  /\ \E answer \in Answers(pending[taken + 1]) : owed' = <<answer, "text">>
  /\ UNCHANGED <<child, timed_out, stdout>> /\ ChildKeeps

ChildPrint ==
  /\ child = "running" /\ owed # <<>> /\ Len(stdout) < PipeOut
  /\ stdout' = Append(stdout, Head(owed))
  /\ owed' = Tail(owed)
  /\ UNCHANGED <<child, taken, timed_out>> /\ ChildKeeps

\* End of file on stdin: the script is done.
ChildExit ==
  /\ child = "running" /\ owed = <<>> /\ taken = sent /\ stage # "write"
  /\ child' = "exited"
  /\ UNCHANGED <<taken, owed, timed_out, stdout>> /\ ChildKeeps

\* cvc5 rejects a command of the script and stops.
ChildAbort ==
  /\ child = "running" /\ owed = <<>> /\ Len(stdout) < PipeOut
  /\ child' = "exited"
  /\ stdout' = Append(stdout, "text")
  /\ UNCHANGED <<taken, owed, timed_out>> /\ ChildKeeps

\* --tlimit: a message on stderr and out, wherever the process is.
ChildTimeout ==
  /\ child = "running"
  /\ child' = "exited" /\ timed_out' = TRUE
  /\ UNCHANGED <<taken, owed, stdout>> /\ ChildKeeps

Parent ==
  \/ Gate \/ ChooseScript
  \/ Spawn \/ SpawnFails \/ WriteStdin \/ WriteFails \/ CloseStdin
  \/ ReadStdout \/ ReadPastCap \/ ReadEof
  \/ ZipAnswers \/ CountMismatch \/ ScriptError
  \/ TakeFirst \/ FallBack \/ FallBackUnencodable
  \/ Assemble

ShellNext == Parent \/ ChildAnswer \/ ChildPrint \/ ChildExit \/ ChildAbort \/ ChildTimeout

\* The parent's thread is scheduled, and the time limit passes.
ShellFairness == WF_shellVars(Parent) /\ WF_shellVars(ChildTimeout)

ShellSpec == ShellInit /\ [][ShellNext]_shellVars /\ ShellFairness

-----------------------------------------------------------------------------
(* Properties.                                                             *)

\* Every variable has its type, and the solver never answers more than it read.
ShellTypeOK ==
  /\ clauses \in Contracts
  /\ \A k \in DOMAIN session : session[k] \in Tags
  /\ stage \in {"gates", "spawn", "write", "read", "parse", "failed", "assemble", "done"}
  /\ next \in 1..(Len(clauses) + 1)
  /\ DOMAIN resolved \subseteq DOMAIN clauses /\ \A i \in DOMAIN resolved : resolved[i] \in Tags
  /\ pending \in Seq(DOMAIN clauses)
  /\ script \in {"integer", "bitvector"}
  /\ taken \in 0..sent /\ sent \in 0..Len(pending) /\ sent - taken <= PipeIn
  /\ child \in {"none", "running", "exited"} /\ timed_out \in BOOLEAN
  /\ owed \in Seq({"sat", "unsat", "unknown", "text"}) /\ Len(owed) <= 2
  /\ stdout \in Seq({"sat", "unsat", "unknown", "text"}) /\ Len(stdout) <= PipeOut
  /\ read \in Seq(QueryLines \cup {"text"})
  /\ Len(read) <= StdoutCap \/ read = <<"timeout">>
  /\ results \in Seq(Tags)

\* No verdict is wrong and no wrong verdict is cached, whatever the solver
\* was interrupted in, rejected or printed: the n-th answer on stdout is the
\* n-th pending clause's, or it is not used.
VerdictIsRight ==
  /\ \A i \in DOMAIN resolved : RightTag(i, resolved[i])
  /\ \A i \in DOMAIN clauses : Key(i) \in DOMAIN session => RightTag(i, session[Key(i)])

\* What the parent returns has one verdict for each clause, in clause order:
\* the clauses resolved at the gates and those answered later are merged.
OneResultPerClause ==
  stage = "done" =>
    /\ Len(results) = Len(clauses)
    /\ \A i \in DOMAIN clauses : RightTag(i, results[i])

\* Once the parent has stopped talking to a solver process, it is gone: the
\* early returns of execute_cvc5 leave none running.
NoChildLeftRunning == stage \in {"gates", "spawn", "parse", "failed", "assemble", "done"} => child # "running"

\* The parent returns, even when both pipes are full and each side waits for
\* the other: the time limit ends the solver.
Returns == <>(stage = "done")

\* A clause the solver had no time to answer is reported as a timeout
\* (promote_solver_timeout: "That is a timeout, not a script with no
\* (check-sat)").
TimeoutIsReported ==
  [][(stage = "parse" /\ stage' = "assemble" /\ timed_out /\ script = "integer") =>
       \A n \in DOMAIN pending : n > taken => resolved'[pending[n]] = "timeout"]_shellVars
=============================================================================
