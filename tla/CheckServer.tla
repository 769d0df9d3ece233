---------------------------- MODULE CheckServer -----------------------------
(***************************************************************************)
(* assura-server: the Check, Build, Health and CheckStream calls and the   *)
(* HTTP fallback.  The pipeline runs inside the async handlers, so a       *)
(* request holds a runtime thread while it compiles and verifies.          *)
(* CheckStream spawns a task that computes all results and then sends them *)
(* through a bounded channel; the task waits without a thread while the    *)
(* channel is full, and goes on at once if the client is gone.             *)
(***************************************************************************)
EXTENDS Naturals, Sequences, FiniteSets

CONSTANTS
  Clients,   \* one request each
  Workers,   \* threads of the runtime
  Capacity,  \* capacity of the channel (128 in the code)
  Sources    \* [diagnostics, verdicts]: what the phases say of a source with one
             \* contract; the verdicts are those of its ensures clauses

\* Severities; A04008 is the warning that a verified ensures takes back.
Severity == {"error", "warning", "A04008"}
Verdict == {"verified", "counterexample", "timeout", "unknown"}

ASSUME SourcesAssumption ==
  Sources \subseteq [diagnostics : Seq(Severity), verdicts : Seq(Verdict)]
ASSUME RuntimeAssumption == Workers \in Nat \ {0} /\ Capacity \in Nat \ {0}

VARIABLES
  req,     \* the request of each client
  task,    \* what serves it
  result,  \* what run_check returned
  handed,  \* events of a stream handed to the channel, or lost with the client
  chan,    \* events in the channel
  got,     \* what the client received: events, or one reply
  client   \* the client

serverVars == <<req, task, result, handed, chan, got, client>>

-----------------------------------------------------------------------------
(* assura-pipeline.                                                        *)

Holds(s, x) == \E i \in 1..Len(s) : s[i] = x

has_errors(src) == Holds(src.diagnostics, "error")

compile(src) == [diagnostics |-> src.diagnostics, verification |-> <<>>]

\* Only a contract whose ensures verified and was not refuted loses A04008.
suppress_a04008(diagnostics, verification) ==
  IF Holds(verification, "verified") /\ ~Holds(verification, "counterexample")
  THEN SelectSeq(diagnostics, LAMBDA d : d # "A04008")
  ELSE diagnostics

\* Verification needs a file without errors; it adds no diagnostics.
compile_full(src) ==
  IF has_errors(src) THEN compile(src)
  ELSE [diagnostics |-> suppress_a04008(src.diagnostics, src.verdicts),
        verification |-> src.verdicts]

verification_succeeded(verification) ==
  ~Holds(verification, "counterexample") /\ ~Holds(verification, "timeout")

-----------------------------------------------------------------------------
(* The handlers.                                                           *)

\* int32 of proto3: a layer that is not set is 0; default_layer of HTTP is 1.
wire_layer(r) ==
  IF r.layer # "unset" THEN r.layer ELSE IF r.kind = "http" THEN "1" ELSE "0"

\* Layer 1 and the ones above it are all compile_full with the default options; Build
\* asks for layer 1.
run_check(r) ==
  IF r.kind = "build" \/ wire_layer(r) # "0" THEN compile_full(r.source) ELSE compile(r.source)

success(res) == \A i \in 1..Len(res.diagnostics) : res.diagnostics[i] # "error"

Complete(res) ==
  [event |-> "complete", success |-> success(res),
   n |-> <<Len(res.diagnostics), Len(res.verification)>>]

\* The events of a stream, in the order they are sent.
Events(res) ==
     [i \in 1..Len(res.diagnostics) |-> [event |-> "diagnostic", what |-> res.diagnostics[i]]]
  \o [i \in 1..Len(res.verification) |-> [event |-> "verification", what |-> res.verification[i]]]
  \o <<Complete(res)>>

\* HTTP leaves the verification results out; Build generates only on success;
\* "health" stands for Explain too, which looks a code up in a constant table.
\* run_codegen compiles the same source a second time, within the same poll of
\* the handler, so a flag stands for the files it returns.
Reply(r, res) ==
  IF r.kind = "health" THEN [status |-> "serving"]
  ELSE [success |-> success(res), diagnostics |-> res.diagnostics,
        verifications |-> IF r.kind = "check" THEN res.verification ELSE <<>>,
        generated |-> r.kind = "build" /\ success(res)]

NoResult == [diagnostics |-> <<>>, verification |-> <<>>]

Calls ==
  [kind : {"check", "build", "stream", "http"}, layer : {"unset", "0", "1"}, source : Sources]
  \cup [kind : {"health"}, layer : {"unset"}, source : Sources]

ServerInit ==
  /\ req \in [Clients -> Calls]
  /\ task = [c \in Clients |-> "none"]
  /\ result = [c \in Clients |-> NoResult]
  /\ handed = [c \in Clients |-> 0]
  /\ chan = [c \in Clients |-> <<>>]
  /\ got = [c \in Clients |-> <<>>]
  /\ client = [c \in Clients |-> "idle"]

\* Mutant: a task that waits for the channel keeps its thread.
MutantBusy ==
  {c \in Clients : \/ task[c] = "running"
                   \/ task[c] = "sending" /\ Len(chan[c]) = Capacity /\ client[c] # "gone"}

\* Tasks that hold a thread.
Busy == {c \in Clients : task[c] = "running"}

HasThread == Cardinality(Busy) < Workers

\* The client calls; for a stream, the handler spawns the task and answers.
Call(c) ==
  /\ client[c] = "idle"
  /\ client' = [client EXCEPT ![c] = "reading"]
  /\ task' = [task EXCEPT ![c] = "ready"]
  /\ UNCHANGED <<req, result, handed, chan, got>>

\* A thread takes the task and begins to compile and verify.
Start(c) ==
  /\ task[c] = "ready"
  /\ HasThread
  /\ task' = [task EXCEPT ![c] = "running"]
  /\ UNCHANGED <<req, result, handed, chan, got, client>>

\* Check, Build, Health and the HTTP routes reply once the work is done.  The
\* compiler does not panic here.
Respond(c) ==
  /\ task[c] = "running"
  /\ req[c].kind # "stream"
  /\ result' = [result EXCEPT ![c] = IF req[c].kind = "health" THEN NoResult ELSE run_check(req[c])]
  /\ task' = [task EXCEPT ![c] = "ended"]
  /\ IF client[c] = "gone" THEN UNCHANGED <<got, client>>
     ELSE /\ got' = [got EXCEPT ![c] = <<Reply(req[c], result'[c])>>]
          /\ client' = [client EXCEPT ![c] = "done"]
  /\ UNCHANGED <<req, handed, chan>>

\* The task of a stream has all its results before the first event.
Computed(c) ==
  /\ task[c] = "running"
  /\ req[c].kind = "stream"
  /\ result' = [result EXCEPT ![c] = run_check(req[c])]
  /\ task' = [task EXCEPT ![c] = "sending"]
  /\ UNCHANGED <<req, handed, chan, got, client>>

\* Mutant: try_send, whose error is ignored too.
MutantSend(c) ==
  /\ task[c] = "sending"
  /\ HasThread
  /\ handed' = [handed EXCEPT ![c] = @ + 1]
  /\ chan' = IF client[c] = "gone" \/ Len(chan[c]) = Capacity THEN chan
             ELSE [chan EXCEPT ![c] = Append(@, Events(result[c])[handed[c] + 1])]
  /\ task' = [task EXCEPT ![c] = IF handed[c] + 1 = Len(Events(result[c])) THEN "ended" ELSE @]
  /\ UNCHANGED <<req, result, got, client>>

\* send(..).await, its error ignored: the receiver may be gone.
Send(c) ==
  /\ task[c] = "sending"
  /\ HasThread
  /\ client[c] = "gone" \/ Len(chan[c]) < Capacity
  /\ handed' = [handed EXCEPT ![c] = @ + 1]
  /\ chan' = IF client[c] = "gone" THEN chan
             ELSE [chan EXCEPT ![c] = Append(@, Events(result[c])[handed[c] + 1])]
  /\ task' = [task EXCEPT ![c] = IF handed[c] + 1 = Len(Events(result[c])) THEN "ended" ELSE @]
  /\ UNCHANGED <<req, result, got, client>>

(* The client of a stream.                                                 *)

Receive(c) ==
  /\ client[c] = "reading"
  /\ chan[c] # <<>>
  /\ got' = [got EXCEPT ![c] = Append(@, Head(chan[c]))]
  /\ chan' = [chan EXCEPT ![c] = Tail(@)]
  /\ UNCHANGED <<req, task, result, handed, client>>

\* The sender is dropped with the task: the stream ends after its last event.
EndOfStream(c) ==
  /\ client[c] = "reading"
  /\ req[c].kind = "stream"
  /\ task[c] = "ended"
  /\ chan[c] = <<>>
  /\ client' = [client EXCEPT ![c] = "done"]
  /\ UNCHANGED <<req, task, result, handed, chan, got>>

\* The client keeps the connection and stops reading.
Stall(c) ==
  /\ client[c] = "reading"
  /\ client' = [client EXCEPT ![c] = "stalled"]
  /\ UNCHANGED <<req, task, result, handed, chan, got>>

\* The connection is lost, and the receiver dropped.
Disconnect(c) ==
  /\ client[c] \in {"reading", "stalled"}
  /\ client' = [client EXCEPT ![c] = "gone"]
  /\ chan' = [chan EXCEPT ![c] = <<>>]
  /\ UNCHANGED <<req, task, result, handed, got>>

Serve(c) == Start(c) \/ Respond(c) \/ Computed(c) \/ Send(c)

ServerNext ==
  \E c \in Clients :
    \/ Call(c) \/ Serve(c)
    \/ Receive(c) \/ EndOfStream(c) \/ Stall(c) \/ Disconnect(c)

\* The runtime polls every task that can run, the pipeline terminates, and a
\* client that reads goes on reading.
ServerSpec ==
  /\ ServerInit /\ [][ServerNext]_serverVars
  /\ \A c \in Clients : WF_serverVars(Serve(c)) /\ WF_serverVars(Receive(c) \/ EndOfStream(c))

-----------------------------------------------------------------------------
(* Properties.                                                             *)

\* Every variable has its type; the channel keeps its bound.
ServerTypeOK ==
  /\ req \in [Clients -> Calls]
  /\ task \in [Clients -> {"none", "ready", "running", "sending", "ended"}]
  /\ \A c \in Clients :
       /\ Len(chan[c]) <= Capacity
       /\ handed[c] <= Len(Events(result[c]))
       /\ client[c] \in {"idle", "reading", "stalled", "gone", "done"}
  /\ Cardinality({c \in Clients : task[c] = "running"}) <= Workers

\* What a client of a stream has received, and then what waits for it in the
\* channel, is the beginning of the events, whatever else is going on.
StreamInOrder ==
  \A c \in Clients :
    (req[c].kind = "stream" /\ task[c] \in {"sending", "ended"} /\ client[c] # "gone") =>
      got[c] \o chan[c] = SubSeq(Events(result[c]), 1, handed[c])

\* A stream that ends is complete: the totals of its last event are the numbers
\* of the events before it.
EndedStreamIsComplete ==
  \A c \in Clients :
    (req[c].kind = "stream" /\ client[c] = "done") =>
      LET e == got[c][Len(got[c])]
          Count(k) == Len(SelectSeq(got[c], LAMBDA x : x.event = k))
      IN /\ e.event = "complete"
         /\ e.n = <<Count("diagnostic"), Count("verification")>>
         /\ Count("complete") = 1

\* A client that waits for a reply, or reads its stream, comes to the end of it,
\* even if other clients stall: nobody holds a thread while he waits.
Answered ==
  \A c \in Clients : client[c] = "reading" ~> client[c] # "reading"

\* No task outlives a client that is gone, whatever is left to send.
TaskEnds ==
  \A c \in Clients : client[c] = "gone" ~> task[c] = "ended"

-----------------------------------------------------------------------------
(* What the documents say.                                                 *)

\* "For `did verify succeed?` use [`verification_succeeded`], not `!has_errors`
\* alone."
SuccessIsVerified ==
  \A c \in Clients :
    (client[c] = "done" /\ req[c].kind \in {"check", "http"} /\ got[c][1].success) =>
      verification_succeeded(result[c].verification)

\* "int32 layer = 3; // 0 = structural, 1 = SMT (default), 2 = full".
UnsetLayerIsSmt ==
  \A c \in Clients :
    (client[c] = "done" /\ req[c].kind = "check" /\ req[c].layer = "unset") =>
      got[c][1].verifications = compile_full(req[c].source).verification
=============================================================================
