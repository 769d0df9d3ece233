---------------------------- MODULE SolverProofs ----------------------------
(***************************************************************************)
(* Proofs about three parts of assura-smt that ask a solver.               *)
(*                                                                         *)
(* Portfolio, for every set of files.  The inductive invariant follows a   *)
(* results vector from its thread to the merge: a vector in the channel or *)
(* received is its sender's complete vector, and a vector that was sent is *)
(* in one of the two places.                                               *)
(*                                                                         *)
(* BoundedCheck, for every finite set of states, every bound, transition   *)
(* relation and property.  The inductive invariant says which questions    *)
(* are behind, and with what answer; the rest of the argument is about     *)
(* walks, which the reference definitions do not mention: the sets Post    *)
(* and Avoid are the ends of walks and GoesOn their beginnings, walks can  *)
(* be cut, joined and, where a cycle is closed, continued to the bound.    *)
(*                                                                         *)
(* Cvc5Shell, for contracts of any length and pipes of any size.  The      *)
(* inductive invariant numbers the lines of the output: line 2n - 1, in    *)
(* the parent's buffer, in the pipe or still owed, is an answer to the     *)
(* n-th pending clause, so as many answers as pending clauses are theirs.  *)
(***************************************************************************)
EXTENDS Portfolio, BoundedCheck, Cvc5Shell, WellFoundedInduction, FiniteSetTheorems, TLAPS

-----------------------------------------------------------------------------
(* Portfolio.                                                              *)

\* Each thread's vector is a prefix of an honest report, in its own name.
AnswersHonest ==
  \A s \in Solvers :
    /\ Len(answers[s]) <= Len(file)
    /\ \A n \in 1..Len(answers[s]) :
         answers[s][n].by = s /\ answers[s][n].tag \in HonestTags(file[n])

HasSent(s) == thread[s] \in {"sent", "exited"}

\* A thread sends only a complete vector.
SentComplete == \A s \in Solvers : HasSent(s) => Len(answers[s]) = Len(file)

\* What travels is what was sent.
QueueFaithful ==
  \A m \in 1..Len(channel) :
    /\ thread[channel[m].solver] \in {"sent", "exited"}
    /\ channel[m].results = answers[channel[m].solver]

ReceivedFaithful == \A s \in DOMAIN received : HasSent(s) /\ received[s] = answers[s]

\* Nothing that was sent is lost.
NothingLost ==
  \A s \in Solvers : HasSent(s) =>
    s \in DOMAIN received \/ \E m \in 1..Len(channel) : channel[m].solver = s

\* Once the caller has left the loop both threads are over and the merge is
\* of what it received; it returns only if neither panicked.
Merged ==
  /\ pc # "collect" =>
       /\ channel = <<>>
       /\ \A s \in Solvers : SenderDropped(s)
       /\ merged = merge_portfolio_results(unwrap_or_default("z3"), unwrap_or_default("cvc5"))
  /\ pc = "returned" => \A s \in Solvers : thread[s] # "panicked"

IInv ==
  /\ TypeOK
  /\ AnswersHonest
  /\ SentComplete
  /\ QueueFaithful
  /\ ReceivedFaithful
  /\ NothingLost
  /\ Merged

-----------------------------------------------------------------------------
\* The merge of two result vectors is a result vector, as long as the longer.
LEMMA MergeType ==
  ASSUME NEW T, NEW p \in Seq(T), NEW q \in Seq(T)
  PROVE  merge_portfolio_results(p, q) \in Seq(T)
<1> DEFINE max == IF Len(p) >= Len(q) THEN Len(p) ELSE Len(q)
<1>1. max \in Nat
  OBVIOUS
<1>2. ASSUME NEW n \in 1..max
      PROVE  (IF n > Len(p) THEN q[n]
              ELSE IF n > Len(q) THEN p[n]
              ELSE pick_better_portfolio_result(p[n], q[n])) \in T
  BY <1>2 DEF pick_better_portfolio_result
<1> HIDE DEF max
<1>3. [n \in 1..max |-> IF n > Len(p) THEN q[n]
                        ELSE IF n > Len(q) THEN p[n]
                        ELSE pick_better_portfolio_result(p[n], q[n])] \in Seq(T)
  BY <1>1, <1>2
<1> QED
  BY <1>3 DEF merge_portfolio_results, max

\* Vectors of one length are merged position by position.
LEMMA MergeSameLength ==
  ASSUME NEW T, NEW p \in Seq(T), NEW q \in Seq(T), Len(p) = Len(q)
  PROVE  /\ Len(merge_portfolio_results(p, q)) = Len(p)
         /\ DOMAIN merge_portfolio_results(p, q) = 1..Len(p)
         /\ \A n \in 1..Len(p) :
              merge_portfolio_results(p, q)[n] = pick_better_portfolio_result(p[n], q[n])
<1>1. merge_portfolio_results(p, q) \in Seq(T)
  BY MergeType
<1>2. DOMAIN merge_portfolio_results(p, q) = 1..Len(p)
  BY DEF merge_portfolio_results
<1>3. \A n \in 1..Len(p) :
        merge_portfolio_results(p, q)[n] = pick_better_portfolio_result(p[n], q[n])
  BY DEF merge_portfolio_results
<1> QED
  BY <1>1, <1>2, <1>3

\* Whatever was received, or not, is a result vector.
LEMMA UnwrapType ==
  ASSUME TypeOK, NEW s
  PROVE  unwrap_or_default(s) \in Seq(Result)
BY DEF TypeOK, unwrap_or_default

-----------------------------------------------------------------------------
\* The invariant holds when the call starts.
LEMMA InitIInv == Init => IInv
<1> SUFFICES ASSUME Init PROVE IInv
  OBVIOUS
<1>1. TypeOK
  BY DEF Init, TypeOK
<1>2. AnswersHonest
  BY DEF Init, AnswersHonest
<1>3. SentComplete /\ NothingLost
  BY DEF Init, SentComplete, NothingLost, HasSent
<1>4. QueueFaithful /\ ReceivedFaithful
  BY DEF Init, QueueFaithful, ReceivedFaithful
<1>5. Merged
  BY DEF Init, Merged
<1> QED
  BY <1>1, <1>2, <1>3, <1>4, <1>5 DEF IInv

\* Every step of a thread or of the caller preserves it.
LEMMA NextIInv == IInv /\ [Next]_vars => IInv'
<1> SUFFICES ASSUME IInv, [Next]_vars PROVE IInv'
  OBVIOUS
<1>0. /\ file \in Seq(Abouts) /\ Len(file) \in Nat
      /\ \A s \in Solvers : answers[s] \in Seq(Result)
  BY FilesAssumption DEF IInv, TypeOK
<1>1. ASSUME NEW s \in Solvers, Answer(s) PROVE IInv'
  <2> USE <1>0, <1>1
  <2> thread[s] = "running"
    BY DEF Answer
  <2>1. PICK tag \in HonestTags(file[Len(answers[s]) + 1]) :
          answers' = [answers EXCEPT ![s] = Append(@, [tag |-> tag, by |-> s])]
    BY DEF Answer
  <2> tag \in Tags
    BY DEF HonestTags
  <2>2. /\ answers'[s] = Append(answers[s], [tag |-> tag, by |-> s])
        /\ \A t \in Solvers : t # s => answers'[t] = answers[t]
    BY <2>1 DEF IInv, TypeOK
  <2>3. TypeOK'
    <3>1. Append(answers[s], [tag |-> tag, by |-> s]) \in Seq(Result)
      <4>1. [tag |-> tag, by |-> s] \in Result
        BY DEF Result
      <4> QED
        BY <4>1
    <3>2. answers' \in [Solvers -> Seq(Result)]
      BY <2>1, <3>1 DEF IInv, TypeOK
    <3> QED
      BY <3>2 DEF IInv, TypeOK, Answer
  <2>4. AnswersHonest'
    <3> SUFFICES ASSUME NEW t \in Solvers
                 PROVE  /\ Len(answers'[t]) <= Len(file)
                        /\ \A n \in 1..Len(answers'[t]) :
                             answers'[t][n].by = t /\ answers'[t][n].tag \in HonestTags(file[n])
      BY DEF AnswersHonest, Answer
    <3>1. CASE t # s
      BY <3>1, <2>2 DEF IInv, AnswersHonest
    <3>2. CASE t = s
      <4>1. Len(answers'[s]) = Len(answers[s]) + 1
        BY <2>2
      <4>2. \A n \in 1..Len(answers[s]) : answers'[s][n] = answers[s][n]
        BY <2>2
      <4>3. answers'[s][Len(answers[s]) + 1] = [tag |-> tag, by |-> s]
        BY <2>2
      <4> QED
        BY <3>2, <4>1, <4>2, <4>3 DEF IInv, AnswersHonest, Answer
    <3> QED
      BY <3>1, <3>2
  <2>5. SentComplete'
    BY <2>2 DEF IInv, SentComplete, HasSent, Answer
  <2>6. QueueFaithful'
    BY <2>2 DEF IInv, QueueFaithful, Answer, TypeOK, Message
  <2>7. ReceivedFaithful'
    BY <2>2 DEF IInv, ReceivedFaithful, HasSent, Answer, TypeOK
  <2>8. NothingLost'
    BY DEF IInv, NothingLost, HasSent, Answer
  <2>9. Merged'
    BY DEF IInv, Merged, SenderDropped, unwrap_or_default, Answer
  <2> QED
    BY <2>3, <2>4, <2>5, <2>6, <2>7, <2>8, <2>9 DEF IInv
<1>2. ASSUME NEW s \in Solvers, Panic(s) PROVE IInv'
  <2> USE <1>0, <1>2
  <2>1. TypeOK'
    BY DEF IInv, TypeOK, Panic
  <2>2. AnswersHonest'
    BY DEF IInv, AnswersHonest, Panic
  <2>3. \A t \in Solvers : HasSent(t)' <=> HasSent(t)
    BY DEF IInv, TypeOK, HasSent, Panic
  <2>4. SentComplete' /\ NothingLost'
    BY <2>3 DEF IInv, SentComplete, NothingLost, Panic
  <2>5. QueueFaithful' /\ ReceivedFaithful'
    <3>1. \A m \in 1..Len(channel) : channel[m].solver \in Solvers
      <4>1. \A m \in 1..Len(channel) : channel[m] \in Message
        BY DEF IInv, TypeOK
      <4> QED
        BY <4>1 DEF Message
    <3>2. QueueFaithful'
      BY <3>1 DEF IInv, TypeOK, QueueFaithful, Panic
    <3>3. ReceivedFaithful'
      BY <2>3 DEF IInv, TypeOK, ReceivedFaithful, Panic
    <3> QED
      BY <3>2, <3>3
  <2>6. Merged'
    BY DEF IInv, TypeOK, Merged, SenderDropped, unwrap_or_default, Panic
  <2> QED
    BY <2>1, <2>2, <2>4, <2>5, <2>6 DEF IInv
<1>3. ASSUME NEW s \in Solvers, Send(s) PROVE IInv'
  <2> USE <1>0, <1>3
  <2> DEFINE msg == [solver |-> s, results |-> answers[s]]
  <2> msg \in Message
    BY DEF Message
  <2>1. channel' = Append(channel, msg) /\ channel \in Seq(Message)
    BY DEF IInv, TypeOK, Send, Label
  <2>2. /\ Len(channel') = Len(channel) + 1
        /\ channel'[Len(channel) + 1] = msg
        /\ \A m \in 1..Len(channel) : channel'[m] = channel[m]
    BY <2>1
  <2>3. TypeOK'
    BY <2>1 DEF IInv, TypeOK, Send
  <2>4. AnswersHonest'
    BY DEF IInv, AnswersHonest, Send
  <2>5. HasSent(s)' /\ \A t \in Solvers : HasSent(t) => HasSent(t)'
    BY DEF IInv, TypeOK, HasSent, Send
  <2>6. SentComplete'
    BY DEF IInv, TypeOK, SentComplete, HasSent, Send
  <2>7. QueueFaithful'
    <3> SUFFICES ASSUME NEW m \in 1..(Len(channel) + 1)
                 PROVE  /\ thread'[channel'[m].solver] \in {"sent", "exited"}
                        /\ channel'[m].results = answers[channel'[m].solver]
      BY <2>2 DEF QueueFaithful, Send
    <3>1. CASE m \in 1..Len(channel)
      <4>1. channel[m] \in Message
        BY <3>1, <2>1
      <4>2. channel[m].solver \in Solvers
        BY <4>1 DEF Message
      <4>3. /\ thread[channel[m].solver] \in {"sent", "exited"}
            /\ channel[m].results = answers[channel[m].solver]
        BY <3>1 DEF IInv, QueueFaithful
      <4> QED
        BY <3>1, <2>2, <2>5, <4>2, <4>3 DEF HasSent
    <3>2. CASE m = Len(channel) + 1
      BY <3>2, <2>2, <2>5 DEF HasSent
    <3> QED
      BY <2>1, <3>1, <3>2
  <2>8. ReceivedFaithful'
    BY <2>5 DEF IInv, TypeOK, ReceivedFaithful, Send
  <2>9. NothingLost'
    <3> SUFFICES ASSUME NEW t \in Solvers, HasSent(t)'
                 PROVE  t \in DOMAIN received \/ \E m \in 1..Len(channel') : channel'[m].solver = t
      BY DEF NothingLost, Send
    <3>1. CASE t = s
      BY <3>1, <2>1, <2>2
    <3>2. CASE t # s
      <4>1. HasSent(t)
        BY <3>2 DEF HasSent, Send, IInv, TypeOK
      <4>2. t \in DOMAIN received \/ \E m \in 1..Len(channel) : channel[m].solver = t
        BY <4>1 DEF IInv, NothingLost
      <4>3. CASE t \in DOMAIN received
        BY <4>3
      <4>4. CASE t \notin DOMAIN received
        <5>1. PICK m \in 1..Len(channel) : channel[m].solver = t
          BY <4>2, <4>4
        <5>2. m \in 1..Len(channel') /\ channel'[m].solver = t
          <6>1. Len(channel) \in Nat
            BY <2>1
          <6>2. channel'[m] = channel[m]
            BY <2>2
          <6> QED
            BY <2>2, <5>1, <6>1, <6>2
        <5> QED
          BY <5>2
      <4> QED
        BY <4>3, <4>4
    <3> QED
      BY <3>1, <3>2
  <2>10. Merged'
    BY DEF IInv, Merged, SenderDropped, Send
  <2> QED
    BY <2>3, <2>4, <2>6, <2>7, <2>8, <2>9, <2>10 DEF IInv
<1>4. ASSUME NEW s \in Solvers, Exit(s) PROVE IInv'
  <2> USE <1>0, <1>4
  <2>1. TypeOK'
    BY DEF IInv, TypeOK, Exit
  <2>2. AnswersHonest'
    BY DEF IInv, AnswersHonest, Exit
  <2>3. \A t \in Solvers : HasSent(t)' <=> HasSent(t)
    BY DEF IInv, TypeOK, HasSent, Exit
  <2>4. SentComplete' /\ NothingLost'
    BY <2>3 DEF IInv, SentComplete, NothingLost, Exit
  <2>5. QueueFaithful' /\ ReceivedFaithful'
    <3>1. \A m \in 1..Len(channel) : channel[m].solver \in Solvers
      <4>1. \A m \in 1..Len(channel) : channel[m] \in Message
        BY DEF IInv, TypeOK
      <4> QED
        BY <4>1 DEF Message
    <3>2. QueueFaithful'
      BY <3>1 DEF IInv, TypeOK, QueueFaithful, Exit
    <3>3. ReceivedFaithful'
      BY <2>3 DEF IInv, TypeOK, ReceivedFaithful, Exit
    <3> QED
      BY <3>2, <3>3
  <2>6. Merged'
    BY DEF IInv, TypeOK, Merged, SenderDropped, unwrap_or_default, Exit
  <2> QED
    BY <2>1, <2>2, <2>4, <2>5, <2>6 DEF IInv
<1>5. CASE Receive
  <2> USE <1>0, <1>5
  <2>1. channel \in Seq(Message) /\ channel # <<>>
    BY DEF IInv, TypeOK, Receive
  <2>2. /\ Head(channel) = channel[1] /\ 1 \in 1..Len(channel)
        /\ channel[1] \in Message
    BY <2>1
  <2> DEFINE s == channel[1].solver
  <2>3. s \in Solvers /\ Slot(Head(channel)) = s
    BY <2>2 DEF Message, Slot, Solvers
  <2>4. HasSent(s) /\ channel[1].results = answers[s]
    BY <2>2 DEF IInv, QueueFaithful, HasSent
  <2>5. /\ DOMAIN received' = DOMAIN received \cup {s}
        /\ \A t \in DOMAIN received' : received'[t] = IF t = s THEN answers[s] ELSE received[t]
    BY <2>2, <2>3, <2>4 DEF Receive
  <2>6. /\ channel' = Tail(channel) /\ Len(channel') = Len(channel) - 1
        /\ channel' \in Seq(Message)
        /\ \A m \in 1..Len(channel') : channel'[m] = channel[m + 1]
    BY <2>1 DEF Receive
  <2> HIDE DEF s
  <2>7. TypeOK'
    BY <2>3, <2>5, <2>6 DEF IInv, TypeOK, Receive
  <2>8. AnswersHonest' /\ SentComplete'
    BY DEF IInv, AnswersHonest, SentComplete, HasSent, Receive
  <2>9. QueueFaithful'
    <3> SUFFICES ASSUME NEW m \in 1..Len(channel')
                 PROVE  /\ thread[channel'[m].solver] \in {"sent", "exited"}
                        /\ channel'[m].results = answers[channel'[m].solver]
      BY DEF QueueFaithful, Receive
    <3>1. m + 1 \in 1..Len(channel) /\ channel'[m] = channel[m + 1]
      BY <2>1, <2>6
    <3> QED
      BY <3>1 DEF IInv, QueueFaithful
  <2>10. ReceivedFaithful'
    BY <2>4, <2>5 DEF IInv, ReceivedFaithful, HasSent, Receive
  <2>11. NothingLost'
    <3> SUFFICES ASSUME NEW t \in Solvers, HasSent(t), t \notin DOMAIN received'
                 PROVE  \E m \in 1..Len(channel') : channel'[m].solver = t
      BY DEF NothingLost, HasSent, Receive
    <3>1. PICK m \in 1..Len(channel) : channel[m].solver = t
      BY <2>5 DEF IInv, NothingLost
    <3>2. m # 1
      BY <3>1, <2>5 DEF s
    <3>3. m - 1 \in 1..Len(channel') /\ channel'[m - 1] = channel[m]
      BY <3>1, <3>2, <2>1, <2>6
    <3> QED
      BY <3>1, <3>3
  <2>12. Merged'
    BY DEF Merged, Receive
  <2> QED
    BY <2>7, <2>8, <2>9, <2>10, <2>11, <2>12 DEF IInv
<1>6. CASE Merge
  <2> USE <1>0, <1>6
  <2>1. merged' \in Seq(Result)
    BY MergeType, UnwrapType DEF IInv, Merge
  <2>2. TypeOK'
    BY <2>1 DEF IInv, TypeOK, Merge
  <2>3. AnswersHonest' /\ SentComplete' /\ QueueFaithful' /\ ReceivedFaithful' /\ NothingLost'
    BY DEF IInv, AnswersHonest, SentComplete, QueueFaithful, ReceivedFaithful, NothingLost,
           HasSent, Merge
  <2>4. Merged'
    BY DEF Merged, Merge, RxDisconnected, SenderDropped, unwrap_or_default
  <2> QED
    BY <2>2, <2>3, <2>4 DEF IInv
<1>7. CASE Join
  <2> USE <1>0, <1>7
  <2>1. TypeOK'
    BY DEF IInv, TypeOK, Join, ScopeOutcome
  <2>2. AnswersHonest' /\ SentComplete' /\ QueueFaithful' /\ ReceivedFaithful' /\ NothingLost'
    BY DEF IInv, AnswersHonest, SentComplete, QueueFaithful, ReceivedFaithful, NothingLost,
           HasSent, Join
  <2>3. Merged'
    BY DEF IInv, Merged, Join, ScopeOutcome, SenderDropped, unwrap_or_default
  <2> QED
    BY <2>1, <2>2, <2>3 DEF IInv
<1>8. CASE UNCHANGED vars
  <2> USE <1>8
  <2>1. TypeOK' /\ AnswersHonest' /\ SentComplete'
    BY DEF IInv, TypeOK, AnswersHonest, SentComplete, HasSent, vars
  <2>2. QueueFaithful' /\ ReceivedFaithful' /\ NothingLost' /\ Merged'
    BY DEF IInv, QueueFaithful, ReceivedFaithful, NothingLost, Merged, HasSent, SenderDropped,
           unwrap_or_default, vars
  <2> QED
    BY <2>1, <2>2 DEF IInv
<1> QED
  BY <1>1, <1>2, <1>3, <1>4, <1>5, <1>6, <1>7, <1>8 DEF Next, Caller, Thread

-----------------------------------------------------------------------------
\* What the invariant says of a call that returns: both vectors are complete
\* and the report is their merge, position by position.
ReturnedIsMerge ==
  /\ \A s \in Solvers : answers[s] \in Seq(Result) /\ Len(answers[s]) = Len(file)
  /\ Len(merged) = Len(file) /\ DOMAIN merged = 1..Len(file) /\ Len(file) \in Nat
  /\ \A n \in 1..Len(file) :
       merged[n] = pick_better_portfolio_result(answers["z3"][n], answers["cvc5"][n])

\* A returned report is the merge of two complete vectors.
LEMMA ReturnedMerge == IInv /\ pc = "returned" => ReturnedIsMerge
<1> SUFFICES ASSUME IInv, pc = "returned" PROVE ReturnedIsMerge
  OBVIOUS
<1>0. Len(file) \in Nat
  BY FilesAssumption DEF IInv, TypeOK
<1>1. \A s \in Solvers : HasSent(s)
  BY DEF IInv, Merged, SenderDropped, HasSent, TypeOK
<1>2. \A s \in Solvers : s \in DOMAIN received /\ received[s] = answers[s]
  <2> Len(channel) = 0
    BY DEF IInv, Merged
  <2> QED
    BY <1>1 DEF IInv, NothingLost, ReceivedFaithful
<1>3. \A s \in Solvers : answers[s] \in Seq(Result) /\ Len(answers[s]) = Len(file)
  BY <1>1 DEF IInv, TypeOK, SentComplete
<1>4. "z3" \in Solvers /\ "cvc5" \in Solvers
  BY DEF Solvers
<1>5. merged = merge_portfolio_results(answers["z3"], answers["cvc5"])
  BY <1>2, <1>4 DEF IInv, Merged, unwrap_or_default
<1> QED
  BY <1>0, <1>3, <1>4, <1>5, MergeSameLength DEF ReturnedIsMerge

\* Every variable keeps its type in every behaviour.
THEOREM TypeCorrect == Spec => []TypeOK
<1>1. IInv => TypeOK
  BY DEF IInv
<1> QED
  BY <1>1, InitIInv, NextIInv, PTL DEF Spec

\* A vector a thread sent is in the channel or in its own slot, unchanged,
\* whatever the order of the messages and whichever thread dies.
THEOREM NothingSentIsLost == Spec => []SentIsKept
<1>1. IInv => SentIsKept
  <2> SUFFICES ASSUME IInv PROVE SentIsKept
    OBVIOUS
  <2>1. DOMAIN channel = 1..Len(channel)
    BY DEF IInv, TypeOK
  <2>2. ASSUME NEW s \in Solvers, thread[s] \in {"sent", "exited"}
        PROVE  s \in DOMAIN received \/ \E m \in DOMAIN channel : channel[m].solver = s
    BY <2>1, <2>2 DEF IInv, NothingLost, HasSent
  <2>3. \A m \in DOMAIN channel : channel[m].results = answers[channel[m].solver]
    BY <2>1 DEF IInv, QueueFaithful
  <2>4. \A s \in DOMAIN received : received[s] = answers[s]
    BY DEF IInv, ReceivedFaithful
  <2> QED
    BY <2>2, <2>3, <2>4 DEF SentIsKept
<1> QED
  BY <1>1, InitIInv, NextIInv, PTL DEF Spec

\* A returned report has, at every position, one of the two solvers' own
\* answers, and a definitive one if either was definitive, whatever order the
\* threads finished in.
THEOREM BestOfBoth == Spec => []ReturnsBestOfBoth
<1>1. IInv => ReturnsBestOfBoth
  <2> SUFFICES ASSUME IInv, pc = "returned" PROVE ReturnsBestOfBoth
    BY DEF ReturnsBestOfBoth
  <2>1. ASSUME NEW n \in DOMAIN merged
        PROVE  /\ \E s \in Solvers : merged[n] = answers[s][n]
               /\ (\E s \in Solvers : answers[s][n].tag \in Definitive) => merged[n].tag \in Definitive
    BY ReturnedMerge, <2>1
       DEF ReturnedIsMerge, pick_better_portfolio_result, portfolio_result_priority, Definitive, Solvers
  <2> QED
    BY ReturnedMerge, <2>1 DEF ReturnedIsMerge, ReturnsBestOfBoth
<1> QED
  BY <1>1, InitIInv, NextIInv, PTL DEF Spec

\* cvc5's answer is reported only where it has the higher priority.
THEOREM TiesGoToZ3 == Spec => []Z3WinsTies
<1>1. IInv => Z3WinsTies
  <2> SUFFICES ASSUME IInv, pc = "returned", NEW n \in DOMAIN merged, merged[n].by = "cvc5"
               PROVE  portfolio_result_priority(merged[n])
                        > portfolio_result_priority(answers["z3"][n])
    BY DEF Z3WinsTies
  <2>1. /\ n \in 1..Len(file) /\ n \in 1..Len(answers["z3"])
        /\ merged[n] = pick_better_portfolio_result(answers["z3"][n], answers["cvc5"][n])
    BY ReturnedMerge DEF ReturnedIsMerge, Solvers
  <2>2. answers["z3"][n].by = "z3"
    BY <2>1 DEF IInv, AnswersHonest, Solvers
  <2> QED
    BY <2>1, <2>2 DEF pick_better_portfolio_result, portfolio_result_priority
<1> QED
  BY <1>1, InitIInv, NextIInv, PTL DEF Spec

\* The portfolio of two sound backends is a sound backend: every behaviour of
\* the two threads and the caller is one of the honest report.
THEOREM Refinement == Spec => ImplementsHonestReport
<1> DEFINE entries == [n \in DOMAIN merged |-> [about |-> file[n], tag |-> merged[n].tag]]
           report == IF pc = "returned" THEN entries ELSE <<>>
<1>1. Init => Abstract!Init
  BY DEF Init, Abstract!Init
<1>2. ASSUME IInv, IInv', [Next]_vars
      PROVE  [Abstract!Next]_report
  <2>1. CASE Join /\ pc' = "returned"
    <3>1. report = <<>> /\ report' = entries'
      BY <2>1 DEF Join
    <3>2. ReturnedIsMerge'
      <4>1. (IInv /\ pc = "returned" => ReturnedIsMerge)'
        BY ReturnedMerge, PTL
      <4> QED
        BY <1>2, <2>1, <4>1
    <3>3. /\ DOMAIN merged' = 1..Len(file') /\ Len(file') \in Nat
          /\ file' \in Seq(Abouts) /\ Len(file') = Len(file')
      BY <3>2, <1>2, FilesAssumption DEF ReturnedIsMerge, IInv, TypeOK
    <3>4. ASSUME NEW n \in 1..Len(file')
          PROVE  entries'[n] \in Abstract!Entry /\ Abstract!Honest(entries'[n])
      <4>1. entries'[n] = [about |-> file'[n], tag |-> merged'[n].tag]
        BY <3>3
      <4>2. file'[n] \in Abouts
        BY <3>3
      <4>3. PICK s \in Solvers : merged'[n] = answers'[s][n]
        BY <3>2 DEF ReturnedIsMerge, pick_better_portfolio_result, Solvers
      <4>4. n \in 1..Len(answers'[s])
        BY <3>2 DEF ReturnedIsMerge
      <4>5. merged'[n].tag \in HonestTags(file'[n])
        BY <1>2, <4>3, <4>4 DEF IInv, AnswersHonest
      <4>6. merged'[n].tag \in Tags
        BY <4>5 DEF HonestTags
      <4>7. entries'[n] \in Abstract!Entry
        BY <4>1, <4>2, <4>6 DEF Abstract!Entry, Abstract!Tags, Tags, Abouts
      <4>8. Abstract!Honest(entries'[n])
        BY <4>1, <4>5 DEF Abstract!Honest, HonestTags
      <4> QED
        BY <4>7, <4>8
    <3>5. /\ report' \in Seq(Abstract!Entry)
          /\ Len(report') = Len(file') /\ DOMAIN report' = 1..Len(file')
      <4>1. entries' = [n \in 1..Len(file') |-> [about |-> file'[n], tag |-> merged'[n].tag]]
        BY <3>3
      <4>2. entries' \in [1..Len(file') -> Abstract!Entry]
        BY <3>4, <4>1
      <4> HIDE DEF entries
      <4> QED
        BY <3>1, <3>3, <4>2
    <3>6. Len(report) = 0 /\ DOMAIN report = {}
      BY <3>1
    <3>7. \A n \in DOMAIN report' : Abstract!Honest(report'[n])
      BY <3>1, <3>4, <3>5
    <3>8. Abstract!Extend
      BY <3>5, <3>6, <3>7 DEF Abstract!Extend
    <3> QED
      BY <3>8 DEF Abstract!Next
  <2>2. CASE ~(Join /\ pc' = "returned")
    <3>1. (pc # "returned" /\ pc' # "returned") \/ UNCHANGED <<pc, merged, file>>
      <4>1. pc = "returned" => \A s \in Solvers : thread[s] = "exited"
        BY <1>2 DEF IInv, TypeOK, Merged, SenderDropped
      <4> QED
        BY <1>2, <2>2, <4>1 DEF Next, Caller, Thread, Answer, Panic, Send, Exit, Receive, Merge, Join, vars
    <3> QED
      BY <3>1
  <2> QED
    BY <2>1, <2>2
<1> QED
  BY <1>1, <1>2, InitIInv, NextIInv, PTL DEF Spec, ImplementsHonestReport, Abstract!Spec

-----------------------------------------------------------------------------
(* BoundedCheck: numbers, recursion and walks.                             *)

\* A nonempty set of numbers has a least one.
LEMMA LeastNumber ==
  ASSUME NEW S \in SUBSET Nat, S # {}
  PROVE  \E n \in S : \A m \in S : n <= m
<1> DEFINE R == {ss \in Nat \X Nat : ss[1] < ss[2]}
<1>1. IsWellFoundedOn(R, Nat)
  <2>1. OpToRel(<, Nat) = R
    BY Zenon DEF OpToRel
  <2> QED
    BY <2>1, NatLessThanWellFounded, Zenon
<1> HIDE DEF R
<1>2. PICK n \in S : \A m \in S : <<m, n>> \notin R
  BY <1>1, WFMin
<1>3. \A m \in S : ~(m < n)
  BY <1>2 DEF R
<1> QED
  BY <1>3

\* Induction, on sets of numbers.
LEMMA SetInduction ==
  ASSUME NEW S, 0 \in S, \A n \in Nat : n \in S => n + 1 \in S
  PROVE  \A n \in Nat : n \in S
<1> SUFFICES ASSUME NEW b \in Nat, b \notin S PROVE FALSE
  OBVIOUS
<1> DEFINE D == {n \in Nat : n \notin S}
<1>1. PICK n \in D : \A m \in D : n <= m
  <2>1. D \in SUBSET Nat /\ D # {}
    OBVIOUS
  <2> HIDE DEF D
  <2> QED
    BY <2>1, LeastNumber
<1>2. n \in Nat /\ n \notin S /\ n # 0
  BY <1>1
<1>3. n - 1 \in Nat /\ n - 1 \notin S
  BY <1>2
<1>4. n - 1 \in D
  BY <1>3
<1>5. n <= n - 1
  BY <1>1, <1>4
<1> QED
  BY <1>2, <1>5

\* A recursion on the numbers has a solution.
LEMMA RecursionExists ==
  ASSUME NEW V, NEW I \in V, NEW g \in [V -> V]
  PROVE  \E F \in [Nat -> V] : F[0] = I /\ \A n \in Nat : F[n + 1] = g[F[n]]
<1> DEFINE Approx(m, f) == /\ f \in [0..m -> V]
                           /\ f[0] = I
                           /\ \A i \in 0..(m - 1) : f[i + 1] = g[f[i]]
           Has == {m \in Nat : \E f : Approx(m, f)}
<1>1. \A m \in Nat : \E f : Approx(m, f)
  <2>1. 0 \in Has
    <3>1. Approx(0, [j \in 0..0 |-> I])
      OBVIOUS
    <3> QED
      BY <3>1
  <2>2. ASSUME NEW m \in Nat, m \in Has PROVE m + 1 \in Has
    <3>1. PICK f : Approx(m, f)
      BY <2>2
    <3> DEFINE h == [j \in 0..(m + 1) |-> IF j <= m THEN f[j] ELSE g[f[m]]]
    <3>2. f \in [0..m -> V] /\ f[0] = I /\ \A i \in 0..(m - 1) : f[i + 1] = g[f[i]]
      BY <3>1
    <3>3. h \in [0..(m + 1) -> V]
      BY <3>2
    <3>4. h[0] = I
      BY <3>2
    <3>5. ASSUME NEW i \in 0..m PROVE h[i + 1] = g[h[i]]
      <4>1. CASE i = m
        BY <4>1
      <4>2. CASE i # m
        <5>1. i \in 0..(m - 1) /\ i + 1 <= m /\ i + 1 \in 0..(m + 1) /\ i \in 0..(m + 1) /\ i <= m
          BY <4>2
        <5> QED
          BY <3>2, <5>1
      <4> QED
        BY <4>1, <4>2
    <3>6. Approx(m + 1, h)
      BY <3>3, <3>4, <3>5
    <3> QED
      BY <3>6
  <2> HIDE DEF Has
  <2>3. \A m \in Nat : m \in Has
    BY <2>1, <2>2, SetInduction
  <2> QED
    BY <2>3 DEF Has
<1>2. ASSUME NEW m \in Nat, NEW n \in Nat, NEW f, NEW h, Approx(m, f), Approx(n, h), m <= n
      PROVE  \A i \in 0..m : f[i] = h[i]
  <2> DEFINE Same == {i \in Nat : i <= m => f[i] = h[i]}
  <2>1. 0 \in Same
    BY <1>2
  <2>2. ASSUME NEW i \in Nat, i \in Same PROVE i + 1 \in Same
    <3> SUFFICES ASSUME i + 1 <= m PROVE f[i + 1] = h[i + 1]
      OBVIOUS
    <3>1. i \in 0..(m - 1) /\ i \in 0..(n - 1) /\ f[i] = h[i]
      BY <1>2, <2>2
    <3> QED
      BY <1>2, <3>1
  <2> HIDE DEF Same
  <2>3. \A i \in Nat : i \in Same
    BY <2>1, <2>2, SetInduction
  <2> QED
    BY <2>3 DEF Same
<1> HIDE DEF Approx
<1> DEFINE A(m) == CHOOSE f : Approx(m, f)
           F == [m \in Nat |-> A(m)[m]]
<1>3. \A m \in Nat : Approx(m, A(m))
  BY <1>1
<1> HIDE DEF A
<1>4. F \in [Nat -> V]
  <2>1. ASSUME NEW m \in Nat PROVE A(m)[m] \in V
    BY <1>3 DEF Approx
  <2> QED
    BY <2>1
<1>5. F[0] = I
  BY <1>3 DEF Approx
<1>6. ASSUME NEW n \in Nat PROVE F[n + 1] = g[F[n]]
  <2>1. A(n)[n] = A(n + 1)[n]
    <3>1. Approx(n, A(n)) /\ Approx(n + 1, A(n + 1)) /\ n + 1 \in Nat /\ n <= n + 1 /\ n \in 0..n
      BY <1>3
    <3> QED
      BY <1>2, <3>1
  <2>2. A(n + 1)[n + 1] = g[A(n + 1)[n]]
    <3>1. Approx(n + 1, A(n + 1)) /\ n \in 0..((n + 1) - 1)
      BY <1>3
    <3> QED
      BY <3>1 DEF Approx
  <2> QED
    BY <2>1, <2>2
<1> QED
  BY <1>4, <1>5, <1>6

\* The states of walks, one step after the other: Post and Avoid.
LEMMA PostRec ==
  /\ Post[0] = Start
  /\ \A n \in Nat : Post[n + 1] = Image(Post[n])
<1> DEFINE g == [X \in SUBSET States |-> Image(X)]
           V == SUBSET States
<1>1. g \in [V -> V] /\ Start \in V
  BY StartAssumption DEF Image
<1>2. PICK F \in [Nat -> V] : F[0] = Start /\ \A n \in Nat : F[n + 1] = g[F[n]]
  <2> HIDE DEF g, V
  <2> QED
    BY <1>1, RecursionExists
<1>3. F = [n \in Nat |-> IF n = 0 THEN Start ELSE Image(F[n - 1])]
  <2>1. ASSUME NEW n \in Nat PROVE F[n] = IF n = 0 THEN Start ELSE Image(F[n - 1])
    <3>1. CASE n # 0
      <4>1. n - 1 \in Nat /\ (n - 1) + 1 = n
        BY <3>1
      <4> QED
        BY <1>2, <3>1, <4>1
    <3> QED
      BY <1>2, <3>1
  <2> QED
    BY <2>1
<1>4. Post = [n \in Nat |-> IF n = 0 THEN Start ELSE Image(Post[n - 1])]
  BY <1>3 DEF Post
<1>5. \A n \in Nat : Post[n] = IF n = 0 THEN Start ELSE Image(Post[n - 1])
  BY <1>4
<1>6. ASSUME NEW n \in Nat PROVE Post[n + 1] = Image(Post[n])
  <2>1. n + 1 \in Nat /\ n + 1 # 0 /\ (n + 1) - 1 = n
    OBVIOUS
  <2> QED
    BY <1>5, <2>1
<1> QED
  BY <1>5, <1>6

\* ... and for walks that avoid the goal.
LEMMA AvoidRec ==
  ASSUME NEW S \in SUBSET States
  PROVE  /\ Avoid(S)[0] = S \ Predicate
         /\ \A n \in Nat : Avoid(S)[n + 1] = Image(Avoid(S)[n]) \ Predicate
<1> DEFINE g == [X \in SUBSET States |-> Image(X) \ Predicate]
           V == SUBSET States
           I == S \ Predicate
<1>1. g \in [V -> V] /\ I \in V
  BY DEF Image
<1>2. PICK F \in [Nat -> V] : F[0] = I /\ \A n \in Nat : F[n + 1] = g[F[n]]
  <2> HIDE DEF g, V, I
  <2> QED
    BY <1>1, RecursionExists
<1>3. F = [n \in Nat |-> IF n = 0 THEN S \ Predicate ELSE Image(F[n - 1]) \ Predicate]
  <2>1. ASSUME NEW n \in Nat PROVE F[n] = IF n = 0 THEN S \ Predicate ELSE Image(F[n - 1]) \ Predicate
    <3>1. CASE n # 0
      <4>1. n - 1 \in Nat /\ (n - 1) + 1 = n
        BY <3>1
      <4> QED
        BY <1>2, <3>1, <4>1
    <3> QED
      BY <1>2, <3>1
  <2> QED
    BY <2>1
<1>4. Avoid(S) = [n \in Nat |-> IF n = 0 THEN S \ Predicate ELSE Image(Avoid(S)[n - 1]) \ Predicate]
  BY <1>3 DEF Avoid
<1>5. \A n \in Nat : Avoid(S)[n] = IF n = 0 THEN S \ Predicate ELSE Image(Avoid(S)[n - 1]) \ Predicate
  BY <1>4
<1>6. ASSUME NEW n \in Nat PROVE Avoid(S)[n + 1] = Image(Avoid(S)[n]) \ Predicate
  <2>1. n + 1 \in Nat /\ n + 1 # 0 /\ (n + 1) - 1 = n
    OBVIOUS
  <2> QED
    BY <1>5, <2>1
<1> QED
  BY <1>5, <1>6

\* ... and for the states from which the system can go on.
LEMMA GoesOnRec ==
  /\ GoesOn[0] = States
  /\ \A n \in Nat : GoesOn[n + 1] = {s \in States : \E t \in GoesOn[n] : <<s, t>> \in trans}
<1> DEFINE Pre(X) == {s \in States : \E t \in X : <<s, t>> \in trans}
           g == [X \in SUBSET States |-> Pre(X)]
           V == SUBSET States
<1>1. g \in [V -> V] /\ States \in V
  OBVIOUS
<1>2. PICK F \in [Nat -> V] : F[0] = States /\ \A n \in Nat : F[n + 1] = g[F[n]]
  <2> HIDE DEF g, V
  <2> QED
    BY <1>1, RecursionExists
<1>3. F = [n \in Nat |-> IF n = 0 THEN States ELSE Pre(F[n - 1])]
  <2>1. ASSUME NEW n \in Nat PROVE F[n] = IF n = 0 THEN States ELSE Pre(F[n - 1])
    <3> HIDE DEF Pre
    <3>1. CASE n # 0
      <4>1. n - 1 \in Nat /\ (n - 1) + 1 = n
        BY <3>1
      <4> QED
        BY <1>2, <3>1, <4>1
    <3> QED
      BY <1>2, <3>1
  <2> HIDE DEF Pre
  <2> QED
    BY <2>1
<1>4. GoesOn = [n \in Nat |-> IF n = 0 THEN States ELSE Pre(GoesOn[n - 1])]
  BY <1>3 DEF GoesOn
<1> HIDE DEF Pre
<1>5. \A n \in Nat : GoesOn[n] = IF n = 0 THEN States ELSE Pre(GoesOn[n - 1])
  BY <1>4
<1>6. ASSUME NEW n \in Nat PROVE GoesOn[n + 1] = Pre(GoesOn[n])
  <2>1. n + 1 \in Nat /\ n + 1 # 0 /\ (n + 1) - 1 = n
    OBVIOUS
  <2> QED
    BY <1>5, <2>1
<1>7. GoesOn[0] = States
  BY <1>5
<1> QED
  BY <1>6, <1>7 DEF Pre

\* t is a walk of n steps of the relation R.
Walk(R, n, t) == t \in [0..n -> States] /\ \A j \in 0..(n - 1) : <<t[j], t[j + 1]>> \in R

\* ... that begins in I and stays in G.
WalkIn(I, G, n, t) == Walk(trans, n, t) /\ t[0] \in I /\ \A j \in 0..n : t[j] \in G

\* m steps of t, from its a-th state on.
Part(t, a, m) == [j \in 0..m |-> t[a + j]]

PartOf(R, n, t, a, m) ==
  Walk(R, m, Part(t, a, m)) /\ \A j \in 0..m : Part(t, a, m)[j] = t[a + j] /\ a + j \in 0..n

\* w is u after t.
Joined(R, n, m, t, u, w) ==
  /\ Walk(R, n + m, w)
  /\ \A j \in 0..n : w[j] = t[j]
  /\ \A j \in 0..m : w[n + j] = u[j]

\* u begins in s, stays in G and closes a cycle of l steps with its last.
Rounds(R, G, l, n, s, u) ==
  /\ Walk(R, n, u) /\ u[n - l] = u[n] /\ u[0] = s
  /\ \A j \in 0..n : u[j] \in G

\* A walk with one more step is a walk.
LEMMA WalkExtends ==
  ASSUME NEW R, NEW n \in Nat, NEW t, Walk(R, n, t), NEW s \in States, <<t[n], s>> \in R
  PROVE  \E u : /\ Walk(R, n + 1, u) /\ u[n + 1] = s
                /\ \A j \in 0..n : u[j] = t[j]
<1> DEFINE u == [j \in 0..(n + 1) |-> IF j <= n THEN t[j] ELSE s]
<1>1. u[n + 1] = s /\ \A j \in 0..n : u[j] = t[j]
  OBVIOUS
<1>2. u \in [0..(n + 1) -> States]
  BY DEF Walk
<1>3. ASSUME NEW j \in 0..n PROVE <<u[j], u[j + 1]>> \in R
  <2>1. CASE j = n
    BY <1>1, <2>1
  <2>2. CASE j # n
    <3>1. j \in 0..(n - 1) /\ j + 1 \in 0..n
      BY <2>2
    <3>2. u[j] = t[j] /\ u[j + 1] = t[j + 1]
      BY <1>1, <3>1
    <3> QED
      BY <3>1, <3>2 DEF Walk
  <2> QED
    BY <2>1, <2>2
<1>4. Walk(R, n + 1, u)
  BY <1>2, <1>3 DEF Walk
<1> HIDE DEF u
<1> QED
  BY <1>1, <1>4

\* A part of a walk is a walk.
LEMMA WalkPart ==
  ASSUME NEW R, NEW n \in Nat, NEW t, Walk(R, n, t), NEW a \in 0..n, NEW m \in 0..(n - a)
  PROVE  PartOf(R, n, t, a, m)
<1> DEFINE u == [j \in 0..m |-> t[a + j]]
<1>1. \A j \in 0..m : a + j \in 0..n /\ u[j] = t[a + j]
  OBVIOUS
<1>2. u \in [0..m -> States]
  BY <1>1 DEF Walk
<1>3. ASSUME NEW j \in 0..(m - 1) PROVE <<u[j], u[j + 1]>> \in R
  <2>1. a + j \in 0..(n - 1) /\ j \in 0..m /\ j + 1 \in 0..m /\ a + (j + 1) = (a + j) + 1
    OBVIOUS
  <2> QED
    BY <1>1, <2>1 DEF Walk
<1> QED
  BY <1>1, <1>2, <1>3 DEF Walk, PartOf, Part

\* F is the set I, carried along the transitions as far as G allows.
Carried(I, G, F) ==
  /\ \A s : s \in F[0] <=> s \in I /\ s \in G
  /\ \A n \in Nat : \A s : s \in F[n + 1] <=> s \in Image(F[n]) /\ s \in G

\* F has the last states of walks that begin in I and stay in G.
EndsOfWalks(I, G, F) ==
  \A n \in Nat : \A s : s \in F[n] <=> \E t : WalkIn(I, G, n, t) /\ t[n] = s

\* s is where a walk of n steps begins.
BeginsWalk(n, s) == \E t : Walk(trans, n, t) /\ t[0] = s

\* The states carried to step n are the ends of walks of n steps.
LEMMA SetsOfWalks ==
  ASSUME NEW I, I \subseteq States, NEW G, NEW F, Carried(I, G, F)
  PROVE  EndsOfWalks(I, G, F)
<1>0. /\ \A s : s \in F[0] <=> s \in I /\ s \in G
      /\ \A n \in Nat : \A s : s \in F[n + 1] <=> s \in Image(F[n]) /\ s \in G
  BY DEF Carried
<1> DEFINE P == {n \in Nat : \A s : s \in F[n] <=> \E t : WalkIn(I, G, n, t) /\ t[n] = s}
<1>1. 0 \in P
  <2>1. ASSUME NEW s, s \in F[0] PROVE \E t : WalkIn(I, G, 0, t) /\ t[0] = s
    <3> DEFINE t == [j \in 0..0 |-> s]
    <3>1. t \in [0..0 -> States] /\ t[0] = s /\ s \in I /\ s \in G
      BY <1>0, <2>1
    <3>2. \A j \in 0..0 : t[j] \in G
      BY <3>1
    <3>3. \A j \in 0..(0 - 1) : FALSE
      OBVIOUS
    <3> HIDE DEF t
    <3>4. WalkIn(I, G, 0, t)
      BY <3>1, <3>2, <3>3 DEF WalkIn, Walk
    <3> QED
      BY <3>1, <3>4
  <2>2. ASSUME NEW s, NEW t, WalkIn(I, G, 0, t), t[0] = s PROVE s \in F[0]
    BY <1>0, <2>2 DEF WalkIn
  <2> QED
    BY <2>1, <2>2
<1>2. ASSUME NEW n \in Nat, n \in P PROVE n + 1 \in P
  <2>0. \A s : s \in F[n] <=> \E t : WalkIn(I, G, n, t) /\ t[n] = s
    BY <1>2
  <2>1. ASSUME NEW s, s \in F[n + 1] PROVE \E t : WalkIn(I, G, n + 1, t) /\ t[n + 1] = s
    <3>1. s \in States /\ s \in G /\ \E r \in F[n] : <<r, s>> \in trans
      BY <1>0, <2>1 DEF Image
    <3>2. PICK r \in F[n] : <<r, s>> \in trans
      BY <3>1
    <3>3. PICK t : WalkIn(I, G, n, t) /\ t[n] = r
      BY <2>0
    <3>4. Walk(trans, n, t) /\ <<t[n], s>> \in trans
      BY <3>2, <3>3 DEF WalkIn
    <3>5. PICK u : Walk(trans, n + 1, u) /\ u[n + 1] = s /\ \A j \in 0..n : u[j] = t[j]
      BY <3>1, <3>4, WalkExtends
    <3>6. 0 \in 0..n /\ \A j \in 0..(n + 1) : j \in 0..n \/ j = n + 1
      OBVIOUS
    <3>7. u[0] \in I /\ \A j \in 0..(n + 1) : u[j] \in G
      BY <3>1, <3>3, <3>5, <3>6 DEF WalkIn
    <3> QED
      BY <3>5, <3>7 DEF WalkIn
  <2>2. ASSUME NEW s, NEW t, WalkIn(I, G, n + 1, t), t[n + 1] = s PROVE s \in F[n + 1]
    <3> DEFINE u == Part(t, 0, n)
    <3>1. 0 \in 0..(n + 1) /\ n \in 0..((n + 1) - 0) /\ n + 1 \in Nat /\ n \in 0..n
          /\ n \in 0..((n + 1) - 1) /\ n + 1 \in 0..(n + 1) /\ n \in 0..(n + 1)
      OBVIOUS
    <3>2. Walk(trans, n, u) /\ \A j \in 0..n : u[j] = t[0 + j] /\ 0 + j \in 0..(n + 1)
      <4>1. PartOf(trans, n + 1, t, 0, n)
        BY <2>2, <3>1, WalkPart DEF WalkIn
      <4> QED
        BY <4>1 DEF PartOf
    <3>3. \A j \in 0..n : u[j] = t[j] /\ j \in 0..(n + 1)
      BY <3>2
    <3> HIDE DEF u
    <3>4. WalkIn(I, G, n, u)
      BY <2>2, <3>2, <3>3, <3>1 DEF WalkIn
    <3>5. t[n] \in F[n]
      BY <2>0, <3>1, <3>3, <3>4
    <3>6. <<t[n], t[n + 1]>> \in trans /\ t[n + 1] \in States /\ t[n + 1] \in G
      BY <2>2, <3>1 DEF WalkIn, Walk
    <3> QED
      BY <1>0, <2>2, <3>5, <3>6 DEF Image
  <2> QED
    BY <2>1, <2>2
<1> HIDE DEF P
<1>3. \A n \in Nat : n \in P
  BY <1>1, <1>2, SetInduction
<1> QED
  BY <1>3 DEF P, EndsOfWalks

\* In particular Post, from Start ...
LEMMA PostIsWalks == EndsOfWalks(Start, States, Post)
<1>1. Carried(Start, States, Post)
  BY PostRec, StartAssumption DEF Image, Carried
<1> QED
  BY <1>1, StartAssumption, SetsOfWalks

\* ... and Avoid, from any set of states.
LEMMA AvoidIsWalks ==
  ASSUME NEW S \in SUBSET States
  PROVE  EndsOfWalks(S, States \ Predicate, Avoid(S))
<1>1. Carried(S, States \ Predicate, Avoid(S))
  <2>1. Avoid(S)[0] = S \ Predicate
    BY AvoidRec
  <2>2. \A n \in Nat : Avoid(S)[n + 1] = Image(Avoid(S)[n]) \ Predicate
    BY AvoidRec
  <2>3. ASSUME NEW s PROVE s \in Avoid(S)[0] <=> s \in S /\ s \in States \ Predicate
    BY <2>1
  <2>4. ASSUME NEW n \in Nat, NEW s
        PROVE  s \in Avoid(S)[n + 1] <=> s \in Image(Avoid(S)[n]) /\ s \in States \ Predicate
    <3>1. Avoid(S)[n + 1] = Image(Avoid(S)[n]) \ Predicate
      BY <2>2
    <3>2. Image(Avoid(S)[n]) \subseteq States
      BY DEF Image
    <3> QED
      BY <3>1, <3>2
  <2> QED
    BY <2>3, <2>4 DEF Carried
<1> QED
  BY <1>1, SetsOfWalks

\* Two walks, the second from where the first ends.
LEMMA WalksJoin ==
  ASSUME NEW R, NEW n \in Nat, NEW m \in Nat, NEW t, NEW u, Walk(R, n, t), Walk(R, m, u), t[n] = u[0]
  PROVE  \E w : Joined(R, n, m, t, u, w)
<1> DEFINE w == [j \in 0..(n + m) |-> IF j <= n THEN t[j] ELSE u[j - n]]
<1>1. \A j \in 0..n : w[j] = t[j]
  OBVIOUS
<1>2. ASSUME NEW j \in 0..m PROVE w[n + j] = u[j]
  <2>1. CASE j = 0
    BY <2>1
  <2>2. CASE j # 0
    <3>1. n + j \in 0..(n + m) /\ ~(n + j <= n) /\ (n + j) - n = j
      BY <2>2
    <3> QED
      BY <3>1
  <2> QED
    BY <2>1, <2>2
<1>3. ASSUME NEW j \in 0..(n + m) PROVE w[j] \in States
  <2>1. CASE j <= n
    BY <2>1 DEF Walk
  <2>2. CASE ~(j <= n)
    <3>1. j - n \in 0..m
      BY <2>2
    <3> QED
      BY <2>2, <3>1 DEF Walk
  <2> QED
    BY <2>1, <2>2
<1>4. ASSUME NEW j \in 0..((n + m) - 1) PROVE <<w[j], w[j + 1]>> \in R
  <2>1. CASE j < n
    <3>1. j \in 0..(n - 1) /\ j \in 0..n /\ j + 1 \in 0..n
      BY <2>1
    <3>2. w[j] = t[j] /\ w[j + 1] = t[j + 1]
      BY <1>1, <3>1
    <3> QED
      BY <3>1, <3>2 DEF Walk
  <2>2. CASE ~(j < n)
    <3> DEFINE d == j - n
    <3>1. d \in 0..(m - 1) /\ d \in 0..m /\ d + 1 \in 0..m /\ n + d = j /\ n + (d + 1) = j + 1
      BY <2>2
    <3>2. w[j] = u[d] /\ w[j + 1] = u[d + 1]
      <4> HIDE DEF w, d
      <4>1. w[n + d] = u[d] /\ w[n + (d + 1)] = u[d + 1]
        BY <1>2, <3>1
      <4> QED
        BY <3>1, <4>1
    <3> HIDE DEF w, d
    <3> QED
      BY <3>1, <3>2 DEF Walk
  <2> QED
    BY <2>1, <2>2
<1>5. w \in [0..(n + m) -> States]
  BY <1>3
<1>6. Walk(R, n + m, w)
  BY <1>4, <1>5 DEF Walk
<1> HIDE DEF w
<1> QED
  BY <1>1, <1>2, <1>6 DEF Joined

\* The system can go on for n steps from where a walk of n steps begins.
LEMMA GoesOnIsWalks == \A n \in Nat : \A s : s \in GoesOn[n] <=> BeginsWalk(n, s)
<1> DEFINE P == {n \in Nat : \A s : s \in GoesOn[n] <=> BeginsWalk(n, s)}
<1>1. 0 \in P
  <2>1. ASSUME NEW s, s \in GoesOn[0] PROVE BeginsWalk(0, s)
    <3> DEFINE t == [j \in 0..0 |-> s]
    <3>1. t \in [0..0 -> States] /\ t[0] = s
      BY <2>1, GoesOnRec
    <3>2. \A j \in 0..(0 - 1) : FALSE
      OBVIOUS
    <3> HIDE DEF t
    <3> QED
      BY <3>1, <3>2 DEF BeginsWalk, Walk
  <2>2. ASSUME NEW s, BeginsWalk(0, s) PROVE s \in GoesOn[0]
    BY <2>2, GoesOnRec DEF BeginsWalk, Walk
  <2> QED
    BY <2>1, <2>2
<1>2. ASSUME NEW n \in Nat, n \in P PROVE n + 1 \in P
  <2>0. \A s : s \in GoesOn[n] <=> BeginsWalk(n, s)
    BY <1>2
  <2>1. ASSUME NEW s, s \in GoesOn[n + 1] PROVE BeginsWalk(n + 1, s)
    <3>1. s \in States /\ \E r \in GoesOn[n] : <<s, r>> \in trans
      BY <2>1, GoesOnRec
    <3>2. PICK r \in GoesOn[n] : <<s, r>> \in trans
      BY <3>1
    <3>3. PICK u : Walk(trans, n, u) /\ u[0] = r
      BY <2>0 DEF BeginsWalk
    <3>4. r \in States
      BY <3>3 DEF Walk
    <3> DEFINE t == [j \in 0..1 |-> IF j = 0 THEN s ELSE r]
    <3>5. t \in [0..1 -> States] /\ t[0] = s /\ t[1] = r
      BY <3>1, <3>4
    <3>6. \A j \in 0..(1 - 1) : j = 0
      OBVIOUS
    <3> HIDE DEF t
    <3>7. Walk(trans, 1, t) /\ t[1] = u[0]
      BY <3>2, <3>3, <3>5, <3>6 DEF Walk
    <3>8. PICK w : Joined(trans, 1, n, t, u, w)
      BY <3>3, <3>7, WalksJoin
    <3>9. Walk(trans, 1 + n, w) /\ w[0] = s
      BY <3>5, <3>8 DEF Joined
    <3> QED
      BY <3>9 DEF BeginsWalk
  <2>2. ASSUME NEW s, BeginsWalk(n + 1, s) PROVE s \in GoesOn[n + 1]
    <3>1. PICK t : Walk(trans, n + 1, t) /\ t[0] = s
      BY <2>2 DEF BeginsWalk
    <3>2. 1 \in 0..(n + 1) /\ n \in 0..((n + 1) - 1) /\ n + 1 \in Nat /\ 0 \in 0..n /\ 0 \in 0..((n + 1) - 1)
      OBVIOUS
    <3>3. PartOf(trans, n + 1, t, 1, n)
      BY <3>1, <3>2, WalkPart
    <3> DEFINE u == Part(t, 1, n)
    <3>4. Walk(trans, n, u) /\ u[0] = t[1]
      BY <3>2, <3>3 DEF PartOf
    <3> HIDE DEF u
    <3>5. t[1] \in GoesOn[n]
      BY <2>0, <3>4 DEF BeginsWalk
    <3>6. s \in States /\ <<s, t[1]>> \in trans
      BY <3>1, <3>2 DEF Walk
    <3> QED
      BY <3>5, <3>6, GoesOnRec
  <2> QED
    BY <2>1, <2>2
<1> HIDE DEF P
<1>3. \A n \in Nat : n \in P
  BY <1>1, <1>2, SetInduction
<1> QED
  BY <1>3 DEF P

\* A walk that ends in a cycle of l steps can go round until any bound.
LEMMA CycleToBound ==
  ASSUME NEW R, NEW G, NEW i \in Nat, NEW l \in Nat \ {0}, NEW t, Walk(R, i + l, t), t[i] = t[i + l],
         \A j \in 0..(i + l) : t[j] \in G,
         NEW m \in Nat, i + l <= m
  PROVE  \E u : Rounds(R, G, l, m, t[0], u)
<1> DEFINE Round(n, u) == Rounds(R, G, l, n, t[0], u)
           P == {d \in Nat : \E u : Round((i + l) + d, u)}
<1>1. 0 \in P
  <2>1. (i + l) + 0 = i + l /\ (i + l) - l = i
    OBVIOUS
  <2>2. Round(i + l, t)
    BY <2>1 DEF Rounds
  <2> QED
    BY <2>1, <2>2
<1>2. ASSUME NEW d \in Nat, d \in P PROVE d + 1 \in P
  <2> DEFINE N == (i + l) + d
  <2>1. PICK u : Round(N, u)
    BY <1>2
  <2>2. /\ N \in Nat /\ N - l \in 0..(N - 1) /\ (N - l) + 1 \in 0..N /\ (N + 1) - l = (N - l) + 1
        /\ N \in 0..N /\ 0 \in 0..N /\ (i + l) + (d + 1) = N + 1
        /\ \A j \in 0..(N + 1) : j \in 0..N \/ j = N + 1
    OBVIOUS
  <2> HIDE DEF N
  <2>3. u[(N - l) + 1] \in States /\ <<u[N - l], u[(N - l) + 1]>> \in R /\ u[N - l] = u[N]
    BY <2>1, <2>2 DEF Walk, Rounds
  <2>4. PICK w : /\ Walk(R, N + 1, w) /\ w[N + 1] = u[(N - l) + 1]
                 /\ \A j \in 0..N : w[j] = u[j]
    <3>1. Walk(R, N, u) /\ <<u[N], u[(N - l) + 1]>> \in R
      BY <2>1, <2>3 DEF Rounds
    <3> QED
      BY <2>2, <2>3, <3>1, WalkExtends
  <2>5. Round(N + 1, w)
    <3>1. w[(N + 1) - l] = w[N + 1]
      BY <2>2, <2>4
    <3>2. w[0] = t[0]
      BY <2>1, <2>2, <2>4 DEF Rounds
    <3>3. \A j \in 0..(N + 1) : w[j] \in G
      BY <2>1, <2>2, <2>4 DEF Rounds
    <3> QED
      BY <2>4, <3>1, <3>2, <3>3 DEF Rounds
  <2> HIDE DEF Round
  <2>6. \E v : Round((i + l) + (d + 1), v)
    BY <2>2, <2>5
  <2> QED
    BY <2>6
<1> HIDE DEF P
<1>3. \A d \in Nat : d \in P
  BY <1>1, <1>2, SetInduction
<1>4. m - (i + l) \in Nat /\ (i + l) + (m - (i + l)) = m
  OBVIOUS
<1>5. m - (i + l) \in P
  BY <1>3, <1>4
<1>6. \E u : Round(m, u)
  <2> HIDE DEF Round
  <2> QED
    BY <1>4, <1>5 DEF P
<1> QED
  BY <1>6

-----------------------------------------------------------------------------
(* What the engine has asked so far.                                       *)

\* t answers the question of the base case about step, or loop point, n.
BaseModel(t, n) ==
  /\ Walk(Edges, k, t)
  /\ t[0] \in Start \cup lost.starts
  /\ ~IsSafety /\ "property" \notin lost.text => \A j \in 0..k : t[j] \notin Predicate
  /\ IF IsSafety THEN t[n] \in Predicate ELSE t[n] = t[k]

\* t answers the question of the induction step of a safety property.
StepModel(t, n) ==
  /\ Walk(Edges, k + 1, t)
  /\ "negation" \notin lost.text => \A j \in 0..k : t[j] \in negate_predicate
  /\ t[n] \in Predicate

\* The questions that have an answer.
HasBase(n) == \E t : BaseModel(t, n)
HasStep(n) == \E t : StepModel(t, n)

\* n is a question of the base case.
BaseQuery(n) == IF IsSafety THEN n <= k ELSE n < k

\* The questions of the base case that are behind had no answer.
BaseAsked ==
  /\ phase = "base" => base = "none" /\ verdict = "none"
  /\ phase = "base" /\ IsChecked /\ "base" \notin undecided =>
       \A n \in Nat : n < query => ~HasBase(n)
  /\ base = "safe" /\ IsChecked /\ "base" \notin undecided =>
       \A n \in Nat : BaseQuery(n) => ~HasBase(n)

\* What the base case found answers the question it stopped at.
Found ==
  /\ base = "counterexample" =>
       /\ phase = "done" /\ IsSafety /\ query <= k /\ HasBase(query)
       /\ "base" \notin undecided => \A n \in Nat : n < query => ~HasBase(n)
  /\ base = "lasso" => phase = "done" /\ ~IsSafety /\ query < k /\ HasBase(query)

\* The questions of the induction step that are behind had no answer.
StepAsked ==
  /\ phase = "step" => base = "safe" /\ verdict = "none"
  /\ phase = "step" /\ IsSafety /\ IsChecked /\ "step" \notin undecided =>
       \A n \in Nat : n < query => ~HasStep(n)
  /\ verdict = "verified" =>
       /\ phase = "done" /\ base = "safe"
       /\ IsSafety /\ IsChecked /\ "step" \notin undecided =>
            \A n \in Nat : n <= k + 1 => ~HasStep(n)

\* The inductive invariant.
BmcInv == BmcTypeOK /\ BaseAsked /\ Found /\ StepAsked

\* The solver's models are the answers to the question.
LEMMA ModelsOfBase ==
  ASSUME phase = "base"
  PROVE  Models # {} <=> HasBase(query)
<1>1. Bound = k
  BY DEF Bound
<1>2. \A t : t \in Models <=> BaseModel(t, query)
  BY <1>1 DEF Models, Unrolled, BaseModel, Walk, InitialHolds, HypothesisHolds, GoalFails
<1> QED
  BY <1>2 DEF HasBase

\* The same in the induction step.
LEMMA ModelsOfStep ==
  ASSUME phase = "step", IsSafety
  PROVE  Models # {} <=> HasStep(query)
<1>1. Bound = k + 1
  BY DEF Bound
<1>2. \A t : t \in Models <=> StepModel(t, query)
  BY <1>1 DEF Models, Unrolled, StepModel, Walk, InitialHolds, HypothesisHolds, GoalFails
<1> QED
  BY <1>2 DEF HasStep

\* The questions do not change while they are asked.
LEMMA QuestionsStay ==
  ASSUME UNCHANGED obligation
  PROVE  /\ \A n : HasBase(n)' <=> HasBase(n)
         /\ \A n : HasStep(n)' <=> HasStep(n)
         /\ \A n : BaseQuery(n)' <=> BaseQuery(n)
         /\ IsSafety' <=> IsSafety
         /\ IsChecked' <=> IsChecked
<1>1. k' = k /\ trans' = trans /\ prop' = prop /\ lost' = lost
  BY DEF obligation
<1>2. /\ Edges' = Edges /\ Predicate' = Predicate /\ negate_predicate' = negate_predicate
      /\ IsSafety' <=> IsSafety
  BY <1>1 DEF Edges, Predicate, negate_predicate, IsSafety
<1>3. \A n, t : BaseModel(t, n)' <=> BaseModel(t, n)
  BY <1>1, <1>2 DEF BaseModel, Walk
<1>4. \A n, t : StepModel(t, n)' <=> StepModel(t, n)
  BY <1>1, <1>2 DEF StepModel, Walk
<1>5. /\ \A n : HasBase(n)' <=> HasBase(n)
      /\ \A n : HasStep(n)' <=> HasStep(n)
  BY <1>3, <1>4 DEF HasBase, HasStep
<1> QED
  BY <1>1, <1>2, <1>5 DEF BaseQuery, IsChecked

\* The engine starts with no question behind.
LEMMA InitBmcInv == BmcInit => BmcInv
<1> SUFFICES ASSUME BmcInit PROVE BmcInv
  OBVIOUS
<1>1. k \in Nat /\ query = 0
  BY BoundsAssumption DEF BmcInit
<1>2. BmcTypeOK
  BY <1>1 DEF BmcInit, BmcTypeOK, Bound
<1>3. BaseAsked /\ Found /\ StepAsked
  BY <1>1 DEF BmcInit, BaseAsked, Found, StepAsked
<1> QED
  BY <1>2, <1>3 DEF BmcInv

\* The engine goes on to the next question after a question that had no
\* answer, that was given up on, or that was not asked.
LEMMA NextQueryInv ==
  ASSUME BmcInv, Asks, NextQuery,
         \/ Models = {} /\ undecided' = undecided
         \/ undecided' = undecided \cup {phase}
         \/ ~IsChecked /\ undecided' = undecided
  PROVE  BmcInv'
<1>1. /\ k \in Nat /\ query \in Nat /\ query' = query + 1
      /\ UNCHANGED obligation /\ phase' = phase /\ base' = base /\ verdict' = verdict
      /\ k' = k /\ phase \in {"base", "step"}
  BY BoundsAssumption DEF BmcInv, BmcTypeOK, Bound, NextQuery, Asks, obligation
<1>2. /\ \A n : HasBase(n)' <=> HasBase(n)
      /\ \A n : HasStep(n)' <=> HasStep(n)
      /\ \A n : BaseQuery(n)' <=> BaseQuery(n)
      /\ IsSafety' <=> IsSafety
      /\ IsChecked' <=> IsChecked
  BY <1>1, QuestionsStay
<1>3. /\ "base" \notin undecided' => "base" \notin undecided
      /\ "step" \notin undecided' => "step" \notin undecided
      /\ phase \notin undecided' /\ IsChecked => Models = {}
  OBVIOUS
<1>4. BmcTypeOK'
  <2>1. query <= Bound /\ Bound \in Nat /\ Bound' = Bound
    BY <1>1 DEF Asks, HasQuery, Bound, BmcInv, BmcTypeOK
  <2>2. query' \in 0..(Bound' + 1)
    BY <1>1, <2>1
  <2>3. undecided' \subseteq {"base", "step"}
    BY <1>1 DEF BmcInv, BmcTypeOK
  <2> QED
    BY <1>1, <2>2, <2>3 DEF BmcInv, BmcTypeOK, obligation
<1>5. BaseAsked'
  <2>1. ASSUME phase = "base", IsChecked, "base" \notin undecided', NEW n \in Nat, n < query + 1
        PROVE  ~HasBase(n)
    <3>1. CASE n = query
      BY <1>3, <2>1, <3>1, ModelsOfBase
    <3>2. CASE n < query
      BY <1>3, <2>1, <3>2 DEF BmcInv, BaseAsked
    <3> QED
      BY <1>1, <2>1, <3>1, <3>2
  <2> QED
    BY <1>1, <1>2, <1>3, <2>1 DEF BmcInv, BaseAsked
<1>6. Found'
  BY <1>1 DEF BmcInv, Found
<1>7. StepAsked'
  <2>1. ASSUME phase = "step", IsSafety, IsChecked, "step" \notin undecided', NEW n \in Nat, n < query + 1
        PROVE  ~HasStep(n)
    <3>1. CASE n = query
      BY <1>3, <2>1, <3>1, ModelsOfStep
    <3>2. CASE n < query
      BY <1>3, <2>1, <3>2 DEF BmcInv, StepAsked
    <3> QED
      BY <1>1, <2>1, <3>1, <3>2
  <2> QED
    BY <1>1, <1>2, <1>3, <2>1 DEF BmcInv, StepAsked
<1> QED
  BY <1>4, <1>5, <1>6, <1>7 DEF BmcInv

\* check returns: what it found has an answer, safe means that all questions
\* were asked.
LEMMA ReturnInv ==
  ASSUME BmcInv, phase # "done",
         NEW r \in {"safe", "counterexample", "lasso", "unknown"}, Return(r),
         r = "safe" => ~HasQuery,
         r = "counterexample" => IsSafety /\ HasQuery /\ IsChecked /\ Models # {},
         r = "lasso" => ~IsSafety /\ HasQuery /\ Models # {}
  PROVE  BmcInv'
<1>1. /\ k \in Nat /\ query \in Nat
      /\ UNCHANGED obligation /\ undecided' = undecided /\ k' = k
      /\ phase \in {"base", "step"}
  BY BoundsAssumption DEF BmcInv, BmcTypeOK, Bound, Return, obligation
<1>2. /\ \A n : HasBase(n)' <=> HasBase(n)
      /\ \A n : HasStep(n)' <=> HasStep(n)
      /\ \A n : BaseQuery(n)' <=> BaseQuery(n)
      /\ IsSafety' <=> IsSafety
      /\ IsChecked' <=> IsChecked
  BY <1>1, QuestionsStay
<1>3. BmcTypeOK'
  <2>1. Bound' \in Nat /\ Bound <= k + 1
    BY <1>1 DEF Bound
  <2>2. query' \in 0..(Bound' + 1)
    BY <1>1 DEF Bound, Return, BmcInv, BmcTypeOK
  <2>3. /\ phase' \in {"step", "done"}
        /\ base' \in {"none", "safe", "counterexample", "lasso", "unknown"}
        /\ verdict' \in {"none", "verified", "counterexample", "unknown"}
    BY DEF Return, BmcInv, BmcTypeOK
  <2> QED
    BY <1>1, <2>2, <2>3 DEF BmcInv, BmcTypeOK, obligation
<1>4. CASE phase = "base"
  <2>1. Bound = k
    BY <1>4 DEF Bound
  <2>2. /\ base' = r /\ base = "none" /\ verdict = "none"
        /\ r = "safe" => phase' = "step" /\ query' = 0 /\ verdict' = "none"
        /\ r # "safe" => phase' = "done" /\ query' = query /\ verdict' # "verified"
    BY <1>4 DEF Return, BmcInv, BaseAsked
  <2>3. ASSUME r = "safe", NEW n \in Nat, BaseQuery(n) PROVE n < query
    BY <1>1, <2>1, <2>3 DEF HasQuery, BaseQuery
  <2>4. IsChecked /\ "base" \notin undecided => \A n \in Nat : n < query => ~HasBase(n)
    BY <1>4 DEF BmcInv, BaseAsked
  <2>5. BaseAsked'
    BY <1>1, <1>2, <2>2, <2>3, <2>4 DEF BaseAsked
  <2>6. Found'
    <3>1. r \in {"counterexample", "lasso"} => HasBase(query)
      BY <1>4, ModelsOfBase
    <3>2. CASE r \in {"counterexample", "lasso"}
      <4>1. query' = query /\ phase' = "done"
        BY <2>2, <3>2
      <4>2. HasBase(query)'
        BY <1>2, <3>1, <3>2, <4>1 DEF HasBase
      <4>3. r = "counterexample" => query <= k
        BY <2>1 DEF HasQuery
      <4>4. r = "lasso" => query < k
        BY <2>1 DEF HasQuery
      <4> QED
        BY <1>1, <1>2, <2>2, <2>4, <4>1, <4>2, <4>3, <4>4 DEF Found
    <3>3. CASE r \notin {"counterexample", "lasso"}
      BY <2>2, <3>3 DEF Found
    <3> QED
      BY <3>2, <3>3
  <2>7. StepAsked'
    <3>1. r = "safe" => \A n \in Nat : ~(n < query')
      BY <2>2
    <3> QED
      BY <2>2, <3>1 DEF StepAsked
  <2> QED
    BY <1>3, <2>5, <2>6, <2>7 DEF BmcInv
<1>5. CASE phase = "step"
  <2>1. Bound = k + 1
    BY <1>5 DEF Bound
  <2>2. /\ base' = base /\ query' = query /\ phase' = "done" /\ base = "safe"
        /\ verdict' = "verified" => r = "safe"
    BY <1>5 DEF Return, BmcInv, StepAsked
  <2>3. BaseAsked' /\ Found'
    BY <1>1, <1>2, <2>2 DEF BmcInv, BaseAsked, Found
  <2>4. ASSUME r = "safe", IsSafety, NEW n \in Nat, n <= k + 1 PROVE n < query
    BY <1>1, <2>1, <2>4 DEF HasQuery
  <2>5. StepAsked'
    BY <1>1, <1>2, <1>5, <2>2, <2>4 DEF BmcInv, StepAsked
  <2> QED
    BY <1>3, <2>3, <2>5 DEF BmcInv
<1> QED
  BY <1>1, <1>4, <1>5

\* Every step of the engine and of the prover preserves the invariant.
LEMMA NextBmcInv == BmcInv /\ [BmcNext]_bmcVars => BmcInv'
<1> SUFFICES ASSUME BmcInv, [BmcNext]_bmcVars PROVE BmcInv'
  OBVIOUS
<1>1. CASE Sat
  <2> DEFINE r == IF IsSafety THEN "counterexample" ELSE "lasso"
  <2>1. Return(r) /\ HasQuery /\ IsChecked /\ Models # {} /\ phase # "done"
    BY <1>1 DEF Sat, Asks
  <2> QED
    BY <2>1, ReturnInv
<1>2. CASE Unsat
  BY <1>2, NextQueryInv DEF Unsat
<1>3. CASE TimedOut
  BY <1>3, ReturnInv DEF TimedOut, Asks
<1>4. CASE Incomplete
  BY <1>4, NextQueryInv DEF Incomplete
<1>5. CASE Unchecked
  BY <1>5, NextQueryInv DEF Unchecked
<1>6. CASE Exhausted
  BY <1>6, ReturnInv DEF Exhausted
<1>7. CASE UNCHANGED bmcVars
  <2>1. /\ UNCHANGED obligation /\ k' = k /\ trans' = trans /\ prop' = prop /\ lost' = lost
        /\ phase' = phase /\ query' = query /\ base' = base
        /\ verdict' = verdict /\ undecided' = undecided
    BY <1>7 DEF bmcVars, obligation
  <2>2. /\ \A n : HasBase(n)' <=> HasBase(n)
        /\ \A n : HasStep(n)' <=> HasStep(n)
        /\ \A n : BaseQuery(n)' <=> BaseQuery(n)
        /\ IsSafety' <=> IsSafety
        /\ IsChecked' <=> IsChecked
    BY <2>1, QuestionsStay
  <2>3. BmcTypeOK'
    BY <2>1 DEF BmcInv, BmcTypeOK, Bound
  <2>4. HasBase(query)' <=> HasBase(query)
    BY <2>1, <2>2 DEF HasBase
  <2> QED
    BY <2>1, <2>2, <2>3, <2>4 DEF BmcInv, BaseAsked, Found, StepAsked
<1> QED
  BY <1>1, <1>2, <1>3, <1>4, <1>5, <1>6, <1>7 DEF BmcNext

\* The engine holds its invariant.
LEMMA BmcInvariant == BmcSpec => []BmcInv
<1>1. BmcInit => BmcInv
  BY InitBmcInv
<1>2. BmcInv /\ [BmcNext]_bmcVars => BmcInv'
  BY NextBmcInv
<1> QED
  BY <1>1, <1>2, PTL DEF BmcSpec

-----------------------------------------------------------------------------
(* From questions to executions.                                           *)

\* Dropping the transition constraints only adds walks.
LEMMA WalksOfEdges ==
  ASSUME BmcInv, NEW n, NEW t, Walk(trans, n, t)
  PROVE  Walk(Edges, n, t)
<1>1. trans \subseteq Edges
  BY DEF Edges
<1> QED
  BY <1>1 DEF Walk

\* The states of executions are ends of walks from Start.
LEMMA PostWalk ==
  ASSUME NEW n \in Nat, NEW s \in Post[n]
  PROVE  \E t : Walk(trans, n, t) /\ t[0] \in Start /\ t[n] = s
<1>1. \E t : WalkIn(Start, States, n, t) /\ t[n] = s
  BY PostIsWalks DEF EndsOfWalks
<1> QED
  BY <1>1 DEF WalkIn

\* Every state of a walk from Start is one.
LEMMA WalkPost ==
  ASSUME NEW n \in Nat, NEW t, Walk(trans, n, t), t[0] \in Start, NEW m \in 0..n
  PROVE  t[m] \in Post[m]
<1> DEFINE u == Part(t, 0, m)
<1>1. 0 \in 0..n /\ m \in 0..(n - 0) /\ m \in Nat /\ 0 \in 0..m /\ m \in 0..m
  OBVIOUS
<1>2. Walk(trans, m, u) /\ \A j \in 0..m : u[j] = t[0 + j] /\ 0 + j \in 0..n
  <2>1. PartOf(trans, n, t, 0, m)
    BY <1>1, WalkPart
  <2> QED
    BY <2>1 DEF PartOf
<1>3. u[0] = t[0] /\ u[m] = t[m]
  BY <1>1, <1>2
<1> HIDE DEF u
<1>4. \A j \in 0..m : u[j] \in States
  BY <1>2 DEF Walk
<1>5. WalkIn(Start, States, m, u)
  BY <1>2, <1>3, <1>4 DEF WalkIn
<1> QED
  BY <1>1, <1>3, <1>5, PostIsWalks DEF EndsOfWalks

\* Every bad state on a path of k steps answers a question of the base case.
LEMMA ReachedIsAsked ==
  ASSUME BmcInv, IsSafety, NEW i \in 0..k, NEW s \in BadOnPath(i)
  PROVE  HasBase(i)
<1> DEFINE m == k - i
<1>1. k \in Nat /\ i \in Nat /\ m \in Nat /\ i + m = k /\ i \in 0..i /\ 0 \in 0..i
  BY BoundsAssumption DEF BmcInv, BmcTypeOK
<1>2. s \in Post[i] /\ s \in Predicate /\ s \in GoesOn[m]
  BY DEF BadOnPath
<1> HIDE DEF m
<1>3. PICK t : Walk(trans, i, t) /\ t[0] \in Start /\ t[i] = s
  BY <1>1, <1>2, PostWalk
<1>4. PICK u : Walk(trans, m, u) /\ u[0] = s
  BY <1>1, <1>2, GoesOnIsWalks DEF BeginsWalk
<1>5. PICK w : Joined(trans, i, m, t, u, w)
  <2>1. t[i] = u[0]
    BY <1>3, <1>4
  <2> QED
    BY <1>1, <1>3, <1>4, <2>1, WalksJoin
<1>6. Walk(trans, k, w) /\ w[0] \in Start /\ w[i] = s
  BY <1>1, <1>3, <1>5 DEF Joined
<1>7. Walk(Edges, k, w)
  BY <1>6, WalksOfEdges
<1>8. BaseModel(w, i)
  BY <1>2, <1>6, <1>7 DEF BaseModel
<1> QED
  BY <1>8 DEF HasBase

\* Every cycle that avoids the goal within the bound answers one.
LEMMA CycleIsAsked ==
  ASSUME BmcInv, ~IsSafety, CycleWithin(k)
  PROVE  \E n \in Nat : n < k /\ HasBase(n)
<1>1. k \in Nat
  BY BoundsAssumption DEF BmcInv, BmcTypeOK
<1>2. PICK i \in 0..k, l \in 1..k :
        i + l <= k /\ \E s \in Avoid(Start)[i] : s \in Avoid({s})[l]
  BY DEF CycleWithin
<1>3. PICK s \in Avoid(Start)[i] : s \in Avoid({s})[l]
  BY <1>2
<1>4. /\ i \in Nat /\ l \in Nat \ {0} /\ l \in Nat /\ i + l <= k /\ i + l \in Nat
      /\ k - l \in Nat /\ k - l < k /\ 0 \in 0..i /\ i \in 0..i /\ 0 \in 0..l /\ l \in 0..l
  BY <1>1, <1>2
<1> DEFINE G == States \ Predicate
<1>5. PICK t : WalkIn(Start, G, i, t) /\ t[i] = s
  <2>1. EndsOfWalks(Start, G, Avoid(Start))
    BY StartAssumption, AvoidIsWalks
  <2> HIDE DEF G
  <2> QED
    BY <1>3, <1>4, <2>1 DEF EndsOfWalks
<1>6. s \in States
  BY <1>4, <1>5 DEF WalkIn, Walk
<1>7. PICK u : WalkIn({s}, G, l, u) /\ u[l] = s
  <2>1. EndsOfWalks({s}, G, Avoid({s}))
    BY <1>6, AvoidIsWalks
  <2> HIDE DEF G
  <2> QED
    BY <1>3, <1>4, <2>1 DEF EndsOfWalks
<1> HIDE DEF G
<1>8. /\ Walk(trans, i, t) /\ t[0] \in Start /\ \A j \in 0..i : t[j] \in G
      /\ Walk(trans, l, u) /\ u[0] = s /\ \A j \in 0..l : u[j] \in G
  BY <1>5, <1>7 DEF WalkIn
<1>9. PICK w : Joined(trans, i, l, t, u, w)
  <2>1. t[i] = u[0]
    BY <1>5, <1>8
  <2> QED
    BY <1>4, <1>8, <2>1, WalksJoin
<1>10. w[i] = w[i + l] /\ w[0] \in Start
  BY <1>4, <1>5, <1>7, <1>8, <1>9 DEF Joined
<1>11. ASSUME NEW j \in 0..(i + l) PROVE w[j] \in G
  <2>1. CASE j <= i
    <3>1. j \in 0..i
      BY <2>1
    <3> QED
      BY <1>8, <1>9, <3>1 DEF Joined
  <2>2. CASE ~(j <= i)
    <3> DEFINE d == j - i
    <3>1. d \in 0..l /\ i + d = j
      BY <1>4, <2>2
    <3> HIDE DEF d
    <3>2. w[i + d] = u[d] /\ u[d] \in G
      BY <1>8, <1>9, <3>1 DEF Joined
    <3> QED
      BY <3>1, <3>2
  <2> QED
    BY <2>1, <2>2
<1>12. PICK v : Rounds(trans, G, l, k, w[0], v)
  <2>1. \A j \in 0..(i + l) : w[j] \in G
    BY <1>11
  <2>2. Walk(trans, i + l, w)
    BY <1>9 DEF Joined
  <2> QED
    BY <1>1, <1>4, <1>10, <2>1, <2>2, CycleToBound
<1>13. Walk(Edges, k, v)
  BY <1>12, WalksOfEdges DEF Rounds
<1>14. BaseModel(v, k - l)
  BY <1>10, <1>12, <1>13 DEF BaseModel, Rounds, G
<1> QED
  BY <1>4, <1>14 DEF HasBase

\* So a base case without answers covers the bound.
LEMMA SafeCovers == BmcInv => SafeCoversBound
<1> SUFFICES ASSUME BmcInv, base = "safe", IsChecked, "base" \notin undecided
             PROVE  IF IsSafety THEN \A i \in 0..k : BadOnPath(i) = {} ELSE ~CycleWithin(k)
  BY DEF SafeCoversBound
<1>2. \A n \in Nat : BaseQuery(n) => ~HasBase(n)
  BY DEF BmcInv, BaseAsked
<1>3. k \in Nat
  BY BoundsAssumption DEF BmcInv, BmcTypeOK
<1>4. CASE IsSafety
  <2> SUFFICES ASSUME NEW i \in 0..k, NEW s \in BadOnPath(i) PROVE FALSE
    BY <1>4
  <2>2. HasBase(i)
    BY <1>4, ReachedIsAsked
  <2>3. i \in Nat /\ BaseQuery(i)
    BY <1>3, <1>4 DEF BaseQuery
  <2> QED
    BY <1>2, <2>2, <2>3
<1>5. CASE ~IsSafety
  BY <1>2, <1>5, CycleIsAsked DEF BaseQuery
<1> QED
  BY <1>4, <1>5

\* An answer of the base case is an execution.
LEMMA CounterexampleReal == BmcInv => CounterexampleIsReal
<1> SUFFICES ASSUME BmcInv, IsUnderstood
             PROVE  /\ base = "counterexample" =>
                         /\ BadOnPath(query) # {}
                         /\ undecided = {} => \A i \in 0..(query - 1) : BadOnPath(i) = {}
                    /\ base = "lasso" => \E s \in Avoid(Start)[query] : s \in Avoid({s})[k - query]
  BY DEF CounterexampleIsReal
<1>1. Edges = trans /\ Start \cup lost.starts = Start /\ "property" \notin lost.text
  BY DEF Edges, IsUnderstood
<1>2. k \in Nat /\ query \in Nat
  BY BoundsAssumption DEF BmcInv, BmcTypeOK, Bound
<1>3. CASE base = "counterexample"
  <2>1. /\ IsSafety /\ query <= k /\ HasBase(query)
        /\ "base" \notin undecided => \A n \in Nat : n < query => ~HasBase(n)
    BY <1>3 DEF BmcInv, Found
  <2>2. PICK t : BaseModel(t, query)
    BY <2>1 DEF HasBase
  <2>3. Walk(trans, k, t) /\ t[0] \in Start /\ t[query] \in Predicate
    BY <1>1, <2>1, <2>2 DEF BaseModel
  <2>4. query \in 0..k
    BY <1>2, <2>1
  <2>5. t[query] \in Post[query]
    BY <1>2, <2>3, <2>4, WalkPost
  <2>6. t[query] \in GoesOn[k - query]
    <3> DEFINE m == k - query
               u == Part(t, query, m)
    <3>1. m \in Nat /\ m \in 0..(k - query) /\ 0 \in 0..m /\ query + 0 = query
      BY <1>2, <2>1
    <3>2. PartOf(trans, k, t, query, m)
      <4> HIDE DEF m
      <4> QED
        BY <1>2, <2>3, <2>4, <3>1, WalkPart
    <3>3. Walk(trans, m, u) /\ u[0] = t[query]
      BY <3>1, <3>2 DEF PartOf
    <3> HIDE DEF m, u
    <3>4. t[query] \in GoesOn[m]
      BY <3>1, <3>3, GoesOnIsWalks DEF BeginsWalk
    <3> QED
      BY <3>4 DEF m
  <2>7. ASSUME undecided = {}, NEW i \in 0..(query - 1), NEW s \in BadOnPath(i)
        PROVE  FALSE
    <3>1. i \in 0..k /\ i \in Nat /\ i < query
      BY <1>2, <2>1
    <3>2. HasBase(i)
      BY <2>1, <2>7, <3>1, ReachedIsAsked
    <3> QED
      BY <2>1, <2>7, <3>1, <3>2
  <2>8. t[query] \in BadOnPath(query)
    BY <2>3, <2>5, <2>6 DEF BadOnPath
  <2> QED
    BY <1>3, <2>7, <2>8
<1>4. CASE base = "lasso"
  <2>1. ~IsSafety /\ query < k /\ HasBase(query)
    BY <1>4 DEF BmcInv, Found
  <2>2. PICK t : BaseModel(t, query)
    BY <2>1 DEF HasBase
  <2> DEFINE G == States \ Predicate
             l == k - query
             s == t[query]
             p == Part(t, 0, query)
             c == Part(t, query, l)
  <2>3. /\ Walk(trans, k, t) /\ t[0] \in Start /\ t[query] = t[k]
        /\ \A j \in 0..k : t[j] \notin Predicate
    BY <1>1, <2>1, <2>2 DEF BaseModel
  <2>4. /\ query \in 0..k /\ query \in 0..(k - 0) /\ 0 \in 0..k /\ l \in Nat /\ l \in 0..(k - query)
        /\ 0 \in 0..query /\ query \in 0..query /\ 0 \in 0..l /\ l \in 0..l /\ query + l = k
    BY <1>2, <2>1
  <2>5. \A j \in 0..k : t[j] \in G
    BY <2>3 DEF Walk
  <2>6. Walk(trans, query, p) /\ \A j \in 0..query : p[j] = t[0 + j] /\ 0 + j \in 0..k
    <3>1. PartOf(trans, k, t, 0, query)
      BY <1>2, <2>3, <2>4, WalkPart
    <3> QED
      BY <3>1 DEF PartOf
  <2>7. Walk(trans, l, c) /\ \A j \in 0..l : c[j] = t[query + j] /\ query + j \in 0..k
    <3> HIDE DEF l
    <3>1. PartOf(trans, k, t, query, l)
      BY <1>2, <2>3, <2>4, WalkPart
    <3> QED
      BY <3>1 DEF PartOf
  <2>8. s \in States
    BY <2>3, <2>4 DEF Walk
  <2>9. p[0] = t[0] /\ p[query] = s /\ \A j \in 0..query : p[j] = t[j] /\ j \in 0..k
    BY <1>2, <2>4, <2>6
  <2>10. c[0] = s /\ c[l] = t[k]
    <3> HIDE DEF c, l, p
    <3>1. query + 0 = query
      BY <1>2
    <3> QED
      BY <2>4, <2>7, <3>1
  <2> HIDE DEF p, c, l, G
  <2>11. WalkIn(Start, G, query, p)
    BY <2>3, <2>5, <2>6, <2>9 DEF WalkIn
  <2>12. WalkIn({s}, G, l, c)
    BY <2>5, <2>7, <2>10 DEF WalkIn
  <2>13. s \in Avoid(Start)[query]
    <3>1. EndsOfWalks(Start, G, Avoid(Start))
      BY StartAssumption, AvoidIsWalks DEF G
    <3> QED
      BY <1>2, <2>9, <2>11, <3>1 DEF EndsOfWalks
  <2>14. s \in Avoid({s})[l]
    <3> HIDE DEF s
    <3>1. EndsOfWalks({s}, G, Avoid({s}))
      BY <2>8, AvoidIsWalks DEF G
    <3>2. c[l] = s
      BY <2>3, <2>10 DEF s
    <3> QED
      BY <2>4, <2>12, <3>1, <3>2 DEF EndsOfWalks
  <2> QED
    BY <1>4, <2>13, <2>14 DEF l
<1> QED
  BY <1>3, <1>4

\* k-induction: the first bad state of an execution is within the bound, or
\* the last k + 1 steps to it answer the question of the induction step.
LEMMA VerifiedForever ==
  ASSUME BmcInv, verdict = "verified", IsSafety, IsChecked, prop.op # "and", undecided = {},
         \A i \in 0..k : BadBeforeDeadEnd(i) = {}
  PROVE  \A n \in Nat : Post[n] \cap Predicate = {}
<1> SUFFICES ASSUME NEW b \in Nat, Post[b] \cap Predicate # {} PROVE FALSE
  OBVIOUS
<1>1. /\ base = "safe"
      /\ \A n \in Nat : BaseQuery(n) => ~HasBase(n)
      /\ \A n \in Nat : n <= k + 1 => ~HasStep(n)
  BY DEF BmcInv, StepAsked, BaseAsked
<1>2. k \in Nat
  BY BoundsAssumption DEF BmcInv, BmcTypeOK
<1> DEFINE D == {n \in Nat : Post[n] \cap Predicate # {}}
<1>3. PICK n \in D : \A m \in D : n <= m
  <2>1. D \in SUBSET Nat /\ D # {}
    OBVIOUS
  <2> HIDE DEF D
  <2> QED
    BY <2>1, LeastNumber
<1>4. /\ n \in Nat /\ Post[n] \cap Predicate # {}
      /\ \A m \in Nat : m < n => Post[m] \cap Predicate = {}
  BY <1>3
<1>5. PICK s \in Post[n] : s \in Predicate
  BY <1>4
<1>6. ~(n <= k)
  <2> SUFFICES ASSUME n <= k PROVE FALSE
    OBVIOUS
  <2>1. n \in 0..k /\ BaseQuery(n)
    BY <1>2, <1>4 DEF BaseQuery
  <2>2. s \in BadOnPath(n)
    BY <1>5, <2>1 DEF BadBeforeDeadEnd, BadOnPath
  <2> QED
    BY <1>1, <1>4, <2>1, <2>2, ReachedIsAsked
<1>7. PICK t : Walk(trans, n, t) /\ t[0] \in Start /\ t[n] = s
  BY <1>4, <1>5, PostWalk
<1> DEFINE a == n - (k + 1)
           u == Part(t, a, k + 1)
<1>8. a \in 0..n /\ k + 1 \in 0..(n - a) /\ k + 1 \in 0..(k + 1) /\ a + (k + 1) = n /\ k + 1 \in Nat
  BY <1>2, <1>4, <1>6
<1>9. Walk(trans, k + 1, u) /\ \A j \in 0..(k + 1) : u[j] = t[a + j] /\ a + j \in 0..n
  <2> HIDE DEF a
  <2>1. PartOf(trans, n, t, a, k + 1)
    BY <1>4, <1>7, <1>8, WalkPart
  <2> QED
    BY <2>1 DEF PartOf
<1>10. ASSUME NEW j \in 0..k PROVE u[j] \in negate_predicate
  <2>1. j \in 0..(k + 1) /\ a + j \in 0..n /\ a + j \in Nat /\ a + j < n
    BY <1>2, <1>4, <1>6
  <2> HIDE DEF a, u
  <2>2. u[j] = t[a + j] /\ t[a + j] \in States
    BY <1>7, <1>9, <2>1 DEF Walk
  <2>3. t[a + j] \in Post[a + j]
    BY <1>4, <1>7, <2>1, WalkPost
  <2>4. t[a + j] \notin Predicate
    BY <1>4, <2>1, <2>3
  <2>5. prop.op \in {"atom", "or"}
    BY DEF BmcInv, BmcTypeOK, BmcProperty
  <2> QED
    BY <2>2, <2>4, <2>5 DEF Predicate, negate_predicate
<1> HIDE DEF a, u
<1>11. u[k + 1] \in Predicate
  BY <1>5, <1>7, <1>8, <1>9
<1>12. Walk(Edges, k + 1, u)
  BY <1>9, WalksOfEdges
<1>13. StepModel(u, k + 1)
  BY <1>10, <1>11, <1>12 DEF StepModel
<1> QED
  BY <1>1, <1>2, <1>8, <1>13 DEF HasStep

\* Reachable stops at as many steps as there are states.
LEMMA VerifiedUnbounded == BmcInv => VerifiedIsUnbounded
<1> SUFFICES ASSUME BmcInv, verdict = "verified", IsSafety, IsChecked, prop.op # "and", undecided = {},
                    \A i \in 0..k : BadBeforeDeadEnd(i) = {},
                    NEW s \in Reachable, s \in Predicate
             PROVE  FALSE
  BY DEF VerifiedIsUnbounded
<1>1. Cardinality(States) \in Nat
  BY StatesAssumption, FS_CardinalityType
<1>2. PICK i \in 0..Cardinality(States) : s \in Post[i]
  BY DEF Reachable, ReachedWithin
<1>3. i \in Nat
  BY <1>1
<1> QED
  BY <1>2, <1>3, VerifiedForever

-----------------------------------------------------------------------------
(* The theorems about BoundedCheck.                                        *)

\* The bound, the questions and the answers of the engine and of the
\* k-induction prover have their types: no question is past the last one.
THEOREM BmcTypeCorrect == BmcSpec => []BmcTypeOK
<1>1. BmcInv => BmcTypeOK
  BY DEF BmcInv
<1> QED
  BY <1>1, BmcInvariant, PTL

\* When check answers safe, and no question was given up on, every execution
\* of k steps was covered at each of its states, whichever constraints the
\* parser dropped and whatever dead ends the system has: a dropped constraint
\* only adds walks, and a walk round a cycle can be continued to the bound.
THEOREM SafeIsCovered == BmcSpec => []SafeCoversBound
  BY SafeCovers, BmcInvariant, PTL

\* A counterexample of check is an execution of k steps with a bad state at
\* the step it reports, the first such step if nothing was given up on; a
\* lasso is a cycle that avoids the goal.
THEOREM CounterexamplesAreReal == BmcSpec => []CounterexampleIsReal
  BY CounterexampleReal, BmcInvariant, PTL

\* k-induction is sound: verified by prove means that no execution of any
\* length reaches a bad state, for a predicate that negate_predicate negates,
\* unless one gets stuck behind a bad state before its k-th step.
THEOREM VerifiedHolds == BmcSpec => []VerifiedIsUnbounded
  BY VerifiedUnbounded, BmcInvariant, PTL

-----------------------------------------------------------------------------
(* Cvc5Shell: the invariant.                                               *)

\* The j-th line of the output belongs to the query it stands by: an answer
\* of the n-th pending clause on line 2n - 1, its model on line 2n; an
\* aborted script ends with one more line.
LineIs(j, line) ==
  \/ \E n \in 1..taken : j = 2 * n - 1 /\ line \in Answers(pending[n])
  \/ (\E n \in 1..taken : j = 2 * n) /\ line = "text"
  \/ j = 2 * taken + 1 /\ line = "text" /\ child = "exited"

\* What the parent has read, what the pipe holds and what the solver owes.
OutputInOrder ==
  stage \in {"write", "read"} =>
    /\ \A j \in 1..Len(read) : LineIs(j, read[j])
    /\ \A j \in 1..Len(stdout) : LineIs(Len(read) + j, stdout[j])
    /\ child = "running" =>
         /\ Len(read) + Len(stdout) + Len(owed) = 2 * taken
         /\ \A j \in 1..Len(owed) : LineIs(Len(read) + Len(stdout) + j, owed[j])
    /\ child # "none"

\* What is parsed: all of it read, or the timeout put in its place.
ReadInOrder ==
  stage = "parse" =>
    read = <<"timeout">> \/ \A j \in 1..Len(read) : LineIs(j, read[j])

\* The clauses behind the gates are resolved or pending, in order.
GatesInOrder ==
  /\ \A m, n \in 1..Len(pending) : m < n => pending[m] < pending[n]
  /\ \A n \in 1..Len(pending) : pending[n] < next
  /\ \A i \in 1..(next - 1) : i \in DOMAIN resolved \/ \E n \in 1..Len(pending) : pending[n] = i
  /\ stage # "gates" => next = Len(clauses) + 1
  /\ stage \in {"spawn", "write", "read", "parse", "failed"} => pending # <<>>
  /\ stage \in {"assemble", "done"} => DOMAIN resolved = DOMAIN clauses

\* Several clauses share a bitvector script only if all trust it.
ScriptAgrees ==
  /\ stage = "gates" => script = "integer"
  /\ script = "bitvector" /\ ~Single => \A n \in 1..Len(pending) : clauses[pending[n]].bv # "check"

\* What was returned is what was resolved.
Returned == stage = "done" => results = [i \in DOMAIN clauses |-> resolved[i]]

\* The inductive invariant.
ShellInv ==
  /\ ShellTypeOK
  /\ NoChildLeftRunning
  /\ OutputInOrder
  /\ ReadInOrder
  /\ GatesInOrder
  /\ ScriptAgrees
  /\ VerdictIsRight
  /\ Returned

-----------------------------------------------------------------------------
(* Cvc5Shell: the n-th element of a set of numbers.                        *)

\* f lists the m elements of S in increasing order.
Lists(f, m, S) ==
  /\ f \in [1..m -> Nat]
  /\ \A i, j \in 1..m : i < j => f[i] < f[j]
  /\ S = {f[i] : i \in 1..m}

\* Then f[n] is the n-th element of S.
LEMMA NthOfIncreasing ==
  ASSUME NEW m \in Nat, NEW f, NEW S, Lists(f, m, S)
  PROVE  Cardinality(S) = m /\ \A n \in 1..m : f[n] \in S /\ Nth(S, n) = f[n]
<1>0. /\ f \in [1..m -> Nat]
      /\ \A i, j \in 1..m : i < j => f[i] < f[j]
      /\ S = {f[i] : i \in 1..m}
  BY DEF Lists
<1> DEFINE Upto(n) == {f[i] : i \in 1..n}
<1>1. ASSUME NEW n \in 0..m PROVE Cardinality(Upto(n)) = n
  <2> DEFINE T == Upto(n)
             g == [i \in 1..n |-> f[i]]
  <2>1. g \in Bijection(1..n, T)
    <3>1. g \in [1..n -> T] /\ \A t \in T : \E i \in 1..n : g[i] = t
      OBVIOUS
    <3>2. ASSUME NEW i \in 1..n, NEW j \in 1..n, g[i] = g[j] PROVE i = j
      <4>1. i \in 1..m /\ j \in 1..m /\ f[i] = f[j] /\ f[i] \in Nat /\ ~(f[i] < f[j]) /\ ~(f[j] < f[i])
        BY <1>0, <3>2
      <4> QED
        BY <1>0, <4>1
    <3> HIDE DEF g, T
    <3> QED
      BY <3>1, <3>2 DEF Bijection, Injection, Surjection, IsInjective
  <2>2. IsFiniteSet(1..n) /\ Cardinality(1..n) = n
    <3>1. n \in Nat /\ 1 \in Int /\ n \in Int
      OBVIOUS
    <3> QED
      BY <3>1, FS_Interval
  <2>3. ExistsBijection(1..n, T)
    BY <2>1 DEF ExistsBijection
  <2> HIDE DEF T
  <2>4. IsFiniteSet(T) /\ Cardinality(T) = Cardinality(1..n)
    BY <2>2, <2>3, FS_Bijection
  <2> QED
    BY <2>2, <2>4 DEF T
<1>2. ASSUME NEW n \in 1..m PROVE {x \in S : x <= f[n]} = Upto(n)
  <2>1. ASSUME NEW i \in 1..m PROVE f[i] <= f[n] <=> i <= n
    <3>1. f[i] \in Nat /\ f[n] \in Nat
      BY <1>0
    <3>2. CASE i < n
      BY <1>0, <3>1, <3>2
    <3>3. CASE i = n
      BY <1>0, <3>1, <3>3
    <3>4. CASE n < i
      BY <1>0, <3>1, <3>4
    <3> QED
      BY <3>2, <3>3, <3>4
  <2> QED
    BY <1>0, <2>1
<1>3. ASSUME NEW n \in 1..m PROVE Cardinality({x \in S : x <= f[n]}) = n
  <2>1. n \in 0..m
    OBVIOUS
  <2> HIDE DEF Upto
  <2> QED
    BY <1>1, <1>2, <2>1
<1>4. ASSUME NEW n \in 1..m PROVE f[n] \in S /\ Nth(S, n) = f[n]
  <2>1. f[n] \in S /\ Cardinality({x \in S : x <= f[n]}) = n
    BY <1>0, <1>3
  <2>2. ASSUME NEW y \in S, Cardinality({x \in S : x <= y}) = n PROVE y = f[n]
    <3>1. PICK i \in 1..m : y = f[i]
      BY <1>0
    <3>2. i = n
      BY <1>3, <2>2, <3>1
    <3> QED
      BY <3>1, <3>2
  <2> QED
    BY <2>1, <2>2 DEF Nth
<1>5. Cardinality(S) = m
  <2>1. m \in 0..m /\ S = Upto(m)
    BY <1>0
  <2> HIDE DEF Upto
  <2> QED
    BY <1>1, <2>1
<1> QED
  BY <1>4, <1>5

\* A nonempty set of numbers with a bound has a greatest one.
LEMMA GreatestNumber ==
  ASSUME NEW N \in Nat, NEW S \in SUBSET (1..N), S # {}
  PROVE  \E n \in S : \A m \in S : m <= n
<1> DEFINE D == {N - n : n \in S}
<1>1. D \in SUBSET Nat /\ D # {}
  <2>1. \A n \in S : N - n \in Nat
    OBVIOUS
  <2> QED
    BY <2>1
<1>2. PICK d \in D : \A e \in D : d <= e
  <2> HIDE DEF D
  <2> QED
    BY <1>1, LeastNumber
<1>3. PICK n \in S : d = N - n
  BY <1>2
<1>4. ASSUME NEW m \in S PROVE m <= n
  <2>1. d <= N - m
    BY <1>2
  <2> QED
    BY <1>3, <2>1
<1> QED
  BY <1>4

-----------------------------------------------------------------------------
(* Cvc5Shell: whose answer is whose.                                       *)

\* What the invariant says of the lengths and ranges that the steps use.
LEMMA ShellTypes ==
  ASSUME ShellInv
  PROVE  /\ clauses \in Seq(Clause) /\ Len(clauses) \in Nat /\ DOMAIN clauses = 1..Len(clauses)
         /\ pending \in Seq(1..Len(clauses)) /\ Len(pending) \in Nat /\ DOMAIN pending = 1..Len(pending)
         /\ next \in Nat /\ taken \in Nat /\ sent \in Nat /\ taken <= sent /\ sent <= Len(pending)
         /\ \A n \in 1..Len(pending) : pending[n] \in 1..Len(clauses)
         /\ read \in Seq(QueryLines \cup {"text"}) /\ Len(read) \in Nat
         /\ stdout \in Seq({"sat", "unsat", "unknown", "text"}) /\ Len(stdout) \in Nat
         /\ owed \in Seq({"sat", "unsat", "unknown", "text"}) /\ Len(owed) \in Nat
<1>1. ShellTypeOK
  BY DEF ShellInv
<1>2. clauses \in Seq(Clause) /\ Len(clauses) \in Nat /\ DOMAIN clauses = 1..Len(clauses)
  BY <1>1, ContractsAssumption DEF ShellTypeOK
<1>3. pending \in Seq(1..Len(clauses))
  BY <1>1, <1>2 DEF ShellTypeOK
<1>4. /\ Len(pending) \in Nat /\ DOMAIN pending = 1..Len(pending)
      /\ \A n \in 1..Len(pending) : pending[n] \in 1..Len(clauses)
  BY <1>3
<1>5. next \in Nat /\ taken \in Nat /\ sent \in Nat /\ taken <= sent /\ sent <= Len(pending)
  BY <1>1, <1>2, <1>4 DEF ShellTypeOK
<1>6. /\ read \in Seq(QueryLines \cup {"text"})
      /\ stdout \in Seq({"sat", "unsat", "unknown", "text"})
      /\ owed \in Seq({"sat", "unsat", "unknown", "text"})
  BY <1>1 DEF ShellTypeOK
<1>7. Len(read) \in Nat /\ Len(stdout) \in Nat /\ Len(owed) \in Nat
  BY <1>6
<1> QED
  BY <1>2, <1>3, <1>4, <1>5, <1>6, <1>7

\* No answer reads like another line.
LEMMA AnswersAreLines == \A i : Answers(i) \subseteq {"sat", "unsat", "unknown"}
  BY DEF Answers

\* The n-th answer found on stdout is one to the query of the n-th pending
\* clause, or the timeout.
LEMMA AnswersAlign ==
  ASSUME ShellInv, stage = "parse"
  PROVE  /\ Len(Answered) \in Nat
         /\ parse_is_ok(read) => Len(Answered) >= 1
         /\ \A n \in 1..Len(Answered) :
              n \in 1..Len(pending) /\ Answered[n] \in Answers(pending[n]) \cup {"timeout"}
<1> DEFINE found == {j \in DOMAIN read : is_query_line(read[j])}
<1>0. /\ taken \in Nat /\ taken <= Len(pending) /\ Len(pending) \in Nat
      /\ read \in Seq(QueryLines \cup {"text"}) /\ Len(read) \in Nat /\ DOMAIN read = 1..Len(read)
  BY ShellTypes
<1>1. CASE read = <<"timeout">>
  <2> DEFINE f == [i \in 1..1 |-> 1]
  <2>1. found = {f[i] : i \in 1..1}
    BY <1>1 DEF is_query_line, QueryLines
  <2>2. f \in [1..1 -> Nat] /\ (\A i, j \in 1..1 : i < j => f[i] < f[j]) /\ 1 \in Nat /\ f[1] = 1
    OBVIOUS
  <2> HIDE DEF f, found
  <2>3. Cardinality(found) = 1 /\ \A n \in 1..1 : f[n] \in found /\ Nth(found, n) = f[n]
    <3>1. Lists(f, 1, found)
      BY <2>1, <2>2 DEF Lists
    <3> QED
      BY <2>2, <3>1, NthOfIncreasing
  <2>4. Answered = [n \in 1..1 |-> read[Nth(found, n)]]
    BY <2>3 DEF Answered, parse_cvc5_stdout_all, found
  <2>5. Len(Answered) = 1 /\ Answered[1] = "timeout"
    <3>1. Nth(found, 1) = 1
      BY <2>2, <2>3
    <3> QED
      BY <1>1, <2>4, <3>1
  <2>6. 1 \in 1..Len(pending)
    <3>1. pending # <<>> /\ pending \in Seq(1..Len(clauses))
      BY ShellTypes DEF ShellInv, GatesInOrder
    <3> QED
      BY <3>1
  <2> QED
    BY <2>5, <2>6
<1>2. CASE read # <<"timeout">>
  <2>1. \A j \in 1..Len(read) : LineIs(j, read[j])
    BY <1>2 DEF ShellInv, ReadInOrder
  <2>2. PICK m \in 0..taken : \A n \in 1..taken : n <= m <=> 2 * n - 1 <= Len(read)
    <3> DEFINE T == {n \in 1..taken : 2 * n - 1 <= Len(read)}
    <3>1. CASE T = {}
      <4>1. \A n \in 1..taken : ~(2 * n - 1 <= Len(read))
        BY <3>1
      <4>2. 0 \in 0..taken /\ \A n \in 1..taken : n <= 0 <=> 2 * n - 1 <= Len(read)
        BY <1>0, <4>1
      <4> QED
        BY <4>2
    <3>2. CASE T # {}
      <4>1. T \in SUBSET (1..taken)
        OBVIOUS
      <4>2. PICK m \in T : \A n \in T : n <= m
        <5> HIDE DEF T
        <5> QED
          BY <1>0, <3>2, <4>1, GreatestNumber
      <4>3. m \in 0..taken /\ \A n \in 1..taken : n <= m <=> 2 * n - 1 <= Len(read)
        BY <1>0, <4>2
      <4> QED
        BY <4>3
    <3> QED
      BY <3>1, <3>2
  <2> DEFINE f == [n \in 1..m |-> 2 * n - 1]
  <2>3. m \in Nat /\ f \in [1..m -> Nat] /\ \A i, j \in 1..m : i < j => f[i] < f[j]
    BY <1>0
  <2>4. ASSUME NEW n \in 1..m
        PROVE  /\ n \in 1..taken /\ 2 * n - 1 \in 1..Len(read)
               /\ read[2 * n - 1] \in Answers(pending[n])
    <3>1. n \in 1..taken /\ 2 * n - 1 \in 1..Len(read)
      BY <1>0, <2>2
    <3>2. LineIs(2 * n - 1, read[2 * n - 1])
      BY <2>1, <3>1
    <3>3. \A i \in 1..taken : 2 * n - 1 = 2 * i - 1 => n = i
      BY <1>0, <3>1
    <3>4. (\A i \in 1..taken : 2 * n - 1 # 2 * i) /\ 2 * n - 1 # 2 * taken + 1
      BY <1>0, <3>1
    <3> QED
      BY <3>1, <3>2, <3>3, <3>4 DEF LineIs
  <2>5. ASSUME NEW j \in found PROVE \E n \in 1..m : j = 2 * n - 1
    <3>1. j \in 1..Len(read) /\ read[j] # "text"
      BY <1>0 DEF is_query_line, QueryLines
    <3>2. PICK n \in 1..taken : j = 2 * n - 1
      BY <2>1, <3>1 DEF LineIs
    <3>3. n \in 1..m
      BY <1>0, <2>2, <3>1, <3>2
    <3> QED
      BY <3>2, <3>3
  <2>6. ASSUME NEW n \in 1..m PROVE 2 * n - 1 \in found
    <3>1. read[2 * n - 1] \in QueryLines
      BY <2>4, AnswersAreLines DEF QueryLines
    <3> QED
      BY <1>0, <2>4, <3>1 DEF is_query_line
  <2>7. found = {f[i] : i \in 1..m}
    <3>1. \A i \in 1..m : f[i] = 2 * i - 1
      OBVIOUS
    <3> HIDE DEF f, found
    <3> QED
      BY <2>5, <2>6, <3>1
  <2>8. Cardinality(found) = m /\ \A n \in 1..m : f[n] \in found /\ Nth(found, n) = f[n]
    <3> HIDE DEF f, found
    <3>1. Lists(f, m, found)
      BY <2>3, <2>7 DEF Lists
    <3> QED
      BY <2>3, <3>1, NthOfIncreasing
  <2>9. \A n \in 1..m : Nth(found, n) = 2 * n - 1
    <3> HIDE DEF found
    <3> QED
      BY <2>8
  <2>10. Answered = [n \in 1..m |-> read[Nth(found, n)]]
    BY <2>8 DEF Answered, parse_cvc5_stdout_all
  <2>11. parse_is_ok(read) => m >= 1
    <3> SUFFICES ASSUME parse_is_ok(read) PROVE m >= 1
      OBVIOUS
    <3>1. 1 \in found
      <4>1. read # <<>> /\ is_query_line(read[1])
        BY DEF parse_is_ok
      <4> QED
        BY <1>0, <4>1
    <3>2. \E n \in 1..m : 1 = 2 * n - 1
      BY <2>5, <3>1
    <3> QED
      BY <2>3, <3>2
  <2> HIDE DEF found, f
  <2>12. Len(Answered) = m
    BY <2>3, <2>10
  <2>13. \A n \in 1..m : Answered[n] = read[2 * n - 1]
    BY <2>9, <2>10
  <2>14. \A n \in 1..m : n \in 1..Len(pending) /\ Answered[n] \in Answers(pending[n])
    BY <1>0, <2>4, <2>13
  <2> QED
    BY <2>3, <2>11, <2>12, <2>14
<1> QED
  BY <1>1, <1>2

\* What is made of an answer is right, if the answer is to the clause's query.
LEMMA VerdictOfAnswer ==
  ASSUME ShellInv, NEW i \in DOMAIN clauses, NEW line \in Answers(i) \cup {"timeout"},
         script # "bitvector" \/ clauses[i].bv # "check"
  PROVE  Verdict(i, line) \in Tags /\ RightTag(i, Verdict(i, line))
<1> DEFINE c == clauses[i]
<1>1. c \in Clause
  BY ShellTypes
<1>2. c.kind \in VerifiableKinds /\ c.always \in BOOLEAN /\ c.never \in BOOLEAN
  BY <1>1 DEF Clause
<1>3. line \in {"unknown", "timeout", IF QueryIsUnsat(c) THEN "unsat" ELSE "sat"}
  BY DEF Answers
<1> HIDE DEF c
<1>4. Verdict(i, line) = interpret_clause_check_result(c.kind, outcome_of(line))
  BY DEF Verdict, c
<1>5. RightTag(i, Verdict(i, line)) <=>
        /\ Verdict(i, line) = "verified" => Claim(c)
        /\ Verdict(i, line) = "counterexample" => ~Claim(c)
  BY DEF RightTag, c
<1>6. CASE line \in {"unknown", "timeout"}
  BY <1>4, <1>5, <1>6 DEF outcome_of, interpret_clause_check_result, Tags
<1>7. CASE line \notin {"unknown", "timeout"}
  <2>1. line = IF QueryIsUnsat(c) THEN "unsat" ELSE "sat"
    BY <1>3, <1>7
  <2>2. outcome_of(line) = line
    BY <2>1 DEF outcome_of
  <2>3. CASE c.kind = "invariant"
    BY <1>2, <1>4, <1>5, <2>1, <2>2, <2>3
       DEF interpret_clause_check_result, clause_uses_satisfiability_semantics, QueryIsUnsat,
           clause_check_polarity, Claim, Tags
  <2>4. CASE c.kind = "must_not"
    BY <1>2, <1>4, <1>5, <2>1, <2>2, <2>4
       DEF interpret_clause_check_result, clause_uses_satisfiability_semantics, QueryIsUnsat,
           clause_check_polarity, Claim, Tags
  <2>5. CASE c.kind \in {"ensures", "rule", "decreases"}
    BY <1>2, <1>4, <1>5, <2>1, <2>2, <2>5
       DEF interpret_clause_check_result, clause_uses_satisfiability_semantics, QueryIsUnsat,
           clause_check_polarity, Claim, Tags
  <2> QED
    BY <1>2, <2>3, <2>4, <2>5 DEF VerifiableKinds
<1> QED
  BY <1>6, <1>7

-----------------------------------------------------------------------------
(* Cvc5Shell: the steps.                                                   *)

\* The clauses, and what is right to say of them, never change.
LEMMA RightStays ==
  ASSUME clauses' = clauses
  PROVE  /\ \A i : Key(i)' = Key(i)
         /\ \A i, tag : RightTag(i, tag)' <=> RightTag(i, tag)
         /\ Single' <=> Single
  BY DEF Key, RightTag, Claim, Single

\* A line keeps its place while the solver runs on or stops.
LEMMA LineStays ==
  ASSUME ShellInv, pending' = pending, clauses' = clauses, script' = script,
         \/ child' = child /\ taken' = taken
         \/ child = "running" /\ taken' \in {taken, taken + 1},
         NEW j, NEW line, LineIs(j, line)
  PROVE  LineIs(j, line)'
<1>1. \A i : Answers(i)' = Answers(i)
  BY DEF Answers, QueryIsUnsat
<1>2. taken \in Nat /\ taken' \in Nat /\ taken <= taken'
  BY ShellTypes
<1>3. \A n \in 1..taken : n \in 1..taken'
  BY <1>2
<1>4. CASE \E n \in 1..taken : j = 2 * n - 1 /\ line \in Answers(pending[n])
  BY <1>1, <1>3, <1>4 DEF LineIs
<1>5. CASE (\E n \in 1..taken : j = 2 * n) /\ line = "text"
  BY <1>3, <1>5 DEF LineIs
<1>6. CASE j = 2 * taken + 1 /\ line = "text" /\ child = "exited"
  BY <1>6 DEF LineIs
<1> QED
  BY <1>4, <1>5, <1>6 DEF LineIs

\* Talking to the solver leaves the contract, the gates' work, the session
\* and the verdicts as they are.
LEMMA TransportKeeps ==
  ASSUME ShellInv, UNCHANGED <<clauses, session, next, resolved, pending, results>>,
         stage \in {"spawn", "write", "read", "parse", "failed"},
         stage' \in {"spawn", "write", "read", "parse", "failed"},
         script' \in {script, "integer"}
  PROVE  GatesInOrder' /\ VerdictIsRight' /\ ScriptAgrees' /\ Returned'
<1>1. GatesInOrder'
  BY DEF ShellInv, GatesInOrder
<1>2. VerdictIsRight'
  BY RightStays DEF ShellInv, VerdictIsRight
<1>3. ScriptAgrees'
  BY RightStays DEF ShellInv, ScriptAgrees
<1>4. Returned'
  BY DEF Returned
<1> QED
  BY <1>1, <1>2, <1>3, <1>4

\* The solver runs only while the parent writes or reads.
LEMMA RunningStage ==
  ASSUME ShellInv, child = "running"
  PROVE  stage \in {"write", "read"}
  BY DEF ShellInv, NoChildLeftRunning, ShellTypeOK

\* Nothing is resolved, pending or printed at first.
LEMMA InitShellInv == ShellInit => ShellInv
<1> SUFFICES ASSUME ShellInit PROVE ShellInv
  OBVIOUS
<1>1. clauses \in Seq(Clause) /\ Len(clauses) \in Nat /\ DOMAIN clauses = 1..Len(clauses)
  BY ContractsAssumption DEF ShellInit
<1>2. /\ \A x \in DOMAIN session : session[x] \in Tags
      /\ \A i \in DOMAIN clauses : Key(i) \in DOMAIN session => RightTag(i, session[Key(i)])
  <2>1. CASE session = <<>>
    BY <2>1
  <2>2. CASE /\ Len(clauses) = 1 /\ clauses[1].kind = "invariant"
             /\ \E tag \in Tags : RightTag(1, tag) /\ session = [x \in {Key(1)} |-> tag]
    <3>1. PICK tag \in Tags : RightTag(1, tag) /\ session = [x \in {Key(1)} |-> tag]
      BY <2>2
    <3>2. \A i \in DOMAIN clauses : i = 1
      BY <1>1, <2>2
    <3> QED
      BY <3>1, <3>2
  <2> QED
    BY <2>1, <2>2 DEF ShellInit
<1>3. ShellTypeOK
  <2>1. /\ next \in 1..(Len(clauses) + 1) /\ sent = 0 /\ taken = 0 /\ sent - taken <= PipeIn
        /\ pending = <<>> /\ resolved = <<>> /\ owed = <<>> /\ stdout = <<>> /\ read = <<>> /\ results = <<>>
        /\ 0 <= PipeOut /\ 0 <= StdoutCap
    BY <1>1, PipesAssumption DEF ShellInit
  <2>2. /\ DOMAIN resolved \subseteq DOMAIN clauses /\ \A i \in DOMAIN resolved : resolved[i] \in Tags
        /\ Len(pending) = 0 /\ Len(owed) = 0 /\ Len(stdout) = 0 /\ Len(read) = 0
    BY <2>1
  <2>3. /\ pending \in Seq(DOMAIN clauses) /\ results \in Seq(Tags)
        /\ owed \in Seq({"sat", "unsat", "unknown", "text"}) /\ stdout \in Seq({"sat", "unsat", "unknown", "text"})
        /\ read \in Seq(QueryLines \cup {"text"})
    BY <2>1
  <2>4. timed_out \in BOOLEAN
    BY DEF ShellInit
  <2>5. Len(owed) <= 2 /\ Len(stdout) <= PipeOut /\ Len(read) <= StdoutCap
    BY <2>1, <2>2
  <2>6. taken \in 0..sent /\ sent \in 0..Len(pending)
    BY <2>1, <2>2
  <2> QED
    BY <1>2, <2>1, <2>2, <2>3, <2>4, <2>5, <2>6 DEF ShellInit, ShellTypeOK
<1>4. GatesInOrder
  BY <1>1 DEF ShellInit, GatesInOrder
<1>5. NoChildLeftRunning /\ OutputInOrder /\ ReadInOrder /\ ScriptAgrees /\ Returned
  BY DEF ShellInit, NoChildLeftRunning, OutputInOrder, ReadInOrder, ScriptAgrees, Returned
<1>6. VerdictIsRight
  BY <1>2 DEF ShellInit, VerdictIsRight
<1> QED
  BY <1>3, <1>4, <1>5, <1>6 DEF ShellInv

\* A clause leaves the gates resolved or pending.
LEMMA GateInv ==
  ASSUME ShellInv, Gate
  PROVE  ShellInv'
<1>1. /\ stage = "gates" /\ stage' = "gates" /\ next \in 1..Len(clauses) /\ next' = next + 1
      /\ clauses' = clauses /\ session' = session /\ script' = script /\ sent' = sent
      /\ child' = child /\ taken' = taken /\ owed' = owed /\ timed_out' = timed_out /\ stdout' = stdout
      /\ read' = read /\ results' = results
  BY ShellTypes DEF Gate, childvars
<1>2. \/ /\ Key(next) \in DOMAIN session /\ pending' = pending
         /\ resolved' = Resolve(next, result_from_session_cache_tag(session[Key(next)]))
      \/ resolved' = Resolve(next, "unknown") /\ pending' = pending
      \/ pending' = Append(pending, next) /\ resolved' = resolved
  BY DEF Gate
<1>3. /\ \A i : Key(i)' = Key(i)
      /\ \A i, tag : RightTag(i, tag)' <=> RightTag(i, tag)
      /\ Single' <=> Single
  BY <1>1, RightStays
<1>4. NoChildLeftRunning' /\ OutputInOrder' /\ ReadInOrder' /\ Returned'
  BY <1>1 DEF ShellInv, NoChildLeftRunning, OutputInOrder, ReadInOrder, Returned
<1>5. Len(clauses) \in Nat /\ DOMAIN clauses = 1..Len(clauses)
  BY ShellTypes
<1>6. ASSUME NEW tag \in Tags, RightTag(next, tag), resolved' = Resolve(next, tag), pending' = pending
      PROVE  ShellInv'
  <2>1. /\ DOMAIN resolved' = DOMAIN resolved \cup {next}
        /\ resolved'[next] = tag
        /\ \A i \in DOMAIN resolved : i # next => resolved'[i] = resolved[i]
    BY <1>6 DEF Resolve
  <2>2. ShellTypeOK'
    <3>1. DOMAIN resolved' \subseteq DOMAIN clauses /\ \A i \in DOMAIN resolved' : resolved'[i] \in Tags
      BY <1>1, <1>5, <1>6, <2>1 DEF ShellInv, ShellTypeOK
    <3>2. next' \in 1..(Len(clauses) + 1)
      BY <1>1, <1>5
    <3> QED
      BY <1>1, <1>6, <3>1, <3>2 DEF ShellInv, ShellTypeOK
  <2>3. GatesInOrder'
    <3>1. \A n \in 1..Len(pending) : pending[n] < next + 1
      BY ShellTypes DEF ShellInv, GatesInOrder
    <3>2. ASSUME NEW i \in 1..((next + 1) - 1)
          PROVE  i \in DOMAIN resolved' \/ \E n \in 1..Len(pending) : pending[n] = i
      <4>1. CASE i = next
        BY <2>1, <4>1
      <4>2. CASE i # next
        <5>1. i \in 1..(next - 1)
          BY <1>1, <1>5, <4>2
        <5> QED
          BY <2>1, <5>1 DEF ShellInv, GatesInOrder
      <4> QED
        BY <4>1, <4>2
    <3> QED
      BY <1>1, <1>6, <3>1, <3>2 DEF ShellInv, GatesInOrder
  <2>4. ScriptAgrees'
    BY <1>1, <1>3, <1>6 DEF ShellInv, ScriptAgrees
  <2>5. VerdictIsRight'
    <3>1. \A i \in DOMAIN resolved' : RightTag(i, resolved'[i])
      BY <1>6, <2>1 DEF ShellInv, VerdictIsRight
    <3> QED
      BY <1>1, <1>3, <3>1 DEF ShellInv, VerdictIsRight
  <2> QED
    BY <1>4, <2>2, <2>3, <2>4, <2>5 DEF ShellInv
<1>7. CASE /\ Key(next) \in DOMAIN session /\ pending' = pending
           /\ resolved' = Resolve(next, result_from_session_cache_tag(session[Key(next)]))
  <2> DEFINE tag == result_from_session_cache_tag(session[Key(next)])
  <2>1. session[Key(next)] \in Tags /\ RightTag(next, session[Key(next)])
    BY <1>1, <1>5, <1>7 DEF ShellInv, ShellTypeOK, VerdictIsRight
  <2>2. tag \in Tags /\ RightTag(next, tag)
    BY <2>1 DEF result_from_session_cache_tag, Tags, RightTag
  <2> HIDE DEF tag
  <2>3. resolved' = Resolve(next, tag)
    BY <1>7 DEF tag
  <2> QED
    BY <1>6, <1>7, <2>2, <2>3
<1>8. CASE resolved' = Resolve(next, "unknown") /\ pending' = pending
  <2>1. "unknown" \in Tags /\ RightTag(next, "unknown")
    BY DEF Tags, RightTag
  <2> QED
    BY <1>6, <1>8, <2>1
<1>9. CASE pending' = Append(pending, next) /\ resolved' = resolved
  <2>1. /\ pending' \in Seq(1..Len(clauses)) /\ Len(pending') = Len(pending) + 1
        /\ pending'[Len(pending) + 1] = next
        /\ \A n \in 1..Len(pending) : pending'[n] = pending[n]
    BY <1>1, <1>9, ShellTypes
  <2>2. Len(pending) \in Nat /\ \A n \in 1..Len(pending) : pending[n] \in Nat /\ pending[n] < next
    BY ShellTypes DEF ShellInv, GatesInOrder
  <2>3. ShellTypeOK'
    <3>1. next' \in 1..(Len(clauses) + 1)
      BY <1>1, <1>5
    <3>2. pending' \in Seq(DOMAIN clauses)
      BY <1>5, <2>1
    <3>3. sent \in 0..Len(pending')
      BY <2>1, <2>2, ShellTypes
    <3> QED
      BY <1>1, <1>9, <3>1, <3>2, <3>3 DEF ShellInv, ShellTypeOK
  <2>4. GatesInOrder'
    <3>1. ASSUME NEW a \in 1..(Len(pending) + 1), NEW b \in 1..(Len(pending) + 1), a < b
          PROVE  pending'[a] < pending'[b]
      <4>1. a \in 1..Len(pending)
        BY <2>2, <3>1
      <4>2. CASE b = Len(pending) + 1
        BY <2>1, <2>2, <4>1, <4>2
      <4>3. CASE b # Len(pending) + 1
        <5>1. b \in 1..Len(pending)
          BY <2>2, <4>3
        <5> QED
          BY <2>1, <3>1, <4>1, <5>1 DEF ShellInv, GatesInOrder
      <4> QED
        BY <4>2, <4>3
    <3>2. ASSUME NEW n \in 1..(Len(pending) + 1) PROVE pending'[n] < next + 1
      <4>1. CASE n = Len(pending) + 1
        BY <1>1, <1>5, <2>1, <4>1
      <4>2. CASE n # Len(pending) + 1
        <5>1. n \in 1..Len(pending)
          BY <2>2, <4>2
        <5>2. pending'[n] = pending[n] /\ pending[n] \in Nat /\ pending[n] < next
          BY <2>1, <2>2, <5>1
        <5> QED
          BY <1>1, <1>5, <5>2
      <4> QED
        BY <4>1, <4>2
    <3>3. ASSUME NEW i \in 1..((next + 1) - 1)
          PROVE  i \in DOMAIN resolved \/ \E n \in 1..(Len(pending) + 1) : pending'[n] = i
      <4>1. CASE i = next
        <5>1. Len(pending) + 1 \in 1..(Len(pending) + 1)
          BY <2>2
        <5> QED
          BY <2>1, <4>1, <5>1
      <4>2. CASE i # next
        <5>1. i \in 1..(next - 1)
          BY <1>1, <1>5, <4>2
        <5>2. i \in DOMAIN resolved \/ \E n \in 1..Len(pending) : pending[n] = i
          BY <5>1 DEF ShellInv, GatesInOrder
        <5>3. \A n \in 1..Len(pending) : n \in 1..(Len(pending) + 1)
          BY <2>2
        <5> QED
          BY <2>1, <5>2, <5>3
      <4> QED
        BY <4>1, <4>2
    <3> QED
      BY <1>1, <1>9, <2>1, <3>1, <3>2, <3>3 DEF GatesInOrder
  <2>5. ScriptAgrees'
    BY <1>1 DEF ShellInv, ScriptAgrees, GatesInOrder
  <2>6. VerdictIsRight'
    BY <1>1, <1>3, <1>9 DEF ShellInv, VerdictIsRight
  <2> QED
    BY <1>4, <2>3, <2>4, <2>5, <2>6 DEF ShellInv
<1> QED
  BY <1>2, <1>7, <1>8, <1>9

\* The script is chosen when every clause is through the gates.
LEMMA ChooseScriptInv ==
  ASSUME ShellInv, ChooseScript
  PROVE  ShellInv'
<1>1. /\ stage = "gates" /\ next \notin DOMAIN clauses
      /\ clauses' = clauses /\ session' = session /\ sent' = sent /\ next' = next
      /\ resolved' = resolved /\ pending' = pending
      /\ child' = child /\ taken' = taken /\ owed' = owed /\ timed_out' = timed_out /\ stdout' = stdout
      /\ read' = read /\ results' = results
      /\ stage' = IF pending = <<>> THEN "assemble" ELSE "spawn"
  BY DEF ChooseScript, childvars
<1>2. /\ script' \in {"integer", "bitvector"}
      /\ script' = "bitvector" /\ ~Single => \A n \in DOMAIN pending : clauses[pending[n]].bv # "check"
  BY DEF ChooseScript
<1>3. /\ Len(clauses) \in Nat /\ DOMAIN clauses = 1..Len(clauses) /\ next \in 1..(Len(clauses) + 1)
      /\ DOMAIN pending = 1..Len(pending)
  BY ShellTypes DEF ShellInv, ShellTypeOK
<1>4. next = Len(clauses) + 1
  BY <1>1, <1>3
<1>5. ShellTypeOK'
  BY <1>1, <1>2 DEF ShellInv, ShellTypeOK
<1>6. NoChildLeftRunning' /\ OutputInOrder' /\ ReadInOrder' /\ Returned'
  BY <1>1 DEF ShellInv, NoChildLeftRunning, OutputInOrder, ReadInOrder, Returned
<1>7. GatesInOrder'
  <2>1. pending = <<>> => DOMAIN resolved = DOMAIN clauses
    <3> SUFFICES ASSUME pending = <<>> PROVE DOMAIN resolved = DOMAIN clauses
      OBVIOUS
    <3>1. \A i \in 1..(next - 1) : i \in DOMAIN resolved
      BY DEF ShellInv, GatesInOrder
    <3>2. DOMAIN clauses = 1..(next - 1)
      BY <1>3, <1>4
    <3>3. DOMAIN resolved \subseteq DOMAIN clauses
      BY DEF ShellInv, ShellTypeOK
    <3> QED
      BY <3>1, <3>2, <3>3
  <2> QED
    BY <1>1, <1>4, <2>1 DEF ShellInv, GatesInOrder
<1>8. ScriptAgrees'
  BY <1>1, <1>2, <1>3, RightStays DEF ScriptAgrees
<1>9. VerdictIsRight'
  BY <1>1, RightStays DEF ShellInv, VerdictIsRight
<1> QED
  BY <1>5, <1>6, <1>7, <1>8, <1>9 DEF ShellInv

\* A new process, with empty pipes.
LEMMA SpawnInv ==
  ASSUME ShellInv, Spawn
  PROVE  ShellInv'
<1>1. /\ stage = "spawn" /\ stage' = "write" /\ child' = "running"
      /\ sent' = 0 /\ taken' = 0 /\ owed' = <<>> /\ timed_out' = FALSE /\ stdout' = <<>> /\ read' = <<>>
      /\ UNCHANGED <<clauses, session, next, resolved, pending, results>> /\ script' = script
      /\ clauses' = clauses /\ session' = session /\ next' = next /\ resolved' = resolved
      /\ pending' = pending /\ results' = results
  BY DEF Spawn
<1>2. GatesInOrder' /\ VerdictIsRight' /\ ScriptAgrees' /\ Returned'
  BY <1>1, TransportKeeps
<1>3. ShellTypeOK'
  <2>1. /\ Len(pending) \in Nat /\ 0 \in 0..0 /\ 0 \in 0..Len(pending) /\ 0 - 0 <= PipeIn
        /\ Len(<<>>) = 0 /\ 0 <= PipeOut /\ 0 <= StdoutCap /\ 0 <= 2
    BY ShellTypes, PipesAssumption
  <2>2. /\ <<>> \in Seq({"sat", "unsat", "unknown", "text"})
        /\ <<>> \in Seq(QueryLines \cup {"text"})
    OBVIOUS
  <2>3. timed_out' \in BOOLEAN
    BY <1>1
  <2> QED
    BY <1>1, <2>1, <2>2, <2>3 DEF ShellInv, ShellTypeOK
<1>4. OutputInOrder'
  BY <1>1 DEF OutputInOrder
<1>5. NoChildLeftRunning' /\ ReadInOrder'
  BY <1>1 DEF NoChildLeftRunning, ReadInOrder
<1> QED
  BY <1>2, <1>3, <1>4, <1>5 DEF ShellInv

\* Steps of the parent that change nothing but its stage and what it sent.
LEMMA ParentMoves ==
  ASSUME ShellInv,
         UNCHANGED <<clauses, session, next, resolved, pending, script, childvars, read, results>>,
         \/ SpawnFails \/ WriteStdin \/ WriteFails \/ CloseStdin
  PROVE  ShellInv'
<1>1. /\ clauses' = clauses /\ session' = session /\ next' = next /\ resolved' = resolved
      /\ pending' = pending /\ results' = results /\ script' = script /\ read' = read
      /\ child' = child /\ taken' = taken /\ owed' = owed /\ timed_out' = timed_out /\ stdout' = stdout
      /\ UNCHANGED <<clauses, session, next, resolved, pending, results>>
  BY DEF childvars
<1>2. /\ sent' \in {sent, sent + 1} /\ stage \in {"spawn", "write"} /\ stage' \in {"write", "read", "failed"}
      /\ stage = "spawn" => stage' = "failed"
      /\ stage' = "failed" => child # "running"
      /\ sent' = sent + 1 => sent < Len(pending) /\ sent - taken < PipeIn
  BY ShellTypes DEF SpawnFails, WriteStdin, WriteFails, CloseStdin, ShellInv, NoChildLeftRunning
<1>3. GatesInOrder' /\ VerdictIsRight' /\ ScriptAgrees' /\ Returned'
  BY <1>1, <1>2, TransportKeeps
<1>4. ShellTypeOK'
  <2>1. taken \in 0..sent' /\ sent' \in 0..Len(pending) /\ sent' - taken <= PipeIn
    BY <1>2, ShellTypes, PipesAssumption DEF ShellInv, ShellTypeOK
  <2> QED
    BY <1>1, <1>2, <2>1 DEF ShellInv, ShellTypeOK
<1>5. \A j, line : LineIs(j, line) => LineIs(j, line)'
  BY <1>1, LineStays
<1>6. OutputInOrder'
  BY <1>1, <1>2, <1>5 DEF ShellInv, OutputInOrder
<1>7. NoChildLeftRunning' /\ ReadInOrder'
  BY <1>1, <1>2 DEF NoChildLeftRunning, ReadInOrder
<1> QED
  BY <1>3, <1>4, <1>6, <1>7 DEF ShellInv

\* A line goes from the pipe to the parent.
LEMMA ReadStdoutInv ==
  ASSUME ShellInv, ReadStdout
  PROVE  ShellInv'
<1>1. /\ stage = "read" /\ stage' = "read" /\ stdout # <<>> /\ Len(read) < StdoutCap
      /\ read' = Append(read, Head(stdout)) /\ stdout' = Tail(stdout)
      /\ clauses' = clauses /\ session' = session /\ next' = next /\ resolved' = resolved
      /\ pending' = pending /\ results' = results /\ script' = script /\ sent' = sent
      /\ child' = child /\ taken' = taken /\ owed' = owed /\ timed_out' = timed_out
      /\ UNCHANGED <<clauses, session, next, resolved, pending, results>>
  BY DEF ReadStdout
<1>2. GatesInOrder' /\ VerdictIsRight' /\ ScriptAgrees' /\ Returned'
  BY <1>1, TransportKeeps
<1>3. /\ Len(read) \in Nat /\ Len(stdout) \in Nat /\ Len(owed) \in Nat /\ Len(stdout) >= 1
      /\ read' \in Seq(QueryLines \cup {"text"}) /\ Len(read') = Len(read) + 1
      /\ read'[Len(read) + 1] = stdout[1] /\ \A j \in 1..Len(read) : read'[j] = read[j]
      /\ stdout' \in Seq({"sat", "unsat", "unknown", "text"}) /\ Len(stdout') = Len(stdout) - 1
      /\ \A j \in 1..(Len(stdout) - 1) : stdout'[j] = stdout[j + 1]
  BY <1>1, ShellTypes DEF QueryLines
<1>4. ShellTypeOK'
  <2>1. Len(read') <= StdoutCap /\ Len(stdout') <= PipeOut
    BY <1>1, <1>3, PipesAssumption DEF ShellInv, ShellTypeOK
  <2> QED
    BY <1>1, <1>3, <2>1 DEF ShellInv, ShellTypeOK
<1>5. \A j, line : LineIs(j, line) => LineIs(j, line)'
  BY <1>1, LineStays
<1>6. OutputInOrder'
  <2>1. ASSUME NEW j \in 1..Len(read') PROVE LineIs(j, read'[j])
    <3>1. CASE j = Len(read) + 1
      <4>1. LineIs(Len(read) + 1, stdout[1])
        BY <1>1, <1>3 DEF ShellInv, OutputInOrder
      <4> QED
        BY <1>3, <3>1, <4>1
    <3>2. CASE j # Len(read) + 1
      <4>1. j \in 1..Len(read)
        BY <1>3, <3>2
      <4> QED
        BY <1>1, <1>3, <4>1 DEF ShellInv, OutputInOrder
    <3> QED
      BY <3>1, <3>2
  <2>2. ASSUME NEW j \in 1..Len(stdout') PROVE LineIs(Len(read') + j, stdout'[j])
    <3>1. j + 1 \in 1..Len(stdout) /\ Len(read') + j = Len(read) + (j + 1) /\ stdout'[j] = stdout[j + 1]
      BY <1>3
    <3>2. LineIs(Len(read) + (j + 1), stdout[j + 1])
      BY <1>1, <3>1 DEF ShellInv, OutputInOrder
    <3> QED
      BY <3>1, <3>2
  <2>3. Len(read') + Len(stdout') = Len(read) + Len(stdout)
    BY <1>3
  <2> QED
    BY <1>1, <1>5, <2>1, <2>2, <2>3 DEF ShellInv, OutputInOrder
<1>7. NoChildLeftRunning' /\ ReadInOrder'
  BY <1>1 DEF NoChildLeftRunning, ReadInOrder
<1> QED
  BY <1>2, <1>4, <1>6, <1>7 DEF ShellInv

\* Past the cap the solver is killed.
LEMMA ReadPastCapInv ==
  ASSUME ShellInv, ReadPastCap
  PROVE  ShellInv'
<1>1. /\ stage = "read" /\ stage' = "failed" /\ child' = "exited"
      /\ clauses' = clauses /\ session' = session /\ next' = next /\ resolved' = resolved
      /\ pending' = pending /\ results' = results /\ script' = script /\ sent' = sent
      /\ read' = read /\ stdout' = stdout /\ taken' = taken /\ owed' = owed /\ timed_out' = timed_out
      /\ UNCHANGED <<clauses, session, next, resolved, pending, results>>
  BY DEF ReadPastCap
<1>2. GatesInOrder' /\ VerdictIsRight' /\ ScriptAgrees' /\ Returned'
  BY <1>1, TransportKeeps
<1>3. ShellTypeOK'
  BY <1>1 DEF ShellInv, ShellTypeOK
<1>4. NoChildLeftRunning' /\ OutputInOrder' /\ ReadInOrder'
  BY <1>1 DEF NoChildLeftRunning, OutputInOrder, ReadInOrder
<1> QED
  BY <1>2, <1>3, <1>4 DEF ShellInv

\* At the end of the output the parent has every line of it.
LEMMA ReadEofInv ==
  ASSUME ShellInv, ReadEof
  PROVE  ShellInv'
<1>1. /\ stage = "read" /\ stage' = "parse" /\ child = "exited" /\ child' = child
      /\ clauses' = clauses /\ session' = session /\ next' = next /\ resolved' = resolved
      /\ pending' = pending /\ results' = results /\ script' = script /\ sent' = sent
      /\ stdout' = stdout /\ taken' = taken /\ owed' = owed /\ timed_out' = timed_out
      /\ UNCHANGED <<clauses, session, next, resolved, pending, results>>
  BY DEF ReadEof, childvars
<1>2. read' = read \/ read' = <<"timeout">>
  BY DEF ReadEof, promote_solver_timeout
<1>3. GatesInOrder' /\ VerdictIsRight' /\ ScriptAgrees' /\ Returned'
  BY <1>1, TransportKeeps
<1>4. ShellTypeOK'
  <2>1. <<"timeout">> \in Seq(QueryLines \cup {"text"})
    BY DEF QueryLines
  <2> QED
    BY <1>1, <1>2, <2>1 DEF ShellInv, ShellTypeOK
<1>5. \A j, line : LineIs(j, line) => LineIs(j, line)'
  BY <1>1, LineStays
<1>6. ReadInOrder'
  BY <1>1, <1>2, <1>5 DEF ShellInv, OutputInOrder, ReadInOrder
<1>7. NoChildLeftRunning' /\ OutputInOrder'
  BY <1>1 DEF NoChildLeftRunning, OutputInOrder
<1> QED
  BY <1>3, <1>4, <1>6, <1>7 DEF ShellInv

\* Back to the integer script.
LEMMA FallBackInv ==
  ASSUME ShellInv, FallBack
  PROVE  ShellInv'
<1>1. /\ stage \in {"parse", "failed"} /\ stage' = "spawn" /\ script' = "integer"
      /\ clauses' = clauses /\ session' = session /\ next' = next /\ resolved' = resolved
      /\ pending' = pending /\ results' = results /\ sent' = sent /\ child' = child
      /\ read' = read /\ stdout' = stdout /\ taken' = taken /\ owed' = owed /\ timed_out' = timed_out
      /\ UNCHANGED <<clauses, session, next, resolved, pending, results>>
  BY DEF FallBack, childvars
<1>2. GatesInOrder' /\ VerdictIsRight' /\ ScriptAgrees' /\ Returned'
  BY <1>1, TransportKeeps
<1>3. ShellTypeOK'
  BY <1>1 DEF ShellInv, ShellTypeOK
<1>4. NoChildLeftRunning' /\ OutputInOrder' /\ ReadInOrder'
  BY <1>1 DEF ShellInv, NoChildLeftRunning, OutputInOrder, ReadInOrder
<1> QED
  BY <1>2, <1>3, <1>4 DEF ShellInv

\* The pending clauses are given verdicts that are right.
LEMMA GiveInv ==
  ASSUME ShellInv, stage \in {"parse", "failed"}, NEW tags, NEW stored, Give(tags, stored),
         \A n \in 1..Len(pending) : tags[n] \in Tags /\ RightTag(pending[n], tags[n])
  PROVE  ShellInv'
<1>1. /\ stage' = "assemble"
      /\ clauses' = clauses /\ next' = next /\ pending' = pending /\ results' = results
      /\ script' = script /\ sent' = sent /\ child' = child
      /\ read' = read /\ stdout' = stdout /\ taken' = taken /\ owed' = owed /\ timed_out' = timed_out
  BY DEF Give, childvars
<1>2. /\ \A i : Key(i)' = Key(i)
      /\ \A i, tag : RightTag(i, tag)' <=> RightTag(i, tag)
      /\ Single' <=> Single
  BY <1>1, RightStays
<1>3. /\ Len(clauses) \in Nat /\ DOMAIN clauses = 1..Len(clauses) /\ clauses \in Seq(Clause)
      /\ Len(pending) \in Nat /\ DOMAIN pending = 1..Len(pending)
      /\ \A n \in 1..Len(pending) : pending[n] \in 1..Len(clauses)
  BY ShellTypes
<1> DEFINE P == {pending[n] : n \in DOMAIN pending}
<1>4. /\ DOMAIN resolved' = DOMAIN resolved \cup P
      /\ \A i \in DOMAIN resolved' :
           resolved'[i] = IF \E n \in DOMAIN pending : pending[n] = i
                          THEN tags[CHOOSE n \in DOMAIN pending : pending[n] = i] ELSE resolved[i]
  BY DEF Give
<1>5. ASSUME NEW i \in DOMAIN resolved' PROVE resolved'[i] \in Tags /\ RightTag(i, resolved'[i])
  <2>1. CASE \E n \in DOMAIN pending : pending[n] = i
    <3> DEFINE c == CHOOSE n \in DOMAIN pending : pending[n] = i
    <3>1. c \in DOMAIN pending /\ pending[c] = i
      BY <2>1
    <3>2. resolved'[i] = tags[c]
      BY <1>4, <2>1
    <3> HIDE DEF c
    <3> QED
      BY <1>3, <3>1, <3>2
  <2>2. CASE ~\E n \in DOMAIN pending : pending[n] = i
    <3>1. i \in DOMAIN resolved
      BY <1>4, <2>2
    <3>2. resolved'[i] = resolved[i]
      BY <1>4, <2>2
    <3> QED
      BY <3>1, <3>2 DEF ShellInv, ShellTypeOK, VerdictIsRight
  <2> QED
    BY <2>1, <2>2
<1>6. DOMAIN resolved' = DOMAIN clauses
  <2>1. next = Len(clauses) + 1
    BY DEF ShellInv, GatesInOrder
  <2>2. \A i \in 1..Len(clauses) : i \in DOMAIN resolved \/ i \in P
    <3>1. \A i \in 1..(next - 1) : i \in DOMAIN resolved \/ \E n \in 1..Len(pending) : pending[n] = i
      BY DEF ShellInv, GatesInOrder
    <3>2. \A i \in 1..Len(clauses) : i \in 1..(next - 1)
      BY <1>3, <2>1
    <3> QED
      BY <1>3, <3>1, <3>2
  <2>3. DOMAIN resolved \subseteq DOMAIN clauses /\ P \subseteq DOMAIN clauses
    BY <1>3 DEF ShellInv, ShellTypeOK
  <2> HIDE DEF P
  <2> QED
    BY <1>3, <1>4, <2>2, <2>3
<1>7. /\ \A x \in DOMAIN session' : session'[x] \in Tags
      /\ \A i \in DOMAIN clauses : Key(i) \in DOMAIN session' => RightTag(i, session'[Key(i)])
  <2>1. CASE ~stored
    <3>1. session' = session
      BY <2>1 DEF Give
    <3> QED
      BY <3>1 DEF ShellInv, ShellTypeOK, VerdictIsRight
  <2>2. CASE stored
    <3> DEFINE K == {Key(pending[n]) : n \in DOMAIN pending}
               Last(x, n) == Key(pending[n]) = x /\ \A m \in DOMAIN pending : Key(pending[m]) = x => m <= n
    <3>1. /\ DOMAIN session' = DOMAIN session \cup K
          /\ \A x \in DOMAIN session' :
               session'[x] = IF \E n \in DOMAIN pending : Key(pending[n]) = x
                             THEN tags[CHOOSE n \in DOMAIN pending : Last(x, n)] ELSE session[x]
      BY <2>2 DEF Give
    <3>2. ASSUME NEW x \in DOMAIN session', \E n \in DOMAIN pending : Key(pending[n]) = x
          PROVE  \E n \in DOMAIN pending : Key(pending[n]) = x /\ session'[x] = tags[n]
      <4> DEFINE T == {n \in DOMAIN pending : Key(pending[n]) = x}
      <4>1. PICK n \in T : \A m \in T : m <= n
        <5>1. T \in SUBSET (1..Len(pending)) /\ T # {}
          BY <1>3, <3>2
        <5> HIDE DEF T
        <5> QED
          BY <1>3, <5>1, GreatestNumber
      <4>2. n \in DOMAIN pending /\ Last(x, n)
        BY <4>1
      <4> DEFINE c == CHOOSE a \in DOMAIN pending : Last(x, a)
      <4>3. c \in DOMAIN pending /\ Last(x, c)
        <5> HIDE DEF Last
        <5> QED
          BY <4>2
      <4>4. session'[x] = tags[c]
        BY <3>1, <3>2
      <4> QED
        BY <4>3, <4>4
    <3>3. ASSUME NEW x \in DOMAIN session', ~\E n \in DOMAIN pending : Key(pending[n]) = x
          PROVE  x \in DOMAIN session /\ session'[x] = session[x]
      BY <3>1, <3>3
    <3>4. ASSUME NEW x \in DOMAIN session' PROVE session'[x] \in Tags
      <4>1. CASE \E n \in DOMAIN pending : Key(pending[n]) = x
        <5>1. PICK n \in DOMAIN pending : Key(pending[n]) = x /\ session'[x] = tags[n]
          BY <3>2, <4>1
        <5> QED
          BY <1>3, <5>1
      <4>2. CASE ~\E n \in DOMAIN pending : Key(pending[n]) = x
        <5>1. x \in DOMAIN session /\ session'[x] = session[x]
          BY <3>3, <4>2
        <5> QED
          BY <5>1 DEF ShellInv, ShellTypeOK
      <4> QED
        BY <4>1, <4>2
    <3>5. ASSUME NEW i \in DOMAIN clauses, Key(i) \in DOMAIN session'
          PROVE  RightTag(i, session'[Key(i)])
      <4>1. CASE \E n \in DOMAIN pending : Key(pending[n]) = Key(i)
        <5>1. PICK n \in DOMAIN pending : Key(pending[n]) = Key(i) /\ session'[Key(i)] = tags[n]
          BY <3>2, <3>5, <4>1
        <5>2. clauses[pending[n]].kind = clauses[i].kind /\ clauses[pending[n]].body = clauses[i].body
          BY <5>1 DEF Key
        <5>3. pending[n] \in DOMAIN clauses /\ clauses \in Contracts
          BY <1>3 DEF ShellInv, ShellTypeOK
        <5>4. /\ clauses[pending[n]].always = clauses[i].always
              /\ clauses[pending[n]].never = clauses[i].never
          BY <5>2, <5>3, BodiesAssumption
        <5>5. Claim(clauses[pending[n]]) <=> Claim(clauses[i])
          BY <5>2, <5>4 DEF Claim
        <5>6. RightTag(pending[n], tags[n])
          BY <1>3
        <5> QED
          BY <5>1, <5>5, <5>6 DEF RightTag
      <4>2. CASE ~\E n \in DOMAIN pending : Key(pending[n]) = Key(i)
        <5>1. Key(i) \in DOMAIN session /\ session'[Key(i)] = session[Key(i)]
          BY <3>3, <3>5, <4>2
        <5> QED
          BY <5>1 DEF ShellInv, VerdictIsRight
      <4> QED
        BY <4>1, <4>2
    <3> QED
      BY <3>4, <3>5
  <2> QED
    BY <2>1, <2>2
<1>8. ShellTypeOK'
  BY <1>1, <1>5, <1>6, <1>7 DEF ShellInv, ShellTypeOK
<1>9. VerdictIsRight'
  BY <1>1, <1>2, <1>5, <1>7 DEF VerdictIsRight
<1>10. GatesInOrder'
  <2>1. next = Len(clauses) + 1
    BY DEF ShellInv, GatesInOrder
  <2>2. \A i \in 1..(next - 1) : i \in DOMAIN resolved'
    BY <1>3, <1>6, <2>1
  <2> QED
    BY <1>1, <1>6, <2>1, <2>2 DEF ShellInv, GatesInOrder
<1>11. NoChildLeftRunning' /\ OutputInOrder' /\ ReadInOrder' /\ Returned'
  BY <1>1 DEF ShellInv, NoChildLeftRunning, OutputInOrder, ReadInOrder, Returned
<1>12. ScriptAgrees'
  BY <1>1, <1>2 DEF ShellInv, ScriptAgrees
<1> QED
  BY <1>8, <1>9, <1>10, <1>11, <1>12 DEF ShellInv

\* Unknown may be said of any clause.
LEMMA GiveUnknown ==
  ASSUME ShellInv, stage \in {"parse", "failed"}, NEW tags, NEW stored, Give(tags, stored),
         \A n \in 1..Len(pending) : tags[n] = "unknown"
  PROVE  ShellInv'
<1>1. \A i : "unknown" \in Tags /\ RightTag(i, "unknown")
  BY DEF Tags, RightTag
<1> QED
  BY <1>1, GiveInv

\* As many answers as pending clauses are the clauses' own.
LEMMA ZipAnswersInv ==
  ASSUME ShellInv, ZipAnswers
  PROVE  ShellInv'
<1> DEFINE tags == [n \in DOMAIN pending |-> Verdict(pending[n], Answered[n])]
<1>1. /\ stage = "parse" /\ ~Single /\ Len(Answered) = Len(pending) /\ Give(tags, TRUE)
  BY DEF ZipAnswers, AnswersMatch
<1>2. DOMAIN pending = 1..Len(pending) /\ \A n \in 1..Len(pending) : pending[n] \in DOMAIN clauses
  BY ShellTypes
<1>3. ASSUME NEW n \in 1..Len(pending) PROVE tags[n] \in Tags /\ RightTag(pending[n], tags[n])
  <2>1. Answered[n] \in Answers(pending[n]) \cup {"timeout"}
    BY <1>1, AnswersAlign
  <2>2. script # "bitvector" \/ clauses[pending[n]].bv # "check"
    BY <1>1 DEF ShellInv, ScriptAgrees
  <2>3. tags[n] = Verdict(pending[n], Answered[n])
    BY <1>2
  <2> HIDE DEF tags
  <2>4. pending[n] \in DOMAIN clauses
    BY <1>2
  <2>5. Verdict(pending[n], Answered[n]) \in Tags /\ RightTag(pending[n], Verdict(pending[n], Answered[n]))
    BY <2>1, <2>2, <2>4, VerdictOfAnswer
  <2> QED
    BY <2>3, <2>5
<1> HIDE DEF tags
<1> QED
  BY <1>1, <1>3, GiveInv

\* The one pending clause of a contract with a single one.
LEMMA SinglePending ==
  ASSUME ShellInv, Single, stage \in {"parse", "failed"}
  PROVE  Len(pending) = 1 /\ pending[1] \in DOMAIN clauses
<1>1. /\ pending # <<>> /\ pending \in Seq(1..Len(clauses)) /\ Len(pending) \in Nat
      /\ Len(clauses) \in Nat /\ Len(clauses) <= 1 /\ DOMAIN clauses = 1..Len(clauses)
      /\ \A n \in 1..Len(pending) : pending[n] \in 1..Len(clauses)
  BY ShellTypes DEF ShellInv, GatesInOrder, Single
<1>2. ~(Len(pending) >= 2)
  <2> SUFFICES ASSUME Len(pending) >= 2 PROVE FALSE
    OBVIOUS
  <2>1. 1 \in 1..Len(pending) /\ 2 \in 1..Len(pending)
    BY <1>1
  <2>2. pending[1] < pending[2]
    BY <2>1 DEF ShellInv, GatesInOrder
  <2> QED
    BY <1>1, <2>1, <2>2
<1>3. Len(pending) # 0
  BY <1>1
<1>4. Len(pending) = 1
  <2>1. Len(pending) \in Nat
    BY <1>1
  <2> QED
    BY <1>2, <1>3, <2>1
<1> QED
  BY <1>1, <1>4

\* The answer of a single clause is taken if its script is the clause's
\* query, or if its model breaks the clause itself.
LEMMA TakeFirstInv ==
  ASSUME ShellInv, TakeFirst
  PROVE  ShellInv'
<1> DEFINE i == pending[1]
<1>1. /\ stage \in {"parse", "failed"} /\ Single /\ Give(<<FirstVerdict>>, TRUE)
      /\ \/ script = "integer"
         \/ clauses[i].bv = "trust"
         \/ model_refutes_negated_clause(i)
  BY DEF TakeFirst
<1>2. Len(pending) = 1 /\ i \in DOMAIN clauses
  BY <1>1, SinglePending
<1>3. FirstVerdict \in Tags /\ RightTag(i, FirstVerdict)
  <2>1. CASE stage = "parse" /\ parse_is_ok(read)
    <3>1. FirstVerdict = Verdict(i, Answered[1])
      BY <2>1 DEF FirstVerdict
    <3>2. Answered[1] \in Answers(i) \cup {"timeout"}
      <4>1. Len(Answered) \in Nat /\ Len(Answered) >= 1
        BY <2>1, AnswersAlign
      <4>2. 1 \in 1..Len(Answered)
        BY <4>1
      <4> QED
        BY <2>1, <4>2, AnswersAlign
    <3>3. CASE script = "integer" \/ clauses[i].bv = "trust"
      <4>1. script # "bitvector" \/ clauses[i].bv # "check"
        BY <3>3
      <4> HIDE DEF i
      <4>2. Verdict(i, Answered[1]) \in Tags /\ RightTag(i, Verdict(i, Answered[1]))
        BY <1>2, <3>2, <4>1, VerdictOfAnswer
      <4> QED
        BY <3>1, <4>2
    <3>4. CASE model_refutes_negated_clause(i)
      <4>1. /\ Answered[1] = "sat" /\ clause_check_polarity(clauses[i].kind) = "negate_body"
            /\ ~clauses[i].always
        BY <3>4 DEF model_refutes_negated_clause
      <4>2. clauses[i].kind \in VerifiableKinds
        <5>1. clauses[i] \in Clause
          BY <1>2, ShellTypes
        <5> QED
          BY <5>1 DEF Clause
      <4>3. clauses[i].kind \in {"ensures", "rule"}
        BY <4>1, <4>2 DEF clause_check_polarity, VerifiableKinds
      <4>4. Verdict(i, Answered[1]) = "counterexample"
        BY <4>1, <4>3
           DEF Verdict, outcome_of, interpret_clause_check_result, clause_uses_satisfiability_semantics
      <4>5. ~Claim(clauses[i])
        BY <4>1, <4>3 DEF Claim
      <4> QED
        BY <3>1, <4>4, <4>5 DEF RightTag, Tags
    <3> QED
      BY <1>1, <3>3, <3>4
  <2>2. CASE ~(stage = "parse" /\ parse_is_ok(read))
    BY <2>2 DEF FirstVerdict, Tags, RightTag
  <2> QED
    BY <2>1, <2>2
<1> DEFINE tags == <<FirstVerdict>>
<1>4. tags[1] = FirstVerdict /\ Give(tags, TRUE)
  BY <1>1
<1> HIDE DEF tags
<1>5. \A n \in 1..Len(pending) : tags[n] \in Tags /\ RightTag(pending[n], tags[n])
  <2>1. \A n \in 1..Len(pending) : n = 1
    BY <1>2
  <2> QED
    BY <1>3, <1>4, <2>1
<1> QED
  BY <1>1, <1>4, <1>5, GiveInv

\* The verdicts are returned in clause order.
LEMMA AssembleInv ==
  ASSUME ShellInv, Assemble
  PROVE  ShellInv'
<1>1. /\ stage = "assemble" /\ stage' = "done"
      /\ results' = [n \in 1..Cardinality(DOMAIN resolved) |-> resolved[Nth(DOMAIN resolved, n)]]
      /\ clauses' = clauses /\ session' = session /\ next' = next /\ resolved' = resolved
      /\ pending' = pending /\ script' = script /\ sent' = sent /\ child' = child
      /\ read' = read /\ stdout' = stdout /\ taken' = taken /\ owed' = owed /\ timed_out' = timed_out
  BY DEF Assemble, childvars
<1> DEFINE N == Len(clauses)
           S == DOMAIN resolved
           f == [n \in 1..N |-> n]
<1>2. N \in Nat /\ DOMAIN clauses = 1..N /\ S = 1..N
  BY <1>1, ShellTypes DEF ShellInv, GatesInOrder
<1>3. Lists(f, N, S)
  <2>1. f \in [1..N -> Nat] /\ \A n \in 1..N : f[n] = n
    BY <1>2
  <2> HIDE DEF f, S
  <2>2. \A i, j \in 1..N : i < j => f[i] < f[j]
    BY <2>1
  <2>3. S = {f[n] : n \in 1..N}
    BY <1>2, <2>1
  <2> QED
    BY <2>1, <2>2, <2>3 DEF Lists
<1>4. Cardinality(S) = N /\ \A n \in 1..N : Nth(S, n) = n
  <2>1. \A n \in 1..N : f[n] = n
    OBVIOUS
  <2> HIDE DEF f, S, N
  <2>2. Cardinality(S) = N /\ \A n \in 1..N : f[n] \in S /\ Nth(S, n) = f[n]
    BY <1>2, <1>3, NthOfIncreasing
  <2> QED
    BY <2>1, <2>2
<1>5. results' = [n \in 1..N |-> resolved[n]]
  <2> HIDE DEF N
  <2>1. results' = [n \in 1..N |-> resolved[Nth(S, n)]]
    BY <1>1, <1>4
  <2> QED
    BY <1>4, <2>1
<1>6. Returned'
  BY <1>1, <1>2, <1>5 DEF Returned
<1>7. ShellTypeOK'
  <2>1. \A n \in 1..N : resolved[n] \in Tags
    BY <1>2 DEF ShellInv, ShellTypeOK
  <2>2. results' \in Seq(Tags)
    <3> HIDE DEF N
    <3> QED
      BY <1>2, <1>5, <2>1
  <2> QED
    BY <1>1, <2>2 DEF ShellInv, ShellTypeOK
<1>8. VerdictIsRight'
  BY <1>1, RightStays DEF ShellInv, VerdictIsRight
<1>9. GatesInOrder' /\ NoChildLeftRunning' /\ OutputInOrder' /\ ReadInOrder'
  BY <1>1 DEF ShellInv, GatesInOrder, NoChildLeftRunning, OutputInOrder, ReadInOrder
<1>10. ScriptAgrees'
  BY <1>1, RightStays DEF ShellInv, ScriptAgrees
<1> QED
  BY <1>6, <1>7, <1>8, <1>9, <1>10 DEF ShellInv

\* The solver reads a query and decides it.
LEMMA ChildAnswerInv ==
  ASSUME ShellInv, ChildAnswer
  PROVE  ShellInv'
<1>1. /\ child = "running" /\ owed = <<>> /\ taken < sent /\ taken' = taken + 1
      /\ clauses' = clauses /\ session' = session /\ next' = next /\ resolved' = resolved
      /\ pending' = pending /\ results' = results /\ script' = script /\ sent' = sent /\ child' = child
      /\ stage' = stage /\ read' = read /\ stdout' = stdout /\ timed_out' = timed_out
      /\ UNCHANGED <<clauses, session, next, resolved, pending, results>>
  BY DEF ChildAnswer, ChildKeeps
<1>2. stage \in {"write", "read"}
  BY <1>1, RunningStage
<1>3. GatesInOrder' /\ VerdictIsRight' /\ ScriptAgrees' /\ Returned'
  BY <1>1, <1>2, TransportKeeps
<1>4. PICK answer \in Answers(pending[taken + 1]) : owed' = <<answer, "text">>
  BY DEF ChildAnswer
<1>5. answer \in {"sat", "unsat", "unknown"}
  BY <1>4, AnswersAreLines
<1>6. /\ taken \in Nat /\ sent \in Nat /\ Len(read) \in Nat /\ Len(stdout) \in Nat
      /\ Len(read) + Len(stdout) = 2 * taken
  <2>1. Len(read) + Len(stdout) + Len(owed) = 2 * taken
    BY <1>1, <1>2 DEF ShellInv, OutputInOrder
  <2>2. Len(owed) = 0
    BY <1>1
  <2>3. taken \in Nat /\ sent \in Nat /\ Len(read) \in Nat /\ Len(stdout) \in Nat
    BY ShellTypes
  <2> QED
    BY <2>1, <2>2, <2>3
<1>7. owed' \in Seq({"sat", "unsat", "unknown", "text"}) /\ Len(owed') = 2 /\ owed'[1] = answer /\ owed'[2] = "text"
  BY <1>4, <1>5
<1>8. ShellTypeOK'
  <2>1. taken' \in 0..sent' /\ sent' - taken' <= PipeIn
    <3>1. sent - taken <= PipeIn /\ PipeIn \in Nat
      BY PipesAssumption DEF ShellInv, ShellTypeOK
    <3> QED
      BY <1>1, <1>6, <3>1
  <2> QED
    BY <1>1, <1>7, <2>1 DEF ShellInv, ShellTypeOK
<1>9. \A j, line : LineIs(j, line) => LineIs(j, line)'
  BY <1>1, LineStays
<1>10. OutputInOrder'
  <2>1. \A i : Answers(i)' = Answers(i)
    BY <1>1 DEF Answers, QueryIsUnsat
  <2>2. ASSUME NEW a, a = 2 * taken + 1 PROVE LineIs(a, answer)'
    <3>1. PICK n : n = taken + 1
      OBVIOUS
    <3>2. n \in 1..taken' /\ a = 2 * n - 1
      BY <1>1, <1>6, <2>2, <3>1
    <3>3. answer \in Answers(pending[n])'
      BY <1>1, <1>4, <2>1, <3>1
    <3> QED
      BY <3>2, <3>3 DEF LineIs
  <2>3. ASSUME NEW a, a = 2 * taken + 2 PROVE LineIs(a, "text")'
    <3>1. taken + 1 \in 1..taken' /\ a = 2 * (taken + 1)
      BY <1>1, <1>6, <2>3
    <3> QED
      BY <3>1 DEF LineIs
  <2>4. ASSUME NEW j \in 1..Len(owed'), NEW a, a = 2 * taken + j, NEW line, line = owed'[j]
        PROVE  LineIs(a, line)'
    <3>1. j = 1 \/ j = 2
      BY <1>7
    <3>2. CASE j = 1
      BY <1>7, <2>2, <2>4, <3>2
    <3>3. CASE j = 2
      BY <1>7, <2>3, <2>4, <3>3
    <3> QED
      BY <3>1, <3>2, <3>3
  <2>5. Len(read) + Len(stdout) + Len(owed') = 2 * taken'
    BY <1>1, <1>6, <1>7
  <2> QED
    BY <1>1, <1>2, <1>6, <1>9, <2>4, <2>5 DEF ShellInv, OutputInOrder
<1>11. NoChildLeftRunning' /\ ReadInOrder'
  BY <1>1, <1>2 DEF NoChildLeftRunning, ReadInOrder
<1> QED
  BY <1>3, <1>8, <1>10, <1>11 DEF ShellInv

\* A line goes from the solver to the pipe.
LEMMA ChildPrintInv ==
  ASSUME ShellInv, ChildPrint
  PROVE  ShellInv'
<1>1. /\ child = "running" /\ owed # <<>> /\ Len(stdout) < PipeOut
      /\ stdout' = Append(stdout, Head(owed)) /\ owed' = Tail(owed) /\ taken' = taken
      /\ clauses' = clauses /\ session' = session /\ next' = next /\ resolved' = resolved
      /\ pending' = pending /\ results' = results /\ script' = script /\ sent' = sent /\ child' = child
      /\ stage' = stage /\ read' = read /\ timed_out' = timed_out
      /\ UNCHANGED <<clauses, session, next, resolved, pending, results>>
  BY DEF ChildPrint, ChildKeeps
<1>2. stage \in {"write", "read"}
  BY <1>1, RunningStage
<1>3. GatesInOrder' /\ VerdictIsRight' /\ ScriptAgrees' /\ Returned'
  BY <1>1, <1>2, TransportKeeps
<1>4. /\ Len(read) \in Nat /\ Len(stdout) \in Nat /\ Len(owed) \in Nat /\ Len(owed) >= 1
      /\ stdout' \in Seq({"sat", "unsat", "unknown", "text"}) /\ Len(stdout') = Len(stdout) + 1
      /\ stdout'[Len(stdout) + 1] = owed[1] /\ \A j \in 1..Len(stdout) : stdout'[j] = stdout[j]
      /\ owed' \in Seq({"sat", "unsat", "unknown", "text"}) /\ Len(owed') = Len(owed) - 1
      /\ \A j \in 1..(Len(owed) - 1) : owed'[j] = owed[j + 1]
  BY <1>1, ShellTypes
<1>5. ShellTypeOK'
  <2>1. Len(owed') <= 2 /\ Len(stdout') <= PipeOut
    BY <1>1, <1>4, PipesAssumption DEF ShellInv, ShellTypeOK
  <2> QED
    BY <1>1, <1>4, <2>1 DEF ShellInv, ShellTypeOK
<1>6. \A j, line : LineIs(j, line) => LineIs(j, line)'
  BY <1>1, LineStays
<1>7. OutputInOrder'
  <2>1. ASSUME NEW j \in 1..Len(stdout') PROVE LineIs(Len(read) + j, stdout'[j])
    <3>1. CASE j = Len(stdout) + 1
      <4>1. 1 \in 1..Len(owed)
        BY <1>4
      <4>2. LineIs(Len(read) + Len(stdout) + 1, owed[1])
        BY <1>1, <1>2, <4>1 DEF ShellInv, OutputInOrder
      <4>3. Len(read) + j = Len(read) + Len(stdout) + 1
        BY <1>4, <3>1
      <4> QED
        BY <1>4, <3>1, <4>2, <4>3
    <3>2. CASE j # Len(stdout) + 1
      <4>1. j \in 1..Len(stdout)
        BY <1>4, <3>2
      <4> QED
        BY <1>2, <1>4, <4>1 DEF ShellInv, OutputInOrder
    <3> QED
      BY <3>1, <3>2
  <2>2. ASSUME NEW j \in 1..Len(owed') PROVE LineIs(Len(read) + Len(stdout') + j, owed'[j])
    <3>1. /\ j + 1 \in 1..Len(owed) /\ owed'[j] = owed[j + 1]
          /\ Len(read) + Len(stdout') + j = Len(read) + Len(stdout) + (j + 1)
      BY <1>4
    <3>2. LineIs(Len(read) + Len(stdout) + (j + 1), owed[j + 1])
      BY <1>1, <1>2, <3>1 DEF ShellInv, OutputInOrder
    <3> QED
      BY <3>1, <3>2
  <2>3. Len(read) + Len(stdout') + Len(owed') = Len(read) + Len(stdout) + Len(owed)
    BY <1>4
  <2> QED
    BY <1>1, <1>2, <1>6, <2>1, <2>2, <2>3 DEF ShellInv, OutputInOrder
<1>8. NoChildLeftRunning' /\ ReadInOrder'
  BY <1>1, <1>2 DEF NoChildLeftRunning, ReadInOrder
<1> QED
  BY <1>3, <1>5, <1>7, <1>8 DEF ShellInv

\* The solver ends: at the end of the script, on a command it rejects, or
\* at the time limit, wherever it is.
LEMMA ChildEndsInv ==
  ASSUME ShellInv, ChildExit \/ ChildAbort \/ ChildTimeout
  PROVE  ShellInv'
<1>1. /\ child = "running" /\ child' = "exited" /\ owed' = owed /\ taken' = taken
      /\ timed_out' \in {timed_out, TRUE}
      /\ clauses' = clauses /\ session' = session /\ next' = next /\ resolved' = resolved
      /\ pending' = pending /\ results' = results /\ script' = script /\ sent' = sent
      /\ stage' = stage /\ read' = read
      /\ UNCHANGED <<clauses, session, next, resolved, pending, results>>
      /\ \/ stdout' = stdout
         \/ owed = <<>> /\ Len(stdout) < PipeOut /\ stdout' = Append(stdout, "text")
  BY DEF ChildExit, ChildAbort, ChildTimeout, ChildKeeps
<1>2. stage \in {"write", "read"}
  BY <1>1, RunningStage
<1>3. GatesInOrder' /\ VerdictIsRight' /\ ScriptAgrees' /\ Returned'
  BY <1>1, <1>2, TransportKeeps
<1>4. \A j, line : LineIs(j, line) => LineIs(j, line)'
  BY <1>1, LineStays
<1>5. ShellTypeOK'
  <2>1. stdout' \in Seq({"sat", "unsat", "unknown", "text"}) /\ Len(stdout') <= PipeOut
    <3>1. CASE stdout' = stdout
      BY <3>1 DEF ShellInv, ShellTypeOK
    <3>2. CASE Len(stdout) < PipeOut /\ stdout' = Append(stdout, "text")
      <4>1. stdout \in Seq({"sat", "unsat", "unknown", "text"}) /\ Len(stdout) \in Nat
        BY ShellTypes
      <4>2. stdout' \in Seq({"sat", "unsat", "unknown", "text"}) /\ Len(stdout') = Len(stdout) + 1
        BY <3>2, <4>1
      <4> QED
        BY <3>2, <4>1, <4>2, PipesAssumption
    <3> QED
      BY <1>1, <3>1, <3>2
  <2>2. timed_out' \in BOOLEAN
    BY <1>1 DEF ShellInv, ShellTypeOK
  <2> QED
    BY <1>1, <2>1, <2>2 DEF ShellInv, ShellTypeOK
<1>6. OutputInOrder'
  <2>1. CASE stdout' = stdout
    BY <1>1, <1>2, <1>4, <2>1 DEF ShellInv, OutputInOrder
  <2>2. CASE owed = <<>> /\ stdout' = Append(stdout, "text")
    <3>1. /\ Len(read) \in Nat /\ Len(stdout) \in Nat /\ taken \in Nat
          /\ Len(read) + Len(stdout) = 2 * taken
          /\ Len(stdout') = Len(stdout) + 1 /\ stdout'[Len(stdout) + 1] = "text"
          /\ \A j \in 1..Len(stdout) : stdout'[j] = stdout[j]
      BY <1>1, <1>2, <2>2, ShellTypes DEF ShellInv, OutputInOrder
    <3>2. ASSUME NEW j \in 1..Len(stdout'), NEW a, a = Len(read) + j, NEW line, line = stdout'[j]
          PROVE  LineIs(a, line)'
      <4>1. CASE j = Len(stdout) + 1
        <5>1. a = 2 * taken + 1 /\ line = "text"
          BY <3>1, <3>2, <4>1
        <5> QED
          BY <1>1, <5>1 DEF LineIs
      <4>2. CASE j # Len(stdout) + 1
        <5>1. j \in 1..Len(stdout)
          BY <3>1, <4>2
        <5>2. LineIs(a, line)
          BY <1>2, <3>1, <3>2, <5>1 DEF ShellInv, OutputInOrder
        <5> QED
          BY <1>4, <5>2
      <4> QED
        BY <4>1, <4>2
    <3> QED
      BY <1>1, <1>2, <1>4, <3>2 DEF ShellInv, OutputInOrder
  <2> QED
    BY <1>1, <2>1, <2>2
<1>7. NoChildLeftRunning' /\ ReadInOrder'
  BY <1>1, <1>2 DEF NoChildLeftRunning, ReadInOrder
<1> QED
  BY <1>3, <1>5, <1>6, <1>7 DEF ShellInv

\* Every step of the parent and of the solver preserves the invariant.
LEMMA NextShellInv == ShellInv /\ [ShellNext]_shellVars => ShellInv'
<1> SUFFICES ASSUME ShellInv, [ShellNext]_shellVars PROVE ShellInv'
  OBVIOUS
<1>1. CASE Gate
  BY <1>1, GateInv
<1>2. CASE ChooseScript
  BY <1>2, ChooseScriptInv
<1>3. CASE Spawn
  BY <1>3, SpawnInv
<1>4. CASE SpawnFails
  <2>1. UNCHANGED <<clauses, session, next, resolved, pending, script, childvars, read, results>>
    BY <1>4 DEF SpawnFails
  <2> QED
    BY <1>4, <2>1, ParentMoves
<1>5. CASE WriteStdin
  <2>1. UNCHANGED <<clauses, session, next, resolved, pending, script, childvars, read, results>>
    BY <1>5 DEF WriteStdin
  <2> QED
    BY <1>5, <2>1, ParentMoves
<1>6. CASE WriteFails
  <2>1. UNCHANGED <<clauses, session, next, resolved, pending, script, childvars, read, results>>
    BY <1>6 DEF WriteFails
  <2> QED
    BY <1>6, <2>1, ParentMoves
<1>7. CASE CloseStdin
  <2>1. UNCHANGED <<clauses, session, next, resolved, pending, script, childvars, read, results>>
    BY <1>7 DEF CloseStdin
  <2> QED
    BY <1>7, <2>1, ParentMoves
<1>8. CASE ReadStdout
  BY <1>8, ReadStdoutInv
<1>9. CASE ReadPastCap
  BY <1>9, ReadPastCapInv
<1>10. CASE ReadEof
  BY <1>10, ReadEofInv
<1>11. CASE ZipAnswers
  BY <1>11, ZipAnswersInv
<1>12. CASE CountMismatch \/ ScriptError
  <2> DEFINE tags == [n \in DOMAIN pending |-> "unknown"]
  <2>1. stage \in {"parse", "failed"} /\ Give(tags, FALSE)
    BY <1>12 DEF CountMismatch, ScriptError
  <2>2. \A n \in 1..Len(pending) : tags[n] = "unknown"
    BY ShellTypes
  <2> HIDE DEF tags
  <2> QED
    BY <2>1, <2>2, GiveUnknown
<1>13. CASE TakeFirst
  BY <1>13, TakeFirstInv
<1>14. CASE FallBack
  BY <1>14, FallBackInv
<1>15. CASE FallBackUnencodable
  <2> DEFINE tags == <<"unknown">>
  <2>1. stage \in {"parse", "failed"} /\ Single /\ Give(tags, FALSE)
    BY <1>15 DEF FallBackUnencodable
  <2>2. \A n \in 1..Len(pending) : tags[n] = "unknown"
    <3>1. Len(pending) = 1
      BY <2>1, SinglePending
    <3> QED
      BY <3>1
  <2> HIDE DEF tags
  <2> QED
    BY <2>1, <2>2, GiveUnknown
<1>16. CASE Assemble
  BY <1>16, AssembleInv
<1>17. CASE ChildAnswer
  BY <1>17, ChildAnswerInv
<1>18. CASE ChildPrint
  BY <1>18, ChildPrintInv
<1>19. CASE ChildExit \/ ChildAbort \/ ChildTimeout
  BY <1>19, ChildEndsInv
<1>20. CASE UNCHANGED shellVars
  <2>1. /\ clauses' = clauses /\ session' = session /\ next' = next /\ resolved' = resolved
        /\ pending' = pending /\ results' = results /\ script' = script /\ sent' = sent
        /\ stage' = stage /\ read' = read /\ child' = child /\ taken' = taken /\ owed' = owed
        /\ timed_out' = timed_out /\ stdout' = stdout
    BY <1>20 DEF shellVars
  <2>2. \A j, line : LineIs(j, line) => LineIs(j, line)'
    BY <2>1, LineStays
  <2>3. OutputInOrder' /\ ReadInOrder'
    BY <2>1, <2>2 DEF ShellInv, OutputInOrder, ReadInOrder
  <2>4. ShellTypeOK' /\ NoChildLeftRunning' /\ GatesInOrder' /\ Returned'
    BY <2>1 DEF ShellInv, ShellTypeOK, NoChildLeftRunning, GatesInOrder, Returned
  <2>5. VerdictIsRight' /\ ScriptAgrees'
    BY <2>1, RightStays DEF ShellInv, VerdictIsRight, ScriptAgrees
  <2> QED
    BY <2>3, <2>4, <2>5 DEF ShellInv
<1> QED
  BY <1>1, <1>2, <1>3, <1>4, <1>5, <1>6, <1>7, <1>8, <1>9, <1>10, <1>11, <1>12, <1>13, <1>14, <1>15,
     <1>16, <1>17, <1>18, <1>19, <1>20 DEF ShellNext, Parent

\* The shell backend holds its invariant.
LEMMA ShellInvariant == ShellSpec => []ShellInv
<1>1. ShellInit => ShellInv
  BY InitShellInv
<1>2. ShellInv /\ [ShellNext]_shellVars => ShellInv'
  BY NextShellInv
<1> QED
  BY <1>1, <1>2, PTL DEF ShellSpec

-----------------------------------------------------------------------------
(* The theorems about Cvc5Shell.                                           *)

\* The parent's state, the solver's and the two pipes have their types: no
\* pipe holds more than its capacity and no query is answered before it is
\* read.
THEOREM ShellTypeCorrect == ShellSpec => []ShellTypeOK
<1>1. ShellInv => ShellTypeOK
  BY DEF ShellInv
<1> QED
  BY <1>1, ShellInvariant, PTL

\* No verdict of the shell backend is wrong and no wrong verdict enters the
\* session cache, for contracts of any length, pipes and caps of any size,
\* and whatever the solver was interrupted in or rejected.
THEOREM ShellVerdictsAreRight == ShellSpec => []VerdictIsRight
<1>1. ShellInv => VerdictIsRight
  BY DEF ShellInv
<1> QED
  BY <1>1, ShellInvariant, PTL

\* The parent returns one verdict for each clause, in clause order, and each
\* is right: sorting merges the clauses resolved at the gates with those
\* that were answered.
THEOREM ShellAnswersEveryClause == ShellSpec => []OneResultPerClause
<1>1. ShellInv => OneResultPerClause
  <2> SUFFICES ASSUME ShellInv, stage = "done"
               PROVE  Len(results) = Len(clauses) /\ \A i \in DOMAIN clauses : RightTag(i, results[i])
    BY DEF OneResultPerClause
  <2>1. results = [i \in DOMAIN clauses |-> resolved[i]] /\ DOMAIN resolved = DOMAIN clauses
    BY DEF ShellInv, Returned, GatesInOrder
  <2>2. Len(clauses) \in Nat /\ DOMAIN clauses = 1..Len(clauses)
    BY ShellTypes
  <2>3. Len(results) = Len(clauses)
    <3>1. results \in Seq(Tags)
      BY DEF ShellInv, ShellTypeOK
    <3>2. DOMAIN results = 1..Len(clauses)
      BY <2>1, <2>2
    <3> QED
      BY <2>2, <3>1, <3>2
  <2>4. \A i \in DOMAIN clauses : RightTag(i, results[i])
    BY <2>1 DEF ShellInv, VerdictIsRight
  <2> QED
    BY <2>3, <2>4
<1> QED
  BY <1>1, ShellInvariant, PTL

\* Every early return of execute_cvc5 leaves no solver process behind.
THEOREM NoSolverIsLeft == ShellSpec => []NoChildLeftRunning
<1>1. ShellInv => NoChildLeftRunning
  BY DEF ShellInv
<1> QED
  BY <1>1, ShellInvariant, PTL
=============================================================================
