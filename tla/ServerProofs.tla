---------------------------- MODULE ServerProofs ----------------------------
(***************************************************************************)
(* The two servers.  For any number of documents, texts and messages, the  *)
(* language server and the editor settle on the same text, and an answer   *)
(* is about the text the editor had when it asked.  For any number of      *)
(* clients and any channel, a check stream arrives in order and whole.     *)
(*                                                                         *)
(* A message's effect comes long after it is sent, so neither property of  *)
(* the language server is inductive.  The invariant says what the queues   *)
(* will lead to: After follows one document through a queue of messages,   *)
(* Shows through a queue of diagnostics.                                   *)
(***************************************************************************)
EXTENDS LspDocuments, CheckServer, SequenceTheorems, TLAPS

\* What the server keeps for the text t.
StateOf(t) == IF t = None THEN None ELSE State(t)

\* The handler of m changes what the server keeps of d, to this text.
Writes(m, d) ==
  /\ m.doc = d
  /\ m.kind \in {"open", "close"} \/ (m.kind = "change" /\ m.texts # <<>>)
Written(m) == IF m.kind = "close" THEN None ELSE Head(m.texts)

\* Handling the first n messages of q takes document d from state s to state v.
After(q, n, d, s, v) ==
  /\ (\A j \in 1..n : ~Writes(q[j], d)) => v = s
  /\ \A j \in 1..n :
       (Writes(q[j], d) /\ \A l \in (j + 1)..n : ~Writes(q[l], d)) => v = StateOf(Written(q[j]))

\* Receiving the diagnostics o takes what is shown of d from s to v.
Shows(o, d, s, v) ==
  /\ (\A j \in 1..Len(o) : o[j].doc # d) => v = s
  /\ \A j \in 1..Len(o) :
       (o[j].doc = d /\ \A l \in (j + 1)..Len(o) : o[l].doc # d) => v = o[j].diagnostics

\* Nothing is handled: the document stays as it is.
LEMMA AfterNothing ==
  ASSUME NEW q, NEW d, NEW s
  PROVE  After(q, 0, d, s, s)
BY DEF After

\* What comes later in the queue does not matter.
LEMMA AfterPrefix ==
  ASSUME NEW S, NEW q \in Seq(S), NEW m \in S, NEW n \in 0..Len(q), NEW d, NEW s, NEW v,
         After(q, n, d, s, v)
  PROVE  After(Append(q, m), n, d, s, v)
<1>1. \A j \in 1..n : Append(q, m)[j] = q[j]
  BY AppendProperties
<1> QED
  BY <1>1 DEF After

\* One more message.
LEMMA AfterAppend ==
  ASSUME NEW S, NEW q \in Seq(S), NEW m \in S, NEW d, NEW s, NEW v,
         After(q, Len(q), d, s, v)
  PROVE  After(Append(q, m), Len(q) + 1, d, s,
               IF Writes(m, d) THEN StateOf(Written(m)) ELSE v)
<1> DEFINE r == Append(q, m)
           n == Len(q)
<1>1. n \in Nat /\ r[n + 1] = m /\ \A j \in 1..n : r[j] = q[j]
  BY AppendProperties, LenProperties
<1> HIDE DEF r, n
<1>2. After(q, n, d, s, v)
  BY DEF n
<1>3. CASE Writes(m, d)
  BY <1>1, <1>3 DEF After, r, n
<1>4. CASE ~Writes(m, d)
  <2>1. (\A j \in 1..(n + 1) : ~Writes(r[j], d)) => v = s
    BY <1>1, <1>2 DEF After
  <2>2. ASSUME NEW j \in 1..(n + 1), Writes(r[j], d), \A l \in (j + 1)..(n + 1) : ~Writes(r[l], d)
        PROVE  v = StateOf(Written(r[j]))
    <3>1. j \in 1..n /\ r[j] = q[j]
      BY <1>1, <1>4, <2>2
    <3>2. \A l \in (j + 1)..n : ~Writes(q[l], d)
      BY <1>1, <2>2
    <3> QED
      BY <1>2, <2>2, <3>1, <3>2 DEF After
  <2> QED
    BY <1>4, <2>1, <2>2 DEF After, r, n
<1> QED
  BY <1>3, <1>4

\* The first message is handled.
LEMMA AfterTail ==
  ASSUME NEW S, NEW q \in Seq(S), q # <<>>, NEW n \in 1..Len(q), NEW d, NEW s, NEW v,
         After(q, n, d, s, v)
  PROVE  After(Tail(q), n - 1, d, IF Writes(q[1], d) THEN StateOf(Written(q[1])) ELSE s, v)
<1> DEFINE r == Tail(q)
<1>1. /\ Len(q) \in Nat /\ Len(r) = Len(q) - 1
      /\ \A j \in 1..(n - 1) : r[j] = q[j + 1]
  BY HeadTailProperties, LenProperties
<1> HIDE DEF r
<1>2. ASSUME \A j \in 1..(n - 1) : ~Writes(r[j], d)
      PROVE  v = IF Writes(q[1], d) THEN StateOf(Written(q[1])) ELSE s
  <2>1. \A l \in 2..n : ~Writes(q[l], d)
    <3> TAKE l \in 2..n
    <3>1. l - 1 \in 1..(n - 1) /\ r[l - 1] = q[l]
      BY <1>1
    <3> QED
      BY <1>2, <3>1
  <2> QED
    BY <2>1 DEF After
<1>3. ASSUME NEW j \in 1..(n - 1), Writes(r[j], d), \A l \in (j + 1)..(n - 1) : ~Writes(r[l], d)
      PROVE  v = StateOf(Written(r[j]))
  <2>1. \A l \in (j + 2)..n : ~Writes(q[l], d)
    <3> TAKE l \in (j + 2)..n
    <3>1. l - 1 \in (j + 1)..(n - 1) /\ r[l - 1] = q[l]
      BY <1>1
    <3> QED
      BY <1>3, <3>1
  <2>2. j + 1 \in 1..n /\ r[j] = q[j + 1] /\ (j + 1) + 1 = j + 2
    BY <1>1
  <2> QED
    BY <1>3, <2>1, <2>2 DEF After
<1> QED
  BY <1>2, <1>3 DEF After, r

\* One more publication.
LEMMA ShowsAppend ==
  ASSUME NEW S, NEW o \in Seq(S), NEW e \in S, NEW d, NEW s, NEW v, Shows(o, d, s, v)
  PROVE  Shows(Append(o, e), d, s, IF e.doc = d THEN e.diagnostics ELSE v)
<1> DEFINE r == Append(o, e)
           n == Len(o)
<1>1. n \in Nat /\ Len(r) = n + 1 /\ r[n + 1] = e /\ \A j \in 1..n : r[j] = o[j]
  BY AppendProperties, LenProperties
<1> HIDE DEF r, n
<1>2. CASE e.doc = d
  BY <1>1, <1>2 DEF Shows, r
<1>3. CASE e.doc # d
  <2>1. (\A j \in 1..(n + 1) : r[j].doc # d) => v = s
    BY <1>1 DEF Shows, n
  <2>2. ASSUME NEW j \in 1..(n + 1), r[j].doc = d, \A l \in (j + 1)..(n + 1) : r[l].doc # d
        PROVE  v = r[j].diagnostics
    <3>1. j \in 1..n /\ r[j] = o[j]
      BY <1>1, <1>3, <2>2
    <3>2. \A l \in (j + 1)..n : o[l].doc # d
      BY <1>1, <2>2
    <3> QED
      BY <2>2, <3>1, <3>2 DEF Shows, n
  <2> QED
    BY <1>1, <1>3, <2>1, <2>2 DEF Shows, r
<1> QED
  BY <1>2, <1>3

\* The first publication is received.
LEMMA ShowsTail ==
  ASSUME NEW S, NEW o \in Seq(S), o # <<>>, NEW d, NEW s, NEW v, Shows(o, d, s, v)
  PROVE  Shows(Tail(o), d, IF Head(o).doc = d THEN Head(o).diagnostics ELSE s, v)
<1> DEFINE r == Tail(o)
           n == Len(o)
<1>1. /\ n \in Nat /\ n > 0 /\ Len(r) = n - 1 /\ Head(o) = o[1]
      /\ \A j \in 1..(n - 1) : r[j] = o[j + 1]
  BY HeadTailProperties, LenProperties, EmptySeq
<1> HIDE DEF r, n
<1>2. ASSUME \A j \in 1..(n - 1) : r[j].doc # d
      PROVE  v = IF o[1].doc = d THEN o[1].diagnostics ELSE s
  <2>1. \A l \in 2..n : o[l].doc # d
    <3> TAKE l \in 2..n
    <3>1. l - 1 \in 1..(n - 1) /\ r[l - 1] = o[l]
      BY <1>1
    <3> QED
      BY <1>2, <3>1
  <2> QED
    BY <1>1, <2>1 DEF Shows, n
<1>3. ASSUME NEW j \in 1..(n - 1), r[j].doc = d, \A l \in (j + 1)..(n - 1) : r[l].doc # d
      PROVE  v = r[j].diagnostics
  <2>1. \A l \in (j + 2)..n : o[l].doc # d
    <3> TAKE l \in (j + 2)..n
    <3>1. l - 1 \in (j + 1)..(n - 1) /\ r[l - 1] = o[l]
      BY <1>1
    <3> QED
      BY <1>3, <3>1
  <2>2. j + 1 \in 1..n /\ r[j] = o[j + 1] /\ (j + 1) + 1 = j + 2
    BY <1>1
  <2> QED
    BY <1>1, <1>3, <2>1, <2>2 DEF Shows, n
<1> QED
  BY <1>1, <1>2, <1>3 DEF Shows, r

-----------------------------------------------------------------------------
(* The language server: the invariant.                                     *)

\* The messages that are not handled yet, oldest first.
Queue == ready \o stdin

\* The diagnostics of what the server keeps.
DiagnosticsOfState(s) == IF s = None THEN Clean ELSE Diagnose[s.rope]

Kept == {None} \cup {State(t) : t \in Texts}
Publication == [doc : Docs, diagnostics : {Clean} \cup {Diagnose[t] : t \in Texts}]

\* One notification carries one text at most, and an open carries one.
OneText(m) ==
  /\ m.kind = "open" => Len(m.texts) = 1
  /\ m.kind = "change" => Len(m.texts) <= 1

StateType ==
  /\ TypeOK
  /\ parked \in Nat
  /\ documents \in [Docs -> Kept]
  /\ DOMAIN shown = Docs /\ shown = [d \in Docs |-> shown[d]]
  /\ outbox \in Seq(Publication)
  /\ \A i \in 1..Len(Queue) : OneText(Queue[i])

\* Handling all that is sent takes the server to the editor's texts.
QueueLeadsToText ==
  \A d \in Docs : After(Queue, Len(Queue), d, documents[d], StateOf(text[d]))

\* Handling all before a request takes the server to the text of the request.
QueueLeadsToAsked ==
  \A i \in 1..Len(Queue) :
    Queue[i].kind \in Requests =>
      After(Queue, i - 1, Queue[i].doc, documents[Queue[i].doc], StateOf(Queue[i].was))

\* Receiving all that is published shows the diagnostics of what is kept.
OutboxLeadsToShown ==
  \A d \in Docs : Shows(outbox, d, shown[d], DiagnosticsOfState(documents[d]))

IInv ==
  StateType /\ QueueLeadsToText /\ QueueLeadsToAsked /\ OutboxLeadsToShown
  /\ AnswerIsAboutAskedText

\* A kept state is that of a text.
LEMMA KeptStates ==
  /\ \A t \in Texts : State(t) # None /\ State(t).rope = t /\ State(t) \in Kept
  /\ \A t \in Texts \cup {None} : StateOf(t) \in Kept
  /\ \A s \in Kept : s # None => s.rope \in Texts /\ State(s.rope) = s
  /\ \A t \in Texts : DiagnosticsOfState(State(t)) = Diagnose[t]
<1>1. \A t \in Texts : State(t) # None /\ State(t).rope = t /\ State(t) \in Kept
  BY NoneAssumption DEF State, Kept
<1>2. \A t \in Texts \cup {None} : StateOf(t) \in Kept
  BY <1>1 DEF StateOf, Kept
<1>3. \A s \in Kept : s # None => s.rope \in Texts /\ State(s.rope) = s
  BY <1>1 DEF Kept
<1>4. \A t \in Texts : DiagnosticsOfState(State(t)) = Diagnose[t]
  BY <1>1 DEF DiagnosticsOfState
<1> QED
  BY <1>1, <1>2, <1>3, <1>4

\* The fields of a message.
LEMMA MessageFields ==
  ASSUME NEW m \in Message
  PROVE  /\ m.doc \in Docs
         /\ m.kind \in {"open", "save", "close", "change"} \cup Requests
         /\ m.kind \in {"open", "save", "close", "change"} => m.texts \in Seq(Texts)
         /\ m.kind \in Requests => m.was \in Texts \cup {None}
BY DEF Message, Requests

LEMMA QueueType ==
  ASSUME StateType
  PROVE  /\ Queue \in Seq(Message) /\ Len(Queue) \in Nat
         /\ Len(Queue) = Len(ready) + Len(stdin)
         /\ (ready = <<>> /\ stdin = <<>>) => Queue = <<>>
<1>1. ready \in Seq(Message) /\ stdin \in Seq(Message)
  BY DEF StateType, TypeOK
<1>2. Queue \in Seq(Message) /\ Len(Queue) = Len(ready) + Len(stdin)
  BY <1>1, ConcatProperties DEF Queue
<1>3. (ready = <<>> /\ stdin = <<>>) => Queue = <<>>
  BY <1>1, ConcatEmptySeq DEF Queue
<1> QED
  BY <1>1, <1>2, <1>3, LenProperties

\* A message of the editor goes to the end of the queue.
LEMMA QueueGrows ==
  ASSUME StateType, NEW m \in Message, stdin' = Append(stdin, m), ready' = ready
  PROVE  Queue' = Append(Queue, m)
<1>1. ready \in Seq(Message) /\ stdin \in Seq(Message) /\ <<m>> \in Seq(Message)
  BY DEF StateType, TypeOK
<1>2. Append(stdin, m) = stdin \o <<m>> /\ Append(Queue, m) = Queue \o <<m>>
  BY <1>1, QueueType, AppendIsConcat
<1> QED
  BY <1>1, <1>2, ConcatAssociative DEF Queue

\* Taking a message from stdin leaves the queue as it is.
LEMMA QueueKeeps ==
  ASSUME StateType, stdin # <<>>, ready' = Append(ready, Head(stdin)), stdin' = Tail(stdin)
  PROVE  Queue' = Queue
<1>1. ready \in Seq(Message) /\ stdin \in Seq(Message)
  BY DEF StateType, TypeOK
<1>2. Head(stdin) \in Message /\ Tail(stdin) \in Seq(Message) /\ <<Head(stdin)>> \in Seq(Message)
  BY <1>1, HeadTailProperties
<1>3. <<Head(stdin)>> \o Tail(stdin) = stdin
  <2>1. /\ <<Head(stdin)>> \o Tail(stdin) \in Seq(Message)
        /\ Len(<<Head(stdin)>> \o Tail(stdin)) = 1 + Len(Tail(stdin))
        /\ \A i \in 1..(1 + Len(Tail(stdin))) :
             (<<Head(stdin)>> \o Tail(stdin))[i] =
               IF i <= 1 THEN <<Head(stdin)>>[i] ELSE Tail(stdin)[i - 1]
    BY <1>2, ConcatProperties
  <2>2. /\ Len(stdin) \in Nat /\ Len(Tail(stdin)) = Len(stdin) - 1 /\ Head(stdin) = stdin[1]
        /\ \A i \in 1..Len(Tail(stdin)) : Tail(stdin)[i] = stdin[i + 1]
    BY <1>1, HeadTailProperties, LenProperties
  <2>3. \A i \in 1..Len(stdin) : (<<Head(stdin)>> \o Tail(stdin))[i] = stdin[i]
    BY <2>1, <2>2
  <2> QED
    BY <1>1, <2>1, <2>2, <2>3, SeqEqual
<1>4. ready' = ready \o <<Head(stdin)>>
  BY <1>1, <1>2, AppendIsConcat
<1> QED
  BY <1>1, <1>2, <1>3, <1>4, ConcatAssociative DEF Queue

\* Polling a future takes the first message from the queue.
LEMMA QueueShrinks ==
  ASSUME StateType, ready # <<>>, ready' = Tail(ready), stdin' = stdin
  PROVE  Queue # <<>> /\ Queue[1] = Head(ready) /\ Queue' = Tail(Queue) /\ Len(Queue) >= 1
<1>1. ready \in Seq(Message) /\ stdin \in Seq(Message) /\ Len(ready) \in Nat \ {0} /\ Len(stdin) \in Nat
  BY EmptySeq, LenProperties DEF StateType, TypeOK
<1>2. /\ Tail(ready) \in Seq(Message) /\ Len(Tail(ready)) = Len(ready) - 1 /\ Head(ready) = ready[1]
      /\ \A i \in 1..Len(Tail(ready)) : Tail(ready)[i] = ready[i + 1]
  BY <1>1, HeadTailProperties
<1>3. /\ Queue \in Seq(Message) /\ Len(Queue) = Len(ready) + Len(stdin)
      /\ \A i \in 1..(Len(ready) + Len(stdin)) :
           Queue[i] = IF i <= Len(ready) THEN ready[i] ELSE stdin[i - Len(ready)]
  BY <1>1, ConcatProperties DEF Queue
<1>4. /\ Queue' \in Seq(Message) /\ Len(Queue') = (Len(ready) - 1) + Len(stdin)
      /\ \A i \in 1..((Len(ready) - 1) + Len(stdin)) :
           Queue'[i] = IF i <= Len(ready) - 1 THEN Tail(ready)[i] ELSE stdin[i - (Len(ready) - 1)]
  <2>1. Queue' = Tail(ready) \o stdin
    BY DEF Queue
  <2> QED
    BY <1>1, <1>2, <2>1, ConcatProperties
<1>5. Queue # <<>> /\ Queue[1] = Head(ready)
  BY <1>1, <1>2, <1>3, EmptySeq
<1>6. /\ Tail(Queue) \in Seq(Message) /\ Len(Tail(Queue)) = Len(Queue) - 1
      /\ \A i \in 1..Len(Tail(Queue)) : Tail(Queue)[i] = Queue[i + 1]
  BY <1>3, <1>5, HeadTailProperties
<1>7. \A i \in 1..Len(Queue') : Queue'[i] = Tail(Queue)[i]
  <2> TAKE i \in 1..Len(Queue')
  <2>1. i \in 1..Len(Tail(Queue)) /\ Tail(Queue)[i] = Queue[i + 1] /\ i + 1 \in 1..(Len(ready) + Len(stdin))
    BY <1>1, <1>3, <1>4, <1>6
  <2>4. i \in 1..((Len(ready) - 1) + Len(stdin))
    BY <1>4
  <2>2. CASE i <= Len(ready) - 1
    <3>1. i + 1 <= Len(ready) /\ i \in 1..Len(Tail(ready))
      BY <1>1, <1>2, <2>2
    <3> QED
      BY <1>2, <1>3, <1>4, <2>1, <2>2, <2>4, <3>1
  <2>3. CASE ~(i <= Len(ready) - 1)
    <3>1. ~(i + 1 <= Len(ready)) /\ (i + 1) - Len(ready) = i - (Len(ready) - 1)
      BY <1>1, <2>3
    <3> QED
      BY <1>3, <1>4, <2>1, <2>3, <2>4, <3>1
  <2> QED
    BY <2>2, <2>3
<1>8. Queue' = Tail(Queue)
  BY <1>1, <1>3, <1>4, <1>6, <1>7, SeqEqual
<1> QED
  BY <1>1, <1>3, <1>5, <1>8

-----------------------------------------------------------------------------
(* The language server: the steps.                                         *)

\* The invariant holds of the server and the editor at the start.
LEMMA InitIInv == Init => IInv
<1> SUFFICES ASSUME Init PROVE IInv
  OBVIOUS
<1>1. Queue = <<>> /\ Len(Queue) = 0 /\ outbox \in Seq(Publication)
  <2>1. ready = <<>> /\ stdin = <<>> /\ outbox = <<>> /\ <<>> \in Seq(Message)
    BY DEF Init
  <2> QED
    BY <2>1, ConcatEmptySeq DEF Queue
<1>2. StateType
  <2>1. TypeOK
    BY BoundsAssumption DEF Init, TypeOK
  <2> QED
    BY <1>1, <2>1 DEF Init, StateType, Kept
<1>3. QueueLeadsToText
  BY <1>1, AfterNothing DEF Init, QueueLeadsToText, StateOf
<1>4. QueueLeadsToAsked
  BY <1>1 DEF QueueLeadsToAsked
<1>5. OutboxLeadsToShown
  BY DEF Init, OutboxLeadsToShown, Shows, DiagnosticsOfState
<1> QED
  BY <1>2, <1>3, <1>4, <1>5 DEF Init, IInv, AnswerIsAboutAskedText

\* The editor sends m and changes its text accordingly.
LEMMA SendIInv ==
  ASSUME IInv, NEW m \in Message, OneText(m), Sends(m),
         UNCHANGED <<shown, ready, parked, documents, outbox, answers>>,
         text' \in [Docs -> Texts \cup {None}],
         \A d \in Docs : text'[d] = IF Writes(m, d) THEN Written(m) ELSE text[d],
         m.kind \in Requests => m.was = text[m.doc]
  PROVE  IInv'
<1>1. /\ Queue \in Seq(Message) /\ Len(Queue) \in Nat
      /\ Queue' = Append(Queue, m) /\ Len(Queue') = Len(Queue) + 1
      /\ \A i \in 1..Len(Queue) : Queue'[i] = Queue[i]
      /\ Queue'[Len(Queue) + 1] = m
  <2>1. Queue' = Append(Queue, m) /\ Queue \in Seq(Message) /\ Len(Queue) \in Nat
    BY QueueType, QueueGrows DEF IInv, Sends
  <2> QED
    BY <2>1, AppendProperties
<1>2. StateType'
  <2>1. \A i \in 1..(Len(Queue) + 1) : OneText(Queue'[i])
    BY <1>1 DEF IInv, StateType
  <2>2. TypeOK'
    BY AppendProperties, BoundsAssumption DEF IInv, StateType, TypeOK, Sends
  <2> QED
    BY <1>1, <2>1, <2>2 DEF IInv, StateType
<1>3. QueueLeadsToText'
  <2> SUFFICES ASSUME NEW d \in Docs
               PROVE  After(Queue', Len(Queue) + 1, d, documents[d], StateOf(text'[d]))
    BY <1>1 DEF QueueLeadsToText
  <2>1. After(Queue, Len(Queue), d, documents[d], StateOf(text[d]))
    BY DEF IInv, QueueLeadsToText
  <2> QED
    BY <1>1, <2>1, AfterAppend
<1>4. QueueLeadsToAsked'
  <2> SUFFICES ASSUME NEW i \in 1..(Len(Queue) + 1), Queue'[i].kind \in Requests
               PROVE  After(Queue', i - 1, Queue'[i].doc, documents[Queue'[i].doc], StateOf(Queue'[i].was))
    BY <1>1 DEF QueueLeadsToAsked
  <2>1. CASE i \in 1..Len(Queue)
    <3>1. After(Queue, i - 1, Queue[i].doc, documents[Queue[i].doc], StateOf(Queue[i].was))
      BY <1>1, <2>1 DEF IInv, QueueLeadsToAsked
    <3>2. i - 1 \in 0..Len(Queue) /\ Queue'[i] = Queue[i]
      BY <1>1, <2>1
    <3> QED
      BY <1>1, <3>1, <3>2, AfterPrefix
  <2>2. CASE i = Len(Queue) + 1
    <3>1. Queue'[i] = m /\ m.doc \in Docs /\ m.was = text[m.doc] /\ i - 1 = Len(Queue)
      BY <1>1, <2>2, MessageFields
    <3>2. After(Queue, Len(Queue), m.doc, documents[m.doc], StateOf(m.was))
      BY <3>1 DEF IInv, QueueLeadsToText
    <3>3. Len(Queue) \in 0..Len(Queue)
      BY <1>1
    <3> QED
      BY <1>1, <3>1, <3>2, <3>3, AfterPrefix
  <2> QED
    BY <1>1, <2>1, <2>2
<1>5. OutboxLeadsToShown' /\ AnswerIsAboutAskedText'
  BY DEF IInv, OutboxLeadsToShown, AnswerIsAboutAskedText
<1> QED
  BY <1>2, <1>3, <1>4, <1>5 DEF IInv

\* The handler of the oldest future does to the documents what its message
\* says; what else it does is not about the queue.
LEMMA PollLeads ==
  ASSUME IInv, ready # <<>>, ready' = Tail(ready), UNCHANGED editor,
         \A d \in Docs : documents'[d] = IF Writes(Head(ready), d) THEN StateOf(Written(Head(ready)))
                                         ELSE documents[d]
  PROVE  /\ Head(ready) \in Message /\ Head(ready).doc \in Docs /\ OneText(Head(ready))
         /\ \A i \in 1..Len(Queue') : OneText(Queue'[i])
         /\ QueueLeadsToText' /\ QueueLeadsToAsked'
<1>1. /\ Queue \in Seq(Message) /\ Len(Queue) \in Nat \ {0} /\ Queue # <<>>
      /\ Queue[1] = Head(ready) /\ Queue' = Tail(Queue)
  BY QueueType, QueueShrinks DEF IInv, editor
<1>2. /\ Tail(Queue) \in Seq(Message) /\ Len(Queue') = Len(Queue) - 1
      /\ \A i \in 1..(Len(Queue) - 1) : Queue'[i] = Queue[i + 1] /\ i + 1 \in 1..Len(Queue)
  BY <1>1, HeadTailProperties
<1>3. \A i \in 1..Len(Queue) : Queue[i] \in Message /\ OneText(Queue[i])
  BY <1>1, ElementOfSeq DEF IInv, StateType
<1>4. Head(ready) \in Message /\ Head(ready).doc \in Docs /\ OneText(Head(ready))
  BY <1>1, <1>3, MessageFields
<1>5. QueueLeadsToText'
  <2> SUFFICES ASSUME NEW d \in Docs
               PROVE  After(Queue', Len(Queue) - 1, d, documents'[d], StateOf(text[d]))
    BY <1>2 DEF QueueLeadsToText, editor
  <2>1. After(Queue, Len(Queue), d, documents[d], StateOf(text[d])) /\ Len(Queue) \in 1..Len(Queue)
    BY <1>1 DEF IInv, QueueLeadsToText
  <2> QED
    BY <1>1, <2>1, AfterTail
<1>6. QueueLeadsToAsked'
  <2> SUFFICES ASSUME NEW i \in 1..(Len(Queue) - 1), Queue'[i].kind \in Requests
               PROVE  After(Queue', i - 1, Queue'[i].doc, documents'[Queue'[i].doc], StateOf(Queue'[i].was))
    BY <1>2 DEF QueueLeadsToAsked
  <2>1. Queue'[i] = Queue[i + 1] /\ i + 1 \in 1..Len(Queue) /\ Queue[i + 1].doc \in Docs
    BY <1>2, <1>3, MessageFields
  <2>2. After(Queue, (i + 1) - 1, Queue[i + 1].doc, documents[Queue[i + 1].doc], StateOf(Queue[i + 1].was))
    BY <2>1 DEF IInv, QueueLeadsToAsked
  <2>3. (i + 1) - 1 = i /\ i \in 1..Len(Queue)
    BY <1>1
  <2>4. After(Queue, i, Queue[i + 1].doc, documents[Queue[i + 1].doc], StateOf(Queue[i + 1].was))
    BY <2>2, <2>3
  <2> QED
    BY <1>1, <2>1, <2>3, <2>4, AfterTail
<1> QED
  BY <1>2, <1>3, <1>4, <1>5, <1>6

\* A handler that stores a state and publishes its diagnostics.
LEMMA HandleIInv ==
  ASSUME IInv, ready # <<>>, ready' = Tail(ready), UNCHANGED <<editor, answers>>,
         NEW s \in Kept, NEW diagnostics,
         documents' = [documents EXCEPT ![Head(ready).doc] = s],
         Publish(Head(ready).doc, diagnostics), parked' = parked + 1,
         diagnostics = DiagnosticsOfState(s),
         s = IF Writes(Head(ready), Head(ready).doc) THEN StateOf(Written(Head(ready)))
             ELSE documents[Head(ready).doc]
  PROVE  IInv'
<1> DEFINE m == Head(ready)
           e == [doc |-> m.doc, diagnostics |-> diagnostics]
<1>1. m \in Message /\ m.doc \in Docs
  BY HeadTailProperties, MessageFields DEF IInv, StateType, TypeOK
<1>2. \A d \in Docs : documents'[d] = IF Writes(m, d) THEN StateOf(Written(m)) ELSE documents[d]
  BY <1>1 DEF IInv, StateType, Writes
<1>3. (\A i \in 1..Len(Queue') : OneText(Queue'[i])) /\ QueueLeadsToText' /\ QueueLeadsToAsked'
  BY <1>2, PollLeads DEF editor
<1>4. e \in Publication /\ e.doc = m.doc /\ e.diagnostics = diagnostics
  BY <1>1, KeptStates DEF Publication, DiagnosticsOfState
<1>5. outbox' = Append(outbox, e)
  BY DEF Publish
<1> HIDE DEF e
<1>6. outbox' \in Seq(Publication)
  BY <1>4, <1>5, AppendProperties DEF IInv, StateType
<1>7. documents' \in [Docs -> Kept]
  BY <1>1 DEF IInv, StateType
<1>8. TypeOK'
  <2>1. \A d \in Docs : documents'[d] = None \/ \E t \in Texts : documents'[d] = State(t)
    BY <1>7 DEF Kept
  <2>2. Tail(ready) \in Seq(Message) /\ Len(Tail(ready)) = Len(ready) - 1 /\ Len(ready) \in Nat
    BY HeadTailProperties, LenProperties DEF IInv, StateType, TypeOK
  <2> QED
    BY <2>1, <2>2, BoundsAssumption DEF IInv, StateType, TypeOK, editor
<1>9. StateType'
  BY <1>3, <1>6, <1>7, <1>8 DEF IInv, StateType, editor
<1>10. OutboxLeadsToShown'
  <2> SUFFICES ASSUME NEW d \in Docs
               PROVE  Shows(outbox', d, shown[d], DiagnosticsOfState(documents'[d]))
    BY DEF OutboxLeadsToShown, editor
  <2>1. Shows(outbox, d, shown[d], DiagnosticsOfState(documents[d])) /\ outbox \in Seq(Publication)
    BY DEF IInv, OutboxLeadsToShown, StateType
  <2>2. DiagnosticsOfState(documents'[d]) =
          IF e.doc = d THEN e.diagnostics ELSE DiagnosticsOfState(documents[d])
    BY <1>1, <1>4 DEF IInv, StateType
  <2> QED
    BY <1>4, <1>5, <2>1, <2>2, ShowsAppend
<1> QED
  BY <1>3, <1>9, <1>10 DEF IInv, AnswerIsAboutAskedText

\* A handler that does nothing, because its message changes nothing.
LEMMA IgnoreIInv ==
  ASSUME IInv, ready # <<>>, ready' = Tail(ready), UNCHANGED <<editor, documents, outbox, parked>>,
         ~Writes(Head(ready), Head(ready).doc), AnswerIsAboutAskedText'
  PROVE  IInv'
<1>1. \A d \in Docs : documents'[d] = IF Writes(Head(ready), d) THEN StateOf(Written(Head(ready)))
                                      ELSE documents[d]
  BY DEF Writes
<1>2. (\A i \in 1..Len(Queue') : OneText(Queue'[i])) /\ QueueLeadsToText' /\ QueueLeadsToAsked'
  BY <1>1, PollLeads DEF editor
<1>3. Tail(ready) \in Seq(Message) /\ Len(Tail(ready)) = Len(ready) - 1 /\ Len(ready) \in Nat
  BY HeadTailProperties, LenProperties DEF IInv, StateType, TypeOK
<1>4. TypeOK'
  BY <1>3, BoundsAssumption DEF IInv, StateType, TypeOK, editor
<1>5. StateType'
  BY <1>2, <1>4 DEF IInv, StateType, editor
<1>6. OutboxLeadsToShown'
  BY DEF IInv, OutboxLeadsToShown, editor
<1> QED
  BY <1>2, <1>5, <1>6 DEF IInv

\* A step of the editor that sends.
LEMMA EditIInv ==
  ASSUME MaxChanges <= 1, IInv, Edit
  PROVE  IInv'
<1> USE DEF Sends, Notify
<1>1. PICK d \in Docs :
        \/ \E t \in Texts : Open(d, t)
        \/ \E texts \in Contents : Change(d, texts)
        \/ Save(d) \/ Close(d)
        \/ \E kind \in Requests : Ask(kind, d)
  BY DEF Edit
<1>2. text \in [Docs -> Texts \cup {None}] /\ sent \in Nat
  BY BoundsAssumption DEF IInv, StateType, TypeOK
<1>3. ASSUME NEW t \in Texts, Open(d, t) PROVE IInv'
  <2> DEFINE m == [kind |-> "open", doc |-> d, texts |-> <<t>>]
  <2>1. m \in Message /\ OneText(m) /\ Sends(m) /\ ~(m.kind \in Requests)
    BY <1>3 DEF Message, OneText, Open, Requests
  <2>2. \A c \in Docs : text'[c] = IF Writes(m, c) THEN Written(m) ELSE text[c]
    BY <1>2, <1>3 DEF Open, Writes, Written
  <2>3. text' \in [Docs -> Texts \cup {None}]
    BY <1>2, <1>3 DEF Open
  <2> HIDE DEF m
  <2> QED
    BY <1>3, <2>1, <2>2, <2>3, SendIInv DEF Open
<1>4. ASSUME NEW texts \in Contents, Change(d, texts) PROVE IInv'
  <2> DEFINE m == [kind |-> "change", doc |-> d, texts |-> texts]
  <2>1. texts \in Seq(Texts) /\ Len(texts) \in {0, 1} /\ Len(texts) <= 1
    <3>1. PICK n \in 0..MaxChanges : texts \in [1..n -> Texts]
      BY DEF Contents
    <3>2. n \in {0, 1} /\ n \in Nat
      BY BoundsAssumption
    <3>3. texts \in Seq(Texts) /\ Len(texts) = n
      BY <3>1, <3>2
    <3> QED
      BY <3>2, <3>3
  <2>2. m \in Message /\ OneText(m) /\ Sends(m) /\ ~(m.kind \in Requests)
    <3>1. m \in Message /\ m.kind = "change" /\ m.texts = texts
      BY <2>1 DEF Message
    <3>2. Sends(m)
      BY <1>4 DEF Change
    <3> HIDE DEF m
    <3>3. Len(m.texts) <= 1
      BY <2>1, <3>1, Zenon
    <3>4. m.kind # "open"
      BY <3>1
    <3>5. ~(m.kind \in Requests)
      BY <3>1 DEF Requests
    <3> QED
      BY <3>1, <3>2, <3>3, <3>4, <3>5, Zenon DEF OneText
  <2>3. \A c \in Docs : text'[c] = IF Writes(m, c) THEN Written(m) ELSE text[c]
    <3>1. CASE texts = <<>>
      BY <1>2, <1>4, <3>1 DEF Change, Writes, Written
    <3>2. CASE texts # <<>>
      <4>1. texts[Len(texts)] = Head(texts)
        BY <2>1, <3>2, EmptySeq
      <4> QED
        BY <1>2, <1>4, <3>2, <4>1 DEF Change, Writes, Written
    <3> QED
      BY <3>1, <3>2
  <2>4. text' \in [Docs -> Texts \cup {None}]
    BY <1>2, <1>4, <2>1, EmptySeq DEF Change
  <2> HIDE DEF m
  <2> QED
    BY <1>4, <2>2, <2>3, <2>4, SendIInv DEF Change
<1>5. ASSUME Save(d) PROVE IInv'
  <2> DEFINE m == [kind |-> "save", doc |-> d, texts |-> <<>>]
  <2>1. m \in Message /\ OneText(m) /\ Sends(m) /\ ~(m.kind \in Requests)
    BY <1>5 DEF Message, OneText, Save, Requests
  <2>2. \A c \in Docs : text'[c] = IF Writes(m, c) THEN Written(m) ELSE text[c]
    BY <1>2, <1>5 DEF Save, Writes, Written
  <2> HIDE DEF m
  <2> QED
    BY <1>2, <1>5, <2>1, <2>2, SendIInv DEF Save
<1>6. ASSUME Close(d) PROVE IInv'
  <2> DEFINE m == [kind |-> "close", doc |-> d, texts |-> <<>>]
  <2>1. m \in Message /\ OneText(m) /\ Sends(m) /\ ~(m.kind \in Requests)
    BY <1>6 DEF Message, OneText, Close, Requests
  <2>2. \A c \in Docs : text'[c] = IF Writes(m, c) THEN Written(m) ELSE text[c]
    BY <1>2, <1>6 DEF Close, Writes, Written
  <2>3. text' \in [Docs -> Texts \cup {None}]
    BY <1>2, <1>6 DEF Close
  <2> HIDE DEF m
  <2> QED
    BY <1>6, <2>1, <2>2, <2>3, SendIInv DEF Close
<1>7. ASSUME NEW kind \in Requests, Ask(kind, d) PROVE IInv'
  <2> DEFINE m == [kind |-> kind, doc |-> d, was |-> text[d], id |-> sent]
  <2>1. m \in Message /\ OneText(m) /\ Sends(m) /\ m.was = text[m.doc]
    BY <1>2, <1>7 DEF Message, OneText, Ask, Requests
  <2>2. \A c \in Docs : text'[c] = IF Writes(m, c) THEN Written(m) ELSE text[c]
    BY <1>2, <1>7 DEF Ask, Writes, Written, Requests
  <2> HIDE DEF m
  <2> QED
    BY <1>2, <1>7, <2>1, <2>2, SendIInv DEF Ask
<1> QED
  BY <1>1, <1>3, <1>4, <1>5, <1>6, <1>7

\* The first poll of a future runs a handler.
LEMMA PollIInv ==
  ASSUME IInv, Poll
  PROVE  IInv'
<1> DEFINE m == Head(ready)
<1>1. /\ ready # <<>> /\ ready' = Tail(ready) /\ UNCHANGED editor
      /\ \/ (did_open(m) \/ did_change(m) \/ did_save(m) \/ did_close(m)) /\ UNCHANGED answers
         \/ Request(m)
  BY DEF Poll
<1>2. m \in Message /\ OneText(m) /\ Queue[1] = m /\ Len(Queue) \in Nat \ {0}
  <2>1. Queue[1] = m /\ Len(Queue) \in Nat \ {0}
    BY <1>1, QueueType, QueueShrinks DEF IInv, editor
  <2> QED
    BY <1>1, <2>1, HeadTailProperties DEF IInv, StateType, TypeOK
<1>3. /\ m.doc \in Docs
      /\ m.kind \in {"open", "save", "close", "change"} => m.texts \in Seq(Texts)
      /\ m.kind \in Requests => m.was \in Texts \cup {None}
  BY <1>2, MessageFields
<1>4. documents[m.doc] \in Kept
  BY <1>3 DEF IInv, StateType
<1> HIDE DEF m
<1>5. ASSUME m.kind \in {"open", "change"}, m.texts # <<>>, UNCHANGED answers,
             analyze_document(m.doc, Head(m.texts))
      PROVE  IInv'
  <2>1. Head(m.texts) \in Texts
    BY <1>3, <1>5, HeadTailProperties
  <2>2. /\ State(Head(m.texts)) \in Kept /\ State(Head(m.texts)) = StateOf(Written(m))
        /\ Diagnose[Head(m.texts)] = DiagnosticsOfState(State(Head(m.texts)))
    BY <1>5, <2>1, KeptStates, NoneAssumption DEF StateOf, Written
  <2>3. Writes(m, m.doc)
    BY <1>5 DEF Writes
  <2> QED
    BY <1>1, <1>5, <2>2, <2>3, HandleIInv DEF m, analyze_document, Stored
<1>6. CASE did_open(m) /\ UNCHANGED answers
  <2>1. m.kind = "open" /\ m.texts # <<>>
    BY <1>2, <1>6, EmptySeq DEF did_open, OneText
  <2> QED
    BY <1>5, <1>6, <2>1 DEF did_open
<1>7. ASSUME ~Writes(m, m.doc), Ignore, UNCHANGED answers PROVE IInv'
  BY <1>1, <1>7, IgnoreIInv DEF m, Ignore, IInv, AnswerIsAboutAskedText
<1>8. CASE did_change(m) /\ UNCHANGED answers
  <2>1. m.kind = "change"
    BY <1>8 DEF did_change
  <2>2. CASE m.texts # <<>>
    BY <1>5, <1>8, <2>1, <2>2 DEF did_change
  <2>3. CASE m.texts = <<>>
    BY <1>7, <1>8, <2>1, <2>3 DEF did_change, Writes
  <2> QED
    BY <2>2, <2>3
<1>9. CASE did_save(m) /\ UNCHANGED answers
  <2>1. m.kind = "save" /\ ~Writes(m, m.doc)
    BY <1>9 DEF did_save, Writes
  <2>2. CASE documents[m.doc] = None
    BY <1>7, <1>9, <2>1, <2>2 DEF did_save
  <2>3. CASE documents[m.doc] # None
    <3>1. documents[m.doc].rope \in Texts /\ State(documents[m.doc].rope) = documents[m.doc]
      BY <1>4, <2>3, KeptStates
    <3>2. Diagnose[documents[m.doc].rope] = DiagnosticsOfState(documents[m.doc])
      BY <2>3 DEF DiagnosticsOfState
    <3> QED
      BY <1>1, <1>4, <1>9, <2>1, <2>3, <3>1, <3>2, HandleIInv DEF m, did_save, analyze_document, Stored
  <2> QED
    BY <2>2, <2>3
<1>10. CASE did_close(m) /\ UNCHANGED answers
  <2>1. Writes(m, m.doc) /\ StateOf(Written(m)) = None /\ None \in Kept
    BY <1>10 DEF did_close, Writes, Written, StateOf, Kept
  <2>2. Clean = DiagnosticsOfState(None)
    BY DEF DiagnosticsOfState
  <2> QED
    BY <1>1, <1>10, <2>1, <2>2, HandleIInv DEF m, did_close
<1>11. CASE Request(m)
  <2>1. m.kind \in Requests /\ ~Writes(m, m.doc)
    BY <1>11 DEF Request, Writes, Requests
  <2>2. documents[m.doc] = StateOf(m.was)
    <3>1. After(Queue, 1 - 1, m.doc, documents[m.doc], StateOf(m.was))
      BY <1>2, <2>1 DEF IInv, QueueLeadsToAsked
    <3> QED
      BY <3>1 DEF After
  <2>3. AnswerIsAboutAskedText'
    BY <1>11, <2>2 DEF Request, IInv, AnswerIsAboutAskedText, StateOf
  <2> QED
    BY <1>1, <1>11, <2>1, <2>3, IgnoreIInv DEF m, Request
<1> QED
  BY <1>1, <1>6, <1>8, <1>9, <1>10, <1>11

\* Every step of the editor, the library and the handlers keeps the invariant.
LEMMA NextIInv ==
  ASSUME MaxChanges <= 1, IInv, [Next]_vars
  PROVE  IInv'
<1>1. CASE Edit
  BY <1>1, EditIInv
<1>2. CASE Take
  <2>1. Queue' = Queue
    BY <1>2, QueueKeeps DEF Take, IInv
  <2>2. TypeOK'
    <3>1. /\ ready \in Seq(Message) /\ stdin \in Seq(Message) /\ stdin # <<>>
          /\ Len(ready) \in Nat /\ parked \in Nat /\ Len(ready) + parked < Concurrency
      BY <1>2, LenProperties DEF Take, IInv, StateType, TypeOK
    <3>2. /\ ready' \in Seq(Message) /\ stdin' \in Seq(Message) /\ Len(ready') = Len(ready) + 1
      BY <1>2, <3>1, HeadTailProperties, AppendProperties DEF Take
    <3> QED
      BY <1>2, <3>1, <3>2, BoundsAssumption DEF Take, IInv, StateType, TypeOK
  <2>3. StateType'
    BY <1>2, <2>1, <2>2 DEF Take, IInv, StateType
  <2> QED
    BY <1>2, <2>1, <2>3
    DEF Take, IInv, QueueLeadsToText, QueueLeadsToAsked, OutboxLeadsToShown, AnswerIsAboutAskedText
<1>3. CASE Poll
  BY <1>3, PollIInv
<1>4. CASE Unpark
  <2>1. Queue' = Queue
    BY <1>4 DEF Unpark, editor, Queue
  <2>2. StateType'
    BY <1>4, <2>1, LenProperties, BoundsAssumption DEF Unpark, editor, IInv, StateType, TypeOK
  <2> QED
    BY <1>4, <2>1, <2>2
    DEF Unpark, editor, IInv, QueueLeadsToText, QueueLeadsToAsked, OutboxLeadsToShown, AnswerIsAboutAskedText
<1>5. CASE ReceiveDiagnostics
  <2>1. Queue' = Queue
    BY <1>5 DEF ReceiveDiagnostics, Queue
  <2>2. /\ outbox \in Seq(Publication) /\ outbox # <<>>
        /\ outbox' = Tail(outbox) /\ outbox' \in Seq(Publication)
    BY <1>5, HeadTailProperties DEF ReceiveDiagnostics, IInv, StateType
  <2>3. StateType'
    BY <1>5, <2>1, <2>2 DEF ReceiveDiagnostics, IInv, StateType, TypeOK
  <2>4. \A d \in Docs : shown'[d] = IF Head(outbox).doc = d THEN Head(outbox).diagnostics ELSE shown[d]
    BY <1>5 DEF ReceiveDiagnostics, IInv, StateType
  <2>5. OutboxLeadsToShown'
    <3> SUFFICES ASSUME NEW d \in Docs
                 PROVE  Shows(Tail(outbox), d, shown'[d], DiagnosticsOfState(documents[d]))
      BY <1>5, <2>2 DEF OutboxLeadsToShown, ReceiveDiagnostics
    <3>1. Shows(outbox, d, shown[d], DiagnosticsOfState(documents[d]))
      BY DEF IInv, OutboxLeadsToShown
    <3> QED
      BY <2>2, <2>4, <3>1, ShowsTail
  <2> QED
    BY <1>5, <2>1, <2>3, <2>5
    DEF ReceiveDiagnostics, IInv, QueueLeadsToText, QueueLeadsToAsked, AnswerIsAboutAskedText
<1>6. CASE ReceiveAnswer
  <2>1. Queue' = Queue
    BY <1>6 DEF ReceiveAnswer, editor, Queue
  <2>2. StateType'
    BY <1>6, <2>1 DEF ReceiveAnswer, editor, IInv, StateType, TypeOK
  <2> QED
    BY <1>6, <2>1, <2>2
    DEF ReceiveAnswer, editor, IInv, QueueLeadsToText, QueueLeadsToAsked, OutboxLeadsToShown, AnswerIsAboutAskedText
<1>7. CASE UNCHANGED vars
  <2>1. Queue' = Queue
    BY <1>7 DEF vars, Queue
  <2>2. StateType'
    BY <1>7, <2>1 DEF vars, IInv, StateType, TypeOK
  <2> QED
    BY <1>7, <2>1, <2>2
    DEF vars, IInv, QueueLeadsToText, QueueLeadsToAsked, OutboxLeadsToShown, AnswerIsAboutAskedText
<1> QED
  BY <1>1, <1>2, <1>3, <1>4, <1>5, <1>6, <1>7 DEF Next

-----------------------------------------------------------------------------
(* The language server: the theorems.  did_change reads the first of the   *)
(* content changes, so the two sides agree if the editor sends one at a    *)
(* time, as it may when the server asks for full texts.                    *)

\* The invariant holds of every behaviour of an editor that sends one text at
\* a time.
LEMMA AlwaysIInv ==
  ASSUME MaxChanges <= 1
  PROVE  Spec => []IInv
<1>1. IInv /\ [Next]_vars => IInv'
  BY NextIInv
<1> QED
  BY InitIInv, <1>1, PTL DEF Spec

\* The queues of stdin and of the futures hold messages, the documents are
\* those of texts, and no more futures than the library allows are in progress.
THEOREM DocumentsTyped ==
  ASSUME MaxChanges <= 1
  PROVE  Spec => []TypeOK
<1>1. IInv => TypeOK
  BY DEF IInv, StateType
<1> QED
  BY AlwaysIInv, <1>1, PTL

\* When all messages are handled and all diagnostics received, the server
\* keeps the editor's texts and the editor shows their diagnostics.
THEOREM ServerSettlesOnEditor ==
  ASSUME MaxChanges <= 1
  PROVE  Spec => []SettledIsLatest
<1>1. IInv => SettledIsLatest
  <2> SUFFICES ASSUME IInv, stdin = <<>>, ready = <<>>, outbox = <<>>, NEW d \in Docs
               PROVE  /\ documents[d] = StateOf(text[d])
                      /\ shown[d] = DiagnosticsOf(text[d])
    BY DEF SettledIsLatest, StateOf
  <2>1. Queue = <<>> /\ Len(Queue) = 0
    BY QueueType DEF IInv
  <2>2. documents[d] = StateOf(text[d])
    BY <2>1 DEF IInv, QueueLeadsToText, After
  <2>3. shown[d] = DiagnosticsOfState(documents[d])
    BY DEF IInv, OutboxLeadsToShown, Shows
  <2>4. text[d] \in Texts \cup {None}
    BY DEF IInv, StateType, TypeOK
  <2> QED
    BY <2>2, <2>3, <2>4, KeptStates DEF StateOf, DiagnosticsOf, DiagnosticsOfState
<1> QED
  BY AlwaysIInv, <1>1, PTL

\* An answer is about the text the editor had when it asked.
THEOREM AnswersAreTimely ==
  ASSUME MaxChanges <= 1
  PROVE  Spec => []AnswerIsAboutAskedText
<1>1. IInv => AnswerIsAboutAskedText
  BY DEF IInv
<1> QED
  BY AlwaysIInv, <1>1, PTL

-----------------------------------------------------------------------------
(* The check server.  The channel and the client are per request, and what *)
(* the other clients do does not matter; the invariant says, of one client *)
(* of a stream, where its events are.                                      *)

IsStream(c) == req[c].kind = "stream"
StreamEvents(c) == Events(result[c])
EventsOf(c) == {StreamEvents(c)[i] : i \in Nat}

\* Until its results are there nothing is sent; then got and chan hold the
\* events sent so far, in order, unless the client is gone and its channel empty.
StreamState(c) ==
  /\ handed[c] \in Nat
  /\ task[c] \notin {"sending", "ended"} => handed[c] = 0 /\ got[c] = <<>> /\ chan[c] = <<>>
  /\ got[c] \in Seq(EventsOf(c)) /\ chan[c] \in Seq(EventsOf(c))
  /\ client[c] = "idle" => task[c] = "none"
  /\ client[c] = "gone" => chan[c] = <<>>
  /\ client[c] # "gone" =>
       /\ Len(got[c]) + Len(chan[c]) = handed[c]
       /\ \A i \in 1..Len(got[c]) : got[c][i] = StreamEvents(c)[i]
       /\ \A i \in 1..Len(chan[c]) : chan[c][i] = StreamEvents(c)[Len(got[c]) + i]
  /\ task[c] = "ended" => handed[c] = Len(StreamEvents(c))
  /\ client[c] = "done" => task[c] = "ended" /\ chan[c] = <<>>

\* Every client has its own entry in each variable of the server.
PerClient ==
  /\ DOMAIN task = Clients /\ DOMAIN result = Clients /\ DOMAIN handed = Clients
  /\ DOMAIN chan = Clients /\ DOMAIN got = Clients /\ DOMAIN client = Clients

StreamInv == PerClient /\ \A c \in Clients : IsStream(c) => StreamState(c)

\* At the start nothing is sent.
LEMMA InitStreamInv == ServerInit => StreamInv
<1> SUFFICES ASSUME ServerInit PROVE StreamInv
  OBVIOUS
<1>1. PerClient
  BY DEF ServerInit, PerClient
<1>2. ASSUME NEW c \in Clients PROVE StreamState(c)
  <2>1. /\ task[c] = "none" /\ handed[c] = 0 /\ chan[c] = <<>> /\ got[c] = <<>> /\ client[c] = "idle"
    BY DEF ServerInit
  <2> QED
    BY <2>1 DEF StreamState
<1> QED
  BY <1>1, <1>2 DEF StreamInv

\* A step for another client leaves the stream of c alone.
LEMMA OthersKeep ==
  ASSUME NEW c, StreamState(c),
         task'[c] = task[c], result'[c] = result[c], handed'[c] = handed[c], chan'[c] = chan[c],
         got'[c] = got[c], client'[c] = client[c]
  PROVE  StreamState(c)'
<1>1. UNCHANGED <<StreamEvents(c), EventsOf(c)>>
  BY DEF StreamEvents, EventsOf
<1> QED
  BY <1>1 DEF StreamState

\* A step for the client of a stream.
LEMMA OwnStep ==
  ASSUME PerClient, NEW c \in Clients, IsStream(c), StreamState(c),
         \/ Call(c) \/ Serve(c) \/ Receive(c)
         \/ EndOfStream(c) \/ Stall(c) \/ Disconnect(c)
  PROVE  StreamState(c)'
<1> USE DEF PerClient
<1>1. CASE Call(c)
  <2>1. /\ client'[c] = "reading" /\ client[c] = "idle" /\ task'[c] = "ready"
        /\ UNCHANGED <<result, handed, chan, got, StreamEvents(c), EventsOf(c)>>
    BY <1>1 DEF Call, StreamEvents, EventsOf
  <2>2. handed[c] = 0 /\ got[c] = <<>> /\ chan[c] = <<>>
    BY <2>1 DEF StreamState
  <2> QED
    BY <2>1, <2>2 DEF StreamState
<1>2. CASE Start(c)
  BY <1>2 DEF Start, StreamState, StreamEvents, EventsOf
<1>3. CASE Respond(c)
  BY <1>3 DEF Respond, IsStream
<1>4. CASE Computed(c)
  <2>1. /\ task[c] = "running" /\ task'[c] = "sending" /\ UNCHANGED <<handed, chan, got, client>>
        /\ handed[c] = 0 /\ got[c] = <<>> /\ chan[c] = <<>> /\ client[c] # "done"
    BY <1>4 DEF Computed, StreamState
  <2> QED
    BY <2>1 DEF StreamState
<1>5. CASE Send(c)
  <2> DEFINE e == StreamEvents(c)[handed[c] + 1]
  <2>1. /\ task[c] = "sending" /\ handed'[c] = handed[c] + 1 /\ UNCHANGED <<result, got, client>>
        /\ task'[c] = IF handed[c] + 1 = Len(StreamEvents(c)) THEN "ended" ELSE "sending"
        /\ chan'[c] = IF client[c] = "gone" THEN chan[c] ELSE Append(chan[c], e)
    BY <1>5 DEF Send, StreamEvents
  <2>2. UNCHANGED <<StreamEvents(c), EventsOf(c)>>
    BY <2>1 DEF StreamEvents, EventsOf
  <2>3. e \in EventsOf(c)
    <3>1. handed[c] + 1 \in Nat
      BY DEF StreamState
    <3> QED
      BY <3>1 DEF EventsOf
  <2> HIDE DEF e
  <2>4. CASE client[c] = "gone"
    BY <2>1, <2>2, <2>4 DEF StreamState
  <2>5. CASE client[c] # "gone"
    <3>1. /\ chan[c] \in Seq(EventsOf(c)) /\ got[c] \in Seq(EventsOf(c))
          /\ Len(chan[c]) \in Nat /\ Len(got[c]) \in Nat
          /\ Len(got[c]) + Len(chan[c]) = handed[c]
      BY <2>5, LenProperties DEF StreamState
    <3>2. /\ chan'[c] \in Seq(EventsOf(c)) /\ Len(chan'[c]) = Len(chan[c]) + 1
          /\ \A i \in 1..Len(chan[c]) : chan'[c][i] = chan[c][i]
          /\ chan'[c][Len(chan[c]) + 1] = e
      BY <2>1, <2>3, <2>5, <3>1, AppendProperties
    <3>3. \A i \in 1..Len(chan'[c]) : chan'[c][i] = StreamEvents(c)[Len(got[c]) + i]
      <4> TAKE i \in 1..Len(chan'[c])
      <4>1. CASE i \in 1..Len(chan[c])
        BY <2>5, <3>2, <4>1 DEF StreamState
      <4>2. CASE i = Len(chan[c]) + 1
        <5>1. Len(got[c]) + i = handed[c] + 1
          BY <3>1, <4>2
        <5> QED
          BY <3>2, <4>2, <5>1 DEF e
      <4> QED
        BY <3>1, <3>2, <4>1, <4>2
    <3>4. task'[c] = "ended" => handed'[c] = Len(StreamEvents(c))
      BY <2>1
    <3>5. client[c] # "done" /\ task'[c] \in {"sending", "ended"} /\ handed'[c] \in Nat
      BY <2>1 DEF StreamState
    <3> QED
      BY <2>1, <2>2, <2>5, <3>1, <3>2, <3>3, <3>4, <3>5 DEF StreamState
  <2> QED
    BY <2>4, <2>5
<1>6. CASE Receive(c)
  <2>1. /\ client[c] = "reading" /\ chan[c] # <<>> /\ UNCHANGED <<task, result, handed, client>>
        /\ got'[c] = Append(got[c], Head(chan[c])) /\ chan'[c] = Tail(chan[c])
    BY <1>6 DEF Receive
  <2>2. UNCHANGED <<StreamEvents(c), EventsOf(c)>>
    BY <2>1 DEF StreamEvents, EventsOf
  <2>3. /\ chan[c] \in Seq(EventsOf(c)) /\ got[c] \in Seq(EventsOf(c))
        /\ Len(chan[c]) \in Nat \ {0} /\ Len(got[c]) \in Nat
        /\ Len(got[c]) + Len(chan[c]) = handed[c]
    BY <2>1, LenProperties, EmptySeq DEF StreamState
  <2>4. /\ chan'[c] \in Seq(EventsOf(c)) /\ Len(chan'[c]) = Len(chan[c]) - 1
        /\ Head(chan[c]) = chan[c][1] /\ Head(chan[c]) \in EventsOf(c)
        /\ \A i \in 1..Len(chan'[c]) : chan'[c][i] = chan[c][i + 1]
    BY <2>1, <2>3, HeadTailProperties
  <2>5. /\ got'[c] \in Seq(EventsOf(c)) /\ Len(got'[c]) = Len(got[c]) + 1
        /\ \A i \in 1..Len(got[c]) : got'[c][i] = got[c][i]
        /\ got'[c][Len(got[c]) + 1] = chan[c][1]
    BY <2>1, <2>3, <2>4, AppendProperties
  <2>6. chan[c][1] = StreamEvents(c)[Len(got[c]) + 1]
    BY <2>1, <2>3 DEF StreamState
  <2>7. \A i \in 1..Len(got'[c]) : got'[c][i] = StreamEvents(c)[i]
    BY <2>1, <2>3, <2>5, <2>6 DEF StreamState
  <2>8. \A i \in 1..Len(chan'[c]) : chan'[c][i] = StreamEvents(c)[Len(got'[c]) + i]
    <3> TAKE i \in 1..Len(chan'[c])
    <3>1. i + 1 \in 1..Len(chan[c]) /\ Len(got[c]) + (i + 1) = Len(got'[c]) + i
      BY <2>3, <2>4, <2>5
    <3>2. chan[c][i + 1] = StreamEvents(c)[Len(got[c]) + (i + 1)]
      BY <2>1, <3>1 DEF StreamState
    <3> QED
      BY <2>4, <3>1, <3>2
  <2>9. task[c] \in {"sending", "ended"}
    BY <2>1 DEF StreamState
  <2> QED
    BY <2>1, <2>2, <2>3, <2>4, <2>5, <2>7, <2>8, <2>9 DEF StreamState
<1>7. CASE EndOfStream(c)
  BY <1>7 DEF EndOfStream, StreamState, StreamEvents, EventsOf
<1>8. CASE Stall(c)
  BY <1>8 DEF Stall, StreamState, StreamEvents, EventsOf
<1>9. CASE Disconnect(c)
  BY <1>9 DEF Disconnect, StreamState, StreamEvents, EventsOf
<1> QED
  BY <1>1, <1>2, <1>3, <1>4, <1>5, <1>6, <1>7, <1>8, <1>9 DEF Serve

\* Every step of the server keeps the invariant.
LEMMA NextStreamInv ==
  ASSUME StreamInv, [ServerNext]_serverVars
  PROVE  StreamInv'
<1>1. CASE UNCHANGED serverVars
  BY <1>1, OthersKeep DEF serverVars, StreamInv, PerClient, IsStream
<1>2. ASSUME NEW c \in Clients,
             \/ Call(c) \/ Serve(c) \/ Receive(c)
             \/ EndOfStream(c) \/ Stall(c) \/ Disconnect(c)
      PROVE  StreamInv'
  <2> USE DEF Serve, Call, Start, Respond, Computed, Send,
              Receive, EndOfStream, Stall, Disconnect
  <2>1. UNCHANGED req
    BY <1>2
  <2>2. PerClient'
    BY <1>2 DEF StreamInv, PerClient
  <2>3. ASSUME NEW d \in Clients, d # c
        PROVE  /\ task'[d] = task[d] /\ result'[d] = result[d] /\ handed'[d] = handed[d]
               /\ chan'[d] = chan[d] /\ got'[d] = got[d] /\ client'[d] = client[d]
    BY <1>2, <2>3 DEF StreamInv, PerClient
  <2>4. ASSUME NEW d \in Clients, IsStream(d)' PROVE StreamState(d)'
    <3>1. IsStream(d) /\ StreamState(d)
      BY <2>1, <2>4 DEF StreamInv, IsStream
    <3>2. CASE d = c
      BY <1>2, <3>1, <3>2, OwnStep DEF StreamInv
    <3>3. CASE d # c
      BY <2>3, <3>1, <3>3, OthersKeep
    <3> QED
      BY <3>2, <3>3
  <2> QED
    BY <2>2, <2>4 DEF StreamInv
<1> QED
  BY <1>1, <1>2 DEF ServerNext

LEMMA AlwaysStreamInv == ServerSpec => []StreamInv
<1>1. StreamInv /\ [ServerNext]_serverVars => StreamInv'
  BY NextStreamInv
<1> QED
  BY InitStreamInv, <1>1, PTL DEF ServerSpec

\* Two sequences that hold the first n elements of e between them.
LEMMA JoinedIsPrefix ==
  ASSUME NEW e, NEW n \in Nat, NEW S, NEW a \in Seq(S), NEW b \in Seq(S), Len(a) + Len(b) = n,
         \A i \in 1..Len(a) : a[i] = e[i],
         \A i \in 1..Len(b) : b[i] = e[Len(a) + i]
  PROVE  a \o b = SubSeq(e, 1, n)
<1>1. Len(a) \in Nat /\ Len(b) \in Nat
  BY LenProperties
<1>2. /\ a \o b \in Seq(S) /\ Len(a \o b) = n
      /\ \A i \in 1..n : (a \o b)[i] = IF i <= Len(a) THEN a[i] ELSE b[i - Len(a)]
  BY <1>1, ConcatProperties
<1>3. \A i \in 1..n : (a \o b)[i] = e[i]
  <2> TAKE i \in 1..n
  <2>1. CASE i <= Len(a)
    BY <1>1, <1>2, <2>1
  <2>2. CASE ~(i <= Len(a))
    <3>1. i - Len(a) \in 1..Len(b) /\ Len(a) + (i - Len(a)) = i
      BY <1>1, <2>2
    <3> QED
      BY <1>2, <2>2, <3>1
  <2> QED
    BY <2>1, <2>2
<1>4. SubSeq(e, 1, n) = [i \in 1..n |-> e[i]]
  OBVIOUS
<1>5. a \o b \in [1..n -> S]
  BY <1>2, LenProperties
<1> QED
  BY <1>3, <1>4, <1>5

\* What a client received and what waits for it are the events sent so far.
LEMMA InOrder ==
  ASSUME NEW c, StreamState(c), client[c] # "gone"
  PROVE  got[c] \o chan[c] = SubSeq(StreamEvents(c), 1, handed[c])
<1> DEFINE e == StreamEvents(c)
           n == handed[c]
           a == got[c]
           b == chan[c]
           S == EventsOf(c)
<1>1. /\ n \in Nat /\ a \in Seq(S) /\ b \in Seq(S) /\ Len(a) + Len(b) = n
      /\ \A i \in 1..Len(a) : a[i] = e[i]
      /\ \A i \in 1..Len(b) : b[i] = e[Len(a) + i]
  BY DEF StreamState
<1> HIDE DEF e, n, a, b, S
<1>2. a \o b = SubSeq(e, 1, n)
  BY <1>1, JoinedIsPrefix
<1> QED
  BY <1>2 DEF e, n, a, b

\* What a client of a stream received, and then what waits in its channel, is
\* the beginning of the events of its result.
THEOREM StreamsArriveInOrder == ServerSpec => []StreamInOrder
<1>1. StreamInv => StreamInOrder
  BY InOrder DEF StreamInv, IsStream, StreamEvents, StreamInOrder
<1> QED
  BY AlwaysStreamInv, <1>1, PTL

\* A client that saw the end of its stream has every event, in order.
EndedStreamIsWhole ==
  \A c \in Clients :
    (IsStream(c) /\ client[c] = "done") =>
      got[c] = SubSeq(StreamEvents(c), 1, Len(StreamEvents(c)))

\* The end of a stream is not reached before the last of its events.
THEOREM StreamsArriveWhole == ServerSpec => []EndedStreamIsWhole
<1>1. StreamInv => EndedStreamIsWhole
  <2> SUFFICES ASSUME NEW c \in Clients, StreamState(c), client[c] = "done"
               PROVE  got[c] = SubSeq(StreamEvents(c), 1, Len(StreamEvents(c)))
    BY DEF StreamInv, EndedStreamIsWhole
  <2>1. handed[c] = Len(StreamEvents(c)) /\ chan[c] = <<>> /\ got[c] \in Seq(EventsOf(c))
    BY DEF StreamState
  <2>2. got[c] \o chan[c] = got[c]
    BY <2>1, ConcatEmptySeq
  <2> QED
    BY <2>1, <2>2, InOrder
<1> QED
  BY AlwaysStreamInv, <1>1, PTL
=============================================================================
