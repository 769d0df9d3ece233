---------------------------- MODULE LspDocuments ----------------------------
(***************************************************************************)
(* assura-lsp: the documents an editor has open, the analysis the server   *)
(* keeps of each, the diagnostics it publishes and the requests it answers *)
(* from what it keeps.                                                     *)
(*                                                                         *)
(* The editor does not wait: notifications and requests queue up on stdin, *)
(* and diagnostics and answers on stdout, while it goes on.  The protocol  *)
(* library turns a message into a future, keeps a few of them in progress, *)
(* and polls new ones in the order of arrival, all on one thread.  A       *)
(* handler runs to the await of its last statement in its first poll; a    *)
(* notification handler may then stay in progress until its diagnostics    *)
(* are written.  Neither the store nor the diagnostics carry a version.    *)
(***************************************************************************)
EXTENDS Naturals, Sequences, FiniteSets

CONSTANTS
  Docs,         \* URIs
  Texts,        \* texts of documents
  Stage,        \* Stage[t]: how far compile gets with t
  Diagnose,     \* Diagnose[t]: the diagnostics compile gives for t
  Clean,        \* no diagnostics
  None,         \* no document, no answer
  Concurrency,  \* futures in progress at once (4 in the library)
  MaxChanges,   \* bound: content changes of one notification
  MaxMessages   \* bound: messages of the editor

ASSUME StageAssumption == Stage \in [Texts -> {"no_ast", "ast", "resolved"}]
ASSUME DiagnoseAssumption == DOMAIN Diagnose = Texts
ASSUME NoneAssumption ==
  None \notin Texts /\ \A t \in Texts : None # [rope |-> t, stage |-> Stage[t]]
ASSUME BoundsAssumption ==
  Concurrency \in Nat \ {0} /\ MaxChanges \in Nat /\ MaxMessages \in Nat

VARIABLES
  text,       \* the editor: text of each document, None if it is closed
  shown,      \* the editor: diagnostics it shows
  stdin,      \* messages of the editor the library has not taken yet
  ready,      \* futures to be polled for the first time
  parked,     \* notification handlers that wait for their diagnostics to be written
  documents,  \* the server's map: DocumentState, or None
  outbox,     \* diagnostics not received yet
  answers,    \* answers not received yet, in no order
  sent        \* messages of the editor so far

vars == <<text, shown, stdin, ready, parked, documents, outbox, answers, sent>>
editor == <<text, shown, stdin, sent>>

Requests == {"definition", "rename", "symbols", "completion", "format"}

\* The history field "was" of a request is the editor's text when it asked.
Message ==
       [kind : {"open", "save", "close"}, doc : Docs, texts : Seq(Texts)]
  \cup [kind : {"change"}, doc : Docs, texts : Seq(Texts)]
  \cup [kind : Requests, doc : Docs, was : Texts \cup {None}, id : Nat]

-----------------------------------------------------------------------------
(* The handlers.                                                           *)

\* DocumentState as far as requests look at it.
State(t) == [rope |-> t, stage |-> Stage[t]]

\* Mutant: a text without AST does not replace the last one that had one.
MutantStored(d, t) ==
  IF Stage[t] = "no_ast" /\ documents[d] # None THEN documents[d] ELSE State(t)

\* What analyze_document keeps for text t, whatever became of it.
Stored(d, t) == State(t)

Publish(d, diagnostics) == outbox' = Append(outbox, [doc |-> d, diagnostics |-> diagnostics])

analyze_document(d, t) ==
  /\ documents' = [documents EXCEPT ![d] = Stored(d, t)]
  /\ Publish(d, Diagnose[t])
  /\ parked' = parked + 1

Ignore == UNCHANGED <<documents, outbox, parked>>

did_open(m) == m.kind = "open" /\ analyze_document(m.doc, Head(m.texts))

\* The first content change is the text; none is no change.
did_change(m) ==
  /\ m.kind = "change"
  /\ IF m.texts # <<>> THEN analyze_document(m.doc, Head(m.texts)) ELSE Ignore

\* The text is the stored one; a document that is not there stays away.
did_save(m) ==
  /\ m.kind = "save"
  /\ IF documents[m.doc] # None THEN analyze_document(m.doc, documents[m.doc].rope) ELSE Ignore

\* Mutant: the diagnostics of a closed document are left in the editor.
MutantDidClose(m) ==
  /\ m.kind = "close"
  /\ documents' = [documents EXCEPT ![m.doc] = None]
  /\ UNCHANGED <<outbox, parked>>

did_close(m) ==
  /\ m.kind = "close"
  /\ documents' = [documents EXCEPT ![m.doc] = None]
  /\ Publish(m.doc, Clean)
  /\ parked' = parked + 1

\* What the requests are answered from state s: the text the answer is about,
\* whatever there is at the position, or None without looking.
\* goto_definition and hover need the resolved file.
goto_definition(s) == IF s = None \/ s.stage # "resolved" THEN None ELSE s.rope

\* references and rename do too.  A rename to what is no identifier gets
\* invalid_params before the state is looked at; it is no request of the model.
rename(s) == IF s = None \/ s.stage # "resolved" THEN None ELSE s.rope

\* Document symbols are those of the AST.
document_symbol(s) == IF s = None \/ s.stage = "no_ast" THEN None ELSE s.rope

\* Keywords and effects are offered for any text, symbols if it is resolved.
completion(s) == IF s = None THEN None ELSE s.rope

\* One edit of the whole text.
formatting(s) == IF s = None THEN None ELSE s.rope

Answer(kind, s) ==
  CASE kind = "definition" -> goto_definition(s)
    [] kind = "rename"     -> rename(s)
    [] kind = "symbols"    -> document_symbol(s)
    [] kind = "completion" -> completion(s)
    [] kind = "format"     -> formatting(s)

\* A request handler clones the state and answers in its first poll.
Request(m) ==
  /\ m.kind \in Requests
  /\ answers' = answers \cup {[request |-> m, answer |-> Answer(m.kind, documents[m.doc])]}
  /\ UNCHANGED <<documents, outbox, parked>>

-----------------------------------------------------------------------------
(* The protocol library.                                                   *)

Take ==
  /\ stdin # <<>>
  /\ Len(ready) + parked < Concurrency
  /\ ready' = Append(ready, Head(stdin))
  /\ stdin' = Tail(stdin)
  /\ UNCHANGED <<text, shown, sent, parked, documents, outbox, answers>>

\* The first poll of the oldest future; it goes to the end of a handler, or to
\* the await of the diagnostics it has put in the outbox.
Poll ==
  /\ ready # <<>>
  /\ ready' = Tail(ready)
  /\ LET m == Head(ready) IN
       \/ (did_open(m) \/ did_change(m) \/ did_save(m) \/ did_close(m)) /\ UNCHANGED answers
       \/ Request(m)
  /\ UNCHANGED editor

\* A notification handler is told that the outbox has room again.
Unpark ==
  /\ parked > 0
  /\ parked' = parked - 1
  /\ UNCHANGED <<editor, ready, documents, outbox, answers>>

-----------------------------------------------------------------------------
(* The editor.                                                             *)

Sends(m) == sent < MaxMessages /\ sent' = sent + 1 /\ stdin' = Append(stdin, m)

Notify(kind, d, texts) == Sends([kind |-> kind, doc |-> d, texts |-> texts])

Open(d, t) ==
  /\ text[d] = None
  /\ Notify("open", d, <<t>>)
  /\ text' = [text EXCEPT ![d] = t]
  /\ UNCHANGED <<shown, ready, parked, documents, outbox, answers>>

\* Full sync: each content change is a whole text, and they apply in order.
Change(d, texts) ==
  /\ text[d] # None
  /\ Notify("change", d, texts)
  /\ text' = [text EXCEPT ![d] = IF texts = <<>> THEN @ ELSE texts[Len(texts)]]
  /\ UNCHANGED <<shown, ready, parked, documents, outbox, answers>>

Save(d) ==
  /\ text[d] # None
  /\ Notify("save", d, <<>>)
  /\ UNCHANGED <<text, shown, ready, parked, documents, outbox, answers>>

Close(d) ==
  /\ text[d] # None
  /\ Notify("close", d, <<>>)
  /\ text' = [text EXCEPT ![d] = None]
  /\ UNCHANGED <<shown, ready, parked, documents, outbox, answers>>

Ask(kind, d) ==
  /\ Sends([kind |-> kind, doc |-> d, was |-> text[d], id |-> sent])
  /\ UNCHANGED <<text, shown, ready, parked, documents, outbox, answers>>

ReceiveDiagnostics ==
  /\ outbox # <<>>
  /\ outbox' = Tail(outbox)
  /\ shown' = [shown EXCEPT ![Head(outbox).doc] = Head(outbox).diagnostics]
  /\ UNCHANGED <<text, stdin, sent, ready, parked, documents, answers>>

ReceiveAnswer ==
  /\ \E a \in answers : answers' = answers \ {a}
  /\ UNCHANGED <<editor, ready, parked, documents, outbox>>

Contents == UNION {[1..n -> Texts] : n \in 0..MaxChanges}

Init ==
  /\ text = [d \in Docs |-> None]
  /\ shown = [d \in Docs |-> Clean]
  /\ stdin = <<>> /\ ready = <<>> /\ parked = 0
  /\ documents = [d \in Docs |-> None]
  /\ outbox = <<>> /\ answers = {}
  /\ sent = 0

Edit ==
  \E d \in Docs :
    \/ \E t \in Texts : Open(d, t)
    \/ \E texts \in Contents : Change(d, texts)
    \/ Save(d) \/ Close(d)
    \/ \E kind \in Requests : Ask(kind, d)

Next == Edit \/ Take \/ Poll \/ Unpark \/ ReceiveDiagnostics \/ ReceiveAnswer

Spec == Init /\ [][Next]_vars

-----------------------------------------------------------------------------
(* Properties.                                                             *)

\* Every variable has its type; no more futures than allowed are in progress.
TypeOK ==
  /\ text \in [Docs -> Texts \cup {None}]
  /\ \A d \in Docs : documents[d] = None \/ \E t \in Texts : documents[d] = State(t)
  /\ stdin \in Seq(Message) /\ ready \in Seq(Message)
  /\ Len(ready) + parked <= Concurrency
  /\ sent \in 0..MaxMessages

DiagnosticsOf(t) == IF t = None THEN Clean ELSE Diagnose[t]

\* When everything the editor sent is handled and everything the server wrote
\* is received, the server keeps the editor's texts, the editor shows the
\* diagnostics of those texts, and a closed document is closed on both sides.
SettledIsLatest ==
  (stdin = <<>> /\ ready = <<>> /\ outbox = <<>>) =>
    \A d \in Docs :
      /\ documents[d] = IF text[d] = None THEN None ELSE State(text[d])
      /\ shown[d] = DiagnosticsOf(text[d])

\* An answer is about the text the editor had when it asked: no notification
\* before the request is missing from it, and none after it has slipped in.
AnswerIsAboutAskedText ==
  \A a \in answers :
    a.answer = Answer(a.request.kind, IF a.request.was = None THEN None ELSE State(a.request.was))
=============================================================================
