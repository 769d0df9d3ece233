-------------------------- MODULE WatchLoopProofs ---------------------------
(***************************************************************************)
(* For every set of contents and any number of saves: the watch loop never *)
(* sleeps through an announced save, and its hash is never newer than the  *)
(* content it checked.                                                     *)
(*                                                                         *)
(* NoLostWakeup speaks of the sleeping loop only; EventCoversSave says for *)
(* every state where an announced save still is: raised, queued, about to  *)
(* be read, or in the hash.                                                *)
(***************************************************************************)
EXTENDS WatchLoop, TLAPS

\* The watcher exists exactly in the event loop.
WatcherInLoop == watching <=> pc \in {"recv", "drain", "hash", "check", "checking"}

\* An announced save has an event left, is about to be read, or is hashed.
EventCoversSave ==
  announced => \/ os > 0
               \/ queue > 0
               \/ pc \in {"drain", "hash"}
               \/ last_hash.hash = content_hash(file)

\* Between hash and check the module is not clean; elsewhere the last check
\* read the file no earlier than the last hash did.
HashThenCheck ==
  IF pc \in {"check_first", "check"} THEN module # "clean"
  ELSE checked.at >= last_hash.at

\* Nothing is registered before the first hash.
AbsentAtStart == pc \in {"start", "hash_first"} => module = "absent"

IInv == TypeOK /\ WatcherInLoop /\ EventCoversSave /\ HashThenCheck /\ AbsentAtStart

\* A read returns the hash of the content, or the empty one, and the time.
LEMMA ReadHashType ==
  ASSUME TypeOK
  PROVE  ReadHash \in [hash : Contents \cup {NoHash}, at : 0..time]
BY MaxSavesAssumption DEF TypeOK, ReadHash, content_hash, NoHash

\* The initial states satisfy the invariant.
LEMMA InitIInv == Init => IInv
<1> SUFFICES ASSUME Init PROVE IInv
  OBVIOUS
<1>1. last_hash \in [hash : Contents \cup {NoHash}, at : 0..time]
  BY DEF Init
<1>2. checked \in [content : Contents \cup {Unreadable}, at : 0..time]
  BY DEF Init
<1>3. announced \in BOOLEAN /\ watching \in BOOLEAN /\ ~announced /\ ~watching
  BY DEF Init
<1>4. TypeOK
  BY <1>1, <1>2, <1>3, MaxSavesAssumption DEF Init, TypeOK
<1>5. WatcherInLoop /\ EventCoversSave /\ AbsentAtStart
  BY DEF Init, WatcherInLoop, EventCoversSave, AbsentAtStart
<1>6. HashThenCheck
  BY DEF Init, HashThenCheck
<1> QED
  BY <1>4, <1>5, <1>6 DEF IInv

\* Every step preserves the invariant.
LEMMA NextIInv == IInv /\ [Next]_vars => IInv'
<1> SUFFICES ASSUME IInv, [Next]_vars PROVE IInv'
  OBVIOUS
<1> USE MaxSavesAssumption DEF IInv, WatcherInLoop, EventCoversSave, HashThenCheck, AbsentAtStart, content_hash, NoHash
<1>1. CASE Canonicalize
  BY <1>1 DEF Canonicalize, TypeOK
<1>2. CASE HashFirst
  <2>1. TypeOK'
    BY <1>2, ReadHashType DEF HashFirst, TypeOK, register_module
  <2>2. WatcherInLoop' /\ EventCoversSave' /\ AbsentAtStart'
    BY <1>2 DEF HashFirst, TypeOK
  <2>3. HashThenCheck'
    <3>1. module' # "clean"
      <4>1. CASE file = Unreadable
        BY <1>2, <4>1 DEF HashFirst, TypeOK
      <4>2. CASE file # Unreadable
        BY <1>2, <4>2 DEF HashFirst, register_module
      <4> QED
        BY <4>1, <4>2
    <3> QED
      BY <1>2, <3>1 DEF HashFirst
  <2> QED
    BY <2>1, <2>2, <2>3
<1>3. CASE CheckRead
  <2>1. TypeOK'
    BY <1>3 DEF CheckRead, TypeOK
  <2>2. WatcherInLoop' /\ EventCoversSave' /\ AbsentAtStart'
    BY <1>3 DEF CheckRead
  <2>3. HashThenCheck'
    BY <1>3 DEF CheckRead, TypeOK
  <2> QED
    BY <2>1, <2>2, <2>3
<1>4. CASE CheckDone
  <2>1. TypeOK'
    BY <1>4 DEF CheckDone, TypeOK, mark_checked
  <2>2. WatcherInLoop' /\ EventCoversSave' /\ HashThenCheck' /\ AbsentAtStart'
    BY <1>4 DEF CheckDone, TypeOK
  <2> QED
    BY <2>1, <2>2
<1>5. CASE CreateWatcher
  <2>1. watching' \in BOOLEAN /\ (watching' <=> pc' = "recv") /\ pc' \in {"recv", "exited"}
    <3>1. CASE watching' = TRUE /\ pc' = "recv"
      BY <3>1
    <3>2. CASE pc' = "exited" /\ UNCHANGED watching
      BY <1>5, <3>2 DEF CreateWatcher, TypeOK
    <3> QED
      BY <1>5, <3>1, <3>2 DEF CreateWatcher
  <2>2. TypeOK'
    BY <1>5, <2>1 DEF CreateWatcher, TypeOK
  <2>3. WatcherInLoop' /\ EventCoversSave' /\ HashThenCheck' /\ AbsentAtStart'
    BY <1>5, <2>1 DEF CreateWatcher, TypeOK
  <2> QED
    BY <2>2, <2>3
<1>6. CASE Recv
  BY <1>6 DEF Recv, TypeOK
<1>7. CASE Drain
  BY <1>7 DEF Drain, TypeOK
<1>8. CASE DrainTimesOut
  BY <1>8 DEF DrainTimesOut, TypeOK
<1>9. CASE SkipUnchanged
  BY <1>9 DEF SkipUnchanged, IsUnchanged, ReadHash, TypeOK
<1>10. CASE NoteChange
  <2>1. TypeOK'
    BY <1>10, ReadHashType DEF NoteChange, TypeOK, mark_changed
  <2>2. WatcherInLoop' /\ EventCoversSave' /\ AbsentAtStart'
    BY <1>10 DEF NoteChange, ReadHash
  <2>3. HashThenCheck'
    BY <1>10 DEF NoteChange, mark_changed
  <2> QED
    BY <2>1, <2>2, <2>3
<1>11. CASE Deliver
  BY <1>11 DEF Deliver, TypeOK
<1>12. ASSUME NEW c \in Contents \cup {Unreadable}, Save(c) PROVE IInv'
  <2>1. TypeOK'
    <3>1. time' \in 0..MaxSaves /\ file' \in Contents \cup {Unreadable} /\ os' \in Nat
      BY <1>12 DEF Save, TypeOK
    <3>2. announced' \in BOOLEAN /\ (~watching' => os' = 0 /\ queue' = 0 /\ ~announced')
      BY <1>12 DEF Save, TypeOK
    <3>3. 0..time \subseteq 0..(time')
      BY <1>12 DEF Save, TypeOK
    <3>4. /\ last_hash' \in [hash : Contents \cup {NoHash}, at : 0..(time')]
          /\ checked' \in [content : Contents \cup {Unreadable}, at : 0..(time')]
      BY <1>12, <3>3 DEF Save, TypeOK
    <3> QED
      BY <1>12, <3>1, <3>2, <3>4 DEF Save, TypeOK
  <2>2. WatcherInLoop' /\ EventCoversSave' /\ HashThenCheck' /\ AbsentAtStart'
    BY <1>12 DEF Save, TypeOK
  <2> QED
    BY <2>1, <2>2
<1>13. CASE UNCHANGED vars
  BY <1>13 DEF vars, TypeOK, content_hash
<1> QED
  BY <1>1, <1>2, <1>3, <1>4, <1>5, <1>6, <1>7, <1>8, <1>9, <1>10, <1>11, <1>12, <1>13
  DEF Next, Loop

\* Every reachable state of the watch loop is well typed.
THEOREM TypeCorrect == Spec => []TypeOK
<1>1. IInv => TypeOK
  BY DEF IInv
<1> QED
  BY <1>1, InitIInv, NextIInv, PTL DEF Spec

\* When run_watch_loop waits with no event on its way, its hash is that of the
\* last announced save.
THEOREM NeverSleepsThroughASave == Spec => []NoLostWakeup
<1>1. IInv => NoLostWakeup
  BY DEF IInv, TypeOK, EventCoversSave, NoLostWakeup
<1> QED
  BY <1>1, InitIInv, NextIInv, PTL DEF Spec

\* A clean module, and a waiting loop, was checked on a read no older than the
\* one its hash comes from.
THEOREM ChecksFollowHashes == Spec => []CheckFollowsHash
<1>1. IInv => CheckFollowsHash
  BY DEF IInv, HashThenCheck, CheckFollowsHash
<1> QED
  BY <1>1, InitIInv, NextIInv, PTL DEF Spec
=============================================================================
