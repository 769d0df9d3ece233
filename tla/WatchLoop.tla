----------------------------- MODULE WatchLoop ------------------------------
(***************************************************************************)
(* `assura check --watch`: run_watch_loop checks a file once, then sleeps  *)
(* on a channel that the notify callback feeds, drains the events of a     *)
(* burst, hashes the file and checks it again unless the hash is the last  *)
(* one.  The hash and the check read the file separately, the first check  *)
(* runs before the watcher exists, and the user saves at any time.         *)
(*                                                                         *)
(* The events are those of the file's directory, so one may come without a *)
(* change of the file (a save without edits, a neighbour).  A content that *)
(* cannot be read (missing file, not UTF-8) is Unreadable; it has NoHash.  *)
(***************************************************************************)
EXTENDS Naturals

CONSTANTS
  Contents,     \* readable contents of the file
  Unreadable,   \* the file cannot be read
  MaxSaves      \* bound: saves and other events in one behaviour

ASSUME ContentsAssumption == Unreadable \notin Contents /\ "empty" \notin Contents
ASSUME MaxSavesAssumption == MaxSaves \in Nat

\* The empty string that unwrap_or_default and String::new give.
NoHash == "empty"

VARIABLES
  file,       \* what a read of the file returns now
  time,       \* history: saves so far
  announced,  \* history: an event was raised for the file's content, or after it
  watching,   \* the watcher exists
  os,         \* events raised and not handed to the callback yet
  queue,      \* messages in the mpsc channel
  pc,         \* the loop
  last_hash,  \* the variable, and the time of the read it comes from
  checked,    \* what the last check read, and when
  module      \* the file in the IncrementalCompiler: "absent", "dirty" or "clean"

vars == <<file, time, announced, watching, os, queue, pc, last_hash, checked, module>>

\* content_hash (taken to be injective), and unwrap_or_default.
content_hash(c) == IF c = Unreadable THEN NoHash ELSE c

ReadHash == [hash |-> content_hash(file), at |-> time]

-----------------------------------------------------------------------------
(* The incremental compiler; nothing depends on the only module.           *)

register_module == "dirty"

\* Mutant: only the dependents of the module are marked.
MutantMarkChanged(m) == m

mark_changed(m) == IF m = "absent" THEN m ELSE "dirty"
mark_checked(m) == IF m = "absent" THEN m ELSE "clean"

-----------------------------------------------------------------------------
Init ==
  /\ file \in Contents \cup {Unreadable}
  /\ time = 0
  /\ announced = FALSE
  /\ watching = FALSE
  /\ os = 0
  /\ queue = 0
  /\ pc = "start"
  /\ last_hash = [hash |-> NoHash, at |-> 0]
  /\ checked = [content |-> Unreadable, at |-> 0]
  /\ module = "absent"

\* canonicalize: process::exit(2) if it fails.  It may succeed on a file that
\* is there and cannot be read.
Canonicalize ==
  /\ pc = "start"
  /\ \/ pc' = "hash_first"
     \/ file = Unreadable /\ pc' = "exited"
  /\ UNCHANGED <<file, time, announced, watching, os, queue, last_hash, checked, module>>

HashFirst ==
  /\ pc = "hash_first"
  /\ pc' = "check_first"
  /\ IF file = Unreadable THEN UNCHANGED <<last_hash, module>>
     ELSE last_hash' = ReadHash /\ module' = register_module
  /\ UNCHANGED <<file, time, announced, watching, os, queue, checked>>

\* check_file_once reads the file again ...
CheckRead ==
  /\ \/ pc = "check_first" /\ pc' = "checking_first"
     \/ pc = "check" /\ pc' = "checking"
  /\ checked' = [content |-> file, at |-> time]
  /\ UNCHANGED <<file, time, announced, watching, os, queue, last_hash, module>>

\* Mutant: events that came during the check are taken for its own.
MutantCheckDone ==
  /\ \/ pc = "checking_first" /\ pc' = "create_watcher"
     \/ pc = "checking" /\ pc' = "recv"
  /\ module' = mark_checked(module)
  /\ queue' = 0
  /\ UNCHANGED <<file, time, announced, watching, os, last_hash, checked>>

\* ... and takes its time; then the module is marked.
CheckDone ==
  /\ \/ pc = "checking_first" /\ pc' = "create_watcher"
     \/ pc = "checking" /\ pc' = "recv"
  /\ module' = mark_checked(module)
  /\ UNCHANGED <<file, time, announced, watching, os, queue, last_hash, checked>>

\* recommended_watcher and watch, or process::exit(2).
CreateWatcher ==
  /\ pc = "create_watcher"
  /\ \/ watching' = TRUE /\ pc' = "recv"
     \/ pc' = "exited" /\ UNCHANGED watching
  /\ UNCHANGED <<file, time, announced, os, queue, last_hash, checked, module>>

\* Mutant: a loop that does not wait for an event.
MutantRecv ==
  /\ pc = "recv"
  /\ queue' = queue - 1
  /\ pc' = "drain"
  /\ UNCHANGED <<file, time, announced, watching, os, last_hash, checked, module>>

\* rx.recv()
Recv ==
  /\ pc = "recv"
  /\ queue > 0
  /\ queue' = queue - 1
  /\ pc' = "drain"
  /\ UNCHANGED <<file, time, announced, watching, os, last_hash, checked, module>>

\* recv_timeout(100ms) gets one more event of the burst ...
Drain ==
  /\ pc = "drain"
  /\ queue > 0
  /\ queue' = queue - 1
  /\ UNCHANGED <<file, time, announced, watching, os, pc, last_hash, checked, module>>

\* ... or times out.
DrainTimesOut ==
  /\ pc = "drain"
  /\ queue = 0
  /\ pc' = "hash"
  /\ UNCHANGED <<file, time, announced, watching, os, queue, last_hash, checked, module>>

IsUnchanged == ReadHash.hash = last_hash.hash /\ ReadHash.hash # NoHash

\* The content is the one hashed last: no check.
SkipUnchanged ==
  /\ pc = "hash"
  /\ IsUnchanged
  /\ pc' = "recv"
  /\ UNCHANGED <<file, time, announced, watching, os, queue, last_hash, checked, module>>

\* Remember the new hash, mark the module, check.
NoteChange ==
  /\ pc = "hash"
  /\ ~IsUnchanged
  /\ last_hash' = ReadHash
  /\ module' = mark_changed(module)
  /\ pc' = "check"
  /\ UNCHANGED <<file, time, announced, watching, os, queue, checked>>

-----------------------------------------------------------------------------
(* The user, the operating system and the notify thread (external).        *)

\* Content c is saved, possibly the old one.  A removal raises no Modify or
\* Create event; any other save does, if somebody watches.
Save(c) ==
  /\ time < MaxSaves
  /\ time' = time + 1
  /\ file' = c
  /\ \/ watching /\ os' = os + 1 /\ announced' = TRUE
     \/ /\ ~watching \/ c = Unreadable
        /\ announced' = FALSE /\ UNCHANGED os
  /\ UNCHANGED <<watching, queue, pc, last_hash, checked, module>>

\* Mutant: the callback forwards only some kinds of events.
MutantDeliver ==
  /\ os > 0
  /\ os' = os - 1
  /\ queue' \in {queue, queue + 1}
  /\ UNCHANGED <<file, time, announced, watching, pc, last_hash, checked, module>>

\* The callback sends one message; the events of one burst may be one.
Deliver ==
  /\ os > 0
  /\ os' \in 0..(os - 1)
  /\ queue' = queue + 1
  /\ UNCHANGED <<file, time, announced, watching, pc, last_hash, checked, module>>

Loop ==
  \/ Canonicalize \/ HashFirst \/ CheckRead \/ CheckDone \/ CreateWatcher
  \/ Recv \/ Drain \/ DrainTimesOut \/ SkipUnchanged \/ NoteChange

Next == Loop \/ Deliver \/ \E c \in Contents \cup {Unreadable} : Save(c)

\* The loop's thread and the notify thread run; the user need not save.
Fairness == WF_vars(Loop) /\ WF_vars(Deliver)

Spec == Init /\ [][Next]_vars /\ Fairness

-----------------------------------------------------------------------------
(* Properties.                                                             *)

\* Every variable has its type, and events exist only under a watcher.
TypeOK ==
  /\ file \in Contents \cup {Unreadable}
  /\ time \in 0..MaxSaves
  /\ announced \in BOOLEAN /\ watching \in BOOLEAN
  /\ os \in Nat /\ queue \in Nat
  /\ (~watching => os = 0 /\ queue = 0 /\ ~announced)
  /\ pc \in {"start", "hash_first", "check_first", "checking_first", "create_watcher",
             "recv", "drain", "hash", "check", "checking", "exited"}
  /\ pc \in {"recv", "drain", "hash", "check", "checking"} => watching
  /\ last_hash \in [hash : Contents \cup {NoHash}, at : 0..time]
  /\ checked \in [content : Contents \cup {Unreadable}, at : 0..time]
  /\ module \in {"absent", "dirty", "clean"}

\* The loop never sleeps through a save: when it waits and no event is on its
\* way, the hash it keeps is the hash of what was saved last, if that save
\* raised an event (recv, drain, then read; never read, then drain).
NoLostWakeup ==
  (pc = "recv" /\ os = 0 /\ queue = 0 /\ announced) => last_hash.hash = content_hash(file)

\* A module that counts as clean, and a loop that waits, has been checked on a
\* read no older than the one its hash was taken from (the hash is read
\* before the check, and the mark comes after).
CheckFollowsHash ==
  (module = "clean" \/ pc = "recv") => checked.at >= last_hash.at

\* Every save that raised an event is eventually hashed, or overwritten: a
\* burst of events ends and the debounce loop with it.
CatchesUp ==
  \A c \in Contents : (announced /\ file = c) ~> (last_hash.hash = c \/ file # c)

\* What the user last saw is the report on the file as it is, whenever a
\* re-check is skipped ("If the content has not changed ..., it skips the
\* re-check to avoid redundant work").
SkipIsRedundant == [][SkipUnchanged => checked.content = file]_vars

\* Once the program watches, content other than what it hashed last is checked
\* or overwritten ("Every time you save the file, the checker re-runs
\* automatically").
EveryChangeIsChecked ==
  \A c \in Contents :
    (watching /\ file = c /\ last_hash.hash # c) ~> (checked.content = c \/ file # c)
=============================================================================
