-------------------------- MODULE VerifyCacheProofs -------------------------
(***************************************************************************)
(* For any number of runs, files, edits, clears and crashes: a cache hit   *)
(* is a complete answer to the same contract with the same IR, a run with  *)
(* a disabled cache is fresh, and a result without IR is never judged.     *)
(*                                                                         *)
(* The properties speak of answered jobs.  They are inductive only with    *)
(* what is true of a text on disk that parses (DiskRight) and of an answer *)
(* on its way from the solver to the disk (WorkerRight).                   *)
(***************************************************************************)
EXTENDS VerifyCache, TLAPS

\* A text that parses is an answer to a job with that file name.
DiskRight ==
  \A h \in DOMAIN disk : disk[h].parses =>
    \E k \in AllJobs : h = hash_clauses(k) /\ disk[h].ans \in Verdicts_of(k, DOMAIN k.clauses)

\* What worker n of run r holds.
RightWorker(r, n) ==
  LET w == worker[r][n]  j == JobOf(r, n) IN
  /\ w.phase \in {"miss", "verified", "opened", "unlinked"} => Skipped(r, n) = {}
  /\ w.phase \in {"verified", "opened", "unlinked"} => w.ans \in Verdicts_of(j, DOMAIN j.clauses)
  /\ w.phase = "done" =>
       /\ w.hit => run[r].cached /\ \E k \in AllJobs : JustifiedBy(j, k, w.ans)
       /\ ~w.hit => \A i \in DOMAIN w.ans : RightFor(j, i, w.ans[i])
       /\ \A i \in Skipped(r, n) : i \in DOMAIN w.ans /\ w.ans[i] = "unknown"

WorkerRight == \A r \in Runs : \A n \in DOMAIN worker[r] : RightWorker(r, n)

IInv == TypeOK /\ DiskRight /\ WorkerRight

Worker(r, n) == [phase : Phases, ans : Answer(JobOf(r, n)), hit : BOOLEAN]

-----------------------------------------------------------------------------
(* Facts about jobs and answers.                                           *)

\* Verdicts of some clauses of a job are an answer to it.
LEMMA VerdictsAreAnswers ==
  ASSUME NEW j, NEW S \in SUBSET DOMAIN j.clauses
  PROVE  Verdicts_of(j, S) \subseteq Answer(j)
BY DEF Verdicts_of, Answer

\* The start of a worker holds the empty answer.
LEMMA NoAnswerIsAnswer ==
  ASSUME NEW j
  PROVE  NoAnswer \in Answer(j)
<1>1. NoAnswer \in [{} -> Tags]
  BY DEF NoAnswer
<1> QED
  BY <1>1 DEF Answer

\* A worker's job is a job of some version of the file.
LEMMA JobsOfWorkers ==
  ASSUME TypeOK, NEW r \in Runs, NEW n \in DOMAIN worker[r]
  PROVE  JobOf(r, n) \in AllJobs
<1>1. n \in DOMAIN run[r].jobs /\ run[r].jobs \in Sources \cup {<<>>}
  BY DEF TypeOK
<1>2. run[r].jobs \in Sources
  BY <1>1
<1> QED
  BY <1>1, <1>2 DEF JobOf, AllJobs

\* Equal file names mean the same question.
LEMMA KeyDecidesQuestion ==
  ASSUME NEW j, NEW k, hash_clauses(j) = hash_clauses(k)
  PROVE  SameQuestion(j, k)
<1> DEFINE kinds(x) == [i \in DOMAIN x.clauses |-> <<x.clauses[i].kind, x.clauses[i].body>>]
<1>1. j.name = k.name /\ j.ir = k.ir /\ kinds(j) = kinds(k)
  BY DEF hash_clauses
<1>2. DOMAIN kinds(j) = DOMAIN j.clauses /\ DOMAIN kinds(k) = DOMAIN k.clauses
  OBVIOUS
<1>3. ASSUME NEW i \in DOMAIN j.clauses
      PROVE  j.clauses[i].kind = k.clauses[i].kind /\ j.clauses[i].body = k.clauses[i].body
  <2>1. kinds(j)[i] = <<j.clauses[i].kind, j.clauses[i].body>>
    OBVIOUS
  <2>2. i \in DOMAIN k.clauses
    BY <1>1, <1>2
  <2>3. kinds(k)[i] = <<k.clauses[i].kind, k.clauses[i].body>>
    BY <2>2
  <2> QED
    BY <1>1, <2>1, <2>3
<1> QED
  BY <1>1, <1>2, <1>3 DEF SameQuestion

\* A text that parses justifies a hit on its file name.
LEMMA HitIsJustified ==
  ASSUME DiskRight, NEW j, get_is_some(hash_clauses(j))
  PROVE  /\ \E k \in AllJobs : JustifiedBy(j, k, disk[hash_clauses(j)].ans)
         /\ disk[hash_clauses(j)].ans \in Answer(j)
<1> DEFINE ans == disk[hash_clauses(j)].ans
<1>1. PICK k \in AllJobs : hash_clauses(j) = hash_clauses(k) /\ ans \in Verdicts_of(k, DOMAIN k.clauses)
  BY DEF DiskRight, get_is_some, HasFile
<1>2. SameQuestion(j, k)
  BY <1>1, KeyDecidesQuestion
<1>3. DOMAIN j.clauses = DOMAIN k.clauses
  BY <1>2 DEF SameQuestion
<1>4. JustifiedBy(j, k, ans)
  BY <1>1, <1>2, <1>3 DEF JustifiedBy
<1>5. ans \in [DOMAIN j.clauses -> Tags]
  BY <1>1, <1>3 DEF Verdicts_of
<1> QED
  BY <1>4, <1>5 DEF Answer

-----------------------------------------------------------------------------
(* One worker moves and the others stay.                                   *)

\* A worker's move that leaves the runs alone and removes no file.
LEMMA WorkerMoves ==
  ASSUME TypeOK, WorkerRight, NEW r \in Runs, NEW n \in DOMAIN worker[r],
         NEW phase \in Phases, NEW ans \in Answer(JobOf(r, n)), NEW hit \in BOOLEAN,
         Goto(r, n, phase, ans, hit),
         run' = run, DOMAIN disk \subseteq DOMAIN disk',
         phase = "opened" => hash_clauses(JobOf(r, n)) \in DOMAIN disk',
         worker'[r][n] = [phase |-> phase, ans |-> ans, hit |-> hit] => RightWorker(r, n)'
  PROVE  /\ DOMAIN worker' = Runs
         /\ \A q \in Runs : DOMAIN worker'[q] = DOMAIN run'[q].jobs
         /\ \A q \in Runs : \A m \in DOMAIN worker'[q] :
              /\ worker'[q][m] \in [phase : Phases, ans : Answer(JobOf(q, m)'), hit : BOOLEAN]
              /\ worker'[q][m].phase = "opened" => HasFile(hash_clauses(JobOf(q, m)))'
         /\ WorkerRight'
<1> DEFINE w == [phase |-> phase, ans |-> ans, hit |-> hit]
<1>1. /\ DOMAIN worker' = Runs
      /\ \A q \in Runs : DOMAIN worker'[q] = DOMAIN worker[q]
      /\ worker'[r][n] = w
      /\ \A q \in Runs : \A m \in DOMAIN worker[q] : (q # r \/ m # n) => worker'[q][m] = worker[q][m]
  BY DEF Goto, TypeOK
<1>2. \A q, m : JobOf(q, m)' = JobOf(q, m) /\ Skipped(q, m)' = Skipped(q, m)
  BY DEF JobOf, Skipped
<1>3. ASSUME NEW q \in Runs, NEW m \in DOMAIN worker'[q]
      PROVE  /\ worker'[q][m] \in [phase : Phases, ans : Answer(JobOf(q, m)'), hit : BOOLEAN]
             /\ worker'[q][m].phase = "opened" => HasFile(hash_clauses(JobOf(q, m)))'
             /\ RightWorker(q, m)'
  <2>1. CASE q = r /\ m = n
    <3>1. w \in [phase : Phases, ans : Answer(JobOf(r, n)), hit : BOOLEAN]
      OBVIOUS
    <3>2. w.phase = phase
      OBVIOUS
    <3>3. hash_clauses(JobOf(r, n))' = hash_clauses(JobOf(r, n))
      BY <1>2 DEF hash_clauses
    <3> QED
      BY <1>1, <1>2, <2>1, <3>1, <3>2, <3>3 DEF HasFile
  <2>2. CASE q # r \/ m # n
    <3>1. worker'[q][m] = worker[q][m] /\ m \in DOMAIN worker[q]
      BY <1>1, <2>2
    <3>2. /\ worker[q][m] \in [phase : Phases, ans : Answer(JobOf(q, m)), hit : BOOLEAN]
          /\ worker[q][m].phase = "opened" => HasFile(hash_clauses(JobOf(q, m)))
      BY <3>1 DEF TypeOK
    <3>3. hash_clauses(JobOf(q, m))' = hash_clauses(JobOf(q, m))
      BY <1>2 DEF hash_clauses
    <3>4. RightWorker(q, m)'
      BY <1>2, <3>1 DEF WorkerRight, RightWorker
    <3> QED
      BY <1>2, <3>1, <3>2, <3>3, <3>4 DEF HasFile
  <2> QED
    BY <2>1, <2>2
<1> QED
  BY <1>1, <1>3 DEF WorkerRight, TypeOK

\* What a move has to establish of its own worker.
LEMMA MovedWorker ==
  ASSUME NEW r, NEW n, run' = run, NEW phase, NEW ans, NEW hit,
         worker'[r][n] = [phase |-> phase, ans |-> ans, hit |-> hit],
         phase \in {"miss", "verified", "opened", "unlinked"} => Skipped(r, n) = {},
         phase \in {"verified", "opened", "unlinked"} =>
            ans \in Verdicts_of(JobOf(r, n), DOMAIN JobOf(r, n).clauses),
         phase = "done" =>
            /\ hit => run[r].cached /\ \E k \in AllJobs : JustifiedBy(JobOf(r, n), k, ans)
            /\ ~hit => \A i \in DOMAIN ans : RightFor(JobOf(r, n), i, ans[i])
            /\ \A i \in Skipped(r, n) : i \in DOMAIN ans /\ ans[i] = "unknown"
  PROVE  RightWorker(r, n)'
<1>1. JobOf(r, n)' = JobOf(r, n) /\ Skipped(r, n)' = Skipped(r, n)
  BY DEF JobOf, Skipped
<1>2. worker'[r][n].phase = phase /\ worker'[r][n].ans = ans /\ worker'[r][n].hit = hit
  OBVIOUS
<1> QED
  BY <1>1, <1>2 DEF RightWorker

\* An answer of the solver is right clause by clause.
LEMMA VerdictsAreRight ==
  ASSUME NEW j, NEW S, NEW a \in Verdicts_of(j, S)
  PROVE  DOMAIN a = S /\ \A i \in DOMAIN a : RightFor(j, i, a[i])
BY DEF Verdicts_of

\* The disk after a step that changes one entry.
LEMMA DiskWithOneEntry ==
  ASSUME DiskRight, NEW h, NEW text, disk' = SetFile(h, text),
         text.parses => \E k \in AllJobs : h = hash_clauses(k) /\ text.ans \in Verdicts_of(k, DOMAIN k.clauses)
  PROVE  DiskRight' /\ DOMAIN disk' = DOMAIN disk \cup {h}
                    /\ \A g \in DOMAIN disk' : disk'[g] = IF g = h THEN text ELSE disk[g]
<1>1. DOMAIN disk' = DOMAIN disk \cup {h}
  BY DEF SetFile
<1>2. \A g \in DOMAIN disk' : disk'[g] = IF g = h THEN text ELSE disk[g]
  BY DEF SetFile
<1>3. DiskRight'
  <2> SUFFICES ASSUME NEW g \in DOMAIN disk', disk'[g].parses
               PROVE  \E k \in AllJobs : g = hash_clauses(k) /\ disk'[g].ans \in Verdicts_of(k, DOMAIN k.clauses)
    BY DEF DiskRight
  <2>1. CASE g = h
    BY <1>2, <2>1
  <2>2. CASE g # h
    BY <1>1, <1>2, <2>2 DEF DiskRight
  <2> QED
    BY <2>1, <2>2
<1> QED
  BY <1>1, <1>2, <1>3

-----------------------------------------------------------------------------
(* The invariant.                                                          *)

LEMMA InitIInv == Init => IInv
<1> SUFFICES ASSUME Init PROVE IInv
  OBVIOUS
<1>1. \A r \in Runs : run[r] = Idle /\ worker[r] = <<>>
  BY DEF Init
<1>2. \A r \in Runs : run[r].jobs = <<>> /\ DOMAIN worker[r] = {} /\ DOMAIN run[r].jobs = {}
  BY <1>1 DEF Idle
<1>3. TypeOK
  <2>1. run \in [Runs -> [phase : {"idle", "running", "reported", "crashed"}, jobs : Sources \cup {<<>>},
                         attempted : BOOLEAN, cached : BOOLEAN]]
    BY DEF Init, Idle
  <2>2. DOMAIN worker = Runs /\ DOMAIN disk = {}
    BY DEF Init
  <2> QED
    BY <1>2, <2>1, <2>2 DEF Init, TypeOK
<1>4. DiskRight /\ WorkerRight
  BY <1>2 DEF Init, DiskRight, WorkerRight
<1> QED
  BY <1>3, <1>4 DEF IInv

\* A step of one worker.
LEMMA WorkerStep ==
  ASSUME IInv, NEW r \in Runs, NEW n \in DOMAIN worker[r],
         \/ SkipPath(r, n) \/ CacheHit(r, n) \/ CacheMiss(r, n) \/ Verify(r, n)
         \/ PutOpen(r, n) \/ PutNothing(r, n) \/ PutWrite(r, n) \/ PutUnlinked(r, n)
  PROVE  IInv'
<1> DEFINE j == JobOf(r, n)
           w == worker[r][n]
           h == hash_clauses(j)
           all == DOMAIN j.clauses
<1>a. TypeOK /\ DiskRight /\ WorkerRight /\ RightWorker(r, n)
  BY DEF IInv, WorkerRight
<1>b. j \in AllJobs
  BY <1>a, JobsOfWorkers
<1>c. w \in Worker(r, n)
  BY <1>a DEF TypeOK, Worker
<1>d. NoAnswer \in Answer(j)
  BY NoAnswerIsAnswer
<1>e. Skipped(r, n) \subseteq all /\ Filtered(r, n) \subseteq all
  BY DEF Skipped, Filtered
<1>f. ASSUME UNCHANGED <<source, dir, clearing, disk, run>>,
             NEW phase \in Phases, NEW ans \in Answer(j), NEW hit \in BOOLEAN,
             Goto(r, n, phase, ans, hit), phase # "opened",
             worker'[r][n] = [phase |-> phase, ans |-> ans, hit |-> hit] => RightWorker(r, n)'
      PROVE  IInv'
  <2>1. /\ DOMAIN worker' = Runs
        /\ \A q \in Runs : DOMAIN worker'[q] = DOMAIN run'[q].jobs
        /\ \A q \in Runs : \A m \in DOMAIN worker'[q] :
              /\ worker'[q][m] \in [phase : Phases, ans : Answer(JobOf(q, m)'), hit : BOOLEAN]
              /\ worker'[q][m].phase = "opened" => HasFile(hash_clauses(JobOf(q, m)))'
        /\ WorkerRight'
    BY <1>a, <1>f, WorkerMoves
  <2>2. TypeOK'
    BY <1>a, <1>f, <2>1 DEF TypeOK
  <2>3. DiskRight'
    BY <1>a, <1>f DEF DiskRight
  <2> QED
    BY <2>1, <2>2, <2>3 DEF IInv
<1>1. CASE SkipPath(r, n)
  <2>1. PICK a \in Verdicts_of(j, Filtered(r, n)) :
          Goto(r, n, "done", [i \in Filtered(r, n) \cup Skipped(r, n) |->
                                IF i \in Skipped(r, n) THEN "unknown" ELSE a[i]], FALSE)
    BY <1>1 DEF SkipPath
  <2> DEFINE ans == [i \in Filtered(r, n) \cup Skipped(r, n) |->
                       IF i \in Skipped(r, n) THEN "unknown" ELSE a[i]]
  <2>2. DOMAIN a = Filtered(r, n) /\ (\A i \in DOMAIN a : RightFor(j, i, a[i])) /\ a \in [Filtered(r, n) -> Tags]
    BY VerdictsAreRight DEF Verdicts_of
  <2>3. ans \in Answer(j)
    <3>1. ans \in [Filtered(r, n) \cup Skipped(r, n) -> Tags]
      BY <2>2 DEF Tags
    <3> QED
      BY <1>e, <3>1 DEF Answer
  <2>4. \A i \in DOMAIN ans : RightFor(j, i, ans[i])
    BY <2>2 DEF RightFor
  <2>5. \A i \in Skipped(r, n) : i \in DOMAIN ans /\ ans[i] = "unknown"
    OBVIOUS
  <2> HIDE DEF ans, j
  <2>6. worker'[r][n] = [phase |-> "done", ans |-> ans, hit |-> FALSE] => RightWorker(r, n)'
    BY <1>1, <2>4, <2>5, MovedWorker DEF SkipPath, j
  <2> QED
    BY <1>1, <1>f, <2>1, <2>3, <2>6 DEF SkipPath, Phases, ans
<1>2. CASE CacheHit(r, n)
  <2>1. /\ \E k \in AllJobs : JustifiedBy(j, k, disk[h].ans)
        /\ disk[h].ans \in Answer(j)
    BY <1>2, <1>a, HitIsJustified DEF CacheHit
  <2>2. worker'[r][n] = [phase |-> "done", ans |-> disk[h].ans, hit |-> TRUE] => RightWorker(r, n)'
    <3> HIDE DEF j, h
    <3> QED
      BY <1>2, <2>1, MovedWorker DEF CacheHit, j, h
  <2> QED
    BY <1>2, <1>f, <2>1, <2>2 DEF CacheHit, Phases
<1>3. CASE CacheMiss(r, n)
  <2>1. worker'[r][n] = [phase |-> "miss", ans |-> NoAnswer, hit |-> FALSE] => RightWorker(r, n)'
    BY <1>3, MovedWorker DEF CacheMiss
  <2> QED
    BY <1>3, <1>d, <1>f, <2>1 DEF CacheMiss, Phases
<1>4. CASE Verify(r, n)
  <2>1. PICK a \in Verdicts_of(j, all) : Goto(r, n, "verified", a, FALSE)
    BY <1>4 DEF Verify
  <2>2. a \in Answer(j)
    BY VerdictsAreAnswers
  <2>3. Skipped(r, n) = {}
    BY <1>4, <1>a DEF Verify, At, RightWorker
  <2>4. worker'[r][n] = [phase |-> "verified", ans |-> a, hit |-> FALSE] => RightWorker(r, n)'
    BY <1>4, <2>3, MovedWorker DEF Verify
  <2> QED
    BY <1>4, <1>f, <2>1, <2>2, <2>4 DEF Verify, Phases
<1>5. ASSUME w.phase \in {"verified", "opened", "unlinked"}
      PROVE  /\ w.ans \in Verdicts_of(j, all) /\ w.ans \in Answer(j) /\ Skipped(r, n) = {}
             /\ \A i \in DOMAIN w.ans : RightFor(j, i, w.ans[i])
  <2>1. w.ans \in Verdicts_of(j, all) /\ Skipped(r, n) = {}
    BY <1>5, <1>a DEF RightWorker
  <2> HIDE DEF w, j
  <2> QED
    BY <2>1, VerdictsAreAnswers, VerdictsAreRight
<1>6. ASSUME w.phase \in {"verified", "opened", "unlinked"}, run' = run,
             worker'[r][n] = [phase |-> "done", ans |-> w.ans, hit |-> FALSE]
      PROVE  RightWorker(r, n)'
  <2> HIDE DEF w, j
  <2> QED
    BY <1>5, <1>6, MovedWorker DEF j
<1>7. CASE PutNothing(r, n)
  BY <1>7, <1>5, <1>6, <1>f DEF PutNothing, At, Phases
<1>8. CASE PutUnlinked(r, n)
  BY <1>8, <1>5, <1>6, <1>f DEF PutUnlinked, At, Phases
<1>9. ASSUME NEW text, text.size \in Nat, text.parses \in BOOLEAN, disk' = SetFile(h, text), dir,
             text.parses => text.ans \in Verdicts_of(j, all),
             UNCHANGED <<source, dir, clearing, run>>,
             NEW phase \in {"opened", "done"}, Goto(r, n, phase, w.ans, FALSE),
             w.phase \in {"verified", "opened"}
      PROVE  IInv'
  <2>1. /\ DiskRight' /\ DOMAIN disk' = DOMAIN disk \cup {h}
        /\ \A g \in DOMAIN disk' : disk'[g] = IF g = h THEN text ELSE disk[g]
    <3> HIDE DEF h, j
    <3>1. text.parses => \E k \in AllJobs : h = hash_clauses(k) /\ text.ans \in Verdicts_of(k, DOMAIN k.clauses)
      BY <1>9, <1>b DEF h
    <3> QED
      BY <1>a, <1>9, <3>1, DiskWithOneEntry
  <2>2. worker'[r][n] = [phase |-> phase, ans |-> w.ans, hit |-> FALSE] => RightWorker(r, n)'
    <3> HIDE DEF w, j
    <3> QED
      BY <1>5, <1>9, MovedWorker DEF j
  <2>3. phase \in Phases /\ w.ans \in Answer(j) /\ FALSE \in BOOLEAN
    BY <1>5, <1>9 DEF Phases
  <2>4. /\ DOMAIN worker' = Runs
        /\ \A q \in Runs : DOMAIN worker'[q] = DOMAIN run'[q].jobs
        /\ \A q \in Runs : \A m \in DOMAIN worker'[q] :
              /\ worker'[q][m] \in [phase : Phases, ans : Answer(JobOf(q, m)'), hit : BOOLEAN]
              /\ worker'[q][m].phase = "opened" => HasFile(hash_clauses(JobOf(q, m)))'
        /\ WorkerRight'
    BY <1>a, <1>9, <2>1, <2>2, <2>3, WorkerMoves
  <2>5. \A g \in DOMAIN disk' : disk'[g].size \in Nat /\ disk'[g].parses \in BOOLEAN
    BY <1>a, <1>9, <2>1 DEF TypeOK
  <2>6. TypeOK'
    BY <1>a, <1>9, <2>4, <2>5 DEF TypeOK
  <2> QED
    BY <2>1, <2>4, <2>6 DEF IInv
<1>10. CASE PutOpen(r, n)
  <2> DEFINE text == Torn(0)
  <2>1. text.size \in Nat /\ text.parses = FALSE
    BY DEF Torn
  <2> HIDE DEF text
  <2> QED
    BY <1>10, <1>9, <2>1 DEF PutOpen, At, text
<1>11. CASE PutWrite(r, n)
  <2>1. w.phase = "opened" /\ h \in DOMAIN disk /\ dir
    BY <1>11, <1>a DEF PutWrite, At, TypeOK, HasFile
  <2>2. disk[h].size \in Nat /\ Size(w.ans) \in Nat
    BY <1>a, <1>b, <1>5, <2>1, SizeAssumption DEF TypeOK
  <2>3. CASE disk' = SetFile(h, WholeWrite(disk[h], w.ans))
    <3> DEFINE text == WholeWrite(disk[h], w.ans)
    <3>1. text.size \in Nat /\ text.parses \in BOOLEAN /\ (text.parses => text.ans = w.ans)
      BY <2>2 DEF WholeWrite, Json, Torn
    <3>2. w.ans \in Verdicts_of(j, all)
      BY <1>5, <2>1
    <3> HIDE DEF text
    <3> QED
      BY <1>11, <1>9, <2>1, <2>3, <3>1, <3>2 DEF PutWrite, text
  <2>4. CASE \E k \in 0..(Size(w.ans) - 1) : disk' = SetFile(h, PartialWrite(disk[h], k))
    <3>1. PICK k \in 0..(Size(w.ans) - 1) : disk' = SetFile(h, PartialWrite(disk[h], k))
      BY <2>4
    <3> DEFINE text == PartialWrite(disk[h], k)
    <3>2. text.size \in Nat /\ text.parses = FALSE
      BY <2>2, <3>1 DEF PartialWrite, Torn
    <3> HIDE DEF text
    <3> QED
      BY <1>11, <1>9, <2>1, <3>1, <3>2 DEF PutWrite, text
  <2> QED
    BY <1>11, <2>3, <2>4 DEF PutWrite
<1> QED
  BY <1>1, <1>2, <1>3, <1>4, <1>7, <1>8, <1>10, <1>11

\* A step that keeps every worker and every file, and of a run at most its phase.
LEMMA NothingMoves ==
  ASSUME IInv, worker' = worker, disk' = disk, DOMAIN run' = DOMAIN run,
         \A q \in Runs : /\ run'[q].jobs = run[q].jobs /\ run'[q].attempted = run[q].attempted
                         /\ run'[q].cached = run[q].cached,
         run' \in [Runs -> [phase : {"idle", "running", "reported", "crashed"}, jobs : Sources \cup {<<>>},
                            attempted : BOOLEAN, cached : BOOLEAN]],
         source' \in Sources, dir' \in BOOLEAN, dir => dir', clearing' \in BOOLEAN
  PROVE  IInv'
<1>1. \A q \in Runs : \A m : JobOf(q, m)' = JobOf(q, m) /\ Skipped(q, m)' = Skipped(q, m)
  BY DEF JobOf, Skipped
<1>2. \A q \in Runs : \A m : hash_clauses(JobOf(q, m))' = hash_clauses(JobOf(q, m))
  BY <1>1 DEF hash_clauses
<1>3. TypeOK'
  BY <1>1, <1>2 DEF IInv, TypeOK, HasFile
<1>4. WorkerRight'
  BY <1>1 DEF IInv, WorkerRight, RightWorker
<1>5. DiskRight'
  BY DEF IInv, DiskRight
<1> QED
  BY <1>3, <1>4, <1>5 DEF IInv

LEMMA NextIInv == IInv /\ [Next]_vars => IInv'
<1> SUFFICES ASSUME IInv, [Next]_vars PROVE IInv'
  OBVIOUS
<1> DEFINE RunRecord == [phase : {"idle", "running", "reported", "crashed"}, jobs : Sources \cup {<<>>},
                         attempted : BOOLEAN, cached : BOOLEAN]
<1>a. /\ run \in [Runs -> RunRecord] /\ source \in Sources /\ dir \in BOOLEAN /\ clearing \in BOOLEAN
      /\ TypeOK /\ DiskRight /\ WorkerRight
  BY DEF IInv, TypeOK
<1>1. CASE Edit
  BY <1>1, <1>a, NothingMoves DEF Edit
<1>2. CASE ClearCreate
  BY <1>2, <1>a, NothingMoves DEF ClearCreate
<1>3. CASE ClearRemove
  <2>1. PICK gone \in SUBSET DOMAIN disk :
          /\ disk' = [h \in DOMAIN disk \ gone |-> disk[h]]
          /\ dir' \in {dir /\ gone # DOMAIN disk, dir}
          /\ worker' = [r \in Runs |-> [n \in DOMAIN worker[r] |->
               IF worker[r][n].phase = "opened" /\ hash_clauses(JobOf(r, n)) \in gone
               THEN [worker[r][n] EXCEPT !.phase = "unlinked"] ELSE worker[r][n]]]
    BY <1>3 DEF ClearRemove
  <2>2. run' = run /\ source' = source /\ clearing' = TRUE
    BY <1>3 DEF ClearRemove
  <2>3. \A q, m : JobOf(q, m)' = JobOf(q, m) /\ Skipped(q, m)' = Skipped(q, m)
    BY <2>2 DEF JobOf, Skipped
  <2>4. /\ DOMAIN worker' = Runs
        /\ \A q \in Runs : DOMAIN worker'[q] = DOMAIN worker[q]
    BY <2>1
  <2>5. ASSUME NEW q \in Runs, NEW m \in DOMAIN worker'[q]
        PROVE  /\ worker'[q][m] \in [phase : Phases, ans : Answer(JobOf(q, m)'), hit : BOOLEAN]
               /\ worker'[q][m].phase = "opened" => HasFile(hash_clauses(JobOf(q, m)))'
               /\ RightWorker(q, m)'
    <3>1. m \in DOMAIN worker[q] /\ worker[q][m] \in Worker(q, m) /\ RightWorker(q, m)
          /\ (worker[q][m].phase = "opened" => hash_clauses(JobOf(q, m)) \in DOMAIN disk)
      BY <1>a, <2>4 DEF TypeOK, Worker, WorkerRight, HasFile
    <3>2. hash_clauses(JobOf(q, m))' = hash_clauses(JobOf(q, m))
      BY <2>3 DEF hash_clauses
    <3>3. CASE worker[q][m].phase = "opened" /\ hash_clauses(JobOf(q, m)) \in gone
      <4>1. worker'[q][m] = [worker[q][m] EXCEPT !.phase = "unlinked"]
        BY <2>1, <3>1, <3>3
      <4>2. /\ worker'[q][m].phase = "unlinked" /\ worker'[q][m].ans = worker[q][m].ans
            /\ worker'[q][m].hit = worker[q][m].hit /\ worker'[q][m] \in Worker(q, m)
        BY <3>1, <4>1 DEF Worker, Phases
      <4>3. RightWorker(q, m)'
        BY <2>2, <2>3, <3>1, <3>3, <4>2 DEF RightWorker
      <4> QED
        BY <2>3, <4>2, <4>3 DEF Worker
    <3>4. CASE ~(worker[q][m].phase = "opened" /\ hash_clauses(JobOf(q, m)) \in gone)
      <4>1. worker'[q][m] = worker[q][m]
        BY <2>1, <3>1, <3>4
      <4>2. RightWorker(q, m)'
        BY <2>2, <2>3, <3>1, <4>1 DEF RightWorker
      <4>3. worker'[q][m].phase = "opened" => hash_clauses(JobOf(q, m)) \in DOMAIN disk'
        BY <2>1, <3>1, <3>4, <4>1
      <4> QED
        BY <2>3, <3>1, <3>2, <4>1, <4>2, <4>3 DEF Worker, HasFile
    <3> QED
      BY <3>3, <3>4
  <2>6. ~dir' => DOMAIN disk' = {}
    BY <1>a, <2>1 DEF TypeOK
  <2>7. DiskRight' /\ \A h \in DOMAIN disk' : disk'[h].size \in Nat /\ disk'[h].parses \in BOOLEAN
    BY <1>a, <2>1 DEF DiskRight, TypeOK
  <2>8. dir' \in BOOLEAN
    BY <1>a, <2>1
  <2>9. TypeOK'
    BY <1>a, <2>2, <2>4, <2>5, <2>6, <2>7, <2>8 DEF TypeOK
  <2> QED
    BY <2>5, <2>7, <2>9 DEF IInv, WorkerRight
<1>4. ASSUME NEW r \in Runs, StartRun(r) PROVE IInv'
  <2>1. PICK attempted \in BOOLEAN, cached \in BOOLEAN :
          /\ run' = [run EXCEPT ![r] = [phase |-> "running", jobs |-> source,
                                        attempted |-> attempted, cached |-> cached]]
          /\ dir' \in {dir, dir \/ cached}
    BY <1>4 DEF StartRun
  <2>2. UNCHANGED <<source, clearing, disk>>
    BY <1>4 DEF StartRun
  <2> DEFINE fresh == [phase |-> "start", ans |-> NoAnswer, hit |-> FALSE]
  <2>3. worker' = [worker EXCEPT ![r] = [n \in DOMAIN source |-> fresh]]
    BY <1>4 DEF StartRun
  <2>4. run' \in [Runs -> RunRecord] /\ run'[r].jobs = source
    BY <1>a, <2>1
  <2>5. \A q \in Runs : q # r => run'[q] = run[q] /\ worker'[q] = worker[q]
    BY <1>a, <2>1, <2>3 DEF TypeOK
  <2>6. /\ DOMAIN worker' = Runs /\ DOMAIN worker'[r] = DOMAIN source
        /\ \A n \in DOMAIN source : worker'[r][n] = fresh
    BY <1>a, <2>3 DEF TypeOK
  <2>7. ASSUME NEW q \in Runs, NEW m \in DOMAIN worker'[q]
        PROVE  /\ worker'[q][m] \in [phase : Phases, ans : Answer(JobOf(q, m)'), hit : BOOLEAN]
               /\ worker'[q][m].phase = "opened" => HasFile(hash_clauses(JobOf(q, m)))'
               /\ RightWorker(q, m)'
    <3>1. CASE q = r
      <4>1. worker'[q][m] = fresh
        BY <2>6, <3>1
      <4>2. fresh.phase = "start" /\ fresh.ans = NoAnswer /\ fresh.hit = FALSE
        OBVIOUS
      <4>3. NoAnswer \in Answer(JobOf(q, m)')
        BY NoAnswerIsAnswer
      <4>4. fresh \in [phase : Phases, ans : Answer(JobOf(q, m)'), hit : BOOLEAN]
        BY <4>3 DEF Phases
      <4> HIDE DEF fresh
      <4> QED
        BY <4>1, <4>2, <4>4 DEF RightWorker
    <3>2. CASE q # r
      <4>1. JobOf(q, m)' = JobOf(q, m) /\ Skipped(q, m)' = Skipped(q, m)
        BY <2>5, <3>2 DEF JobOf, Skipped
      <4>2. hash_clauses(JobOf(q, m))' = hash_clauses(JobOf(q, m))
        BY <4>1 DEF hash_clauses
      <4>3. worker'[q] = worker[q] /\ run'[q] = run[q] /\ disk' = disk
        BY <2>2, <2>5, <3>2
      <4>4. RightWorker(q, m)'
        BY <1>a, <4>1, <4>3 DEF WorkerRight, RightWorker
      <4>5. /\ worker[q][m] \in [phase : Phases, ans : Answer(JobOf(q, m)), hit : BOOLEAN]
            /\ worker[q][m].phase = "opened" => HasFile(hash_clauses(JobOf(q, m)))
        BY <1>a, <4>3 DEF TypeOK
      <4> QED
        BY <4>1, <4>2, <4>3, <4>4, <4>5 DEF HasFile
    <3> QED
      BY <3>1, <3>2
  <2>8. \A q \in Runs : DOMAIN worker'[q] = DOMAIN run'[q].jobs
    BY <1>a, <2>4, <2>5, <2>6 DEF TypeOK
  <2>9. TypeOK'
    BY <1>a, <2>1, <2>2, <2>4, <2>6, <2>7, <2>8 DEF TypeOK
  <2>10. DiskRight'
    BY <1>a, <2>2 DEF DiskRight
  <2> QED
    BY <2>7, <2>9, <2>10 DEF IInv, WorkerRight
<1>5. ASSUME NEW r \in Runs, Report(r) \/ Crash(r) PROVE IInv'
  <2>1. PICK phase \in {"reported", "crashed"} : run' = [run EXCEPT ![r].phase = phase]
    BY <1>5 DEF Report, Crash
  <2>2. /\ run' \in [Runs -> RunRecord]
        /\ \A q \in Runs : /\ run'[q].jobs = run[q].jobs /\ run'[q].attempted = run[q].attempted
                           /\ run'[q].cached = run[q].cached
    BY <1>a, <2>1
  <2> QED
    BY <1>5, <1>a, <2>2, NothingMoves DEF Report, Crash
<1>6. CASE UNCHANGED vars
  BY <1>6, <1>a, NothingMoves DEF vars
<1> QED
  BY <1>1, <1>2, <1>3, <1>4, <1>5, <1>6, WorkerStep DEF Next

\* The cache directory, its files and the workers keep their types: no file
\* without its directory, and a worker writes only to a file that is there.
THEOREM TypeCorrect == Spec => []TypeOK
<1>1. IInv => TypeOK
  BY DEF IInv
<1> QED
  BY <1>1, InitIInv, NextIInv, PTL DEF Spec

\* No cache hit of any run is torn, mixed or another contract's or IR's answer.
THEOREM HitsWereComputed == Spec => []HitWasComputed
<1>1. IInv => HitWasComputed
  BY DEF IInv, WorkerRight, RightWorker, HitWasComputed, Answered
<1> QED
  BY <1>1, InitIInv, NextIInv, PTL DEF Spec

\* A run with a disabled cache reports only its own solver's verdicts.
THEOREM DisabledRunsAreFresh == Spec => []DisabledIsFresh
<1>1. IInv => DisabledIsFresh
  <2> SUFFICES ASSUME IInv, NEW r \in Runs, NEW n \in DOMAIN worker[r],
                      worker[r][n].phase = "done", ~run[r].cached
               PROVE  \A i \in DOMAIN worker[r][n].ans : RightFor(JobOf(r, n), i, worker[r][n].ans[i])
    BY DEF DisabledIsFresh, Answered
  <2>1. RightWorker(r, n) /\ worker[r][n].hit \in BOOLEAN
    BY DEF IInv, WorkerRight, TypeOK
  <2> QED
    BY <2>1 DEF RightWorker
<1> QED
  BY <1>1, InitIInv, NextIInv, PTL DEF Spec

\* No run that looked for IR judges an ensures over an unconstrained result.
THEOREM UnconstrainedResultsNotJudged == Spec => []UnconstrainedResultNotJudged
<1>1. IInv => UnconstrainedResultNotJudged
  <2> SUFFICES ASSUME IInv, NEW r \in Runs, NEW n \in DOMAIN worker[r],
                      worker[r][n].phase = "done", run[r].attempted, JobOf(r, n).ir = "none",
                      NEW i \in DOMAIN JobOf(r, n).clauses,
                      JobOf(r, n).clauses[i].kind = "ensures", JobOf(r, n).clauses[i].needs_ir
               PROVE  i \in DOMAIN worker[r][n].ans /\ worker[r][n].ans[i] = "unknown"
    BY DEF UnconstrainedResultNotJudged, Answered
  <2>1. i \in Skipped(r, n)
    BY DEF Skipped
  <2> QED
    BY <2>1 DEF IInv, WorkerRight, RightWorker
<1> QED
  BY <1>1, InitIInv, NextIInv, PTL DEF Spec
=============================================================================
