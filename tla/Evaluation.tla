------------------------------ MODULE Evaluation ------------------------------
(***************************************************************************)
(* The judged evaluations of tools/MMBench_EVAL.  MathVista_eval and       *)
(* MMVet_eval judge the lines of a file of predictions with a language     *)
(* model, by track_progress_rich of mp_util.py, which saves every verdict  *)
(* in tmp_file as it arrives; when all are there they are written to       *)
(* storage and scored.  A run that is killed or fails is started again,    *)
(* and goes on from the two files.                                         *)
(*                                                                         *)
(* multiple_choice_eval drives the same loop over groups of questions; it  *)
(* begins with an empty result instead of tmp_file and has no storage.     *)
(* Without a judge it only matches what it can.                            *)
(***************************************************************************)
EXTENDS Integers, Sequences, SequencesExt

CONSTANTS
  Lines,      \* number of lines or groups
  NProcs,     \* values of --nproc
  Drivers,    \* "lines" (MathVista, MMVet), "groups", "exact" (multiple_choice_eval)
  Prefetched, \* the lines that post_check or prefetch_sub_data settles
  MaxStarts   \* bound: how often the evaluation is started

ASSUME EvaluationAssumption ==
  /\ Lines \in Nat \ {0} /\ NProcs \subseteq Nat \ {0}
  /\ Drivers \subseteq {"lines", "groups", "exact"} /\ Prefetched \subseteq 1 .. Lines
  /\ MaxStarts \in Nat \ {0}

VARIABLES
  driver, nproc,
  pc,       \* where the main process is
  starts,   \* how often it was started
  tmp,      \* tmp_file, or result_file of the groups
  storage,  \* the scoring file
  saved,    \* history: every verdict whose dump to tmp_file came to its end
  ans,      \* the verdicts in memory
  keys,     \* indices: what is left to judge, in order
  tasks,    \* chunks of positions in keys that the pool has not delivered
  arrived,  \* results of the delivered chunk that are not saved yet
  unordered \* unordered_results

fileVars   == <<tmp, storage, saved>>
memoryVars == <<ans, keys, tasks, arrived, unordered>>
vars == <<driver, nproc, pc, starts, fileVars, memoryVars>>

\* dump opens a file, which empties it, and then writes it.
Absent  == [is |-> "absent", has |-> << >>]
Torn    == [is |-> "torn", has |-> << >>]
File(f) == [is |-> "ok", has |-> f]

Init ==
  /\ driver \in Drivers /\ nproc \in NProcs
  /\ pc = "off" /\ starts = 0
  /\ tmp = Absent /\ storage = Absent /\ saved = {}
  /\ ans = << >> /\ keys = << >> /\ tasks = {} /\ arrived = << >> /\ unordered = << >>

All == [i \in 1 .. Lines |-> i]

\* Some of the lines, in the order of the file.
InOrder(S) ==
  CHOOSE s \in [1 .. Cardinality(S) -> S] :
    ToSet(s) = S /\ \A i, j \in DOMAIN s : i < j => s[i] < s[j]

\* What MathVista_auxeval, MMVet_auxeval and eval_sub_data return for a line: what was
\* matched, or what the judge said, after retries that may all have failed.
Verdict(k, said) == [of |-> k, said |-> IF k \in Prefetched THEN "prefetch" ELSE said]

Sayings == {"right", "failed"}

-----------------------------------------------------------------------------
(* MathVista_eval and MMVet_eval, or multiple_choice_eval.                   *)

\* The files that are there are used.  A torn tmp_file cannot be loaded.
Start ==
  /\ pc = "off" /\ starts < MaxStarts
  /\ starts' = starts + 1
  /\ pc' = IF driver # "lines" THEN "prefetch"
           ELSE IF storage.is # "absent" THEN "score"
           ELSE IF tmp.is = "torn" THEN "off" ELSE "resume"
  /\ UNCHANGED <<driver, nproc, fileVars, memoryVars>>

\* Mutant: the lines are judged from the start.
Resume_Anew ==
  /\ pc = "resume"
  /\ ans' = tmp.has /\ keys' = All
  /\ pc' = "init"
  /\ UNCHANGED <<driver, nproc, starts, fileVars, tasks, arrived, unordered>>

\* What tmp_file does not answer is left to judge.
Resume ==
  /\ pc = "resume"
  /\ ans' = tmp.has /\ keys' = InOrder((1 .. Lines) \ DOMAIN tmp.has)
  /\ pc' = IF keys' = << >> THEN "store" ELSE "init"
  /\ UNCHANGED <<driver, nproc, starts, fileVars, tasks, arrived, unordered>>

\* eval_data_groups: the groups that are settled without the judge are dumped first.
Prefetch ==
  /\ pc = "prefetch"
  /\ ans' = [k \in Prefetched |-> Verdict(k, "prefetch")]
  /\ keys' = InOrder((1 .. Lines) \ Prefetched)
  /\ tmp' = Torn /\ pc' = "dump"
  /\ UNCHANGED <<driver, nproc, starts, storage, saved, tasks, arrived, unordered>>

Dump ==
  /\ pc = "dump"
  /\ tmp' = File(ans)
  /\ pc' = IF keys = << >> THEN "score" ELSE IF driver = "exact" THEN "exact" ELSE "init"
  /\ UNCHANGED <<driver, nproc, starts, storage, saved, memoryVars>>

\* Exact matching: what is left has failed.
ExactMatch ==
  /\ pc = "exact"
  /\ ans' = [k \in DOMAIN ans \cup ToSet(keys) |->
               IF k \in DOMAIN ans THEN ans[k] ELSE Verdict(k, "failed")]
  /\ tmp' = Torn /\ pc' = "dumped"
  /\ UNCHANGED <<driver, nproc, starts, storage, saved, keys, tasks, arrived, unordered>>

-----------------------------------------------------------------------------
(* track_progress_rich.                                                      *)

\* Chunks of nproc tasks for the pool, single tasks for a single process.
Chunks ==
  LET n == Len(keys)
      Chunk(i) == [j \in 1 .. (IF i + nproc < n THEN nproc ELSE n - i) |-> i + j]
  IN {Chunk(i) : i \in {m \in 0 .. n - 1 : m % nproc = 0}}

\* An empty dictionary is dumped first if tmp_file is not there.
InitSave ==
  /\ pc = "init"
  /\ IF tmp.is = "absent"
     THEN tmp' = Torn /\ pc' = "create"
     ELSE UNCHANGED tmp /\ pc' = "judge"
  /\ tasks' = Chunks
  /\ UNCHANGED <<driver, nproc, starts, storage, saved, ans, keys, arrived, unordered>>

Create ==
  /\ pc = "create"
  /\ tmp' = File(<< >>) /\ pc' = "judge"
  /\ UNCHANGED <<driver, nproc, starts, storage, saved, memoryVars>>

\* A single process goes through the tasks in order, and the pool yields them in any.
MayDeliver(c) == c \in tasks /\ (nproc = 1 => \A d \in tasks : c[1] <= d[1])

\* Mutant: the results of the pool are taken to come in the order of the tasks.
Deliver_InOrder ==
  /\ pc = "judge" /\ arrived = << >>
  /\ \E c \in tasks :
       /\ tasks' = tasks \ {c}
       /\ \E said \in [DOMAIN c -> Sayings] :
            arrived' = [j \in DOMAIN c |->
                          LET v == Verdict(keys[c[j]], said[j])
                          IN [idx |-> Len(unordered) + j, saved |-> v, returned |-> v]]
  /\ UNCHANGED <<driver, nproc, pc, starts, fileVars, ans, keys, unordered>>

\* A chunk of results.  A single process calls worker(task) twice: it saves what the
\* first call says and returns what the second says.
Deliver ==
  /\ pc = "judge" /\ arrived = << >>
  /\ \E c \in tasks :
       /\ MayDeliver(c)
       /\ tasks' = tasks \ {c}
       /\ \E said, again \in [DOMAIN c -> Sayings] :
            /\ nproc # 1 => again = said
            /\ arrived' = [j \in DOMAIN c |->
                             [idx |-> c[j], saved |-> Verdict(keys[c[j]], said[j]),
                              returned |-> Verdict(keys[c[j]], again[j])]]
  /\ UNCHANGED <<driver, nproc, pc, starts, fileVars, ans, keys, unordered>>

\* A result is put into what the file has, and the file is written again.
OpenSave ==
  /\ pc = "judge" /\ arrived # << >>
  /\ LET k == keys[Head(arrived).idx]
     IN ans' = [i \in DOMAIN tmp.has \cup {k} |-> IF i = k THEN Head(arrived).saved ELSE tmp.has[i]]
  /\ tmp' = Torn /\ pc' = "save"
  /\ UNCHANGED <<driver, nproc, starts, storage, saved, keys, tasks, arrived, unordered>>

Save ==
  /\ pc = "save"
  /\ tmp' = File(ans) /\ saved' = saved \cup {Head(arrived).saved} /\ pc' = "judge"
  /\ unordered' = Append(unordered, Head(arrived)) /\ arrived' = Tail(arrived)
  /\ UNCHANGED <<driver, nproc, starts, storage, ans, keys, tasks>>

\* Mutant: the results are returned as they came.
Results_AsTheyCame == [i \in DOMAIN unordered |-> unordered[i].returned]

\* results[idx] = result
Results == [i \in 1 .. Len(keys) |->
              (CHOOSE r \in ToSet(unordered) : r.idx = i).returned]

\* Back in the driver, which loads the file and asserts that it has what was returned.
\* (eval_data_groups would fill in a key that the file misses, but every key was saved.)
Check ==
  /\ pc = "judge" /\ tasks = {} /\ arrived = << >>
  /\ ans' = tmp.has
  /\ pc' = IF \A i \in DOMAIN keys : keys[i] \in DOMAIN ans' /\ ans'[keys[i]] = Results[i]
           THEN IF driver = "lines" THEN "store" ELSE "dump_again"
           ELSE "assertion"
  /\ UNCHANGED <<driver, nproc, starts, fileVars, keys, tasks, arrived, unordered>>

-----------------------------------------------------------------------------

OpenStorage ==
  /\ pc = "store"
  /\ storage' = Torn /\ pc' = "stored"
  /\ UNCHANGED <<driver, nproc, starts, tmp, saved, memoryVars>>

Store ==
  /\ pc = "stored"
  /\ storage' = File([k \in 1 .. Lines |-> ans[k]]) /\ pc' = "score"
  /\ UNCHANGED <<driver, nproc, starts, tmp, saved, memoryVars>>

\* The end of eval_data_groups.
OpenResult ==
  /\ pc = "dump_again"
  /\ tmp' = Torn /\ pc' = "dumped"
  /\ UNCHANGED <<driver, nproc, starts, storage, saved, memoryVars>>

WriteResult ==
  /\ pc = "dumped"
  /\ tmp' = File(ans) /\ pc' = "score"
  /\ UNCHANGED <<driver, nproc, starts, storage, saved, memoryVars>>

Scored == IF driver = "lines" THEN storage ELSE tmp

\* MathVista_acc, MMVet_acc, or report_acc load the file again.
Score ==
  /\ pc = "score"
  /\ pc' = IF Scored.is = "ok" THEN "done" ELSE "off"
  /\ UNCHANGED <<driver, nproc, starts, fileVars, memoryVars>>

\* The process is killed, or a call of the judge raises: when every try of generate
\* raises, answer is not bound.  What the chunk of that call had found is lost, and a file
\* that is open is left torn.
Stop ==
  /\ pc \notin {"off", "done", "assertion"}
  /\ pc' = "off"
  /\ ans' = << >> /\ keys' = << >> /\ tasks' = {} /\ arrived' = << >> /\ unordered' = << >>
  /\ UNCHANGED <<driver, nproc, starts, fileVars>>

Next ==
  \/ Start \/ Resume \/ Prefetch \/ Dump \/ ExactMatch \/ InitSave \/ Create
  \/ Deliver \/ OpenSave \/ Save \/ Check
  \/ OpenStorage \/ Store \/ OpenResult \/ WriteResult \/ Score \/ Stop

Spec == Init /\ [][Next]_vars

-----------------------------------------------------------------------------

\* The assertion after track_progress_rich: what was saved for a key while the results
\* came in any order is what is returned at its place.
SavedIsReturned == pc # "assertion"

\* A verdict that was ever saved is kept, over interruptions too: its line is not judged
\* again, which costs and may give another verdict.  While tmp_file is written again it is
\* torn, and memory has what it held.  Only a run that is killed there loses verdicts, all
\* of them, and no later run goes on without them: it fails on the torn file.
VerdictsKept ==
  LET Keeps(f) == \A v \in saved : v.of \in DOMAIN f /\ f[v.of] = v
  IN driver = "lines" =>
       IF tmp.is = "torn"
       THEN pc = "off" \/ (pc \in {"create", "save"} /\ Keeps(ans))
       ELSE Keeps(tmp.has)

\* What is scored is a verdict for every line, each of them about its own line, and, where
\* tmp_file was not touched since, the one that was saved.
ScoreIsOfAll ==
  pc = "done" =>
    /\ DOMAIN Scored.has = 1 .. Lines
    /\ \A k \in 1 .. Lines : Scored.has[k].of = k
    /\ driver = "lines" => Scored.has = tmp.has
=============================================================================
