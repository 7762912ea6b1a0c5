------------------------------ MODULE GdeltIngest ------------------------------
(***************************************************************************)
(* The GDELT ingestion as a whole: the forward tick (replay of the pending *)
(* slices, then the slices after the checkpoint), a backfill job with its  *)
(* workers, the resume command, and processes that are killed.             *)
(***************************************************************************)
EXTENDS GdeltSlice

CONSTANTS
  MaxCatchup,    \* forward_max_catchup_slices
  Grace,         \* forward_missing_grace_slices
  ReplayLimit,   \* slices one replay takes per store
  JobRange,      \* slices of the backfill job; {} if there is none
  MaxKills       \* bound on killed processes

ASSUME IngestAssumption ==
  /\ {MaxCatchup, Grace, ReplayLimit} \subseteq Nat \ {0}
  /\ JobRange \subseteq 1 .. MaxSlice
  /\ MaxKills \in Nat

VARIABLES
  latest,   \* newest slice a tick has seen announced
  job,      \* the backfill job: started, and its pending, failed and done sets
  passed,   \* slices the forward ticks chose not to fetch (history)
  killed,   \* slices a killed process was working on (history)
  overrun,  \* slices that failed while a resume was rewriting the failed set (history)
  kills     \* killed processes so far

vars == <<sliceVars, runner, latest, job, passed, killed, overrun, kills>>

Job == [started : BOOLEAN, pending : SUBSET Slices, failed : SUBSET Slices, done : SUBSET Slices]

Init ==
  /\ SliceInit
  /\ latest = NoSlice
  /\ job = [started |-> FALSE, pending |-> {}, failed |-> {}, done |-> {}]
  /\ passed = {} /\ killed = {} /\ overrun = {} /\ kills = 0

\* The n oldest of a set of slices, the n newest of one.
OldestOf(n, S) == {s \in S : Cardinality({t \in S : t < s}) < n}
NewestOf(n, S) == {s \in S : Cardinality({t \in S : t > s}) < n}

-------------------------------------------------------------------------------
(* The forward tick.                                                       *)

ListPending(r, x) ==
  [r EXCEPT !.at = "replay", !.replaying = TRUE, !.store = x, !.slice = NoSlice,
            !.todo = OldestOf(ReplayLimit, pending[x])]

Tick(p) ==
  /\ At(p, "idle")
  /\ Move(p, ListPending([Idle EXCEPT !.job = "tick"], "neo4j"))
  /\ UNCHANGED <<sliceVars, latest, job, passed, killed, overrun, kills>>

\* Mutant: replay ends after the slices pending for Neo4j.
ReplayNeo4jOnly(p) ==
  LET r == runner[p]
      s == Oldest(r.todo)
  IN /\ At(p, "replay")
     /\ \/ /\ r.todo # {}
           /\ Move(p, [r EXCEPT !.at = "write", !.slice = s, !.todo = @ \ {s}])
        \/ /\ r.todo = {}
           /\ Move(p, [Idle EXCEPT !.at = "fetch", !.job = "tick"])
     /\ UNCHANGED <<sliceVars, latest, job, passed, killed, overrun, kills>>

\* replay_pending: one store after the other; a slice whose files are missing is skipped.
Replay(p) ==
  LET r == runner[p]
      s == Oldest(r.todo)
  IN /\ At(p, "replay")
     /\ \/ /\ r.todo # {}
           /\ Move(p, IF s \in files
                      THEN [r EXCEPT !.at = "write", !.slice = s, !.todo = @ \ {s}]
                      ELSE [r EXCEPT !.todo = @ \ {s}])
        \/ /\ r.todo = {} /\ r.store = "neo4j"
           /\ Move(p, ListPending(r, "qdrant"))
        \/ /\ r.todo = {} /\ r.store = "qdrant"
           /\ Move(p, IF r.job = "resume" THEN Idle
                      ELSE [Idle EXCEPT !.at = "fetch", !.job = "tick"])
     /\ UNCHANGED <<sliceVars, latest, job, passed, killed, overrun, kills>>

\* lastupdate.txt announces the same slice as before or a newer one, or cannot be read.
Fetch(p) ==
  /\ At(p, "fetch")
  /\ \/ \E s \in Slices :
          /\ s >= latest
          /\ latest' = s
          /\ Move(p, [runner[p] EXCEPT !.at = "gate", !.latest = s])
     \/ UNCHANGED latest /\ Move(p, Idle)
  /\ UNCHANGED <<sliceVars, job, passed, killed, overrun, kills>>

\* Mutant: the range of slices to catch up ends one too late.
TodoOneMore(seen, newest) ==
  IF seen = NoSlice THEN {newest} ELSE NewestOf(MaxCatchup, (seen + 1) .. (newest + 1))

\* The download gate is the checkpoint alone.
Todo(seen, newest) ==
  IF seen = NoSlice THEN {newest}
  ELSE NewestOf(MaxCatchup, {s \in Slices : seen < s /\ s <= newest})

Gate(p) ==
  LET r == runner[p]
      gap == {s \in Slices : checkpoint < s /\ s <= r.latest}
      todo == Todo(checkpoint, r.latest)
  IN /\ At(p, "gate")
     /\ IF gap = {} THEN Move(p, Idle) /\ UNCHANGED passed
        ELSE /\ Move(p, NextSlice([r EXCEPT !.todo = todo]))
             /\ passed' = passed \cup (gap \ todo)
     /\ UNCHANGED <<sliceVars, latest, job, killed, overrun, kills>>

TooOld(r) == r.latest - r.slice >= Grace

\* Mutant: a tick goes on past every slice the feed does not serve.
MissingGoesOn(p) ==
  LET r == runner[p]
  IN /\ At(p, "download")
     /\ Move(p, IF r.job = "tick" THEN NextSlice(r) ELSE Raise(r))
     /\ UNCHANGED <<sliceVars, latest, job, passed, killed, overrun, kills>>

\* The feed answers 404: a slice long overdue is skipped, a young one is awaited.
Missing(p) ==
  LET r == runner[p]
  IN /\ At(p, "download")
     /\ IF r.job = "tick" /\ TooOld(r)
        THEN /\ Move(p, NextSlice(r))
             /\ passed' = passed \cup {r.slice}
        ELSE /\ Move(p, Raise(r))
             /\ UNCHANGED passed
     /\ UNCHANGED <<sliceVars, latest, job, killed, overrun, kills>>

DownloadRaises(p) ==
  /\ At(p, "download")
  /\ Move(p, Raise(runner[p]))
  /\ UNCHANGED <<sliceVars, latest, job, passed, killed, overrun, kills>>

-------------------------------------------------------------------------------
(* The backfill process: one job, its workers, and the resume command.     *)

NextPop == [Idle EXCEPT !.at = "pop", !.job = "backfill"]

StartBackfill ==
  /\ ~job.started
  /\ JobRange # {}
  /\ \A w \in Workers : At(w, "idle")
  /\ job' = [started |-> TRUE, pending |-> JobRange, failed |-> {}, done |-> {}]
  /\ runner' = [p \in Runners |-> IF p \in Workers THEN NextPop ELSE runner[p]]
  /\ UNCHANGED <<sliceVars, latest, passed, killed, overrun, kills>>

\* A worker returns when nothing is pending.
Pop(w) ==
  LET s == Oldest(job.pending)
  IN /\ At(w, "pop")
     /\ \/ /\ job.pending = {}
           /\ Move(w, Idle)
           /\ UNCHANGED job
        \/ /\ job.pending # {}
           /\ job' = [job EXCEPT !.pending = @ \ {s}]
           /\ Move(w, [runner[w] EXCEPT !.at = "popped", !.slice = s])
     /\ UNCHANGED <<sliceVars, latest, passed, killed, overrun, kills>>

\* is_slice_fully_done asks for the streams, then for each store, until one is not done.
SkipDone(w) ==
  LET r == runner[w]
      stored == r.slice \in storeDone[r.store]
  IN /\ \/ /\ At(w, "popped")
           /\ Goto(w, IF r.slice \in complete THEN "ask" ELSE "download")
        \/ /\ At(w, "ask") /\ ~stored
           /\ Move(w, [r EXCEPT !.at = "download", !.store = "neo4j"])
        \/ /\ At(w, "ask") /\ stored
           /\ Move(w, IF r.store = "neo4j" THEN [r EXCEPT !.store = "qdrant"]
                                           ELSE [r EXCEPT !.at = "ended"])
     /\ UNCHANGED <<sliceVars, latest, job, passed, killed, overrun, kills>>

\* mark_slice_done: no longer failed, no longer pending, done.
MarkDone(w) ==
  LET s == runner[w].slice
  IN /\ \/ /\ At(w, "ended")
           /\ job' = [job EXCEPT !.failed = @ \ {s}]
           /\ Goto(w, "unpend")
        \/ /\ At(w, "unpend")
           /\ job' = [job EXCEPT !.pending = @ \ {s}]
           /\ Goto(w, "count")
        \/ /\ At(w, "count")
           /\ job' = [job EXCEPT !.done = @ \cup {s}]
           /\ Move(w, NextPop)
     /\ UNCHANGED <<sliceVars, latest, passed, killed, overrun, kills>>

Resuming == \E p \in Ticks : runner[p].at \in {"requeue", "clear"}

\* Mutant: a slice whose ingestion raised is dropped.
FailsSilently(w) ==
  /\ At(w, "raised")
  /\ Move(w, NextPop)
  /\ UNCHANGED <<sliceVars, latest, job, passed, killed, overrun, kills>>

\* mark_slice_failed: no longer pending, failed.
MarkFailed(w) ==
  LET s == runner[w].slice
  IN /\ \/ /\ At(w, "raised")
           /\ job' = [job EXCEPT !.pending = @ \ {s}]
           /\ Goto(w, "fails")
           /\ UNCHANGED overrun
        \/ /\ At(w, "fails")
           /\ job' = [job EXCEPT !.failed = @ \cup {s}]
           /\ overrun' = IF Resuming THEN overrun \cup {s} ELSE overrun
           /\ Move(w, NextPop)
     /\ UNCHANGED <<sliceVars, latest, passed, killed, kills>>

\* The resume command, which may be given while the workers run: it reads the failed
\* slices, makes them pending, deletes the set, and replays what the stores have pending.
ReplayForResume == ListPending([Idle EXCEPT !.job = "resume"], "neo4j")

Resume(p) ==
  /\ At(p, "idle")
  /\ job.started
  /\ Move(p, IF job.failed = {} THEN ReplayForResume
             ELSE [Idle EXCEPT !.at = "requeue", !.job = "resume", !.todo = job.failed])
  /\ UNCHANGED <<sliceVars, latest, job, passed, killed, overrun, kills>>

Requeue(p) ==
  /\ At(p, "requeue")
  /\ job' = [job EXCEPT !.pending = @ \cup runner[p].todo]
  /\ Goto(p, "clear")
  /\ UNCHANGED <<sliceVars, latest, passed, killed, overrun, kills>>

ClearFailed(p) ==
  /\ At(p, "clear")
  /\ job' = [job EXCEPT !.failed = {}]
  /\ Move(p, ReplayForResume)
  /\ UNCHANGED <<sliceVars, latest, passed, killed, overrun, kills>>

-------------------------------------------------------------------------------
(* Processes that die.                                                     *)

Held(P) == {runner[p].slice : p \in {q \in P : ~runner[q].replaying}} \ {NoSlice}

\* A process is killed, or loses Redis: all workers are coroutines of one process.
Kill(P) ==
  /\ \E p \in P : ~At(p, "idle")
  /\ kills < MaxKills
  /\ kills' = kills + 1
  /\ killed' = killed \cup Held(P)
  /\ runner' = [p \in Runners |-> IF p \in P THEN Idle ELSE runner[p]]
  /\ UNCHANGED <<sliceVars, latest, job, passed, overrun>>

Step(p) ==
  \/ SliceStep(p) /\ UNCHANGED <<latest, job, passed, killed, overrun, kills>>
  \/ Missing(p)
TickStep(p) == Replay(p) \/ Fetch(p) \/ Gate(p)
ResumeStep(p) == Requeue(p) \/ ClearFailed(p)
WorkerStep(w) == Pop(w) \/ SkipDone(w) \/ MarkDone(w) \/ MarkFailed(w)

Next ==
  \/ \E p \in Runners : Step(p) \/ DownloadRaises(p)
  \/ \E p \in Runners : StoreRaises(p) /\ UNCHANGED <<latest, job, passed, killed, overrun, kills>>
  \/ \E p \in Ticks : Tick(p) \/ TickStep(p) \/ Resume(p) \/ ResumeStep(p)
  \/ StartBackfill
  \/ \E w \in Workers : WorkerStep(w)
  \/ \E p \in Ticks : Kill({p})
  \/ Kill(Workers)

Spec == Init /\ [][Next]_vars

-------------------------------------------------------------------------------
(* Fairness: the scheduler starts a tick again and again, every process    *)
(* takes its next step, and the stores and Redis recover from an outage.   *)
(* Operators, feed and kills owe nothing.                                  *)

Fairness ==
  /\ \A p \in Ticks : WF_vars(Tick(p) \/ Step(p) \/ TickStep(p) \/ ResumeStep(p))
  /\ \A w \in Workers : WF_vars(Step(w) \/ WorkerStep(w))
  /\ <>[][\A p \in Runners : ~StoreRaises(p)]_vars

FairSpec == Spec /\ Fairness

-------------------------------------------------------------------------------
(* Properties.                                                             *)

TypeOK ==
  /\ {files, complete, passed, killed, overrun} \subseteq SUBSET Slices
  /\ {storeDone, pending, written} \subseteq [Stores -> SUBSET Slices]
  /\ {checkpoint, latest} \subseteq Slices \cup {NoSlice}
  /\ runner \in [Runners -> Runner]
  /\ job \in Job
  /\ kills \in 0 .. MaxKills

\* The state "done" that stops a backfill from doing a slice again stands only for
\* slices the store holds.
DoneIsWritten == \A x \in Stores : storeDone[x] \subseteq written[x]

\* remove_pending comes after a write that succeeded, whoever of the forward tick,
\* replay and backfill removes the slice and whoever enqueued it.
PendingLeavesOnlyWritten ==
  [][\A x \in Stores : pending[x] \ pending'[x] \subseteq written[x]]_vars

\* A complete slice nobody works on is in each store or pending for it, unless its
\* process was killed between the parquet checkpoint and the intents.
StrandedOnlyByKill ==
  \A s \in complete \ (killed \cup Held(Runners)) :
    \A x \in Stores : s \in written[x] \cup pending[x]

\* A backfill loses no slice but to a kill, or by failing again while a resume is
\* rewriting the failed set: every other one is pending, failed, done or in a worker's
\* hands, whatever the workers, the stores and several resumes do to the same slices.
JobAccounted ==
  job.started =>
    JobRange \subseteq job.pending \cup job.failed \cup job.done \cup Held(Workers)
                      \cup killed \cup overrun

\* The failed slices of a job are all retried: "Move all failed slices back into
\* pending" (run.py:332).  Not so for one that fails between resume's reads and its
\* deletion of the set.
FailedAreKept ==
  job.started =>
    JobRange \subseteq job.pending \cup job.failed \cup job.done \cup Held(Workers) \cup killed

\* mark_slice_done promises a slice that is, or will be, in both stores.
JobDoneRecoverable ==
  \A s \in job.done : \A x \in Stores : s \in written[x] \cup pending[x]

\* Beyond the backfill's range the checkpoint passes a slice only when its files are
\* on disk, or a tick left it for the backfill or gave it up as never published.
CheckpointPassesByPolicy ==
  \A s \in Slices :
    s <= checkpoint /\ (job.started => \A t \in JobRange : t < s) =>
      s \in files \cup passed

\* A slice pending for a store is written to it in the end, though writes fail,
\* replay takes a few slices at a time and processes die.
PendingReplayed ==
  \A s \in Slices, x \in Stores : s \in pending[x] ~> s \in written[x]

-------------------------------------------------------------------------------
(* The inductive invariant.  What a runner has done so far with its slice, *)
(* store by store, decides what it may leave behind.                       *)

Safe(s, x) == s \in written[x] \cup pending[x]

Ingesting == {"check", "read", "advance", "intend", "write", "mark", "forget", "except"}
Asking == {"popped", "ask"}
Ending == {"ended", "unpend", "count", "raised", "fails"}
Minds(r, s) == ~r.replaying /\ r.at \in Ingesting /\ r.slice = s

RunnerOK(r) ==
  /\ r.at = "replay" => r.replaying
  /\ r.at \in {"mark", "forget"} => r.slice \in written[r.store]
  /\ r.at \in {"fetch", "gate", "pop", "popped", "download", "check", "read", "advance",
                "intend", "except"} \cup Asking \cup Ending => ~r.replaying
  /\ r.at \in {"pop", "popped", "download", "check", "read", "advance"} => r.store = "neo4j"
  /\ r.at \in {"download"} \cup Asking \cup Ending \cup Ingesting => r.slice \in Slices
  /\ ~r.replaying /\ r.at \in {"pop", "download"} \cup Asking \cup Ingesting =>
       r.job \in {"tick", "backfill"}
  /\ ~r.replaying /\ r.at \in {"write", "mark", "forget", "except"} => Safe(r.slice, r.store)
  /\ ~r.replaying /\ r.at \in {"intend", "write", "mark", "forget", "except"} /\ r.store = "qdrant" =>
       Safe(r.slice, "neo4j")
  /\ r.at = "ask" /\ r.store = "qdrant" => Safe(r.slice, "neo4j")
  /\ r.at \in {"ended", "unpend", "count"} => \A x \in Stores : Safe(r.slice, x)

CompleteInv ==
  \A s \in complete :
    \/ s \in killed
    \/ \E p \in Runners : Minds(runner[p], s)
    \/ \A x \in Stores : Safe(s, x)

\* What holds between any two steps of the ingestion: each runner has kept its part of
\* the protocol, and every complete slice is minded by one, stored or pending, or lost
\* with its process.
IngestInv ==
  /\ TypeOK
  /\ DoneIsWritten
  /\ JobDoneRecoverable
  /\ \A p \in Runners : RunnerOK(runner[p])
  /\ CompleteInv

\* Every complete slice nobody works on is in each store or pending for it, kills
\* included: the write-ahead intent is there for them.
NothingStranded ==
  \A s \in complete \ Held(Runners) : \A x \in Stores : s \in written[x] \cup pending[x]
===============================================================================
