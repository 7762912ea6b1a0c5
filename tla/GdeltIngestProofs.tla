--------------------------- MODULE GdeltIngestProofs ---------------------------
(* Proofs about GdeltIngest, for any number of slices, ticks, workers and  *)
(* kills and any limits.  IngestInv is inductive: one lemma per action.    *)
(* What a backfill job and the forward checkpoint account for comes after: *)
(* JobInv and PolicyInv are inductive on top of it.                        *)
EXTENDS GdeltIngest, FiniteSetTheorems, WellFoundedInduction, TLAPS

USE SliceAssumption, IngestAssumption

-------------------------------------------------------------------------------
(* Slices, and where a runner goes on.                                     *)

\* A set of slices has an oldest one, so Oldest picks from the set.
LEMMA OldestIn ==
  ASSUME NEW S, S \subseteq Slices, S # {}
  PROVE  Oldest(S) \in S
  <1> DEFINE R == {ss \in Nat \X Nat : ss[1] < ss[2]}
  <1>1. R = OpToRel(<, Nat)
    BY DEF OpToRel
  <1>2. IsWellFoundedOn(R, Nat)
    BY <1>1, NatLessThanWellFounded
  <1>3. S \subseteq Nat
    BY DEF Slices
  <1> HIDE DEF R
  <1>4. PICK s \in S : \A t \in S : ~ (<<t, s>> \in R)
    BY <1>2, <1>3, WFMin
  <1>5. ASSUME NEW t \in S PROVE s <= t
    <2>1. <<t, s>> \notin R
      BY <1>4
    <2>2. ~(t < s)
      BY <1>3, <2>1 DEF R
    <2> QED BY <1>3, <2>2
  <1> QED BY <1>5 DEF Oldest

LEMMA IdleType == Idle \in Runner
  BY DEF Idle, Runner, Stores, NoSlice

\* A tick goes on to download a slice, or is over.
LEMMA NextSliceIs ==
  ASSUME NEW r, r.todo \subseteq Slices, r.latest \in Slices \cup {NoSlice}
  PROVE  /\ NextSlice(r) \in Runner
         /\ ~NextSlice(r).replaying
         /\ NextSlice(r).store = "neo4j"
         /\ \/ NextSlice(r).at = "idle"
            \/ /\ NextSlice(r).at = "download" /\ NextSlice(r).job = "tick"
               /\ NextSlice(r).slice \in Slices
  <1>1. CASE r.todo = {}
    BY <1>1, IdleType DEF NextSlice, Idle
  <1>2. CASE r.todo # {}
    <2>1. Oldest(r.todo) \in Slices
      BY <1>2, OldestIn
    <2> QED BY <1>2, <2>1 DEF NextSlice, Idle, Runner, Stores, NoSlice
  <1> QED BY <1>1, <1>2

LEMMA RaiseIs ==
  ASSUME NEW r \in Runner
  PROVE  /\ Raise(r) \in Runner
         /\ Raise(r) = Idle \/ (Raise(r).at = "raised" /\ Raise(r).replaying = r.replaying
                                /\ Raise(r).slice = r.slice)
  BY IdleType DEF Raise, Runner

LEMMA NextStoreIs ==
  ASSUME NEW r \in Runner, r.job \in {"tick", "backfill"}
  PROVE  /\ NextStore(r) \in Runner
         /\ r.store = "neo4j" =>
              NextStore(r) = [r EXCEPT !.at = "intend", !.store = "qdrant"]
         /\ r.store = "qdrant" =>
              \/ NextStore(r) = [r EXCEPT !.at = "ended"]
              \/ /\ ~NextStore(r).replaying /\ NextStore(r).store = "neo4j"
                 /\ \/ NextStore(r).at = "idle"
                    \/ /\ NextStore(r).at = "download" /\ NextStore(r).job = "tick"
                       /\ NextStore(r).slice \in Slices
  <1>1. r.todo \subseteq Slices /\ r.latest \in Slices \cup {NoSlice} /\ r.store \in Stores
    BY DEF Runner
  <1>2. CASE r.store = "neo4j"
    <2>1. NextStore(r) = [r EXCEPT !.at = "intend", !.store = "qdrant"]
      BY <1>2 DEF NextStore
    <2> QED BY <1>2, <2>1 DEF Runner, Stores
  <1>3. CASE r.store = "qdrant" /\ r.job = "tick"
    <2>1. NextStore(r) = NextSlice(r)
      BY <1>3 DEF NextStore
    <2> QED BY <1>1, <1>3, <2>1, NextSliceIs
  <1>4. CASE r.store = "qdrant" /\ r.job = "backfill"
    <2>1. NextStore(r) = [r EXCEPT !.at = "ended"]
      BY <1>4 DEF NextStore
    <2> QED BY <1>4, <2>1 DEF Runner
  <1> QED BY <1>1, <1>2, <1>3, <1>4 DEF Stores

LEMMA ReplayNextIs ==
  ASSUME NEW r \in Runner
  PROVE  ReplayNext(r) \in Runner
  BY DEF ReplayNext, Runner, NoSlice

-------------------------------------------------------------------------------
(* What a step of one runner has to show.                                  *)

\* Nothing that was stored or pending is neither.
Grows ==
  \A x \in Stores :
    /\ written[x] \subseteq written'[x]
    /\ pending[x] \subseteq pending'[x] \cup written'[x]

StaysSafe(s, x) == s \in written'[x] \cup pending'[x]

Moves(p) ==
  /\ runner' \in [Runners -> Runner]
  /\ \A q \in Runners \ {p} : runner'[q] = runner[q]

\* The runner still minds its slice, or leaves it stored or pending, or never completed it.
Leaves(p) ==
  \A s \in complete' :
    Minds(runner[p], s) => Minds(runner'[p], s) \/ \A x \in Stores : Safe(s, x)'

\* A slice becomes complete in the hands of the runner.
Brings(p) == \A s \in complete' \ complete : Minds(runner'[p], s)

LEMMA Assemble ==
  ASSUME IngestInv, NEW p \in Runners,
         TypeOK', Grows, Moves(p), Leaves(p), Brings(p), RunnerOK(runner[p])',
         killed \subseteq killed',
         storeDone' = storeDone \/ DoneIsWritten',
         job'.done = job.done \/ JobDoneRecoverable'
  PROVE  IngestInv'
  <1>1. \A s, x : x \in Stores /\ Safe(s, x) => Safe(s, x)'
    BY DEF Grows, Safe
  <1>2. DoneIsWritten'
    BY DEF DoneIsWritten, IngestInv, Grows
  <1>3. JobDoneRecoverable'
    <2>1. CASE job'.done = job.done
      BY <1>1, <2>1 DEF JobDoneRecoverable, IngestInv, Safe
    <2> QED BY <2>1
  <1>4. ASSUME NEW q \in Runners PROVE RunnerOK(runner[q])'
    <2>1. CASE q = p
      BY <2>1
    <2>2. CASE q # p
      <3>1. runner'[q] = runner[q] /\ RunnerOK(runner[q])
        BY <2>2 DEF Moves, IngestInv
      <3>2. runner[q].store \in Stores
        BY DEF IngestInv, TypeOK, Runner
      <3> QED BY <1>1, <3>1, <3>2 DEF RunnerOK, Grows, Stores
    <2> QED BY <2>1, <2>2
  <1>5. CompleteInv'
    <2> SUFFICES ASSUME NEW s \in complete'
                 PROVE  \/ s \in killed'
                        \/ \E q \in Runners : Minds(runner'[q], s)
                        \/ \A x \in Stores : Safe(s, x)'
      BY DEF CompleteInv, Minds
    <2>1. CASE s \notin complete
      BY <2>1 DEF Brings
    <2>2. CASE s \in killed \/ \A x \in Stores : Safe(s, x)
      BY <1>1, <2>2
    <2>3. ASSUME NEW q \in Runners, Minds(runner[q], s)
          PROVE  \/ \E o \in Runners : Minds(runner'[o], s)
                 \/ \A x \in Stores : Safe(s, x)'
      <3>1. CASE q = p
        BY <2>3, <3>1 DEF Leaves
      <3>2. CASE q # p
        BY <2>3, <3>2 DEF Moves
      <3> QED BY <3>1, <3>2
    <2> QED BY <2>1, <2>2, <2>3 DEF IngestInv, CompleteInv
  <1> QED BY <1>2, <1>3, <1>4, <1>5 DEF IngestInv

-------------------------------------------------------------------------------
(* One lemma per step of run_forward_slice.                                *)

LEMMA RunnerAt ==
  ASSUME IngestInv, NEW p \in Runners
  PROVE  /\ runner[p] \in Runner
         /\ RunnerOK(runner[p])
         /\ runner[p].store \in Stores
  BY DEF IngestInv, TypeOK, Runner

LEMMA WriteParquetKeeps ==
  ASSUME IngestInv, NEW p \in Runners, WriteParquet(p),
         UNCHANGED <<latest, job, passed, killed, overrun, kills>>
  PROVE  IngestInv'
  <1> DEFINE r == runner[p]
             r2 == [r EXCEPT !.at = "check"]
  <1>1. r \in Runner /\ RunnerOK(r)
    BY RunnerAt
  <1>2. r.at = "download" /\ r.slice \in Slices /\ ~r.replaying
        /\ r.store = "neo4j" /\ r.job \in {"tick", "backfill"}
    BY <1>1 DEF WriteParquet, At, RunnerOK
  <1>3. r2 \in Runner /\ runner' = [runner EXCEPT ![p] = r2]
    BY <1>1 DEF WriteParquet, Move, Goto, Runner
  <1>4. Moves(p) /\ runner'[p] = r2
    BY <1>3 DEF Moves, IngestInv, TypeOK
  <1>5. TypeOK'
    BY <1>2, <1>4 DEF WriteParquet, Moves, IngestInv, TypeOK
  <1>6. Grows
    BY DEF WriteParquet, Grows
  <1>7. RunnerOK(runner[p])'
    BY <1>1, <1>2, <1>4 DEF RunnerOK, Ingesting, Runner
  <1>8. Leaves(p) /\ Brings(p)
    BY <1>1, <1>2, <1>4 DEF WriteParquet, Leaves, Brings, Minds, Ingesting, Runner
  <1> QED BY <1>4, <1>5, <1>6, <1>7, <1>8, Assemble DEF WriteParquet

LEMMA StreamFailsKeeps ==
  ASSUME IngestInv, NEW p \in Runners, StreamFails(p),
         UNCHANGED <<latest, job, passed, killed, overrun, kills>>
  PROVE  IngestInv'
  <1> DEFINE r == runner[p]
             r2 == [r EXCEPT !.at = "check"]
  <1>1. r \in Runner /\ RunnerOK(r)
    BY RunnerAt
  <1>2. r.at = "download" /\ r.slice \in Slices /\ ~r.replaying
        /\ r.store = "neo4j" /\ r.job \in {"tick", "backfill"}
    BY <1>1 DEF StreamFails, At, RunnerOK
  <1>3. r2 \in Runner /\ runner' = [runner EXCEPT ![p] = r2]
    BY <1>1 DEF StreamFails, Move, Goto, Runner
  <1>4. Moves(p) /\ runner'[p] = r2
    BY <1>3 DEF Moves, IngestInv, TypeOK
  <1>5. TypeOK'
    BY <1>2, <1>4 DEF StreamFails, Moves, IngestInv, TypeOK
  <1>6. Grows
    BY DEF StreamFails, Grows
  <1>7. RunnerOK(runner[p])'
    BY <1>1, <1>2, <1>4 DEF RunnerOK, Ingesting, Runner
  <1>8. Leaves(p) /\ Brings(p)
    BY <1>1, <1>2, <1>4 DEF StreamFails, Leaves, Brings, Minds, Ingesting, Runner
  <1> QED BY <1>4, <1>5, <1>6, <1>7, <1>8, Assemble DEF StreamFails

\* The check lets go only of a slice that is not complete.
LEMMA CheckKeeps ==
  ASSUME IngestInv, NEW p \in Runners, Check(p),
         UNCHANGED <<latest, job, passed, killed, overrun, kills>>
  PROVE  IngestInv'
  <1> DEFINE r == runner[p]
             r2 == IF r.slice \in complete THEN [r EXCEPT !.at = "read"] ELSE Raise(r)
  <1>1. r \in Runner /\ RunnerOK(r)
    BY RunnerAt
  <1>2. r.at = "check" /\ r.slice \in Slices /\ ~r.replaying
        /\ r.store = "neo4j" /\ r.job \in {"tick", "backfill"}
    BY <1>1 DEF Check, At, RunnerOK, Ingesting
  <1>3. r2 \in Runner /\ runner' = [runner EXCEPT ![p] = r2]
    BY <1>1, RaiseIs DEF Check, Move, Runner
  <1>4. Moves(p) /\ runner'[p] = r2
    BY <1>3 DEF Moves, IngestInv, TypeOK
  <1>5. TypeOK' /\ Grows
    BY <1>4 DEF Check, sliceVars, Moves, IngestInv, TypeOK, Grows
  <1>6. CASE r.slice \in complete
    <2>1. RunnerOK(runner[p])'
      BY <1>1, <1>2, <1>4, <1>6 DEF RunnerOK, Ingesting, Runner
    <2>2. Leaves(p) /\ Brings(p)
      BY <1>1, <1>2, <1>4, <1>6 DEF Check, sliceVars, Leaves, Brings, Minds, Ingesting, Runner
    <2> QED BY <1>4, <1>5, <2>1, <2>2, Assemble DEF Check, sliceVars
  <1>7. CASE r.slice \notin complete
    <2>1. RunnerOK(runner[p])'
      BY <1>1, <1>2, <1>4, <1>7, RaiseIs DEF RunnerOK, Asking, Ending, Ingesting, Idle
    <2>2. Leaves(p) /\ Brings(p)
      BY <1>2, <1>7 DEF Check, sliceVars, Leaves, Brings, Minds
    <2> QED BY <1>4, <1>5, <2>1, <2>2, Assemble DEF Check, sliceVars
  <1> QED BY <1>6, <1>7

LEMMA ReadCheckpointKeeps ==
  ASSUME IngestInv, NEW p \in Runners, ReadCheckpoint(p),
         UNCHANGED <<latest, job, passed, killed, overrun, kills>>
  PROVE  IngestInv'
  <1> DEFINE r == runner[p]
             r2 == [r EXCEPT !.at = "advance", !.seen = checkpoint]
  <1>1. r \in Runner /\ RunnerOK(r)
    BY RunnerAt
  <1>2. r.at = "read" /\ r.slice \in Slices /\ ~r.replaying
        /\ r.store = "neo4j" /\ r.job \in {"tick", "backfill"}
    BY <1>1 DEF ReadCheckpoint, At, RunnerOK, Ingesting
  <1>3. r2 \in Runner /\ runner' = [runner EXCEPT ![p] = r2]
    BY <1>1 DEF ReadCheckpoint, Move, Runner, IngestInv, TypeOK
  <1>4. Moves(p) /\ runner'[p] = r2
    BY <1>3 DEF Moves, IngestInv, TypeOK
  <1>5. TypeOK' /\ Grows
    BY <1>4 DEF ReadCheckpoint, sliceVars, Moves, IngestInv, TypeOK, Grows
  <1>6. RunnerOK(runner[p])'
    BY <1>1, <1>2, <1>4 DEF RunnerOK, Ingesting, Runner
  <1>7. Leaves(p) /\ Brings(p)
    BY <1>1, <1>2, <1>4 DEF ReadCheckpoint, sliceVars, Leaves, Brings, Minds, Ingesting, Runner
  <1> QED BY <1>4, <1>5, <1>6, <1>7, Assemble DEF ReadCheckpoint, sliceVars

LEMMA AdvanceKeeps ==
  ASSUME IngestInv, NEW p \in Runners, Advance(p),
         UNCHANGED <<latest, job, passed, killed, overrun, kills>>
  PROVE  IngestInv'
  <1> DEFINE r == runner[p]
             r2 == [r EXCEPT !.at = "intend", !.seen = NoSlice]
  <1>1. r \in Runner /\ RunnerOK(r)
    BY RunnerAt
  <1>2. r.at = "advance" /\ r.slice \in Slices /\ ~r.replaying
        /\ r.store = "neo4j" /\ r.job \in {"tick", "backfill"}
    BY <1>1 DEF Advance, At, RunnerOK, Ingesting
  <1>3. r2 \in Runner /\ runner' = [runner EXCEPT ![p] = r2]
    BY <1>1 DEF Advance, Move, Runner
  <1>4. Moves(p) /\ runner'[p] = r2
    BY <1>3 DEF Moves, IngestInv, TypeOK
  <1>5. TypeOK'
    BY <1>2, <1>4 DEF Advance, Moves, IngestInv, TypeOK
  <1>6. Grows
    BY DEF Advance, Grows
  <1>7. RunnerOK(runner[p])'
    BY <1>1, <1>2, <1>4 DEF RunnerOK, Ingesting, Runner
  <1>8. Leaves(p) /\ Brings(p)
    BY <1>1, <1>2, <1>4 DEF Advance, Leaves, Brings, Minds, Ingesting, Runner
  <1> QED BY <1>4, <1>5, <1>6, <1>7, <1>8, Assemble DEF Advance

LEMMA IntendKeeps ==
  ASSUME IngestInv, NEW p \in Runners, Intend(p),
         UNCHANGED <<latest, job, passed, killed, overrun, kills>>
  PROVE  IngestInv'
  <1> DEFINE r == runner[p]
             r2 == [r EXCEPT !.at = "write"]
  <1>1. r \in Runner /\ RunnerOK(r) /\ r.store \in Stores
    BY RunnerAt
  <1>2. r.at = "intend" /\ r.slice \in Slices /\ ~r.replaying
        /\ r.job \in {"tick", "backfill"} /\ (r.store = "qdrant" => Safe(r.slice, "neo4j"))
    BY <1>1 DEF Intend, At, RunnerOK, Ingesting
  <1>3. r2 \in Runner /\ runner' = [runner EXCEPT ![p] = r2]
    BY <1>1 DEF Intend, Move, Goto, Runner
  <1>4. Moves(p) /\ runner'[p] = r2
    BY <1>3 DEF Moves, IngestInv, TypeOK
  <1>5. TypeOK'
    BY <1>1, <1>2, <1>4 DEF Intend, Moves, IngestInv, TypeOK
  <1>6. /\ Grows
        /\ r.slice \in pending'[r.store]
        /\ \A x \in Stores : Safe(r.slice, x) => StaysSafe(r.slice, x)
    BY <1>1 DEF Intend, Grows, Safe, StaysSafe, IngestInv, TypeOK
  <1>7. RunnerOK(runner[p])'
    <2>1. runner'[p].at = "write" /\ runner'[p].slice = r.slice /\ runner'[p].store = r.store
          /\ ~runner'[p].replaying /\ runner'[p].job = r.job
      BY <1>1, <1>2, <1>4 DEF Runner
    <2>2. StaysSafe(r.slice, r.store) /\ (r.store = "qdrant" => StaysSafe(r.slice, "neo4j"))
      BY <1>2, <1>6 DEF Safe, StaysSafe, Stores
    <2> QED BY <1>2, <2>1, <2>2 DEF RunnerOK, Ingesting, Safe, StaysSafe
  <1>8. Leaves(p) /\ Brings(p)
    BY <1>1, <1>2, <1>4 DEF Intend, Leaves, Brings, Minds, Ingesting, Runner
  <1> QED BY <1>4, <1>5, <1>6, <1>7, <1>8, Assemble DEF Intend

LEMMA WriteStoreKeeps ==
  ASSUME IngestInv, NEW p \in Runners, WriteStore(p),
         UNCHANGED <<latest, job, passed, killed, overrun, kills>>
  PROVE  IngestInv'
  <1> DEFINE r == runner[p]
             r2 == [r EXCEPT !.at = "mark"]
  <1>1. r \in Runner /\ RunnerOK(r) /\ r.store \in Stores
    BY RunnerAt
  <1>2. r.at = "write" /\ r.slice \in Slices
        /\ (~r.replaying => /\ r.job \in {"tick", "backfill"}
                            /\ Safe(r.slice, r.store)
                            /\ r.store = "qdrant" => Safe(r.slice, "neo4j"))
    BY <1>1 DEF WriteStore, At, RunnerOK, Ingesting
  <1>3. r2 \in Runner /\ runner' = [runner EXCEPT ![p] = r2]
    BY <1>1 DEF WriteStore, Move, Goto, Runner
  <1>4. Moves(p) /\ runner'[p] = r2
    BY <1>3 DEF Moves, IngestInv, TypeOK
  <1>5. TypeOK'
    BY <1>1, <1>2, <1>4 DEF WriteStore, Moves, IngestInv, TypeOK
  <1>6. /\ Grows
        /\ r.slice \in written'[r.store]
        /\ \A x \in Stores : Safe(r.slice, x) => StaysSafe(r.slice, x)
    BY <1>1 DEF WriteStore, Grows, Safe, StaysSafe, IngestInv, TypeOK
  <1>7. RunnerOK(runner[p])'
    <2>1. runner'[p].at = "mark" /\ runner'[p].slice = r.slice /\ runner'[p].store = r.store
          /\ runner'[p].replaying = r.replaying /\ runner'[p].job = r.job
      BY <1>1, <1>2, <1>4 DEF Runner
    <2>2. StaysSafe(r.slice, r.store) /\ (~r.replaying /\ r.store = "qdrant" => StaysSafe(r.slice, "neo4j"))
      BY <1>2, <1>6 DEF Safe, StaysSafe, Stores
    <2> QED BY <1>2, <1>6, <2>1, <2>2 DEF RunnerOK, Asking, Ending, Ingesting, Safe, StaysSafe
  <1>8. Leaves(p) /\ Brings(p)
    BY <1>1, <1>2, <1>4 DEF WriteStore, Leaves, Brings, Minds, Ingesting, Runner
  <1> QED BY <1>4, <1>5, <1>6, <1>7, <1>8, Assemble DEF WriteStore

\* A store is "done" for a slice that was just written to it.
LEMMA MarkKeeps ==
  ASSUME IngestInv, NEW p \in Runners, Mark(p),
         UNCHANGED <<latest, job, passed, killed, overrun, kills>>
  PROVE  IngestInv'
  <1> DEFINE r == runner[p]
             r2 == [r EXCEPT !.at = "forget"]
  <1>1. r \in Runner /\ RunnerOK(r) /\ r.store \in Stores
    BY RunnerAt
  <1>2. r.at = "mark" /\ r.slice \in Slices /\ r.slice \in written[r.store]
        /\ (~r.replaying => /\ r.job \in {"tick", "backfill"}
                            /\ Safe(r.slice, r.store)
                            /\ r.store = "qdrant" => Safe(r.slice, "neo4j"))
    BY <1>1 DEF Mark, At, RunnerOK, Ingesting
  <1>3. r2 \in Runner /\ runner' = [runner EXCEPT ![p] = r2]
    BY <1>1 DEF Mark, Move, Goto, Runner
  <1>4. Moves(p) /\ runner'[p] = r2
    BY <1>3 DEF Moves, IngestInv, TypeOK
  <1>5. TypeOK'
    BY <1>1, <1>2, <1>4 DEF Mark, Moves, IngestInv, TypeOK
  <1>6. Grows /\ written' = written /\ pending' = pending
    BY DEF Mark, Grows
  <1>7. DoneIsWritten'
    BY <1>1, <1>2, <1>6 DEF Mark, DoneIsWritten, IngestInv, TypeOK
  <1>8. RunnerOK(runner[p])'
    <2>1. runner'[p].at = "forget" /\ runner'[p].slice = r.slice /\ runner'[p].store = r.store
          /\ runner'[p].replaying = r.replaying /\ runner'[p].job = r.job
      BY <1>1, <1>2, <1>4 DEF Runner
    <2> QED BY <1>2, <1>6, <2>1 DEF RunnerOK, Asking, Ending, Ingesting, Safe, StaysSafe
  <1>9. Leaves(p) /\ Brings(p)
    BY <1>1, <1>2, <1>4 DEF Mark, Leaves, Brings, Minds, Ingesting, Runner
  <1> QED BY <1>4, <1>5, <1>6, <1>7, <1>8, <1>9, Assemble DEF Mark

\* What the runner is, once it is through with a store in which its slice is safe.
LEMMA AfterStore ==
  ASSUME IngestInv, NEW p \in Runners, Moves(p), Grows, complete' = complete,
         runner'[p] = NextStore(runner[p]),
         runner[p].slice \in Slices, ~runner[p].replaying, runner[p].job \in {"tick", "backfill"},
         runner[p].at \in {"forget", "except"},
         Safe(runner[p].slice, runner[p].store),
         runner[p].store = "qdrant" => Safe(runner[p].slice, "neo4j")
  PROVE  RunnerOK(runner[p])' /\ Leaves(p) /\ Brings(p)
  <1> DEFINE r == runner[p]
  <1>1. r \in Runner /\ r.store \in Stores
    BY RunnerAt
  <1>2. \A x \in Stores : Safe(r.slice, x) => StaysSafe(r.slice, x)
    BY DEF Grows, Safe, StaysSafe
  <1>3. CASE r.store = "neo4j"
    <2>1. runner'[p] = [r EXCEPT !.at = "intend", !.store = "qdrant"]
      BY <1>1, <1>3, NextStoreIs
    <2>2. runner'[p].at = "intend" /\ runner'[p].slice = r.slice /\ runner'[p].store = "qdrant"
          /\ ~runner'[p].replaying /\ runner'[p].job = r.job
      BY <1>1, <2>1 DEF Runner
    <2>3. StaysSafe(r.slice, "neo4j")
      BY <1>2, <1>3 DEF Stores
    <2>4. RunnerOK(runner[p])'
      BY <2>2, <2>3 DEF RunnerOK, Ingesting, Safe, StaysSafe
    <2>5. Leaves(p) /\ Brings(p)
      BY <2>2 DEF Leaves, Brings, Minds, Ingesting
    <2> QED BY <2>4, <2>5
  <1>4. CASE r.store = "qdrant"
    <2>1. \A x \in Stores : StaysSafe(r.slice, x)
      BY <1>2, <1>4 DEF Stores
    <2>2. \/ runner'[p] = [r EXCEPT !.at = "ended"]
          \/ /\ ~runner'[p].replaying /\ runner'[p].store = "neo4j"
             /\ \/ runner'[p].at = "idle"
                \/ /\ runner'[p].at = "download" /\ runner'[p].job = "tick"
                   /\ runner'[p].slice \in Slices
      BY <1>1, <1>4, NextStoreIs
    <2>3. ASSUME runner'[p] = [r EXCEPT !.at = "ended"]
          PROVE  RunnerOK(runner[p])'
      <3>1. runner'[p].at = "ended" /\ runner'[p].slice = r.slice /\ ~runner'[p].replaying
        BY <1>1, <2>3 DEF Runner
      <3> QED BY <2>1, <3>1 DEF RunnerOK, Asking, Ending, Ingesting, Safe, StaysSafe
    <2>4. RunnerOK(runner[p])'
      <3>1. CASE runner'[p].at = "idle"
        BY <3>1 DEF RunnerOK, Asking, Ending, Ingesting
      <3>2. ASSUME ~runner'[p].replaying, runner'[p].store = "neo4j",
                   runner'[p].at = "download", runner'[p].job = "tick", runner'[p].slice \in Slices
            PROVE  RunnerOK(runner[p])'
        BY <3>2 DEF RunnerOK, Ingesting
      <3> QED BY <2>2, <2>3, <3>1, <3>2
    <2>5. Leaves(p) /\ Brings(p)
      BY <2>1 DEF Leaves, Brings, Minds, Safe, StaysSafe
    <2> QED BY <2>4, <2>5
  <1> QED BY <1>1, <1>3, <1>4 DEF Stores

LEMMA ForgetKeeps ==
  ASSUME IngestInv, NEW p \in Runners, Forget(p),
         UNCHANGED <<latest, job, passed, killed, overrun, kills>>
  PROVE  IngestInv'
  <1> DEFINE r == runner[p]
             r2 == IF r.replaying THEN ReplayNext(r) ELSE NextStore(r)
  <1>1. r \in Runner /\ RunnerOK(r) /\ r.store \in Stores
    BY RunnerAt
  <1>2. r.at = "forget" /\ r.slice \in Slices /\ r.slice \in written[r.store]
        /\ (~r.replaying => /\ r.job \in {"tick", "backfill"}
                            /\ Safe(r.slice, r.store)
                            /\ r.store = "qdrant" => Safe(r.slice, "neo4j"))
    BY <1>1 DEF Forget, At, RunnerOK, Ingesting
  <1>3. r2 \in Runner /\ runner' = [runner EXCEPT ![p] = r2]
    BY <1>1, <1>2, ReplayNextIs, NextStoreIs DEF Forget, Move
  <1>4. Moves(p) /\ runner'[p] = r2
    BY <1>3 DEF Moves, IngestInv, TypeOK
  <1>5. TypeOK'
    BY <1>1, <1>2, <1>4 DEF Forget, Moves, IngestInv, TypeOK
  <1>6. Grows
    BY <1>1, <1>2 DEF Forget, Grows, IngestInv, TypeOK
  <1>7. CASE ~r.replaying
    <2>1. RunnerOK(runner[p])' /\ Leaves(p) /\ Brings(p)
      BY <1>2, <1>4, <1>6, <1>7, AfterStore DEF Forget
    <2> QED BY <1>4, <1>5, <1>6, <2>1, Assemble DEF Forget
  <1>8. CASE r.replaying
    <2>1. runner'[p].at = "replay" /\ runner'[p].replaying
      BY <1>1, <1>4, <1>8 DEF ReplayNext, Runner
    <2>2. RunnerOK(runner[p])' /\ Leaves(p) /\ Brings(p)
      BY <1>8, <2>1 DEF RunnerOK, Asking, Ending, Leaves, Brings, Minds, Ingesting, Forget
    <2> QED BY <1>4, <1>5, <1>6, <2>2, Assemble DEF Forget
  <1> QED BY <1>7, <1>8

LEMMA ExceptKeeps ==
  ASSUME IngestInv, NEW p \in Runners, Except(p),
         UNCHANGED <<latest, job, passed, killed, overrun, kills>>
  PROVE  IngestInv'
  <1> DEFINE r == runner[p]
             r2 == NextStore(r)
  <1>1. r \in Runner /\ RunnerOK(r) /\ r.store \in Stores
    BY RunnerAt
  <1>2. r.at = "except" /\ r.slice \in Slices /\ ~r.replaying /\ r.job \in {"tick", "backfill"}
        /\ Safe(r.slice, r.store) /\ (r.store = "qdrant" => Safe(r.slice, "neo4j"))
    BY <1>1 DEF Except, At, RunnerOK, Ingesting
  <1>3. r2 \in Runner /\ runner' = [runner EXCEPT ![p] = r2]
    BY <1>1, <1>2, NextStoreIs DEF Except, Move
  <1>4. Moves(p) /\ runner'[p] = r2
    BY <1>3 DEF Moves, IngestInv, TypeOK
  <1>5. TypeOK'
    BY <1>1, <1>2, <1>4 DEF Except, Moves, IngestInv, TypeOK
  <1>6. Grows
    BY DEF Except, Grows
  <1>7. DoneIsWritten'
    BY <1>1, <1>6 DEF Except, DoneIsWritten, IngestInv, TypeOK
  <1>8. RunnerOK(runner[p])' /\ Leaves(p) /\ Brings(p)
    BY <1>2, <1>4, <1>6, AfterStore DEF Except
  <1> QED BY <1>4, <1>5, <1>6, <1>7, <1>8, Assemble DEF Except

\* A write that raises may have stored the slice; the runner still minds it.
LEMMA StoreRaisesKeeps ==
  ASSUME IngestInv, NEW p \in Runners, StoreRaises(p),
         UNCHANGED <<latest, job, passed, killed, overrun, kills>>
  PROVE  IngestInv'
  <1> DEFINE r == runner[p]
             r2 == IF r.replaying THEN ReplayNext(r) ELSE [r EXCEPT !.at = "except"]
  <1>1. r \in Runner /\ RunnerOK(r) /\ r.store \in Stores
    BY RunnerAt
  <1>2. r.at \in {"write", "mark", "forget"} /\ r.slice \in Slices
        /\ (~r.replaying => /\ r.job \in {"tick", "backfill"}
                            /\ Safe(r.slice, r.store)
                            /\ r.store = "qdrant" => Safe(r.slice, "neo4j"))
    BY <1>1 DEF StoreRaises, RunnerOK, Ingesting
  <1>3. r2 \in Runner /\ runner' = [runner EXCEPT ![p] = r2]
    BY <1>1, ReplayNextIs DEF StoreRaises, Move, Runner
  <1>4. Moves(p) /\ runner'[p] = r2
    BY <1>3 DEF Moves, IngestInv, TypeOK
  <1>5. written' \in [Stores -> SUBSET Slices] /\ Grows
    BY <1>1, <1>2 DEF StoreRaises, IngestInv, TypeOK, Grows
  <1>6. TypeOK'
    BY <1>4, <1>5 DEF StoreRaises, Moves, IngestInv, TypeOK
  <1>7. CASE ~r.replaying
    <2>1. runner'[p].at = "except" /\ runner'[p].slice = r.slice /\ runner'[p].store = r.store
          /\ ~runner'[p].replaying /\ runner'[p].job = r.job
      BY <1>1, <1>4, <1>7 DEF Runner
    <2>2. StaysSafe(r.slice, r.store) /\ (r.store = "qdrant" => StaysSafe(r.slice, "neo4j"))
      BY <1>1, <1>2, <1>5, <1>7 DEF Safe, StaysSafe, Grows, Stores
    <2>3. RunnerOK(runner[p])'
      BY <1>2, <1>7, <2>1, <2>2 DEF RunnerOK, Ingesting, Safe, StaysSafe
    <2>4. Leaves(p) /\ Brings(p)
      BY <2>1 DEF StoreRaises, Leaves, Brings, Minds, Ingesting
    <2> QED BY <1>4, <1>5, <1>6, <2>3, <2>4, Assemble DEF StoreRaises
  <1>8. CASE r.replaying
    <2>1. runner'[p].at = "replay" /\ runner'[p].replaying
      BY <1>1, <1>4, <1>8 DEF ReplayNext, Runner
    <2>2. RunnerOK(runner[p])' /\ Leaves(p) /\ Brings(p)
      BY <1>8, <2>1 DEF RunnerOK, Asking, Ending, Leaves, Brings, Minds, Ingesting, StoreRaises
    <2> QED BY <1>4, <1>5, <1>6, <2>2, Assemble DEF StoreRaises
  <1> QED BY <1>7, <1>8

-------------------------------------------------------------------------------
(* One lemma per step of a tick, of a worker and of the resume command.    *)

\* A step that changes no slice: where the runner comes from it minds none, and where it
\* goes to it is idle, replays, or has a slice to fetch.
LEMMA LocalStep ==
  ASSUME IngestInv, NEW p \in Runners, UNCHANGED sliceVars,
         runner' \in [Runners -> Runner],
         \A q \in Runners \ {p} : runner'[q] = runner[q],
         runner[p].at \in Ingesting => runner[p].replaying,
         latest' \in Slices \cup {NoSlice}, job' \in Job, passed' \subseteq Slices,
         killed' = killed, overrun' \subseteq Slices, kills' = kills,
         job'.done = job.done \/ JobDoneRecoverable',
         \/ runner'[p].at = "idle"
         \/ runner'[p].at \in {"requeue", "clear"}
         \/ runner'[p].at = "replay" /\ runner'[p].replaying
         \/ runner'[p].at \in {"fetch", "gate"} /\ ~runner'[p].replaying
         \/ /\ runner'[p].at = "pop" /\ ~runner'[p].replaying
            /\ runner'[p].store = "neo4j" /\ runner'[p].job = "backfill"
         \/ /\ runner'[p].at \in {"popped", "download"} /\ ~runner'[p].replaying /\ runner'[p].slice \in Slices
            /\ runner'[p].store = "neo4j" /\ runner'[p].job \in {"tick", "backfill"}
         \/ /\ runner'[p].at = "ask" /\ ~runner'[p].replaying /\ runner'[p].slice \in Slices
            /\ runner'[p].job \in {"tick", "backfill"}
            /\ runner'[p].store = "qdrant" => StaysSafe(runner'[p].slice, "neo4j")
         \/ /\ runner'[p].at \in {"raised", "fails"} /\ runner'[p].slice \in Slices
            /\ ~runner'[p].replaying
         \/ /\ runner'[p].at \in {"ended", "unpend", "count"} /\ runner'[p].slice \in Slices
            /\ ~runner'[p].replaying
            /\ \A x \in Stores : StaysSafe(runner'[p].slice, x)
         \/ runner'[p].at = "write" /\ runner'[p].slice \in Slices /\ runner'[p].replaying
  PROVE  IngestInv'
  <1>1. Moves(p) /\ Grows
    BY DEF Moves, Grows, sliceVars
  <1>2. TypeOK'
    BY DEF TypeOK, IngestInv, sliceVars
  <1>3. RunnerOK(runner[p])'
    BY DEF RunnerOK, Asking, Ending, Ingesting, Safe, StaysSafe
  <1>4. Leaves(p) /\ Brings(p)
    BY DEF Leaves, Brings, Minds, sliceVars
  <1> QED BY <1>1, <1>2, <1>3, <1>4, Assemble DEF sliceVars

LEMMA ListPendingIs ==
  ASSUME IngestInv, NEW r \in Runner, NEW x \in Stores
  PROVE  ListPending(r, x) \in Runner /\ ListPending(r, x).at = "replay" /\ ListPending(r, x).replaying
  <1>1. OldestOf(ReplayLimit, pending[x]) \subseteq Slices
    BY DEF OldestOf, IngestInv, TypeOK
  <1> QED BY <1>1 DEF ListPending, Runner, NoSlice

LEMMA TickKeeps ==
  ASSUME IngestInv, NEW p \in Ticks, Tick(p)
  PROVE  IngestInv'
  <1> DEFINE r == [Idle EXCEPT !.job = "tick"]
  <1>1. p \in Runners /\ r \in Runner
    BY IdleType DEF Runners, Runner
  <1>2. runner' = [runner EXCEPT ![p] = ListPending(r, "neo4j")]
    BY DEF Tick, Move
  <1>3. /\ runner' \in [Runners -> Runner]
        /\ \A q \in Runners \ {p} : runner'[q] = runner[q]
        /\ runner'[p].at = "replay" /\ runner'[p].replaying
    BY <1>1, <1>2, ListPendingIs DEF IngestInv, TypeOK, Stores
  <1>4. runner[p].at \notin Ingesting
    BY DEF Tick, At, Ingesting
  <1> QED BY <1>1, <1>3, <1>4, LocalStep DEF Tick, IngestInv, TypeOK

LEMMA ReplayKeeps ==
  ASSUME IngestInv, NEW p \in Ticks, Replay(p)
  PROVE  IngestInv'
  <1> DEFINE r == runner[p]
             s == Oldest(r.todo)
             fetch == [Idle EXCEPT !.at = "fetch", !.job = "tick"]
  <1>1. p \in Runners /\ r \in Runner
    BY RunnerAt DEF Runners
  <1>2. runner[p].at \notin Ingesting
    BY DEF Replay, At, Ingesting
  <1>3. \/ r.todo # {}
        \/ runner' = [runner EXCEPT ![p] = ListPending(r, "qdrant")]
        \/ runner' = [runner EXCEPT ![p] = Idle]
        \/ runner' = [runner EXCEPT ![p] = fetch]
    BY DEF Replay, Move
  <1>4. r.replaying
    BY <1>1, RunnerAt DEF Replay, At, RunnerOK
  <1>5. ASSUME r.todo # {}
        PROVE  s \in Slices
    BY <1>1, <1>5, OldestIn DEF Runner
  <1>6. ASSUME NEW q \in Runner, runner' = [runner EXCEPT ![p] = q],
               \/ q.at = "idle"
               \/ q.at = "replay" /\ q.replaying
               \/ q.at = "fetch" /\ ~q.replaying
               \/ q.at = "write" /\ q.slice \in Slices /\ q.replaying
        PROVE  IngestInv'
    <2>1. /\ runner' \in [Runners -> Runner]
          /\ \A o \in Runners \ {p} : runner'[o] = runner[o]
          /\ runner'[p] = q
      BY <1>1, <1>6 DEF IngestInv, TypeOK
    <2> QED BY <1>1, <1>2, <1>6, <2>1, LocalStep DEF Replay, IngestInv, TypeOK
  <1>7. CASE r.todo # {} /\ s \in files
    <2> DEFINE q == [r EXCEPT !.at = "write", !.slice = s, !.todo = @ \ {s}]
    <2>1. q \in Runner /\ q.at = "write" /\ q.slice \in Slices /\ q.replaying
      BY <1>1, <1>4, <1>5, <1>7 DEF Runner
    <2>2. runner' = [runner EXCEPT ![p] = q]
      BY <1>7 DEF Replay, Move
    <2> QED BY <1>6, <2>1, <2>2
  <1>8. CASE r.todo # {} /\ s \notin files
    <2> DEFINE q == [r EXCEPT !.todo = @ \ {s}]
    <2>1. q \in Runner /\ q.at = "replay" /\ q.replaying
      BY <1>1, <1>4 DEF Runner, Replay, At
    <2>2. runner' = [runner EXCEPT ![p] = q]
      BY <1>8 DEF Replay, Move
    <2> QED BY <1>6, <2>1, <2>2
  <1>9. CASE runner' = [runner EXCEPT ![p] = ListPending(r, "qdrant")]
    BY <1>1, <1>6, <1>9, ListPendingIs DEF Stores
  <1>10. CASE runner' = [runner EXCEPT ![p] = Idle]
    BY <1>6, <1>10, IdleType DEF Idle
  <1>11. CASE runner' = [runner EXCEPT ![p] = fetch]
    <2>1. fetch \in Runner /\ fetch.at = "fetch" /\ ~fetch.replaying
      BY IdleType DEF Idle, Runner
    <2> QED BY <1>6, <1>11, <2>1
  <1> QED BY <1>3, <1>7, <1>8, <1>9, <1>10, <1>11 DEF Replay

LEMMA FetchKeeps ==
  ASSUME IngestInv, NEW p \in Ticks, Fetch(p)
  PROVE  IngestInv'
  <1> DEFINE r == runner[p]
  <1>1. p \in Runners /\ r \in Runner
    BY RunnerAt DEF Runners
  <1>2. r.at = "fetch" /\ ~r.replaying /\ r.at \notin Ingesting
    BY <1>1, RunnerAt DEF Fetch, At, RunnerOK, Ingesting
  <1>3. CASE runner' = [runner EXCEPT ![p] = Idle] /\ latest' = latest
    <2>1. /\ runner' \in [Runners -> Runner]
          /\ \A q \in Runners \ {p} : runner'[q] = runner[q]
          /\ runner'[p].at = "idle"
      BY <1>1, <1>3, IdleType DEF IngestInv, TypeOK, Idle
    <2> QED BY <1>1, <1>2, <1>3, <2>1, LocalStep DEF Fetch, IngestInv, TypeOK
  <1>4. ASSUME NEW s \in Slices, latest' = s,
               runner' = [runner EXCEPT ![p] = [r EXCEPT !.at = "gate", !.latest = s]]
        PROVE  IngestInv'
    <2>1. /\ runner' \in [Runners -> Runner]
          /\ \A q \in Runners \ {p} : runner'[q] = runner[q]
          /\ runner'[p].at = "gate" /\ ~runner'[p].replaying
      BY <1>1, <1>2, <1>4 DEF IngestInv, TypeOK, Runner
    <2> QED BY <1>1, <1>2, <1>4, <2>1, LocalStep DEF Fetch, IngestInv, TypeOK
  <1> QED BY <1>3, <1>4 DEF Fetch, Move

\* A runner becomes q, which is idle, has a slice to fetch, or has given its slice up.
LEMMA BecomesFetcher ==
  ASSUME IngestInv, NEW p \in Runners, runner[p].at \notin Ingesting,
         NEW q \in Runner, runner' = [runner EXCEPT ![p] = q],
         \/ q.at = "idle"
         \/ /\ q.at = "download" /\ ~q.replaying /\ q.slice \in Slices
            /\ q.store = "neo4j" /\ q.job \in {"tick", "backfill"}
         \/ q.at = "raised" /\ q.slice \in Slices /\ ~q.replaying,
         passed' \subseteq Slices,
         UNCHANGED <<sliceVars, latest, job, killed, overrun, kills>>
  PROVE  IngestInv'
  <1>1. /\ runner' \in [Runners -> Runner]
        /\ \A o \in Runners \ {p} : runner'[o] = runner[o]
        /\ runner'[p] = q
    BY DEF IngestInv, TypeOK
  <1> QED BY <1>1, LocalStep DEF IngestInv, TypeOK

\* The slices a tick is given to do are slices the feed has announced.
LEMMA TodoIs ==
  ASSUME NEW c \in Slices \cup {NoSlice}, NEW n \in Slices \cup {NoSlice},
         NEW s \in Slices, s <= n
  PROVE  Todo(c, n) \subseteq Slices
  <1>1. n \in Slices
    BY DEF Slices, NoSlice
  <1> QED BY <1>1 DEF Todo, NewestOf

LEMMA GateKeeps ==
  ASSUME IngestInv, NEW p \in Ticks, Gate(p)
  PROVE  IngestInv'
  <1> DEFINE r == runner[p]
             todo == Todo(checkpoint, r.latest)
             gap == {s \in Slices : checkpoint < s /\ s <= r.latest}
             q == [r EXCEPT !.todo = todo]
  <1>1. p \in Runners /\ r \in Runner
    BY RunnerAt DEF Runners
  <1>2. r.at \notin Ingesting
    BY DEF Gate, At, Ingesting
  <1>3. CASE gap = {}
    <2>1. runner' = [runner EXCEPT ![p] = Idle] /\ passed' = passed
      BY <1>3 DEF Gate, Move
    <2>2. Idle \in Runner /\ Idle.at = "idle"
      BY IdleType DEF Idle
    <2>3. passed' \subseteq Slices
      BY <2>1 DEF IngestInv, TypeOK
    <2> QED BY <1>1, <1>2, <2>1, <2>2, <2>3, BecomesFetcher DEF Gate
  <1>4. CASE gap # {}
    <2>1. runner' = [runner EXCEPT ![p] = NextSlice(q)] /\ passed' = passed \cup (gap \ todo)
      BY <1>4 DEF Gate, Move
    <2>2. todo \subseteq Slices
      BY <1>1, <1>4, TodoIs DEF IngestInv, TypeOK, Runner
    <2>3. q.todo \subseteq Slices /\ q.latest \in Slices \cup {NoSlice}
      BY <1>1, <2>2 DEF Runner
    <2>4. /\ NextSlice(q) \in Runner
          /\ \/ NextSlice(q).at = "idle"
             \/ /\ NextSlice(q).at = "download" /\ ~NextSlice(q).replaying
                /\ NextSlice(q).slice \in Slices
                /\ NextSlice(q).store = "neo4j" /\ NextSlice(q).job \in {"tick", "backfill"}
      BY <2>3, NextSliceIs
    <2>5. passed' \subseteq Slices
      BY <2>1 DEF IngestInv, TypeOK
    <2> HIDE DEF q
    <2> QED BY <1>1, <1>2, <2>1, <2>4, <2>5, BecomesFetcher DEF Gate
  <1> QED BY <1>3, <1>4

\* A slice that cannot be fetched ends the tick or is passed over; a worker marks it failed.
LEMMA GivesUp ==
  ASSUME IngestInv, NEW p \in Runners, At(p, "download"),
         \/ runner' = [runner EXCEPT ![p] = NextSlice(runner[p])]
         \/ runner' = [runner EXCEPT ![p] = Raise(runner[p])],
         passed' \subseteq Slices,
         UNCHANGED <<sliceVars, latest, job, killed, overrun, kills>>
  PROVE  IngestInv'
  <1> DEFINE r == runner[p]
  <1>1. r \in Runner /\ r.at \notin Ingesting /\ ~r.replaying /\ r.slice \in Slices
    BY RunnerAt DEF At, RunnerOK, Ingesting
  <1>2. CASE runner' = [runner EXCEPT ![p] = NextSlice(r)]
    <2>1. r.todo \subseteq Slices /\ r.latest \in Slices \cup {NoSlice}
      BY <1>1 DEF Runner
    <2>2. /\ NextSlice(r) \in Runner
          /\ \/ NextSlice(r).at = "idle"
             \/ /\ NextSlice(r).at = "download" /\ ~NextSlice(r).replaying
                /\ NextSlice(r).slice \in Slices
                /\ NextSlice(r).store = "neo4j" /\ NextSlice(r).job \in {"tick", "backfill"}
      BY <2>1, NextSliceIs
    <2> QED BY <1>1, <1>2, <2>2, BecomesFetcher
  <1>3. CASE runner' = [runner EXCEPT ![p] = Raise(r)]
    <2>1. /\ Raise(r) \in Runner
          /\ \/ Raise(r).at = "idle"
             \/ Raise(r).at = "raised" /\ Raise(r).slice \in Slices /\ ~Raise(r).replaying
      BY <1>1, RaiseIs DEF Idle
    <2> QED BY <1>1, <1>3, <2>1, BecomesFetcher
  <1> QED BY <1>2, <1>3

LEMMA MissingKeeps ==
  ASSUME IngestInv, NEW p \in Runners, Missing(p)
  PROVE  IngestInv'
  <1>1. runner[p].slice \in Slices
    BY RunnerAt DEF Missing, At, RunnerOK
  <1>2. passed' \subseteq Slices
    BY <1>1 DEF Missing, IngestInv, TypeOK
  <1> QED BY <1>2, GivesUp DEF Missing, Move

LEMMA DownloadRaisesKeeps ==
  ASSUME IngestInv, NEW p \in Runners, DownloadRaises(p)
  PROVE  IngestInv'
  <1>1. passed' \subseteq Slices
    BY DEF DownloadRaises, IngestInv, TypeOK
  <1> QED BY <1>1, GivesUp DEF DownloadRaises, Move

\* The backfill starts its idle workers.
LEMMA StartBackfillKeeps ==
  ASSUME IngestInv, StartBackfill
  PROVE  IngestInv'
  <1>1. NextPop \in Runner /\ NextPop.at = "pop" /\ ~NextPop.replaying
        /\ NextPop.store = "neo4j" /\ NextPop.job = "backfill"
    BY IdleType DEF NextPop, Idle, Runner
  <1>2. runner' \in [Runners -> Runner]
    BY <1>1 DEF StartBackfill, IngestInv, TypeOK
  <1>3. ASSUME NEW q \in Runners
        PROVE  \/ runner'[q] = runner[q]
               \/ runner'[q] = NextPop /\ runner[q].at = "idle"
    BY DEF StartBackfill, At
  <1>4. JobRange \subseteq Slices
    BY DEF Slices
  <1>5. job' \in Job /\ job'.done = {}
    BY <1>4 DEF StartBackfill, Job
  <1>6. TypeOK'
    BY <1>2, <1>5 DEF StartBackfill, sliceVars, IngestInv, TypeOK
  <1>7. DoneIsWritten' /\ JobDoneRecoverable'
    BY <1>5 DEF StartBackfill, sliceVars, IngestInv, DoneIsWritten, JobDoneRecoverable
  <1>8. written' = written /\ pending' = pending /\ complete' = complete /\ killed' = killed
    BY DEF StartBackfill, sliceVars
  <1>9. ASSUME NEW q \in Runners PROVE RunnerOK(runner[q])'
    <2>1. CASE runner'[q] = runner[q]
      BY <1>8, <2>1 DEF RunnerOK, Safe, IngestInv
    <2>2. CASE runner'[q] = NextPop
      BY <1>1, <2>2 DEF RunnerOK, Asking, Ending, Ingesting
    <2> QED BY <1>3, <2>1, <2>2
  <1>10. CompleteInv'
    <2>1. \A q \in Runners, s \in complete : Minds(runner[q], s) => Minds(runner'[q], s)
      BY <1>3 DEF Minds, Ingesting
    <2> QED BY <1>8, <2>1 DEF CompleteInv, IngestInv, Safe, Minds
  <1> QED BY <1>6, <1>7, <1>9, <1>10 DEF IngestInv

\* A worker takes the oldest pending slice of the job.
LEMMA PopKeeps ==
  ASSUME IngestInv, NEW w \in Workers, Pop(w)
  PROVE  IngestInv'
  <1> DEFINE r == runner[w]
             s == Oldest(job.pending)
             q == [r EXCEPT !.at = "popped", !.slice = s]
  <1>1. w \in Runners /\ r \in Runner /\ RunnerOK(r)
    BY RunnerAt DEF Runners
  <1>2. r.at = "pop" /\ r.at \notin Ingesting
    BY DEF Pop, At, Ingesting
  <1>3. ~r.replaying /\ r.store = "neo4j" /\ r.job \in {"tick", "backfill"}
    BY <1>1, <1>2 DEF RunnerOK
  <1>4. CASE job.pending = {}
    <2>1. runner' = [runner EXCEPT ![w] = Idle] /\ job' = job
      BY <1>4 DEF Pop, Move
    <2>2. Idle \in Runner /\ Idle.at = "idle"
      BY IdleType DEF Idle
    <2>3. passed' \subseteq Slices
      BY DEF Pop, IngestInv, TypeOK
    <2> QED BY <1>1, <1>2, <2>1, <2>2, <2>3, BecomesFetcher DEF Pop
  <1>5. CASE job.pending # {}
    <2>1. runner' = [runner EXCEPT ![w] = q] /\ job' = [job EXCEPT !.pending = @ \ {s}]
      BY <1>5 DEF Pop, Move
    <2>2. s \in Slices
      BY <1>5, OldestIn DEF IngestInv, TypeOK, Job
    <2>3. job' \in Job /\ job'.done = job.done
      BY <2>1 DEF IngestInv, TypeOK, Job
    <2>4. q \in Runner /\ q.at = "popped" /\ ~q.replaying /\ q.slice \in Slices
          /\ q.store = "neo4j" /\ q.job \in {"tick", "backfill"}
      BY <1>1, <1>3, <2>2 DEF Runner
    <2>5. /\ runner' \in [Runners -> Runner]
          /\ \A o \in Runners \ {w} : runner'[o] = runner[o]
          /\ runner'[w] = q
      BY <1>1, <2>1, <2>4 DEF IngestInv, TypeOK
    <2> HIDE DEF q
    <2> QED BY <1>1, <1>2, <2>3, <2>4, <2>5, LocalStep DEF Pop, IngestInv, TypeOK
  <1> QED BY <1>4, <1>5

\* A slice that each store calls done is written to it, so it may end at once.
LEMMA SkipDoneKeeps ==
  ASSUME IngestInv, NEW w \in Workers, SkipDone(w)
  PROVE  IngestInv'
  <1> DEFINE r == runner[w]
             Becomes(q) == runner' = [runner EXCEPT ![w] = q]
  <1>1. w \in Runners /\ r \in Runner /\ RunnerOK(r)
    BY RunnerAt DEF Runners
  <1>2. r.at \in Asking /\ r.at \notin Ingesting
    BY DEF SkipDone, At, Asking, Ingesting
  <1>3. ~r.replaying /\ r.slice \in Slices /\ r.job \in {"tick", "backfill"}
    BY <1>1, <1>2 DEF RunnerOK
  <1>4. /\ r.at = "popped" => r.store = "neo4j"
        /\ r.at = "ask" /\ r.store = "qdrant" => StaysSafe(r.slice, "neo4j")
    BY <1>1 DEF RunnerOK, Safe, StaysSafe, SkipDone, sliceVars
  <1>5. \A x \in Stores : r.slice \in storeDone[x] => StaysSafe(r.slice, x)
    BY DEF StaysSafe, IngestInv, DoneIsWritten, SkipDone, sliceVars
  <1>6. ASSUME NEW a, NEW x \in Stores, runner' = [runner EXCEPT ![w] = [r EXCEPT !.at = a, !.store = x]],
               \/ a = "ask" /\ (x = "qdrant" => StaysSafe(r.slice, "neo4j"))
               \/ a = "download" /\ x = "neo4j"
               \/ a = "ended" /\ \A y \in Stores : StaysSafe(r.slice, y)
        PROVE  IngestInv'
    <2>1. [r EXCEPT !.at = a, !.store = x] \in Runner
      BY <1>1, <1>6 DEF Runner
    <2>2. /\ runner' \in [Runners -> Runner]
          /\ \A o \in Runners \ {w} : runner'[o] = runner[o]
          /\ runner'[w] = [r EXCEPT !.at = a, !.store = x]
      BY <1>1, <1>6, <2>1 DEF IngestInv, TypeOK
    <2>3. /\ runner'[w].at = a /\ runner'[w].store = x /\ runner'[w].slice = r.slice
          /\ ~runner'[w].replaying /\ runner'[w].job = r.job
      BY <1>1, <1>3, <2>2 DEF Runner
    <2> HIDE DEF r
    <2> QED BY <1>1, <1>2, <1>3, <1>6, <2>2, <2>3, LocalStep DEF SkipDone, IngestInv, TypeOK, r
  <1>7. r = [r EXCEPT !.store = r.store] /\ r.store \in Stores
    BY <1>1 DEF Runner
  <1>8. \A a : [r EXCEPT !.at = a] = [r EXCEPT !.at = a, !.store = r.store]
    BY <1>1 DEF Runner
  <1>9. CASE At(w, "popped")
    <2>1. PICK a \in {"ask", "download"} : Becomes([r EXCEPT !.at = a])
      BY <1>9 DEF SkipDone, At, Goto, Move
    <2>2. Becomes([r EXCEPT !.at = a, !.store = r.store])
      BY <1>8, <2>1
    <2>3. r.store = "neo4j"
      BY <1>4, <1>9 DEF At
    <2> QED BY <1>6, <1>7, <2>2, <2>3
  <1>10. CASE At(w, "ask") /\ r.slice \notin storeDone[r.store]
    <2>1. Becomes([r EXCEPT !.at = "download", !.store = "neo4j"])
      BY <1>10 DEF SkipDone, At, Move
    <2> QED BY <1>6, <2>1 DEF Stores
  <1>11. CASE At(w, "ask") /\ r.slice \in storeDone[r.store] /\ r.store = "neo4j"
    <2>1. Becomes([r EXCEPT !.store = "qdrant"])
      BY <1>11 DEF SkipDone, At, Move
    <2>2. [r EXCEPT !.store = "qdrant"] = [r EXCEPT !.at = "ask", !.store = "qdrant"]
      BY <1>1, <1>11 DEF Runner, At
    <2>3. StaysSafe(r.slice, "neo4j")
      BY <1>5, <1>11 DEF Stores
    <2> QED BY <1>6, <2>1, <2>2, <2>3 DEF Stores
  <1>12. CASE At(w, "ask") /\ r.slice \in storeDone[r.store] /\ r.store # "neo4j"
    <2>1. Becomes([r EXCEPT !.at = "ended"])
      BY <1>12 DEF SkipDone, At, Move
    <2>2. Becomes([r EXCEPT !.at = "ended", !.store = r.store])
      BY <1>8, <2>1
    <2>3. r.store = "qdrant"
      BY <1>7, <1>12 DEF Stores
    <2>4. \A y \in Stores : StaysSafe(r.slice, y)
      BY <1>4, <1>5, <1>12, <2>3 DEF Stores, At
    <2> QED BY <1>6, <1>7, <2>2, <2>4
  <1> QED BY <1>9, <1>10, <1>11, <1>12 DEF SkipDone

\* A worker at the commands that mark its slice goes on with them, or to the next slice.
LEMMA MarkingMoves ==
  ASSUME IngestInv, NEW w \in Workers, MarkDone(w) \/ MarkFailed(w)
  PROVE  /\ runner' \in [Runners -> Runner]
         /\ \A o \in Runners \ {w} : runner'[o] = runner[o]
         /\ runner[w].slice \in Slices /\ ~runner[w].replaying
         /\ \/ runner'[w] = NextPop
            \/ /\ \/ runner[w].at = "ended" /\ runner'[w].at = "unpend"
                  \/ runner[w].at = "unpend" /\ runner'[w].at = "count"
                  \/ runner[w].at = "raised" /\ runner'[w].at = "fails"
               /\ runner'[w].slice = runner[w].slice /\ ~runner'[w].replaying
               /\ runner'[w].job = runner[w].job
  <1> DEFINE r == runner[w]
  <1>1. w \in Runners /\ r \in Runner /\ RunnerOK(r) /\ runner \in [Runners -> Runner]
    BY RunnerAt DEF Runners, IngestInv, TypeOK
  <1>2. r.at \in Ending /\ r.slice \in Slices /\ ~r.replaying
    BY <1>1 DEF MarkDone, MarkFailed, At, Ending, RunnerOK
  <1>3. NextPop \in Runner
    BY IdleType DEF NextPop, Runner
  <1>4. CASE runner' = [runner EXCEPT ![w] = NextPop]
    BY <1>1, <1>2, <1>3, <1>4
  <1>5. ASSUME NEW a \in {"unpend", "count", "fails"}, runner' = [runner EXCEPT ![w] = [r EXCEPT !.at = a]],
               \/ r.at = "ended" /\ a = "unpend"
               \/ r.at = "unpend" /\ a = "count"
               \/ r.at = "raised" /\ a = "fails"
        PROVE  /\ runner' \in [Runners -> Runner]
               /\ \A o \in Runners \ {w} : runner'[o] = runner[o]
               /\ runner'[w].at = a /\ runner'[w].slice = r.slice /\ ~runner'[w].replaying
               /\ runner'[w].job = r.job
    BY <1>1, <1>2, <1>5 DEF Runner
  <1> QED BY <1>2, <1>4, <1>5 DEF MarkDone, MarkFailed, At, Goto, Move

\* A worker's step among the job's sets keeps the invariant when what it marks done is safe.
LEMMA MarkingKeeps ==
  ASSUME IngestInv, NEW w \in Workers, MarkDone(w) \/ MarkFailed(w),
         job' \in Job, job'.done = job.done \/ JobDoneRecoverable', overrun' \subseteq Slices
  PROVE  IngestInv'
  <1> DEFINE r == runner[w]
  <1>1. w \in Runners /\ r \in Runner /\ RunnerOK(r)
    BY RunnerAt DEF Runners
  <1>2. r.at \in Ending /\ r.at \notin Ingesting
    BY DEF MarkDone, MarkFailed, At, Ending, Ingesting
  <1>3. UNCHANGED <<sliceVars, latest, passed, killed, kills>>
    BY DEF MarkDone, MarkFailed
  <1>4. NextPop.at = "pop" /\ ~NextPop.replaying /\ NextPop.store = "neo4j" /\ NextPop.job = "backfill"
    BY IdleType DEF NextPop, Idle, Runner
  <1>5. r.at \in {"ended", "unpend", "count"} => \A x \in Stores : StaysSafe(r.slice, x)
    BY <1>1, <1>3 DEF RunnerOK, Safe, StaysSafe, sliceVars
  <1>6. \/ runner'[w] = NextPop
        \/ /\ runner'[w].at \in {"unpend", "count"} /\ r.at \in {"ended", "unpend"}
           /\ runner'[w].slice = r.slice /\ ~runner'[w].replaying
        \/ runner'[w].at = "fails" /\ runner'[w].slice = r.slice /\ ~runner'[w].replaying
    BY MarkingMoves
  <1> HIDE DEF r
  <1>7. latest' \in Slices \cup {NoSlice} /\ passed' \subseteq Slices
    BY <1>3 DEF IngestInv, TypeOK
  <1> QED BY <1>1, <1>2, <1>3, <1>4, <1>5, <1>6, <1>7, MarkingMoves, LocalStep DEF r

\* What a worker marks done has been through both stores.
LEMMA MarkDoneKeeps ==
  ASSUME IngestInv, NEW w \in Workers, MarkDone(w)
  PROVE  IngestInv'
  <1> DEFINE s == runner[w].slice
  <1>1. RunnerOK(runner[w]) /\ s \in Slices /\ job \in Job
    BY RunnerAt, MarkingMoves DEF Runners, IngestInv, TypeOK
  <1>2. \/ job' = [job EXCEPT !.failed = @ \ {s}]
        \/ job' = [job EXCEPT !.pending = @ \ {s}]
        \/ job' = [job EXCEPT !.done = @ \cup {s}] /\ At(w, "count")
    BY DEF MarkDone
  <1>3. job' \in Job
    BY <1>1, <1>2 DEF Job
  <1>4. job'.done = job.done \/ JobDoneRecoverable'
    <2>1. CASE job' = [job EXCEPT !.failed = @ \ {s}] \/ job' = [job EXCEPT !.pending = @ \ {s}]
      BY <1>1, <2>1 DEF Job
    <2>2. CASE job' = [job EXCEPT !.done = @ \cup {s}] /\ At(w, "count")
      <3>1. job'.done = job.done \cup {s}
        BY <1>1, <2>2 DEF Job
      <3>2. \A x \in Stores : Safe(s, x)
        BY <1>1, <2>2 DEF RunnerOK, At
      <3>3. written' = written /\ pending' = pending
        BY DEF MarkDone, sliceVars
      <3> QED BY <3>1, <3>2, <3>3 DEF JobDoneRecoverable, IngestInv, Safe
    <2> QED BY <1>2, <2>1, <2>2
  <1>5. overrun' \subseteq Slices
    BY DEF MarkDone, IngestInv, TypeOK
  <1> QED BY <1>3, <1>4, <1>5, MarkingKeeps

\* A slice marked failed is one of the job's.
LEMMA MarkFailedKeeps ==
  ASSUME IngestInv, NEW w \in Workers, MarkFailed(w)
  PROVE  IngestInv'
  <1> DEFINE s == runner[w].slice
  <1>1. s \in Slices /\ job \in Job
    BY MarkingMoves DEF IngestInv, TypeOK
  <1>2. \/ job' = [job EXCEPT !.pending = @ \ {s}]
        \/ job' = [job EXCEPT !.failed = @ \cup {s}]
    BY DEF MarkFailed
  <1>3. job' \in Job /\ job'.done = job.done
    BY <1>1, <1>2 DEF Job
  <1>4. overrun' \subseteq Slices
    BY <1>1 DEF MarkFailed, IngestInv, TypeOK
  <1> QED BY <1>3, <1>4, MarkingKeeps

\* A resume touches the job's sets only.
LEMMA ReplayForResumeIs ==
  ASSUME IngestInv
  PROVE  ReplayForResume \in Runner /\ ReplayForResume.at = "replay" /\ ReplayForResume.replaying
  <1>1. [Idle EXCEPT !.job = "resume"] \in Runner
    BY IdleType DEF Runner
  <1> QED BY <1>1, ListPendingIs DEF ReplayForResume, Stores

LEMMA ResumeKeeps ==
  ASSUME IngestInv, NEW p \in Ticks, Resume(p)
  PROVE  IngestInv'
  <1> DEFINE q == IF job.failed = {} THEN ReplayForResume
                  ELSE [Idle EXCEPT !.at = "requeue", !.job = "resume", !.todo = job.failed]
  <1>1. q \in Runner /\ ((q.at = "replay" /\ q.replaying) \/ q.at = "requeue")
    BY IdleType, ReplayForResumeIs DEF Runner, IngestInv, TypeOK, Job
  <1>2. p \in Runners /\ runner' = [runner EXCEPT ![p] = q]
    BY DEF Resume, Move, Runners
  <1> HIDE DEF q
  <1>3. /\ runner' \in [Runners -> Runner] /\ runner'[p] = q
        /\ \A o \in Runners \ {p} : runner'[o] = runner[o]
    BY <1>1, <1>2 DEF IngestInv, TypeOK
  <1>4. runner[p].at \notin Ingesting
    BY DEF Resume, At, Ingesting
  <1> QED BY <1>1, <1>2, <1>3, <1>4, LocalStep DEF Resume, IngestInv, TypeOK

LEMMA RequeueKeeps ==
  ASSUME IngestInv, NEW p \in Ticks, Requeue(p)
  PROVE  IngestInv'
  <1>1. p \in Runners /\ runner \in [Runners -> Runner] /\ runner[p] \in Runner /\ job \in Job
    BY DEF Runners, IngestInv, TypeOK
  <1>2. runner' = [runner EXCEPT ![p] = [runner[p] EXCEPT !.at = "clear"]]
    BY DEF Requeue, Goto, Move
  <1>3. /\ runner' \in [Runners -> Runner] /\ runner'[p].at = "clear"
        /\ \A o \in Runners \ {p} : runner'[o] = runner[o]
    BY <1>1, <1>2 DEF Runner
  <1>4. runner[p].at \notin Ingesting
    BY DEF Requeue, At, Ingesting
  <1>5. job' \in Job /\ job'.done = job.done
    BY <1>1 DEF Requeue, Job, Runner
  <1> QED BY <1>1, <1>3, <1>4, <1>5, LocalStep DEF Requeue, IngestInv, TypeOK

LEMMA ClearFailedKeeps ==
  ASSUME IngestInv, NEW p \in Ticks, ClearFailed(p)
  PROVE  IngestInv'
  <1>1. p \in Runners /\ runner' = [runner EXCEPT ![p] = ReplayForResume]
    BY DEF ClearFailed, Move, Runners
  <1>2. /\ runner' \in [Runners -> Runner] /\ runner'[p] = ReplayForResume
        /\ \A o \in Runners \ {p} : runner'[o] = runner[o]
    BY <1>1, ReplayForResumeIs DEF IngestInv, TypeOK
  <1>3. runner[p].at \notin Ingesting
    BY DEF ClearFailed, At, Ingesting
  <1>4. job' \in Job /\ job'.done = job.done
    BY DEF ClearFailed, IngestInv, TypeOK, Job
  <1> QED BY <1>1, <1>2, <1>3, <1>4, ReplayForResumeIs, LocalStep DEF ClearFailed, IngestInv, TypeOK

\* A slice the killed process was minding is accounted to the kill.
LEMMA KillKeeps ==
  ASSUME IngestInv, NEW P \in SUBSET Runners, Kill(P)
  PROVE  IngestInv'
  <1>1. /\ runner' \in [Runners -> Runner]
        /\ \A q \in Runners : runner'[q] = IF q \in P THEN Idle ELSE runner[q]
    BY IdleType DEF Kill, IngestInv, TypeOK
  <1>2. Held(P) \subseteq Slices
    BY DEF Held, IngestInv, TypeOK, Runner
  <1>3. kills' \in 0 .. MaxKills /\ killed' \subseteq Slices /\ killed \subseteq killed'
    BY <1>2 DEF Kill, IngestInv, TypeOK
  <1>4. UNCHANGED <<sliceVars, latest, job, passed, overrun>>
    BY DEF Kill
  <1>5. TypeOK'
    BY <1>1, <1>3, <1>4 DEF sliceVars, IngestInv, TypeOK
  <1>6. DoneIsWritten' /\ JobDoneRecoverable'
    BY <1>4 DEF sliceVars, IngestInv, DoneIsWritten, JobDoneRecoverable
  <1>7. ASSUME NEW q \in Runners PROVE RunnerOK(runner[q])'
    <2>1. CASE q \in P
      <3>1. runner'[q].at = "idle"
        BY <1>1, <2>1 DEF Idle
      <3> QED BY <3>1 DEF RunnerOK, Asking, Ending, Ingesting
    <2>2. CASE q \notin P
      BY <1>1, <1>4, <2>2 DEF sliceVars, RunnerOK, Safe, IngestInv
    <2> QED BY <2>1, <2>2
  <1>8. CompleteInv'
    <2> SUFFICES ASSUME NEW s \in complete'
                 PROVE  \/ s \in killed'
                        \/ \E q \in Runners : Minds(runner'[q], s)
                        \/ \A x \in Stores : Safe(s, x)'
      BY DEF CompleteInv, Minds
    <2>1. s \in Slices /\ s \in complete
      BY <1>4 DEF sliceVars, IngestInv, TypeOK
    <2>2. CASE s \in killed \/ \A x \in Stores : Safe(s, x)
      BY <1>3, <1>4, <2>2 DEF sliceVars, Safe
    <2>3. ASSUME NEW q \in Runners, Minds(runner[q], s)
          PROVE  s \in killed' \/ Minds(runner'[q], s)
      <3>1. CASE q \in P
        <4>1. s # NoSlice
          BY <2>1 DEF Slices, NoSlice
        <4>2. s \in Held(P)
          BY <2>3, <3>1, <4>1 DEF Held, Minds
        <4> QED BY <4>2 DEF Kill
      <3>2. CASE q \notin P
        BY <1>1, <2>3, <3>2
      <3> QED BY <3>1, <3>2
    <2> QED BY <2>1, <2>2, <2>3 DEF IngestInv, CompleteInv
  <1> QED BY <1>5, <1>6, <1>7, <1>8 DEF IngestInv

-------------------------------------------------------------------------------
(* The invariant, and what follows from it.                                *)

LEMMA InitInv == Init => IngestInv
  <1> SUFFICES ASSUME Init PROVE IngestInv
    OBVIOUS
  <1>1. files = {} /\ complete = {} /\ killed = {} /\ passed = {} /\ overrun = {} /\ kills = 0
        /\ checkpoint = NoSlice /\ latest = NoSlice
        /\ storeDone = [x \in Stores |-> {}] /\ pending = [x \in Stores |-> {}]
        /\ written = [x \in Stores |-> {}] /\ runner = [p \in Runners |-> Idle]
        /\ job \in Job /\ job.done = {}
    BY DEF Init, SliceInit, Job
  <1>2. TypeOK
    BY <1>1, IdleType DEF TypeOK
  <1>3. DoneIsWritten /\ JobDoneRecoverable /\ CompleteInv
    BY <1>1 DEF DoneIsWritten, JobDoneRecoverable, CompleteInv
  <1>4. ASSUME NEW p \in Runners PROVE RunnerOK(runner[p])
    <2>1. runner[p].at = "idle"
      BY <1>1 DEF Idle
    <2> QED BY <2>1 DEF RunnerOK, Asking, Ending, Ingesting
  <1> QED BY <1>2, <1>3, <1>4 DEF IngestInv

LEMMA StutterKeeps ==
  ASSUME IngestInv, UNCHANGED vars
  PROVE  IngestInv'
  BY DEF IngestInv, TypeOK, DoneIsWritten, JobDoneRecoverable, CompleteInv, RunnerOK, Safe,
         Minds, vars, sliceVars

LEMMA NextKeeps == IngestInv /\ [Next]_vars => IngestInv'
  <1> SUFFICES ASSUME IngestInv, [Next]_vars PROVE IngestInv'
    OBVIOUS
  <1>1. ASSUME NEW p \in Runners, SliceStep(p), UNCHANGED <<latest, job, passed, killed, overrun, kills>>
        PROVE  IngestInv'
    BY <1>1, WriteParquetKeeps, StreamFailsKeeps, CheckKeeps, ReadCheckpointKeeps, AdvanceKeeps,
       IntendKeeps, WriteStoreKeeps, MarkKeeps, ForgetKeeps, ExceptKeeps DEF SliceStep
  <1>2. ASSUME NEW p \in Runners, Step(p) \/ DownloadRaises(p)
        PROVE  IngestInv'
    BY <1>1, <1>2, MissingKeeps, DownloadRaisesKeeps DEF Step
  <1>3. ASSUME NEW p \in Runners, StoreRaises(p), UNCHANGED <<latest, job, passed, killed, overrun, kills>>
        PROVE  IngestInv'
    BY <1>3, StoreRaisesKeeps
  <1>4. ASSUME NEW p \in Ticks, Tick(p) \/ TickStep(p) \/ Resume(p) \/ ResumeStep(p)
        PROVE  IngestInv'
    BY <1>4, TickKeeps, ReplayKeeps, FetchKeeps, GateKeeps, ResumeKeeps, RequeueKeeps,
       ClearFailedKeeps DEF TickStep, ResumeStep
  <1>5. CASE StartBackfill
    BY <1>5, StartBackfillKeeps
  <1>6. ASSUME NEW w \in Workers, WorkerStep(w)
        PROVE  IngestInv'
    BY <1>6, PopKeeps, SkipDoneKeeps, MarkDoneKeeps, MarkFailedKeeps DEF WorkerStep
  <1>7. ASSUME NEW p \in Ticks, Kill({p})
        PROVE  IngestInv'
    <2>1. {p} \in SUBSET Runners
      BY DEF Runners
    <2> QED BY <1>7, <2>1, KillKeeps
  <1>8. CASE Kill(Workers)
    <2>1. Workers \in SUBSET Runners
      BY DEF Runners
    <2> QED BY <1>8, <2>1, KillKeeps
  <1>9. CASE UNCHANGED vars
    BY <1>9, StutterKeeps
  <1> QED BY <1>2, <1>3, <1>4, <1>5, <1>6, <1>7, <1>8, <1>9 DEF Next

\* Between any two steps of ticks, workers and kills, each runner has kept its part of
\* the write-ahead protocol and every complete slice is accounted for.
THEOREM IngestInvariant == Spec => []IngestInv
  <1> QED BY InitInv, NextKeeps, PTL DEF Spec

\* Every variable of the ingestion stays in the set of its values.
THEOREM IngestTypes == Spec => []TypeOK
  <1>1. IngestInv => TypeOK
    BY DEF IngestInv
  <1> QED BY <1>1, IngestInvariant, PTL

\* The state "done" of a store, which stops a backfill, is true of the store.
THEOREM DoneStaysWritten == Spec => []DoneIsWritten
  <1>1. IngestInv => DoneIsWritten
    BY DEF IngestInv
  <1> QED BY <1>1, IngestInvariant, PTL

\* mark_slice_done is called only for slices that are, or will be, in both stores.
THEOREM JobDoneStaysRecoverable == Spec => []JobDoneRecoverable
  <1>1. IngestInv => JobDoneRecoverable
    BY DEF IngestInv
  <1> QED BY <1>1, IngestInvariant, PTL

\* Nothing but a kill between the parquet checkpoint and the intents strands a slice.
THEOREM OnlyKillsStrand == Spec => []StrandedOnlyByKill
  <1>1. IngestInv => StrandedOnlyByKill
    <2> SUFFICES ASSUME IngestInv, NEW s \in complete, s \notin killed, s \notin Held(Runners)
                 PROVE  \A x \in Stores : s \in written[x] \cup pending[x]
      BY DEF StrandedOnlyByKill
    <2>1. s # NoSlice
      BY DEF IngestInv, TypeOK, Slices, NoSlice
    <2>2. ~\E p \in Runners : Minds(runner[p], s)
      BY <2>1 DEF Minds, Held
    <2> QED BY <2>2 DEF IngestInv, CompleteInv, Safe
  <1> QED BY <1>1, IngestInvariant, PTL

\* remove_pending removes only slices that the store holds, whoever runs it.
THEOREM PendingLeftWritten == Spec => PendingLeavesOnlyWritten
  <1>1. IngestInv /\ [Next]_vars =>
          [\A x \in Stores : pending[x] \ pending'[x] \subseteq written[x]]_vars
    <2> SUFFICES ASSUME IngestInv, [Next]_vars, NEW x \in Stores
                 PROVE  pending[x] \ pending'[x] \subseteq written[x]
      OBVIOUS
    <2>1. ASSUME NEW p \in Runners, Forget(p)
          PROVE  pending[x] \ pending'[x] \subseteq written[x]
      <3>1. runner[p].slice \in written[runner[p].store]
        BY <2>1, RunnerAt DEF Forget, At, RunnerOK
      <3> QED BY <2>1, <3>1 DEF Forget, IngestInv, TypeOK
    <2>2. ASSUME NEW p \in Runners, Intend(p)
          PROVE  pending[x] \ pending'[x] \subseteq written[x]
      BY <2>2 DEF Intend, IngestInv, TypeOK
    <2>3. ASSUME pending' = pending
          PROVE  pending[x] \ pending'[x] \subseteq written[x]
      BY <2>3
    <2>4. ASSUME NEW p \in Runners, SliceStep(p)
          PROVE  pending[x] \ pending'[x] \subseteq written[x]
      BY <2>1, <2>2, <2>4 DEF SliceStep, WriteParquet, StreamFails, Check, ReadCheckpoint,
         Advance, WriteStore, Mark, Except, sliceVars
    <2>5. ASSUME NEW p \in Runners, Step(p) \/ DownloadRaises(p) \/ StoreRaises(p)
          PROVE  pending[x] \ pending'[x] \subseteq written[x]
      BY <2>4, <2>5 DEF Step, Missing, DownloadRaises, StoreRaises, sliceVars
    <2>6. ASSUME NEW p \in Ticks, Tick(p) \/ TickStep(p) \/ Resume(p) \/ ResumeStep(p)
          PROVE  pending' = pending
      BY <2>6 DEF Tick, TickStep, Replay, Fetch, Gate, Resume, ResumeStep, Requeue, ClearFailed, sliceVars
    <2>7. ASSUME NEW w \in Workers, WorkerStep(w)
          PROVE  pending' = pending
      BY <2>7 DEF WorkerStep, Pop, SkipDone, MarkDone, MarkFailed, sliceVars
    <2>8. ASSUME NEW P, Kill(P) \/ StartBackfill \/ UNCHANGED vars
          PROVE  pending' = pending
      BY <2>8 DEF Kill, StartBackfill, vars, sliceVars
    <2> QED BY <2>3, <2>5, <2>6, <2>7, <2>8 DEF Next
  <1> QED BY <1>1, IngestInvariant, PTL DEF Spec, PendingLeavesOnlyWritten

-------------------------------------------------------------------------------
(* The invariants.                                                         *)

\* A worker holds a slice of the job exactly while it is at one.
WorkerOK(r) ==
  /\ ~r.replaying
  /\ r.at \in {"idle", "pop"} => r.slice = NoSlice
  /\ r.at = "idle" => r.job = "none"
  /\ r.at # "idle" => r.job = "backfill" /\ job.started
  /\ r.at \notin {"idle", "pop"} =>
       r.slice \in JobRange /\ r.at \notin {"replay", "fetch", "gate", "requeue", "clear"}

\* What is in the job's sets, in a worker's hands, or lost to a kill or an overrun.
Kept(s) ==
  \/ s \in killed \cup overrun \cup job.pending \cup job.done
  \/ \E w \in Workers : runner[w].slice = s

\* A resume that has yet to requeue knows every failed slice but those that have failed
\* since; one that has yet to clear the set finds them kept elsewhere.
ResumeOK(r) ==
  /\ r.at \in {"requeue", "clear"} => r.todo \subseteq JobRange /\ job.started
  /\ r.at = "requeue" => job.failed \subseteq r.todo \cup overrun
  /\ r.at = "clear" => \A s \in job.failed : Kept(s)

\* Nothing of a job's range is lost, whoever works on its sets.
JobInv ==
  /\ \A w \in Workers : WorkerOK(runner[w])
  /\ \A p \in Ticks : runner[p].job # "backfill" /\ ResumeOK(runner[p])
  /\ job.pending \subseteq JobRange /\ job.failed \subseteq JobRange /\ job.done \subseteq JobRange
  /\ job.started => \A s \in JobRange : s \in job.failed \/ Kept(s)

Beyond(s) == job.started => \A t \in JobRange : t < s

\* What a tick has left behind on its way to the newest slice is on disk or passed.
TickOK(r) ==
  r.job = "tick" /\ ~r.replaying /\ r.at \in {"download"} \cup Ingesting =>
    /\ r.slice \in Slices /\ r.slice <= r.latest
    /\ \A t \in r.todo : r.slice < t /\ t <= r.latest
    /\ \A s \in Slices :
         Beyond(s) /\ s <= r.latest /\ s \notin r.todo /\ s # r.slice => s \in files \cup passed
    /\ r.at \notin {"download", "check"} => r.slice \in files

PolicyInv ==
  /\ complete \subseteq files
  /\ CheckpointPassesByPolicy
  /\ \A p \in Runners : TickOK(runner[p])

-------------------------------------------------------------------------------
(* The job.                                                                *)

\* The oldest of some slices is one of them, and no later than any.
LEMMA OldestIs ==
  ASSUME NEW S, S \subseteq Slices, S # {}
  PROVE  Oldest(S) \in S /\ \A t \in S : Oldest(S) <= t
  <1> DEFINE R == {ss \in Nat \X Nat : ss[1] < ss[2]}
  <1>1. R = OpToRel(<, Nat)
    BY DEF OpToRel
  <1>2. IsWellFoundedOn(R, Nat)
    BY <1>1, NatLessThanWellFounded
  <1>3. S \subseteq Nat
    BY DEF Slices
  <1> HIDE DEF R
  <1>4. PICK s \in S : \A t \in S : ~ (<<t, s>> \in R)
    BY <1>2, <1>3, WFMin
  <1>5. ASSUME NEW t \in S PROVE s <= t
    <2>1. <<t, s>> \notin R
      BY <1>4
    <2>2. ~(t < s)
      BY <1>3, <2>1 DEF R
    <2> QED BY <1>3, <2>2
  <1> QED BY <1>5 DEF Oldest

LEMMA Apart == \A p \in Ticks : p \notin Workers /\ p \in Runners
  BY DEF Runners

LEMMA SliceNumbers == Slices \subseteq Nat /\ JobRange \subseteq Slices
  BY DEF Slices, SliceAssumption, IngestAssumption

LEMMA NoSliceIsNone == NoSlice \notin Slices /\ NoSlice \notin JobRange
  BY DEF NoSlice, Slices, SliceAssumption, IngestAssumption

\* A step of a worker at its slice leaves it at that slice.
LEMMA WorkerCarries ==
  ASSUME IngestInv, JobInv, NEW w \in Workers,
         SliceStep(w) \/ Missing(w) \/ DownloadRaises(w) \/ StoreRaises(w) \/ SkipDone(w),
         job' = job
  PROVE  runner'[w].slice = runner[w].slice /\ WorkerOK(runner[w])'
  <1> DEFINE r == runner[w]
  <1>1. w \in Runners /\ r \in Runner /\ WorkerOK(r) /\ runner \in [Runners -> Runner]
    BY DEF IngestInv, TypeOK, JobInv, Runners
  <1>2. ASSUME NEW a \in {"check", "read", "intend", "write", "mark", "forget", "except",
                          "ask", "ended", "raised", "download", "advance"},
               NEW x \in Stores, NEW y,
               runner' = [runner EXCEPT ![w] = [r EXCEPT !.at = a, !.store = x, !.seen = y]],
               r.at \notin {"idle", "pop"}
        PROVE  runner'[w].slice = r.slice /\ WorkerOK(runner[w])'
    <2>1. runner'[w] = [r EXCEPT !.at = a, !.store = x, !.seen = y]
      BY <1>1, <1>2
    <2>2. /\ runner'[w].at = a /\ runner'[w].slice = r.slice
          /\ runner'[w].replaying = r.replaying /\ runner'[w].job = r.job
      BY <1>1, <2>1 DEF Runner
    <2> HIDE DEF r
    <2> QED BY <1>1, <1>2, <2>2 DEF WorkerOK
  <1>3. \A a : [r EXCEPT !.at = a] = [r EXCEPT !.at = a, !.store = r.store, !.seen = r.seen]
    BY <1>1 DEF Runner
  <1>4. \A a, x : [r EXCEPT !.at = a, !.store = x] = [r EXCEPT !.at = a, !.store = x, !.seen = r.seen]
    BY <1>1 DEF Runner
  <1>5. \A a, y : [r EXCEPT !.at = a, !.seen = y] = [r EXCEPT !.at = a, !.store = r.store, !.seen = y]
    BY <1>1 DEF Runner
  <1>6. r.store \in Stores /\ r.job # "tick" /\ (r.at \notin {"idle", "pop"} => r.job = "backfill")
        /\ ~r.replaying
    BY <1>1 DEF Runner, WorkerOK
  <1>7. r.at \notin {"idle", "pop"} =>
          /\ Raise(r) = [r EXCEPT !.at = "raised"]
          /\ NextStore(r) = IF r.store = "neo4j" THEN [r EXCEPT !.at = "intend", !.store = "qdrant"]
                            ELSE [r EXCEPT !.at = "ended"]
    <2>1. CASE r.store = "neo4j"
      BY <1>6, <2>1 DEF Raise, NextStore
    <2>2. CASE r.store = "qdrant"
      BY <1>6, <2>2 DEF Raise, NextStore
    <2> QED BY <1>6, <2>1, <2>2 DEF Stores
  <1> HIDE DEF r
  <1>8. \A a : [runner EXCEPT ![w].at = a] = [runner EXCEPT ![w] = [runner[w] EXCEPT !.at = a]]
    BY <1>1 DEF Runner
  <1>9. CASE WriteParquet(w) \/ StreamFails(w) \/ ReadCheckpoint(w) \/ Advance(w) \/ Intend(w)
             \/ WriteStore(w) \/ Mark(w)
    <2>1. ASSUME NEW a \in {"check", "intend", "write", "mark", "forget"}, NEW y,
                 runner' = [runner EXCEPT ![w] = [r EXCEPT !.at = a]]
                 \/ runner' = [runner EXCEPT ![w] = [r EXCEPT !.at = a, !.seen = y]],
                 r.at \notin {"idle", "pop"}
          PROVE  runner'[w].slice = r.slice /\ WorkerOK(runner[w])'
      <3>1. CASE runner' = [runner EXCEPT ![w] = [r EXCEPT !.at = a]]
        <4>1. runner' = [runner EXCEPT ![w] = [r EXCEPT !.at = a, !.store = r.store, !.seen = r.seen]]
          BY <1>3, <3>1, Zenon
        <4> QED BY <1>2, <1>6, <2>1, <4>1 DEF r
      <3>2. CASE runner' = [runner EXCEPT ![w] = [r EXCEPT !.at = a, !.seen = y]]
        <4>1. runner' = [runner EXCEPT ![w] = [r EXCEPT !.at = a, !.store = r.store, !.seen = y]]
          BY <1>5, <3>2, Zenon
        <4> QED BY <1>2, <1>6, <2>1, <4>1 DEF r
      <3> QED BY <2>1, <3>1, <3>2
    <2>2. CASE WriteParquet(w) \/ StreamFails(w)
      BY <2>1, <2>2 DEF WriteParquet, StreamFails, At, Goto, Move, r
    <2>3. CASE ReadCheckpoint(w)
      <3>1. runner' = [runner EXCEPT ![w] = [r EXCEPT !.at = "advance", !.seen = checkpoint]]
            /\ r.at \notin {"idle", "pop"}
        BY <2>3 DEF ReadCheckpoint, At, Move, r
      <3>2. runner' = [runner EXCEPT ![w] = [r EXCEPT !.at = "advance", !.store = r.store,
                                                     !.seen = checkpoint]]
        BY <1>5, <3>1, Zenon
      <3> QED BY <1>2, <1>6, <3>1, <3>2 DEF r
    <2>4. CASE Advance(w)
      BY <2>1, <2>4 DEF Advance, At, Move, r
    <2>5. CASE Intend(w) \/ WriteStore(w) \/ Mark(w)
      BY <2>1, <2>5 DEF Intend, WriteStore, Mark, At, Goto, Move, r
    <2> QED BY <1>9, <2>2, <2>3, <2>4, <2>5
  <1>10. CASE Check(w) \/ DownloadRaises(w) \/ Missing(w)
    <2>1. PICK a \in {"read", "raised"} :
             /\ runner' = [runner EXCEPT ![w] = [r EXCEPT !.at = a, !.store = r.store, !.seen = r.seen]]
             /\ r.at \notin {"idle", "pop"}
      BY <1>3, <1>6, <1>7, <1>10 DEF Check, DownloadRaises, Missing, At, Goto, Move, r
    <2> QED BY <1>2, <1>6, <2>1 DEF r
  <1>12. CASE SkipDone(w)
    <2>1. r.at \in {"popped", "ask"}
      BY <1>12 DEF SkipDone, At, r
    <2>2. PICK a \in {"ask", "download", "ended"}, x \in Stores :
             runner' = [runner EXCEPT ![w] = [r EXCEPT !.at = a, !.store = x, !.seen = r.seen]]
      <3>1. CASE \E a \in {"ask", "download", "ended"} : runner' = [runner EXCEPT ![w] = [r EXCEPT !.at = a]]
        BY <1>3, <1>6, <3>1
      <3>2. CASE runner' = [runner EXCEPT ![w] = [r EXCEPT !.at = "download", !.store = "neo4j"]]
        BY <1>4, <3>2 DEF Stores
      <3>3. CASE runner' = [runner EXCEPT ![w] = [r EXCEPT !.store = "qdrant"]] /\ r.at = "ask"
        <4>1. [r EXCEPT !.store = "qdrant"] = [r EXCEPT !.at = "ask", !.store = "qdrant", !.seen = r.seen]
          BY <1>1, <3>3 DEF Runner, r
        <4> QED BY <3>3, <4>1 DEF Stores
      <3> QED BY <1>12, <3>1, <3>2, <3>3 DEF SkipDone, At, Goto, Move, r
    <2> QED BY <1>2, <1>6, <2>1, <2>2 DEF r
  <1>11. CASE Forget(w) \/ Except(w) \/ StoreRaises(w)
    <2>1. PICK a \in {"intend", "ended", "except"}, x \in Stores :
             /\ runner' = [runner EXCEPT ![w] = [r EXCEPT !.at = a, !.store = x, !.seen = r.seen]]
             /\ r.at \notin {"idle", "pop"}
      <3>1. CASE StoreRaises(w)
        <4>1. runner' = [runner EXCEPT ![w] = [r EXCEPT !.at = "except", !.store = r.store, !.seen = r.seen]]
              /\ r.at \notin {"idle", "pop"}
          BY <1>3, <1>6, <3>1 DEF StoreRaises, Move, r
        <4> QED BY <1>6, <4>1
      <3>2. CASE Forget(w) \/ Except(w)
        <4>1. runner' = [runner EXCEPT ![w] = NextStore(r)] /\ r.at \notin {"idle", "pop"}
          BY <1>6, <3>2 DEF Forget, Except, At, Move, r
        <4>2. CASE r.store = "neo4j"
          BY <1>4, <1>7, <4>1, <4>2, ZenonT(30) DEF Stores
        <4>3. CASE r.store # "neo4j"
          BY <1>3, <1>6, <1>7, <4>1, <4>3
        <4> QED BY <4>2, <4>3
      <3> QED BY <1>11, <3>1, <3>2
    <2> QED BY <1>2, <1>6, <2>1 DEF r
  <1> QED BY <1>9, <1>10, <1>11, <1>12 DEF SliceStep, r

\* Such a step keeps the job's account.
LEMMA CarryKeeps ==
  ASSUME IngestInv, JobInv, NEW w \in Workers, job' = job, killed' = killed, overrun' = overrun,
         \A q \in Runners \ {w} : runner'[q] = runner[q],
         runner'[w].slice = runner[w].slice, WorkerOK(runner[w])'
  PROVE  JobInv'
  <1>1. \A v \in Workers : runner'[v].slice = runner[v].slice /\ WorkerOK(runner[v])'
    BY DEF JobInv, WorkerOK, Runners
  <1>2. \A p \in Ticks : runner'[p] = runner[p]
    BY Apart
  <1>3. \A s : Kept(s) => Kept(s)'
    BY <1>1 DEF Kept
  <1> QED BY <1>1, <1>2, <1>3 DEF JobInv, ResumeOK, Kept

\* Only its own runner moves in a step.
LEMMA OthersStay ==
  ASSUME IngestInv, NEW p \in Runners,
         SliceStep(p) \/ Missing(p) \/ DownloadRaises(p) \/ StoreRaises(p) \/ Tick(p)
         \/ TickStep(p) \/ Resume(p) \/ ResumeStep(p) \/ WorkerStep(p)
  PROVE  \A q \in Runners \ {p} : runner'[q] = runner[q]
  <1>1. runner \in [Runners -> Runner]
    BY DEF IngestInv, TypeOK
  <1>2. PICK r : runner' = [runner EXCEPT ![p] = r]
    <2>1. CASE SliceStep(p)
      BY <2>1 DEF SliceStep, WriteParquet, StreamFails, Check, ReadCheckpoint, Advance, Intend,
         WriteStore, Mark, Forget, Except, Goto, Move
    <2>2. CASE Missing(p) \/ DownloadRaises(p) \/ StoreRaises(p)
      BY <2>2 DEF Missing, DownloadRaises, StoreRaises, Move
    <2>3. CASE Tick(p) \/ Fetch(p) \/ Gate(p) \/ Resume(p)
      BY <2>3 DEF Tick, Fetch, Gate, Resume, Move
    <2>4. CASE Replay(p)
      BY <2>4 DEF Replay, Move
    <2>5. CASE WorkerStep(p)
      BY <2>5 DEF WorkerStep, Pop, SkipDone, MarkDone, MarkFailed, Goto, Move
    <2>6. CASE ResumeStep(p)
      BY <2>6 DEF ResumeStep, Requeue, ClearFailed, Goto, Move
    <2> QED BY <2>1, <2>2, <2>3, <2>4, <2>5, <2>6 DEF TickStep
  <1> QED BY <1>1, <1>2

\* Such a step takes a tick neither to a worker's job nor into a resume.
LEMMA TickJob ==
  ASSUME IngestInv, JobInv, NEW p \in Ticks,
         SliceStep(p) \/ Missing(p) \/ DownloadRaises(p) \/ StoreRaises(p) \/ Tick(p)
         \/ TickStep(p)
  PROVE  runner'[p].job # "backfill" /\ runner'[p].at \notin {"requeue", "clear"}
  <1> DEFINE r == runner[p]
             Fine(q) == q.job # "backfill" /\ q.at \notin {"requeue", "clear"}
  <1>1. p \in Runners /\ r \in Runner /\ r.job # "backfill" /\ runner \in [Runners -> Runner]
    BY Apart DEF IngestInv, TypeOK, JobInv
  <1>2. Fine(Idle) /\ Idle.job = "none"
    BY DEF Idle
  <1>3. \A y : Fine(NextSlice(y))
    BY <1>2 DEF NextSlice, Idle
  <1>4. Fine(Raise(r)) /\ Fine(ReplayNext(r))
    BY <1>1, <1>2 DEF Raise, ReplayNext, Runner
  <1>5. \A y \in Runner : y.job # "backfill" => \A x : Fine(ListPending(y, x))
    BY DEF ListPending, Runner
  <1>6. r.job \in {"tick", "backfill"} => Fine(NextStore(r))
    <2>1. CASE r.store = "neo4j"
      <3>1. NextStore(r) = [r EXCEPT !.at = "intend", !.store = "qdrant"]
        BY <2>1 DEF NextStore
      <3> QED BY <1>1, <3>1 DEF Runner
    <2>2. CASE r.store = "qdrant"
      <3>1. r.job = "tick" => NextStore(r) = NextSlice(r)
        BY <2>2 DEF NextStore
      <3> QED BY <1>1, <1>3, <3>1
    <2> QED BY <1>1, <2>1, <2>2 DEF Runner, Stores
  <1>7. RunnerOK(r)
    BY <1>1, RunnerAt
  <1>8. \A a \in {"check", "read", "advance", "intend", "write", "mark", "forget", "except",
                  "gate", "replay"} : \A y :
          /\ Fine([r EXCEPT !.at = a]) /\ Fine([r EXCEPT !.at = a, !.seen = y])
          /\ Fine([r EXCEPT !.at = a, !.latest = y])
    BY <1>1 DEF Runner
  <1>9. CASE WriteParquet(p) \/ StreamFails(p) \/ ReadCheckpoint(p) \/ Advance(p) \/ Intend(p)
             \/ WriteStore(p) \/ Mark(p)
    <2>1. \E a \in {"check", "advance", "intend", "write", "mark", "forget"} :
            runner'[p] \in {[r EXCEPT !.at = a], [r EXCEPT !.at = a, !.seen = checkpoint],
                            [r EXCEPT !.at = a, !.seen = NoSlice]}
      BY <1>1, <1>9 DEF WriteParquet, StreamFails, ReadCheckpoint, Advance, Intend,
         WriteStore, Mark, Goto, Move
    <2> HIDE DEF Fine, r
    <2>2. PICK a \in {"check", "advance", "intend", "write", "mark", "forget"} :
            \/ runner'[p] = [r EXCEPT !.at = a]
            \/ \E y : runner'[p] = [r EXCEPT !.at = a, !.seen = y]
      BY <2>1
    <2>3. Fine([r EXCEPT !.at = a]) /\ \A y : Fine([r EXCEPT !.at = a, !.seen = y])
      BY <1>8
    <2>4. Fine(runner'[p])
      BY <2>2, <2>3, Zenon
    <2> QED BY <2>4 DEF Fine
  <1>10. CASE Check(p)
    <2>1. runner'[p] = [r EXCEPT !.at = "read"] \/ runner'[p] = Raise(r)
      BY <1>1, <1>10 DEF Check, Move
    <2> HIDE DEF Fine, r
    <2>2. Fine(runner'[p])
      BY <1>4, <1>8, <2>1
    <2> QED BY <2>2 DEF Fine
  <1>11. CASE Forget(p) \/ Except(p)
    <2>1. runner'[p] = ReplayNext(r) \/ (runner'[p] = NextStore(r) /\ (r.at = "except" \/ ~r.replaying)
             /\ r.at \in {"forget", "except"})
      BY <1>1, <1>11 DEF Forget, Except, At, Move
    <2>2. r.at = "except" => ~r.replaying
      BY <1>7 DEF RunnerOK
    <2>3. r.at \in {"forget", "except"} /\ ~r.replaying => r.job \in {"tick", "backfill"}
      BY <1>7 DEF RunnerOK, Ingesting
    <2> HIDE DEF Fine, r
    <2>4. Fine(runner'[p])
      BY <1>4, <1>6, <2>1, <2>2, <2>3
    <2> QED BY <2>4 DEF Fine
  <1>12. CASE StoreRaises(p)
    <2>1. runner'[p] = ReplayNext(r) \/ runner'[p] = [r EXCEPT !.at = "except"]
      BY <1>1, <1>12 DEF StoreRaises, Move
    <2> HIDE DEF Fine, r
    <2>2. Fine(runner'[p])
      BY <1>4, <1>8, <2>1
    <2> QED BY <2>2 DEF Fine
  <1>13. CASE Missing(p) \/ DownloadRaises(p)
    <2>1. runner'[p] \in {NextSlice(r), Raise(r)}
      BY <1>1, <1>13 DEF Missing, DownloadRaises, Move
    <2> HIDE DEF Fine, r
    <2>2. Fine(runner'[p])
      BY <1>3, <1>4, <2>1
    <2> QED BY <2>2 DEF Fine
  <1>14. CASE Tick(p)
    <2>1. runner'[p] = ListPending([Idle EXCEPT !.job = "tick"], "neo4j")
      BY <1>1, <1>14 DEF Tick, Move
    <2>2. [Idle EXCEPT !.job = "tick"] \in Runner /\ [Idle EXCEPT !.job = "tick"].job = "tick"
      BY IdleType DEF Runner
    <2> HIDE DEF Fine, r
    <2>3. Fine(runner'[p])
      BY <1>5, <2>1, <2>2
    <2> QED BY <2>3 DEF Fine
  <1>15. CASE Replay(p)
    <2>1. \/ runner'[p] = [r EXCEPT !.at = "write", !.slice = Oldest(r.todo), !.todo = @ \ {Oldest(r.todo)}]
          \/ runner'[p] = [r EXCEPT !.todo = @ \ {Oldest(r.todo)}] /\ r.at = "replay"
          \/ runner'[p] = ListPending(r, "qdrant")
          \/ runner'[p] = Idle
          \/ runner'[p] = [Idle EXCEPT !.at = "fetch", !.job = "tick"]
      BY <1>1, <1>15 DEF Replay, Move, At
    <2>2. Fine([Idle EXCEPT !.at = "fetch", !.job = "tick"])
      BY DEF Idle
    <2>3. Fine([r EXCEPT !.at = "write", !.slice = Oldest(r.todo), !.todo = @ \ {Oldest(r.todo)}])
      BY <1>1 DEF Runner
    <2>4. r.at = "replay" => Fine([r EXCEPT !.todo = @ \ {Oldest(r.todo)}])
      BY <1>1 DEF Runner
    <2>5. Fine(ListPending(r, "qdrant"))
      BY <1>1, <1>5
    <2> HIDE DEF Fine, r
    <2>6. Fine(runner'[p])
      BY <1>2, <2>1, <2>2, <2>3, <2>4, <2>5
    <2> QED BY <2>6 DEF Fine
  <1>16. CASE Fetch(p)
    <2>1. PICK s : runner'[p] = [r EXCEPT !.at = "gate", !.latest = s] \/ runner'[p] = Idle
      BY <1>1, <1>16 DEF Fetch, Move
    <2> HIDE DEF Fine, r
    <2>2. Fine(runner'[p])
      BY <1>2, <1>8, <2>1, ZenonT(30)
    <2> QED BY <2>2 DEF Fine
  <1>17. CASE Gate(p)
    <2>1. runner'[p] = Idle \/ \E y : runner'[p] = NextSlice(y)
      BY <1>1, <1>17 DEF Gate, Move
    <2> HIDE DEF Fine, r
    <2>2. Fine(runner'[p])
      BY <1>2, <1>3, <2>1
    <2> QED BY <2>2 DEF Fine
  <1> QED BY <1>9, <1>10, <1>11, <1>12, <1>13, <1>14, <1>15, <1>16, <1>17 DEF SliceStep, TickStep

\* A step of a tick leaves the workers where they are.
LEMMA TickKeepsJob ==
  ASSUME IngestInv, JobInv, NEW p \in Ticks,
         \A q \in Runners \ {p} : runner'[q] = runner[q],
         runner'[p].job # "backfill", runner'[p].at \notin {"requeue", "clear"},
         job' = job, killed' = killed, overrun' = overrun
  PROVE  JobInv'
  <1>1. \A w \in Workers : runner'[w] = runner[w]
    BY Apart DEF Runners
  <1>2. \A q \in Ticks \ {p} : runner'[q] = runner[q]
    BY Apart
  <1>3. \A s : Kept(s) => Kept(s)'
    BY <1>1 DEF Kept
  <1>4. \A q \in Ticks : ResumeOK(runner[q])'
    BY <1>2, <1>3 DEF JobInv, ResumeOK, Kept
  <1> QED BY <1>1, <1>2, <1>3, <1>4 DEF JobInv, WorkerOK

LEMMA WorkerIs ==
  ASSUME IngestInv, NEW w \in Workers
  PROVE  w \in Runners /\ w \notin Ticks /\ runner \in [Runners -> Runner] /\ runner[w] \in Runner
  BY DEF IngestInv, TypeOK, Runners

\* A resume reads the failed slices: it knows them all, or there are none.
LEMMA ResumeKeepsJob ==
  ASSUME IngestInv, JobInv, NEW p \in Ticks, Resume(p)
  PROVE  JobInv'
  <1>1. /\ \A q \in Runners \ {p} : runner'[q] = runner[q]
        /\ p \in Runners /\ runner \in [Runners -> Runner]
    BY OthersStay, Apart DEF IngestInv, TypeOK
  <1>2. job' = job /\ killed' = killed /\ overrun' = overrun /\ job.started
    BY DEF Resume
  <1>3. CASE job.failed = {}
    <2>1. runner'[p] = ReplayForResume
      BY <1>1, <1>3 DEF Resume, Move
    <2>2. ReplayForResume.job = "resume" /\ ReplayForResume.at = "replay"
      BY DEF ReplayForResume, ListPending, Idle
    <2> QED BY <1>1, <1>2, <2>1, <2>2, TickKeepsJob
  <1>4. CASE job.failed # {}
    <2> DEFINE q == [Idle EXCEPT !.at = "requeue", !.job = "resume", !.todo = job.failed]
    <2>1. runner'[p] = q
      BY <1>1, <1>4 DEF Resume, Move
    <2>2. q.at = "requeue" /\ q.job = "resume" /\ q.todo = job.failed
      BY DEF Idle
    <2> HIDE DEF q
    <2>3. \A w \in Workers : runner'[w] = runner[w]
      BY <1>1, Apart DEF Runners
    <2>4. \A s : Kept(s) => Kept(s)'
      BY <1>2, <2>3 DEF Kept
    <2>5. ASSUME NEW t \in Ticks PROVE runner'[t].job # "backfill" /\ ResumeOK(runner[t])'
      <3>1. CASE t = p
        BY <1>2, <2>1, <2>2, <3>1 DEF JobInv, ResumeOK
      <3>2. CASE t # p
        <4>1. runner'[t] = runner[t]
          BY <1>1, <3>2, Apart
        <4> QED BY <1>2, <2>4, <4>1 DEF JobInv, ResumeOK
      <3> QED BY <3>1, <3>2
    <2> QED BY <1>2, <2>3, <2>4, <2>5 DEF JobInv, WorkerOK
  <1> QED BY <1>3, <1>4

\* The slices it requeues are kept, whatever becomes of the failed set.
LEMMA RequeueKeepsJob ==
  ASSUME IngestInv, JobInv, NEW p \in Ticks, Requeue(p)
  PROVE  JobInv'
  <1>1. /\ \A q \in Runners \ {p} : runner'[q] = runner[q]
        /\ p \in Runners /\ runner[p] \in Runner /\ runner \in [Runners -> Runner]
    BY OthersStay, Apart DEF ResumeStep, IngestInv, TypeOK
  <1>2. /\ job'.started = job.started /\ job'.pending = job.pending \cup runner[p].todo
        /\ job'.failed = job.failed /\ job'.done = job.done /\ killed' = killed /\ overrun' = overrun
    BY DEF Requeue, IngestInv, TypeOK, Job
  <1>3. runner'[p] = [runner[p] EXCEPT !.at = "clear"]
    BY <1>1 DEF Requeue, Goto, Move
  <1>4. /\ runner'[p].at = "clear" /\ runner'[p].todo = runner[p].todo
        /\ runner'[p].job = runner[p].job
    BY <1>1, <1>3 DEF Runner
  <1>5. \A w \in Workers : runner'[w] = runner[w]
    BY <1>1, Apart DEF Runners
  <1>6. \A s : Kept(s) => Kept(s)'
    BY <1>2, <1>5 DEF Kept
  <1>7. ResumeOK(runner[p]) /\ runner[p].at = "requeue"
    BY DEF JobInv, Requeue, At
  <1>8. \A s \in job.failed : Kept(s)'
    BY <1>2, <1>7 DEF ResumeOK, Kept
  <1>9. ASSUME NEW t \in Ticks PROVE runner'[t].job # "backfill" /\ ResumeOK(runner[t])'
    <2>1. CASE t = p
      BY <1>2, <1>4, <1>7, <1>8, <2>1 DEF JobInv, ResumeOK
    <2>2. CASE t # p
      <3>1. runner'[t] = runner[t]
        BY <1>1, <2>2, Apart
      <3> QED BY <1>2, <1>6, <3>1 DEF JobInv, ResumeOK
    <2> QED BY <2>1, <2>2
  <1>10. runner[p].todo \subseteq JobRange
    BY <1>7 DEF ResumeOK
  <1> QED BY <1>2, <1>5, <1>6, <1>9, <1>10 DEF JobInv, WorkerOK

\* When the set goes, every slice in it is kept elsewhere.
LEMMA ClearFailedKeepsJob ==
  ASSUME IngestInv, JobInv, NEW p \in Ticks, ClearFailed(p)
  PROVE  JobInv'
  <1>1. /\ \A q \in Runners \ {p} : runner'[q] = runner[q]
        /\ p \in Runners /\ runner \in [Runners -> Runner]
    BY OthersStay, Apart DEF ResumeStep, IngestInv, TypeOK
  <1>2. /\ job'.started = job.started /\ job'.pending = job.pending
        /\ job'.failed = {} /\ job'.done = job.done /\ killed' = killed /\ overrun' = overrun
    BY DEF ClearFailed, IngestInv, TypeOK, Job
  <1>3. runner'[p] = ReplayForResume
    BY <1>1 DEF ClearFailed, Move
  <1>4. ReplayForResume.job = "resume" /\ ReplayForResume.at = "replay"
    BY DEF ReplayForResume, ListPending, Idle
  <1>5. \A w \in Workers : runner'[w] = runner[w]
    BY <1>1, Apart DEF Runners
  <1>6. \A s : Kept(s) => Kept(s)'
    BY <1>2, <1>5 DEF Kept
  <1>7. \A s \in job.failed : Kept(s)
    BY DEF JobInv, ClearFailed, At, ResumeOK
  <1>8. ASSUME NEW t \in Ticks PROVE runner'[t].job # "backfill" /\ ResumeOK(runner[t])'
    <2>1. CASE t = p
      BY <1>3, <1>4, <2>1 DEF ResumeOK
    <2>2. CASE t # p
      <3>1. runner'[t] = runner[t]
        BY <1>1, <2>2, Apart
      <3> QED BY <1>2, <3>1 DEF JobInv, ResumeOK
    <2> QED BY <2>1, <2>2
  <1> QED BY <1>2, <1>5, <1>6, <1>7, <1>8 DEF JobInv, WorkerOK

LEMMA NextPopIs ==
  NextPop.at = "pop" /\ NextPop.slice = NoSlice /\ ~NextPop.replaying /\ NextPop.job = "backfill"
  BY DEF NextPop, Idle

LEMMA IdleIs == Idle.at = "idle" /\ Idle.slice = NoSlice /\ ~Idle.replaying /\ Idle.job = "none"
  BY DEF Idle

LEMMA StartKeepsJob ==
  ASSUME IngestInv, JobInv, StartBackfill
  PROVE  JobInv'
  <1>1. \A w \in Workers : runner'[w] = NextPop
    BY DEF StartBackfill, Runners
  <1>2. \A q \in Ticks : runner'[q] = runner[q] /\ runner[q].at \notin {"requeue", "clear"}
    <2>1. \A q \in Ticks : runner[q].at \notin {"requeue", "clear"}
      BY DEF StartBackfill, JobInv, ResumeOK
    <2> QED BY <2>1, Apart DEF StartBackfill
  <1>3. /\ job'.started /\ job'.pending = JobRange /\ job'.failed = {} /\ job'.done = {}
    <2>1. job' = [started |-> TRUE, pending |-> JobRange, failed |-> {}, done |-> {}]
      BY DEF StartBackfill
    <2> QED BY <2>1
  <1>4. \A w \in Workers : WorkerOK(runner[w])'
    BY <1>1, <1>3, NextPopIs DEF WorkerOK
  <1>5. \A q \in Ticks : runner'[q].job # "backfill" /\ ResumeOK(runner[q])'
    BY <1>2 DEF JobInv, ResumeOK
  <1> QED BY <1>3, <1>4, <1>5 DEF JobInv, Kept

\* A popped slice is in the worker's hands.
LEMMA PopKeepsJob ==
  ASSUME IngestInv, JobInv, NEW w \in Workers, Pop(w)
  PROVE  JobInv'
  <1> DEFINE r == runner[w]
             s == Oldest(job.pending)
  <1>1. /\ \A q \in Runners \ {w} : runner'[q] = runner[q]
        /\ w \in Runners /\ w \notin Ticks /\ runner \in [Runners -> Runner] /\ r \in Runner
    BY OthersStay, WorkerIs DEF WorkerStep
  <1>2. \A q \in Ticks : runner'[q] = runner[q]
    BY <1>1, Apart
  <1>3. killed' = killed /\ overrun' = overrun /\ r.at = "pop" /\ WorkerOK(r)
    BY DEF Pop, At, JobInv
  <1>4. CASE job.pending = {}
    <2>1. runner'[w] = Idle /\ job' = job
      BY <1>1, <1>4 DEF Pop, Move
    <2>2. runner'[w].slice = r.slice /\ WorkerOK(runner[w])'
      BY <1>3, <2>1, IdleIs DEF WorkerOK
    <2> QED BY <1>1, <1>3, <2>1, <2>2, CarryKeeps
  <1>5. CASE job.pending # {}
    <2>1. /\ job'.started = job.started /\ job'.pending = job.pending \ {s}
          /\ job'.failed = job.failed /\ job'.done = job.done
          /\ runner'[w] = [r EXCEPT !.at = "popped", !.slice = s]
      BY <1>1, <1>5 DEF Pop, Move, IngestInv, TypeOK, Job
    <2>2. s \in JobRange
      <3>1. job.pending \subseteq Slices
        BY DEF IngestInv, TypeOK, Job
      <3> QED BY <1>5, <3>1, OldestIs DEF JobInv
    <2>3. runner'[w].at = "popped" /\ runner'[w].slice = s /\ runner'[w].replaying = r.replaying
          /\ runner'[w].job = r.job
      BY <1>1, <2>1 DEF Runner
    <2>4. r.slice = NoSlice
      BY <1>3 DEF WorkerOK
    <2> HIDE DEF r, s
    <2>5. \A v \in Workers \ {w} : runner'[v] = runner[v]
      BY <1>1 DEF Runners
    <2>6. WorkerOK(runner[w])'
      BY <1>3, <2>1, <2>2, <2>3 DEF WorkerOK
    <2>7. \A v \in Workers : WorkerOK(runner[v])'
      <3>1. ASSUME NEW v \in Workers \ {w} PROVE WorkerOK(runner[v])'
        BY <2>1, <2>5 DEF JobInv, WorkerOK
      <3> QED BY <2>6, <3>1
    <2>8. ASSUME NEW x \in JobRange, Kept(x) PROVE Kept(x)'
      <3>1. CASE x = s
        BY <2>3, <3>1 DEF Kept
      <3>2. CASE x # s /\ x \in killed \cup overrun \cup job.pending \cup job.done
        BY <1>3, <2>1, <3>2 DEF Kept
      <3>3. CASE \E v \in Workers : runner[v].slice = x
        <4>1. PICK v \in Workers : runner[v].slice = x
          BY <3>3
        <4>2. v # w
          BY <2>4, <4>1, NoSliceIsNone DEF r
        <4> QED BY <2>5, <4>1, <4>2 DEF Kept
      <3> QED BY <2>8, <3>1, <3>2, <3>3 DEF Kept
    <2>9. \A q \in Ticks : runner'[q].job # "backfill" /\ ResumeOK(runner[q])'
      BY <1>2, <1>3, <2>1, <2>8 DEF JobInv, ResumeOK
    <2> QED BY <2>1, <2>7, <2>8, <2>9 DEF JobInv
  <1> QED BY <1>4, <1>5

\* A marked slice stays in the worker's hands until it is in one of the sets: in the
\* failed ones with an overrun while a resume is at them.
LEMMA MarkKeepsJob ==
  ASSUME IngestInv, JobInv, NEW w \in Workers, MarkDone(w) \/ MarkFailed(w)
  PROVE  JobInv'
  <1> PICK s : s = runner[w].slice
    OBVIOUS
  <1>1. /\ \A q \in Runners \ {w} : runner'[q] = runner[q]
        /\ w \in Runners /\ w \notin Ticks /\ runner \in [Runners -> Runner]
    BY OthersStay, WorkerIs DEF WorkerStep
  <1>2. \A q \in Ticks : runner'[q] = runner[q]
    BY <1>1, Apart
  <1>3. /\ killed' = killed /\ s \in JobRange /\ job.started
        /\ WorkerOK(runner[w]) /\ runner[w].at \notin {"idle", "pop"}
    BY <1>1 DEF MarkDone, MarkFailed, At, JobInv, WorkerOK
  <1>4. /\ job'.started = job.started
        /\ \/ /\ job'.pending \in {job.pending, job.pending \ {s}}
              /\ job'.failed \in {job.failed, job.failed \ {s}}
              /\ job'.done = job.done /\ overrun' = overrun
              /\ runner'[w].slice = s /\ runner'[w].at \in {"unpend", "count", "fails"}
           \/ /\ job'.pending = job.pending /\ job'.failed = job.failed
              /\ job'.done = job.done \cup {s} /\ overrun' = overrun
              /\ runner'[w] = NextPop
           \/ /\ job'.pending = job.pending /\ job'.failed = job.failed \cup {s}
              /\ job'.done = job.done
              /\ overrun \subseteq overrun' /\ (Resuming => s \in overrun')
              /\ runner'[w] = NextPop
    <2>1. job \in Job /\ runner[w] \in Runner
      BY <1>1 DEF IngestInv, TypeOK
    <2>2. \A a \in {"unpend", "count", "fails"} :
            Goto(w, a) => runner'[w].slice = s /\ runner'[w].at = a
      BY <1>1, <2>1 DEF Goto, Move, Runner
    <2>3. Move(w, NextPop) => runner'[w] = NextPop
      BY <1>1 DEF Move
    <2>4. CASE MarkDone(w)
      BY <2>1, <2>2, <2>3, <2>4 DEF MarkDone, Job
    <2>5. CASE MarkFailed(w)
      BY <2>1, <2>2, <2>3, <2>5 DEF MarkFailed, Job
    <2> QED BY <2>4, <2>5
  <1>5. \A v \in Workers \ {w} : runner'[v] = runner[v]
    BY <1>1 DEF Runners
  <1>6. \A v \in Workers : WorkerOK(runner[v])'
    <2>1. ASSUME NEW v \in Workers \ {w} PROVE WorkerOK(runner[v])'
      BY <1>4, <1>5, <2>1 DEF JobInv, WorkerOK
    <2>2. WorkerOK(runner[w])'
      <3>1. CASE runner'[w] = NextPop
        BY <1>3, <1>4, <3>1, NextPopIs DEF WorkerOK
      <3>2. CASE runner'[w] # NextPop
        <4>1. ~runner'[w].replaying /\ runner'[w].job = runner[w].job
          BY <3>2, MarkingMoves
        <4> QED BY <1>3, <1>4, <3>2, <4>1 DEF WorkerOK
      <3> QED BY <3>1, <3>2
    <2> QED BY <2>1, <2>2
  <1>7. ASSUME NEW x \in JobRange, Kept(x), x # s PROVE Kept(x)'
    <2>1. CASE x \in killed \cup overrun \cup job.pending \cup job.done
      BY <1>3, <1>4, <1>7, <2>1 DEF Kept
    <2>2. CASE \E v \in Workers : runner[v].slice = x
      <3>1. PICK v \in Workers : runner[v].slice = x
        BY <2>2
      <3>2. v # w
        BY <1>7, <3>1
      <3> QED BY <1>5, <3>1, <3>2 DEF Kept
    <2> QED BY <1>7, <2>1, <2>2 DEF Kept
  <1>8. s \in job'.failed \/ Kept(s)'
    BY <1>4 DEF Kept
  <1>9. /\ s \in job'.failed /\ Resuming => Kept(s)'
        /\ s \in job'.failed /\ Resuming => s \in job.failed \/ s \in overrun'
    BY <1>4 DEF Kept
  <1>10. ASSUME NEW q \in Ticks PROVE runner'[q].job # "backfill" /\ ResumeOK(runner[q])'
    <2>1. runner'[q] = runner[q] /\ ResumeOK(runner[q]) /\ runner[q].job # "backfill"
      BY <1>2 DEF JobInv
    <2>2. runner[q].at \in {"requeue", "clear"} => Resuming
      BY DEF Resuming
    <2>3. \A x \in job'.failed : x \in job.failed \/ x = s
      BY <1>4
    <2>4. overrun \subseteq overrun'
      BY <1>4
    <2>5. job.failed \subseteq JobRange
      BY DEF JobInv
    <2>6. runner[q].at = "requeue" => job'.failed \subseteq runner[q].todo \cup overrun'
      BY <1>9, <2>1, <2>2, <2>3, <2>4 DEF ResumeOK
    <2>7. runner[q].at = "clear" => \A x \in job'.failed : Kept(x)'
      BY <1>7, <1>9, <2>1, <2>2, <2>3, <2>5 DEF ResumeOK
    <2> QED BY <1>4, <2>1, <2>6, <2>7 DEF ResumeOK
  <1>11. job'.pending \subseteq JobRange /\ job'.failed \subseteq JobRange /\ job'.done \subseteq JobRange
    BY <1>3, <1>4 DEF JobInv
  <1>12. \A x \in JobRange : x \in job'.failed \/ Kept(x)'
    <2>1. \A x \in JobRange : x \in job.failed \/ Kept(x)
      BY <1>3 DEF JobInv
    <2>2. \A x \in job.failed : x # s => x \in job'.failed
      BY <1>4
    <2> QED BY <1>7, <1>8, <2>1, <2>2
  <1> QED BY <1>6, <1>10, <1>11, <1>12 DEF JobInv

\* What a killed worker held is the kill's.
LEMMA KillKeepsJob ==
  ASSUME IngestInv, JobInv, NEW P \in SUBSET Runners, Kill(P)
  PROVE  JobInv'
  <1>1. /\ \A q \in Runners : runner'[q] = IF q \in P THEN Idle ELSE runner[q]
        /\ job' = job /\ killed' = killed \cup Held(P) /\ overrun' = overrun
    BY DEF Kill
  <1>2. \A w \in Workers : WorkerOK(runner[w])'
    BY <1>1, IdleIs DEF WorkerOK, JobInv, Runners
  <1>3. ASSUME NEW s \in JobRange, Kept(s) PROVE Kept(s)'
    <2>1. CASE s \in killed \cup overrun \cup job.pending \cup job.done
      BY <1>1, <2>1 DEF Kept
    <2>2. CASE \E w \in Workers : runner[w].slice = s
      <3>1. PICK w \in Workers : runner[w].slice = s
        BY <2>2
      <3>2. CASE w \in P
        <4>1. s # NoSlice /\ ~runner[w].replaying
          BY <3>1, NoSliceIsNone DEF JobInv, WorkerOK
        <4>2. s \in Held(P)
          BY <3>1, <3>2, <4>1 DEF Held
        <4> QED BY <1>1, <4>2 DEF Kept
      <3>3. CASE w \notin P
        BY <1>1, <3>1, <3>3 DEF Kept, Runners
      <3> QED BY <3>2, <3>3
    <2> QED BY <1>3, <2>1, <2>2 DEF Kept
  <1>4. \A p \in Ticks : runner'[p].job # "backfill" /\ ResumeOK(runner[p])'
    <2>1. job.failed \subseteq JobRange
      BY DEF JobInv
    <2>2. ASSUME NEW p \in Ticks PROVE runner'[p].job # "backfill" /\ ResumeOK(runner[p])'
      <3>1. CASE p \in P
        BY <1>1, <3>1, IdleIs, Apart DEF ResumeOK
      <3>2. CASE p \notin P
        <4>1. runner'[p] = runner[p]
          BY <1>1, <3>2, Apart
        <4> QED BY <1>1, <1>3, <2>1, <4>1 DEF JobInv, ResumeOK
      <3> QED BY <3>1, <3>2
    <2> QED BY <2>2
  <1> QED BY <1>1, <1>2, <1>3, <1>4 DEF JobInv

LEMMA JobInit == Init => JobInv
  <1> SUFFICES ASSUME Init PROVE JobInv
    OBVIOUS
  <1>1. \A p \in Runners : runner[p] = Idle
    BY DEF Init, SliceInit
  <1>2. job = [started |-> FALSE, pending |-> {}, failed |-> {}, done |-> {}]
    BY DEF Init
  <1>3. \A w \in Workers : WorkerOK(runner[w])
    BY <1>1, IdleIs DEF WorkerOK, Runners
  <1>4. \A p \in Ticks : runner[p].job # "backfill" /\ ResumeOK(runner[p])
    BY <1>1, IdleIs DEF ResumeOK, Runners
  <1> QED BY <1>2, <1>3, <1>4 DEF JobInv

LEMMA JobKeeps == IngestInv /\ JobInv /\ [Next]_vars => JobInv'
  <1> SUFFICES ASSUME IngestInv, JobInv, [Next]_vars PROVE JobInv'
    OBVIOUS
  <1>1. ASSUME NEW p \in Runners,
               \/ SliceStep(p) /\ UNCHANGED <<latest, job, passed, killed, overrun, kills>>
               \/ Missing(p)
               \/ DownloadRaises(p)
               \/ StoreRaises(p) /\ UNCHANGED <<latest, job, passed, killed, overrun, kills>>
        PROVE  JobInv'
    <2>1. job' = job /\ killed' = killed /\ overrun' = overrun
      BY <1>1 DEF Missing, DownloadRaises
    <2>2. \A q \in Runners \ {p} : runner'[q] = runner[q]
      BY <1>1, OthersStay
    <2>3. CASE p \in Ticks
      <3>1. runner'[p].job # "backfill" /\ runner'[p].at \notin {"requeue", "clear"}
        BY <1>1, <2>3, TickJob
      <3> QED BY <2>1, <2>2, <2>3, <3>1, TickKeepsJob
    <2>4. CASE p \in Workers
      <3>1. runner'[p].slice = runner[p].slice /\ WorkerOK(runner[p])'
        BY <1>1, <2>1, <2>4, WorkerCarries
      <3> QED BY <2>1, <2>2, <2>4, <3>1, CarryKeeps
    <2> QED BY <2>3, <2>4 DEF Runners
  <1>2. ASSUME NEW p \in Ticks, Tick(p) \/ TickStep(p)
        PROVE  JobInv'
    <2>1. job' = job /\ killed' = killed /\ overrun' = overrun
      BY <1>2 DEF Tick, TickStep, Replay, Fetch, Gate
    <2>2. p \in Runners /\ \A q \in Runners \ {p} : runner'[q] = runner[q]
      BY <1>2, OthersStay, Apart
    <2>3. runner'[p].job # "backfill" /\ runner'[p].at \notin {"requeue", "clear"}
      BY <1>2, TickJob
    <2> QED BY <2>1, <2>2, <2>3, TickKeepsJob
  <1>3. ASSUME NEW w \in Workers, SkipDone(w)
        PROVE  JobInv'
    <2>1. job' = job /\ killed' = killed /\ overrun' = overrun
      BY <1>3 DEF SkipDone
    <2>2. \A q \in Runners \ {w} : runner'[q] = runner[q]
      BY <1>3, OthersStay, WorkerIs DEF WorkerStep
    <2>3. runner'[w].slice = runner[w].slice /\ WorkerOK(runner[w])'
      BY <1>3, <2>1, WorkerCarries
    <2> QED BY <2>1, <2>2, <2>3, CarryKeeps
  <1>4. ASSUME NEW w \in Workers, WorkerStep(w)
        PROVE  JobInv'
    BY <1>3, <1>4, PopKeepsJob, MarkKeepsJob DEF WorkerStep
  <1>5. ASSUME NEW P \in SUBSET Runners, Kill(P)
        PROVE  JobInv'
    BY <1>5, KillKeepsJob
  <1>6. CASE UNCHANGED vars
    BY <1>6 DEF vars, JobInv, WorkerOK, ResumeOK, Kept
  <1>7. Workers \in SUBSET Runners /\ \A p \in Ticks : {p} \in SUBSET Runners
    BY DEF Runners
  <1> QED BY <1>1, <1>2, <1>4, <1>5, <1>6, <1>7, StartKeepsJob, ResumeKeepsJob,
         RequeueKeepsJob, ClearFailedKeepsJob DEF Next, Step, ResumeStep

THEOREM JobInvariant == Spec => []JobInv
  <1>1. IngestInv /\ JobInv /\ [Next]_vars => JobInv'
    BY JobKeeps
  <1> QED BY <1>1, JobInit, IngestInvariant, PTL DEF Spec

\* A backfill loses no slice but to a kill or an overrun: a worker's claim,
\* mark_slice_done, mark_slice_failed and any number of resumes move it from one place
\* to the next.
THEOREM JobAlwaysAccounted == Spec => []JobAccounted
  <1>1. IngestInv /\ JobInv => JobAccounted
    <2> SUFFICES ASSUME IngestInv, JobInv, job.started, NEW s \in JobRange
                 PROVE  s \in job.pending \cup job.failed \cup job.done \cup Held(Workers)
                               \cup killed \cup overrun
      BY DEF JobAccounted
    <2>1. s # NoSlice
      BY NoSliceIsNone
    <2>2. (\E w \in Workers : runner[w].slice = s) => s \in Held(Workers)
      BY <2>1 DEF Held, JobInv, WorkerOK
    <2> QED BY <2>2 DEF JobInv, Kept
  <1> QED BY <1>1, JobInvariant, IngestInvariant, PTL

-------------------------------------------------------------------------------
(* The checkpoint.                                                         *)

\* A runner on its way through a slice keeps what it has left behind.
LEMMA StaysOK ==
  ASSUME NEW p \in Runners, TickOK(runner[p]),
         files \subseteq files', passed \subseteq passed', job.started => job'.started,
         runner[p].at \in {"download"} \cup Ingesting,
         runner'[p].job = runner[p].job, runner'[p].replaying = runner[p].replaying,
         runner'[p].slice = runner[p].slice, runner'[p].latest = runner[p].latest,
         runner'[p].todo = runner[p].todo, runner'[p].at # "download",
         \/ runner'[p].at = "check"
         \/ runner[p].slice \in files'
         \/ runner[p].at \notin {"download", "check"}
  PROVE  TickOK(runner[p])'
  BY DEF TickOK, Beyond

\* The next slice of a tick leaves the one it comes from behind.
LEMMA NextSliceOK ==
  ASSUME NEW p \in Runners, NEW r, r.latest \in Slices \cup {NoSlice}, r.todo \subseteq Slices,
         \A t \in r.todo : t <= r.latest,
         \A s \in Slices : Beyond(s)' /\ s <= r.latest /\ s \notin r.todo => s \in files' \cup passed',
         runner'[p] = NextSlice(r)
  PROVE  TickOK(runner[p])'
  <1> DEFINE o == Oldest(r.todo)
  <1>1. CASE r.todo = {}
    <2>1. runner'[p].at = "idle"
      BY <1>1, IdleIs DEF NextSlice
    <2> QED BY <2>1 DEF TickOK, Ingesting
  <1>2. CASE r.todo # {}
    <2>1. o \in r.todo /\ \A t \in r.todo : o <= t
      BY <1>2, OldestIs
    <2>2. runner'[p] = [Idle EXCEPT !.at = "download", !.job = "tick", !.latest = r.latest,
                                    !.slice = o, !.todo = r.todo \ {o}]
      BY <1>2 DEF NextSlice
    <2>3. /\ runner'[p].at = "download" /\ runner'[p].slice = o
          /\ runner'[p].latest = r.latest /\ runner'[p].todo = r.todo \ {o}
      BY <2>2 DEF Idle
    <2> HIDE DEF o
    <2>4. \A t \in r.todo \ {o} : o < t /\ t <= r.latest
      <3>1. r.todo \subseteq Nat /\ o \in Nat
        BY <2>1, SliceAssumption DEF Slices, SliceAssumption
      <3> QED BY <2>1, <3>1
    <2>5. o \in Slices /\ o <= r.latest
      BY <2>1
    <2>6. \A s \in Slices :
            Beyond(s)' /\ s <= r.latest /\ s \notin r.todo \ {o} /\ s # o => s \in files' \cup passed'
      OBVIOUS
    <2> QED BY <2>3, <2>4, <2>5, <2>6 DEF TickOK
  <1> QED BY <1>1, <1>2

\* What a slice that is left behind was: on disk, or passed in this step.
LEMMA LeaveOK ==
  ASSUME IngestInv, NEW p \in Runners, TickOK(runner[p]),
         files \subseteq files', passed \subseteq passed', job.started => job'.started,
         runner[p].at \in {"download"} \cup Ingesting, runner[p].job = "tick", ~runner[p].replaying,
         runner[p].slice \in files' \cup passed',
         runner'[p] = NextSlice(runner[p])
  PROVE  TickOK(runner[p])'
  <1> DEFINE r == runner[p]
  <1>1. r.latest \in Slices \cup {NoSlice} /\ r.todo \subseteq Slices
    BY DEF IngestInv, TypeOK, Runner
  <1>2. \A t \in r.todo : t <= r.latest
    BY DEF TickOK
  <1>3. \A s \in Slices : Beyond(s)' /\ s <= r.latest /\ s \notin r.todo => s \in files' \cup passed'
    BY DEF TickOK, Beyond
  <1> HIDE DEF r
  <1>4. runner'[p] = NextSlice(r)
    BY DEF r
  <1> QED BY <1>1, <1>2, <1>3, <1>4, NextSliceOK

\* A step of one runner.
LEMMA PolicyLocal ==
  ASSUME PolicyInv, NEW p \in Runners,
         \A q \in Runners \ {p} : runner'[q] = runner[q],
         files \subseteq files', passed \subseteq passed', complete' \subseteq files',
         job.started => job'.started, TickOK(runner[p])',
         \/ checkpoint' = checkpoint
         \/ \A s \in Slices : s <= checkpoint' /\ Beyond(s)' => s \in files' \cup passed'
  PROVE  PolicyInv'
  <1>1. CheckpointPassesByPolicy'
    BY DEF PolicyInv, CheckpointPassesByPolicy, Beyond
  <1>2. \A q \in Runners \ {p} : TickOK(runner[q])'
    BY DEF PolicyInv, TickOK, Beyond
  <1> QED BY <1>1, <1>2 DEF PolicyInv

LEMMA WorkerNoTick ==
  ASSUME NEW w \in Workers, JobInv'
  PROVE  TickOK(runner[w])'
  <1>1. runner'[w].job # "tick"
    BY DEF JobInv, WorkerOK
  <1> QED BY <1>1 DEF TickOK

\* A runner that replays goes on replaying while it is at a slice.
LEMMA ReplayingStays ==
  ASSUME IngestInv, NEW p \in Runners, runner[p].replaying, SliceStep(p) \/ StoreRaises(p)
  PROVE  runner'[p].replaying
  <1> DEFINE r == runner[p]
  <1>1. r \in Runner /\ runner \in [Runners -> Runner] /\ RunnerOK(r)
    BY RunnerAt DEF IngestInv, TypeOK
  <1>2. r.at \in {"replay", "write", "mark", "forget", "idle", "requeue", "clear"}
    BY <1>1 DEF RunnerOK, Asking, Ending, Runner
  <1>3. (\E a : runner'[p] = [r EXCEPT !.at = a]) \/ runner'[p] = ReplayNext(r)
    BY <1>1, <1>2 DEF SliceStep, StoreRaises, WriteParquet, StreamFails, Check, ReadCheckpoint, Advance,
       Intend, WriteStore, Mark, Forget, Except, At, Goto, Move
  <1> QED BY <1>1, <1>3 DEF Runner, ReplayNext

\* The steps of a tick at its slice.
LEMMA TickSlice ==
  ASSUME IngestInv, JobInv, PolicyInv, NEW p \in Ticks, SliceStep(p), job' = job, passed' = passed
  PROVE  /\ files \subseteq files' /\ complete' \subseteq files'
         /\ TickOK(runner[p])'
         /\ \/ checkpoint' = checkpoint
            \/ \A s \in Slices : s <= checkpoint' /\ Beyond(s)' => s \in files' \cup passed'
  <1> DEFINE r == runner[p]
  <1>1. p \in Runners /\ r \in Runner /\ runner \in [Runners -> Runner] /\ RunnerOK(r) /\ TickOK(r)
        /\ r.job # "backfill"
    BY RunnerAt, Apart DEF IngestInv, TypeOK, PolicyInv, JobInv
  <1>2. files \subseteq files' /\ complete' \subseteq files'
    BY DEF SliceStep, WriteParquet, StreamFails, Check, ReadCheckpoint, Advance,
       Intend, WriteStore, Mark, Forget, Except, sliceVars, PolicyInv
  <1>3. CASE r.replaying
    <2>1. runner'[p].replaying
      BY <1>1, <1>3, ReplayingStays
    <2>2. ~At(p, "advance")
      BY <1>1, <1>3 DEF At, RunnerOK
    <2>3. checkpoint' = checkpoint
      BY <2>2 DEF SliceStep, WriteParquet, StreamFails, Check, ReadCheckpoint, Advance,
         Intend, WriteStore, Mark, Forget, Except, sliceVars
    <2> QED BY <1>2, <2>1, <2>3 DEF TickOK
  <1>4. CASE ~r.replaying
    <2>1. r.at \in {"download"} \cup Ingesting
      BY DEF SliceStep, WriteParquet, StreamFails, Check, ReadCheckpoint, Advance,
         Intend, WriteStore, Mark, Forget, Except, At, Ingesting
    <2>2. r.job = "tick"
      BY <1>1, <1>4, <2>1 DEF RunnerOK
    <2>3. ASSUME runner'[p].at \in {"check", "read", "advance", "intend", "write", "mark", "forget"},
                 runner'[p].job = r.job, runner'[p].replaying = r.replaying,
                 runner'[p].slice = r.slice, runner'[p].latest = r.latest, runner'[p].todo = r.todo,
                 \/ runner'[p].at = "check"
                 \/ r.slice \in files'
                 \/ r.at \notin {"download", "check"}
          PROVE  TickOK(runner[p])'
      <3>1. runner'[p].at # "download"
        BY <2>3
      <3> QED BY <1>1, <1>2, <2>1, <2>3, <3>1, StaysOK
    <2>4. ASSUME NEW a, NEW y, NEW x,
                 \/ runner'[p] = [r EXCEPT !.at = a]
                 \/ runner'[p] = [r EXCEPT !.at = a, !.seen = y]
                 \/ runner'[p] = [r EXCEPT !.at = a, !.store = x]
          PROVE  /\ runner'[p].at = a /\ runner'[p].job = r.job /\ runner'[p].replaying = r.replaying
                 /\ runner'[p].slice = r.slice /\ runner'[p].latest = r.latest
                 /\ runner'[p].todo = r.todo
      BY <1>1, <2>4 DEF Runner
    <2>5. CASE WriteParquet(p) \/ StreamFails(p)
      <3>1. runner'[p] = [r EXCEPT !.at = "check"] /\ checkpoint' = checkpoint
        BY <1>1, <2>5 DEF WriteParquet, StreamFails, Goto, Move
      <3>2. TickOK(runner[p])'
        BY <2>3, <2>4, <3>1
      <3> QED BY <1>2, <3>1, <3>2
    <2>6. CASE Check(p)
      <3>1. checkpoint' = checkpoint
        BY <2>6 DEF Check, sliceVars
      <3>2. CASE r.slice \in complete
        <4>1. runner'[p] = [r EXCEPT !.at = "read"] /\ r.slice \in files'
          BY <1>1, <1>2, <2>6, <3>2 DEF Check, Move, PolicyInv
        <4>2. TickOK(runner[p])'
          BY <2>3, <2>4, <4>1
        <4> QED BY <1>2, <3>1, <4>2
      <3>3. CASE r.slice \notin complete
        <4>1. runner'[p] = Idle
          BY <1>1, <2>2, <2>6, <3>3 DEF Check, Move, Raise
        <4>2. TickOK(runner[p])'
          BY <4>1, IdleIs DEF TickOK
        <4> QED BY <1>2, <3>1, <4>2
      <3> QED BY <3>2, <3>3
    <2>7. CASE ReadCheckpoint(p)
      <3>1. runner'[p] = [r EXCEPT !.at = "advance", !.seen = checkpoint] /\ checkpoint' = checkpoint
            /\ r.at = "read"
        BY <1>1, <2>7 DEF ReadCheckpoint, Move, At, sliceVars
      <3>2. TickOK(runner[p])'
        BY <2>3, <2>4, <3>1
      <3> QED BY <1>2, <3>1, <3>2
    <2>8. CASE Advance(p)
      <3>1. runner'[p] = [r EXCEPT !.at = "intend", !.seen = NoSlice] /\ r.at = "advance"
            /\ checkpoint' \in {r.slice, checkpoint}
        BY <1>1, <2>8 DEF Advance, Move, At
      <3>2. TickOK(runner[p])'
        BY <2>3, <2>4, <3>1
      <3>3. CASE checkpoint' = r.slice
        <4>1. r.at \in {"download"} \cup Ingesting /\ r.at \notin {"download", "check"}
          BY <3>1 DEF Ingesting
        <4>2. /\ r.slice \in Slices /\ r.slice <= r.latest /\ r.slice \in files
              /\ \A t \in r.todo : r.slice < t
              /\ \A s \in Slices :
                   Beyond(s) /\ s <= r.latest /\ s \notin r.todo /\ s # r.slice => s \in files \cup passed
          BY <1>1, <1>4, <2>2, <4>1 DEF TickOK
        <4>3. r.latest \in Nat /\ Slices \subseteq Nat
          BY <1>1 DEF Runner, Slices, NoSlice
        <4>4. ASSUME NEW s \in Slices, s <= r.slice, Beyond(s) PROVE s \in files \cup passed
          <5>1. r.slice \in Nat /\ r.latest \in Nat /\ s \in Nat
            BY <4>2, <4>3, <4>4
          <5>2. s <= r.latest
            BY <4>2, <4>4, <5>1
          <5>3. s \notin r.todo
            BY <4>2, <4>4, <5>1
          <5> QED BY <4>2, <4>4, <5>2, <5>3
        <4>5. \A s \in Slices : Beyond(s)' => Beyond(s)
          BY DEF Beyond
        <4>6. \A s \in Slices : s <= checkpoint' /\ Beyond(s)' => s \in files' \cup passed'
          BY <1>2, <3>3, <4>4, <4>5
        <4> QED BY <1>2, <3>2, <4>6
      <3> QED BY <1>2, <3>1, <3>2, <3>3
    <2>9. CASE Intend(p) \/ WriteStore(p) \/ Mark(p)
      <3>1. PICK a \in {"write", "mark", "forget"} :
              runner'[p] = [r EXCEPT !.at = a] /\ r.at \notin {"download", "check"}
        BY <1>1, <2>9 DEF Intend, WriteStore, Mark, Goto, Move, At
      <3>2. checkpoint' = checkpoint
        BY <2>9 DEF Intend, WriteStore, Mark
      <3>3. TickOK(runner[p])'
        BY <2>3, <2>4, <3>1
      <3> QED BY <1>2, <3>2, <3>3
    <2>10. CASE Forget(p) \/ Except(p)
      <3>1. runner'[p] = NextStore(r) /\ r.at \in {"forget", "except"} /\ checkpoint' = checkpoint
        BY <1>1, <1>4, <2>10 DEF Forget, Except, Move, At
      <3>2. CASE r.store = "neo4j"
        <4>1. runner'[p] = [r EXCEPT !.at = "intend", !.store = "qdrant"]
          BY <3>1, <3>2 DEF NextStore
        <4>2. TickOK(runner[p])'
          BY <2>3, <2>4, <3>1, <4>1
        <4> QED BY <1>2, <3>1, <4>2
      <3>3. CASE r.store = "qdrant"
        <4>1. runner'[p] = NextSlice(r)
          BY <2>2, <3>1, <3>3 DEF NextStore
        <4>2. r.slice \in files' \cup passed'
          BY <1>1, <1>2, <1>4, <2>1, <2>2, <3>1 DEF TickOK
        <4>3. TickOK(runner[p])'
          BY <1>1, <1>2, <1>4, <2>1, <2>2, <4>1, <4>2, LeaveOK
        <4> QED BY <1>2, <3>1, <4>3
      <3> QED BY <1>1, <3>2, <3>3 DEF Runner, Stores
    <2> QED BY <2>5, <2>6, <2>7, <2>8, <2>9, <2>10 DEF SliceStep
  <1> QED BY <1>3, <1>4

\* A store that refuses leaves its tick at the slice.
LEMMA StoreRaisesOK ==
  ASSUME IngestInv, JobInv, PolicyInv, NEW p \in Ticks, StoreRaises(p), job' = job, passed' = passed
  PROVE  TickOK(runner[p])'
  <1> DEFINE r == runner[p]
  <1>1. p \in Runners /\ r \in Runner /\ runner \in [Runners -> Runner] /\ TickOK(r)
    BY Apart DEF IngestInv, TypeOK, PolicyInv
  <1>2. CASE r.replaying
    <2>1. runner'[p].replaying
      BY <1>1, <1>2, ReplayingStays
    <2> QED BY <2>1 DEF TickOK
  <1>3. CASE ~r.replaying
    <2>1. runner'[p] = [r EXCEPT !.at = "except"] /\ r.at \in {"write", "mark", "forget"} /\ files' = files
      BY <1>1, <1>3 DEF StoreRaises, Move
    <2>2. /\ runner'[p].at = "except" /\ runner'[p].job = r.job /\ runner'[p].replaying = r.replaying
          /\ runner'[p].slice = r.slice /\ runner'[p].latest = r.latest /\ runner'[p].todo = r.todo
      BY <1>1, <2>1 DEF Runner
    <2>3. r.at \in {"download"} \cup Ingesting /\ r.at \notin {"download", "check"}
          /\ runner'[p].at # "download"
      BY <2>1, <2>2 DEF Ingesting
    <2> QED BY <1>1, <2>1, <2>2, <2>3, StaysOK
  <1> QED BY <1>2, <1>3

\* A slice the feed does not serve is passed, or the tick ends.
LEMMA MissingOK ==
  ASSUME IngestInv, JobInv, PolicyInv, NEW p \in Ticks, Missing(p) \/ DownloadRaises(p)
  PROVE  TickOK(runner[p])' /\ passed \subseteq passed' /\ UNCHANGED <<files, complete, checkpoint, job>>
  <1> DEFINE r == runner[p]
  <1>1. p \in Runners /\ r \in Runner /\ runner \in [Runners -> Runner] /\ TickOK(r) /\ r.job # "backfill"
        /\ RunnerOK(r)
    BY Apart, RunnerAt DEF IngestInv, TypeOK, PolicyInv, JobInv
  <1>2. passed \subseteq passed' /\ UNCHANGED <<files, complete, checkpoint, job>>
    BY DEF Missing, DownloadRaises, sliceVars
  <1>3. r.at = "download" /\ ~r.replaying /\ r.job = "tick"
    BY <1>1 DEF Missing, DownloadRaises, At, RunnerOK
  <1>4. CASE runner'[p] = Idle
    BY <1>2, <1>4, IdleIs DEF TickOK, Ingesting
  <1>5. CASE runner'[p] = NextSlice(r) /\ r.slice \in passed'
    BY <1>1, <1>2, <1>3, <1>5, LeaveOK
  <1>6. Raise(r) = Idle
    BY <1>3 DEF Raise
  <1>7. runner'[p] = Idle \/ (runner'[p] = NextSlice(r) /\ r.slice \in passed')
    <2>1. CASE DownloadRaises(p)
      BY <1>1, <1>6, <2>1 DEF DownloadRaises, Move
    <2>2. CASE Missing(p)
      BY <1>1, <1>6, <2>2 DEF Missing, Move
    <2> QED BY <2>1, <2>2
  <1> QED BY <1>2, <1>4, <1>5, <1>7

\* The download gate hands out all of the gap but what it passes.
LEMMA GateOK ==
  ASSUME IngestInv, JobInv, PolicyInv, NEW p \in Ticks, Gate(p)
  PROVE  TickOK(runner[p])' /\ passed \subseteq passed' /\ UNCHANGED <<files, complete, checkpoint, job>>
  <1> DEFINE r == runner[p]
             gap == {s \in Slices : checkpoint < s /\ s <= r.latest}
             todo == Todo(checkpoint, r.latest)
             n == [r EXCEPT !.todo = todo]
  <1>1. p \in Runners /\ r \in Runner /\ runner \in [Runners -> Runner] /\ checkpoint \in Slices \cup {NoSlice}
    BY Apart DEF IngestInv, TypeOK
  <1>2. passed \subseteq passed' /\ UNCHANGED <<files, complete, checkpoint, job>>
    BY DEF Gate, sliceVars
  <1>3. CASE gap = {}
    <2>1. runner'[p] = Idle
      BY <1>1, <1>3 DEF Gate, Move
    <2> QED BY <1>2, <2>1, IdleIs DEF TickOK, Ingesting
  <1>4. CASE gap # {}
    <2>1. runner'[p] = NextSlice(n) /\ passed' = passed \cup (gap \ todo)
      BY <1>1, <1>4 DEF Gate, Move
    <2>2. n.latest = r.latest /\ n.todo = todo
      BY <1>1 DEF Runner
    <2>3. r.latest \in Nat /\ checkpoint \in Nat /\ Slices \subseteq Nat
      BY <1>1 DEF Runner, Slices, NoSlice
    <2>4. r.latest \in Slices
      <3>1. PICK s \in Slices : checkpoint < s /\ s <= r.latest
        BY <1>4
      <3>2. r.latest # NoSlice
        BY <2>3, <3>1 DEF Slices, NoSlice
      <3> QED BY <1>1, <3>2 DEF Runner
    <2>5. todo \subseteq gap \cup {r.latest}
      BY DEF Todo, NewestOf
    <2>6. todo \subseteq Slices /\ \A t \in todo : t <= r.latest
      BY <2>3, <2>4, <2>5
    <2>7. \A s \in Slices : Beyond(s)' => Beyond(s)
      BY <1>2 DEF Beyond
    <2>8. ASSUME NEW s \in Slices, Beyond(s)', s <= r.latest, s \notin todo
          PROVE  s \in files' \cup passed'
      <3>1. CASE s <= checkpoint
        BY <1>2, <2>7, <2>8, <3>1 DEF PolicyInv, CheckpointPassesByPolicy, Beyond
      <3>2. CASE ~(s <= checkpoint)
        <4>1. s \in gap
          BY <2>3, <2>8, <3>2
        <4> QED BY <2>1, <2>8, <4>1
      <3> QED BY <3>1, <3>2
    <2> HIDE DEF n, todo
    <2>9. n.latest \in Slices \cup {NoSlice} /\ n.todo \subseteq Slices /\ \A t \in n.todo : t <= n.latest
      BY <2>2, <2>4, <2>6
    <2>10. \A s \in Slices : Beyond(s)' /\ s <= n.latest /\ s \notin n.todo => s \in files' \cup passed'
      BY <2>2, <2>8
    <2>11. TickOK(runner[p])'
      BY <1>1, <2>1, <2>9, <2>10, NextSliceOK
    <2> QED BY <1>2, <2>11
  <1> QED BY <1>3, <1>4

\* The other steps of a tick, and the resume command, are not on the way to a slice.
LEMMA TickRestOK ==
  ASSUME IngestInv, NEW p \in Ticks, Tick(p) \/ Replay(p) \/ Fetch(p) \/ Resume(p) \/ ResumeStep(p)
  PROVE  /\ TickOK(runner[p])' /\ passed' = passed /\ UNCHANGED <<files, complete, checkpoint>>
         /\ job'.started = job.started
  <1> DEFINE r == runner[p]
  <1>1. p \in Runners /\ r \in Runner /\ runner \in [Runners -> Runner] /\ RunnerOK(r)
    BY Apart, RunnerAt DEF IngestInv, TypeOK
  <1>2. passed' = passed /\ UNCHANGED <<files, complete, checkpoint>>
    BY DEF Tick, Replay, Fetch, Resume, ResumeStep, Requeue, ClearFailed, sliceVars
  <1>3. job'.started = job.started
    BY DEF Tick, Replay, Fetch, Resume, ResumeStep, Requeue, ClearFailed, IngestInv, TypeOK, Job
  <1>4. CASE Tick(p) \/ Resume(p) \/ ResumeStep(p)
    <2>1. \/ runner'[p] = ListPending([Idle EXCEPT !.job = "tick"], "neo4j")
          \/ runner'[p] = ReplayForResume
          \/ runner'[p] = [Idle EXCEPT !.at = "requeue", !.job = "resume", !.todo = job.failed]
          \/ runner'[p] = [r EXCEPT !.at = "clear"]
      BY <1>1, <1>4 DEF Tick, Resume, ResumeStep, Requeue, ClearFailed, Goto, Move
    <2>2. runner'[p].replaying \/ runner'[p].at \in {"requeue", "clear"}
      <3>1. ListPending([Idle EXCEPT !.job = "tick"], "neo4j").replaying /\ ReplayForResume.replaying
        BY DEF ListPending, ReplayForResume, Idle
      <3>2. [Idle EXCEPT !.at = "requeue", !.job = "resume", !.todo = job.failed].at = "requeue"
        BY DEF Idle
      <3>3. [r EXCEPT !.at = "clear"].at = "clear"
        BY <1>1 DEF Runner
      <3> HIDE DEF r
      <3> QED BY <2>1, <3>1, <3>2, <3>3
    <2> QED BY <1>2, <1>3, <2>2 DEF TickOK, Ingesting
  <1>5. CASE Replay(p)
    <2>1. r.replaying
      BY <1>1, <1>5 DEF Replay, At, RunnerOK
    <2>2. \/ runner'[p] = [r EXCEPT !.at = "write", !.slice = Oldest(r.todo), !.todo = @ \ {Oldest(r.todo)}]
          \/ runner'[p] = [r EXCEPT !.todo = @ \ {Oldest(r.todo)}]
          \/ runner'[p] = ListPending(r, "qdrant")
          \/ runner'[p] = Idle
          \/ runner'[p] = [Idle EXCEPT !.at = "fetch", !.job = "tick"]
      BY <1>1, <1>5 DEF Replay, Move
    <2>3. runner'[p].replaying \/ runner'[p].at \in {"idle", "fetch"}
      <3>1. CASE runner'[p] = Idle \/ runner'[p] = [Idle EXCEPT !.at = "fetch", !.job = "tick"]
        <4>1. [Idle EXCEPT !.at = "fetch", !.job = "tick"].at = "fetch" /\ Idle.at = "idle"
          BY DEF Idle
        <4> QED BY <3>1, <4>1
      <3>2. CASE runner'[p] = ListPending(r, "qdrant")
        BY <1>1, <3>2 DEF ListPending, Runner
      <3>3. CASE runner'[p] = [r EXCEPT !.todo = @ \ {Oldest(r.todo)}]
        BY <1>1, <2>1, <3>3 DEF Runner
      <3>4. CASE runner'[p] = [r EXCEPT !.at = "write", !.slice = Oldest(r.todo),
                                       !.todo = @ \ {Oldest(r.todo)}]
        BY <1>1, <2>1, <3>4 DEF Runner
      <3> QED BY <2>2, <3>1, <3>2, <3>3, <3>4
    <2> QED BY <1>2, <1>3, <2>3 DEF TickOK, Ingesting
  <1>6. CASE Fetch(p)
    <2>1. PICK s : runner'[p] = [r EXCEPT !.at = "gate", !.latest = s] \/ runner'[p] = Idle
      BY <1>1, <1>6 DEF Fetch, Move
    <2>2. runner'[p].at \in {"gate", "idle"}
      BY <1>1, <2>1, IdleIs DEF Runner
    <2> QED BY <1>2, <1>3, <2>2 DEF TickOK, Ingesting
  <1> QED BY <1>4, <1>5, <1>6

\* A worker writes the checkpoint for slices of the job alone, which Beyond excludes.
LEMMA WorkerSlice ==
  ASSUME IngestInv, JobInv, PolicyInv, NEW w \in Workers, SliceStep(w), job' = job
  PROVE  /\ files \subseteq files' /\ complete' \subseteq files'
         /\ \/ checkpoint' = checkpoint
            \/ \A s \in Slices : s <= checkpoint' /\ Beyond(s)' => s \in files' \cup passed'
  <1> DEFINE r == runner[w]
  <1>1. files \subseteq files' /\ complete' \subseteq files'
    BY DEF SliceStep, WriteParquet, StreamFails, Check, ReadCheckpoint, Advance,
       Intend, WriteStore, Mark, Forget, Except, sliceVars, PolicyInv
  <1>2. CASE checkpoint' = checkpoint
    BY <1>1, <1>2
  <1>3. CASE checkpoint' # checkpoint
    <2>1. r.at = "advance" /\ checkpoint' = r.slice
      BY <1>3 DEF SliceStep, WriteParquet, StreamFails, Check, ReadCheckpoint, Advance,
         Intend, WriteStore, Mark, Forget, Except, sliceVars, At
    <2>2. r.slice \in JobRange /\ job.started
      BY <2>1 DEF JobInv, WorkerOK
    <2>3. ASSUME NEW s \in Slices, s <= r.slice, Beyond(s) PROVE FALSE
      <3>1. r.slice < s
        BY <2>2, <2>3 DEF Beyond
      <3>2. r.slice \in Nat /\ s \in Nat
        BY <2>2, <2>3, SliceNumbers
      <3> QED BY <2>3, <3>1, <3>2
    <2>4. \A s \in Slices : Beyond(s)' => Beyond(s)
      BY DEF Beyond
    <2> QED BY <1>1, <2>1, <2>3, <2>4
  <1> QED BY <1>2, <1>3

LEMMA PolicyInit == Init => PolicyInv
  <1> SUFFICES ASSUME Init PROVE PolicyInv
    OBVIOUS
  <1>1. \A p \in Runners : TickOK(runner[p])
    BY IdleIs DEF Init, SliceInit, TickOK
  <1>2. CheckpointPassesByPolicy
    <2>1. \A s \in Slices : ~(s <= 0)
      BY SliceAssumption DEF Slices, SliceAssumption
    <2> QED BY <2>1 DEF Init, SliceInit, CheckpointPassesByPolicy, NoSlice
  <1> QED BY <1>1, <1>2 DEF PolicyInv, Init, SliceInit

LEMMA PolicyKeeps == IngestInv /\ JobInv /\ JobInv' /\ PolicyInv /\ [Next]_vars => PolicyInv'
  <1> SUFFICES ASSUME IngestInv, JobInv, JobInv', PolicyInv, [Next]_vars PROVE PolicyInv'
    OBVIOUS
  <1>1. ASSUME NEW p \in Runners, SliceStep(p) /\ UNCHANGED <<latest, job, passed, killed, overrun, kills>>
        PROVE  PolicyInv'
    <2>1. /\ files \subseteq files' /\ complete' \subseteq files'
          /\ \/ checkpoint' = checkpoint
             \/ \A s \in Slices : s <= checkpoint' /\ Beyond(s)' => s \in files' \cup passed'
      BY <1>1, TickSlice, WorkerSlice DEF Runners
    <2>2. TickOK(runner[p])'
      BY <1>1, TickSlice, WorkerNoTick DEF Runners
    <2>3. \A q \in Runners \ {p} : runner'[q] = runner[q]
      BY <1>1, OthersStay
    <2>4. passed \subseteq passed' /\ job'.started = job.started
      BY <1>1
    <2> QED BY <2>1, <2>2, <2>3, <2>4, PolicyLocal
  <1>2. ASSUME NEW p \in Runners,
               \/ StoreRaises(p) /\ UNCHANGED <<latest, job, passed, killed, overrun, kills>>
               \/ Missing(p) \/ DownloadRaises(p)
        PROVE  PolicyInv'
    <2>1. /\ passed \subseteq passed' /\ UNCHANGED <<files, complete, checkpoint, job>>
      BY <1>2 DEF StoreRaises, Missing, DownloadRaises, sliceVars
    <2>2. TickOK(runner[p])'
      BY <1>2, StoreRaisesOK, MissingOK, WorkerNoTick DEF Runners
    <2>3. \A q \in Runners \ {p} : runner'[q] = runner[q]
      BY <1>2, OthersStay
    <2>4. complete' \subseteq files'
      BY <2>1 DEF PolicyInv
    <2> QED BY <2>1, <2>2, <2>3, <2>4, PolicyLocal
  <1>3. ASSUME NEW p \in Ticks, Tick(p) \/ TickStep(p) \/ Resume(p) \/ ResumeStep(p)
        PROVE  PolicyInv'
    <2>1. /\ TickOK(runner[p])' /\ passed \subseteq passed' /\ UNCHANGED <<files, complete, checkpoint>>
          /\ job'.started = job.started
      BY <1>3, TickRestOK, GateOK DEF TickStep
    <2>2. \A q \in Runners \ {p} : runner'[q] = runner[q]
      BY <1>3, OthersStay, Apart
    <2>3. complete' \subseteq files'
      BY <2>1 DEF PolicyInv
    <2> QED BY <2>1, <2>2, <2>3, Apart, PolicyLocal
  <1>4. ASSUME NEW w \in Workers, WorkerStep(w)
        PROVE  PolicyInv'
    <2>1. UNCHANGED <<files, complete, checkpoint, passed>>
      BY <1>4 DEF WorkerStep, Pop, SkipDone, MarkDone, MarkFailed, sliceVars
    <2>2. w \in Runners /\ \A q \in Runners \ {w} : runner'[q] = runner[q]
      BY <1>4, OthersStay, WorkerIs
    <2>3. job'.started = job.started
      BY <1>4 DEF WorkerStep, Pop, SkipDone, MarkDone, MarkFailed, IngestInv, TypeOK, Job
    <2>4. complete' \subseteq files'
      BY <2>1 DEF PolicyInv
    <2> QED BY <2>1, <2>2, <2>3, <2>4, WorkerNoTick, PolicyLocal
  <1>5. ASSUME StartBackfill \/ \E P \in SUBSET Runners : Kill(P)
        PROVE  PolicyInv'
    <2>1. UNCHANGED <<files, complete, checkpoint, passed>> /\ (job.started => job'.started)
      BY <1>5 DEF StartBackfill, Kill, sliceVars
    <2>2. \A q \in Runners : runner'[q] \in {runner[q], Idle, NextPop}
      BY <1>5 DEF StartBackfill, Kill
    <2>3. \A q \in Runners : TickOK(runner[q])'
      <3>1. ASSUME NEW q \in Runners, runner'[q] = runner[q]
            PROVE  TickOK(runner[q])'
        BY <2>1, <3>1 DEF PolicyInv, TickOK, Beyond
      <3>2. ASSUME NEW q \in Runners, runner'[q] \in {Idle, NextPop}
            PROVE  TickOK(runner[q])'
        BY <3>2, IdleIs, NextPopIs DEF TickOK
      <3> QED BY <2>2, <3>1, <3>2
    <2>4. CheckpointPassesByPolicy'
      BY <2>1 DEF PolicyInv, CheckpointPassesByPolicy
    <2> QED BY <2>1, <2>3, <2>4 DEF PolicyInv
  <1>6. CASE UNCHANGED vars
    BY <1>6 DEF vars, sliceVars, PolicyInv, TickOK, Beyond, CheckpointPassesByPolicy
  <1>7. Workers \in SUBSET Runners /\ \A p \in Ticks : {p} \in SUBSET Runners
    BY DEF Runners
  <1> QED BY <1>1, <1>2, <1>3, <1>4, <1>5, <1>6, <1>7 DEF Next, Step

\* Beyond the backfill's range the checkpoint of run_forward passes no slice that is
\* neither on disk nor given up by a tick.
THEOREM CheckpointAlwaysByPolicy == Spec => []CheckpointPassesByPolicy
  <1>1. IngestInv /\ JobInv /\ JobInv' /\ PolicyInv /\ [Next]_vars => PolicyInv'
    BY PolicyKeeps
  <1>2. PolicyInv => CheckpointPassesByPolicy
    BY DEF PolicyInv
  <1> QED BY <1>1, <1>2, PolicyInit, JobInvariant, IngestInvariant, PTL DEF Spec

===============================================================================
