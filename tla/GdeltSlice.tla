------------------------------ MODULE GdeltSlice ------------------------------
(***************************************************************************)
(* Ingestion of one GDELT slice (a quarter of an hour of the feed): the    *)
(* state it leaves in Redis, on disk and in the two stores, and the steps  *)
(* of run_forward_slice, which the forward tick and the backfill workers   *)
(* both run.                                                               *)
(*                                                                         *)
(* A runner is a coroutine, in a process of its own or not.  Every Redis   *)
(* command and every store write is one step; between two steps other      *)
(* runners go on and the process may be killed.  A slice id is its number  *)
(* in time order.  The three streams of a slice are written one after the  *)
(* other, but only whether all three are "done" is ever looked at, so they *)
(* are one step here.  The pointers gdelt:forward:last_slice of the two    *)
(* stores, which only the status commands read, are left out, and so is    *)
(* what the files hold.                                                    *)
(***************************************************************************)
EXTENDS Naturals, FiniteSets

CONSTANTS
  MaxSlice,    \* bound on the slices the feed announces
  Ticks,       \* processes that run the forward tick, or resume a backfill
  Workers      \* workers of the backfill process

ASSUME SliceAssumption ==
  /\ MaxSlice \in Nat
  /\ Ticks \cap Workers = {}

VARIABLES
  files,       \* slices whose three parquet files are on disk
  complete,    \* slices whose three streams are "done" in Redis
  storeDone,   \* slices whose gdelt:slice:<slice>:<store> is "done"
  pending,     \* gdelt:pending:<store>
  checkpoint,  \* gdelt:forward:last_slice:parquet, NoSlice if unset
  written,     \* slices each store holds
  runner       \* where every runner is suspended

sliceVars == <<files, complete, storeDone, pending, checkpoint, written>>

Slices == 1 .. MaxSlice
NoSlice == 0
Stores == {"neo4j", "qdrant"}
Runners == Ticks \cup Workers

Runner ==
  [at : {"idle", "replay", "fetch", "gate", "pop", "popped", "ask", "download", "check",
         "read", "advance", "intend", "write", "mark", "forget", "except",
         "ended", "unpend", "count", "raised", "fails", "requeue", "clear"},
   job : {"none", "tick", "resume", "backfill"},
   replaying : BOOLEAN,            \* inside replay_pending
   slice : Slices \cup {NoSlice},  \* the slice it works on
   store : Stores,                 \* the store it works on
   seen : Slices \cup {NoSlice},   \* the checkpoint as it was read
   latest : Slices \cup {NoSlice}, \* the newest slice announced to this tick
   todo : SUBSET Slices]           \* slices still to do, in ascending order

Idle ==
  [at |-> "idle", job |-> "none", replaying |-> FALSE, slice |-> NoSlice,
   store |-> "neo4j", seen |-> NoSlice, latest |-> NoSlice, todo |-> {}]

Oldest(S) == CHOOSE s \in S : \A t \in S : s <= t

At(p, a) == runner[p].at = a
Move(p, r) == runner' = [runner EXCEPT ![p] = r]
Goto(p, a) == Move(p, [runner[p] EXCEPT !.at = a])

SliceInit ==
  /\ files = {} /\ complete = {}
  /\ storeDone = [x \in Stores |-> {}]
  /\ pending = [x \in Stores |-> {}] /\ written = [x \in Stores |-> {}]
  /\ checkpoint = NoSlice
  /\ runner = [p \in Runners |-> Idle]

-------------------------------------------------------------------------------
(* Where a runner goes on.                                                 *)

\* The next slice of a tick.
NextSlice(r) ==
  IF r.todo = {} THEN Idle
  ELSE [Idle EXCEPT !.at = "download", !.job = "tick", !.latest = r.latest,
                    !.slice = Oldest(r.todo), !.todo = r.todo \ {Oldest(r.todo)}]

\* run_forward_slice raises: it ends the tick, and the worker marks the slice failed.
Raise(r) == IF r.job = "tick" THEN Idle ELSE [r EXCEPT !.at = "raised"]

\* One store is through, stored or not; after the second the slice is.
NextStore(r) ==
  CASE r.store = "neo4j" -> [r EXCEPT !.at = "intend", !.store = "qdrant"]
    [] r.store = "qdrant" /\ r.job = "tick" -> NextSlice(r)
    [] r.store = "qdrant" /\ r.job = "backfill" -> [r EXCEPT !.at = "ended"]

ReplayNext(r) == [r EXCEPT !.at = "replay", !.slice = NoSlice]

-------------------------------------------------------------------------------
(* Download, parquet files, checkpoint.                                    *)

\* Every stream is downloaded and parses: its file is on disk before its state is "done".
WriteParquet(p) ==
  /\ At(p, "download")
  /\ files' = files \cup {runner[p].slice}
  /\ complete' = complete \cup {runner[p].slice}
  /\ Goto(p, "check")
  /\ UNCHANGED <<storeDone, pending, checkpoint, written>>

\* A stream has too many malformed rows: its state is "failed".
StreamFails(p) ==
  /\ At(p, "download")
  /\ complete' = complete \ {runner[p].slice}
  /\ Goto(p, "check")
  /\ UNCHANGED <<files, storeDone, pending, checkpoint, written>>

Check(p) ==
  /\ At(p, "check")
  /\ Move(p, IF runner[p].slice \in complete THEN [runner[p] EXCEPT !.at = "read"]
                                             ELSE Raise(runner[p]))
  /\ UNCHANGED sliceVars

\* advance_last_slice: read the pointer, then write it if it is older.
ReadCheckpoint(p) ==
  /\ At(p, "read")
  /\ Move(p, [runner[p] EXCEPT !.at = "advance", !.seen = checkpoint])
  /\ UNCHANGED sliceVars

Advance(p) ==
  LET r == runner[p]
  IN /\ At(p, "advance")
     /\ checkpoint' = IF r.seen < r.slice THEN r.slice ELSE checkpoint
     /\ Move(p, [r EXCEPT !.at = "intend", !.seen = NoSlice])
     /\ UNCHANGED <<files, complete, storeDone, pending, written>>

-------------------------------------------------------------------------------
(* One store: the intent, the write, its mark, the intent's removal.       *)
(* Replay has no intent of its own.                                        *)

\* Mutant: the slice is not enqueued before the write.
IntendNothing(p) ==
  /\ At(p, "intend")
  /\ Goto(p, "write")
  /\ UNCHANGED sliceVars

Intend(p) ==
  /\ At(p, "intend")
  /\ pending' = [pending EXCEPT ![runner[p].store] = @ \cup {runner[p].slice}]
  /\ Goto(p, "write")
  /\ UNCHANGED <<files, complete, storeDone, checkpoint, written>>

WriteStore(p) ==
  /\ At(p, "write")
  /\ written' = [written EXCEPT ![runner[p].store] = @ \cup {runner[p].slice}]
  /\ Goto(p, "mark")
  /\ UNCHANGED <<files, complete, storeDone, pending, checkpoint>>

Mark(p) ==
  /\ At(p, "mark")
  /\ storeDone' = [storeDone EXCEPT ![runner[p].store] = @ \cup {runner[p].slice}]
  /\ Goto(p, "forget")
  /\ UNCHANGED <<files, complete, pending, checkpoint, written>>

Forget(p) ==
  LET r == runner[p]
  IN /\ At(p, "forget")
     /\ pending' = [pending EXCEPT ![r.store] = @ \ {r.slice}]
     /\ Move(p, IF r.replaying THEN ReplayNext(r) ELSE NextStore(r))
     /\ UNCHANGED <<files, complete, storeDone, checkpoint, written>>

\* Mutant: the error of the store is swallowed where it is raised.
StoreErrorIgnored(p) ==
  /\ At(p, "write")
  /\ Goto(p, "mark")
  /\ UNCHANGED sliceVars

\* The store refuses, or a later Redis command of the same try block raises; a
\* write that raises may have reached the store.
StoreRaises(p) ==
  LET r == runner[p]
  IN /\ r.at \in {"write", "mark", "forget"}
     /\ \/ UNCHANGED written
        \/ At(p, "write") /\ written' = [written EXCEPT ![r.store] = @ \cup {r.slice}]
     /\ Move(p, IF r.replaying THEN ReplayNext(r) ELSE [r EXCEPT !.at = "except"])
     /\ UNCHANGED <<files, complete, storeDone, pending, checkpoint>>

\* Mutant: the failed write takes its intent back.
ExceptForgets(p) ==
  LET r == runner[p]
  IN /\ At(p, "except")
     /\ storeDone' = [storeDone EXCEPT ![r.store] = @ \ {r.slice}]
     /\ pending' = [pending EXCEPT ![r.store] = @ \ {r.slice}]
     /\ Move(p, NextStore(r))
     /\ UNCHANGED <<files, complete, checkpoint, written>>

\* The state is "failed" or "pending_embed", the slice stays pending, and the other
\* store is tried all the same.
Except(p) ==
  LET r == runner[p]
  IN /\ At(p, "except")
     /\ storeDone' = [storeDone EXCEPT ![r.store] = @ \ {r.slice}]
     /\ Move(p, NextStore(r))
     /\ UNCHANGED <<files, complete, pending, checkpoint, written>>

SliceStep(p) ==
  \/ WriteParquet(p) \/ StreamFails(p) \/ Check(p) \/ ReadCheckpoint(p) \/ Advance(p)
  \/ Intend(p) \/ WriteStore(p) \/ Mark(p) \/ Forget(p) \/ Except(p)
===============================================================================
