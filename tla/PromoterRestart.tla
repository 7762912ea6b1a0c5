---------------------------- MODULE PromoterRestart ----------------------------
(***************************************************************************)
(* The auto-promoter across restarts of the backend.                       *)
(*                                                                         *)
(* A crash or a shutdown loses the whole ClusterStore, the requests and    *)
(* the database calls under way; only the incident table survives, and     *)
(* lastEvent, which is what the subscribers have already seen.  A start    *)
(* subscribes, reads the owned incidents that have not ended (one          *)
(* database call, Read), builds the two maps from the rows (Rehydrate) and *)
(* only then drains signals.  The sweeper and the analysts' requests run   *)
(* from the start: they also meet the store while it is still empty, and   *)
(* they keep running when a poison row or a failed read blocks the drain.  *)
(***************************************************************************)
EXTENDS ClusterStore

CONSTANT
  MaxRestarts   \* bound on the restarts of one behaviour

ASSUME RestartAssumption == MaxRestarts \in Nat

VARIABLES
  mode,       \* "starting", "read" (rows are in), "running", "blocked" (drain refused)
  rows,       \* the rows of the rehydration query, as they were when it ran
  degraded,   \* whether a row of the query could not be decoded
  restarts    \* restarts so far

processVars == <<mode, rows, degraded, restarts>>
allVars == <<vars, processVars>>

NoRows == [i \in Ids |-> "none"]

\* A deployment starts with no incident of its own.
RestartInit ==
  /\ status = [i \in Ids |-> "absent"]
  /\ lastEvent = [i \in Ids |-> "none"]
  /\ cluster = [k \in Keys |-> NoCluster] /\ byId = {}
  /\ reserving = {} /\ pending = [k \in Keys |-> NoId] /\ deferred = [k \in Keys |-> 0]
  /\ cooldown = [k \in Keys |-> "none"]
  /\ task = [w \in Handlers |-> Idle] /\ sweep = NoSweep
  /\ answer = [i \in Ids |-> "none"]
  /\ mode = "starting" /\ rows = NoRows /\ degraded = FALSE /\ restarts = 0

Crash ==
  /\ restarts < MaxRestarts
  /\ cluster' = [k \in Keys |-> NoCluster] /\ byId' = {}
  /\ reserving' = {} /\ pending' = [k \in Keys |-> NoId] /\ deferred' = [k \in Keys |-> 0]
  /\ cooldown' = [k \in Keys |-> "none"]
  /\ task' = [w \in Handlers |-> Idle] /\ sweep' = NoSweep
  /\ answer' = [i \in Ids |-> "none"]
  /\ mode' = "starting" /\ rows' = NoRows /\ degraded' = FALSE
  /\ restarts' = restarts + 1
  /\ UNCHANGED <<status, lastEvent>>

-------------------------------------------------------------------------------
(* list_owned_for_rehydrate: open and promoted incidents; a row that does  *)
(* not decode is skipped and makes the result degraded.                    *)

\* Mutant: the query asks for promoted incidents only.
PromotedRows(lost) ==
  [i \in Ids |-> IF status[i] = "promoted" /\ i \notin lost THEN status[i] ELSE "none"]

RowsOf(lost) ==
  [i \in Ids |-> IF i \in Live(status) \ lost THEN status[i] ELSE "none"]

Read ==
  /\ mode = "starting"
  /\ \E lost \in SUBSET Live(status) :
       /\ rows' = RowsOf(lost)
       /\ degraded' = (lost # {})
  /\ mode' = "read"
  /\ UNCHANGED <<vars, restarts>>

ReadFails ==
  /\ mode = "starting"
  /\ mode' = "blocked"
  /\ UNCHANGED <<vars, rows, degraded, restarts>>

RowsFor(k) == {i \in Ids : KeyOf[i] = k /\ rows[i] # "none"}

\* The rows come newest first and each overwrites _by_key, so the oldest stays;
\* _by_incident_id keeps them all.
Oldest(S) == CHOOSE i \in S : \A j \in S : i <= j

Rehydrate ==
  /\ mode = "read"
  /\ \E F \in SUBSET Ids :
       cluster' = [k \in Keys |->
         IF RowsFor(k) = {} THEN cluster[k]
         ELSE LET i == Oldest(RowsFor(k))
              IN [id |-> i, status |-> rows[i], fresh |-> i \in F]]
  /\ byId' = byId \cup {i \in Ids : rows[i] # "none"}
  /\ mode' = IF degraded THEN "blocked" ELSE "running"
  /\ rows' = NoRows
  /\ UNCHANGED <<dbVars, reserving, pendingVars, cooldown, task, sweep, lastEvent,
                 degraded, restarts>>

-------------------------------------------------------------------------------

\* The drain loop decides about hits only after a clean rehydration.
Drain ==
  /\ mode = "running"
  /\ \E w \in Handlers, k \in Keys : Decide(w, k)

\* Everything else of the process, and the environment, runs in every mode.
Others ==
  \/ \E w \in Handlers : Database(w) \/ UpdateReplayed(w) \/ Resume(w)
  \/ SweepStart \/ FinishClose
  \/ \E i \in Ids : CloseIncident(i) \/ CloseRaises(i)
  \/ \E i \in Ids : AnalystDecides(i) \/ AnalystAnswerLost(i) \/ AnalystAnswered(i)
  \/ \E i \in Ids : DeleteIncident(i)
  \/ \E k \in Keys : QuietElapses(k) \/ CooldownElapses(k)

RestartNext ==
  \/ Crash \/ Read \/ ReadFails \/ Rehydrate
  \/ (Drain \/ Others) /\ UNCHANGED processVars

RestartSpec == RestartInit /\ [][RestartNext]_allVars

(* The fairness of ClusterStore, and a start that is not held up for ever. *)
RestartFairness ==
  /\ \A w \in Handlers : /\ WF_allVars(Database(w) /\ UNCHANGED processVars)
                         /\ WF_allVars(Resume(w) /\ UNCHANGED processVars)
  /\ WF_allVars(Read \/ ReadFails)
  /\ WF_allVars(Rehydrate)
  /\ WF_allVars(SweepStart /\ UNCHANGED processVars)
  /\ WF_allVars(FinishClose /\ UNCHANGED processVars)
  /\ WF_allVars((\E i \in Ids : CloseIncident(i) \/ CloseRaises(i)) /\ UNCHANGED processVars)
  /\ \A i \in Ids : SF_allVars(CloseIncident(i) /\ UNCHANGED processVars)

RestartFairSpec == RestartSpec /\ RestartFairness

-------------------------------------------------------------------------------
(* Properties *)

RestartTypeOK ==
  /\ TypeOK
  /\ mode \in {"starting", "read", "running", "blocked"}
  /\ rows \in [Ids -> {"none", "open", "promoted"}]
  /\ degraded \in BOOLEAN
  /\ restarts \in 0 .. MaxRestarts

\* A restart in the middle of a create, an update or a close loses no open incident:
\* once the drain runs, an open incident without an owner is one that an older
\* promoted incident of its burst has hidden (or had, before it was deleted).
OrphanNeedsPromoted ==
  mode = "running" =>
    \A i \in Ids :
      status[i] = "open" /\ cluster[KeyOf[i]].id # i /\ pending[KeyOf[i]] # i
        => \E j \in Ids : j < i /\ KeyOf[j] = KeyOf[i] /\ status[j] \in {"promoted", "deleted"}

-------------------------------------------------------------------------------
(* The inductive invariant                                                 *)

\* An older incident of the burst is promoted, or was before it was deleted.
Hidden(i) ==
  \E j \in Ids : j < i /\ KeyOf[j] = KeyOf[i] /\ status[j] \in {"promoted", "deleted"}

\* The store may lose sight of the incident: it has ended or is hidden.
Free(i) == status[i] \in Past \/ (status[i] # "absent" /\ Hidden(i))

\* Every incident of the burst that is open, or may still open, is hidden.
AllHidden(k) ==
  \A j \in Ids : KeyOf[j] = k /\ status[j] \in {"absent", "open"} => Hidden(j)

\* Incidents of a burst are created in the order of their ids, and a second one only
\* when the first needs no owner any more.
Numbering ==
  \A i, j \in Ids :
    j < i /\ KeyOf[j] = KeyOf[i] /\ status[i] # "absent" => status[j] # "absent"

OlderInv ==
  \A i, j \in Ids :
    j < i /\ KeyOf[j] = KeyOf[i] /\ status[i] # "absent" /\ status[j] = "open" => Hidden(j)

AnsweredInv == \A i \in Ids : answer[i] # "none" => status[i] \in Past

\* Before the drain nothing is being created or updated, and before the rehydration
\* the store is empty.
RestInv ==
  /\ mode # "running" =>
       /\ task = [w \in Handlers |-> Idle]
       /\ pending = [k \in Keys |-> NoId]
       /\ reserving = {}
  /\ mode \in {"starting", "read"} =>
       /\ cluster = [k \in Keys |-> NoCluster]
       /\ byId = {}
       /\ sweep = NoSweep

\* The rows are what the table was; it has moved on, but only forwards.
RowsInv ==
  mode = "read" =>
    \A i \in Ids :
      /\ status[i] = "open" /\ ~degraded => rows[i] = "open"
      /\ rows[i] = "promoted" => status[i] \in {"promoted", "deleted"}
      /\ rows[i] = "open" =>
           /\ status[i] # "absent"
           /\ \A j \in Ids : i < j /\ KeyOf[j] = KeyOf[i] /\ status[j] # "absent" => Hidden(i)

NamedInv ==
  \A k \in Keys : cluster[k] # NoCluster => cluster[k].id \in Ids /\ KeyOf[cluster[k].id] = k

TrackedInv ==
  \A k \in Keys : cluster[k] # NoCluster =>
    /\ status[cluster[k].id] # "absent"
    /\ cluster[k].status # "open" => Free(cluster[k].id)

\* The second map may know more incidents of a burst than the first, and a late
\* answer about one of them marks the cluster of another: then all are hidden.
MappedInv == \A i \in byId : cluster[KeyOf[i]].id = i \/ AllHidden(KeyOf[i])

OwnedInv ==
  \A i \in Ids : status[i] = "open" =>
    cluster[KeyOf[i]].id = i \/ pending[KeyOf[i]] = i \/ Free(i)

RetryInv ==
  \A k \in Keys : pending[k] # NoId =>
    /\ KeyOf[pending[k]] = k
    /\ cluster[k] = NoCluster
    /\ status[pending[k]] = "absent" =>
         \A j \in Ids : j < pending[k] /\ KeyOf[j] = k => status[j] # "absent"

PassInv ==
  /\ \A i \in sweep.open : status[i] # "absent"
  /\ \A i \in sweep.rest : Free(i)
  /\ sweep.closing # NoId /\ sweep.reply # "error" => status[sweep.closing] \in Past

\* What StoreInv of ClusterStore becomes once restarts are possible.
DrainInv ==
  /\ TrackedInv
  /\ MappedInv
  /\ OwnedInv
  /\ RetryInv
  /\ TaskInv
  /\ CreateExclusive
  /\ PassInv

RestartInv ==
  /\ RestartTypeOK
  /\ Numbering
  /\ OlderInv
  /\ AnsweredInv
  /\ RestInv
  /\ RowsInv
  /\ NamedInv
  /\ mode = "running" => DrainInv
================================================================================
