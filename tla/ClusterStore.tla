----------------------------- MODULE ClusterStore -----------------------------
(***************************************************************************)
(* One process lifetime of the backend's incident auto-promoter: the       *)
(* in-memory ClusterStore, the drain loop(s) that call handle() on it, the *)
(* sweeper, the analyst's silence and promote requests, and the incident   *)
(* table in Neo4j they all write to.                                       *)
(*                                                                         *)
(* All of this runs on one asyncio loop.  No critical section of the store *)
(* contains an await, so its lock is never contended and the code between  *)
(* two awaits is one step here.  The awaits are the database calls: each   *)
(* is two steps, the transaction in the database (CreateIncident,          *)
(* ApplySignalUpdate, CloseIncident, AnalystDecides) and the caller's      *)
(* continuation when the answer arrives (FinishCreate, FinishUpdate,       *)
(* FinishClose, AnalystAnswered).                                          *)
(*                                                                         *)
(* Time is abstract.  A cluster is "fresh" while its last signal is inside *)
(* the quiet window, a cooldown is "active" until its expiry; QuietElapses *)
(* and CooldownElapses are the passing of time.  Severity, hit counts,     *)
(* coordinates and texts are left out: nothing branches on them here.      *)
(***************************************************************************)
EXTENDS Naturals, FiniteSets

CONSTANTS
  Keys,         \* cluster keys
  Ids,          \* incident ids, numbered per key in the order they are minted
  KeyOf,        \* the cluster key an incident id is minted for
  Handlers,     \* concurrent callers of ClusterStore.handle
  MaxDeferred   \* bound on the hits deferred behind one failing create

ASSUME StoreAssumption ==
  /\ Ids \subseteq Nat \ {0}
  /\ KeyOf \in [Ids -> Keys]
  /\ MaxDeferred \in Nat

VARIABLES
  status,     \* incident table: status of every incident
  answer,     \* decision of a silence/promote request whose answer is under way
  cluster,    \* _by_key
  byId,       \* domain of _by_incident_id (its value at i is KeyOf[i])
  reserving,  \* _reserving
  pending,    \* _pending_creates: the incident id kept for the retry
  deferred,   \* _pending_creates: how many hits wait for the create
  cooldown,   \* _cooldowns
  task,       \* where each caller of handle() is suspended
  sweep,      \* the sweeper's snapshot and the close it is waiting for
  lastEvent   \* last envelope published on the IncidentStream, per incident

dbVars == <<status, answer>>
pendingVars == <<pending, deferred>>
vars == <<status, answer, cluster, byId, reserving, pending, deferred, cooldown,
          task, sweep, lastEvent>>

NoId == 0

Ended == {"promoted", "silenced", "closed"}
DbStatus == Ended \cup {"absent", "open", "deleted"}

NoCluster == [id |-> NoId, status |-> "none", fresh |-> FALSE]
ClusterState ==
  [id : Ids \cup {NoId}, status : {"none", "open", "promoted", "terminal"}, fresh : BOOLEAN]

Idle == [at |-> "idle", inc |-> NoId, reply |-> "none", left |-> 0, holds |-> FALSE]
Task ==
  [at : {"idle", "creating", "created", "updating", "updated"},
   inc : Ids \cup {NoId},
   reply : DbStatus \cup {"none", "error"},
   left : 0 .. MaxDeferred,   \* deferred hits still to replay after the create
   holds : BOOLEAN]           \* whether it must give back a reservation

NoSweep == [open |-> {}, rest |-> {}, closing |-> NoId, reply |-> "none"]
SweepState ==
  [open : SUBSET Ids, rest : SUBSET Ids, closing : Ids \cup {NoId},
   reply : Ended \cup {"none", "error", "applied", "deleted"}]

EndEvents == {"promote", "silence", "close"}
Events == EndEvents \cup {"none", "open", "update"}

-------------------------------------------------------------------------------
(* Helpers *)

\* Mutant: the status of the record is kept as it came.
KeptStatus(s) == s

\* The store keeps three statuses; silenced and closed are one to it.
StoreStatus(s) == IF s \in {"open", "promoted"} THEN s ELSE "terminal"

\* Mutant: drop_cluster without expected_incident_id.
WithoutKeys(c, S) == [k \in Keys |-> IF \E i \in S : KeyOf[i] = k THEN NoCluster ELSE c[k]]

\* cluster after drop_cluster(KeyOf[i], expected_incident_id = i) for every i of S.
Without(c, S) == [k \in Keys |-> IF c[k].id \in S THEN NoCluster ELSE c[k]]

\* byId after the same calls.
Unmapped(c, S) == {i \in byId : ~(i \in S /\ c[KeyOf[i]].id = i)}

\* Mutant: a late answer marks whatever now has the burst.
SyncedByKey(c, i, s) ==
  IF c[KeyOf[i]] # NoCluster /\ s \in Ended
  THEN [c EXCEPT ![KeyOf[i]].status = StoreStatus(s)]
  ELSE c

\* cluster after sync_incident_status(i, s); the id of the state found is not compared.
Synced(c, i, s) ==
  IF i \in byId /\ c[KeyOf[i]] # NoCluster /\ s \in Ended
  THEN [c EXCEPT ![KeyOf[i]].status = StoreStatus(s)]
  ELSE c

Publish(i, e) == lastEvent' = [lastEvent EXCEPT ![i] = e]

Unused(k) == {i \in Ids : KeyOf[i] = k /\ status[i] = "absent"}

-------------------------------------------------------------------------------
(* The process has just rehydrated from a table in which every burst has   *)
(* at most one incident that is open or promoted.                          *)

Live(s) == {i \in Ids : s[i] \in {"open", "promoted"}}

Rehydrated(k, S, F) ==
  LET own == {i \in S : KeyOf[i] = k}
  IN IF own = {} THEN NoCluster
     ELSE LET i == CHOOSE j \in own : TRUE
          IN [id |-> i, status |-> StoreStatus(status[i]), fresh |-> i \in F]

Init ==
  /\ status \in [Ids -> DbStatus]
  /\ \A i, j \in Live(status) : KeyOf[i] = KeyOf[j] => i = j
  /\ \E F \in SUBSET Live(status) :
       cluster = [k \in Keys |-> Rehydrated(k, Live(status), F)]
  /\ byId = Live(status)
  /\ answer = [i \in Ids |-> "none"]
  /\ reserving = {}
  /\ pending = [k \in Keys |-> NoId]
  /\ deferred = [k \in Keys |-> 0]
  /\ cooldown = [k \in Keys |-> "none"]
  /\ task = [w \in Handlers |-> Idle]
  /\ sweep = NoSweep
  /\ lastEvent = [i \in Ids |-> "none"]

-------------------------------------------------------------------------------
(* handle(): the decision under the lock, up to the first database call.   *)
(* A hit inside an active cooldown returns at once and changes nothing.    *)

\* Mutant: the cooldown is not looked at.
AdmitsSilenced(w, k) ==
  /\ task[w] = Idle
  /\ UNCHANGED cooldown

Admits(w, k) ==
  /\ task[w] = Idle
  /\ cooldown[k] # "active"
  /\ cooldown' = [cooldown EXCEPT ![k] = "none"]

\* Mutant: every attempt mints an incident of its own.
CreateAfresh(w, k) ==
  /\ Admits(w, k)
  /\ cluster[k] = NoCluster
  /\ k \notin reserving
  /\ reserving' = reserving \cup {k}
  /\ \E i \in Unused(k) \ {pending[k]} : pending' = [pending EXCEPT ![k] = i]
  /\ task' = [task EXCEPT ![w] =
       [at |-> "creating", inc |-> pending'[k], reply |-> "none", left |-> 0, holds |-> TRUE]]
  /\ UNCHANGED <<dbVars, cluster, byId, deferred, sweep, lastEvent>>

\* Mutant: a second caller does not see the reservation of the first.
CreateUnreserved(w, k) ==
  /\ Admits(w, k)
  /\ cluster[k] = NoCluster
  /\ reserving' = reserving \cup {k}
  /\ IF pending[k] # NoId THEN UNCHANGED pending
     ELSE \E i \in Unused(k) : /\ \A j \in Unused(k) : i <= j
                               /\ pending' = [pending EXCEPT ![k] = i]
  /\ task' = [task EXCEPT ![w] =
       [at |-> "creating", inc |-> pending'[k], reply |-> "none", left |-> 0, holds |-> TRUE]]
  /\ UNCHANGED <<dbVars, cluster, byId, deferred, sweep, lastEvent>>

StartCreate(w, k) ==
  /\ Admits(w, k)
  /\ cluster[k] = NoCluster
  /\ k \notin reserving
  /\ reserving' = reserving \cup {k}
  /\ \/ /\ pending[k] = NoId
        /\ \E i \in Unused(k) :
             /\ \A j \in Unused(k) : i <= j
             /\ pending' = [pending EXCEPT ![k] = i]
        /\ UNCHANGED deferred
     \/ /\ pending[k] # NoId
        /\ \/ UNCHANGED deferred
           \/ /\ deferred[k] < MaxDeferred
              /\ deferred' = [deferred EXCEPT ![k] = @ + 1]
        /\ UNCHANGED pending
  /\ task' = [task EXCEPT ![w] =
       [at |-> "creating", inc |-> pending'[k], reply |-> "none", left |-> 0, holds |-> TRUE]]
  /\ UNCHANGED <<dbVars, cluster, byId, sweep, lastEvent>>

RaceDropped(w, k) ==
  /\ Admits(w, k)
  /\ cluster[k] = NoCluster
  /\ k \in reserving
  /\ UNCHANGED <<dbVars, cluster, byId, reserving, pendingVars, task, sweep, lastEvent>>

Absorb(w, k) ==
  /\ Admits(w, k)
  /\ cluster[k].status \in {"promoted", "terminal"}
  /\ cluster' = [cluster EXCEPT ![k].fresh = TRUE]
  /\ UNCHANGED <<dbVars, byId, reserving, pendingVars, task, sweep, lastEvent>>

StartUpdate(w, k) ==
  /\ Admits(w, k)
  /\ cluster[k].status = "open"
  /\ task' = [task EXCEPT ![w] =
       [at |-> "updating", inc |-> cluster[k].id, reply |-> "none", left |-> 0, holds |-> FALSE]]
  /\ UNCHANGED <<dbVars, cluster, byId, reserving, pendingVars, sweep, lastEvent>>

-------------------------------------------------------------------------------
(* What follows in handle() once c is the store's new cluster map: the     *)
(* deferred hits of a finished create are replayed one by one while the    *)
(* reservation is still held; a replayed hit that meets an open cluster    *)
(* waits for its own update, any other is dropped or absorbed on the spot. *)

Replays(k, left) == left > 0 /\ cooldown[k] # "active"
Again(k, c, left) == Replays(k, left) /\ c[k].status = "open"

NextTask(k, c, left, holds) ==
  IF Again(k, c, left)
  THEN [at |-> "updating", inc |-> c[k].id, reply |-> "none", left |-> left - 1, holds |-> holds]
  ELSE Idle

Absorbed(k, c, left) ==
  IF Replays(k, left) /\ c[k].status \in {"promoted", "terminal"}
  THEN [c EXCEPT ![k].fresh = TRUE] ELSE c

ReplayOrReturn(w, k, c, left, holds) ==
  /\ task' = [task EXCEPT ![w] = NextTask(k, c, left, holds)]
  /\ cluster' = Absorbed(k, c, left)
  /\ reserving' = IF Again(k, c, left) \/ ~holds THEN reserving ELSE reserving \ {k}
  /\ cooldown' = IF Replays(k, left) THEN [cooldown EXCEPT ![k] = "none"] ELSE cooldown

(* create_incident with an explicit id: initializes the node if it is new, *)
(* returns the node as it is otherwise.  A call that raises may have       *)
(* committed.                                                              *)

CreateIncident(w) ==
  LET i == task[w].inc
  IN /\ task[w].at = "creating"
     /\ status' = [status EXCEPT ![i] = IF @ = "absent" THEN "open" ELSE @]
     /\ task' = [task EXCEPT ![w].at = "created", ![w].reply = status'[i]]
     /\ UNCHANGED <<answer, cluster, byId, reserving, pendingVars, cooldown, sweep, lastEvent>>

CreateRaises(w) ==
  LET i == task[w].inc
  IN /\ task[w].at = "creating"
     /\ \/ UNCHANGED status
        \/ status' = [status EXCEPT ![i] = IF @ = "absent" THEN "open" ELSE @]
     /\ task' = [task EXCEPT ![w].at = "created", ![w].reply = "error"]
     /\ UNCHANGED <<answer, cluster, byId, reserving, pendingVars, cooldown, sweep, lastEvent>>

\* Mutant: the error path returns without its finally.
CreateFailedKeeps(w) ==
  /\ task[w].at = "created"
  /\ task[w].reply = "error"
  /\ task' = [task EXCEPT ![w] = Idle]
  /\ UNCHANGED <<dbVars, cluster, byId, reserving, pendingVars, cooldown, sweep, lastEvent>>

\* The create failed: the hit is dropped, the pending create stays for a later hit.
CreateFailed(w) ==
  /\ task[w].at = "created"
  /\ task[w].reply = "error"
  /\ reserving' = reserving \ {KeyOf[task[w].inc]}
  /\ task' = [task EXCEPT ![w] = Idle]
  /\ UNCHANGED <<dbVars, cluster, byId, pendingVars, cooldown, sweep, lastEvent>>

\* The record that came back decides the state of the new cluster.
FinishCreate(w) ==
  LET i == task[w].inc
      k == KeyOf[i]
      s == StoreStatus(task[w].reply)
  IN /\ task[w].at = "created"
     /\ task[w].reply # "error"
     /\ byId' = byId \cup {i}
     /\ pending' = [pending EXCEPT ![k] = NoId]
     /\ deferred' = [deferred EXCEPT ![k] = 0]
     /\ IF s = "open" THEN Publish(i, "open") ELSE UNCHANGED lastEvent
     /\ ReplayOrReturn(w, k, [cluster EXCEPT ![k] = [id |-> i, status |-> s, fresh |-> TRUE]],
                       IF s = "open" THEN deferred[k] ELSE 0, TRUE)
     /\ UNCHANGED <<dbVars, sweep>>

-------------------------------------------------------------------------------
(* apply_signal_update: appends to the incident's timeline if it is open,  *)
(* and answers with the incident's status either way.                      *)

ApplySignalUpdate(w) ==
  /\ task[w].at = "updating"
  /\ task' = [task EXCEPT ![w].at = "updated",
       ![w].reply = IF status[task[w].inc] = "absent" THEN "deleted" ELSE status[task[w].inc]]
  /\ UNCHANGED <<dbVars, cluster, byId, reserving, pendingVars, cooldown, sweep, lastEvent>>

UpdateRaises(w) ==
  /\ task[w].at = "updating"
  /\ task' = [task EXCEPT ![w].at = "updated", ![w].reply = "error"]
  /\ UNCHANGED <<dbVars, cluster, byId, reserving, pendingVars, cooldown, sweep, lastEvent>>

\* The driver lost the commit's acknowledgement and replays the transaction:
\* the receipt says "applied", the record is the current one.
UpdateReplayed(w) ==
  /\ task[w].at = "updated"
  /\ task[w].reply = "open"
  /\ task' = [task EXCEPT ![w].reply = status[task[w].inc]]
  /\ UNCHANGED <<dbVars, cluster, byId, reserving, pendingVars, cooldown, sweep, lastEvent>>

\* Mutant: the store is not looked at again after the await.
FinishUpdateBlind(w) ==
  LET i == task[w].inc
      k == KeyOf[i]
      r == task[w].reply
      c == CASE r = "deleted" -> Without(cluster, {i})
             [] OTHER -> Synced(cluster, i, r)
  IN /\ task[w].at = "updated"
     /\ byId' = IF r = "deleted" THEN Unmapped(cluster, {i}) ELSE byId
     /\ IF r = "open" THEN Publish(i, "update") ELSE UNCHANGED lastEvent
     /\ ReplayOrReturn(w, k, c, task[w].left, task[w].holds)
     /\ UNCHANGED <<dbVars, pendingVars, sweep>>

FinishUpdate(w) ==
  LET i == task[w].inc
      k == KeyOf[i]
      r == task[w].reply
      current == cluster[k].id = i /\ cluster[k].status = "open"
      c == CASE r = "deleted" -> Without(cluster, {i})
             [] r = "open" /\ current -> [cluster EXCEPT ![k].fresh = TRUE]
             [] OTHER -> Synced(cluster, i, r)
  IN /\ task[w].at = "updated"
     /\ byId' = IF r = "deleted" THEN Unmapped(cluster, {i}) ELSE byId
     /\ IF r = "open" /\ current THEN Publish(i, "update") ELSE UNCHANGED lastEvent
     /\ ReplayOrReturn(w, k, c, task[w].left, task[w].holds)
     /\ UNCHANGED <<dbVars, pendingVars, sweep>>

-------------------------------------------------------------------------------
(* The sweeper: one pass at a time, every tick.                            *)

StaleIds(open) ==
  {cluster[k].id : k \in {q \in Keys : /\ cluster[q] # NoCluster
                                       /\ ~cluster[q].fresh
                                       /\ (cluster[q].status = "open") = open}}

SweepStart ==
  /\ sweep = NoSweep
  /\ cooldown' = [k \in Keys |-> IF cooldown[k] = "expired" THEN "none" ELSE cooldown[k]]
  /\ IF StaleIds(TRUE) = {}
     THEN /\ cluster' = Without(cluster, StaleIds(FALSE))
          /\ byId' = Unmapped(cluster, StaleIds(FALSE))
          /\ UNCHANGED sweep
     ELSE /\ sweep' = [NoSweep EXCEPT !.open = StaleIds(TRUE), !.rest = StaleIds(FALSE)]
          /\ UNCHANGED <<cluster, byId>>
  /\ UNCHANGED <<dbVars, reserving, pendingVars, task, lastEvent>>

\* Mutant: the close does not ask whether the incident is still open.
CloseAnyway(i) ==
  /\ i \in sweep.open
  /\ sweep.closing = NoId
  /\ status' = [status EXCEPT ![i] = "closed"]
  /\ sweep' = [sweep EXCEPT !.open = @ \ {i}, !.closing = i, !.reply = "applied"]
  /\ UNCHANGED <<answer, cluster, byId, reserving, pendingVars, cooldown, task, lastEvent>>

\* close_incident(i, CLOSED): ends the incident only if it is still open.
CloseIncident(i) ==
  /\ i \in sweep.open
  /\ sweep.closing = NoId
  /\ status' = [status EXCEPT ![i] = IF @ = "open" THEN "closed" ELSE @]
  /\ sweep' = [sweep EXCEPT !.open = @ \ {i}, !.closing = i,
       !.reply = CASE status[i] = "open" -> "applied"
                   [] status[i] = "absent" -> "deleted"
                   [] OTHER -> status[i]]
  /\ UNCHANGED <<answer, cluster, byId, reserving, pendingVars, cooldown, task, lastEvent>>

CloseRaises(i) ==
  /\ i \in sweep.open
  /\ sweep.closing = NoId
  /\ \/ UNCHANGED status
     \/ status' = [status EXCEPT ![i] = IF @ = "open" THEN "closed" ELSE @]
  /\ sweep' = [sweep EXCEPT !.open = @ \ {i}, !.closing = i, !.reply = "error"]
  /\ UNCHANGED <<answer, cluster, byId, reserving, pendingVars, cooldown, task, lastEvent>>

\* Mutant: a failed close drops the cluster as well.
FinishCloseForgets ==
  LET last == sweep.open = {}
      gone == {sweep.closing} \cup (IF last THEN sweep.rest ELSE {})
  IN /\ sweep.closing # NoId
     /\ cluster' = Without(cluster, gone)
     /\ byId' = Unmapped(cluster, gone)
     /\ IF sweep.reply = "applied" THEN Publish(sweep.closing, "close") ELSE UNCHANGED lastEvent
     /\ sweep' = IF last THEN NoSweep ELSE [sweep EXCEPT !.closing = NoId, !.reply = "none"]
     /\ UNCHANGED <<dbVars, reserving, pendingVars, cooldown, task>>

\* Mutant: the event is published for every close that found the incident ended.
FinishCloseTells ==
  LET i == sweep.closing
      last == sweep.open = {}
      gone == (IF sweep.reply = "error" THEN {} ELSE {i}) \cup (IF last THEN sweep.rest ELSE {})
  IN /\ i # NoId
     /\ cluster' = Without(cluster, gone)
     /\ byId' = Unmapped(cluster, gone)
     /\ IF sweep.reply # "error" THEN Publish(i, "close") ELSE UNCHANGED lastEvent
     /\ sweep' = IF last THEN NoSweep ELSE [sweep EXCEPT !.closing = NoId, !.reply = "none"]
     /\ UNCHANGED <<dbVars, reserving, pendingVars, cooldown, task>>

\* Mutant: what the close found is not taken over.
FinishCloseIgnores ==
  LET last == sweep.open = {}
      gone == (IF sweep.reply \in {"applied", "deleted"} THEN {sweep.closing} ELSE {})
                \cup (IF last THEN sweep.rest ELSE {})
  IN /\ sweep.closing # NoId
     /\ cluster' = Without(cluster, gone)
     /\ byId' = Unmapped(cluster, gone)
     /\ IF sweep.reply = "applied" THEN Publish(sweep.closing, "close") ELSE UNCHANGED lastEvent
     /\ sweep' = IF last THEN NoSweep ELSE [sweep EXCEPT !.closing = NoId, !.reply = "none"]
     /\ UNCHANGED <<dbVars, reserving, pendingVars, cooldown, task>>

\* The answer of one close; after the last one the stale non-open clusters of
\* the same snapshot are dropped too.
FinishClose ==
  LET i == sweep.closing
      last == sweep.open = {}
      gone == (IF sweep.reply \in {"applied", "closed", "deleted"} THEN {i} ELSE {})
                \cup (IF last THEN sweep.rest ELSE {})
      c == IF sweep.reply \in {"silenced", "promoted"}
           THEN Synced(cluster, i, sweep.reply) ELSE cluster
  IN /\ i # NoId
     /\ cluster' = Without(c, gone)
     /\ byId' = Unmapped(cluster, gone)
     /\ IF sweep.reply = "applied" THEN Publish(i, "close") ELSE UNCHANGED lastEvent
     /\ sweep' = IF last THEN NoSweep ELSE [sweep EXCEPT !.closing = NoId, !.reply = "none"]
     /\ UNCHANGED <<dbVars, reserving, pendingVars, cooldown, task>>

-------------------------------------------------------------------------------
(* The analyst's requests.  A request on an incident that is no longer     *)
(* open changes nothing.                                                   *)

AnalystDecides(i) ==
  /\ status[i] = "open"
  /\ \E s \in {"silenced", "promoted"} :
       /\ status' = [status EXCEPT ![i] = s]
       /\ answer' = [answer EXCEPT ![i] = s]
  /\ UNCHANGED <<cluster, byId, reserving, pendingVars, cooldown, task, sweep, lastEvent>>

\* The transaction committed and close_incident raised: the request ends with an error.
AnalystAnswerLost(i) ==
  /\ answer[i] # "none"
  /\ answer' = [answer EXCEPT ![i] = "none"]
  /\ UNCHANGED <<status, cluster, byId, reserving, pendingVars, cooldown, task, sweep, lastEvent>>

\* Mutant: only one of the two maps is cleared.
MarkSilencedHalf(i) ==
  IF i \in byId
  THEN /\ cluster' = [cluster EXCEPT ![KeyOf[i]] = NoCluster]
       /\ cooldown' = [cooldown EXCEPT ![KeyOf[i]] = "active"]
       /\ UNCHANGED byId
  ELSE UNCHANGED <<cluster, byId, cooldown>>

\* mark_silenced
MarkSilenced(i) ==
  IF i \in byId
  THEN /\ cluster' = [cluster EXCEPT ![KeyOf[i]] = NoCluster]
       /\ byId' = byId \ {i}
       /\ cooldown' = [cooldown EXCEPT ![KeyOf[i]] = "active"]
  ELSE UNCHANGED <<cluster, byId, cooldown>>

\* mark_promoted
MarkPromoted(i) ==
  /\ IF i \in byId /\ cluster[KeyOf[i]] # NoCluster
     THEN cluster' = [cluster EXCEPT ![KeyOf[i]].status = "promoted"]
     ELSE UNCHANGED cluster
  /\ UNCHANGED <<byId, cooldown>>

AnalystAnswered(i) ==
  /\ answer' = [answer EXCEPT ![i] = "none"]
  /\ \/ /\ answer[i] = "silenced"
        /\ Publish(i, "silence")
        /\ MarkSilenced(i)
     \/ /\ answer[i] = "promoted"
        /\ Publish(i, "promote")
        /\ MarkPromoted(i)
  /\ UNCHANGED <<status, reserving, pendingVars, task, sweep>>

-------------------------------------------------------------------------------
(* The environment.                                                        *)

QuietElapses(k) ==
  /\ cluster[k].fresh
  /\ cluster' = [cluster EXCEPT ![k].fresh = FALSE]
  /\ UNCHANGED <<dbVars, byId, reserving, pendingVars, cooldown, task, sweep, lastEvent>>

CooldownElapses(k) ==
  /\ cooldown[k] = "active"
  /\ cooldown' = [cooldown EXCEPT ![k] = "expired"]
  /\ UNCHANGED <<dbVars, cluster, byId, reserving, pendingVars, task, sweep, lastEvent>>

\* An operator removes an incident from the graph; never one whose create is
\* still being retried.
DeleteIncident(i) ==
  /\ status[i] \notin {"absent", "deleted"}
  /\ pending[KeyOf[i]] # i
  /\ status' = [status EXCEPT ![i] = "deleted"]
  /\ UNCHANGED <<answer, cluster, byId, reserving, pendingVars, cooldown, task, sweep, lastEvent>>

Decide(w, k) == StartCreate(w, k) \/ RaceDropped(w, k) \/ Absorb(w, k) \/ StartUpdate(w, k)
Database(w) ==
  CreateIncident(w) \/ CreateRaises(w) \/ ApplySignalUpdate(w) \/ UpdateRaises(w)
Resume(w) == CreateFailed(w) \/ FinishCreate(w) \/ FinishUpdate(w)

Next ==
  \/ \E w \in Handlers : \/ \E k \in Keys : Decide(w, k)
                         \/ Database(w) \/ UpdateReplayed(w) \/ Resume(w)
  \/ SweepStart \/ FinishClose
  \/ \E i \in Ids : CloseIncident(i) \/ CloseRaises(i)
  \/ \E i \in Ids : AnalystDecides(i) \/ AnalystAnswerLost(i) \/ AnalystAnswered(i)
  \/ \E i \in Ids : DeleteIncident(i)
  \/ \E k \in Keys : QuietElapses(k) \/ CooldownElapses(k)

Spec == Init /\ [][Next]_vars

(* Fairness.  The loop runs every task that is ready, and a database call  *)
(* returns or raises (the driver times out): weak fairness of each task's  *)
(* steps.  The database is assumed to answer a close that is retried again *)
(* and again: strong fairness of CloseIncident.  Hits, analysts, the clock *)
(* and faults are never forced.                                            *)
Fairness ==
  /\ \A w \in Handlers : WF_vars(Database(w)) /\ WF_vars(Resume(w))
  /\ WF_vars(SweepStart)
  /\ WF_vars(FinishClose)
  /\ WF_vars(\E i \in Ids : CloseIncident(i) \/ CloseRaises(i))
  /\ \A i \in Ids : SF_vars(CloseIncident(i))

FairSpec == Spec /\ Fairness

-------------------------------------------------------------------------------
(* Properties *)

TypeOK ==
  /\ status \in [Ids -> DbStatus]
  /\ answer \in [Ids -> {"none", "silenced", "promoted"}]
  /\ cluster \in [Keys -> ClusterState]
  /\ byId \in SUBSET Ids
  /\ reserving \in SUBSET Keys
  /\ pending \in [Keys -> Ids \cup {NoId}]
  /\ deferred \in [Keys -> 0 .. MaxDeferred]
  /\ cooldown \in [Keys -> {"none", "active", "expired"}]
  /\ task \in [Handlers -> Task]
  /\ sweep \in SweepState
  /\ lastEvent \in [Ids -> Events]

\* A burst is never represented by two open incidents, whatever creates fail,
\* commit unseen or are retried.
OneOpenPerKey ==
  \A i, j \in Ids : status[i] = "open" /\ status[j] = "open" /\ KeyOf[i] = KeyOf[j] => i = j

\* No open incident is orphaned: the store either tracks it, so that hits reach
\* it and the sweeper can close it, or still remembers the create to retry.
OpenIsOwned ==
  \A i \in Ids : status[i] = "open" => cluster[KeyOf[i]].id = i \/ pending[KeyOf[i]] = i

\* The two maps of the store stay inverse of one another.
MapsInverse ==
  /\ \A i \in Ids : i \in byId <=> cluster[KeyOf[i]].id = i
  /\ \A k \in Keys : cluster[k] # NoCluster => cluster[k].id \in Ids /\ KeyOf[cluster[k].id] = k

\* The store calls a cluster promoted or terminal only when its incident really
\* has ended: otherwise hits would be swallowed while the incident stays open.
EndedInDatabase ==
  \A k \in Keys : cluster[k].status \in {"promoted", "terminal"} =>
    status[cluster[k].id] \in Ended \cup {"deleted"}

\* While a silence lasts nothing is open for its burst, nothing is tracked and
\* no create is waiting to be retried.
SilenceHolds ==
  \A k \in Keys : cooldown[k] = "active" =>
    /\ cluster[k] = NoCluster
    /\ pending[k] = NoId
    /\ \A i \in Ids : KeyOf[i] = k => status[i] # "open"

\* At most one caller is creating an incident for a burst, and it holds the reservation.
CreateExclusive ==
  /\ \A w \in Handlers : task[w].holds => KeyOf[task[w].inc] \in reserving
  /\ \A v, w \in Handlers :
       v # w /\ task[v].holds /\ task[w].holds => KeyOf[task[v].inc] # KeyOf[task[w].inc]

\* The inductive strengthening of the invariants above, part by part.
Past == Ended \cup {"deleted"}

\* A late answer never says less than the table: what it reports as ended has ended.
TrueReply(i, r) ==
  \/ r = "error"
  \/ r = "open" /\ status[i] # "absent"
  \/ r \in Past /\ status[i] \in Past

ClusterInv ==
  \A k \in Keys : cluster[k] # NoCluster =>
    \/ /\ cluster[k].status = "open"
       /\ status[cluster[k].id] # "absent"
       /\ lastEvent[cluster[k].id] \notin EndEvents
    \/ /\ cluster[k].status \in {"promoted", "terminal"}
       /\ status[cluster[k].id] \in Past

PendingInv ==
  \A k \in Keys : pending[k] # NoId =>
    KeyOf[pending[k]] = k /\ cluster[k] = NoCluster /\ cooldown[k] # "active"

CooldownInv == \A k \in Keys : cooldown[k] = "active" => cluster[k] = NoCluster

TaskInv ==
  \A w \in Handlers :
    LET i == task[w].inc
    IN /\ task[w].at # "idle" => i \in Ids
       /\ task[w].holds => task[w].at # "idle"
       /\ task[w].at \in {"creating", "created"} => task[w].holds /\ pending[KeyOf[i]] = i
       /\ task[w].at \in {"updating", "updated"} => status[i] # "absent"
       /\ task[w].at \in {"created", "updated"} => TrueReply(i, task[w].reply)

SweepInv ==
  /\ \A i \in sweep.open : status[i] # "absent"
  /\ \A i \in sweep.rest : status[i] \in Past
  /\ sweep.closing # NoId /\ sweep.reply # "error" => status[sweep.closing] \in Past
  /\ sweep.closing # NoId /\ sweep.reply = "applied" =>
       answer[sweep.closing] = "none" /\ lastEvent[sweep.closing] \notin EndEvents

AnswerInv ==
  \A i \in Ids : answer[i] # "none" => status[i] \in Past /\ lastEvent[i] \notin EndEvents

EventInv == \A i \in Ids : status[i] \notin Past => lastEvent[i] \notin EndEvents

\* All of it: what every step of the store, the database and the analysts keeps,
\* and from which the invariants and the promise to the analyst follow.
StoreInv ==
  /\ TypeOK
  /\ MapsInverse
  /\ ClusterInv
  /\ PendingInv
  /\ CooldownInv
  /\ OpenIsOwned
  /\ TaskInv
  /\ CreateExclusive
  /\ SweepInv
  /\ AnswerInv
  /\ EventInv

\* Once the end of an incident was published, no update and no second end is:
\* a late answer of the database is recognised as late.
EndEventFinal ==
  [][\A i \in Ids : lastEvent[i] \in EndEvents /\ lastEvent'[i] # lastEvent[i]
       => lastEvent'[i] = "open"]_lastEvent

\* Stronger, and what the tests ask of a terminal record: once the end of an
\* incident was published it is not published as open again either.
NotReopenedOnStream ==
  [][\A i \in Ids : lastEvent[i] \in EndEvents => lastEvent'[i] # "open"]_lastEvent

\* Silencing an incident of a burst starts the cooldown of the burst, so that no
\* new incident replaces the one the analyst has just dismissed.
SilenceTakesEffect ==
  [][\A i \in Ids : lastEvent[i] # "silence" /\ lastEvent'[i] = "silence"
       => cooldown'[KeyOf[i]] = "active"]_<<lastEvent, cooldown>>

\* The promise to the analyst, as an abstract specification.
Lifecycle == INSTANCE IncidentLifecycle WITH
  cooling <- {k \in Keys : cooldown[k] = "active"}

LifecycleSpec == Lifecycle!Spec

\* Every reservation is given back, so a burst is never locked out.
ReservationReleased == \A k \in Keys : (k \in reserving) ~> (k \notin reserving)

\* A burst whose signals have stopped leaves the store, even if closes fail,
\* analysts end the incident first or answers are lost.
QuietClusterLeaves ==
  \A k \in Keys : <>[](~cluster[k].fresh) => <>[](cluster[k] = NoCluster)

\* Auto-close: an incident whose burst has stopped does not stay open for ever.
QuietIncidentCloses ==
  \A i \in Ids : <>[](~cluster[KeyOf[i]].fresh /\ \A w \in Handlers : task[w] = Idle)
                   => <>[](status[i] # "open")
===============================================================================
