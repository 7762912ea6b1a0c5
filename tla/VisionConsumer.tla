---------------------------- MODULE VisionConsumer ----------------------------
(***************************************************************************)
(* The vision worker on the stream the Telegram collector fills: it reads  *)
(* new entries, then claims idle ones, and carries each through the image  *)
(* analysis, the Document in Neo4j, the point in Qdrant, the enriched      *)
(* event and the acknowledgement.  A failed entry stays pending, is        *)
(* claimed again when idle and ends in the dead letter queue.              *)
(***************************************************************************)
EXTENDS TelegramCollector

CONSTANTS
  ReadCount,   \* entries of an XREADGROUP (5)
  ClaimCount,  \* entries of an XAUTOCLAIM (3)
  MaxRetries   \* vision_max_retries (3)

ASSUME VisionAssumption ==
  {ReadCount, ClaimCount} \subseteq Nat \ {0} /\ MaxRetries \in Nat

VARIABLES
  delivered,  \* the group's last delivered entry
  worker,     \* the loop: where it is and the entries in hand
  tries,      \* vision:retries of an entry
  described,  \* urls whose Document has a vision_description
  enriched,   \* events:enriched, the entries it has an event of
  dead        \* vision:dead_letter, the entries in it

workerVars == <<delivered, worker, tries, described, enriched, dead>>
vars == <<posted, collectorVars, point, group, pel, faults, workerVars>>

\* Entries beyond the bound on faults are not enqueued.
Entries == 1..(Cardinality(Photos) + MaxFaults)

\* both reads and claims return the entries in the order of the stream
Entry == Min(worker.batch)
Url == stream[Entry]
Idle(turn) == [at |-> turn, batch |-> {}, turn |-> turn]
Holding(at) == worker.at = at

\* The next entry in hand, or the next half of the loop.
Advanced ==
  IF worker.batch # {Entry}
  THEN [worker EXCEPT !.at = "graph", !.batch = @ \ {Entry}]
  ELSE Idle(worker.turn)

-------------------------------------------------------------------------------
(* The loop *)

Begin(batch, turn) ==
  worker' = IF batch = {} THEN Idle(turn)
            ELSE [at |-> "graph", batch |-> batch, turn |-> turn]

EnsureGroup ==
  /\ ~group
  /\ group' = TRUE
  /\ UNCHANGED <<posted, collectorVars, point, pel, faults, workerVars>>

ReadNew ==
  /\ group /\ Holding("read")
  /\ LET last == Min({delivered + ReadCount, Len(stream)})
         new == (delivered + 1)..last
     IN  /\ delivered' = last
         /\ pel' = pel \cup new
         /\ Begin(new, "claim")
  /\ UNCHANGED <<posted, collectorVars, point, group, faults, tries, described, enriched, dead>>

\* The entries that have been idle long enough, the oldest first.
Oldest(entries) == {e \in entries : Cardinality({f \in entries : f < e}) < ClaimCount}

ClaimOf(idle) ==
  /\ Holding("claim")
  /\ Begin(Oldest(idle), "read")
  /\ UNCHANGED <<posted, collectorVars, point, group, pel, faults,
                 delivered, tries, described, enriched, dead>>

Claim == \E idle \in SUBSET pel : ClaimOf(idle)
ClaimAll == pel # {} /\ ClaimOf(pel)

-------------------------------------------------------------------------------
(* One entry *)

\* Neo4j must report exactly one Document updated.
DescribeDocument ==
  /\ Holding("graph") /\ Url \in graph
  /\ described' = described \cup {Url}
  /\ worker' = [worker EXCEPT !.at = "point"]
  /\ UNCHANGED <<posted, collectorVars, point, group, pel, faults, delivered, tries, enriched, dead>>

Targets == {h \in Hashes : point[h].url = Url /\ point[h] # NoPoint}

\* The first point with the url gets the description.
DescribePoint ==
  /\ Holding("point")
  /\ \E h \in Targets : point' = [point EXCEPT ![h].vision = "completed"]
  /\ worker' = [worker EXCEPT !.at = "publish"]
  /\ UNCHANGED <<posted, collectorVars, group, pel, faults, delivered, tries, described, enriched, dead>>

Publish ==
  /\ Holding("publish")
  /\ enriched' = enriched \cup {Entry}
  /\ worker' = [worker EXCEPT !.at = "ack"]
  /\ UNCHANGED <<posted, collectorVars, point, group, pel, faults, delivered, tries, described, dead>>

\* Acknowledge, and forget the retries.
Acknowledge ==
  /\ Holding("ack")
  /\ pel' = pel \ {Entry}
  /\ tries' = [tries EXCEPT ![Entry] = 0]
  /\ worker' = Advanced
  /\ UNCHANGED <<posted, collectorVars, point, group, faults, delivered, described, enriched, dead>>

\* Mutant: the entry of a failed attempt is acknowledged as well.
CountFailureAcks ==
  /\ pel' = pel \ {Entry}
  /\ tries' = [tries EXCEPT ![Entry] = @ + 1]
  /\ worker' = IF tries[Entry] + 1 > MaxRetries THEN [worker EXCEPT !.at = "bury"] ELSE Advanced

\* Mutant: the counter is dropped with every failure.
CountFailureForgets ==
  /\ tries' = [tries EXCEPT ![Entry] = 0]
  /\ worker' = IF tries[Entry] + 1 > MaxRetries THEN [worker EXCEPT !.at = "bury"] ELSE Advanced
  /\ UNCHANGED pel

CountFailure ==
  /\ tries' = [tries EXCEPT ![Entry] = @ + 1]
  /\ worker' = IF tries[Entry] + 1 > MaxRetries THEN [worker EXCEPT !.at = "bury"] ELSE Advanced
  /\ UNCHANGED pel

\* The analysis, Neo4j or Qdrant fails, or has no target.
Fail ==
  /\ worker.at \in {"graph", "point"}
  /\ CountFailure
  /\ UNCHANGED <<posted, collectorVars, point, group, faults, delivered, described, enriched, dead>>

\* Redis fails while the entry is published or acknowledged.
FailLate ==
  /\ Fault
  /\ worker.at \in {"publish", "ack"}
  /\ CountFailure
  /\ UNCHANGED <<posted, collectorVars, point, group, delivered, described, enriched, dead>>

Bury ==
  /\ Holding("bury")
  /\ dead' = dead \cup {Entry}
  /\ worker' = [worker EXCEPT !.at = "buried"]
  /\ UNCHANGED <<posted, collectorVars, point, group, pel, faults, delivered, tries, described, enriched>>

AcknowledgeBuried ==
  /\ Holding("buried")
  /\ pel' = pel \ {Entry}
  /\ tries' = [tries EXCEPT ![Entry] = 0]
  /\ worker' = Advanced
  /\ UNCHANGED <<posted, collectorVars, point, group, faults, delivered, described, enriched, dead>>

\* A restart, or an error of Redis in the failure handler: the entries in hand
\* stay pending and the loop starts over.
Restart ==
  /\ Fault
  /\ worker.batch # {}
  /\ worker' = Idle("read")
  /\ UNCHANGED <<posted, collectorVars, point, group, pel, delivered, tries, described, enriched, dead>>

-------------------------------------------------------------------------------
Init ==
  /\ CollectorInit
  /\ delivered = 0 /\ worker = Idle("read")
  /\ tries = [e \in Entries |-> 0]
  /\ described = {} /\ enriched = {} /\ dead = {}

EntryStep ==
  \/ DescribeDocument \/ DescribePoint \/ Publish \/ Acknowledge
  \/ Fail \/ Bury \/ AcknowledgeBuried

WorkerNext == EnsureGroup \/ ReadNew \/ Claim \/ EntryStep \/ FailLate \/ Restart

Next == (CollectorNext /\ UNCHANGED workerVars) \/ WorkerNext

Spec == Init /\ [][Next]_vars

\* The scheduler polls again and again and the worker's loop goes on.  Every
\* pending entry is idle for ten minutes some time, so a claim that finds all
\* of them comes again and again.
FairSpec ==
  /\ Spec
  /\ WF_vars(PollStep /\ UNCHANGED workerVars)
  /\ WF_vars(EnsureGroup) /\ WF_vars(ReadNew) /\ WF_vars(Claim) /\ WF_vars(EntryStep)
  /\ SF_vars(ClaimAll)

-------------------------------------------------------------------------------
(* Properties *)

\* A delivered entry is pending until its event is published or it is in the
\* dead letter queue, whatever the worker and Redis do in between.
EntryAccounted == \A e \in 1..delivered : e \in pel \/ e \in enriched \/ e \in dead

Owed(url) ==
  \E e \in 1..Len(stream) : stream[e] = url /\ (e > delivered \/ e \in pel \/ e \in dead)

\* A document that says "pending" has an entry that is still to be worked off,
\* or dead: the entry may be taken up before the document exists, and is kept
\* then.  A document upserted twice may have lost it (see the README).
PendingIsOwed ==
  \A h \in Hashes : point[h].vision = "pending" /\ h \notin again => Owed(point[h].url)

\* Backpressure: with more than MaxPending entries unfinished, a channel that
\* is not "high" adds none.
BacklogBounded ==
  ~HighPriority => Len(stream) - delivered + Cardinality(pel) <= MaxPending + 1

\* Every entry is enriched or buried in the end, a poisoned one too.
EntrySettles ==
  \A e \in Entries : (e <= Len(stream)) ~> (e \in enriched \cup dead)
===============================================================================
