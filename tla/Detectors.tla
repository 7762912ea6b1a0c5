------------------------------- MODULE Detectors -------------------------------
(***************************************************************************)
(* The promoter's detectors and the drain that feeds them: which signals   *)
(* become hits, how the hits reach the ClusterStore, and how the end of a  *)
(* cluster comes back to the detector that ignited it.                     *)
(*                                                                         *)
(* FIRMS cells and the one bucket of the severity detector are windows     *)
(* under a fixed key.  Telegram posts are matched to centroids by the      *)
(* Jaccard index of their token sets; a centroid's key is the fingerprint  *)
(* of the post that started it, so it is named by that post here.  The     *)
(* ClusterStore is reduced to what a detector can tell: ClusterStore.tla   *)
(* has its concurrency, PromoterRestart.tla the rows that a restart reads. *)
(* Times are absolute; 0 is "no suppression".                              *)
(***************************************************************************)
EXTENDS Naturals, FiniteSets, Sequences, SequencesExt

CONSTANTS
  Cells,         \* FIRMS buckets, and "severity:global"
  Posts,         \* Telegram posts with pairwise different shingles
  Shingles,      \* the 5-gram shingles of a post
  Words,         \* its words
  Channel,       \* the channel it comes from
  Similar,       \* telegram_jaccard_threshold, in percent (55)
  SimilarHere,   \* the threshold inside one channel (45)
  MinHits,       \* signals that ignite a cluster (3)
  Window,        \* the detector's window
  Quiet,         \* the sweeper's quiet window
  Cooldown,      \* silence_cooldown_sec
  MaxCentroids,  \* centroids kept (50)
  MaxNow,        \* bound on time
  MaxSignals     \* bound on signals

ASSUME DetectorsAssumption ==
  /\ Shingles \in [Posts -> SUBSET Nat] /\ Words \in [Posts -> SUBSET Nat]
  /\ \A p, q \in Posts : Shingles[p] = Shingles[q] => p = q
  /\ Posts \cap Cells = {}
  /\ {MinHits, MaxCentroids, Window, Quiet, Cooldown} \subseteq Nat \ {0}

VARIABLES
  now, signals,  \* the clock, and how many signals have come
  bucket,        \* _buckets: the window of every cell
  centroid,      \* _centroids, by key
  suppressed,    \* _suppressed_until
  storeCluster,  \* the store's cluster of a key, by its incident_status
  ours,          \* history: the cluster was opened by this process
  lastHit,       \* last_signal_ts of the cluster
  storeCooldown, \* the store's _cooldowns
  unfinished,    \* _pending_creates: creates that have returned no record yet
  hit,           \* the hit the drain is handing over
  written,       \* the last timeline event that the table has for the key
  promoted       \* keys that have the row of a promoted incident

windowVars == <<bucket, centroid, suppressed>>
tableVars == <<written, promoted>>
storeVars == <<storeCluster, ours, lastHit, storeCooldown, unfinished, hit>>
detectorVars == <<now, signals, windowVars, storeVars, tableVars>>

HitKeys == Cells \cup Posts
EmptyWindow == [times |-> <<>>, ignited |-> FALSE]
NoHit == [act |-> "none", key |-> "none", at |-> 0, retry |-> FALSE]

-------------------------------------------------------------------------------
(* Windows and centroids *)

InWindow(times) == SelectSeq(times, LAMBDA t : t + Window >= now)

\* Prune, append the signal, ignite on MinHits.
Accumulated(w) ==
  LET times == Append(InWindow(w.times), now)
  IN  [w EXCEPT !.times = times, !.ignited = w.ignited \/ Len(times) >= MinHits]

Suppresses(key) == now < suppressed[key]

\* An expired suppression is forgotten when the next signal of its key comes.
Unsuppressed(key) == suppressed' = [suppressed EXCEPT ![key] = 0]

Reaches(percent, a, b) ==
  Cardinality(a \cap b) * 100 >= percent * Cardinality(a \cup b)

\* The better of two overlaps, as a / b compared by cross-multiplication.
Overlap(p, c) ==
  IF Channel[p] = c.channel
  THEN <<Cardinality(Words[p] \cap c.words), Cardinality(Words[p] \cup c.words)>>
  ELSE <<Cardinality(Shingles[p] \cap c.shingles), Cardinality(Shingles[p] \cup c.shingles)>>

Matches(p, c) ==
  IF Channel[p] = c.channel THEN Reaches(SimilarHere, Words[p], c.words)
  ELSE Reaches(Similar, Shingles[p], c.shingles)

BestMatches(p) ==
  LET found == {k \in DOMAIN centroid : Matches(p, centroid[k])}
      score(k) == Overlap(p, centroid[k])
  IN  {k \in found : \A j \in found : score(k)[1] * score(j)[2] >= score(j)[1] * score(k)[2]}

NewCentroid(p) ==
  [shingles |-> Shingles[p], words |-> Words[p], channel |-> Channel[p],
   window |-> EmptyWindow, seen |-> now]

Widened(c, p) ==
  [c EXCEPT !.shingles = @ \cup Shingles[p], !.words = @ \cup Words[p], !.seen = now]

\* _evict_if_needed: above the limit one of those seen longest ago goes.
Evicted(cs) ==
  IF Cardinality(DOMAIN cs) <= MaxCentroids THEN {cs}
  ELSE LET oldest == {k \in DOMAIN cs : \A j \in DOMAIN cs : cs[k].seen <= cs[j].seen}
       IN  {[k \in DOMAIN cs \ {o} |-> cs[k]] : o \in oldest}

With(cs, key, c) == [k \in DOMAIN cs \cup {key} |-> IF k = key THEN c ELSE cs[k]]

-------------------------------------------------------------------------------
(* The end of a cluster *)

\* Mutant: the end of a cluster keeps the suppression of an earlier silence only.
TerminatedUnsuppressed(key, until) ==
  /\ bucket' = IF key \in Cells THEN [bucket EXCEPT ![key] = EmptyWindow] ELSE bucket
  /\ centroid' = [k \in DOMAIN centroid \ {key} |-> centroid[k]]
  /\ UNCHANGED suppressed

\* on_cluster_terminated of the detector that owns the key.
Terminated(key, until) ==
  /\ bucket' = IF key \in Cells THEN [bucket EXCEPT ![key] = EmptyWindow] ELSE bucket
  /\ centroid' = [k \in DOMAIN centroid \ {key} |-> centroid[k]]
  /\ suppressed' = [suppressed EXCEPT ![key] = until]

\* The cluster goes and its detector is told.
Dropped(key, until) ==
  /\ storeCluster[key] # "none"
  /\ storeCluster' = [storeCluster EXCEPT ![key] = "none"]
  /\ ours' = ours \ {key}
  /\ Terminated(key, until)

\* Mutant: the listeners are told already when the end is observed in the table.
ObservedEndTells(key) ==
  /\ storeCluster[key] = "open"
  /\ \E end \in {"promoted", "terminal"} :
       /\ storeCluster' = [storeCluster EXCEPT ![key] = end]
       /\ promoted' = IF end = "promoted" THEN promoted \cup {key} ELSE promoted
  /\ Terminated(key, 0) /\ UNCHANGED ours

\* sync_incident_status, mark_promoted: the cluster stays until the sweeper drops
\* it, and the listeners are told then.
ObservedEnd(key) ==
  /\ storeCluster[key] = "open"
  /\ \E end \in {"promoted", "terminal"} :
       /\ storeCluster' = [storeCluster EXCEPT ![key] = end]
       /\ promoted' = IF end = "promoted" THEN promoted \cup {key} ELSE promoted
  /\ UNCHANGED <<windowVars, ours>>

\* The routes and the sweeper's answer show the end of the incident.
EndIsSeen(key) ==
  /\ ObservedEnd(key)
  /\ UNCHANGED <<now, signals, lastHit, storeCooldown, unfinished, hit, written>>

\* mark_silenced.
Silence(key) ==
  /\ Dropped(key, now + Cooldown)
  /\ storeCooldown' = [storeCooldown EXCEPT ![key] = now + Cooldown]
  /\ UNCHANGED <<now, signals, lastHit, unfinished, hit, tableVars>>

\* The sweeper drops a cluster that was quiet, after closing its incident if that
\* is still open.
SweepDrops(key) ==
  /\ lastHit[key] + Quiet <= now
  /\ Dropped(key, 0)
  /\ UNCHANGED <<now, signals, lastHit, storeCooldown, unfinished, hit, tableVars>>

-------------------------------------------------------------------------------
(* The drain: one signal at a time through detect and handle *)

\* handle() decides at once: a cooldown drops the hit, a cluster whose incident has
\* ended absorbs it, an open one takes it as an update, otherwise an incident is
\* created.  create_incident takes the trigger time when it is first called; a later
\* try under the same id keeps it if the earlier one reached the table.
Hand(key, w) ==
  IF ~w.ignited \/ now < storeCooldown[key] THEN UNCHANGED <<storeVars, tableVars>>
  ELSE
  /\ storeCooldown' = [storeCooldown EXCEPT ![key] = 0]
  /\ \/ /\ storeCluster[key] \in {"promoted", "terminal"}
        /\ lastHit' = [lastHit EXCEPT ![key] = now]
        /\ UNCHANGED <<unfinished, hit, written>>
     \/ /\ storeCluster[key] = "open"
        /\ hit' = [act |-> "update", key |-> key, at |-> now, retry |-> FALSE]
        /\ UNCHANGED <<lastHit, unfinished, written>>
     \/ /\ storeCluster[key] = "none"
        /\ hit' = [act |-> "create", key |-> key, at |-> now, retry |-> key \in unfinished]
        /\ unfinished' = unfinished \cup {key}
        /\ \E trigger \in {now} \cup {written[k] : k \in unfinished \cap {key}} :
             written' = [written EXCEPT ![key] = trigger]
        /\ UNCHANGED lastHit
  /\ UNCHANGED <<storeCluster, ours, promoted>>

Arrives ==
  /\ hit = NoHit /\ signals < MaxSignals
  /\ signals' = signals + 1
  /\ UNCHANGED now

CellSignal(c) ==
  /\ Arrives
  /\ IF Suppresses(c)
     THEN UNCHANGED <<windowVars, storeVars, tableVars>>
     ELSE /\ Unsuppressed(c)
          /\ bucket' = [bucket EXCEPT ![c] = Accumulated(bucket[c])]
          /\ Hand(c, Accumulated(bucket[c]))
          /\ UNCHANGED centroid

\* The post joins the centroid it matches best.
PostMatches(p) ==
  /\ Arrives
  /\ \E k \in BestMatches(p) :
       IF Suppresses(k)
       THEN UNCHANGED <<windowVars, storeVars, tableVars>>
       ELSE LET c == Widened(centroid[k], p)
                w == Accumulated(c.window)
            IN  /\ Unsuppressed(k)
                /\ centroid' = With(centroid, k, [c EXCEPT !.window = w])
                /\ Hand(k, w)
                /\ UNCHANGED bucket

\* The post matches none: it starts a centroid under its own fingerprint, in place
\* of one that may be there.
PostStarts(p) ==
  /\ Arrives
  /\ BestMatches(p) = {}
  /\ IF Suppresses(p)
     THEN UNCHANGED <<windowVars, storeVars, tableVars>>
     ELSE LET w == Accumulated(EmptyWindow)
          IN  /\ Unsuppressed(p)
              /\ centroid' \in Evicted(With(centroid, p, [NewCentroid(p) EXCEPT !.window = w]))
              /\ Hand(p, w)
              /\ UNCHANGED bucket

\* The database call of the hit returns.  A failed create leaves the detector
\* ignited: the next signal is a hit again.  The record that a retry
\* returns may be an earlier try's, ended since.
CreateReturns ==
  /\ hit.act = "create"
  /\ \/ /\ \E outcome \in {"open"} \cup (IF hit.retry THEN {"promoted", "terminal"} ELSE {}) :
             /\ storeCluster' = [storeCluster EXCEPT ![hit.key] = outcome]
             /\ promoted' = IF outcome = "promoted" THEN promoted \cup {hit.key} ELSE promoted
        /\ ours' = ours \cup {hit.key}
        /\ lastHit' = [lastHit EXCEPT ![hit.key] = now]
        /\ unfinished' = unfinished \ {hit.key}
     \/ UNCHANGED <<storeCluster, ours, lastHit, unfinished, promoted>>
  /\ hit' = NoHit
  /\ UNCHANGED <<now, signals, windowVars, storeCooldown, written>>

\* The update was written, and refreshes a cluster that is still there and open.
UpdateApplied ==
  /\ written' = [written EXCEPT ![hit.key] = hit.at]
  /\ lastHit' = IF storeCluster[hit.key] = "open"
                THEN [lastHit EXCEPT ![hit.key] = Max({@, hit.at})] ELSE lastHit
  /\ UNCHANGED <<windowVars, storeCluster, ours, promoted>>

\* It raised, before or after it was written.
UpdateFailed ==
  /\ written' \in {written, [written EXCEPT ![hit.key] = hit.at]}
  /\ UNCHANGED <<windowVars, storeCluster, ours, lastHit, promoted>>

\* Its incident is not found: the cluster goes, if it is still there.
UpdateLost ==
  /\ Dropped(hit.key, 0)
  /\ UNCHANGED <<lastHit, tableVars>>

\* Its incident has ended.
UpdateLate ==
  /\ ObservedEnd(hit.key)
  /\ UNCHANGED <<lastHit, written>>

UpdateReturns ==
  /\ hit.act = "update"
  /\ UpdateApplied \/ UpdateFailed \/ UpdateLost \/ UpdateLate
  /\ hit' = NoHit
  /\ UNCHANGED <<now, signals, storeCooldown, unfinished>>

-------------------------------------------------------------------------------
(* Time and restarts *)

TimePasses ==
  /\ now < MaxNow
  /\ now' = now + 1
  /\ UNCHANGED <<signals, windowVars, storeVars, tableVars>>

\* What _rehydrate may make of a key: open and promoted rows are clusters again, also
\* those of creates that returned nothing; an incident that has ended is not read.
ReadBack(key) ==
  LET known == storeCluster[key] = "open" \/ key \in unfinished
  IN  (IF known THEN {"open", "promoted"} ELSE {})
        \cup (IF key \in promoted THEN {"promoted"} ELSE {"none"})

\* The backend restarts: detectors, cooldowns and pending creates are empty, the
\* clusters are read back with the last event of their timelines.
Restarts ==
  /\ bucket' = [c \in Cells |-> EmptyWindow]
  /\ centroid' = <<>>
  /\ suppressed' = [k \in HitKeys |-> 0]
  /\ storeCooldown' = [k \in HitKeys |-> 0]
  /\ storeCluster' \in {f \in [HitKeys -> {"none", "open", "promoted"}] : \A k \in HitKeys : f[k] \in ReadBack(k)}
  /\ promoted' = promoted \cup {k \in HitKeys : storeCluster'[k] = "promoted"}
  /\ lastHit' = written
  /\ ours' = {} /\ unfinished' = {} /\ hit' = NoHit
  /\ UNCHANGED <<now, signals, written>>

-------------------------------------------------------------------------------

DetectorsInit ==
  /\ now = 1 /\ signals = 0
  /\ bucket = [c \in Cells |-> EmptyWindow]
  /\ centroid = <<>>
  /\ suppressed = [k \in HitKeys |-> 0] /\ storeCooldown = [k \in HitKeys |-> 0]
  /\ storeCluster = [k \in HitKeys |-> "none"] /\ lastHit = [k \in HitKeys |-> 0]
  /\ ours = {} /\ unfinished = {} /\ hit = NoHit
  /\ written = [k \in HitKeys |-> 0] /\ promoted = {}

DetectorsNext ==
  \/ \E c \in Cells : CellSignal(c)
  \/ \E p \in Posts : PostMatches(p) \/ PostStarts(p)
  \/ CreateReturns \/ UpdateReturns
  \/ \E k \in HitKeys : Silence(k) \/ SweepDrops(k) \/ EndIsSeen(k)
  \/ TimePasses \/ Restarts

DetectorsSpec == DetectorsInit /\ [][DetectorsNext]_detectorVars

-------------------------------------------------------------------------------
(* Properties *)

\* The two lines of defence against a silenced burst agree: detector and store
\* refuse a key until the same moment, also after drops, expiry and a restart.
LayersAgree ==
  \A k \in HitKeys :
    now < suppressed[k] \/ now < storeCooldown[k] => suppressed[k] = storeCooldown[k]

\* While a cluster that this process opened is in the store, its cell is ignited:
\* every signal of the cell reaches the store, so the sweeper does not take a
\* burst for quiet that goes on.
OpenCellStaysIgnited ==
  \A c \in Cells \cap ours : bucket[c].ignited

\* As the design and the test of it have it: after a restart the first signal of a
\* rehydrated cluster updates its incident.
FirstSignalUpdates ==
  [][\A c \in Cells :
       storeCluster[c] = "open" /\ bucket'[c].times # bucket[c].times /\ bucket'[c].times # <<>>
         => hit'.act = "update"]_detectorVars

===============================================================================
